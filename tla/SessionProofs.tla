--------------------------- MODULE SessionProofs ----------------------------
(***************************************************************************)
(* For any set of requests, any accounts and any number of session         *)
(* transitions: the queue and its one refresh belong together, and the     *)
(* settings belong to the session that is shown.  The same for the shared  *)
(* refresh of the repair client.  For any variables, presets and sheets,   *)
(* no color of an earlier choice is left over.                             *)
(***************************************************************************)
EXTENDS Session, RepairClient, Appearance, FiniteSetTheorems, TLAPS

RequestType == [at : {"none", "sent", "queued", "refreshing"}, asks : FromPages \cup WhoAmI,
                as : Account \cup {Nobody}, since : Nat]

At(q, state) == request[q].at = state

(* isRefreshing is TRUE when one request waits for the answer to the       *)
(* refresh that it asked for, and only then others are queued.             *)
QueueInv ==
  /\ request \in [Pending -> RequestType]
  /\ jar \in Account \cup {Nobody} /\ refreshOf \in Account \cup {Nobody}
  /\ isRefreshing \in BOOLEAN
  /\ \A q \in Pending : At(q, "refreshing") \/ At(q, "queued") => isRefreshing
  /\ isRefreshing => \E q \in Pending : At(q, "refreshing")
  /\ \A p, q \in Pending : At(p, "refreshing") /\ At(q, "refreshing") => p = q

SettingsInv ==
  /\ sessionVersion \in Nat
  /\ settings = Defaults \/ settings.since = sessionVersion

---------------------------------------------------------------------------
(* The requests.                                                           *)

(* Nothing waits in the beginning.                                         *)
LEMMA QueueInitInv == SessionInit => QueueInv
<1>1. Blank \in RequestType /\ Blank.at = "none"
  BY DEF Blank, RequestType, FromPages
<1> QED
  BY <1>1 DEF SessionInit, QueueInv, At

(* A request that neither waited nor will wait changes nothing for those   *)
(* that do: it is sent, answered, or fails.                                *)
LEMMA QueueUntouched ==
  ASSUME QueueInv, NEW q \in Pending, NEW r \in RequestType,
         ~At(q, "refreshing"), r.at \in {"none", "sent"},
         request' = [request EXCEPT ![q] = r], jar' \in Account \cup {Nobody},
         UNCHANGED <<isRefreshing, refreshOf>>
  PROVE  QueueInv'
<1>1. request' \in [Pending -> RequestType]
  BY DEF QueueInv
<1>2. \A p \in Pending \ {q} : request'[p] = request[p]
  BY DEF QueueInv
<1>3. request'[q].at \in {"none", "sent"}
  BY DEF QueueInv
<1> QED
  BY <1>1, <1>2, <1>3 DEF QueueInv, At

(* drainQueue leaves nobody waiting, whether the refresh succeeded or not. *)
LEMMA QueueDrained ==
  ASSUME QueueInv, NEW success \in BOOLEAN,
         request' = Drained(success), isRefreshing' = FALSE,
         jar' \in Account \cup {Nobody}, refreshOf' = Nobody
  PROVE  QueueInv'
<1>1. ASSUME NEW q \in Pending
      PROVE  request'[q] \in RequestType /\ request'[q].at \in {"none", "sent"}
  <2>1. request[q] \in RequestType
    BY DEF QueueInv
  <2>2. CASE request[q].at \in {"queued", "refreshing"} /\ success
    <3>1. request'[q] = [request[q] EXCEPT !.at = "sent", !.as = refreshOf]
      BY <2>2 DEF Drained
    <3> QED
      BY <2>1, <3>1 DEF RequestType, QueueInv
  <2>3. CASE request[q].at \in {"queued", "refreshing"} /\ ~success
    <3>1. request'[q] = Blank
      BY <2>3 DEF Drained
    <3> QED
      BY <3>1 DEF RequestType, Blank, FromPages
  <2>4. CASE request[q].at \notin {"queued", "refreshing"}
    <3>1. request'[q] = request[q]
      BY <2>4 DEF Drained
    <3> QED
      BY <2>1, <2>4, <3>1 DEF RequestType
  <2> QED
    BY <2>2, <2>3, <2>4
<1>2. request' \in [Pending -> RequestType]
  <2>1. request' = [q \in Pending |-> request'[q]]
    BY DEF Drained
  <2> QED
    BY <1>1, <2>1
<1> QED
  BY <1>1, <1>2 DEF QueueInv, At

(* A refused request waits for the refresh on its way, or asks for one.    *)
LEMMA QueueRefused ==
  ASSUME QueueInv, NEW q \in Pending, RequestRefused(q)
  PROVE  QueueInv'
<1>1. request[q] \in RequestType
  BY DEF QueueInv
<1>2. CASE isRefreshing
  <2>1. request' = [request EXCEPT ![q] = [request[q] EXCEPT !.at = "queued"]]
    BY <1>2 DEF RequestRefused, MustWait
  <2>2. request' \in [Pending -> RequestType]
    BY <1>1, <2>1 DEF QueueInv, RequestType
  <2>3. \A p \in Pending \ {q} : request'[p] = request[p]
    BY <2>1 DEF QueueInv
  <2>4. request'[q].at = "queued" /\ request[q].at = "sent"
    BY <1>1, <2>1 DEF QueueInv, RequestType, RequestRefused
  <2>5. isRefreshing' /\ UNCHANGED <<jar, refreshOf>>
    BY <1>2 DEF RequestRefused, MustWait, SameServer
  <2> QED
    BY <1>2, <2>2, <2>3, <2>4, <2>5 DEF QueueInv, At
<1>3. CASE ~isRefreshing
  <2>1. request' = [request EXCEPT ![q] = [request[q] EXCEPT !.at = "refreshing"]]
    BY <1>3 DEF RequestRefused, MustWait
  <2>2. request' \in [Pending -> RequestType]
    BY <1>1, <2>1 DEF QueueInv, RequestType
  <2>3. \A p \in Pending \ {q} : request'[p] = request[p] /\ ~At(p, "refreshing")
    BY <1>3, <2>1 DEF QueueInv
  <2>4. request'[q].at = "refreshing"
    BY <1>1, <2>1 DEF QueueInv, RequestType
  <2>5. isRefreshing' = TRUE /\ jar' = jar /\ refreshOf' = jar
    BY <1>3 DEF RequestRefused, MustWait, SameServer
  <2> QED
    BY <2>2, <2>3, <2>4, <2>5 DEF QueueInv, At
<1> QED
  BY <1>2, <1>3 DEF QueueInv

(* Every step of the client, the user and the server.                      *)
LEMMA QueueStepInv ==
  ASSUME QueueInv, sessionVersion \in Nat, [SessionNext]_sessionVars
  PROVE  QueueInv'
<1>1. Blank \in RequestType /\ Blank.at = "none"
  BY DEF Blank, RequestType, FromPages
<1>2. ASSUME NEW q \in Pending, NEW r \in RequestType, r.at = "sent", request[q] = Blank,
             request' = [request EXCEPT ![q] = r], jar' \in Account \cup {Nobody},
             UNCHANGED <<isRefreshing, refreshOf>>
      PROVE  QueueInv'
  BY <1>1, <1>2, QueueUntouched DEF At
<1>3. ASSUME NEW q \in Pending, NEW asks \in FromPages, SendRequest(q, asks)
      PROVE  QueueInv'
  <2>1. Sent(asks) \in RequestType /\ Sent(asks).at = "sent"
    BY DEF Sent, RequestType, QueueInv
  <2> QED
    BY <1>2, <1>3, <2>1 DEF SendRequest, SameServer, QueueInv
<1>4. ASSUME NEW q \in Pending, NEW u \in Account, LoginAnswered(u, q)
      PROVE  QueueInv'
  <2> DEFINE r == [Sent("signIn") EXCEPT !.as = u]
  <2>1. r \in RequestType /\ r.at = "sent"
    BY DEF Sent, RequestType, WhoAmI
  <2>2. request[q] = Blank /\ request' = [request EXCEPT ![q] = r] /\ jar' = u
        /\ UNCHANGED <<isRefreshing, refreshOf>>
    BY <1>4 DEF LoginAnswered
  <2> HIDE DEF r
  <2> QED
    BY <1>2, <2>1, <2>2
<1>5. ASSUME NEW q \in Pending, RequestAnswered(q) \/ WhoAmIAnswered(q) \/ RequestFails(q)
      PROVE  QueueInv'
  <2>1. /\ request' = [request EXCEPT ![q] = Blank]
        /\ ~At(q, "refreshing")
        /\ UNCHANGED <<jar, isRefreshing, refreshOf>>
    BY <1>5 DEF RequestAnswered, WhoAmIAnswered, RequestFails, Accepted, SameServer, At
  <2> QED
    BY <1>1, <2>1, QueueUntouched DEF QueueInv
<1>6. ASSUME NEW q \in Pending, PasswordChanged(q)
      PROVE  QueueInv'
  <2> DEFINE r == [request[q] EXCEPT !.asks = "renew"]
  <2>1. request[q] \in RequestType /\ request[q].at = "sent"
    BY <1>6 DEF PasswordChanged, Accepted, QueueInv
  <2>2. r \in RequestType /\ r.at = "sent"
    BY <2>1 DEF RequestType, WhoAmI
  <2>3. request' = [request EXCEPT ![q] = r] /\ jar' = request[q].as
        /\ UNCHANGED <<isRefreshing, refreshOf>>
    BY <1>6 DEF PasswordChanged
  <2>4. jar' \in Account \cup {Nobody}
    BY <2>1, <2>3 DEF RequestType
  <2>5. ~At(q, "refreshing")
    BY <2>1 DEF At
  <2> HIDE DEF r
  <2> QED
    BY <2>2, <2>3, <2>4, <2>5, QueueUntouched
<1>7. ASSUME NEW q \in Pending, RequestRefused(q)
      PROVE  QueueInv'
  BY <1>7, QueueRefused
<1>8. CASE RefreshAnswered
  BY <1>8, QueueDrained DEF RefreshAnswered, QueueInv
<1>9. CASE RefreshFails
  BY <1>9, QueueDrained DEF RefreshFails, SameServer, QueueInv
<1>10. CASE Reload
  BY <1>1, <1>10 DEF Reload, SameServer, QueueInv, At
<1>11. CASE SignOut \/ AccessExpires \/ RefreshRevoked \/ UNCHANGED sessionVars
  <2>1. UNCHANGED <<request, jar, isRefreshing, refreshOf>>
    BY <1>11 DEF SignOut, SameServer, AccessExpires, RefreshRevoked, sessionVars
  <2> QED
    BY <2>1 DEF QueueInv, At
<1> QED
  BY <1>3, <1>4, <1>5, <1>6, <1>7, <1>8, <1>9, <1>10, <1>11 DEF SessionNext

---------------------------------------------------------------------------
(* The settings.                                                           *)

(* The settings of the hotel begin as the defaults.                        *)
LEMMA SettingsInitInv == SessionInit => SettingsInv
BY DEF SessionInit, SettingsInv

(* A transition drops the settings, and an answer is kept only when no     *)
(* transition came after its question.                                     *)
LEMMA SettingsStepInv == SettingsInv /\ [SessionNext]_sessionVars => SettingsInv'
<1> SUFFICES ASSUME SettingsInv, [SessionNext]_sessionVars
             PROVE  SettingsInv'
  OBVIOUS
<1>1. ASSUME NEW u, Transition(u)
      PROVE  SettingsInv'
  BY <1>1 DEF Transition, SettingsInv, Defaults
<1>2. CASE UNCHANGED <<sessionVersion, settings>>
  BY <1>2 DEF SettingsInv, Defaults
<1>3. ASSUME NEW q \in Pending, RequestAnswered(q)
      PROVE  SettingsInv'
  <2>1. CASE request[q].asks = "settings" /\ ~Discarded(q)
    <3>1. settings'.since = sessionVersion /\ UNCHANGED sessionVersion
      BY <1>3, <2>1 DEF RequestAnswered, Discarded
    <3> QED
      BY <3>1 DEF SettingsInv
  <2>2. CASE ~(request[q].asks = "settings" /\ ~Discarded(q))
    <3>1. UNCHANGED <<sessionVersion, settings>>
      BY <1>3, <2>2 DEF RequestAnswered
    <3> QED
      BY <1>2, <3>1
  <2> QED
    BY <2>1, <2>2
<1>4. CASE RefreshFails
  BY <1>1, <1>2, <1>4 DEF RefreshFails, PerformLogout, SameUser
<1>5. CASE Reload
  BY <1>5 DEF Reload, SettingsInv, Defaults
<1>6. ASSUME SignOut \/ \E q \in Pending : WhoAmIAnswered(q)
      PROVE  SettingsInv'
  BY <1>1, <1>6 DEF SignOut, WhoAmIAnswered
<1>7. CASE \/ \E q \in Pending : \/ \E asks \in FromPages : SendRequest(q, asks)
                                 \/ \E u \in Account : LoginAnswered(u, q)
                                 \/ PasswordChanged(q) \/ RequestFails(q) \/ RequestRefused(q)
           \/ RefreshAnswered
           \/ AccessExpires \/ RefreshRevoked
           \/ UNCHANGED sessionVars
  BY <1>2, <1>7 DEF SendRequest, PasswordChanged, RequestFails, RequestRefused, RefreshAnswered,
                    LoginAnswered, AccessExpires, RefreshRevoked, SameUser, sessionVars
<1> QED
  BY <1>3, <1>4, <1>5, <1>6, <1>7 DEF SessionNext

---------------------------------------------------------------------------
(* Both invariants hold in every state.                                    *)
LEMMA SessionInvariant == SessionSpec => [](QueueInv /\ SettingsInv)
<1>1. SessionInit => QueueInv /\ SettingsInv
  BY QueueInitInv, SettingsInitInv
<1>2. QueueInv /\ SettingsInv /\ [SessionNext]_sessionVars => (QueueInv /\ SettingsInv)'
  <2>1. SettingsInv => sessionVersion \in Nat
    BY DEF SettingsInv
  <2> QED
    BY <2>1, QueueStepInv, SettingsStepInv
<1> QED
  BY <1>1, <1>2, PTL DEF SessionSpec

(* However many requests are refused while a refresh is on its way, there  *)
(* is one refresh: the interceptor of services/api.ts never spends the     *)
(* refresh token twice.                                                    *)
THEOREM AtMostOneRefresh == SessionSpec => []OneRefresh
<1>1. ASSUME QueueInv
      PROVE  OneRefresh
  <2> DEFINE S == {q \in Pending : request[q].at = "refreshing"}
  <2>1. \A p, q \in S : p = q
    BY <1>1 DEF QueueInv, At
  <2>2. CASE S = {}
    BY <2>2, FS_EmptySet DEF OneRefresh
  <2>3. CASE S # {}
    <3>1. PICK q \in S : TRUE
      BY <2>3
    <3>2. S = {q}
      BY <2>1, <3>1
    <3>3. Cardinality({q}) = 1
      BY FS_Singleton
    <3> HIDE DEF S
    <3>4. Cardinality(S) <= 1
      BY <3>2, <3>3
    <3> QED
      BY <3>4 DEF OneRefresh, S
  <2> QED
    BY <2>2, <2>3
<1> QED
  BY <1>1, SessionInvariant, PTL

(* A queued request has a refresh to wait for: drainQueue is always to     *)
(* come, whatever fails or is left meanwhile.                              *)
THEOREM NobodyForgotten == SessionSpec => []NothingLeftQueued
<1>1. QueueInv => NothingLeftQueued
  BY DEF QueueInv, NothingLeftQueued, At
<1> QED
  BY <1>1, SessionInvariant, PTL

(* The settings that are shown were asked for in this session, for any     *)
(* number of sign-ins of any accounts.                                     *)
THEOREM SettingsOfTheSession == SessionSpec => []SettingsOfThisSession
<1>1. SettingsInv => SettingsOfThisSession
  BY DEF SettingsInv, SettingsOfThisSession
<1> QED
  BY <1>1, SessionInvariant, PTL

---------------------------------------------------------------------------
(* The repair client: for any set of requests, one refresh at a time,      *)
(* shared by all who wait, and no request sent more than twice.            *)

(* What a request waits for tells how often it was sent.                   *)
SentSoFar ==
  /\ fetch \in [Fetch -> {"none", "first", "refresh", "second"}]
  /\ attempts \in [Fetch -> 0..2]
  /\ \A f \in Fetch : /\ fetch[f] = "none" => attempts[f] = 0
                      /\ fetch[f] \in {"first", "refresh"} => attempts[f] = 1

(* There is a refresh on its way when refreshInFlight says so, and only     *)
(* then a request waits for one.                                           *)
Shared ==
  /\ refreshInFlight \in BOOLEAN
  /\ refreshInFlight => refreshes = 1
  /\ ~refreshInFlight => refreshes = 0
  /\ \A f \in Fetch : Waiting(f) => refreshInFlight

ClientInv == SentSoFar /\ Shared

(* The invariant holds in the beginning.                                   *)
LEMMA ClientInitInv == ClientInit => ClientInv
<1>1. ClientInit => SentSoFar
  BY DEF ClientInit, SentSoFar
<1>2. ClientInit => Shared
  BY DEF ClientInit, Shared, Waiting
<1> QED
  BY <1>1, <1>2 DEF ClientInv

(* Every step of raw and refreshSession preserves it.                      *)
LEMMA ClientStepInv == ClientInv /\ [ClientNext]_clientVars => ClientInv'
<1> SUFFICES ASSUME SentSoFar, Shared, [ClientNext]_clientVars
             PROVE  SentSoFar' /\ Shared'
  BY DEF ClientInv
<1>1. ASSUME NEW f \in Fetch, StartFetch(f)
      PROVE  SentSoFar' /\ Shared'
  BY <1>1 DEF StartFetch, SentSoFar, Shared, Waiting
<1>2. ASSUME NEW f \in Fetch, FetchEnds(f)
      PROVE  SentSoFar' /\ Shared'
  BY <1>2 DEF FetchEnds, Finished, SentSoFar, Shared, Waiting
<1>3. ASSUME NEW f \in Fetch, FetchRefused(f)
      PROVE  SentSoFar' /\ Shared'
  <2>1. CASE Retries(f)
    <3>1. SentSoFar'
      BY <1>3, <2>1 DEF FetchRefused, Retries, SentSoFar
    <3>2. refreshInFlight' = TRUE /\ refreshes' = 1
      BY <1>3, <2>1 DEF FetchRefused, RefreshSession, Shared
    <3> QED
      BY <3>1, <3>2 DEF Shared
  <2>2. CASE ~Retries(f)
    BY <1>3, <2>2 DEF FetchRefused, Finished, SentSoFar, Shared, Waiting
  <2> QED
    BY <2>1, <2>2
<1>4. CASE RefreshOk
  <2>1. SentSoFar'
    BY <1>4 DEF RefreshOk, SentSoFar, Waiting
  <2>2. \A f \in Fetch : ~Waiting(f)'
    BY <1>4 DEF RefreshOk, SentSoFar, Waiting
  <2>3. refreshInFlight' = FALSE /\ refreshes' = 0
    BY <1>4 DEF RefreshOk, Shared
  <2> QED
    BY <2>1, <2>2, <2>3 DEF Shared
<1>5. CASE RefreshNotOk
  <2>1. SentSoFar'
    BY <1>5 DEF RefreshNotOk, SentSoFar, Waiting
  <2>2. \A f \in Fetch : ~Waiting(f)'
    BY <1>5 DEF RefreshNotOk, SentSoFar, Waiting
  <2>3. refreshInFlight' = FALSE /\ refreshes' = 0
    BY <1>5 DEF RefreshNotOk, Shared
  <2> QED
    BY <2>1, <2>2, <2>3 DEF Shared
<1>6. CASE UNCHANGED clientVars
  BY <1>6 DEF clientVars, SentSoFar, Shared, Waiting
<1> QED
  BY <1>1, <1>2, <1>3, <1>4, <1>5, <1>6 DEF ClientNext

(* raw sends a request at most twice, and the requests refused while a     *)
(* refresh is on its way share it, for any number of them.                 *)
THEOREM OneSharedRefresh == ClientSpec => []RefreshShared
<1>1. ClientInv => RefreshShared
  BY DEF ClientInv, SentSoFar, Shared, RefreshShared, Waiting
<1> QED
  BY <1>1, ClientInitInv, ClientStepInv, PTL DEF ClientSpec

---------------------------------------------------------------------------
(* The appearance: what the document shows belongs to what is selected and *)
(* to the mode that is on.                                                 *)


(* What vars may hold when s is applied in a mode.                         *)
Belongs(vars, s, mode) ==
  \A v \in Variable :
    vars[v] \in {Unset, ByHand} \cup {<<x, mode>> : x \in {s} \ {Unselected}}

Selectable(s) ==
  \/ s = Unselected
  \/ s.kind = "import"
  \/ s # Unselected /\ s.kind \in {"shadcn", "tweakcn"}

LookInv ==
  /\ Selectable(selected)
  /\ css = [v \in Variable |-> css[v]]
  /\ selected.kind # "import" => Belongs(css, selected, Mode)

(* A preset, whatever it is applied over.                                  *)
LEMMA PresetBelongs ==
  ASSUME NEW vars, NEW s, NEW mode, Selectable(s), s.kind # "import", s # Unselected
  PROVE  LET new == Reapplied(vars, s, mode) IN
         new = [v \in Variable |-> new[v]] /\ Belongs(new, s, mode)
<1>1. s.kind \in {"shadcn", "tweakcn"}
  BY DEF Selectable
<1>2. Reapplied(vars, s, mode) = Applied(ResetTheme(vars), s, Styles[s.of][mode], mode)
  BY <1>1 DEF Reapplied, ApplyPreset
<1>3. \A v \in Variable : ResetTheme(vars)[v] = Unset
  BY DEF ResetTheme
<1> QED
  BY <1>2, <1>3 DEF Applied, Belongs

(* Whatever is applied, the document keeps its variables.                  *)
LEMMA StillVariables ==
  ASSUME NEW vars, NEW s, NEW mode, Selectable(s), vars = [v \in Variable |-> vars[v]]
  PROVE  LET new == Reapplied(vars, s, mode) IN new = [v \in Variable |-> new[v]]
<1>1. CASE s.kind = "none"
  BY <1>1 DEF Reapplied
<1>2. CASE s.kind = "import"
  <2>1. Reapplied(vars, s, mode) = Applied(vars, s, s.of[mode], mode)
    BY <1>2 DEF Reapplied, ApplyImportedTheme
  <2> QED
    BY <2>1 DEF Applied
<1>3. CASE s.kind \notin {"none", "import"}
  BY <1>3, PresetBelongs DEF Unselected, Selectable
<1> QED
  BY <1>1, <1>2, <1>3

(* What is chosen can be applied.                                          *)
LEMMA PresetSelectable ==
  ASSUME NEW p
  PROVE  Selectable(Preset(p)) /\ Preset(p) # Unselected /\ Preset(p).kind # "import"
BY DEF Preset, Selectable, Unselected

(* The document begins with the default preset.                            *)
LEMMA LookInitInv == AppearanceInit => LookInv
<1> SUFFICES ASSUME AppearanceInit
             PROVE  LookInv
  OBVIOUS
<1>1. selected = Preset(DefaultTheme) /\ css = Reapplied([v \in Variable |-> Unset], selected, Mode)
  BY DEF AppearanceInit
<1> QED
  BY <1>1, PresetSelectable, PresetBelongs DEF LookInv

(* A variable is picked by hand.                                           *)
LEMMA PickedByHand ==
  ASSUME LookInv, NEW v \in Variable, css' = [css EXCEPT ![v] = ByHand],
         UNCHANGED <<selected, theme, systemDark>>
  PROVE  LookInv'
<1>1. \A x \in Variable : css'[x] = IF x = v THEN ByHand ELSE css[x]
  BY DEF LookInv
<1>2. css' = [x \in Variable |-> css'[x]]
  BY DEF LookInv
<1>3. Mode' = Mode
  BY DEF Mode, ModeOf
<1> QED
  BY <1>1, <1>2, <1>3 DEF LookInv, Belongs

(* The theme changes, and the mode with it or not.                         *)
LEMMA ThemeStep ==
  ASSUME LookInv, NEW t, SetTheme(t)
  PROVE  LookInv'
<1>1. /\ UNCHANGED <<selected, systemDark>> /\ theme' = t
      /\ Mode' = ModeOf(t)
  BY DEF SetTheme, Mode, ModeOf
<1>2. CASE ModeOf(t) = Mode
  <2>1. UNCHANGED css
    BY <1>2 DEF SetTheme
  <2> QED
    BY <1>1, <1>2, <2>1 DEF LookInv
<1>3. CASE ModeOf(t) # Mode
  <2>1. css' = Reapplied(css, selected, ModeOf(t))
    BY <1>3 DEF SetTheme
  <2>2. css' = [v \in Variable |-> css'[v]]
    BY <2>1, StillVariables DEF LookInv
  <2>3. CASE selected = Unselected
    <3>1. css' = css
      BY <2>1, <2>3 DEF Reapplied, Unselected
    <3>2. \A v \in Variable : css[v] \in {Unset, ByHand}
      BY <2>3 DEF LookInv, Belongs, Unselected
    <3>3. Belongs(css', selected', Mode')
      BY <3>1, <3>2 DEF Belongs
    <3> QED
      BY <1>1, <2>2, <3>3 DEF LookInv
  <2>4. CASE selected # Unselected /\ selected.kind # "import"
    <3>1. Belongs(css', selected, ModeOf(t))
      BY <2>1, <2>4, PresetBelongs DEF LookInv
    <3> QED
      BY <1>1, <2>2, <3>1 DEF LookInv
  <2>5. CASE selected.kind = "import"
    BY <1>1, <2>2, <2>5 DEF LookInv
  <2> QED
    BY <2>3, <2>4, <2>5
<1> QED
  BY <1>2, <1>3

(* Every step of the panel and of the buttons.                             *)
LEMMA LookStepInv == LookInv /\ [AppearanceNext]_appearanceVars => LookInv'
<1> SUFFICES ASSUME LookInv, [AppearanceNext]_appearanceVars
             PROVE  LookInv'
  OBVIOUS
<1>1. "radius" \in Variable /\ Brand \subseteq Variable
  BY StylesAssumption
<1>2. UNCHANGED <<theme, systemDark>> => Mode' = Mode
  BY DEF Mode, ModeOf
<1>3. CASE ChoosePreset
  <2>1. PICK p : Select(Preset(p))
    BY <1>3 DEF ChoosePreset
  <2>2. selected' = Preset(p) /\ css' = Reapplied(css, Preset(p), Mode) /\ Mode' = Mode
    BY <1>2, <1>3, <2>1 DEF ChoosePreset, Select, SameTheme
  <2> QED
    BY <2>2, PresetSelectable, PresetBelongs DEF LookInv
<1>4. CASE SelectRadius
  BY <1>1, <1>4, PickedByHand DEF SelectRadius, SameTheme
<1>5. ASSUME NEW v \in Brand, PickColor(v)
      PROVE  LookInv'
  BY <1>1, <1>5, PickedByHand DEF PickColor, SameTheme
<1>6. CASE HandleReset
  <2>1. /\ css' = [v \in Variable |-> IF v = "radius" THEN ByHand ELSE Unset]
        /\ selected' = Unselected
    BY <1>1, <1>6 DEF HandleReset, ResetTheme
  <2> QED
    BY <2>1 DEF LookInv, Selectable, Belongs
<1>7. CASE ProcessImport
  <2>1. /\ selected' = Imported(importText)
        /\ css' = Reapplied(css, Imported(importText), Mode)
    BY <1>7 DEF ProcessImport, Select
  <2>2. Selectable(Imported(importText)) /\ Imported(importText).kind = "import"
    BY DEF Imported, Selectable
  <2> QED
    BY <2>1, <2>2, StillVariables DEF LookInv
<1>8. CASE TransitionShows \/ ModeToggle \/ NavbarToggle
  BY <1>8, ThemeStep DEF TransitionShows, ModeToggle, NavbarToggle
<1>9. CASE UNCHANGED <<theme, systemDark, selected, css>>
  BY <1>2, <1>9 DEF LookInv
<1>10. CASE \/ OpenImport \/ TypeSheet \/ CloseImport
            \/ \E wanted \in Modes : ToggleTheme(wanted)
            \/ UNCHANGED appearanceVars
  BY <1>9, <1>10 DEF OpenImport, TypeSheet, CloseImport, ToggleTheme, SameTheme, appearanceVars
<1> QED
  BY <1>3, <1>4, <1>5, <1>6, <1>7, <1>8, <1>10
  DEF AppearanceNext, ThemeTab, ModeButtons, ImportModal

(* useThemeManager leaves nothing of another preset, an import or another  *)
(* mode in the document, in whatever order they follow each other.         *)
THEOREM NothingLeftOver == AppearanceSpec => []NoColorLeftOver
<1>1. LookInv => NoColorLeftOver
  BY DEF LookInv, Belongs, NoColorLeftOver
<1> QED
  BY <1>1, LookInitInv, LookStepInv, PTL DEF AppearanceSpec
=============================================================================
