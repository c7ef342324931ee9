------------------------------ MODULE Session -------------------------------
(***************************************************************************)
(* The session of the hotel client: services/api.ts, which renews the      *)
(* access token behind a request that was refused and sends the request    *)
(* again, store/authStore.ts, and the settings of the hotel that           *)
(* store/settingsStore.ts keeps for the session (src/frontend/src).        *)
(*                                                                         *)
(* The server (auth-service) is what the client sees of it: the account of *)
(* the cookies, and whether the access token and the refresh token in them *)
(* are still good.                                                         *)
(***************************************************************************)
EXTENDS Naturals, FiniteSets

CONSTANTS
  Pending,      \* the requests that can be on their way
  Account,
  MaxSessions,  \* bound: session transitions before the page is loaded anew
  Nobody        \* nobody is signed in; the default settings

ASSUME NobodyAssumption == Nobody \notin Account

VARIABLES
  jar, accessGood, refreshGood,  \* the cookies: their account, and what they are worth
  user,             \* authStore's user
  path,             \* "app" or "login"
  leaving,          \* the browser was told to load the login page
  sessionVersion, settings,
  request,          \* request -> its state
  isRefreshing, refreshOf  \* the refresh on its way, and its account

sessionVars == <<jar, accessGood, refreshGood, user, path, leaving, sessionVersion,
                 settings, request, isRefreshing, refreshOf>>

(* What a request asks for: anything a page needs, the settings of the     *)
(* hotel, another password, or who is signed in, on the way of a sign-in   *)
(* or of another password.                                                 *)
FromPages == {"page", "settings", "password"}
WhoAmI    == {"signIn", "renew"}
Blank == [at |-> "none", asks |-> "page", as |-> Nobody, since |-> 0]
Defaults == [of |-> Nobody, since |-> 0]

SessionInit ==
  /\ jar = Nobody /\ accessGood = FALSE /\ refreshGood = FALSE
  /\ user = Nobody
  /\ path = "login" /\ leaving = FALSE
  /\ sessionVersion = 0 /\ settings = Defaults
  /\ request = [q \in Pending |-> Blank]
  /\ isRefreshing = FALSE /\ refreshOf = Nobody

(* A session transition: another user object, also of the same account.    *)
Transition(u) ==
  /\ user' = u
  /\ sessionVersion' = sessionVersion + 1
  /\ settings' = Defaults
SameUser == UNCHANGED <<user, sessionVersion, settings>>
SameServer == UNCHANGED <<jar, accessGood, refreshGood>>

(* A request goes with the cookies there are.                              *)
Sent(asks) == [at |-> "sent", asks |-> asks, as |-> jar, since |-> sessionVersion]

SendRequest(q, asks) ==
  /\ path = "app" /\ user # Nobody
  /\ asks = "password" => sessionVersion < MaxSessions
  /\ request[q] = Blank
  /\ request' = [request EXCEPT ![q] = Sent(asks)]
  /\ SameServer /\ SameUser
  /\ UNCHANGED <<path, leaving, isRefreshing, refreshOf>>

(* Mutant: the answer counts whenever it was asked for. *)
NeverDiscarded(q) == FALSE

(* The settings are kept unless the session changed since they were asked. *)
Discarded(q) == request[q].since # sessionVersion

(* Its token was still good; of those that were replaced nothing is known.  *)
Accepted(q) == request[q].at = "sent" /\ (accessGood \/ request[q].as # jar)

RequestAnswered(q) ==
  /\ Accepted(q)
  /\ request[q].asks \in {"page", "settings"}
  /\ request' = [request EXCEPT ![q] = Blank]
  /\ settings' = IF request[q].asks = "settings" /\ ~Discarded(q)
                 THEN [of |-> request[q].as, since |-> request[q].since] ELSE settings
  /\ SameServer
  /\ UNCHANGED <<user, sessionVersion, path, leaving, isRefreshing, refreshOf>>

(* The password was changed: new tokens, and the page asks who-am-I.       *)
PasswordChanged(q) ==
  /\ Accepted(q)
  /\ request[q].asks = "password"
  /\ jar' = request[q].as /\ accessGood' = TRUE /\ refreshGood' = TRUE
  /\ request' = [request EXCEPT ![q].asks = "renew"]
  /\ SameUser
  /\ UNCHANGED <<path, leaving, isRefreshing, refreshOf>>

(* Who-am-I answers for the account that asked, and the page navigates: a  *)
(* late answer also after the user has signed out.                         *)
WhoAmIAnswered(q) ==
  /\ Accepted(q)
  /\ request[q].asks \in WhoAmI
  /\ request' = [request EXCEPT ![q] = Blank]
  /\ Transition(request[q].as)
  /\ path' = "app"
  /\ SameServer
  /\ UNCHANGED <<leaving, isRefreshing, refreshOf>>

RequestFails(q) ==
  /\ request[q].at = "sent"
  /\ request' = [request EXCEPT ![q] = Blank]
  /\ SameServer /\ SameUser
  /\ UNCHANGED <<path, leaving, isRefreshing, refreshOf>>

(* Mutant: each refused request asks for its own refresh. *)
NeverWait == FALSE

(* 401: the access token had expired when the request came, or the request *)
(* itself is answered so (a wrong current password).  The first one asks   *)
(* for a refresh, the others wait for its outcome; who-am-I is no          *)
(* exception.                                                              *)
MustWait == isRefreshing

RequestRefused(q) ==
  /\ request[q].at = "sent"
  /\ IF MustWait
     THEN /\ request' = [request EXCEPT ![q].at = "queued"]
          /\ UNCHANGED <<isRefreshing, refreshOf>>
     ELSE /\ request' = [request EXCEPT ![q].at = "refreshing"]
          /\ isRefreshing' = TRUE
          /\ refreshOf' = jar
  /\ SameServer /\ SameUser
  /\ UNCHANGED <<path, leaving>>

(* Mutant: after a failed refresh the queue is forgotten. *)
DrainedOnSuccess(success) ==
  [q \in Pending |->
     IF request[q].at \in ({"refreshing"} \cup IF success THEN {"queued"} ELSE {})
     THEN IF success THEN [request[q] EXCEPT !.at = "sent", !.as = refreshOf] ELSE Blank
     ELSE request[q]]

(* drainQueue: who waited is sent again, or fails.                         *)
Drained(success) ==
  [q \in Pending |->
     IF request[q].at \in {"queued", "refreshing"}
     THEN IF success THEN [request[q] EXCEPT !.at = "sent", !.as = refreshOf] ELSE Blank
     ELSE request[q]]

(* The answer brings the cookies of the account that was refreshed.        *)
RefreshAnswered ==
  /\ isRefreshing
  /\ refreshOf # Nobody /\ (refreshGood \/ refreshOf # jar)
  /\ jar' = refreshOf /\ accessGood' = TRUE /\ refreshGood' = TRUE
  /\ request' = Drained(TRUE)
  /\ isRefreshing' = FALSE /\ refreshOf' = Nobody
  /\ SameUser
  /\ UNCHANGED <<path, leaving>>

(* performLogout: the login page is loaded unless it is the one shown.     *)
PerformLogout ==
  /\ IF user = Nobody THEN SameUser ELSE Transition(Nobody)
  /\ leaving' = (leaving \/ path # "login")

(* The cookies are cleared where the server refuses; they stay where its   *)
(* answer is lost, which may have spent the refresh token.                 *)
RefreshFails ==
  /\ isRefreshing
  /\ \/ jar' = Nobody /\ accessGood' = FALSE /\ refreshGood' = FALSE
     \/ SameServer
     \/ refreshOf = jar /\ refreshGood' = FALSE /\ UNCHANGED <<jar, accessGood>>
  /\ request' = Drained(FALSE)
  /\ isRefreshing' = FALSE /\ refreshOf' = Nobody
  /\ PerformLogout
  /\ UNCHANGED path

(* The page is loaded anew: nothing is left of what it kept.               *)
Reload ==
  /\ leaving
  /\ leaving' = FALSE /\ path' = "login"
  /\ user' = Nobody
  /\ sessionVersion' = 0 /\ settings' = Defaults
  /\ request' = [q \in Pending |-> Blank]
  /\ isRefreshing' = FALSE /\ refreshOf' = Nobody
  /\ SameServer

(* handleLogout of the layout: the page goes on, the server is not told.   *)
SignOut ==
  /\ path = "app" /\ user # Nobody
  /\ sessionVersion < MaxSessions
  /\ Transition(Nobody)
  /\ path' = "login"
  /\ SameServer
  /\ UNCHANGED <<leaving, request, isRefreshing, refreshOf>>

(* The form is disabled until who-am-I is answered or has failed.          *)
SigningIn == \E q \in Pending : request[q].asks = "signIn"

LoginAnswered(u, q) ==
  /\ path = "login" /\ ~SigningIn
  /\ sessionVersion < MaxSessions
  /\ request[q] = Blank
  /\ jar' = u /\ accessGood' = TRUE /\ refreshGood' = TRUE
  /\ request' = [request EXCEPT ![q] = [Sent("signIn") EXCEPT !.as = u]]
  /\ SameUser
  /\ UNCHANGED <<path, leaving, isRefreshing, refreshOf>>

AccessExpires ==
  /\ accessGood
  /\ accessGood' = FALSE
  /\ SameUser
  /\ UNCHANGED <<jar, refreshGood, path, leaving, request, isRefreshing, refreshOf>>
RefreshRevoked ==
  /\ refreshGood
  /\ refreshGood' = FALSE
  /\ SameUser
  /\ UNCHANGED <<jar, accessGood, path, leaving, request, isRefreshing, refreshOf>>

SessionNext ==
  \/ \E q \in Pending :
       \/ \E asks \in FromPages : SendRequest(q, asks)
       \/ \E u \in Account : LoginAnswered(u, q)
       \/ RequestAnswered(q) \/ PasswordChanged(q) \/ WhoAmIAnswered(q)
       \/ RequestFails(q) \/ RequestRefused(q)
  \/ RefreshAnswered \/ RefreshFails
  \/ Reload
  \/ SignOut
  \/ AccessExpires \/ RefreshRevoked

SessionSpec == SessionInit /\ [][SessionNext]_sessionVars

(***************************************************************************)
(* Properties.                                                             *)
(***************************************************************************)

(* At most one refresh is on its way, whatever requests are refused while  *)
(* it is, or just after it: two at a time would spend the refresh token    *)
(* twice.                                                                  *)
OneRefresh == Cardinality({q \in Pending : request[q].at = "refreshing"}) <= 1

(* A request that waits for a refresh has one to wait for: none is left in *)
(* the queue, neither when the refresh fails nor when the user signs out   *)
(* and in again meanwhile.                                                 *)
NothingLeftQueued ==
  (\E q \in Pending : request[q].at = "queued") =>
     \E q \in Pending : request[q].at = "refreshing"

(* The hotel's name, currency and time zone that are shown were asked for  *)
(* in the session that is shown: an answer that arrives after a session    *)
(* transition (sign-out, sign-in, another password) changes nothing.       *)
SettingsOfThisSession == settings # Defaults => settings.since = sessionVersion
=============================================================================
