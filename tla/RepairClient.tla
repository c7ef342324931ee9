---------------------------- MODULE RepairClient ----------------------------
(***************************************************************************)
(* How the repair client calls the services (src/frontend/src/fixi/api.ts):*)
(* raw sends a request; when it is refused for its session, it waits for a *)
(* refresh that all such requests share, and is sent once more.            *)
(***************************************************************************)
EXTENDS Naturals, FiniteSets

CONSTANT Fetch   \* the requests that can be on their way

VARIABLES
  fetch,            \* request -> what it waits for: its answer, the refresh,
                    \* the answer to its second attempt; or nothing
  refreshInFlight,
  attempts,         \* history: request -> how often it was sent
  refreshes         \* history: the refreshes on their way

clientVars == <<fetch, refreshInFlight, attempts, refreshes>>

ClientInit ==
  /\ fetch = [f \in Fetch |-> "none"]
  /\ refreshInFlight = FALSE
  /\ attempts = [f \in Fetch |-> 0]
  /\ refreshes = 0

StartFetch(f) ==
  /\ fetch[f] = "none"
  /\ fetch' = [fetch EXCEPT ![f] = "first"]
  /\ attempts' = [attempts EXCEPT ![f] = 1]
  /\ UNCHANGED <<refreshInFlight, refreshes>>

Finished(f) ==
  /\ fetch' = [fetch EXCEPT ![f] = "none"]
  /\ attempts' = [attempts EXCEPT ![f] = 0]

(* An answer of any status but 401, or none at all.                        *)
FetchEnds(f) ==
  /\ fetch[f] \in {"first", "second"}
  /\ Finished(f)
  /\ UNCHANGED <<refreshInFlight, refreshes>>

(* refreshSession: the refresh on its way, or a new one.                   *)
RefreshSession ==
  /\ refreshInFlight' = TRUE
  /\ refreshes' = IF refreshInFlight THEN refreshes ELSE refreshes + 1

(* Mutant: the second attempt is followed by others. *)
RetriesAgain(f) == fetch[f] \in {"first", "second"}

(* 401, at any time: the access token had expired when the request came.   *)
(* The first attempt waits for the refresh, the second is the caller's     *)
(* error.                                                                  *)
Retries(f) == fetch[f] = "first"
FetchRefused(f) ==
  /\ fetch[f] \in {"first", "second"}
  /\ IF Retries(f)
     THEN /\ fetch' = [fetch EXCEPT ![f] = "refresh"]
          /\ RefreshSession
          /\ UNCHANGED attempts
     ELSE Finished(f) /\ UNCHANGED <<refreshInFlight, refreshes>>

Waiting(f) == fetch[f] = "refresh"

(* Who waited is sent again; when it fails who waited gets the 401.        *)
RefreshOk ==
  /\ refreshInFlight
  /\ refreshInFlight' = FALSE /\ refreshes' = refreshes - 1
  /\ fetch' = [f \in Fetch |-> IF Waiting(f) THEN "second" ELSE fetch[f]]
  /\ attempts' = [f \in Fetch |-> IF Waiting(f) THEN attempts[f] + 1 ELSE attempts[f]]
RefreshNotOk ==
  /\ refreshInFlight
  /\ refreshInFlight' = FALSE /\ refreshes' = refreshes - 1
  /\ fetch' = [f \in Fetch |-> IF Waiting(f) THEN "none" ELSE fetch[f]]
  /\ attempts' = [f \in Fetch |-> IF Waiting(f) THEN 0 ELSE attempts[f]]

ClientNext ==
  \/ \E f \in Fetch : StartFetch(f) \/ FetchEnds(f) \/ FetchRefused(f)
  \/ RefreshOk \/ RefreshNotOk

ClientSpec == ClientInit /\ [][ClientNext]_clientVars

(***************************************************************************)
(* Properties.                                                             *)
(***************************************************************************)

(* However often the access token expires while requests are sent again, a *)
(* request is sent at most twice, and there is one refresh at a time, which*)
(* all who wait share.                                                     *)
RefreshShared ==
  /\ \A f \in Fetch : attempts[f] <= 2
  /\ refreshes <= 1
  /\ (\E f \in Fetch : Waiting(f)) => refreshes = 1
=============================================================================
