-------------------------- MODULE ConnectContract --------------------------
(***************************************************************************)
(* What the connect flow promises, whatever calls are in progress: a user   *)
(* answers a request at most once, only the user who claimed it answers it, *)
(* and its key is handed over at most once, only after it was granted.      *)
(* Clocks, row locks, codes and the purge are not visible here.             *)
(***************************************************************************)
CONSTANTS Requests, Users, None

VARIABLES
    consent,    \* where each request stands
    holder      \* the user who claimed it

cvars == <<consent, holder>>

CInit ==
    /\ consent = [r \in Requests |-> "unasked"]
    /\ holder = [r \in Requests |-> None]

Ask(r) ==
    /\ consent[r] = "unasked"
    /\ consent' = [consent EXCEPT ![r] = "asked"]
    /\ UNCHANGED holder

\* User u takes the request, and possibly answers it in the same step.
Respond(r, u, answer) ==
    /\ consent[r] = "asked"
    /\ holder[r] \in {None, u}
    /\ consent' = [consent EXCEPT ![r] = answer]
    /\ holder' = [holder EXCEPT ![r] = u]

\* The application obtains the key.
HandOver(r) ==
    /\ consent[r] = "granted"
    /\ consent' = [consent EXCEPT ![r] = "handed"]
    /\ UNCHANGED holder

\* Requests that came to term are forgotten, several at once.
Forget(S) ==
    /\ \A r \in S : consent[r] # "unasked"
    /\ consent' = [r \in Requests |-> IF r \in S THEN "forgotten" ELSE consent[r]]
    /\ holder' = [r \in Requests |-> IF r \in S THEN None ELSE holder[r]]

CNext ==
    \/ \E r \in Requests :
         \/ Ask(r)
         \/ \E u \in Users, answer \in {"asked", "refused", "granted"} : Respond(r, u, answer)
         \/ HandOver(r)
    \/ \E S \in SUBSET Requests : Forget(S)

CSpec == CInit /\ [][CNext]_cvars
=============================================================================
