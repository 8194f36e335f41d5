------------------------------ MODULE Pairing ------------------------------
(***************************************************************************)
(* The pairing of a master with its standbys: services/pairing.py,           *)
(* services/pairing_v2.py, db/repositories/pairing_sessions.py and the routes *)
(* of api/v1/admin_replication_pairing.py, over the registration of nodes    *)
(* (ReplicationNodes).                                                       *)
(*                                                                          *)
(* A session of the master is opened for a standby; the standby sends its    *)
(* code (first version) or its identifier and token (second version), waits  *)
(* ten seconds at most and keeps the credentials it gets in a session of its *)
(* own.  The master goes on when the standby has given up.                   *)
(*                                                                          *)
(* Nothing calls expire_old: a session past its date keeps its status, and   *)
(* only the first version looks at the date, where it answers as to a wrong  *)
(* code.  Whether a strategy is active when a call looks is a choice of the  *)
(* administrators.                                                           *)
(***************************************************************************)
EXTENDS ReplicationNodes

CONSTANTS
    Sessions,    \* pairing sessions of the master
    Calls,       \* accept calls of the standbys (each is made once)
    Admins,      \* slots for the node routes
    MaxAttempts, \* pairing_max_attempts
    MaxAsked     \* bound of the calls of the node routes (model checking only)

ASSUME RequestsAssumption == Requests = Calls \cup Admins /\ Calls \cap Admins = {}
ASSUME AttemptsAssumption == MaxAttempts \in Nat \ {0} /\ MaxAsked \in Nat

VARIABLES
    session,  \* pairing_session rows of the master
    call,     \* confirm calls on the master
    waiting,  \* accept calls that wait for their answer
    wizard,   \* wizard[c]: the credentials the standby stored after its call c
    asked,    \* calls of the node routes so far
    passed    \* passed[s]: the counted calls that the threshold let go on (history)

masterVars == <<session, call, passed>>
standbyVars == <<waiting, wizard>>
vars == <<nodeVars, masterVars, standbyVars, asked>>

-----------------------------------------------------------------------------
NoSession == [status |-> "none"]
Session == [kind : {"v1", "v2"}, status : {"pending", "confirmed", "failed"},
            attempts : 0 .. Cardinality(Calls), payload : Draws \cup {None}]

NoCall == [step |-> "idle"]
AnsweredCall == [step : {"end"}, label : Labels]
Call == [step : {"count", "over", "check", "add", "store", "answer"}, session : Sessions,
         label : Labels, good : BOOLEAN, force : BOOLEAN, read : {"pending", "confirmed", "failed"},
         result : {"none", "ok", "refused"}]

Init ==
    /\ NodesInit
    /\ session = [s \in Sessions |-> NoSession]
    /\ call = [c \in Calls |-> NoCall]
    /\ waiting = {} /\ wizard = [c \in Calls |-> None]
    /\ asked = 0
    /\ passed = [s \in Sessions |-> {}]

Live == {"pending", "confirmed"}

\* What the repository finds: get_active_by_code (by the code, unexpired) for
\* the first version, get (by the identifier) for the second.
Found(s, good) ==
    /\ session[s] # NoSession
    /\ session[s].kind = "v1" => good /\ session[s].status \in Live

Resume(c, step) == call' = [call EXCEPT ![c].step = step]
Reply(c, result) == call' = [call EXCEPT ![c].step = "answer", ![c].result = result]

-----------------------------------------------------------------------------
(* The master *)

OpenSession(s, kind) ==
    /\ session[s] = NoSession
    /\ session' = [session EXCEPT ![s] = [kind |-> kind, status |-> "pending", attempts |-> 0, payload |-> None]]
    /\ UNCHANGED <<nodeVars, call, passed, standbyVars, asked>>

\* get_active_by_code, or get, finds no session: a code of the first version that
\* is wrong, expired or closed, or an identifier of none.  The lookup is the
\* comparison: it is answered 403, and counted against no session.
AcceptUnknown(c, l) ==
    /\ call[c] = NoCall
    /\ call' = [call EXCEPT ![c] = [step |-> "end", label |-> l]]
    /\ UNCHANGED <<nodeVars, session, passed, standbyVars, asked>>

\* The session is found, by the right code of the first version, or by its
\* identifier with a token that may be wrong.
Accept(c, s, l, good, force) ==
    /\ call[c] = NoCall
    /\ Found(s, good)
    /\ force => session[s].kind = "v2"
    /\ call' = [call EXCEPT ![c] = [step |-> "count", session |-> s, label |-> l, good |-> good, force |-> force,
                                    read |-> session[s].status, result |-> "none"]]
    /\ waiting' = waiting \cup {c}
    /\ UNCHANGED <<nodeVars, session, passed, wizard, asked>>

\* Wrong variant: the threshold is compared with the count before this call.
CountAfterwards(c) ==
    LET s == call[c].session IN
    /\ call[c].step = "count"
    /\ session' = [session EXCEPT ![s].attempts = @ + 1]
    /\ IF session[s].attempts > MaxAttempts
         THEN Resume(c, "over") /\ UNCHANGED passed
         ELSE Resume(c, "check") /\ passed' = [passed EXCEPT ![s] = @ \cup {c}]
    /\ UNCHANGED <<nodeVars, standbyVars, asked>>

\* increment_attempts, then the threshold on the value it returned.
CountAttempt(c) ==
    LET s == call[c].session
        attempts == session[s].attempts + 1 IN
    /\ call[c].step = "count"
    /\ session' = [session EXCEPT ![s].attempts = attempts]
    /\ IF attempts > MaxAttempts
         THEN Resume(c, "over") /\ UNCHANGED passed
         ELSE Resume(c, "check") /\ passed' = [passed EXCEPT ![s] = @ \cup {c}]
    /\ UNCHANGED <<nodeVars, standbyVars, asked>>

CloseSession(c) ==
    /\ call[c].step = "over"
    /\ session' = [session EXCEPT ![call[c].session].status = "failed"]
    /\ Reply(c, "refused")
    /\ UNCHANGED <<nodeVars, passed, standbyVars, asked>>

\* The status read before the count and the token (second version), and the
\* active strategy; then add_node begins.
CheckCall(c) ==
    LET q == call[c] IN
    /\ q.step = "check"
    /\ \E active \in BOOLEAN :
         IF q.read \in Live /\ q.good /\ active
           THEN /\ Resume(c, "add")
                /\ \E d \in Unused : Begin(c, q.label, q.force, d)
           ELSE /\ Reply(c, "refused")
                /\ UNCHANGED nodeVars
    /\ UNCHANGED <<session, passed, standbyVars, asked>>

\* add_node returns or raises.
NodeAnswered(c) ==
    /\ call[c].step = "add" /\ request[c].step \in Ended
    /\ IF request[c].step = "added" THEN Resume(c, "store") ELSE Reply(c, "refused")
    /\ UNCHANGED <<nodeVars, session, passed, standbyVars, asked>>

\* set_payload and set_status, by identifier, in one transaction.
StorePayload(c) ==
    /\ call[c].step = "store"
    /\ session' = [session EXCEPT ![call[c].session].payload = request[c].draw,
                                  ![call[c].session].status = "confirmed"]
    /\ Reply(c, "ok")
    /\ UNCHANGED <<nodeVars, passed, standbyVars, asked>>

\* The master stops in the middle of the call; add_node itself may break too.
LoseCall(c) ==
    /\ call[c].step \in {"over", "check", "store"}
    /\ Reply(c, "refused")
    /\ UNCHANGED <<nodeVars, session, passed, standbyVars, asked>>

-----------------------------------------------------------------------------
(* The standby *)

\* The answer comes while the standby waits, and goes into a session with the
\* status wizard; or nobody waits for it any more.
Receive(c) ==
    /\ call[c].step = "answer"
    /\ wizard' = [wizard EXCEPT ![c] =
                    IF call[c].result = "ok" /\ c \in waiting THEN request[c].draw ELSE None]
    /\ waiting' = waiting \ {c}
    /\ call' = [call EXCEPT ![c] = [step |-> "end", label |-> call[c].label]]
    /\ request' = [request EXCEPT ![c] = NoRequest]
    /\ UNCHANGED <<node, role, slot, drawn, streaming, session, passed, asked>>

\* The timeout of ten seconds, or a network error.
GiveUp(c) ==
    /\ c \in waiting
    /\ waiting' = waiting \ {c}
    /\ UNCHANGED <<nodeVars, masterVars, wizard, asked>>

-----------------------------------------------------------------------------
(* The node routes *)

AddStreamingNode(r, l, d) ==
    /\ asked < MaxAsked /\ asked' = asked + 1
    /\ Begin(r, l, FALSE, d)
    /\ UNCHANGED <<masterVars, standbyVars>>

DeleteStreamingNode(r, d) ==
    /\ asked < MaxAsked /\ asked' = asked + 1
    /\ node[d] # None
    /\ AskDelete(r, d)
    /\ UNCHANGED <<masterVars, standbyVars>>

MasterRoutes ==
    \/ \E s \in Sessions, kind \in {"v1", "v2"} : OpenSession(s, kind)
    \/ \E c \in Calls :
         \/ CountAttempt(c) \/ CloseSession(c) \/ CheckCall(c)
         \/ NodeAnswered(c) \/ StorePayload(c) \/ LoseCall(c)

StandbyRoutes ==
    \E c \in Calls :
      \/ \E s \in Sessions, l \in Labels, good, force \in BOOLEAN : Accept(c, s, l, good, force)
      \/ \E l \in Labels : AcceptUnknown(c, l)
      \/ Receive(c) \/ GiveUp(c)

NodeRoutes ==
    \/ \E r \in Admins, l \in Labels, d \in Unused : AddStreamingNode(r, l, d)
    \/ \E r \in Admins, d \in Draws : DeleteStreamingNode(r, d)
    \/ \E r \in Admins : Answer(r) /\ UNCHANGED <<masterVars, standbyVars, asked>>

Registration ==
    /\ (\E r \in Requests : Add(r) \/ Delete(r) \/ Break(r)) \/ Standby
    /\ UNCHANGED <<masterVars, standbyVars, asked>>

Next == MasterRoutes \/ StandbyRoutes \/ NodeRoutes \/ Registration

Spec == Init /\ [][Next]_vars

-----------------------------------------------------------------------------
TypeOK ==
    /\ NodesTypeOK
    /\ session \in [Sessions -> Session \cup {NoSession}]
    /\ call \in [Calls -> Call \cup AnsweredCall \cup {NoCall}]
    /\ waiting \subseteq Calls /\ wizard \in [Calls -> Draws \cup {None}]
    /\ asked \in 0 .. MaxAsked
    /\ passed \in [Sessions -> SUBSET Calls]

\* However many standbys try a session together, at most pairing_max_attempts of the
\* calls that found it go on: to the comparison of their token in the second version,
\* right or wrong, and to the registration of a node (increment_attempts before the
\* threshold).  It bounds no wrong code of the first version: AcceptUnknown compares
\* them and counts none, against « chaque tentative compte ».
CountedCallsBounded == \A s \in Sessions : Cardinality(passed[s]) <= MaxAttempts

\* The credentials a standby has kept were made for its own URL and for it
\* alone, whatever was retried, replaced or lost.
CredentialsAreOwn ==
    \A c \in Calls : wizard[c] # None =>
      /\ drawn[wizard[c]] = call[c].label
      /\ \A b \in Calls \ {c} : wizard[b] # wizard[c]
=============================================================================
