--------------------------- MODULE ConnectProofs ---------------------------
(***************************************************************************)
(* Proofs about the connect flow, for any sets of applications, users,      *)
(* requests, keys, calls and purgers, and for an unbounded clock (MaxTime   *)
(* is only a guard).                                                        *)
(***************************************************************************)
EXTENDS ConnectRefinement, TLAPS

\* An attached key exists; a request still open to an answer or to an exchange
\* has a key that was never delivered.
AttachedKeys ==
    \A r \in Requests : req[r].key # None =>
        /\ apiKey[req[r].key].state # "absent"
        /\ req[r].status \in {"pending", "sealed"} => req[r].key \notin delivered

\* Whatever left or is about to leave the server was first marked delivered.
DeliveredFirst ==
    /\ \A k \in delivered : apiKey[k].state # "absent"
    /\ received \subseteq delivered
    /\ \A c \in Calls : call[c].phase = "answering" /\ call[c].op = "exchange"
                          => call[c].key \in delivered

\* A browser call is made by a logged-in user (OidcUser).
CallsIdentified ==
    \A c \in Calls : call[c].phase = "running" /\ call[c].op \in BrowserOps
                        => call[c].user \in Users

\* A reference being pushed is not yet that of a row, nor of another push.
FreshReferences ==
    \A c \in Calls : Running(c, "push") =>
        /\ req[call[c].r].status = "absent"
        /\ \A d \in Calls : Running(d, "push") /\ call[d].r = call[c].r => d = c

\* A reference that was never pushed has no user.
UnclaimedBeforePush == \A r \in Requests : req[r].status = "absent" => req[r].user = None

\* The inductive invariant.
Inv == TypeOK /\ RowConsistent /\ KeyOfItsOwner /\ AttachedKeys /\ DeliveredFirst
       /\ OneDelivery /\ CodeWindow /\ CallsIdentified /\ FreshReferences
       /\ UnclaimedBeforePush

-----------------------------------------------------------------------------
\* A running or answering call is a full record.
LEMMA CallFields ==
    ASSUME TypeOK, NEW c \in Calls, call[c].phase \in {"running", "answering"}
    PROVE  call[c] \in CallRecord
BY DEF TypeOK, NoCall

LEMMA InitInv == Init => Inv
BY NoneAssumption DEF Init, Inv, TypeOK, RowConsistent, KeyOfItsOwner, AttachedKeys,
   DeliveredFirst, OneDelivery, InFlight, CodeWindow, CallsIdentified,
   FreshReferences, UnclaimedBeforePush, Running, NoRow, Row, Status, ApiKeyRow, NoCall, Asleep

\* A step that leaves the rows, the keys, the calls and the deliveries alone.
LEMMA FrameInv ==
    ASSUME Inv, TypeOK', UNCHANGED <<req, apiKey, call, delivered, received>>
    PROVE  Inv'
BY DEF Inv, RowConsistent, KeyOfItsOwner, AttachedKeys, DeliveredFirst, OneDelivery,
   InFlight, CodeWindow, CallsIdentified, FreshReferences, UnclaimedBeforePush, Running

LEMMA TypeStep == Inv /\ [Next]_vars => TypeOK'
<1> SUFFICES ASSUME Inv, [Next]_vars PROVE TypeOK'
  OBVIOUS
<1> USE TimeAssumption, NoneAssumption DEF history
<1>1. CASE UNCHANGED vars
  BY <1>1 DEF Inv, TypeOK, vars
<1>2. CASE Tick
  BY <1>2 DEF Inv, TypeOK, Tick
<1>3. ASSUME NEW cl \in Clients, UpdateClient(cl) PROVE TypeOK'
  BY <1>3 DEF Inv, TypeOK, UpdateClient
<1>4. ASSUME NEW c \in Calls, Arrival(c) PROVE TypeOK'
  <2>1. PICK op \in Ops, r \in Requests, u \in Users \cup {None}, cl \in Clients, ok \in BOOLEAN :
             Arrive(c, op, r, u, cl, ok)
    <3>1. "push" \in Ops /\ "exchange" \in Ops /\ BrowserOps \subseteq Ops
            /\ None \in Users \cup {None} /\ Users \subseteq Users \cup {None}
            /\ TRUE \in BOOLEAN
      BY DEF Ops
    <3>2. PICK r \in Requests, cl \in Clients :
             \/ Arrive(c, "push", r, None, cl, TRUE)
             \/ \E op \in BrowserOps, u \in Users : Arrive(c, op, r, u, cl, TRUE)
             \/ \E ok \in BOOLEAN : Arrive(c, "exchange", r, None, cl, ok)
      BY <1>4, Zenon DEF Arrival, ArrivePush, ArriveBrowser, ArriveExchange
    <3> QED BY <3>1, <3>2, Zenon
  <2>2. call'[c] \in CallRecord
    BY <2>1 DEF Arrive, CallRecord, Inv, TypeOK
  <2>3. call' \in [Calls -> CallRecord \cup {NoCall}]
    BY <2>1, <2>2 DEF Arrive, Inv, TypeOK
  <2>4. UNCHANGED <<now, enabled, req, apiKey, purge, tokens, codes, received, delivered, replayed>>
    BY <2>1 DEF Arrive
  <2> QED BY <2>3, <2>4 DEF Inv, TypeOK
<1>5. ASSUME NEW c \in Calls, CreateRequest(c) PROVE TypeOK'
  <2>1. call[c] \in CallRecord
    BY <1>5, CallFields DEF Inv, CreateRequest, Running
  <2>2. [status |-> "pending", client |-> call[c].client, user |-> None, key |-> None,
         jwe |-> FALSE, expires |-> call[c].at + PendingTtl, codeExp |-> 0] \in Row
    BY <2>1 DEF Row, Status, CallRecord
  <2> QED BY <1>5, <2>1, <2>2 DEF Inv, TypeOK, CreateRequest, Done, CallRecord
<1>6. ASSUME NEW c \in Calls, OpenRequest(c) PROVE TypeOK'
  <2>1. TypeOK /\ call[c] \in CallRecord
    BY <1>6, CallFields DEF Inv, OpenRequest, Running
  <2> QED BY <1>6, <2>1 DEF TypeOK, OpenRequest, Done, Row, CallRecord
<1>7. ASSUME NEW c \in Calls, DenyRequest(c) PROVE TypeOK'
  BY <1>7, CallFields DEF Inv, TypeOK, DenyRequest, Running, Done, Row, Status, CallRecord
<1>8. ASSUME NEW c \in Calls, NEW k \in Keys, CreateConnectApiKey(c, k) PROVE TypeOK'
  BY <1>8, CallFields DEF Inv, TypeOK, CreateConnectApiKey, Running, Answering, Row,
     CallRecord, ApiKeyRow
<1>9. ASSUME NEW c \in Calls, SealRequest(c) PROVE TypeOK'
  BY SMTT(40), <1>9, CallFields DEF Inv, TypeOK, SealRequest, Running, Answering, Row, Status, CallRecord
<1>10. ASSUME NEW c \in Calls, ExchangeCode(c) PROVE TypeOK'
  BY SMTT(40), <1>10, CallFields DEF Inv, TypeOK, RowConsistent, ExchangeCode, Exchangeable, Running,
     Row, Status, CallRecord
<1>11. ASSUME NEW c \in Calls, RecordReplay(c) \/ Abort(c) \/ LoseAnswer(c) PROVE TypeOK'
  BY <1>11, CallFields DEF Inv, TypeOK, RecordReplay, Abort, LoseAnswer, Running, Done, CallRecord
<1>12. ASSUME NEW c \in Calls, Answer(c) PROVE TypeOK'
  BY <1>12, CallFields DEF Inv, TypeOK, DeliveredFirst, Answer, Done, CallRecord
<1>13. ASSUME NEW k \in Keys, RevokeApiKey(k) PROVE TypeOK'
  BY <1>13 DEF Inv, TypeOK, RevokeApiKey, ApiKeyRow
<1>14. ASSUME NEW p \in Purgers, PurgeList(p) PROVE TypeOK'
  <2>1. {req[r].key : r \in {q \in Requests : Undelivered(req[q], now)}} \subseteq Keys
    BY DEF Inv, TypeOK, Undelivered, Row
  <2> QED BY <1>14, <2>1 DEF Inv, TypeOK, PurgeList, PurgeRecord
<1>15. ASSUME NEW p \in Purgers, PurgeCommit(p) PROVE TypeOK'
  BY <1>15 DEF Inv, TypeOK, PurgeCommit, ApiKeyRow, NoRow, Row, Status, Asleep
<1>16. ASSUME NEW p \in Purgers, PurgeFail(p) \/ PurgeEnd(p) \/ PurgeRestart(p) PROVE TypeOK'
  BY <1>16 DEF Inv, TypeOK, PurgeFail, PurgeEnd, PurgeRestart
<1> QED
  BY <1>1, <1>2, <1>3, <1>4, <1>5, <1>6, <1>7, <1>8, <1>9, <1>10, <1>11, <1>12, <1>13,
     <1>14, <1>15, <1>16 DEF Next, Transaction, PurgeLoop

-----------------------------------------------------------------------------
\* The invariant is preserved.  TypeOK' is TypeStep; each step below shows the
\* other conjuncts for one action.
Rest == RowConsistent /\ KeyOfItsOwner /\ AttachedKeys /\ DeliveredFirst
        /\ OneDelivery /\ CodeWindow /\ CallsIdentified /\ FreshReferences
       /\ UnclaimedBeforePush

LEMMA RestStep == Inv /\ [Next]_vars => Rest'
<1> SUFFICES ASSUME Inv, [Next]_vars PROVE Rest'
  OBVIOUS
<1> USE TimeAssumption, NoneAssumption DEF history
<1>T. TypeOK'
  BY TypeStep
<1>1. CASE UNCHANGED vars
  BY <1>1, <1>T, FrameInv DEF vars, Inv, Rest
<1>2. CASE Tick
  BY <1>2, <1>T, FrameInv DEF Tick, Inv, Rest
<1>3. ASSUME NEW cl \in Clients, UpdateClient(cl) PROVE Rest'
  BY <1>3, <1>T, FrameInv DEF UpdateClient, Inv, Rest
<1>4. ASSUME NEW c \in Calls, Arrival(c) PROVE Rest'
  <2>1. /\ UNCHANGED <<req, apiKey, delivered, received>>
        /\ \A d \in Calls :
             \/ call'[d] = call[d]
             \/ call'[d].phase = "running" /\ (call'[d].op \in BrowserOps => call'[d].user \in Users)
    BY <1>4 DEF Arrival, ArrivePush, ArriveBrowser, ArriveExchange, Arrive, Inv, TypeOK, BrowserOps
  <2>2. OneDelivery'
    BY <2>1 DEF Inv, OneDelivery, InFlight
  <2>3. DeliveredFirst'
    BY <2>1 DEF Inv, DeliveredFirst
  <2>4. FreshReferences'
    <3>1. PICK r \in Requests, cl \in Clients :
             \/ ArrivePush(c, r, cl)
             \/ \E op \in BrowserOps, u \in Users : ArriveBrowser(c, op, r, u, cl)
             \/ \E ok \in BOOLEAN : ArriveExchange(c, r, cl, ok)
      BY <1>4 DEF Arrival
    <3>2. CASE ArrivePush(c, r, cl)
      BY <3>2, <2>1 DEF ArrivePush, Arrive, Running, NoCall, Inv, TypeOK, FreshReferences
    <3>3. CASE ~ArrivePush(c, r, cl)
      <4>1. \A d \in Calls : call'[d] = call[d] \/ call'[d].op # "push"
        BY <3>1, <3>3 DEF ArriveBrowser, ArriveExchange, Arrive, BrowserOps, Inv, TypeOK
      <4> QED BY <4>1, <2>1 DEF Inv, FreshReferences, Running
    <3> QED BY <3>2, <3>3
  <2> QED BY <2>1, <2>2, <2>3, <2>4 DEF Inv, Rest, RowConsistent, KeyOfItsOwner, AttachedKeys,
             CodeWindow, CallsIdentified, UnclaimedBeforePush
<1>5. ASSUME NEW c \in Calls, Transaction(c) PROVE Rest'
  <2> USE CallFields DEF Running
  <2>0. CallsIdentified' /\ FreshReferences' /\ UnclaimedBeforePush'
    <3>1. \A d \in Calls : d # c => call'[d] = call[d]
      BY <1>5 DEF Inv, TypeOK, Transaction, CreateRequest, OpenRequest, DenyRequest,
         CreateConnectApiKey, SealRequest, ExchangeCode, RecordReplay, Abort, Done, Answering
    <3>2. \/ call' = [call EXCEPT ![c] = NoCall]
          \/ call' = [call EXCEPT ![c].phase = "answering"]
          \/ \E k : call' = [call EXCEPT ![c].phase = "answering", ![c].key = k]
      BY <1>5 DEF Transaction, CreateRequest, OpenRequest, DenyRequest, CreateConnectApiKey,
         SealRequest, ExchangeCode, RecordReplay, Abort, Done, Answering
    <3>3. call[c] \in CallRecord
      BY <1>5 DEF Inv, Transaction, CreateRequest, OpenRequest, DenyRequest, CreateConnectApiKey,
         SealRequest, ExchangeCode, RecordReplay, Abort
    <3>4. call'[c].phase # "running"
      BY <3>2, <3>3 DEF Inv, TypeOK, NoCall, CallRecord
    <3>5. \A s \in Requests :
             \/ req'[s] = req[s]
             \/ req'[s].status # "absent" /\ s = call[c].r
                /\ (req[s].status # "absent" \/ Running(c, "push"))
      <4>1. CASE CreateRequest(c)
        BY <3>3, <4>1 DEF CreateRequest, Inv, TypeOK, CallRecord
      <4>2. CASE OpenRequest(c) \/ DenyRequest(c)
        BY <3>3, <4>2 DEF OpenRequest, DenyRequest, LockedFor, CheckUsable, Inv, TypeOK, CallRecord, Row
      <4>3. ASSUME NEW k \in Keys, CreateConnectApiKey(c, k)
            PROVE  \A s \in Requests : \/ req'[s] = req[s]
                                     \/ /\ req[s].status # "absent" /\ req'[s].status # "absent"
                                        /\ s = call[c].r
        BY <3>3, <4>3 DEF CreateConnectApiKey, LockedFor, CheckUsable, Inv, TypeOK, CallRecord, Row
      <4>4. CASE SealRequest(c) \/ ExchangeCode(c)
        BY <3>3, <4>4 DEF SealRequest, ExchangeCode, Exchangeable, LockedFor, CheckUsable, Inv, TypeOK,
           CallRecord, Row
      <4>5. CASE RecordReplay(c) \/ Abort(c)
        BY <4>5 DEF RecordReplay, Abort
      <4> QED BY <1>5, <4>1, <4>2, <4>3, <4>4, <4>5 DEF Transaction
    <3>6. FreshReferences'
      <4> SUFFICES ASSUME NEW d \in Calls, Running(d, "push")'
                   PROVE  /\ req'[call'[d].r].status = "absent"
                          /\ \A e \in Calls : Running(e, "push")' /\ call'[e].r = call'[d].r => e = d
        BY DEF FreshReferences
      <4>1. d # c /\ call'[d] = call[d] /\ Running(d, "push")
        BY <3>1, <3>4 DEF Running
      <4>2. call[d].r \in Requests
        BY <4>1, CallFields DEF Inv, CallRecord
      <4>3. \A e \in Calls : Running(e, "push")' => e # c /\ call'[e] = call[e] /\ Running(e, "push")
        BY <3>1, <3>4 DEF Running
      <4> QED BY <4>1, <4>2, <4>3, <3>5 DEF Inv, FreshReferences, Running
    <3>7. UnclaimedBeforePush'
      BY <3>5 DEF Inv, UnclaimedBeforePush
    <3> QED BY <3>1, <3>4, <3>6, <3>7 DEF Inv, CallsIdentified
  <2>1. CASE CreateRequest(c)
    <3>1. /\ UNCHANGED <<apiKey, delivered, received>>
          /\ call' = [call EXCEPT ![c] = NoCall]
          /\ \A s \in Requests : \/ req'[s] = req[s]
                                \/ /\ req'[s].status = "pending" /\ req'[s].key = None
                                   /\ req'[s].jwe = FALSE /\ req'[s].codeExp = 0
      BY <2>1 DEF CreateRequest, Done, NoRow, Inv, TypeOK, Row
    <3> QED BY <2>0, <3>1 DEF Inv, TypeOK, Row, Rest, RowConsistent, KeyOfItsOwner, AttachedKeys,
               DeliveredFirst, OneDelivery, InFlight, CodeWindow, NoCall
  <2>2. CASE OpenRequest(c) \/ DenyRequest(c)
    <3>1. /\ UNCHANGED <<apiKey, delivered, received>>
          /\ call' = [call EXCEPT ![c] = NoCall]
          /\ \A s \in Requests :
               /\ req'[s].key = req[s].key
               /\ req'[s].jwe = req[s].jwe
               /\ req'[s].expires = req[s].expires
               /\ req'[s].codeExp = req[s].codeExp
               /\ \/ req'[s].status = req[s].status
                  \/ req[s].status = "pending" /\ req'[s].status = "denied"
               /\ req[s].user \in {None, req'[s].user}
      BY <2>2 DEF OpenRequest, DenyRequest, LockedFor, CheckUsable, Done, Inv, TypeOK, Row
    <3>2. RowConsistent' /\ CodeWindow'
      BY <3>1 DEF Inv, RowConsistent, CodeWindow
    <3>3. KeyOfItsOwner' /\ AttachedKeys'
      BY <3>1 DEF Inv, KeyOfItsOwner, AttachedKeys
    <3>4. DeliveredFirst' /\ OneDelivery'
      BY <3>1 DEF Inv, TypeOK, DeliveredFirst, OneDelivery, InFlight, NoCall
    <3> QED BY <2>0, <3>2, <3>3, <3>4 DEF Rest
  <2>3. ASSUME NEW k \in Keys, CreateConnectApiKey(c, k) PROVE Rest'
    <3> DEFINE r == call[c].r
    <3>1. /\ UNCHANGED <<delivered, received>>
          /\ r \in Requests /\ call[c].user \in Users
          /\ req[r].status = "pending" /\ req[r].key = None
          /\ req' = [req EXCEPT ![r].user = call[c].user, ![r].key = k]
          /\ apiKey[k].state = "absent"
          /\ apiKey' = [apiKey EXCEPT ![k] = [state |-> "active", owner |-> call[c].user]]
          /\ call' = [call EXCEPT ![c].phase = "answering"]
          /\ call[c].op = "createKey"
      BY <2>3 DEF CreateConnectApiKey, LockedFor, CheckUsable, Answering, CallRecord,
         Inv, CallsIdentified, BrowserOps
    <3>2. RowConsistent' /\ CodeWindow'
      BY SMTT(40), <3>1 DEF Inv, TypeOK, Row, RowConsistent, CodeWindow
    <3>3. KeyOfItsOwner' /\ AttachedKeys'
      BY SMTT(40), <3>1 DEF Inv, TypeOK, Row, KeyOfItsOwner, AttachedKeys, DeliveredFirst
    <3>4. DeliveredFirst' /\ OneDelivery'
      BY <3>1 DEF Inv, TypeOK, DeliveredFirst, OneDelivery, InFlight
    <3> QED BY <2>0, <3>2, <3>3, <3>4 DEF Rest
  <2>4. CASE SealRequest(c)
    <3> DEFINE r == call[c].r
    <3>1. /\ UNCHANGED <<apiKey, delivered, received>>
          /\ r \in Requests /\ call[c].at \in Nat
          /\ req[r].status = "pending" /\ req[r].key # None
          /\ req[r].user \in {None, call[c].user} /\ call[c].at < req[r].expires
          /\ call' = [call EXCEPT ![c].phase = "answering"]
          /\ call[c].op = "seal"
      BY <2>4 DEF SealRequest, LockedFor, CheckUsable, Answering, CallRecord, Inv
    <3>2. \A s \in Requests : s # r => req'[s] = req[s]
      BY <2>4, <3>1 DEF SealRequest, Inv, TypeOK
    <3>3. /\ req'[r].status = "sealed" /\ req'[r].jwe = TRUE
          /\ req'[r].user = call[c].user /\ req'[r].key = req[r].key
          /\ req'[r].expires = req[r].expires /\ req'[r].codeExp = call[c].at + CodeTtl
      BY <2>4, <3>1 DEF SealRequest, Inv, TypeOK, Row
    <3>4. req[r].user = call[c].user
      BY <3>1 DEF Inv, KeyOfItsOwner
    <3>5. req[r] \in Row
      BY <3>1 DEF Inv, TypeOK
    <3>6. RowConsistent' /\ CodeWindow'
      BY <3>1, <3>2, <3>3, <3>5 DEF Inv, Row, RowConsistent, CodeWindow
    <3>7. KeyOfItsOwner' /\ AttachedKeys'
      BY <3>1, <3>2, <3>3, <3>4 DEF Inv, KeyOfItsOwner, AttachedKeys
    <3>8. DeliveredFirst' /\ OneDelivery'
      BY <3>1 DEF Inv, TypeOK, DeliveredFirst, OneDelivery, InFlight
    <3> QED BY <2>0, <3>6, <3>7, <3>8 DEF Rest
  <2>5. CASE ExchangeCode(c)
    <3> DEFINE r == call[c].r
               k == req[r].key
    <3>1. /\ UNCHANGED <<apiKey, received>>
          /\ r \in Requests /\ k \in Keys /\ k # None /\ k \notin delivered
          /\ req[r].status = "sealed"
          /\ req' = [req EXCEPT ![r].status = "delivered", ![r].jwe = FALSE]
          /\ delivered' = delivered \cup {k}
          /\ call' = [call EXCEPT ![c].phase = "answering", ![c].key = k]
          /\ call[c].op = "exchange" /\ call[c].phase = "running"
      BY <2>5 DEF ExchangeCode, Exchangeable, CallRecord, Inv, TypeOK, Row, RowConsistent,
         AttachedKeys
    <3>2. RowConsistent' /\ CodeWindow'
      BY SMTT(40), <3>1 DEF Inv, TypeOK, Row, RowConsistent, CodeWindow
    <3>3. KeyOfItsOwner' /\ AttachedKeys'
      <4>0. apiKey' = apiKey /\ delivered' = delivered \cup {k}
        BY <3>1
      <4>1. \A s \in Requests :
              /\ req'[s].key = req[s].key /\ req'[s].user = req[s].user
              /\ IF s = r THEN req'[s].status = "delivered" ELSE req'[s] = req[s]
        BY <3>1 DEF Inv, TypeOK, Row
      <4>2. \A s \in Requests \ {r} : req[s].key # k
        BY <3>1 DEF Inv, KeyOfItsOwner
      <4>3. KeyOfItsOwner'
        BY <4>0, <4>1 DEF Inv, KeyOfItsOwner
      <4>4. AttachedKeys'
        BY <4>0, <4>1, <4>2 DEF Inv, AttachedKeys
      <4> QED BY <4>3, <4>4
    <3>4. DeliveredFirst'
      BY <3>1 DEF Inv, TypeOK, DeliveredFirst, AttachedKeys
    <3>5. OneDelivery'
      BY <3>1 DEF Inv, TypeOK, DeliveredFirst, OneDelivery, InFlight
    <3> QED BY <2>0, <3>2, <3>3, <3>4, <3>5 DEF Rest
  <2>6. CASE RecordReplay(c) \/ Abort(c)
    <3>1. /\ UNCHANGED <<req, apiKey, delivered, received>>
          /\ call' = [call EXCEPT ![c] = NoCall]
      BY <2>6 DEF RecordReplay, Abort, Done
    <3> QED BY <2>0, <3>1 DEF Inv, TypeOK, Rest, RowConsistent, KeyOfItsOwner, AttachedKeys,
               DeliveredFirst, OneDelivery, InFlight, CodeWindow, NoCall
  <2> QED BY <1>5, <2>1, <2>2, <2>3, <2>4, <2>5, <2>6 DEF Transaction
<1>6. ASSUME NEW c \in Calls, Answer(c) \/ LoseAnswer(c) PROVE Rest'
  <2>1. /\ UNCHANGED <<req, apiKey, delivered>>
        /\ \A d \in Calls : call'[d] = IF d = c THEN NoCall ELSE call[d]
        /\ call[c].phase = "answering"
    BY <1>6 DEF Answer, LoseAnswer, Done, Inv, TypeOK
  <2>2. \/ received' = received
        \/ call[c].op = "exchange" /\ received' = received \cup {call[c].key}
    BY <1>6 DEF Answer, LoseAnswer
  <2>3. OneDelivery'
    BY <2>1, <2>2 DEF Inv, OneDelivery, InFlight, NoCall
  <2>4. DeliveredFirst'
    BY <2>1, <2>2 DEF Inv, DeliveredFirst, NoCall
  <2> QED BY <2>1, <2>3, <2>4 DEF Inv, Rest, RowConsistent, KeyOfItsOwner, AttachedKeys,
             CodeWindow, CallsIdentified, FreshReferences, UnclaimedBeforePush, Running, NoCall
<1>7. ASSUME NEW k \in Keys, RevokeApiKey(k) PROVE Rest'
  <2>1. /\ UNCHANGED <<req, call, delivered, received>>
        /\ \A j \in Keys : apiKey'[j].owner = apiKey[j].owner
                          /\ (apiKey[j].state # "absent" => apiKey'[j].state # "absent")
    BY <1>7 DEF RevokeApiKey, Inv, TypeOK, ApiKeyRow
  <2> QED BY <2>1 DEF Inv, TypeOK, Row, Rest, RowConsistent, KeyOfItsOwner, AttachedKeys,
             DeliveredFirst, OneDelivery, InFlight, CodeWindow, CallsIdentified,
             FreshReferences, UnclaimedBeforePush, Running
<1>8. ASSUME NEW p \in Purgers,
             PurgeList(p) \/ PurgeFail(p) \/ PurgeEnd(p) \/ PurgeRestart(p)
      PROVE  Rest'
  BY <1>8, <1>T, FrameInv DEF PurgeList, PurgeFail, PurgeEnd, PurgeRestart, Inv, Rest
<1>9. ASSUME NEW p \in Purgers, PurgeCommit(p) PROVE Rest'
  <2>1. /\ UNCHANGED <<call, delivered, received>>
        /\ \A j \in Keys : apiKey'[j].owner = apiKey[j].owner
                          /\ (apiKey[j].state # "absent" => apiKey'[j].state # "absent")
        /\ \A r \in Requests : req'[r] = req[r] \/ req'[r] = NoRow("deleted")
    BY <1>9 DEF PurgeCommit, Inv, TypeOK, ApiKeyRow
  <2>2. RowConsistent' /\ CodeWindow'
    BY <2>1 DEF Inv, RowConsistent, CodeWindow, NoRow
  <2>3. KeyOfItsOwner' /\ AttachedKeys'
    BY <2>1 DEF Inv, TypeOK, Row, KeyOfItsOwner, AttachedKeys, NoRow
  <2>4. DeliveredFirst' /\ OneDelivery'
    BY <2>1 DEF Inv, TypeOK, DeliveredFirst, OneDelivery, InFlight
  <2>5. FreshReferences'
    BY <1>9, <2>1, CallFields DEF PurgeCommit, ExpiredRow, Inv, TypeOK, CallRecord, FreshReferences, Running
  <2> QED BY <2>1, <2>2, <2>3, <2>4, <2>5 DEF Rest, Inv, CallsIdentified, UnclaimedBeforePush, NoRow
<1> QED
  BY <1>1, <1>2, <1>3, <1>4, <1>5, <1>6, <1>7, <1>8, <1>9 DEF Next, PurgeLoop

-----------------------------------------------------------------------------
LEMMA Invariance == Spec => []Inv
<1>1. Inv /\ [Next]_vars => Inv'
  BY TypeStep, RestStep DEF Inv, Rest
<1> QED BY InitInv, <1>1, PTL DEF Spec

\* The state of the flow stays well formed: every row, key and call keeps its
\* type, whatever calls and purges interleave.
THEOREM TypeCorrect == Spec => []TypeOK
BY Invariance, PTL DEF Inv

\* The sealed token of a key is handed over at most once (_deliver: the row lock
\* and the "delivered" status).
THEOREM DeliveredOnce == Spec => []OneDelivery
BY Invariance, PTL DEF Inv

\* A request, its user and its key go together: no concurrent opening or key
\* creation mixes two users or two requests (lock_request_for_user).
THEOREM KeyBelongsToHolder == Spec => []KeyOfItsOwner
BY Invariance, PTL DEF Inv

\* The constraints sealed_complete and delivered_erased of connect_requests are
\* never violated by a handler, so no commit fails on them.
THEOREM RowsConsistent == Spec => []RowConsistent
BY Invariance, PTL DEF Inv

\* A code outlives the term of its request by less than CodeTtl.
THEOREM CodesDieInTime == Spec => []CodeWindow
BY Invariance, PTL DEF Inv

-----------------------------------------------------------------------------
(* The flow implements its contract *)

\* Only these steps are visible in the contract.
LEMMA ContractStep == Inv /\ Inv' /\ [Next]_vars => [Contract!CNext]_(Contract!cvars)
<1> SUFFICES ASSUME Inv, Inv', [Next]_vars PROVE [Contract!CNext]_(Contract!cvars)
  OBVIOUS
<1> USE DEF history
<1> DEFINE Same == UNCHANGED req
<1>1. Same => UNCHANGED Contract!cvars
  BY DEF Contract!cvars
<1>2. CASE UNCHANGED vars \/ Tick \/ (\E cl \in Clients : UpdateClient(cl))
  BY <1>1, <1>2 DEF vars, Tick, UpdateClient
<1>3. ASSUME NEW c \in Calls, Arrival(c) \/ Answer(c) \/ LoseAnswer(c)
      PROVE  [Contract!CNext]_(Contract!cvars)
  BY <1>1, <1>3 DEF Arrival, ArrivePush, ArriveBrowser, ArriveExchange, Arrive, Answer, LoseAnswer
<1>4. ASSUME NEW c \in Calls, Transaction(c) PROVE [Contract!CNext]_(Contract!cvars)
  <2> DEFINE r == call[c].r
  <2>0. call[c] \in CallRecord
    BY <1>4, CallFields DEF Inv, Transaction, Running, CreateRequest, OpenRequest, DenyRequest,
       CreateConnectApiKey, SealRequest, ExchangeCode, RecordReplay, Abort
  <2>1. r \in Requests /\ req[r] \in Row
    BY <2>0 DEF CallRecord, Inv, TypeOK
  <2>2. CASE CreateRequest(c)
    <3>1. req[r].status = "absent" /\ req[r].user = None
      BY <2>1, <2>2 DEF CreateRequest, Inv, FreshReferences, UnclaimedBeforePush
    <3>2. Contract!Ask(r)
      BY <2>1, <2>2, <3>1 DEF CreateRequest, Contract!Ask, Consent, Inv, TypeOK
    <3> QED BY <2>1, <3>2 DEF Contract!CNext
  <2>3. ASSUME call[c].op \in BrowserOps, call[c].phase = "running", LockedFor(c),
               NEW answer \in {"pending", "denied", "sealed"},
               \A s \in Requests : s # r => req'[s] = req[s],
               req'[r].status = answer, req'[r].user = call[c].user
        PROVE  [Contract!CNext]_(Contract!cvars)
    <3>1. call[c].user \in Users /\ req[r].status = "pending" /\ req[r].user \in {None, call[c].user}
      BY <2>3 DEF Inv, CallsIdentified, LockedFor, CheckUsable
    <3>2. Contract!Respond(r, call[c].user, Consent(answer))
      BY <2>1, <2>3, <3>1 DEF Contract!Respond, Consent
    <3>3. Consent(answer) \in {"asked", "refused", "granted"}
      BY DEF Consent
    <3> QED BY <2>1, <3>1, <3>2, <3>3 DEF Contract!CNext
  <2>4. CASE OpenRequest(c)
    <3>1. req'[r].status = "pending"
      BY <2>1, <2>4 DEF OpenRequest, LockedFor, CheckUsable, Row, Inv, TypeOK
    <3> QED BY <2>1, <2>3, <2>4, <3>1 DEF OpenRequest, Running, Row, Inv, TypeOK, BrowserOps
  <2>5. CASE DenyRequest(c)
    BY <2>1, <2>3, <2>5 DEF DenyRequest, Running, Row, Inv, TypeOK, BrowserOps
  <2>6. ASSUME NEW k \in Keys, CreateConnectApiKey(c, k) PROVE [Contract!CNext]_(Contract!cvars)
    <3>1. req'[r].status = "pending"
      BY <2>1, <2>6 DEF CreateConnectApiKey, LockedFor, CheckUsable, Row, Inv, TypeOK
    <3> QED BY <2>1, <2>3, <2>6, <3>1 DEF CreateConnectApiKey, Running, Row, Inv, TypeOK, BrowserOps
  <2>7. CASE SealRequest(c)
    BY <2>1, <2>3, <2>7 DEF SealRequest, Running, Row, Inv, TypeOK, BrowserOps
  <2>8. CASE ExchangeCode(c)
    <3>1. Contract!HandOver(r)
      BY <2>1, <2>8 DEF ExchangeCode, Exchangeable, Contract!HandOver, Consent, Inv, TypeOK, Row
    <3> QED BY <2>1, <3>1 DEF Contract!CNext
  <2>9. CASE RecordReplay(c) \/ Abort(c)
    BY <1>1, <2>9 DEF RecordReplay, Abort
  <2> QED BY <1>4, <2>2, <2>4, <2>5, <2>6, <2>7, <2>8, <2>9 DEF Transaction
<1>5. ASSUME NEW k \in Keys, RevokeApiKey(k) PROVE [Contract!CNext]_(Contract!cvars)
  BY <1>1, <1>5 DEF RevokeApiKey
<1>6. ASSUME NEW p \in Purgers, PurgeLoop(p) PROVE [Contract!CNext]_(Contract!cvars)
  <2>1. CASE PurgeCommit(p)
    <3>1. PICK S \in SUBSET Requests : S = {r \in Requests : ExpiredRow(req[r], purge[p].at)}
      OBVIOUS
    <3>2. Contract!Forget(S)
      BY <2>1, <3>1 DEF PurgeCommit, Contract!Forget, Consent, ExpiredRow, NoRow, Inv, TypeOK, Row, Status
    <3> QED BY <3>2 DEF Contract!CNext
  <2>2. CASE PurgeList(p) \/ PurgeFail(p) \/ PurgeEnd(p) \/ PurgeRestart(p)
    BY <1>1, <2>2 DEF PurgeList, PurgeFail, PurgeEnd, PurgeRestart
  <2> QED BY <1>6, <2>1, <2>2 DEF PurgeLoop
<1> QED BY <1>2, <1>3, <1>4, <1>5, <1>6 DEF Next

\* Whatever the interleaving of handlers, purges, crashes and lost answers, the
\* flow behaves as its contract: one answer per request, from the user who
\* claimed it, and at most one hand-over, after a grant.
THEOREM ContractImplemented == Spec => ImplementsContract
<1>1. Init => Contract!CInit
  BY DEF Init, Contract!CInit, NoRow, Consent
<1>2. Inv /\ Inv' /\ [Next]_vars => [Contract!CNext]_(Contract!cvars)
  BY ContractStep
<1> QED BY <1>1, <1>2, Invariance, PTL DEF Spec, ImplementsContract, Contract!CSpec

-----------------------------------------------------------------------------
LEMMA FinalAnswer == Inv /\ [Next]_vars => FinalAnswerStep
<1> SUFFICES ASSUME Inv, [Next]_vars PROVE FinalAnswerStep
  OBVIOUS
<1> USE DEF history
<1>1. CASE UNCHANGED req
  BY <1>1 DEF FinalAnswerStep
<1>2. ASSUME NEW c \in Calls, Transaction(c) PROVE FinalAnswerStep
  <2>0. /\ TypeOK
        /\ call[c].phase = "running" => call[c] \in CallRecord
    BY CallFields DEF Inv
  <2>1. CASE CreateRequest(c)
    BY <2>0, <2>1 DEF CreateRequest, Running, Inv, TypeOK, FreshReferences, UnclaimedBeforePush,
       KeyOfItsOwner, CallRecord, FinalAnswerStep
  <2>2. CASE OpenRequest(c)
    BY <2>0, <2>2 DEF OpenRequest, Running, LockedFor, CheckUsable, TypeOK, Row, CallRecord,
       FinalAnswerStep
  <2>3. CASE DenyRequest(c)
    BY <2>0, <2>3 DEF DenyRequest, Running, LockedFor, CheckUsable, TypeOK, Row, CallRecord,
       FinalAnswerStep
  <2>4. ASSUME NEW k \in Keys, CreateConnectApiKey(c, k) PROVE FinalAnswerStep
    BY <2>0, <2>4 DEF CreateConnectApiKey, Running, LockedFor, CheckUsable, TypeOK, Row, CallRecord,
       FinalAnswerStep
  <2>5. CASE SealRequest(c)
    BY <2>0, <2>5 DEF SealRequest, Running, LockedFor, CheckUsable, TypeOK, Row, CallRecord,
       FinalAnswerStep
  <2>6. CASE ExchangeCode(c)
    BY <2>0, <2>6 DEF ExchangeCode, Exchangeable, Running, TypeOK, Row, CallRecord, FinalAnswerStep
  <2>7. CASE RecordReplay(c) \/ Abort(c)
    BY <1>1, <2>7 DEF RecordReplay, Abort
  <2> QED BY <1>2, <2>1, <2>2, <2>3, <2>4, <2>5, <2>6, <2>7 DEF Transaction
<1>3. ASSUME NEW p \in Purgers, PurgeCommit(p) PROVE FinalAnswerStep
  BY <1>3 DEF PurgeCommit, NoRow, FinalAnswerStep
<1>4. CASE \/ UNCHANGED vars \/ Tick
           \/ \E cl \in Clients : UpdateClient(cl)
           \/ \E c \in Calls : Arrival(c) \/ Answer(c) \/ LoseAnswer(c)
           \/ \E k \in Keys : RevokeApiKey(k)
           \/ \E p \in Purgers : PurgeList(p) \/ PurgeFail(p) \/ PurgeEnd(p) \/ PurgeRestart(p)
  BY <1>1, <1>4 DEF vars, Tick, UpdateClient, Arrival, ArrivePush, ArriveBrowser, ArriveExchange,
     Arrive, Answer, LoseAnswer, RevokeApiKey, PurgeList, PurgeFail, PurgeEnd, PurgeRestart
<1> QED BY <1>2, <1>3, <1>4 DEF Next, PurgeLoop

\* The user's answer is final: of two concurrent answers the first wins, and the
\* user and the key of a request never change while the request exists.
THEOREM AnswersAreFinal == Spec => AnswerIsFinal
BY Invariance, FinalAnswer, PTL DEF Spec, AnswerIsFinal
=============================================================================
