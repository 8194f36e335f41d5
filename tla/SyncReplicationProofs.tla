----------------------- MODULE SyncReplicationProofs -----------------------
(***************************************************************************)
(* What a follower has of a peer, for any number of instances, any length   *)
(* of the logs and of the channels, any batch size, any loss, repetition    *)
(* and crash, any reset of a cursor, and any number of rows that the        *)
(* triggers log for a change that is applied.                               *)
(***************************************************************************)
EXTENDS SyncReplicationRefinement, FiniteSetTheorems, SequenceTheorems, TLAPS

-----------------------------------------------------------------------------
(* The inductive invariant *)

\* The numbers that were not given yet, and no others, name no row.
Unused == \A n \in Nodes, s \in Seqs : s >= nextSeq[n] <=> log[n][s].state = "none"

\* Nothing is due to the peers any more for this number: it was sent, or noted
\* as late or skipped, or will never be a committed row of this node.
Settled(n, s) ==
    \/ s \in sent[n] \cup late[n] \cup waived[n]
    \/ log[n][s].state = "rolledback"
    \/ log[n][s].state = "committed" /\ log[n][s].emitter # n

\* A cursor has only settled numbers behind it, and a reset skips them all.
CursorsSettled ==
    \A n \in Nodes, s \in Seqs :
        /\ s <= cursor[n] \/ s <= saved[n] => Settled(n, s)
        /\ reset[n].on /\ s <= reset[n].to => s \in waived[n]

\* A batch is made of committed rows of its node, and what lies before one of
\* them is settled or in the batch as well.
BatchSettled ==
    \A n \in Nodes : \A s \in batch[n] :
        /\ log[n][s].state = "committed" /\ log[n][s].emitter = n
        /\ \A x \in Seqs : x < s => x \in batch[n] \/ Settled(n, x)

\* What travels, waits on a shelf or was applied is a change that its emitter
\* committed.
OnlyChanges ==
    \A n, m \in Nodes :
        /\ net[m][n] \in Seq(OwnChanges(m))
        /\ shelf[n][m] \subseteq OwnChanges(m)
        /\ 1..applied[n][m] \subseteq OwnChanges(m)

\* The transaction that applies a change: open rows, one of them the
\* acknowledgement of the change that follows the last one applied.
Writes(n, a) ==
    /\ log[n][a] = Ack(n, worker[n].peer, worker[n].seq)
    /\ \A q \in worker[n].rows : q # a => log[n][q].kind = "transaction"

Working(n) ==
    /\ worker[n].phase # "apply" => worker[n].rows = {}
    /\ worker[n].phase # "rest" => worker[n].peer \in Peers(n)
    /\ worker[n].phase = "apply" =>
         /\ worker[n].seq = applied[n][worker[n].peer] + 1
         /\ worker[n].seq \in OwnChanges(worker[n].peer)
         /\ \A q \in worker[n].rows : log[n][q].state = "open"
         /\ \E a \in worker[n].rows : Writes(n, a)

WorkersInOrder == \A n \in Nodes : Working(n)

\* An acknowledgement that is not committed belongs to the transaction in
\* progress.
OpenAcks ==
    \A n \in Nodes, q \in Seqs :
        log[n][q].state = "open" /\ log[n][q].kind = "replication_ack" => q \in worker[n].rows

LogInv == Unused /\ WorkersInOrder /\ OpenAcks /\ AcknowledgedOnce
PublisherInv == CursorsSettled /\ BatchSettled
Inv == TypeOK /\ LogInv /\ PublisherInv /\ OnlyChanges

-----------------------------------------------------------------------------
LEMMA InitInv == Init => Inv
<1> SUFFICES ASSUME Init PROVE Inv
  OBVIOUS
<1> USE NodesAssumption, BoundsAssumption
<1>1. NoLogRow \in LogRow /\ NoLogRow.state = "none" /\ NoLogRow.kind = "transaction"
  BY DEF NoLogRow, Change, LogRow
<1>2. Resting \in Worker /\ Resting.phase = "rest" /\ Resting.rows = {}
  BY DEF Resting, Worker
<1>3. \A S : <<>> \in Seq(S)
  BY EmptySeq
<1>4. TypeOK
  BY <1>1, <1>2, <1>3 DEF Init, TypeOK
<1>5. Unused /\ WorkersInOrder /\ OpenAcks
  BY <1>1, <1>2 DEF Init, Unused, WorkersInOrder, Working, OpenAcks, Seqs
<1>6. AcknowledgedOnce
  <2>1. \A n, m \in Nodes : AckRows(n, m) = {}
    BY <1>1 DEF Init, AckRows
  <2>2. \A n, m \in Nodes : 1..applied[n][m] = {}
    BY DEF Init
  <2> QED BY <2>1, <2>2 DEF AcknowledgedOnce
<1>7. CursorsSettled /\ BatchSettled
  BY DEF Init, CursorsSettled, BatchSettled, Seqs
<1>8. OnlyChanges
  BY <1>3 DEF Init, OnlyChanges
<1> QED BY <1>4, <1>5, <1>6, <1>7, <1>8 DEF Inv, LogInv, PublisherInv

-----------------------------------------------------------------------------
(* What a step leaves alone *)

\* A transaction that ended is never written again.
KeptRows ==
    \A n \in Nodes, s \in Seqs :
        log[n][s].state \in {"committed", "rolledback"} => log'[n][s] = log[n][s]

HistoryGrows ==
    \A n \in Nodes : sent[n] \subseteq sent'[n] /\ late[n] \subseteq late'[n] /\ waived[n] \subseteq waived'[n]

LEMMA SettledStays ==
    ASSUME KeptRows, HistoryGrows, NEW n \in Nodes, NEW s \in Seqs, Settled(n, s)
    PROVE  Settled(n, s)'
BY DEF KeptRows, HistoryGrows, Settled

LEMMA ChangesStay ==
    ASSUME KeptRows, NEW m \in Nodes
    PROVE  OwnChanges(m) \subseteq OwnChanges(m)'
BY DEF KeptRows, OwnChanges

LEMMA PublisherRests ==
    ASSUME Inv, KeptRows, UNCHANGED <<cursor, saved, reset, batch, history>>
    PROVE  PublisherInv'
<1> USE DEF Inv, PublisherInv
<1>1. HistoryGrows
  BY DEF HistoryGrows, history
<1>2. CursorsSettled'
  BY <1>1, SettledStays DEF CursorsSettled, history
<1>3. BatchSettled'
  <2> SUFFICES ASSUME NEW n \in Nodes, NEW s \in batch[n]
               PROVE  /\ log'[n][s].state = "committed" /\ log'[n][s].emitter = n
                      /\ \A x \in Seqs : x < s => x \in batch[n] \/ Settled(n, x)'
    BY DEF BatchSettled
  <2>1. /\ s \in Seqs /\ log[n][s].state = "committed" /\ log[n][s].emitter = n
        /\ \A x \in Seqs : x < s => x \in batch[n] \/ Settled(n, x)
    BY DEF BatchSettled, TypeOK
  <2>2. log'[n][s] = log[n][s]
    BY <2>1 DEF KeptRows
  <2> QED BY <1>1, <2>1, <2>2, SettledStays
<1> QED BY <1>2, <1>3

LEMMA ChannelsRest ==
    ASSUME Inv, KeptRows, UNCHANGED <<net, shelf, applied>>
    PROVE  OnlyChanges'
<1> SUFFICES ASSUME NEW n \in Nodes, NEW m \in Nodes
             PROVE  /\ net[m][n] \in Seq(OwnChanges(m)')
                    /\ shelf[n][m] \subseteq OwnChanges(m)'
                    /\ 1..applied[n][m] \subseteq OwnChanges(m)'
  BY DEF OnlyChanges
<1>1. OwnChanges(m) \subseteq OwnChanges(m)'
  BY ChangesStay
<1>2. /\ net[m][n] \in Seq(OwnChanges(m))
      /\ shelf[n][m] \subseteq OwnChanges(m) /\ 1..applied[n][m] \subseteq OwnChanges(m)
  BY DEF Inv, OnlyChanges
<1>3. net[m][n] \in Seq(OwnChanges(m)')
  BY <1>1, <1>2, SeqMonotonic
<1> QED BY <1>1, <1>2, <1>3

LEMMA LogRests ==
    ASSUME Inv, UNCHANGED <<log, nextSeq, worker, applied>>
    PROVE  LogInv' /\ KeptRows
<1>1. Unused' /\ OpenAcks' /\ KeptRows
  BY DEF Inv, LogInv, Unused, OpenAcks, KeptRows
<1>2. WorkersInOrder'
  BY DEF Inv, LogInv, WorkersInOrder, Working, OwnChanges, Writes
<1>3. AcknowledgedOnce'
  BY DEF Inv, LogInv, AcknowledgedOnce, AckRows
<1> QED BY <1>1, <1>2, <1>3 DEF LogInv

\* The acknowledgements are those of the committed rows, and no other row counts.
CommittedAck(r) == r.kind = "replication_ack" /\ r.state = "committed"

LEMMA AcksStay ==
    ASSUME Inv, applied' = applied,
           \A n \in Nodes, q \in Seqs :
              \/ log'[n][q] = log[n][q]
              \/ ~CommittedAck(log[n][q]) /\ ~CommittedAck(log'[n][q])
    PROVE  AcknowledgedOnce'
<1> SUFFICES ASSUME NEW n \in Nodes, NEW m \in Nodes
             PROVE  /\ {log'[n][q].sourceSeq : q \in AckRows(n, m)'} = 1..applied[n][m]
                    /\ \A q, r \in AckRows(n, m)' :
                         log'[n][q].sourceSeq = log'[n][r].sourceSeq => q = r
  BY DEF AcknowledgedOnce
<1>1. /\ AckRows(n, m)' = AckRows(n, m)
      /\ \A q \in AckRows(n, m) : log'[n][q] = log[n][q]
  BY DEF AckRows, CommittedAck
<1>2. {log'[n][q].sourceSeq : q \in AckRows(n, m)'} = {log[n][q].sourceSeq : q \in AckRows(n, m)}
  BY <1>1
<1> QED BY <1>1, <1>2 DEF Inv, LogInv, AcknowledgedOnce

-----------------------------------------------------------------------------
(* The local changes *)

LEMMA OpenChangeKeeps ==
    ASSUME Inv, NEW n \in Nodes, NEW e \in {n, None}, NEW known \in BOOLEAN,
           OpenChange(n, e, known)
    PROVE  Inv' /\ KeptRows
<1> DEFINE new == Change(e, "open", FALSE, known)
<1>1. /\ nextSeq[n] \in Seqs /\ nextSeq' = [nextSeq EXCEPT ![n] = @ + 1]
      /\ log' = [log EXCEPT ![n][nextSeq[n]] = new]
      /\ UNCHANGED <<publisher, net, consumer, history>>
  BY DEF OpenChange
<1>2. /\ log \in [Nodes -> [Seqs -> LogRow]] /\ nextSeq \in [Nodes -> 1..MaxSeq + 1]
      /\ worker \in [Nodes -> Worker]
  BY DEF Inv, TypeOK
<1>3. new \in LogRow /\ new.state = "open" /\ new.kind = "transaction"
  BY DEF Change, LogRow
<1>4. log[n][nextSeq[n]].state = "none"
  BY <1>1, <1>2, BoundsAssumption DEF Inv, LogInv, Unused, Seqs
<1>5. /\ log' \in [Nodes -> [Seqs -> LogRow]]
      /\ \A m \in Nodes, s \in Seqs :
            log'[m][s] = IF m = n /\ s = nextSeq[n] THEN new ELSE log[m][s]
  BY <1>1, <1>2, <1>3
<1>6. nextSeq' \in [Nodes -> 1..MaxSeq + 1]
  BY <1>1, <1>2, BoundsAssumption DEF Seqs
<1>7. KeptRows
  BY <1>4, <1>5 DEF KeptRows
<1>8. TypeOK'
  BY <1>1, <1>5, <1>6 DEF Inv, TypeOK, publisher, consumer, history
<1>9. Unused' /\ OpenAcks'
  <2>1. ASSUME NEW m \in Nodes, NEW s \in Seqs
        PROVE  s >= nextSeq'[m] <=> log'[m][s].state = "none"
    <3>1. s >= nextSeq'[m] <=> s >= nextSeq[m] /\ ~(m = n /\ s = nextSeq[n])
      BY <1>1, <1>2, BoundsAssumption DEF Seqs
    <3>2. s >= nextSeq[m] <=> log[m][s].state = "none"
      BY DEF Inv, LogInv, Unused
    <3>3. CASE m = n /\ s = nextSeq[n]
      <4>1. log'[m][s].state = "open"
        BY <1>3, <1>5, <3>3
      <4> QED BY <3>1, <3>3, <4>1
    <3>4. CASE ~(m = n /\ s = nextSeq[n])
      <4>1. log'[m][s] = log[m][s]
        BY <1>5, <3>4
      <4> QED BY <3>1, <3>2, <3>4, <4>1
    <3> QED BY <3>3, <3>4
  <2>2. OpenAcks'
    BY <1>1, <1>3, <1>5 DEF Inv, LogInv, OpenAcks, consumer
  <2> QED BY <2>1, <2>2 DEF Unused
<1>10. WorkersInOrder'
  <2> worker' = worker
    BY <1>1 DEF consumer
  <2> SUFFICES ASSUME NEW m \in Nodes, worker[m].phase = "apply"
               PROVE  /\ worker[m].seq \in OwnChanges(worker[m].peer)'
                      /\ \A q \in worker[m].rows : log'[m][q].state = "open"
                      /\ \E a \in worker[m].rows : Writes(m, a)'
    BY <1>1 DEF Inv, LogInv, WorkersInOrder, Working, consumer
  <2>1. /\ worker[m].seq \in OwnChanges(worker[m].peer) /\ worker[m].peer \in Nodes
        /\ worker[m].rows \subseteq Seqs
        /\ \A q \in worker[m].rows : log[m][q].state = "open"
        /\ \E a \in worker[m].rows : Writes(m, a)
    BY <1>2 DEF Inv, LogInv, WorkersInOrder, Working, Peers, Worker
  <2>2. \A q \in worker[m].rows : log'[m][q] = log[m][q]
    BY <1>4, <1>5, <2>1
  <2>3. worker[m].seq \in OwnChanges(worker[m].peer)'
    BY <1>7, <2>1, ChangesStay
  <2> QED BY <2>1, <2>2, <2>3 DEF Writes
<1>11. AcknowledgedOnce'
  BY <1>1, <1>3, <1>4, <1>5, AcksStay DEF CommittedAck, consumer
<1>12. PublisherInv' /\ OnlyChanges'
  BY <1>1, <1>7, PublisherRests, ChannelsRest DEF publisher, consumer
<1> QED BY <1>7, <1>8, <1>9, <1>10, <1>11, <1>12 DEF Inv, LogInv

\* The end of a row: only its state changes.
Ended(r, o) == [r EXCEPT !.state = o]

LEMMA RowEnds ==
    ASSUME NEW r \in LogRow, NEW o \in {"committed", "rolledback"}
    PROVE  /\ Ended(r, o) \in LogRow
           /\ Ended(r, o).state = o
           /\ Ended(r, o).kind = r.kind
           /\ Ended(r, o).emitter = r.emitter
           /\ Ended(r, o).source = r.source
           /\ Ended(r, o).sourceSeq = r.sourceSeq
BY DEF LogRow, Ended

\* Some open rows of n end together.
RowsEnd(n, rows, o) ==
    /\ rows \subseteq Seqs
    /\ \A q \in rows : log[n][q].state = "open"
    /\ log' \in [Nodes -> [Seqs -> LogRow]]
    /\ \A m \in Nodes, q \in Seqs :
          log'[m][q] = IF m = n /\ q \in rows THEN Ended(log[n][q], o) ELSE log[m][q]

\* They are not in the hands of the worker.
LEMMA OthersEnd ==
    ASSUME Inv, NEW n \in Nodes, NEW rows, NEW o \in {"committed", "rolledback"},
           RowsEnd(n, rows, o), \A q \in rows : q \notin worker[n].rows,
           UNCHANGED <<nextSeq, worker, applied>>
    PROVE  LogInv' /\ KeptRows
<1> USE DEF RowsEnd
<1>1. log \in [Nodes -> [Seqs -> LogRow]] /\ worker \in [Nodes -> Worker]
  BY DEF Inv, TypeOK
<1>2. ASSUME NEW q \in rows
      PROVE  /\ log'[n][q].state = o /\ log'[n][q].kind = log[n][q].kind
             /\ log[n][q].kind = "transaction"
  <2>1. q \in Seqs /\ log[n][q] \in LogRow /\ log'[n][q] = Ended(log[n][q], o)
    BY <1>1
  <2>2. log[n][q].kind # "replication_ack"
    BY <2>1 DEF Inv, LogInv, OpenAcks
  <2>3. log[n][q].kind = "transaction"
    BY <2>1, <2>2 DEF LogRow
  <2> QED BY <2>1, <2>3, RowEnds
<1>4. KeptRows
  BY <1>1 DEF KeptRows
<1>5. Unused' /\ OpenAcks'
  <2>1. Unused'
    BY <1>2 DEF Inv, LogInv, Unused
  <2>2. OpenAcks'
    BY <1>2 DEF Inv, LogInv, OpenAcks
  <2> QED BY <2>1, <2>2
<1>6. WorkersInOrder'
  <2> SUFFICES ASSUME NEW m \in Nodes, worker[m].phase = "apply"
               PROVE  /\ worker[m].seq \in OwnChanges(worker[m].peer)'
                      /\ \A q \in worker[m].rows : log'[m][q].state = "open"
                      /\ \E a \in worker[m].rows : Writes(m, a)'
    BY DEF Inv, LogInv, WorkersInOrder, Working
  <2>1. /\ worker[m].seq \in OwnChanges(worker[m].peer) /\ worker[m].peer \in Nodes
        /\ worker[m].rows \subseteq Seqs
        /\ \A q \in worker[m].rows : log[m][q].state = "open"
        /\ \E a \in worker[m].rows : Writes(m, a)
    BY <1>1 DEF Inv, LogInv, WorkersInOrder, Working, Peers, Worker
  <2>2. \A q \in worker[m].rows : log'[m][q] = log[m][q]
    BY <2>1
  <2>3. worker[m].seq \in OwnChanges(worker[m].peer)'
    BY <1>4, <2>1, ChangesStay
  <2> QED BY <2>1, <2>2, <2>3 DEF Writes
<1>7. AcknowledgedOnce'
  BY <1>1, <1>2, AcksStay DEF CommittedAck
<1> QED BY <1>4, <1>5, <1>6, <1>7 DEF LogInv

LEMMA CloseChangeKeeps ==
    ASSUME Inv, NEW n \in Nodes, NEW s \in Seqs, NEW o \in {"committed", "rolledback"},
           CloseChange(n, s, o)
    PROVE  Inv' /\ KeptRows
<1>1. /\ log[n][s].state = "open" /\ s \notin worker[n].rows
      /\ log' = [log EXCEPT ![n][s].state = o]
      /\ UNCHANGED <<nextSeq, publisher, net, consumer, history>>
  BY DEF CloseChange
<1>2. log \in [Nodes -> [Seqs -> LogRow]]
  BY DEF Inv, TypeOK
<1>3. Ended(log[n][s], o) \in LogRow
  BY <1>2, RowEnds
<1>4. RowsEnd(n, {s}, o)
  BY <1>1, <1>2, <1>3 DEF Ended, RowsEnd
<1>5. LogInv' /\ KeptRows
  <2>1. \A q \in {s} : q \notin worker[n].rows
    BY <1>1
  <2>2. UNCHANGED <<nextSeq, worker, applied>>
    BY <1>1 DEF consumer
  <2> QED BY <1>4, <2>1, <2>2, OthersEnd
<1>6. TypeOK'
  BY <1>1, <1>4 DEF Inv, TypeOK, RowsEnd, publisher, consumer, history
<1>7. PublisherInv' /\ OnlyChanges'
  BY <1>1, <1>5, PublisherRests, ChannelsRest DEF publisher, consumer
<1> QED BY <1>5, <1>6, <1>7 DEF Inv

-----------------------------------------------------------------------------
(* The consumer *)

\* The other nodes have nothing to do with a step of n.
LEMMA OtherWorkers ==
    ASSUME Inv, KeptRows, NEW m \in Nodes,
           log'[m] = log[m], worker'[m] = worker[m], applied'[m] = applied[m]
    PROVE  Working(m)'
<1>1. Working(m) /\ worker[m] \in Worker
  BY DEF Inv, LogInv, WorkersInOrder, TypeOK
<1>2. ASSUME worker[m].phase = "apply"
      PROVE  worker[m].seq \in OwnChanges(worker[m].peer)'
  <2>1. worker[m].seq \in OwnChanges(worker[m].peer) /\ worker[m].peer \in Nodes
    BY <1>1, <1>2 DEF Working, Peers
  <2>2. PICK e \in Nodes : e = worker[m].peer /\ e = worker'[m].peer
    BY <2>1
  <2>3. OwnChanges(e) \subseteq OwnChanges(e)'
    BY ChangesStay
  <2> QED BY <2>1, <2>2, <2>3 DEF OwnChanges
<1> QED BY <1>1, <1>2 DEF Working, Writes, OwnChanges

\* The rows of a transaction of n end.
LEMMA SettleEnds ==
    ASSUME Inv, NEW n \in Nodes, NEW rows \in SUBSET Seqs, NEW o \in {"committed", "rolledback"},
           \A q \in rows : log[n][q].state = "open", Settle(n, rows, o)
    PROVE  RowsEnd(n, rows, o)
<1>1. log \in [Nodes -> [Seqs -> LogRow]]
  BY DEF Inv, TypeOK
<1>2. log' = [log EXCEPT ![n] = [q \in Seqs |-> IF q \in rows THEN Ended(log[n][q], o)
                                                ELSE log[n][q]]]
  BY DEF Settle, Ended
<1>3. \A q \in Seqs : Ended(log[n][q], o) \in LogRow
  BY <1>1, RowEnds
<1>4. [q \in Seqs |-> IF q \in rows THEN Ended(log[n][q], o) ELSE log[n][q]] \in [Seqs -> LogRow]
  BY <1>1, <1>3
<1> QED BY <1>1, <1>2, <1>4 DEF RowsEnd

\* A transaction of the worker that is rolled back leaves nothing.
LEMMA WorkerDrops ==
    ASSUME Inv, NEW n \in Nodes, NEW rows, RowsEnd(n, rows, "rolledback"),
           worker[n].rows \subseteq rows,
           worker' = [worker EXCEPT ![n] = Resting], UNCHANGED <<nextSeq, applied>>
    PROVE  LogInv' /\ KeptRows
<1>1. log \in [Nodes -> [Seqs -> LogRow]] /\ worker \in [Nodes -> Worker]
  BY DEF Inv, TypeOK
<1>2. ASSUME NEW q \in rows
      PROVE  q \in Seqs /\ log[n][q].state = "open" /\ log'[n][q].state = "rolledback"
  <2>1. q \in Seqs /\ log[n][q] \in LogRow /\ log'[n][q] = Ended(log[n][q], "rolledback")
    BY <1>1 DEF RowsEnd
  <2> QED BY <2>1, RowEnds DEF RowsEnd
<1>3. \A m \in Nodes, q \in Seqs : ~(m = n /\ q \in rows) => log'[m][q] = log[m][q]
  BY DEF RowsEnd
<1>4. KeptRows
  BY <1>2, <1>3 DEF KeptRows
<1>5. Unused'
  BY <1>2, <1>3 DEF Inv, LogInv, Unused
<1>6. OpenAcks'
  BY <1>1, <1>2, <1>3 DEF Inv, LogInv, OpenAcks
<1>7. WorkersInOrder'
  <2>1. Working(n)'
    BY <1>1 DEF Working, Resting
  <2>2. ASSUME NEW m \in Nodes, m # n PROVE Working(m)'
    <3>1. log'[m] = log[m]
      BY <1>1, <1>3, <2>2 DEF RowsEnd
    <3> QED BY <1>1, <1>4, <2>2, <3>1, OtherWorkers
  <2> QED BY <2>1, <2>2 DEF WorkersInOrder
<1>8. AcknowledgedOnce'
  BY <1>2, <1>3, AcksStay DEF CommittedAck
<1> QED BY <1>4, <1>5, <1>6, <1>7, <1>8 DEF LogInv

LEMMA FailApplyKeeps == ASSUME Inv, NEW n \in Nodes, FailApply(n) PROVE Inv' /\ KeptRows
<1>1. /\ worker[n].phase = "apply" /\ Settle(n, worker[n].rows, "rolledback")
      /\ worker' = [worker EXCEPT ![n] = Resting]
      /\ UNCHANGED <<nextSeq, publisher, net, applied, received, shelf, history>>
  BY DEF FailApply
<1>2. worker[n].rows \in SUBSET Seqs /\ \A q \in worker[n].rows : log[n][q].state = "open"
  BY <1>1 DEF Inv, LogInv, WorkersInOrder, Working, TypeOK, Worker
<1>3. RowsEnd(n, worker[n].rows, "rolledback")
  BY <1>1, <1>2, SettleEnds
<1>4. LogInv' /\ KeptRows
  BY <1>1, <1>3, WorkerDrops
<1>5. TypeOK'
  <2>1. Resting \in Worker
    BY DEF Resting, Worker
  <2> QED BY <1>1, <1>3, <2>1 DEF Inv, TypeOK, RowsEnd, publisher, history
<1>6. PublisherInv' /\ OnlyChanges'
  BY <1>1, <1>4, PublisherRests, ChannelsRest DEF publisher
<1> QED BY <1>4, <1>5, <1>6 DEF Inv

LEMMA CrashKeeps == ASSUME Inv, NEW n \in Nodes, Crash(n) PROVE Inv' /\ KeptRows
<1> DEFINE rows == {s \in Seqs : log[n][s].state = "open"}
<1>1. /\ Settle(n, rows, "rolledback")
      /\ pub' = [pub EXCEPT ![n] = "idle"] /\ batch' = [batch EXCEPT ![n] = {}]
      /\ cursor' = [cursor EXCEPT ![n] = saved[n]]
      /\ reset' = [reset EXCEPT ![n] = [on |-> FALSE, to |-> 0]]
      /\ worker' = [worker EXCEPT ![n] = Resting]
      /\ UNCHANGED <<nextSeq, saved, net, applied, received, shelf, history>>
  BY DEF Crash
<1>2. RowsEnd(n, rows, "rolledback")
  BY <1>1, SettleEnds
<1>3. worker[n].rows \subseteq rows
  BY DEF Inv, LogInv, WorkersInOrder, Working, TypeOK, Worker
<1>4. LogInv' /\ KeptRows
  BY <1>1, <1>2, <1>3, WorkerDrops
<1>5. OnlyChanges'
  BY <1>1, <1>4, ChannelsRest
<1>6. TypeOK'
  <2>1. Resting \in Worker
    BY DEF Resting, Worker
  <2>2. log' \in [Nodes -> [Seqs -> LogRow]]
    BY <1>2 DEF RowsEnd
  <2>3. cursor' \in [Nodes -> 0..MaxSeq] /\ batch' \in [Nodes -> SUBSET Seqs]
    BY <1>1 DEF Inv, TypeOK
  <2>4. reset' \in [Nodes -> [on : BOOLEAN, to : 0..MaxSeq]]
    BY <1>1, BoundsAssumption DEF Inv, TypeOK
  <2>5. pub' \in [Nodes -> {"idle", "publishing"}] /\ worker' \in [Nodes -> Worker]
    BY <1>1, <2>1 DEF Inv, TypeOK
  <2> QED BY <1>1, <2>2, <2>3, <2>4, <2>5 DEF Inv, TypeOK, history
<1>7. HistoryGrows
  BY <1>1 DEF HistoryGrows, history
<1>8. CursorsSettled'
  <2> SUFFICES ASSUME NEW m \in Nodes, NEW s \in Seqs
               PROVE  /\ s <= cursor'[m] \/ s <= saved'[m] => Settled(m, s)'
                      /\ reset'[m].on /\ s <= reset'[m].to => s \in waived'[m]
    BY DEF CursorsSettled
  <2>1. /\ s <= cursor[m] \/ s <= saved[m] => Settled(m, s)
        /\ reset[m].on /\ s <= reset[m].to => s \in waived[m]
    BY DEF Inv, PublisherInv, CursorsSettled
  <2>2. saved' = saved /\ waived' = waived /\ cursor'[m] \in {cursor[m], saved[m]}
    BY <1>1 DEF Inv, TypeOK, history
  <2>3. reset'[m] = reset[m] \/ ~reset'[m].on
    BY <1>1 DEF Inv, TypeOK
  <2>4. Settled(m, s) => Settled(m, s)'
    BY <1>4, <1>7, SettledStays
  <2> QED BY <2>1, <2>2, <2>3, <2>4
<1>9. BatchSettled'
  <2> SUFFICES ASSUME NEW m \in Nodes, NEW s \in batch'[m]
               PROVE  /\ log'[m][s].state = "committed" /\ log'[m][s].emitter = m
                      /\ \A x \in Seqs : x < s => x \in batch'[m] \/ Settled(m, x)'
    BY DEF BatchSettled
  <2>1. m # n /\ batch'[m] = batch[m]
    BY <1>1 DEF Inv, TypeOK
  <2>2. /\ s \in Seqs /\ log[m][s].state = "committed" /\ log[m][s].emitter = m
        /\ \A x \in Seqs : x < s => x \in batch[m] \/ Settled(m, x)
    BY <2>1 DEF Inv, PublisherInv, BatchSettled, TypeOK
  <2>3. log'[m][s] = log[m][s]
    BY <1>4, <2>2 DEF KeptRows
  <2> QED BY <1>4, <1>7, <2>1, <2>2, <2>3, SettledStays
<1> QED BY <1>4, <1>5, <1>6, <1>8, <1>9 DEF Inv, PublisherInv

LEMMA OneMore ==
    ASSUME NEW c \in Nat PROVE 1..(c + 1) = (1..c) \cup {c + 1} /\ c + 1 \notin 1..c
OBVIOUS

\* The change, its acknowledgement and the progress of the worker commit.
LEMMA CommitLogs ==
    ASSUME Inv, NEW n \in Nodes, worker[n].phase = "apply",
           RowsEnd(n, worker[n].rows, "committed"),
           applied' = [applied EXCEPT ![n][worker[n].peer] = worker[n].seq],
           worker'[n].phase \in {"remove", "drain"}, worker'[n].rows = {},
           worker'[n].peer = worker[n].peer,
           \A m \in Nodes \ {n} : worker'[m] = worker[m],
           UNCHANGED nextSeq
    PROVE  LogInv' /\ KeptRows
<1> DEFINE w == worker[n]
           p == worker[n].peer
<1>1. /\ log \in [Nodes -> [Seqs -> LogRow]] /\ worker \in [Nodes -> Worker]
      /\ applied \in [Nodes -> [Nodes -> 0..MaxSeq]]
  BY DEF Inv, TypeOK
<1>2. /\ p \in Peers(n) /\ p \in Nodes /\ p # n /\ w.rows \subseteq Seqs
      /\ w.seq = applied[n][p] + 1 /\ w.seq \in OwnChanges(p)
      /\ \A q \in w.rows : log[n][q].state = "open"
      /\ \E a \in w.rows : Writes(n, a)
  BY <1>1 DEF Inv, LogInv, WorkersInOrder, Working, Peers, Worker
<1>3. PICK a \in w.rows : Writes(n, a)
  BY <1>2
<1>4. ASSUME NEW q \in w.rows
      PROVE  /\ log'[n][q].state = "committed" /\ log'[n][q].kind = log[n][q].kind
             /\ log'[n][q].source = log[n][q].source
             /\ log'[n][q].sourceSeq = log[n][q].sourceSeq
  <2>1. q \in Seqs /\ log[n][q] \in LogRow /\ log'[n][q] = Ended(log[n][q], "committed")
    BY <1>1, <1>2 DEF RowsEnd
  <2> QED BY <2>1, RowEnds
<1>5. \A m \in Nodes, q \in Seqs : ~(m = n /\ q \in w.rows) => log'[m][q] = log[m][q]
  BY DEF RowsEnd
<1>6. KeptRows
  BY <1>2, <1>4, <1>5 DEF KeptRows
<1>7. Unused'
  BY <1>2, <1>4, <1>5 DEF Inv, LogInv, Unused
<1>8. OpenAcks'
  BY <1>1, <1>4, <1>5 DEF Inv, LogInv, OpenAcks
<1>9. /\ applied'[n][p] = w.seq
      /\ \A k, m \in Nodes : ~(k = n /\ m = p) => applied'[k][m] = applied[k][m]
  BY <1>1, <1>2
<1>10. WorkersInOrder'
  <2>1. Working(n)'
    BY <1>2 DEF Working, Peers
  <2>2. ASSUME NEW m \in Nodes, m # n PROVE Working(m)'
    <3>1. log'[m] = log[m]
      BY <1>1, <1>5, <2>2 DEF RowsEnd
    <3> QED BY <1>1, <1>6, <2>2, <3>1, OtherWorkers
  <2> QED BY <2>1, <2>2 DEF WorkersInOrder
<1>11. /\ log[n][a] = Ack(n, p, w.seq)
       /\ \A q \in w.rows : q # a => log[n][q].kind = "transaction"
  BY <1>3 DEF Writes
<1>12. AcknowledgedOnce'
  <2> SUFFICES ASSUME NEW k \in Nodes, NEW m \in Nodes
               PROVE  /\ {log'[k][q].sourceSeq : q \in AckRows(k, m)'} = 1..applied'[k][m]
                      /\ \A q, r \in AckRows(k, m)' :
                           log'[k][q].sourceSeq = log'[k][r].sourceSeq => q = r
    BY DEF AcknowledgedOnce
  <2>1. /\ {log[k][q].sourceSeq : q \in AckRows(k, m)} = 1..applied[k][m]
        /\ \A q, r \in AckRows(k, m) : log[k][q].sourceSeq = log[k][r].sourceSeq => q = r
    BY DEF Inv, LogInv, AcknowledgedOnce
  <2>2. \A q \in AckRows(k, m) : log'[k][q] = log[k][q]
    BY <1>6 DEF AckRows, KeptRows
  <2>3. CASE ~(k = n /\ m = p)
    <3>1. AckRows(k, m)' = AckRows(k, m)
      BY <1>4, <1>5, <1>11, <2>2, <2>3 DEF AckRows, Ack
    <3> QED BY <1>9, <2>1, <2>2, <2>3, <3>1
  <2>4. CASE k = n /\ m = p
    <3>1. log'[n][a].sourceSeq = w.seq /\ a \in AckRows(n, p)'
      BY <1>2, <1>4, <1>11 DEF AckRows, Ack
    <3>2. AckRows(n, p)' = AckRows(n, p) \cup {a}
      BY <1>4, <1>5, <1>11, <2>2, <2>4, <3>1 DEF AckRows
    <3>3. {log'[n][q].sourceSeq : q \in AckRows(n, p)'}
             = {log[n][q].sourceSeq : q \in AckRows(n, p)} \cup {w.seq}
      BY <2>2, <2>4, <3>1, <3>2
    <3>4. 1..w.seq = (1..applied[n][p]) \cup {w.seq} /\ w.seq \notin 1..applied[n][p]
      <4>1. applied[n][p] \in Nat
        BY <1>1, <1>2
      <4> QED BY <1>2, <4>1, OneMore
    <3>5. \A q \in AckRows(n, p) : log[n][q].sourceSeq # w.seq
      BY <2>1, <2>4, <3>4
    <3>6. \A q, r \in AckRows(n, p)' :
             log'[n][q].sourceSeq = log'[n][r].sourceSeq => q = r
      BY <2>1, <2>2, <2>4, <3>1, <3>2, <3>5
    <3>7. {log'[k][q].sourceSeq : q \in AckRows(k, m)'}
             = {log'[n][q].sourceSeq : q \in AckRows(n, p)'}
      BY <2>4
    <3>8. {log[n][q].sourceSeq : q \in AckRows(n, p)} = 1..applied[n][p]
      BY <2>1, <2>4
    <3>9. {log'[n][q].sourceSeq : q \in AckRows(n, p)'} = 1..applied'[n][p]
      BY <1>9, <3>3, <3>4, <3>8
    <3> QED BY <2>4, <3>6, <3>7, <3>9
  <2> QED BY <2>3, <2>4
<1> QED BY <1>6, <1>7, <1>8, <1>10, <1>12 DEF LogInv

LEMMA CommitApplyKeeps == ASSUME Inv, NEW n \in Nodes, CommitApply(n) PROVE Inv' /\ KeptRows
<1> DEFINE w == worker[n]
           p == worker[n].peer
           next == IF w.shelved THEN Removing(p, w.seq) ELSE Draining(p)
<1>1. /\ w.phase = "apply" /\ Settle(n, w.rows, "committed")
      /\ applied' = [applied EXCEPT ![n][p] = Larger(@, w.seq)]
      /\ received' = [received EXCEPT ![n][p] = Larger(@, w.seq)]
      /\ worker' = [worker EXCEPT ![n] = next]
      /\ UNCHANGED <<nextSeq, publisher, net, shelf, history>>
  BY DEF CommitApply
<1>2. /\ worker \in [Nodes -> Worker] /\ applied \in [Nodes -> [Nodes -> 0..MaxSeq]]
      /\ received \in [Nodes -> [Nodes -> 0..MaxSeq]]
  BY DEF Inv, TypeOK
<1>3. /\ p \in Nodes /\ w.rows \in SUBSET Seqs
      /\ w.seq = applied[n][p] + 1 /\ w.seq \in OwnChanges(p) /\ w.seq \in Seqs
      /\ \A q \in w.rows : log[n][q].state = "open"
  BY <1>1, <1>2 DEF Inv, LogInv, WorkersInOrder, Working, Peers, Worker, OwnChanges
<1>4. RowsEnd(n, w.rows, "committed")
  BY <1>1, <1>3, SettleEnds
<1>5. applied' = [applied EXCEPT ![n][p] = w.seq]
  <2>1. Larger(applied[n][p], w.seq) = w.seq
    BY <1>2, <1>3 DEF Larger
  <2> QED BY <1>1, <2>1
<1>6. next \in Worker /\ next.phase \in {"remove", "drain"} /\ next.rows = {} /\ next.peer = p
  BY <1>3 DEF Removing, Draining, Worker, Seqs
<1>7. worker'[n] = next /\ \A m \in Nodes \ {n} : worker'[m] = worker[m]
  BY <1>1, <1>2
<1>8. LogInv' /\ KeptRows
  <2> HIDE DEF next
  <2> QED BY <1>1, <1>4, <1>5, <1>6, <1>7, CommitLogs
<1>9. TypeOK'
  <2>1. applied' \in [Nodes -> [Nodes -> 0..MaxSeq]]
    BY <1>2, <1>3, <1>5, BoundsAssumption DEF Seqs
  <2>2. received' \in [Nodes -> [Nodes -> 0..MaxSeq]]
    <3>1. Larger(received[n][p], w.seq) \in 0..MaxSeq
      BY <1>2, <1>3, BoundsAssumption DEF Larger, Seqs
    <3> QED BY <1>1, <1>2, <1>3, <3>1
  <2>3. worker' \in [Nodes -> Worker] /\ log' \in [Nodes -> [Seqs -> LogRow]]
    <3> HIDE DEF next
    <3> QED BY <1>1, <1>2, <1>4, <1>6 DEF RowsEnd
  <2> QED BY <1>1, <2>1, <2>2, <2>3 DEF Inv, TypeOK, publisher, history
<1>10. PublisherInv'
  BY <1>1, <1>8, PublisherRests DEF publisher
<1>11. OnlyChanges'
  <2> SUFFICES ASSUME NEW k \in Nodes, NEW m \in Nodes
               PROVE  /\ net[m][k] \in Seq(OwnChanges(m)')
                      /\ shelf[k][m] \subseteq OwnChanges(m)'
                      /\ 1..applied'[k][m] \subseteq OwnChanges(m)'
    BY <1>1 DEF OnlyChanges
  <2>1. OwnChanges(m) \subseteq OwnChanges(m)'
    BY <1>8, ChangesStay
  <2>2. /\ net[m][k] \in Seq(OwnChanges(m))
        /\ shelf[k][m] \subseteq OwnChanges(m) /\ 1..applied[k][m] \subseteq OwnChanges(m)
    BY DEF Inv, OnlyChanges
  <2>3. net[m][k] \in Seq(OwnChanges(m)')
    BY <2>1, <2>2, SeqMonotonic
  <2>4. 1..applied'[k][m] \subseteq OwnChanges(m)
    <3>1. CASE k = n /\ m = p
      <4>1. applied'[k][m] = w.seq /\ 1..w.seq = (1..applied[k][m]) \cup {w.seq}
        <5>1. applied'[n][p] = w.seq /\ applied[n][p] \in Nat
          BY <1>2, <1>3, <1>5
        <5> QED BY <1>3, <3>1, <5>1, OneMore
      <4> QED BY <1>3, <2>2, <3>1, <4>1
    <3>2. CASE ~(k = n /\ m = p)
      BY <1>2, <1>5, <2>2, <3>2
    <3> QED BY <3>1, <3>2
  <2> QED BY <2>1, <2>2, <2>3, <2>4
<1> QED BY <1>8, <1>9, <1>10, <1>11 DEF Inv

\* A transaction that applies the next change opens on numbers of its own.
LEMMA BeginLogs ==
    ASSUME Inv, NEW n \in Nodes, NEW m \in Peers(n), NEW s \in OwnChanges(m),
           NEW k \in TriggerRows, NEW shelved \in BOOLEAN,
           s = applied[n][m] + 1, worker[n].phase # "apply",
           BeginApply(n, m, s, k, shelved), UNCHANGED applied
    PROVE  /\ LogInv' /\ KeptRows
           /\ log' \in [Nodes -> [Seqs -> LogRow]] /\ nextSeq' \in [Nodes -> 1..MaxSeq + 1]
           /\ worker' \in [Nodes -> Worker]
<1>0. PICK a, rows : a = nextSeq[n] + k /\ rows = nextSeq[n] .. a
  OBVIOUS
<1> DEFINE change == Change(n, "open", TRUE, TRUE)
           ack == Ack(n, m, s)
<1>1. /\ rows \subseteq Seqs
      /\ log' = [log EXCEPT ![n] =
                   [q \in Seqs |-> IF q = a THEN ack ELSE IF q \in rows THEN change
                                   ELSE log[n][q]]]
      /\ nextSeq' = [nextSeq EXCEPT ![n] = @ + k + 1]
      /\ worker' = [worker EXCEPT ![n] = Applying(m, s, rows, shelved)]
  BY <1>0 DEF BeginApply
<1>2. /\ log \in [Nodes -> [Seqs -> LogRow]] /\ nextSeq \in [Nodes -> 1..MaxSeq + 1]
      /\ worker \in [Nodes -> Worker]
  BY DEF Inv, TypeOK
<1>3. k \in Nat /\ MaxSeq \in Nat /\ nextSeq[n] \in Nat /\ m \in Nodes /\ s \in Seqs /\ s \in Nat
  BY <1>2, TriggerAssumption, BoundsAssumption DEF Peers, OwnChanges, Seqs
<1>4. a \in rows /\ \A q \in Seqs : q \in rows => q >= nextSeq[n]
  BY <1>0, <1>3
<1>5. \A q \in rows : q \in Seqs /\ log[n][q].state = "none"
  BY <1>1, <1>4 DEF Inv, LogInv, Unused
<1>6. /\ change \in LogRow /\ change.state = "open" /\ change.kind = "transaction"
      /\ ack \in LogRow /\ ack.state = "open" /\ ack.kind = "replication_ack"
  BY <1>3 DEF Change, Ack, LogRow
<1>7. Applying(m, s, rows, shelved) \in Worker
  BY <1>1, <1>3 DEF Applying, Worker
<1>8. /\ worker' \in [Nodes -> Worker] /\ worker'[n] = Applying(m, s, rows, shelved)
      /\ \A i \in Nodes : i # n => worker'[i] = worker[i]
  BY <1>1, <1>2, <1>7
<1> HIDE DEF change, ack
<1>9. /\ log' \in [Nodes -> [Seqs -> LogRow]]
      /\ \A i \in Nodes, q \in Seqs : ~(i = n /\ q \in rows) => log'[i][q] = log[i][q]
      /\ log'[n][a] = ack
      /\ \A q \in rows : q # a => log'[n][q] = change
  BY <1>1, <1>2, <1>4, <1>6
<1>10. nextSeq' \in [Nodes -> 1..MaxSeq + 1]
  <2>1. a \in Seqs /\ nextSeq[n] + k + 1 = a + 1
    BY <1>0, <1>1, <1>3, <1>4
  <2>2. nextSeq[n] + k + 1 \in 1..MaxSeq + 1
    BY <1>3, <2>1 DEF Seqs
  <2> QED BY <1>1, <1>2, <2>2
<1>11. KeptRows
  BY <1>5, <1>9 DEF KeptRows
<1>12. \A q \in rows : log'[n][q].state = "open"
  BY <1>6, <1>9
<1>13. Unused'
  <2> SUFFICES ASSUME NEW i \in Nodes, NEW q \in Seqs
               PROVE  q >= nextSeq'[i] <=> log'[i][q].state = "none"
    BY DEF Unused
  <2>1. q >= nextSeq[i] <=> log[i][q].state = "none"
    BY DEF Inv, LogInv, Unused
  <2>2. q >= nextSeq'[i] <=> q >= nextSeq[i] /\ ~(i = n /\ q \in rows)
    BY <1>0, <1>1, <1>2, <1>3 DEF Seqs
  <2>3. CASE i = n /\ q \in rows
    BY <1>12, <2>2, <2>3
  <2>4. CASE ~(i = n /\ q \in rows)
    BY <1>9, <2>1, <2>2, <2>4
  <2> QED BY <2>3, <2>4
<1>14. OpenAcks'
  <2> SUFFICES ASSUME NEW i \in Nodes, NEW q \in Seqs, log'[i][q].state = "open",
                      log'[i][q].kind = "replication_ack"
               PROVE  q \in worker'[i].rows
    BY DEF OpenAcks
  <2>1. CASE i = n /\ q \in rows
    <3>1. worker'[n].rows = rows
      BY <1>8 DEF Applying
    <3> QED BY <2>1, <3>1
  <2>2. CASE ~(i = n /\ q \in rows)
    <3>1. q \in worker[i].rows
      BY <1>9, <2>2 DEF Inv, LogInv, OpenAcks
    <3>2. i # n
      BY <3>1 DEF Inv, LogInv, WorkersInOrder, Working
    <3> QED BY <1>8, <3>1, <3>2
  <2> QED BY <2>1, <2>2
<1>15. WorkersInOrder'
  <2>1. Working(n)'
    <3>1. /\ worker'[n].phase = "apply" /\ worker'[n].peer = m /\ worker'[n].seq = s
          /\ worker'[n].rows = rows
      BY <1>8 DEF Applying
    <3>2. s \in OwnChanges(m)'
      BY <1>3, <1>11, ChangesStay
    <3>3. Writes(n, a)'
      BY <1>6, <1>9, <3>1 DEF Writes, ack
    <3>4. worker'[n].seq \in OwnChanges(worker[n].peer)'
      BY <3>1, <3>2 DEF OwnChanges
    <3> QED BY <1>4, <1>12, <3>1, <3>3, <3>4 DEF Working, Peers
  <2>2. ASSUME NEW i \in Nodes, i # n PROVE Working(i)'
    <3>1. log'[i] = log[i]
      BY <1>1, <1>2, <2>2
    <3> QED BY <1>8, <1>11, <2>2, <3>1, OtherWorkers
  <2> QED BY <2>1, <2>2 DEF WorkersInOrder
<1>16. AcknowledgedOnce'
  BY <1>5, <1>9, <1>12, AcksStay DEF CommittedAck
<1> QED BY <1>8, <1>9, <1>10, <1>11, <1>13, <1>14, <1>15, <1>16 DEF LogInv

LEMMA TableUpdate ==
    ASSUME NEW D, NEW S, NEW f \in [D -> [D -> S]], NEW a \in D, NEW b \in D, NEW v \in S
    PROVE  [f EXCEPT ![a][b] = v] \in [D -> [D -> S]]
OBVIOUS

\* A message leaves its channel, or is delivered again.
LEMMA TakeKeeps ==
    ASSUME Inv, KeptRows, NEW n \in Nodes, NEW m \in Peers(n), net[m][n] # <<>>, Take(n, m),
           \A i, j \in Nodes : shelf'[i][j] \subseteq OwnChanges(j), applied' = applied
    PROVE  net' \in [Nodes -> [Nodes -> Seq(Seqs)]] /\ OnlyChanges'
<1>1. /\ net \in [Nodes -> [Nodes -> Seq(Seqs)]] /\ m \in Nodes
      /\ net[m][n] \in Seq(Seqs) /\ net[m][n] \in Seq(OwnChanges(m))
  BY DEF Inv, TypeOK, OnlyChanges, Peers
<1>2. Tail(net[m][n]) \in Seq(Seqs) /\ Tail(net[m][n]) \in Seq(OwnChanges(m))
  BY <1>1, HeadTailProperties
<1>3. net' \in [Nodes -> [Nodes -> Seq(Seqs)]]
  <2>1. [net EXCEPT ![m][n] = Tail(net[m][n])] \in [Nodes -> [Nodes -> Seq(Seqs)]]
    BY <1>1, <1>2, TableUpdate
  <2> QED BY <1>1, <2>1 DEF Take
<1>4. \A i, j \in Nodes :
         net'[j][i] = net[j][i] \/ (i = n /\ j = m /\ net'[j][i] = Tail(net[m][n]))
  BY <1>1 DEF Take
<1>5. ASSUME NEW i \in Nodes, NEW j \in Nodes
      PROVE  /\ net'[j][i] \in Seq(OwnChanges(j)')
             /\ shelf'[i][j] \subseteq OwnChanges(j)'
             /\ 1..applied'[i][j] \subseteq OwnChanges(j)'
  <2>1. OwnChanges(j) \subseteq OwnChanges(j)'
    BY ChangesStay
  <2>2. net[j][i] \in Seq(OwnChanges(j)) /\ 1..applied[i][j] \subseteq OwnChanges(j)
    BY DEF Inv, OnlyChanges
  <2>3. net'[j][i] \in Seq(OwnChanges(j))
    BY <1>2, <1>4, <2>2
  <2>4. net'[j][i] \in Seq(OwnChanges(j)')
    BY <2>1, <2>3, SeqMonotonic
  <2> QED BY <2>1, <2>2, <2>4
<1> QED BY <1>3, <1>5 DEF OnlyChanges

\* What arrives is a change of its emitter, for a worker that holds no row.
LEMMA ArrivedIs ==
    ASSUME Inv, NEW n \in Nodes, NEW m \in Peers(n), NEW s \in Seqs, Arrived(n, m, s)
    PROVE  /\ worker[n].phase = "rest" /\ net[m][n] # <<>> /\ m \in Nodes
           /\ s \in OwnChanges(m)
           /\ \A i, j \in Nodes : shelf[i][j] \subseteq OwnChanges(j)
<1>1. m \in Nodes /\ net[m][n] \in Seq(OwnChanges(m))
  BY DEF Inv, OnlyChanges, Peers
<1>2. s \in OwnChanges(m)
  BY <1>1, HeadTailProperties DEF Arrived
<1> QED BY <1>1, <1>2 DEF Inv, OnlyChanges, Arrived, Resting

LEMMA LoseMessageKeeps ==
    ASSUME Inv, NEW n \in Nodes, NEW m \in Peers(n), LoseMessage(n, m) PROVE Inv'
<1>1. /\ net[m][n] # <<>> /\ Take(n, m)
      /\ UNCHANGED <<log, nextSeq, publisher, consumer, history>>
  BY DEF LoseMessage, Take
<1>2. LogInv' /\ KeptRows
  BY <1>1, LogRests DEF consumer
<1>3. \A i, j \in Nodes : shelf'[i][j] \subseteq OwnChanges(j)
  BY <1>1 DEF Inv, OnlyChanges, consumer
<1>4. net' \in [Nodes -> [Nodes -> Seq(Seqs)]] /\ OnlyChanges'
  BY <1>1, <1>2, <1>3, TakeKeeps DEF consumer
<1>5. TypeOK'
  BY <1>1, <1>4 DEF Inv, TypeOK, publisher, consumer, history
<1> QED BY <1>1, <1>2, <1>4, <1>5, PublisherRests DEF Inv, publisher

LEMMA SkipAppliedKeeps ==
    ASSUME Inv, NEW n \in Nodes, NEW m \in Peers(n), NEW s \in Seqs, SkipApplied(n, m, s)
    PROVE  Inv'
<1>1. /\ net[m][n] # <<>> /\ Take(n, m)
      /\ UNCHANGED <<log, nextSeq, publisher, consumer, history>>
  BY DEF SkipApplied, Arrived
<1>2. LogInv' /\ KeptRows
  BY <1>1, LogRests DEF consumer
<1>3. \A i, j \in Nodes : shelf'[i][j] \subseteq OwnChanges(j)
  BY <1>1 DEF Inv, OnlyChanges, consumer
<1>4. net' \in [Nodes -> [Nodes -> Seq(Seqs)]] /\ OnlyChanges'
  BY <1>1, <1>2, <1>3, TakeKeeps DEF consumer
<1>5. TypeOK'
  BY <1>1, <1>4 DEF Inv, TypeOK, publisher, consumer, history
<1> QED BY <1>1, <1>2, <1>4, <1>5, PublisherRests DEF Inv, publisher

LEMMA ShelveKeeps ==
    ASSUME Inv, NEW n \in Nodes, NEW m \in Peers(n), NEW s \in Seqs, Shelve(n, m, s)
    PROVE  Inv'
<1>1. /\ Arrived(n, m, s) /\ Take(n, m)
      /\ shelf' = [shelf EXCEPT ![n][m] = @ \cup {s}]
      /\ received' = [received EXCEPT ![n][m] = Larger(@, s)]
      /\ UNCHANGED <<log, nextSeq, publisher, applied, worker, history>>
  BY DEF Shelve
<1>2. LogInv' /\ KeptRows
  BY <1>1, LogRests
<1>3. /\ net[m][n] # <<>> /\ m \in Nodes /\ s \in OwnChanges(m)
      /\ \A i, j \in Nodes : shelf[i][j] \subseteq OwnChanges(j)
  BY <1>1, ArrivedIs
<1>4. /\ shelf \in [Nodes -> [Nodes -> SUBSET Seqs]]
      /\ received \in [Nodes -> [Nodes -> 0..MaxSeq]]
  BY DEF Inv, TypeOK
<1>5. shelf' \in [Nodes -> [Nodes -> SUBSET Seqs]]
  BY <1>1, <1>3, <1>4
<1>6. \A i, j \in Nodes : shelf'[i][j] \subseteq OwnChanges(j)
  BY <1>1, <1>3, <1>4
<1>7. net' \in [Nodes -> [Nodes -> Seq(Seqs)]] /\ OnlyChanges'
  BY <1>1, <1>2, <1>3, <1>6, TakeKeeps
<1>8. received' \in [Nodes -> [Nodes -> 0..MaxSeq]]
  <2>1. Larger(received[n][m], s) \in 0..MaxSeq
    BY <1>3, <1>4, BoundsAssumption DEF Larger, Seqs
  <2> QED BY <1>1, <1>3, <1>4, <2>1
<1>9. TypeOK'
  BY <1>1, <1>5, <1>7, <1>8 DEF Inv, TypeOK, publisher, history
<1> QED BY <1>1, <1>2, <1>7, <1>9, PublisherRests DEF Inv, publisher

\* The worker goes from one message to the next, with no row of the log.
LEMMA WorkerMoves ==
    ASSUME Inv, NEW n \in Nodes, NEW w \in Worker, worker[n].phase # "apply",
           w.phase # "apply", w.rows = {}, w.phase # "rest" => w.peer \in Peers(n),
           worker' = [worker EXCEPT ![n] = w], UNCHANGED <<log, nextSeq, applied>>
    PROVE  LogInv' /\ KeptRows /\ worker' \in [Nodes -> Worker]
<1>1. worker \in [Nodes -> Worker] /\ worker[n].rows = {}
  BY DEF Inv, LogInv, WorkersInOrder, Working, TypeOK
<1>2. worker' \in [Nodes -> Worker] /\ worker'[n] = w /\ \A i \in Nodes : i # n => worker'[i] = worker[i]
  BY <1>1
<1>3. KeptRows
  BY DEF KeptRows
<1>4. Unused' /\ AcknowledgedOnce'
  BY DEF Inv, LogInv, Unused, AcknowledgedOnce, AckRows
<1>5. OpenAcks'
  BY <1>1, <1>2 DEF Inv, LogInv, OpenAcks
<1>6. WorkersInOrder'
  <2>1. Working(n)'
    BY <1>2 DEF Working, Peers
  <2>2. ASSUME NEW i \in Nodes, i # n PROVE Working(i)'
    BY <1>2, <1>3, <2>2, OtherWorkers
  <2> QED BY <2>1, <2>2 DEF WorkersInOrder
<1> QED BY <1>2, <1>3, <1>4, <1>5, <1>6 DEF LogInv

LEMMA IgnoreArrivedKeeps ==
    ASSUME Inv, NEW n \in Nodes, NEW m \in Peers(n), NEW s \in Seqs, IgnoreArrived(n, m, s)
    PROVE  Inv'
<1>1. /\ Arrived(n, m, s) /\ Take(n, m)
      /\ worker' = [worker EXCEPT ![n] = Draining(m)]
      /\ UNCHANGED <<log, nextSeq, publisher, applied, received, shelf, history>>
  BY DEF IgnoreArrived
<1>2. /\ worker[n].phase = "rest" /\ net[m][n] # <<>> /\ m \in Nodes
      /\ \A i, j \in Nodes : shelf[i][j] \subseteq OwnChanges(j)
  BY <1>1, ArrivedIs
<1>3. Draining(m) \in Worker /\ Draining(m).phase = "drain" /\ Draining(m).rows = {} /\ Draining(m).peer = m
  BY <1>2 DEF Draining, Worker
<1>4. LogInv' /\ KeptRows /\ worker' \in [Nodes -> Worker]
  BY <1>1, <1>2, <1>3, WorkerMoves
<1>5. net' \in [Nodes -> [Nodes -> Seq(Seqs)]] /\ OnlyChanges'
  BY <1>1, <1>2, <1>4, TakeKeeps
<1>6. TypeOK'
  BY <1>1, <1>4, <1>5 DEF Inv, TypeOK, publisher, history
<1> QED BY <1>1, <1>4, <1>5, <1>6, PublisherRests DEF Inv, publisher

LEMMA ApplyArrivedKeeps ==
    ASSUME Inv, NEW n \in Nodes, NEW m \in Peers(n), NEW s \in Seqs, NEW k \in TriggerRows,
           ApplyArrived(n, m, s, k)
    PROVE  Inv' /\ KeptRows
<1>1. /\ Arrived(n, m, s) /\ s = applied[n][m] + 1
      /\ BeginApply(n, m, s, k, FALSE) /\ Take(n, m)
      /\ UNCHANGED <<publisher, applied, received, shelf, history>>
  BY DEF ApplyArrived, InOrder
<1>2. /\ worker[n].phase = "rest" /\ net[m][n] # <<>> /\ s \in OwnChanges(m)
      /\ \A i, j \in Nodes : shelf[i][j] \subseteq OwnChanges(j)
  BY <1>1, ArrivedIs
<1>3. /\ LogInv' /\ KeptRows
      /\ log' \in [Nodes -> [Seqs -> LogRow]] /\ nextSeq' \in [Nodes -> 1..MaxSeq + 1]
      /\ worker' \in [Nodes -> Worker]
  BY <1>1, <1>2, BeginLogs
<1>4. net' \in [Nodes -> [Nodes -> Seq(Seqs)]] /\ OnlyChanges'
  BY <1>1, <1>2, <1>3, TakeKeeps
<1>5. TypeOK'
  BY <1>1, <1>3, <1>4 DEF Inv, TypeOK, publisher, history
<1> QED BY <1>1, <1>3, <1>4, <1>5, PublisherRests DEF Inv, publisher

\* While the shelf is drained the worker holds no row, and has a peer.
LEMMA DrainingIs ==
    ASSUME Inv, NEW n \in Nodes, worker[n].phase \in {"drain", "remove"}
    PROVE  worker[n].peer \in Peers(n) /\ worker[n].peer \in Nodes
BY DEF Inv, LogInv, WorkersInOrder, Working, Peers

LEMMA DrainNextKeeps ==
    ASSUME Inv, NEW n \in Nodes, NEW k \in TriggerRows, DrainNext(n, k) PROVE Inv' /\ KeptRows
<1>1. PICK m \in Peers(n), s \in Seqs :
         /\ worker[n].phase = "drain" /\ s = applied[n][m] + 1 /\ s \in OwnChanges(m)
         /\ BeginApply(n, m, s, k, TRUE)
         /\ UNCHANGED <<publisher, net, applied, received, shelf, history>>
  <2>1. worker[n].phase = "drain" /\ worker[n].peer \in Peers(n) /\ worker[n].peer \in Nodes
    BY DrainingIs DEF DrainNext
  <2>2. applied[n][worker[n].peer] + 1 \in OwnChanges(worker[n].peer)
    BY <2>1 DEF DrainNext, Inv, OnlyChanges
  <2> QED BY <2>1, <2>2 DEF DrainNext, OwnChanges
<1>2. /\ LogInv' /\ KeptRows
      /\ log' \in [Nodes -> [Seqs -> LogRow]] /\ nextSeq' \in [Nodes -> 1..MaxSeq + 1]
      /\ worker' \in [Nodes -> Worker]
  BY <1>1, BeginLogs
<1>3. TypeOK'
  BY <1>1, <1>2 DEF Inv, TypeOK, publisher, history
<1> QED BY <1>1, <1>2, <1>3, PublisherRests, ChannelsRest DEF Inv, publisher

LEMMA DrainIgnoredKeeps == ASSUME Inv, NEW n \in Nodes, DrainIgnored(n) PROVE Inv'
<1>1. PICK m \in Peers(n), s \in Nat :
         /\ worker[n].phase = "drain" /\ m \in Nodes
         /\ worker' = [worker EXCEPT ![n] = Removing(m, s)]
         /\ UNCHANGED <<log, nextSeq, publisher, net, applied, received, shelf, history>>
  <2>1. worker[n].phase = "drain" /\ worker[n].peer \in Peers(n) /\ worker[n].peer \in Nodes
    BY DrainingIs DEF DrainIgnored
  <2>2. \A i, j \in Nodes : applied[i][j] + 1 \in Nat
    <3>1. applied \in [Nodes -> [Nodes -> 0..MaxSeq]]
      BY DEF Inv, TypeOK
    <3> QED BY <3>1, BoundsAssumption
  <2> QED BY <2>1, <2>2 DEF DrainIgnored
<1>2. /\ Removing(m, s) \in Worker /\ Removing(m, s).phase = "remove"
      /\ Removing(m, s).rows = {} /\ Removing(m, s).peer = m
  BY <1>1 DEF Removing, Worker
<1>3. LogInv' /\ KeptRows /\ worker' \in [Nodes -> Worker]
  BY <1>1, <1>2, WorkerMoves
<1>4. TypeOK'
  BY <1>1, <1>3 DEF Inv, TypeOK, publisher, history
<1> QED BY <1>1, <1>3, <1>4, PublisherRests, ChannelsRest DEF Inv, publisher

LEMMA DrainEndKeeps == ASSUME Inv, NEW n \in Nodes, DrainEnd(n) PROVE Inv'
<1>1. /\ worker[n].phase = "drain" /\ worker' = [worker EXCEPT ![n] = Resting]
      /\ UNCHANGED <<log, nextSeq, publisher, net, applied, received, shelf, history>>
  BY DEF DrainEnd
<1>2. Resting \in Worker /\ Resting.phase = "rest" /\ Resting.rows = {}
  BY DEF Resting, Worker
<1>3. LogInv' /\ KeptRows /\ worker' \in [Nodes -> Worker]
  BY <1>1, <1>2, WorkerMoves
<1>4. TypeOK'
  BY <1>1, <1>3 DEF Inv, TypeOK, publisher, history
<1> QED BY <1>1, <1>3, <1>4, PublisherRests, ChannelsRest DEF Inv, publisher

LEMMA RemoveShelvedKeeps == ASSUME Inv, NEW n \in Nodes, RemoveShelved(n) PROVE Inv'
<1> DEFINE m == worker[n].peer
<1>1. /\ worker[n].phase = "remove" /\ worker' = [worker EXCEPT ![n] = Draining(m)]
      /\ shelf' = [shelf EXCEPT ![n][m] = @ \ {worker[n].seq}]
      /\ UNCHANGED <<log, nextSeq, publisher, net, applied, received, history>>
  BY DEF RemoveShelved
<1>2. m \in Peers(n) /\ m \in Nodes
  BY <1>1, DrainingIs
<1>3. Draining(m) \in Worker /\ Draining(m).phase = "drain" /\ Draining(m).rows = {} /\ Draining(m).peer = m
  BY <1>2 DEF Draining, Worker
<1>4. LogInv' /\ KeptRows /\ worker' \in [Nodes -> Worker]
  BY <1>1, <1>2, <1>3, WorkerMoves
<1>5. shelf \in [Nodes -> [Nodes -> SUBSET Seqs]]
  BY DEF Inv, TypeOK
<1>6. /\ shelf' \in [Nodes -> [Nodes -> SUBSET Seqs]]
      /\ \A i, j \in Nodes : shelf'[i][j] \subseteq shelf[i][j]
  BY <1>1, <1>2, <1>5
<1>7. OnlyChanges'
  <2> SUFFICES ASSUME NEW i \in Nodes, NEW j \in Nodes
               PROVE  /\ net[j][i] \in Seq(OwnChanges(j)')
                      /\ shelf'[i][j] \subseteq OwnChanges(j)'
                      /\ 1..applied[i][j] \subseteq OwnChanges(j)'
    BY <1>1 DEF OnlyChanges
  <2>1. OwnChanges(j)' = OwnChanges(j)
    BY <1>1 DEF OwnChanges
  <2> QED BY <1>6, <2>1 DEF Inv, OnlyChanges
<1>8. TypeOK'
  BY <1>1, <1>4, <1>6 DEF Inv, TypeOK, publisher, history
<1> QED BY <1>1, <1>4, <1>7, <1>8, PublisherRests DEF Inv, publisher

-----------------------------------------------------------------------------
(* The publisher *)

\* The log and the consumers know nothing of the publisher.
LEMMA PublisherOnly ==
    ASSUME Inv, UNCHANGED <<log, nextSeq, worker, applied, shelf, net>>
    PROVE  LogInv' /\ KeptRows /\ OnlyChanges'
<1>1. LogInv' /\ KeptRows
  BY LogRests
<1> QED BY <1>1, ChannelsRest

\* The first rows of a set of numbers: an earlier number of the set goes along.
LEMMA FirstOfDown ==
    ASSUME NEW S \in SUBSET Seqs, NEW s \in FirstOf(S), NEW x \in S, x < s
    PROVE  x \in FirstOf(S)
<1> DEFINE Before(y) == {z \in S : z < y}
<1>1. IsFiniteSet(Seqs)
  BY BoundsAssumption, FS_Interval DEF Seqs
<1>2. IsFiniteSet(Before(s)) /\ IsFiniteSet(Before(x))
  <2>1. Before(s) \in SUBSET Seqs /\ Before(x) \in SUBSET Seqs
    OBVIOUS
  <2> HIDE DEF Before
  <2> QED BY <1>1, <2>1, FS_Subset
<1>3. Before(x) \in SUBSET Before(s)
  <2> SUFFICES ASSUME NEW z \in S, z < x PROVE z < s
    OBVIOUS
  <2> z \in Nat /\ x \in Nat /\ s \in Nat
    BY BoundsAssumption DEF Seqs, FirstOf
  <2> QED OBVIOUS
<1>4. Cardinality(Before(x)) <= Cardinality(Before(s))
  <2> HIDE DEF Before
  <2> QED BY <1>2, <1>3, FS_Subset
<1>5. Cardinality(Before(x)) \in Nat /\ Cardinality(Before(s)) \in Nat
  <2> HIDE DEF Before
  <2> QED BY <1>2, FS_CardinalityType
<1>6. Cardinality(Before(s)) < BatchSize
  BY DEF FirstOf
<1>7. Cardinality(Before(x)) < BatchSize
  <2> HIDE DEF Before
  <2> QED BY <1>4, <1>5, <1>6, BoundsAssumption
<1> QED BY <1>7 DEF FirstOf

LEMMA FetchBatchKeeps == ASSUME Inv, NEW n \in Nodes, FetchBatch(n) PROVE Inv'
<1> DEFINE S == Outbound(n)
           opened == {s \in Seqs : log[n][s].state = "open" /\ \E x \in FirstOf(S) : s < x}
<1>1. /\ batch' = [batch EXCEPT ![n] = FirstOf(S)]
      /\ pub' = [pub EXCEPT ![n] = "publishing"]
      /\ UNCHANGED <<log, nextSeq, cursor, saved, reset, net, consumer, sent, waived>>
  BY DEF FetchBatch
<1>2. /\ log \in [Nodes -> [Seqs -> LogRow]] /\ nextSeq \in [Nodes -> 1..MaxSeq + 1]
      /\ batch \in [Nodes -> SUBSET Seqs] /\ late \in [Nodes -> SUBSET Seqs]
      /\ cursor \in [Nodes -> 0..MaxSeq] /\ pub \in [Nodes -> {"idle", "publishing"}]
  BY DEF Inv, TypeOK
<1>3. FirstOf(S) \subseteq S /\ S \subseteq Seqs
  BY DEF FirstOf, Outbound
<1>4. batch'[n] = FirstOf(S) /\ \A m \in Nodes : m # n => batch'[m] = batch[m]
  BY <1>1, <1>2
<1>5. late' = [late EXCEPT ![n] = @ \cup opened]
  BY <1>4 DEF FetchBatch
<1>6. late' \in [Nodes -> SUBSET Seqs] /\ opened \subseteq late'[n]
      /\ \A m \in Nodes : late[m] \subseteq late'[m]
  <2> HIDE DEF S
  <2> QED BY <1>2, <1>5
<1>7. LogInv' /\ KeptRows /\ OnlyChanges'
  BY <1>1, PublisherOnly DEF consumer
<1>8. HistoryGrows
  BY <1>1, <1>6 DEF HistoryGrows
<1>9. TypeOK'
  <2>1. batch' \in [Nodes -> SUBSET Seqs] /\ pub' \in [Nodes -> {"idle", "publishing"}]
    BY <1>1, <1>2, <1>3
  <2> QED BY <1>1, <1>6, <2>1 DEF Inv, TypeOK, consumer
<1>10. CursorsSettled'
  BY <1>1, <1>7, <1>8, SettledStays DEF Inv, PublisherInv, CursorsSettled
<1>11. BatchSettled'
  <2> SUFFICES ASSUME NEW m \in Nodes, NEW s \in batch'[m]
               PROVE  /\ log[m][s].state = "committed" /\ log[m][s].emitter = m
                      /\ \A x \in Seqs : x < s => x \in batch'[m] \/ Settled(m, x)'
    BY <1>1 DEF BatchSettled
  <2>1. CASE m # n
    BY <1>4, <1>7, <1>8, <2>1, SettledStays DEF Inv, PublisherInv, BatchSettled
  <2>2. CASE m = n
    <3>1. s \in FirstOf(S) /\ s \in S /\ s \in Seqs
      BY <1>3, <1>4, <2>2
    <3>2. log[n][s].state = "committed" /\ log[n][s].emitter = n
      BY <3>1 DEF Outbound
    <3>3. ASSUME NEW x \in Seqs, x < s PROVE x \in batch'[n] \/ Settled(n, x)'
      <4>1. CASE x <= cursor[n]
        <5>1. Settled(n, x)
          BY <4>1 DEF Inv, PublisherInv, CursorsSettled
        <5> QED BY <1>7, <1>8, <5>1, SettledStays
      <4>2. CASE ~(x <= cursor[n])
        <5>1. log[n][x].state # "none"
          <6>1. ~(s >= nextSeq[n])
            BY <3>1, <3>2 DEF Inv, LogInv, Unused
          <6>2. ~(x >= nextSeq[n])
            BY <1>2, <3>1, <3>3, <6>1, BoundsAssumption DEF Seqs
          <6> QED BY <6>2 DEF Inv, LogInv, Unused
        <5>2. x > cursor[n]
          BY <1>2, <4>2 DEF Seqs
        <5>3. log[n][x].state \in {"none", "open", "committed", "rolledback"}
          BY <1>2 DEF LogRow
        <5>4. CASE log[n][x].state = "open"
          <6>1. x \in opened
            BY <3>1, <3>3, <5>4
          <6> QED BY <1>6, <6>1 DEF Settled
        <5>5. CASE log[n][x].state = "committed" /\ log[n][x].emitter = n
          <6>1. x \in S
            BY <5>2, <5>5 DEF Outbound
          <6> QED BY <1>3, <1>4, <3>1, <3>3, <6>1, FirstOfDown
        <5>6. CASE log[n][x].state = "rolledback" \/ (log[n][x].state = "committed" /\ log[n][x].emitter # n)
          BY <1>1, <5>6 DEF Settled
        <5> QED BY <5>1, <5>3, <5>4, <5>5, <5>6
      <4> QED BY <4>1, <4>2
    <3> QED BY <2>2, <3>2, <3>3
  <2> QED BY <2>1, <2>2
<1> QED BY <1>7, <1>9, <1>10, <1>11 DEF Inv, PublisherInv

\* The broker gets a row of the batch: a change goes to every peer.
LEMMA BroadcastKeeps ==
    ASSUME Inv, NEW n \in Nodes, NEW s \in batch[n], Broadcast(n, s),
           UNCHANGED <<log, applied, shelf>>
    PROVE  /\ net' \in [Nodes -> [Nodes -> Seq(Seqs)]] /\ OnlyChanges'
           /\ sent' \in [Nodes -> SUBSET Seqs] /\ s \in sent'[n]
           /\ \A m \in Nodes : sent[m] \subseteq sent'[m]
<1>1. /\ net \in [Nodes -> [Nodes -> Seq(Seqs)]] /\ sent \in [Nodes -> SUBSET Seqs]
      /\ batch \in [Nodes -> SUBSET Seqs] /\ log \in [Nodes -> [Seqs -> LogRow]]
  BY DEF Inv, TypeOK
<1>2. sent' = [sent EXCEPT ![n] = @ \cup {s}] /\ s \in Seqs
  BY <1>1 DEF Broadcast
<1>3. /\ sent' \in [Nodes -> SUBSET Seqs] /\ s \in sent'[n]
      /\ \A m \in Nodes : sent[m] \subseteq sent'[m]
  BY <1>1, <1>2
<1>4. log[n][s].state = "committed" /\ log[n][s].emitter = n
  BY DEF Inv, PublisherInv, BatchSettled
<1>5. \A j : OwnChanges(j)' = OwnChanges(j)
  BY DEF OwnChanges
<1>6. /\ \A j, i \in Nodes : net[j][i] \in Seq(OwnChanges(j)) /\ net[j][i] \in Seq(Seqs)
      /\ \A i, j \in Nodes : shelf[i][j] \subseteq OwnChanges(j)
      /\ \A i, j \in Nodes : 1..applied[i][j] \subseteq OwnChanges(j)
  BY <1>1 DEF Inv, OnlyChanges
<1>7. /\ net' \in [Nodes -> [Nodes -> Seq(Seqs)]]
      /\ \A j, i \in Nodes : net'[j][i] \in Seq(OwnChanges(j))
  <2>1. CASE log[n][s].kind # "transaction"
    BY <1>1, <1>6, <2>1 DEF Broadcast
  <2>2. CASE log[n][s].kind = "transaction"
    <3> DEFINE out == [m \in Nodes |-> IF m = n THEN net[n][m] ELSE Append(net[n][m], s)]
    <3>1. s \in OwnChanges(n)
      BY <1>2, <1>4, <2>2 DEF OwnChanges
    <3>2. \A m \in Nodes : Append(net[n][m], s) \in Seq(OwnChanges(n)) /\ Append(net[n][m], s) \in Seq(Seqs)
      BY <1>2, <1>6, <3>1, AppendProperties
    <3>3. out \in [Nodes -> Seq(Seqs)] /\ \A m \in Nodes : out[m] \in Seq(OwnChanges(n))
      BY <1>6, <3>2
    <3>4. net' = [net EXCEPT ![n] = out]
      BY <2>2 DEF Broadcast
    <3> HIDE DEF out
    <3>5. net' \in [Nodes -> [Nodes -> Seq(Seqs)]]
      BY <1>1, <3>3, <3>4
    <3>6. net'[n] = out /\ \A j \in Nodes : j # n => net'[j] = net[j]
      BY <1>1, <3>4
    <3> QED BY <1>6, <3>3, <3>5, <3>6
  <2> QED BY <2>1, <2>2
<1>8. OnlyChanges'
  BY <1>5, <1>6, <1>7 DEF OnlyChanges
<1> QED BY <1>3, <1>7, <1>8

LEMMA PublishKeeps == ASSUME Inv, NEW n \in Nodes, NEW s \in Seqs, Publish(n, s) PROVE Inv'
<1>1. /\ s \in batch[n] /\ \A x \in batch[n] : s <= x
      /\ Broadcast(n, s)
      /\ batch' = [batch EXCEPT ![n] = @ \ {s}] /\ cursor' = [cursor EXCEPT ![n] = s]
      /\ UNCHANGED <<log, nextSeq, pub, saved, reset, consumer, late, waived>>
  BY DEF Publish, Lowest
<1>2. /\ batch \in [Nodes -> SUBSET Seqs] /\ cursor \in [Nodes -> 0..MaxSeq]
  BY DEF Inv, TypeOK
<1>3. LogInv' /\ KeptRows
  BY <1>1, LogRests DEF consumer
<1>4. /\ net' \in [Nodes -> [Nodes -> Seq(Seqs)]] /\ OnlyChanges'
      /\ sent' \in [Nodes -> SUBSET Seqs] /\ s \in sent'[n]
      /\ \A m \in Nodes : sent[m] \subseteq sent'[m]
  BY <1>1, BroadcastKeeps DEF consumer
<1>5. HistoryGrows
  BY <1>1, <1>4 DEF HistoryGrows
<1>6. /\ batch' \in [Nodes -> SUBSET Seqs] /\ cursor' \in [Nodes -> 0..MaxSeq]
      /\ batch'[n] = batch[n] \ {s} /\ cursor'[n] = s
      /\ \A m \in Nodes : m # n => batch'[m] = batch[m] /\ cursor'[m] = cursor[m]
  BY <1>1, <1>2, BoundsAssumption DEF Seqs
<1>7. TypeOK'
  BY <1>1, <1>4, <1>6 DEF Inv, TypeOK, consumer
<1>8. \A m \in Nodes, x \in Seqs : Settled(m, x) => Settled(m, x)'
  BY <1>3, <1>5, SettledStays
<1>9. Settled(n, s)'
  BY <1>4 DEF Settled
<1>10. \A x \in Seqs : x < s => Settled(n, x)
  <2>1. \A x \in batch[n] : ~(x < s)
    BY <1>1, <1>2, BoundsAssumption DEF Seqs
  <2> QED BY <1>1, <2>1 DEF Inv, PublisherInv, BatchSettled
<1>11. CursorsSettled'
  <2> SUFFICES ASSUME NEW m \in Nodes, NEW x \in Seqs
               PROVE  /\ x <= cursor'[m] \/ x <= saved[m] => Settled(m, x)'
                      /\ reset[m].on /\ x <= reset[m].to => x \in waived[m]
    BY <1>1 DEF CursorsSettled
  <2>1. /\ x <= cursor[m] \/ x <= saved[m] => Settled(m, x)
        /\ reset[m].on /\ x <= reset[m].to => x \in waived[m]
    BY DEF Inv, PublisherInv, CursorsSettled
  <2>2. ASSUME m = n, x <= cursor'[m] PROVE Settled(m, x)'
    <3>1. x < s \/ x = s
      BY <1>6, <2>2, BoundsAssumption DEF Seqs
    <3> QED BY <1>8, <1>9, <1>10, <2>2, <3>1
  <2>3. ASSUME m # n, x <= cursor'[m] PROVE Settled(m, x)'
    BY <1>6, <1>8, <2>1, <2>3
  <2> QED BY <1>8, <2>1, <2>2, <2>3
<1>12. BatchSettled'
  <2> SUFFICES ASSUME NEW m \in Nodes, NEW y \in batch'[m]
               PROVE  /\ log[m][y].state = "committed" /\ log[m][y].emitter = m
                      /\ \A x \in Seqs : x < y => x \in batch'[m] \/ Settled(m, x)'
    BY <1>1 DEF BatchSettled
  <2>1. y \in batch[m] /\ \A x \in batch[m] : x \in batch'[m] \/ (m = n /\ x = s)
    BY <1>6
  <2>2. /\ log[m][y].state = "committed" /\ log[m][y].emitter = m
        /\ \A x \in Seqs : x < y => x \in batch[m] \/ Settled(m, x)
    BY <2>1 DEF Inv, PublisherInv, BatchSettled
  <2> QED BY <1>8, <1>9, <2>1, <2>2
<1> QED BY <1>3, <1>4, <1>7, <1>11, <1>12 DEF Inv, PublisherInv

\* The loop gives up its batch; what it may have sent counts as sent.
LEMMA PublishFailsKeeps ==
    ASSUME Inv, NEW n \in Nodes, NEW s \in Seqs, PublishFails(n, s) PROVE Inv'
<1>1. /\ s \in batch[n]
      /\ Broadcast(n, s) \/ UNCHANGED <<net, sent>>
      /\ batch' = [batch EXCEPT ![n] = {}] /\ pub' = [pub EXCEPT ![n] = "idle"]
      /\ UNCHANGED <<log, nextSeq, cursor, saved, reset, consumer, late, waived>>
  BY DEF PublishFails, Lowest
<1>2. /\ batch \in [Nodes -> SUBSET Seqs] /\ pub \in [Nodes -> {"idle", "publishing"}]
  BY DEF Inv, TypeOK
<1>3. LogInv' /\ KeptRows
  BY <1>1, LogRests DEF consumer
<1>4. /\ net' \in [Nodes -> [Nodes -> Seq(Seqs)]] /\ OnlyChanges'
      /\ sent' \in [Nodes -> SUBSET Seqs]
      /\ \A m \in Nodes : sent[m] \subseteq sent'[m]
  <2>1. CASE Broadcast(n, s)
    BY <1>1, <2>1, BroadcastKeeps DEF consumer
  <2>2. CASE UNCHANGED <<net, sent>>
    <3>1. OnlyChanges'
      BY <1>1, <1>3, <2>2, ChannelsRest DEF consumer
    <3> QED BY <2>2, <3>1 DEF Inv, TypeOK
  <2> QED BY <1>1, <2>1, <2>2
<1>5. HistoryGrows
  BY <1>1, <1>4 DEF HistoryGrows
<1>6. /\ batch' \in [Nodes -> SUBSET Seqs] /\ pub' \in [Nodes -> {"idle", "publishing"}]
      /\ \A m \in Nodes : batch'[m] = {} \/ batch'[m] = batch[m]
  BY <1>1, <1>2
<1>7. TypeOK'
  BY <1>1, <1>4, <1>6 DEF Inv, TypeOK, consumer
<1>8. \A m \in Nodes, x \in Seqs : Settled(m, x) => Settled(m, x)'
  BY <1>3, <1>5, SettledStays
<1>9. CursorsSettled'
  BY <1>1, <1>8 DEF Inv, PublisherInv, CursorsSettled
<1>10. BatchSettled'
  BY <1>1, <1>6, <1>8 DEF Inv, PublisherInv, BatchSettled
<1> QED BY <1>3, <1>4, <1>7, <1>9, <1>10 DEF Inv, PublisherInv

LEMMA SaveCursorKeeps == ASSUME Inv, NEW n \in Nodes, SaveCursor(n) PROVE Inv'
<1>1. /\ saved' \in {saved, [saved EXCEPT ![n] = cursor[n]]}
      /\ pub' = [pub EXCEPT ![n] = "idle"]
      /\ UNCHANGED <<log, nextSeq, batch, cursor, reset, net, consumer, history>>
  BY DEF SaveCursor
<1>2. /\ saved \in [Nodes -> 0..MaxSeq] /\ cursor \in [Nodes -> 0..MaxSeq]
      /\ pub \in [Nodes -> {"idle", "publishing"}]
  BY DEF Inv, TypeOK
<1>3. LogInv' /\ KeptRows /\ OnlyChanges'
  BY <1>1, PublisherOnly DEF consumer
<1>4. /\ saved' \in [Nodes -> 0..MaxSeq] /\ pub' \in [Nodes -> {"idle", "publishing"}]
      /\ \A m \in Nodes : saved'[m] \in {saved[m], cursor[m]}
  BY <1>1, <1>2
<1>5. TypeOK'
  BY <1>1, <1>4 DEF Inv, TypeOK, consumer, history
<1>6. HistoryGrows
  BY <1>1 DEF HistoryGrows, history
<1>7. \A m \in Nodes, x \in Seqs : Settled(m, x) => Settled(m, x)'
  BY <1>3, <1>6, SettledStays
<1>8. CursorsSettled'
  <2> SUFFICES ASSUME NEW m \in Nodes, NEW x \in Seqs
               PROVE  /\ x <= cursor[m] \/ x <= saved'[m] => Settled(m, x)'
                      /\ reset[m].on /\ x <= reset[m].to => x \in waived[m]
    BY <1>1 DEF CursorsSettled, history
  <2>1. /\ x <= cursor[m] \/ x <= saved[m] => Settled(m, x)
        /\ reset[m].on /\ x <= reset[m].to => x \in waived[m]
    BY DEF Inv, PublisherInv, CursorsSettled
  <2>2. x <= saved'[m] => x <= cursor[m] \/ x <= saved[m]
    BY <1>4
  <2> QED BY <1>7, <2>1, <2>2
<1>9. BatchSettled'
  BY <1>1, <1>7 DEF Inv, PublisherInv, BatchSettled
<1> QED BY <1>3, <1>5, <1>8, <1>9 DEF Inv, PublisherInv

LEMMA ResetSaveKeeps ==
    ASSUME Inv, NEW n \in Nodes, NEW c \in 0..MaxSeq, ResetSave(n, c) PROVE Inv'
<1>1. /\ saved' = [saved EXCEPT ![n] = c]
      /\ reset' = [reset EXCEPT ![n] = [on |-> TRUE, to |-> c]]
      /\ waived' = [waived EXCEPT ![n] = @ \cup (1..c)]
      /\ UNCHANGED <<log, nextSeq, pub, batch, cursor, net, consumer, sent, late>>
  BY DEF ResetSave
<1>2. /\ saved \in [Nodes -> 0..MaxSeq] /\ waived \in [Nodes -> SUBSET Seqs]
      /\ reset \in [Nodes -> [on : BOOLEAN, to : 0..MaxSeq]]
  BY DEF Inv, TypeOK
<1>3. LogInv' /\ KeptRows /\ OnlyChanges'
  BY <1>1, PublisherOnly DEF consumer
<1>4. 1..c \subseteq Seqs /\ \A x \in Seqs : x <= c => x \in 1..c
  BY BoundsAssumption DEF Seqs
<1>5. /\ waived' \in [Nodes -> SUBSET Seqs] /\ 1..c \subseteq waived'[n]
      /\ \A m \in Nodes : waived[m] \subseteq waived'[m]
  BY <1>1, <1>2, <1>4
<1>6. /\ saved' \in [Nodes -> 0..MaxSeq] /\ reset' \in [Nodes -> [on : BOOLEAN, to : 0..MaxSeq]]
      /\ saved'[n] = c /\ reset'[n].to = c
      /\ \A m \in Nodes : m # n => saved'[m] = saved[m] /\ reset'[m] = reset[m]
  BY <1>1, <1>2
<1>7. TypeOK'
  BY <1>1, <1>5, <1>6 DEF Inv, TypeOK, consumer
<1>8. HistoryGrows
  BY <1>1, <1>5 DEF HistoryGrows
<1>9. \A m \in Nodes, x \in Seqs : Settled(m, x) => Settled(m, x)'
  BY <1>3, <1>8, SettledStays
<1>10. CursorsSettled'
  <2> SUFFICES ASSUME NEW m \in Nodes, NEW x \in Seqs
               PROVE  /\ x <= cursor[m] \/ x <= saved'[m] => Settled(m, x)'
                      /\ reset'[m].on /\ x <= reset'[m].to => x \in waived'[m]
    BY <1>1 DEF CursorsSettled
  <2>1. /\ x <= cursor[m] \/ x <= saved[m] => Settled(m, x)
        /\ reset[m].on /\ x <= reset[m].to => x \in waived[m]
    BY DEF Inv, PublisherInv, CursorsSettled
  <2>2. CASE m # n
    BY <1>5, <1>6, <1>9, <2>1, <2>2
  <2>3. CASE m = n
    <3>1. x <= c => x \in waived'[n] /\ Settled(n, x)'
      BY <1>4, <1>5 DEF Settled
    <3> QED BY <1>6, <1>9, <2>1, <2>3, <3>1
  <2> QED BY <2>2, <2>3
<1>11. BatchSettled'
  BY <1>1, <1>9 DEF Inv, PublisherInv, BatchSettled
<1> QED BY <1>3, <1>7, <1>10, <1>11 DEF Inv, PublisherInv

LEMMA ResetApplyKeeps == ASSUME Inv, NEW n \in Nodes, ResetApply(n) PROVE Inv'
<1>1. /\ reset[n].on /\ cursor' = [cursor EXCEPT ![n] = reset[n].to]
      /\ reset' = [reset EXCEPT ![n] = [on |-> FALSE, to |-> 0]]
      /\ UNCHANGED <<log, nextSeq, pub, batch, saved, net, consumer, history>>
  BY DEF ResetApply
<1>2. /\ cursor \in [Nodes -> 0..MaxSeq] /\ reset \in [Nodes -> [on : BOOLEAN, to : 0..MaxSeq]]
  BY DEF Inv, TypeOK
<1>3. LogInv' /\ KeptRows /\ OnlyChanges'
  BY <1>1, PublisherOnly DEF consumer
<1>4. /\ cursor' \in [Nodes -> 0..MaxSeq] /\ reset' \in [Nodes -> [on : BOOLEAN, to : 0..MaxSeq]]
      /\ cursor'[n] = reset[n].to /\ ~reset'[n].on
      /\ \A m \in Nodes : m # n => cursor'[m] = cursor[m] /\ reset'[m] = reset[m]
  BY <1>1, <1>2, BoundsAssumption
<1>5. TypeOK'
  BY <1>1, <1>4 DEF Inv, TypeOK, consumer, history
<1>6. HistoryGrows
  BY <1>1 DEF HistoryGrows, history
<1>7. \A m \in Nodes, x \in Seqs : Settled(m, x) => Settled(m, x)'
  BY <1>3, <1>6, SettledStays
<1>8. CursorsSettled'
  <2> SUFFICES ASSUME NEW m \in Nodes, NEW x \in Seqs
               PROVE  /\ x <= cursor'[m] \/ x <= saved[m] => Settled(m, x)'
                      /\ reset'[m].on /\ x <= reset'[m].to => x \in waived[m]
    BY <1>1 DEF CursorsSettled, history
  <2>1. /\ x <= cursor[m] \/ x <= saved[m] => Settled(m, x)
        /\ reset[m].on /\ x <= reset[m].to => x \in waived[m]
    BY DEF Inv, PublisherInv, CursorsSettled
  <2>2. x \in waived[m] => Settled(m, x)'
    BY <1>1 DEF Settled, history
  <2> QED BY <1>1, <1>4, <1>7, <2>1, <2>2
<1>9. BatchSettled'
  BY <1>1, <1>7 DEF Inv, PublisherInv, BatchSettled
<1> QED BY <1>3, <1>5, <1>8, <1>9 DEF Inv, PublisherInv

LEMMA StutterKeeps == ASSUME Inv, UNCHANGED vars PROVE Inv'
<1>1. UNCHANGED <<log, nextSeq, publisher, net, consumer, history>>
  BY DEF vars
<1>2. LogInv' /\ KeptRows /\ OnlyChanges'
  BY <1>1, PublisherOnly DEF consumer
<1>3. PublisherInv'
  BY <1>1, <1>2, PublisherRests DEF publisher
<1>4. TypeOK'
  BY <1>1 DEF Inv, TypeOK, publisher, consumer, history
<1> QED BY <1>2, <1>3, <1>4 DEF Inv

-----------------------------------------------------------------------------
(* The theorems *)

LEMMA StepKeeps == ASSUME Inv, [Next]_vars PROVE Inv'
<1>1. ASSUME NEW n \in Nodes, LocalChange(n) PROVE Inv'
  BY <1>1, OpenChangeKeeps, CloseChangeKeeps DEF LocalChange
<1>2. ASSUME NEW n \in Nodes, Publishing(n) PROVE Inv'
  BY <1>2, FetchBatchKeeps, SaveCursorKeeps, ResetApplyKeeps, PublishKeeps,
     PublishFailsKeeps, ResetSaveKeeps DEF Publishing
<1>3. ASSUME NEW n \in Nodes, Consuming(n) PROVE Inv'
  <2>1. ASSUME NEW m \in Peers(n), NEW s \in Seqs,
               \/ SkipApplied(n, m, s) \/ Shelve(n, m, s) \/ IgnoreArrived(n, m, s)
               \/ \E k \in TriggerRows : ApplyArrived(n, m, s, k)
        PROVE  Inv'
    BY <2>1, SkipAppliedKeeps, ShelveKeeps, IgnoreArrivedKeeps, ApplyArrivedKeeps
  <2>2. ASSUME NEW m \in Peers(n), LoseMessage(n, m) PROVE Inv'
    BY <2>2, LoseMessageKeeps
  <2>3. ASSUME \/ CommitApply(n) \/ FailApply(n)
               \/ \E k \in TriggerRows : DrainNext(n, k)
               \/ DrainIgnored(n) \/ DrainEnd(n) \/ RemoveShelved(n)
        PROVE  Inv'
    BY <2>3, CommitApplyKeeps, FailApplyKeeps, DrainNextKeeps, DrainIgnoredKeeps,
       DrainEndKeeps, RemoveShelvedKeeps
  <2> QED BY <1>3, <2>1, <2>2, <2>3 DEF Consuming
<1>4. ASSUME NEW n \in Nodes, Crash(n) PROVE Inv'
  BY <1>4, CrashKeeps
<1> QED BY <1>1, <1>2, <1>3, <1>4, StutterKeeps DEF Next

\* The inductive invariant holds, whatever is lost, repeated or interrupted.
THEOREM Invariance == Spec => []Inv
BY InitInv, StepKeeps, PTL DEF Spec

\* The state of the replication is well formed at every node.
THEOREM TypeCorrect == Spec => []TypeOK
<1>1. Inv => TypeOK
  BY DEF Inv
<1> QED BY <1>1, Invariance, PTL

\* What a node applied of a peer is the unbroken beginning of the numbers that
\* peer committed as changes of its own.
THEOREM PrefixHolds == Spec => []AppliedPrefix
<1>1. Inv => AppliedPrefix
  <2> SUFFICES ASSUME Inv, NEW n \in Nodes, NEW m \in Nodes, NEW s \in 1..applied[n][m]
               PROVE  /\ log[m][s].state = "committed" /\ log[m][s].emitter = m
                      /\ log[m][s].kind = "transaction"
    BY DEF AppliedPrefix
  <2>1. s \in OwnChanges(m)
    BY DEF Inv, OnlyChanges
  <2> QED BY <2>1 DEF OwnChanges
<1> QED BY <1>1, Invariance, PTL

\* A node has one committed acknowledgement for each change it applied, and
\* none for the others: the change, the acknowledgement and the progress are one.
THEOREM AckHolds == Spec => []AcknowledgedOnce
<1>1. Inv => AcknowledgedOnce
  BY DEF Inv, LogInv
<1> QED BY <1>1, Invariance, PTL

\* A committed row that a cursor has passed was handed to the broker, unless it
\* committed after the publisher read beyond it or was skipped by a reset.
THEOREM PassedHolds == Spec => []PassedMeansSent
<1>1. Inv => PassedMeansSent
  BY DEF Inv, PublisherInv, CursorsSettled, Settled, PassedMeansSent
<1> QED BY <1>1, Invariance, PTL

-----------------------------------------------------------------------------
(* The contract *)

StepOf(n) == LocalChange(n) \/ Publishing(n) \/ Consuming(n) \/ Crash(n)

\* Rows that ended are kept by every step, and a step of n writes no log but its own.
LEMMA StepKeepsRows == ASSUME Inv, NEW n \in Nodes, StepOf(n) PROVE KeptRows
<1>1. log' = log => KeptRows
  BY DEF KeptRows
<1>2. CASE LocalChange(n)
  BY <1>2, OpenChangeKeeps, CloseChangeKeeps DEF LocalChange
<1>3. CASE Publishing(n)
  <2>1. log' = log
    BY <1>3 DEF Publishing, FetchBatch, SaveCursor, ResetApply, Publish, PublishFails, ResetSave
  <2> QED BY <1>1, <2>1
<1>4. CASE Consuming(n)
  <2>1. CASE \E m \in Peers(n), s \in Seqs, k \in TriggerRows : ApplyArrived(n, m, s, k)
    BY <2>1, ApplyArrivedKeeps
  <2>2. CASE CommitApply(n) \/ FailApply(n) \/ \E k \in TriggerRows : DrainNext(n, k)
    BY <2>2, CommitApplyKeeps, FailApplyKeeps, DrainNextKeeps
  <2>3. CASE \/ \E m \in Peers(n), s \in Seqs :
                  SkipApplied(n, m, s) \/ Shelve(n, m, s) \/ IgnoreArrived(n, m, s)
             \/ \E m \in Peers(n) : LoseMessage(n, m)
             \/ DrainIgnored(n) \/ DrainEnd(n) \/ RemoveShelved(n)
    <3>1. log' = log
      BY <2>3 DEF SkipApplied, Shelve, IgnoreArrived, LoseMessage, DrainIgnored, DrainEnd,
                  RemoveShelved
    <3> QED BY <1>1, <3>1
  <2> QED BY <1>4, <2>1, <2>2, <2>3 DEF Consuming
<1>5. CASE Crash(n)
  BY <1>5, CrashKeeps
<1> QED BY <1>2, <1>3, <1>4, <1>5 DEF StepOf

LEMMA OtherLogs ==
    ASSUME Inv, NEW n \in Nodes, StepOf(n), NEW m \in Nodes, m # n PROVE log'[m] = log[m]
<1>1. log \in [Nodes -> [Seqs -> LogRow]]
  BY DEF Inv, TypeOK
<1>2. CASE LocalChange(n)
  BY <1>1, <1>2 DEF LocalChange, OpenChange, CloseChange
<1>3. CASE Publishing(n)
  BY <1>3 DEF Publishing, FetchBatch, SaveCursor, ResetApply, Publish, PublishFails, ResetSave
<1>4. CASE Consuming(n)
  BY <1>1, <1>4 DEF Consuming, SkipApplied, Shelve, IgnoreArrived, ApplyArrived, LoseMessage,
     CommitApply, FailApply, DrainNext, DrainIgnored, DrainEnd, RemoveShelved, BeginApply, Settle
<1>5. CASE Crash(n)
  BY <1>1, <1>5 DEF Crash, Settle
<1> QED BY <1>2, <1>3, <1>4, <1>5 DEF StepOf

\* Only the end of a transaction moves the progress of a follower.
LEMMA OnlyCommitsFollow ==
    ASSUME NEW n \in Nodes, StepOf(n) PROVE UNCHANGED applied \/ CommitApply(n)
<1>1. CASE LocalChange(n)
  BY <1>1 DEF LocalChange, OpenChange, CloseChange, consumer
<1>2. CASE Publishing(n)
  BY <1>2 DEF Publishing, FetchBatch, SaveCursor, ResetApply, Publish, PublishFails, ResetSave,
              consumer
<1>3. CASE Consuming(n)
  BY <1>3 DEF Consuming, SkipApplied, Shelve, IgnoreArrived, ApplyArrived, LoseMessage,
     FailApply, DrainNext, DrainIgnored, DrainEnd, RemoveShelved, consumer
<1>4. CASE Crash(n)
  BY <1>4 DEF Crash
<1> QED BY <1>1, <1>2, <1>3, <1>4 DEF StepOf

LEMMA CommitFollows ==
    ASSUME Inv, NEW n \in Nodes, CommitApply(n) PROVE \E m \in Nodes : Contract!Follow(n, m)
<1> DEFINE p == worker[n].peer
<1>1. /\ worker[n].phase = "apply"
      /\ applied' = [applied EXCEPT ![n][p] = Larger(@, worker[n].seq)]
  BY DEF CommitApply
<1>2. /\ p \in Nodes /\ p # n /\ worker[n].seq = applied[n][p] + 1
      /\ worker[n].seq \in OwnChanges(p)
  BY <1>1 DEF Inv, LogInv, WorkersInOrder, Working, Peers
<1>3. applied \in [Nodes -> [Nodes -> 0..MaxSeq]] /\ applied[n][p] \in Nat
  <2>1. applied \in [Nodes -> [Nodes -> 0..MaxSeq]]
    BY DEF Inv, TypeOK
  <2> QED BY <1>2, <2>1, BoundsAssumption
<1>4. Larger(applied[n][p], worker[n].seq) = applied[n][p] + 1
  BY <1>2, <1>3 DEF Larger
<1>5. applied' = [applied EXCEPT ![n][p] = @ + 1]
  BY <1>1, <1>4
<1> QED BY <1>2, <1>5 DEF Contract!Follow

LEMMA StepRefines == ASSUME Inv, NEW n \in Nodes, StepOf(n) PROVE Contract!RNext
<1> DEFINE changes == [i \in Nodes |-> OwnChanges(i)]
<1>1. KeptRows
  BY StepKeepsRows
<1>2. \A m \in Nodes : OwnChanges(m) \subseteq OwnChanges(m)'
  BY <1>1, ChangesStay
<1>3. \A m \in Nodes : m # n => OwnChanges(m)' = OwnChanges(m)
  BY OtherLogs DEF OwnChanges
<1>4. changes' = [changes EXCEPT ![n] = @ \cup changes'[n]]
  BY <1>2, <1>3
<1>5. Contract!Commit(n)
  BY <1>4 DEF Contract!Commit
<1>6. UNCHANGED applied \/ \E m \in Nodes : Contract!Follow(n, m)
  BY OnlyCommitsFollow, CommitFollows
<1> QED BY <1>5, <1>6 DEF Contract!RNext

LEMMA InitRefines == Init => Contract!RInit
<1> SUFFICES ASSUME Init PROVE Contract!RInit
  OBVIOUS
<1>1. \A n \in Nodes : OwnChanges(n) = {}
  BY DEF Init, OwnChanges, NoLogRow, Change
<1> QED BY <1>1 DEF Init, Contract!RInit

\* The replication implements its contract: each peer is followed change by
\* change, in order, and no change is ever withdrawn.
THEOREM Refinement == Spec => ImplementsContract
<1>1. Init => Contract!RInit
  BY InitRefines
<1>2. Inv /\ [Next]_vars => [Contract!RNext]_(Contract!rvars)
  <2> SUFFICES ASSUME Inv, [Next]_vars PROVE [Contract!RNext]_(Contract!rvars)
    OBVIOUS
  <2>1. CASE UNCHANGED vars
    BY <2>1 DEF vars, consumer, Contract!rvars, OwnChanges
  <2>2. CASE Next
    <3>1. PICK n \in Nodes : StepOf(n)
      BY <2>2 DEF Next, StepOf
    <3> QED BY <3>1, StepRefines
  <2> QED BY <2>1, <2>2
<1> QED BY <1>1, <1>2, Invariance, PTL DEF Spec, ImplementsContract, Contract!RSpec

=============================================================================
