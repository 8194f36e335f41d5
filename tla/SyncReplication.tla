-------------------------- MODULE SyncReplication --------------------------
(***************************************************************************)
(* Application-level replication between independent databases over MQTT:   *)
(* triggers write every change to sync_log, a publisher pumps the log to    *)
(* the broker behind a persisted cursor, and a consumer applies what its    *)
(* peers publish, in the order of their sequence numbers, shelving what     *)
(* comes too early.                                                         *)
(*                                                                          *)
(* seq is one BIGSERIAL per database, shared by the changes, the            *)
(* acknowledgements and the transactions that roll back; a number is taken  *)
(* when a row is inserted, and visible to the publisher only at the commit. *)
(* Of a payload only two things matter: whether it was itself replicated    *)
(* and whether every peer knows its entity type.  Acknowledgements and      *)
(* node_hello messages are only logged by their receivers and are not put   *)
(* in the channels.                                                         *)
(***************************************************************************)
EXTENDS Naturals, Sequences, FiniteSets

CONSTANTS
    Nodes,      \* instances, each with its own database
    Writers,    \* instances whose users change something
    Newer,      \* instances whose version logs entity types the others ignore
    Resetting,  \* instances whose administrator resets the push cursor
    TriggerRows,\* how many rows the triggers may log for a change applied
    BatchSize,  \* BATCH_SIZE of the publisher
    MaxSeq,     \* bound of the sequences (model checking only)
    MaxQueue,   \* bound of the channels (model checking only)
    None        \* no node

ASSUME NodesAssumption ==
    Writers \cup Newer \cup Resetting \subseteq Nodes /\ None \notin Nodes
\* None for the deletion of a row that was absent, one for a deletion or an
\* insertion, two for the DELETE and the INSERT of an upsert.
ASSUME TriggerAssumption == TriggerRows \subseteq 0..2
ASSUME BoundsAssumption == BatchSize \in Nat \ {0} /\ MaxSeq \in Nat /\ MaxQueue \in Nat

VARIABLES
    log,        \* sync_log of each node, by seq
    nextSeq,    \* the next value of its BIGSERIAL
    pub,        \* what the publisher loop of each node is doing
    batch,      \* the rows it fetched and has not published yet
    cursor,     \* SyncPublisher._cursor
    saved,      \* sync_push_cursor in system_metadata
    reset,      \* a cursor reset written to the database, not yet to memory
    net,        \* net[m][n]: what the broker holds of m for n, by seq
    applied,    \* last_applied_seq of sync_replication_state
    received,   \* last_received_seq
    shelf,      \* sync_shelf: seqs shelved for each peer
    worker,     \* what the consumer loop of each node is doing
    sent,       \* seqs handed to the broker (history)
    late,       \* seqs not committed when the publisher fetched beyond them
                \* (history)
    waived      \* seqs skipped by a forward reset (history)

history == <<sent, late, waived>>
publisher == <<pub, batch, cursor, saved, reset>>
consumer == <<applied, received, shelf, worker>>
vars == <<log, nextSeq, publisher, net, consumer, history>>

-----------------------------------------------------------------------------
Seqs == 1..MaxSeq
Peers(n) == Nodes \ {n}

LogRow == [state : {"none", "open", "committed", "rolledback"},
           emitter : Nodes \cup {None},
           kind : {"transaction", "replication_ack"},
           replicated : BOOLEAN, known : BOOLEAN,
           source : Nodes \cup {None}, sourceSeq : Nat]

Change(e, s, replicated, known) ==
    [state |-> s, emitter |-> e, kind |-> "transaction", replicated |-> replicated,
     known |-> known, source |-> None, sourceSeq |-> 0]

NoLogRow == Change(None, "none", FALSE, TRUE)

Ack(n, m, s) ==
    [state |-> "open", emitter |-> n, kind |-> "replication_ack", replicated |-> TRUE,
     known |-> TRUE, source |-> m, sourceSeq |-> s]

Resting == [phase |-> "rest", peer |-> None, seq |-> 0, rows |-> {}, shelved |-> FALSE]
Draining(m) == [phase |-> "drain", peer |-> m, seq |-> 0, rows |-> {}, shelved |-> TRUE]
Removing(m, s) == [phase |-> "remove", peer |-> m, seq |-> s, rows |-> {}, shelved |-> TRUE]
Applying(m, s, rows, shelved) ==
    [phase |-> "apply", peer |-> m, seq |-> s, rows |-> rows, shelved |-> shelved]

Worker == [phase : {"rest", "drain", "remove", "apply"}, peer : Nodes \cup {None},
           seq : Nat, rows : SUBSET Seqs, shelved : BOOLEAN]

Init ==
    /\ log = [n \in Nodes |-> [s \in Seqs |-> NoLogRow]]
    /\ nextSeq = [n \in Nodes |-> 1]
    /\ pub = [n \in Nodes |-> "idle"]
    /\ batch = [n \in Nodes |-> {}]
    /\ cursor = [n \in Nodes |-> 0]
    /\ saved = [n \in Nodes |-> 0]
    /\ reset = [n \in Nodes |-> [on |-> FALSE, to |-> 0]]
    /\ net = [m \in Nodes |-> [n \in Nodes |-> <<>>]]
    /\ applied = [n \in Nodes |-> [m \in Nodes |-> 0]]
    /\ received = [n \in Nodes |-> [m \in Nodes |-> 0]]
    /\ shelf = [n \in Nodes |-> [m \in Nodes |-> {}]]
    /\ worker = [n \in Nodes |-> Resting]
    /\ sent = [n \in Nodes |-> {}]
    /\ late = [n \in Nodes |-> {}]
    /\ waived = [n \in Nodes |-> {}]

-----------------------------------------------------------------------------
(* Local changes: sync_log_trigger *)

\* A change takes its number.  The emitter is read from the connection: it is
\* this node, or unknown on a connection that was not given the identifier.
OpenChange(n, e, known) ==
    /\ n \in Writers
    /\ nextSeq[n] \in Seqs
    /\ e \in {n, None}
    /\ known \/ n \in Newer
    /\ log' = [log EXCEPT ![n][nextSeq[n]] = Change(e, "open", FALSE, known)]
    /\ nextSeq' = [nextSeq EXCEPT ![n] = @ + 1]
    /\ UNCHANGED <<publisher, net, consumer, history>>

\* Its transaction ends; a rollback does not give the number back.
CloseChange(n, s, outcome) ==
    /\ log[n][s].state = "open"
    /\ s \notin worker[n].rows
    /\ outcome \in {"committed", "rolledback"}
    /\ log' = [log EXCEPT ![n][s].state = outcome]
    /\ UNCHANGED <<nextSeq, publisher, net, consumer, history>>

-----------------------------------------------------------------------------
(* SyncPublisher *)

\* fetch_outbound_batch: the committed rows of this emitter beyond a cursor.
Outbound(n) ==
    {s \in Seqs : log[n][s].state = "committed" /\ log[n][s].emitter = n /\ s > cursor[n]}
FirstOf(S) == {s \in S : Cardinality({x \in S : x < s}) < BatchSize}

FetchBatch(n) ==
    /\ pub[n] = "idle"
    /\ Outbound(n) # {}
    /\ batch' = [batch EXCEPT ![n] = FirstOf(Outbound(n))]
    /\ pub' = [pub EXCEPT ![n] = "publishing"]
    /\ late' = [late EXCEPT ![n] = @ \cup
                  {s \in Seqs : log[n][s].state = "open" /\ \E x \in batch'[n] : s < x}]
    /\ UNCHANGED <<log, nextSeq, cursor, saved, reset, net, consumer, sent, waived>>

Lowest(S, s) == s \in S /\ \A x \in S : s <= x

\* The broker hands a change to every other instance (each one ignores its own
\* messages).
Broadcast(n, s) ==
    /\ net' = IF log[n][s].kind = "transaction"
                THEN [net EXCEPT ![n] = [m \in Nodes |-> IF m = n THEN net[n][m]
                                                         ELSE Append(net[n][m], s)]]
                ELSE net
    /\ sent' = [sent EXCEPT ![n] = @ \cup {s}]

RoomFor(n) == \A m \in Peers(n) : Len(net[n][m]) < MaxQueue

\* A mistake: the cursor is moved to the end of the batch at once.
PublishBatchCursor(n, s) ==
    /\ Lowest(batch[n], s)
    /\ RoomFor(n)
    /\ Broadcast(n, s)
    /\ batch' = [batch EXCEPT ![n] = @ \ {s}]
    /\ cursor' = [cursor EXCEPT ![n] = CHOOSE x \in batch[n] : \A y \in batch[n] : y <= x]
    /\ UNCHANGED <<log, nextSeq, pub, saved, reset, consumer, late, waived>>

\* _publish_batch: one message of the batch, then the cursor in memory.
Publish(n, s) ==
    /\ Lowest(batch[n], s)
    /\ RoomFor(n)
    /\ Broadcast(n, s)
    /\ batch' = [batch EXCEPT ![n] = @ \ {s}]
    /\ cursor' = [cursor EXCEPT ![n] = s]
    /\ UNCHANGED <<log, nextSeq, pub, saved, reset, consumer, late, waived>>

\* The connection breaks; the broker may have taken the message.  The loop
\* reconnects and fetches again from the cursor in memory.
PublishFails(n, s) ==
    /\ Lowest(batch[n], s)
    /\ RoomFor(n)
    /\ \/ Broadcast(n, s)
       \/ UNCHANGED <<net, sent>>
    /\ batch' = [batch EXCEPT ![n] = {}]
    /\ pub' = [pub EXCEPT ![n] = "idle"]
    /\ UNCHANGED <<log, nextSeq, cursor, saved, reset, consumer, late, waived>>

\* set_push_cursor at the end of a batch, which may fail.
SaveCursor(n) ==
    /\ pub[n] = "publishing" /\ batch[n] = {}
    /\ saved' \in {saved, [saved EXCEPT ![n] = cursor[n]]}
    /\ pub' = [pub EXCEPT ![n] = "idle"]
    /\ UNCHANGED <<log, nextSeq, batch, cursor, reset, net, consumer, history>>

\* reset_cursor, by an administrator: the database first, the memory next.
ResetSave(n, c) ==
    /\ n \in Resetting
    /\ ~reset[n].on
    /\ c \in 0..MaxSeq
    /\ saved' = [saved EXCEPT ![n] = c]
    /\ reset' = [reset EXCEPT ![n] = [on |-> TRUE, to |-> c]]
    /\ waived' = [waived EXCEPT ![n] = @ \cup (1..c)]
    /\ UNCHANGED <<log, nextSeq, pub, batch, cursor, net, consumer, sent, late>>

ResetApply(n) ==
    /\ reset[n].on
    /\ cursor' = [cursor EXCEPT ![n] = reset[n].to]
    /\ reset' = [reset EXCEPT ![n] = [on |-> FALSE, to |-> 0]]
    /\ UNCHANGED <<log, nextSeq, pub, batch, saved, net, consumer, history>>

-----------------------------------------------------------------------------
(* SyncConsumer *)

\* The head of a channel is taken by the consumer; it stays there when the
\* broker did not learn it, and is delivered again.
Take(n, m) ==
    net' = net \/ net' = [net EXCEPT ![m][n] = Tail(@)]

Arrived(n, m, s) ==
    /\ worker[n] = Resting
    /\ net[m][n] # <<>>
    /\ s = Head(net[m][n])

\* The session outlives its queue limit, or the process dies after it
\* acknowledged a message and before it handled it.
LoseMessage(n, m) ==
    /\ net[m][n] # <<>>
    /\ net' = [net EXCEPT ![m][n] = Tail(@)]
    /\ UNCHANGED <<log, nextSeq, publisher, consumer, history>>

\* _handle_transaction: already applied.
SkipApplied(n, m, s) ==
    /\ Arrived(n, m, s)
    /\ s <= applied[n][m]
    /\ Take(n, m)
    /\ UNCHANGED <<log, nextSeq, publisher, consumer, history>>

Larger(a, b) == IF a < b THEN b ELSE a

\* Out of order: shelved.
Shelve(n, m, s) ==
    /\ Arrived(n, m, s)
    /\ s > applied[n][m] + 1
    /\ Take(n, m)
    /\ shelf' = [shelf EXCEPT ![n][m] = @ \cup {s}]
    /\ received' = [received EXCEPT ![n][m] = Larger(@, s)]
    /\ UNCHANGED <<log, nextSeq, publisher, applied, worker, history>>

\* A mistake: any later message is applied.
InOrderLater(n, m, s) == s > applied[n][m]
InOrder(n, m, s) == s = applied[n][m] + 1

\* apply_transaction_in_tx: the triggers log the k changes it makes again, under
\* the name of this node, then the acknowledgement is inserted.
BeginApply(n, m, s, k, shelved) ==
    LET rows == nextSeq[n] .. nextSeq[n] + k IN
    /\ rows \subseteq Seqs
    /\ log' = [log EXCEPT ![n] =
                 [q \in Seqs |-> IF q = nextSeq[n] + k THEN Ack(n, m, s)
                                 ELSE IF q \in rows THEN Change(n, "open", TRUE, TRUE)
                                 ELSE log[n][q]]]
    /\ nextSeq' = [nextSeq EXCEPT ![n] = @ + k + 1]
    /\ worker' = [worker EXCEPT ![n] = Applying(m, s, rows, shelved)]

\* An entity type this version does not know: logged, and nothing is written.
Unknown(n, m, s) == n \notin Newer /\ ~log[m][s].known

ApplyArrived(n, m, s, k) ==
    /\ Arrived(n, m, s)
    /\ InOrder(n, m, s)
    /\ ~Unknown(n, m, s)
    /\ BeginApply(n, m, s, k, FALSE)
    /\ Take(n, m)
    /\ UNCHANGED <<publisher, applied, received, shelf, history>>

IgnoreArrived(n, m, s) ==
    /\ Arrived(n, m, s)
    /\ InOrder(n, m, s)
    /\ Unknown(n, m, s)
    /\ Take(n, m)
    /\ worker' = [worker EXCEPT ![n] = Draining(m)]
    /\ UNCHANGED <<log, nextSeq, publisher, applied, received, shelf, history>>

\* The rows of a transaction of n, committed or rolled back at once.
Settle(n, rows, outcome) ==
    log' = [log EXCEPT ![n] =
              [q \in Seqs |-> IF q \in rows THEN [log[n][q] EXCEPT !.state = outcome]
                              ELSE log[n][q]]]

\* Mistakes: the state is written in a transaction of its own, after the
\* change and its acknowledgement.
CommitApplyAckOnly(n) ==
    LET w == worker[n] IN
    /\ w.phase = "apply"
    /\ Settle(n, w.rows, "committed")
    /\ applied' \in {applied, [applied EXCEPT ![n][w.peer] = Larger(@, w.seq)]}
    /\ received' = [received EXCEPT ![n][w.peer] = Larger(@, w.seq)]
    /\ worker' = [worker EXCEPT ![n] =
                    IF w.shelved THEN Removing(w.peer, w.seq) ELSE Draining(w.peer)]
    /\ UNCHANGED <<nextSeq, publisher, net, shelf, history>>

\* The change, its acknowledgement and upsert_applied commit together.
CommitApply(n) ==
    LET w == worker[n] IN
    /\ w.phase = "apply"
    /\ Settle(n, w.rows, "committed")
    /\ applied' = [applied EXCEPT ![n][w.peer] = Larger(@, w.seq)]
    /\ received' = [received EXCEPT ![n][w.peer] = Larger(@, w.seq)]
    /\ worker' = [worker EXCEPT ![n] =
                    IF w.shelved THEN Removing(w.peer, w.seq) ELSE Draining(w.peer)]
    /\ UNCHANGED <<nextSeq, publisher, net, shelf, history>>

\* A constraint of the database refuses the change: the exception is logged and
\* the consumer goes on with the next message.
FailApply(n) ==
    /\ worker[n].phase = "apply"
    /\ Settle(n, worker[n].rows, "rolledback")
    /\ worker' = [worker EXCEPT ![n] = Resting]
    /\ UNCHANGED <<nextSeq, publisher, net, applied, received, shelf, history>>

\* _drain_shelf: the next change is on the shelf, or not.
DrainNext(n, k) ==
    LET m == worker[n].peer
        s == applied[n][m] + 1 IN
    /\ worker[n].phase = "drain"
    /\ s \in shelf[n][m]
    /\ ~Unknown(n, m, s)
    /\ BeginApply(n, m, s, k, TRUE)
    /\ UNCHANGED <<publisher, net, applied, received, shelf, history>>

DrainIgnored(n) ==
    LET m == worker[n].peer
        s == applied[n][m] + 1 IN
    /\ worker[n].phase = "drain"
    /\ s \in shelf[n][m]
    /\ Unknown(n, m, s)
    /\ worker' = [worker EXCEPT ![n] = Removing(m, s)]
    /\ UNCHANGED <<log, nextSeq, publisher, net, applied, received, shelf, history>>

DrainEnd(n) ==
    /\ worker[n].phase = "drain"
    /\ applied[n][worker[n].peer] + 1 \notin shelf[n][worker[n].peer]
    /\ worker' = [worker EXCEPT ![n] = Resting]
    /\ UNCHANGED <<log, nextSeq, publisher, net, applied, received, shelf, history>>

\* remove_shelved.
RemoveShelved(n) ==
    LET w == worker[n] IN
    /\ w.phase = "remove"
    /\ shelf' = [shelf EXCEPT ![n][w.peer] = @ \ {w.seq}]
    /\ worker' = [worker EXCEPT ![n] = Draining(w.peer)]
    /\ UNCHANGED <<log, nextSeq, publisher, net, applied, received, history>>

-----------------------------------------------------------------------------
\* The process dies: its open transactions are rolled back, and the publisher
\* starts again from the saved cursor.
Crash(n) ==
    /\ Settle(n, {s \in Seqs : log[n][s].state = "open"}, "rolledback")
    /\ pub' = [pub EXCEPT ![n] = "idle"]
    /\ batch' = [batch EXCEPT ![n] = {}]
    /\ cursor' = [cursor EXCEPT ![n] = saved[n]]
    /\ reset' = [reset EXCEPT ![n] = [on |-> FALSE, to |-> 0]]
    /\ worker' = [worker EXCEPT ![n] = Resting]
    /\ UNCHANGED <<nextSeq, saved, net, applied, received, shelf, history>>

LocalChange(n) ==
    \/ \E e \in {n, None}, known \in BOOLEAN : OpenChange(n, e, known)
    \/ \E s \in Seqs, outcome \in {"committed", "rolledback"} : CloseChange(n, s, outcome)

Publishing(n) ==
    \/ FetchBatch(n) \/ SaveCursor(n) \/ ResetApply(n)
    \/ \E s \in Seqs : Publish(n, s) \/ PublishFails(n, s)
    \/ \E c \in 0..MaxSeq : ResetSave(n, c)

Consuming(n) ==
    \/ \E m \in Peers(n), s \in Seqs :
         \/ SkipApplied(n, m, s) \/ Shelve(n, m, s) \/ IgnoreArrived(n, m, s)
         \/ \E k \in TriggerRows : ApplyArrived(n, m, s, k)
    \/ \E m \in Peers(n) : LoseMessage(n, m)
    \/ CommitApply(n) \/ FailApply(n)
    \/ \E k \in TriggerRows : DrainNext(n, k)
    \/ DrainIgnored(n) \/ DrainEnd(n) \/ RemoveShelved(n)

Next == \E n \in Nodes : LocalChange(n) \/ Publishing(n) \/ Consuming(n) \/ Crash(n)

Spec == Init /\ [][Next]_vars

-----------------------------------------------------------------------------
(* Properties *)

TypeOK ==
    /\ log \in [Nodes -> [Seqs -> LogRow]]
    /\ nextSeq \in [Nodes -> 1..MaxSeq + 1]
    /\ pub \in [Nodes -> {"idle", "publishing"}]
    /\ batch \in [Nodes -> SUBSET Seqs]
    /\ cursor \in [Nodes -> 0..MaxSeq] /\ saved \in [Nodes -> 0..MaxSeq]
    /\ reset \in [Nodes -> [on : BOOLEAN, to : 0..MaxSeq]]
    /\ net \in [Nodes -> [Nodes -> Seq(Seqs)]]
    /\ applied \in [Nodes -> [Nodes -> 0..MaxSeq]]
    /\ received \in [Nodes -> [Nodes -> 0..MaxSeq]]
    /\ shelf \in [Nodes -> [Nodes -> SUBSET Seqs]]
    /\ worker \in [Nodes -> Worker]
    /\ sent \in [Nodes -> SUBSET Seqs] /\ late \in [Nodes -> SUBSET Seqs]
    /\ waived \in [Nodes -> SUBSET Seqs]

\* What a node applied of a peer is the unbroken beginning of what that peer
\* committed: nothing is skipped, nothing is taken from a transaction that was
\* rolled back, whatever is lost, repeated, shelved or interrupted.
AppliedPrefix ==
    \A n, m \in Nodes : \A s \in 1..applied[n][m] :
        /\ log[m][s].state = "committed"
        /\ log[m][s].emitter = m
        /\ log[m][s].kind = "transaction"

\* sync_apply: the acknowledgement is atomic with the change, and a change is
\* applied once.  A node has exactly one committed acknowledgement for each
\* change it applied, and none for the others.
AckRows(n, m) ==
    {q \in Seqs : /\ log[n][q].kind = "replication_ack" /\ log[n][q].state = "committed"
                  /\ log[n][q].source = m}
AcknowledgedOnce ==
    \A n, m \in Nodes :
        /\ {log[n][q].sourceSeq : q \in AckRows(n, m)} = 1..applied[n][m]
        /\ \A q, r \in AckRows(n, m) : log[n][q].sourceSeq = log[n][r].sourceSeq => q = r

\* "En cas de crash, on re-publie": a row of this emitter that the cursor has
\* passed, in memory or in the database, was handed to the broker, unless it was
\* not committed yet when the publisher fetched, or an administrator skipped it.
PassedMeansSent ==
    \A n \in Nodes, s \in Seqs :
        /\ log[n][s].state = "committed" /\ log[n][s].emitter = n
        /\ s <= cursor[n] \/ s <= saved[n]
        => s \in sent[n] \cup late[n] \cup waived[n]

-----------------------------------------------------------------------------
(* What the documentation says, and the code does not do *)

\* sync_apply.py:3: the change a peer sent is not emitted again.
NoReemission ==
    \A n, m \in Nodes : \A i \in 1..Len(net[n][m]) : ~log[n][net[n][m][i]].replicated

\* sync_consumer.py:9: a message is shelved until the missing seq comes, so one
\* of the seqs it waits for is a change its emitter may send.
ShelfWaitsForAChange ==
    \A n, m \in Nodes : \A s \in shelf[n][m] : s > applied[n][m] + 1 =>
        LET q == applied[n][m] + 1 IN
        log[m][q].kind = "transaction" /\ log[m][q].emitter = m /\ log[m][q].state # "rolledback"

=============================================================================
