-------------------------- MODULE ScheduledBackups --------------------------
(***************************************************************************)
(* The scheduled backups of one backend process                             *)
(* (services/scheduled_backups.py, services/scheduled_backups_scheduler.py) *)
(* with what shares their lock (services/backup_lock.py): the runs asked    *)
(* for by an administrator and the snapshot scheduler; and with what does   *)
(* not: POST /admin/backups and the deletion of backups.                    *)
(*                                                                          *)
(* Abstractions.  A cron expression is a period: its slots are the          *)
(* multiples of it.  A backup does not say who made it: a rotation drops    *)
(* any of them, where the code drops snapshots past their retention.  The   *)
(* timestamps that decide a skip are only compared, so a change keeps which *)
(* backups were recorded after it began (before) and not a number.  Of the  *)
(* connection pool, what is counted is who keeps a connection across an     *)
(* await on something else; a short use only needs one to be free.          *)
(***************************************************************************)
EXTENDS Naturals, FiniteSets

CONSTANTS
    Schedules,   \* rows of scheduled_backup
    Crons,       \* periods
    Threshold,   \* miss_threshold_minutes
    RunCalls,    \* concurrent calls of POST /{id}/run-now
    Triggers,    \* concurrent calls of POST /admin/snapshots/trigger
    Changes,     \* transactions of users on the tables a backup holds
    Nobody,      \* the lock is free
    PoolSize,    \* max_size of the connection pool
    MaxEdits,    \* bound of the edits in progress (model checking only)
    MaxTime,     \* bound of the clock (model checking only)
    MaxRestarts  \* bound of the restarts (model checking only)

ASSUME PeriodAssumption == Crons \subseteq Nat \ {0} /\ Crons # {}
ASSUME TimeAssumption == Threshold \in Nat /\ MaxTime \in Nat /\ MaxRestarts \in Nat
ASSUME PoolAssumption == PoolSize \in Nat \ {0} /\ MaxEdits \in Nat
ASSUME WorkerAssumption ==
    /\ Nobody \notin RunCalls \cup Triggers \cup {"loop", "snapshot", "api"}
    /\ RunCalls \cap {"loop", "snapshot", "api"} = {}
    /\ Triggers \cap (RunCalls \cup {"loop", "snapshot", "api"}) = {}

VARIABLES
    now,
    row,       \* the table scheduled_backup
    edits,     \* next runs computed by an edit that has not written them yet
    holder,    \* the asyncio.Lock of backup_lock.py: who holds it
    ahead,     \* of each worker that waits for it, those who asked before
    at,        \* what each worker is doing
    todo,      \* due_rows of the tick in progress, as they were read
    running,   \* the due rows the tick has taken from them: at most one
    seen,      \* the changes the dump in progress of each worker holds
    change,    \* the transactions of users
    backups,   \* the table backups_local and its files
    served,    \* the slots marked as run (history)
    back,      \* those of them that a late edit wrote again (history)
    restarts

vars == <<now, row, edits, holder, ahead, at, todo, running, seen, change, backups,
          served, back, restarts>>

-----------------------------------------------------------------------------
\* Who takes the lock, and who dumps.
Snapshots == Triggers \cup {"snapshot"}
Scheduled == RunCalls \cup {"loop"}
Workers == Scheduled \cup Snapshots
Dumpers == Workers \cup {"api"}

\* Only the loop is ever off.
Doing == {"off", "idle", "queued", "ready", "dump", "upload", "mark", "push", "rotate"}

Row == [life : {"none", "live", "deleted"}, cron : Crons, enabled : BOOLEAN, next : Nat]
NoRow == [life |-> "none", cron |-> CHOOSE c \in Crons : TRUE, enabled |-> FALSE, next |-> 0]
Due == [id : Schedules, cron : Crons, slot : Nat]
EditRecord == [id : Schedules, cron : Crons, next : Nat]
\* before: the changes stamped no later than created_at; holds: those the file
\* gives back.
Backup == [before : SUBSET Changes, holds : SUBSET Changes]

\* A mistake: a slot that is now counts as the next one.
NextSlotInclusive(cron, after) == ((after + cron - 1) \div cron) * cron

NextSlot(cron, after) == (after \div cron + 1) * cron

Live(s) == row[s].life = "live"
IsDue(s) == Live(s) /\ row[s].enabled /\ row[s].next <= now

Begun == {c \in Changes : change[c] # "none"}
Committed == {c \in Changes : change[c] = "done"}
NothingChanged == backups # {} /\ Committed \subseteq UNION {b.before : b \in backups}

Init ==
    /\ now = 0
    /\ row = [s \in Schedules |-> NoRow]
    /\ edits = {}
    /\ holder = Nobody /\ ahead = [w \in Workers |-> {}]
    /\ at = [w \in Dumpers |-> "idle"]
    /\ todo = {}
    /\ running = {}
    /\ seen = [w \in Dumpers |-> {}]
    /\ change = [c \in Changes |-> "none"]
    /\ backups = {}
    /\ served = {} /\ back = {}
    /\ restarts = 0

Clock ==
    /\ now < MaxTime
    /\ now' = now + 1
    /\ UNCHANGED <<edits, row, holder, ahead, at, todo, running, seen, change, backups, served, back, restarts>>

-----------------------------------------------------------------------------
(* The administrator edits the schedules, whatever runs.                    *)

\* A service computes the next run in Python, then awaits its statement: the
\* clock may pass, and the tick may run, in between.
AskEdit(s) ==
    /\ Cardinality(edits) < MaxEdits
    /\ row[s].life \in {"none", "live"}
    /\ \E cron \in Crons :
          edits' = edits \cup {[id |-> s, cron |-> cron, next |-> NextSlot(cron, now)]}
    /\ UNCHANGED <<now, row, holder, ahead, at, todo, running, seen, change, backups, served, back, restarts>>

Edited(e, on) ==
    /\ row' = [row EXCEPT ![e.id] = [life |-> "live", cron |-> e.cron, enabled |-> on,
                                     next |-> e.next]]
    /\ edits' = edits \ {e}
    /\ UNCHANGED <<now, holder, ahead, at, todo, running, seen, change, backups, served, restarts>>

CreateSchedule(e) ==
    /\ row[e.id].life = "none"
    /\ \E on \in BOOLEAN : Edited(e, on)
    /\ UNCHANGED back

\* The UPDATE writes the next run that was computed, whatever the row became.
UpdateSchedule(e) ==
    /\ Live(e.id)
    /\ \E on \in BOOLEAN : Edited(e, on)
    /\ back' = back \cup ({<<e.id, e.next>>} \cap served)

\* The row has gone, or the statement fails.
EditFails(e) ==
    /\ edits' = edits \ {e}
    /\ UNCHANGED <<now, row, holder, ahead, at, todo, running, seen, change, backups, served, back, restarts>>

\* Without a new expression, the next run is left alone.
SwitchSchedule(s) ==
    /\ Live(s)
    /\ \E on \in BOOLEAN : row' = [row EXCEPT ![s].enabled = on]
    /\ UNCHANGED <<now, edits, holder, ahead, at, todo, running, seen, change, backups, served, back, restarts>>

DeleteSchedule(s) ==
    /\ Live(s)
    /\ row' = [row EXCEPT ![s] = [life |-> "deleted", cron |-> row[s].cron,
                                  enabled |-> FALSE, next |-> row[s].next]]
    /\ UNCHANGED <<now, edits, holder, ahead, at, todo, running, seen, change, backups, served, back, restarts>>

-----------------------------------------------------------------------------
(* The lock.  asyncio.Lock wakes who waits in order, and nobody passes in   *)
(* front of those who wait.                                                 *)

Queue == {w \in Workers : at[w] = "queued"}

Enter(w) ==
    IF holder = Nobody /\ Queue = {}
    THEN holder' = w /\ ahead' = ahead /\ at' = [at EXCEPT ![w] = "ready"]
    ELSE holder' = holder /\ ahead' = [ahead EXCEPT ![w] = Queue]
         /\ at' = [at EXCEPT ![w] = "queued"]

\* Worker w waits no longer.
LeaveQueue(w) == ahead' = [v \in Workers |-> IF v = w THEN {} ELSE ahead[v] \ {w}]

Acquire(w) ==
    /\ at[w] = "queued" /\ holder = Nobody /\ ahead[w] = {}
    /\ holder' = w
    /\ LeaveQueue(w)
    /\ at' = [at EXCEPT ![w] = "ready"]
    /\ UNCHANGED <<now, edits, row, todo, running, seen, change, backups, served, back, restarts>>

Release(w) ==
    /\ holder' = Nobody
    /\ at' = [at EXCEPT ![w] = "idle"]

\* Who keeps a connection of the pool while he waits for something else: a
\* snapshot from its first query to its end, the lock included; the other dumps
\* and uploads.
Keeps(w) == IF w \in Snapshots THEN at[w] # "idle" ELSE at[w] \in {"dump", "upload"}
Room == Cardinality({w \in Dumpers : Keeps(w)}) < PoolSize

\* _tick: the due rows are read, and the tick gives up if the lock is held.  The
\* connection of the reading was given back by then, so none need be free.
Tick ==
    /\ at["loop"] = "idle"
    /\ \E s \in Schedules : IsDue(s)
    /\ holder = Nobody
    /\ todo' = {[id |-> s, cron |-> row[s].cron, slot |-> row[s].next] :
                s \in {x \in Schedules : IsDue(x)}}
    /\ Enter("loop")
    /\ UNCHANGED <<now, edits, row, running, seen, change, backups, served, back, restarts>>

\* run_now, the snapshot scheduler and its triggers (their own test of what
\* changed may be forced or disabled, and only makes them rest).
Ask(w) ==
    /\ at[w] = "idle"
    /\ w \in Snapshots => Room
    /\ Enter(w)
    /\ UNCHANGED <<now, edits, row, todo, running, seen, change, backups, served, back, restarts>>

-----------------------------------------------------------------------------
(* A run.  pg_dump sees what is committed when it starts; the row of        *)
(* backups_local is stamped when it ends.                                   *)

StartDump(w) ==
    /\ at' = [at EXCEPT ![w] = "dump"]
    /\ seen' = [seen EXCEPT ![w] = Committed]

Earliest(d) == \A e \in todo : d.slot <= e.slot

\* A mistake: the row is not taken from the list.
LoopStartKeeps ==
    /\ at["loop"] = "ready" /\ Room
    /\ ~NothingChanged
    /\ \E d \in todo : Earliest(d) /\ running' = {d}
    /\ StartDump("loop")
    /\ UNCHANGED <<now, edits, row, ahead, holder, todo, change, backups, served, back, restarts>>

\* The loop takes the next row as it was read, not as it is now.
LoopStart ==
    /\ at["loop"] = "ready" /\ Room
    /\ ~NothingChanged
    /\ \E d \in todo : Earliest(d) /\ todo' = todo \ {d} /\ running' = {d}
    /\ StartDump("loop")
    /\ UNCHANGED <<now, edits, row, ahead, holder, change, backups, served, back, restarts>>

\* A mistake: a skipped run leaves its schedule due.
LoopSkipSilently ==
    /\ at["loop"] = "ready" /\ Room
    /\ NothingChanged
    /\ todo' = {}
    /\ Release("loop")
    /\ UNCHANGED <<now, edits, row, ahead, running, seen, change, backups, served, back, restarts>>

LoopSkip ==
    /\ at["loop"] = "ready" /\ Room
    /\ NothingChanged
    /\ \E d \in todo : Earliest(d) /\ todo' = todo \ {d} /\ running' = {d}
    /\ at' = [at EXCEPT !["loop"] = "mark"]
    /\ UNCHANGED <<now, edits, row, ahead, holder, seen, change, backups, served, back, restarts>>

\* A manual run, of a schedule that exists.
ManualStart(w) ==
    /\ at[w] = "ready" /\ Room
    /\ \E s \in Schedules : Live(s)
    /\ ~NothingChanged
    /\ StartDump(w)
    /\ UNCHANGED <<now, row, edits, ahead, holder, todo, running, change, backups, served, back, restarts>>

ManualSkip(w) ==
    /\ at[w] = "ready" /\ Room
    /\ \E s \in Schedules : Live(s)
    /\ NothingChanged
    /\ at' = [at EXCEPT ![w] = "mark"]
    /\ UNCHANGED <<now, row, edits, ahead, holder, todo, running, seen, change, backups, served, back, restarts>>

\* A mistake: the early return keeps the lock.
ManualNotFoundHolding(w) ==
    /\ at[w] = "ready" /\ Room
    /\ at' = [at EXCEPT ![w] = "idle"]
    /\ UNCHANGED <<now, row, edits, ahead, holder, todo, running, seen, change, backups, served, back, restarts>>

\* The schedule does not exist, or cannot be read.
ManualNotFound(w) ==
    /\ at[w] = "ready" /\ Room
    /\ Release(w)
    /\ UNCHANGED <<now, row, edits, ahead, todo, running, seen, change, backups, served, back, restarts>>

\* After a manual run only last_run_* is written, or the UPDATE fails.
ManualMark(w) ==
    /\ at[w] = "mark" /\ Room
    /\ Release(w)
    /\ UNCHANGED <<now, row, edits, ahead, todo, running, seen, change, backups, served, back, restarts>>

SnapshotStart(w) ==
    /\ at[w] = "ready"
    /\ StartDump(w)
    /\ UNCHANGED <<now, row, edits, ahead, holder, todo, running, change, backups, served, back, restarts>>

\* POST /admin/backups does not take the lock.
ApiStart ==
    /\ at["api"] = "idle" /\ Room
    /\ StartDump("api")
    /\ UNCHANGED <<now, edits, row, ahead, holder, todo, running, change, backups, served, back, restarts>>

Recorded(w) == [before |-> Begun, holds |-> seen[w]]

\* pg_dump, age and the insertion of the row succeed, or one of them fails.
\* What was recorded goes to the remote destination of the schedule, if it has
\* one, and the lock is held on.
EndDump(w) ==
    /\ at[w] = "dump"
    /\ \/ /\ backups' = backups \cup {Recorded(w)}
          /\ \E p \in {"upload", "mark"} : at' = [at EXCEPT ![w] = p]
       \/ /\ backups' = backups
          /\ at' = [at EXCEPT ![w] = "mark"]
    /\ seen' = [seen EXCEPT ![w] = {}]
    /\ UNCHANGED <<now, row, edits, ahead, holder, todo, running, change, served, back, restarts>>

\* The upload succeeds or fails; nothing bounds its time (SFTP has no timeout).
EndUpload(w) ==
    /\ at[w] = "upload"
    /\ at' = [at EXCEPT ![w] = "mark"]
    /\ UNCHANGED <<now, row, edits, ahead, holder, todo, running, seen, change, backups, served, back, restarts>>

EndApi ==
    /\ at["api"] = "dump"
    /\ backups' \in {backups, backups \cup {Recorded("api")}}
    /\ at' = [at EXCEPT !["api"] = "idle"]
    /\ seen' = [seen EXCEPT !["api"] = {}]
    /\ UNCHANGED <<now, row, edits, ahead, holder, todo, running, change, served, back, restarts>>

\* A snapshot gives the lock back once it is recorded, or failed: it is pushed
\* and the snapshots are rotated without it.
EndSnapshot(w) ==
    /\ at[w] = "dump"
    /\ \/ /\ backups' = backups \cup {Recorded(w)}
          /\ at' = [at EXCEPT ![w] = "push"]
       \/ /\ backups' = backups
          /\ at' = [at EXCEPT ![w] = "idle"]
    /\ holder' = Nobody
    /\ seen' = [seen EXCEPT ![w] = {}]
    /\ UNCHANGED <<now, row, edits, ahead, todo, running, change, served, back, restarts>>

\* A push that fails is an anomaly and the next destination is tried; only an
\* error of the database ends the tick.
PushSnapshot(w) ==
    /\ at[w] = "push"
    /\ \E p \in {"rotate", "idle"} : at' = [at EXCEPT ![w] = p]
    /\ UNCHANGED <<now, edits, row, ahead, holder, todo, running, seen, change, backups, served, back, restarts>>

\* What the rotation decides to drop: the snapshots past the retention of their
\* tier, none of them if nothing is.
Rotations == SUBSET backups

\* They are removed one after the other, and an error leaves the last of them.
RotateSnapshots(w) ==
    /\ at[w] = "rotate"
    /\ \E old \in Rotations : backups' = backups \ old
    /\ at' = [at EXCEPT ![w] = "idle"]
    /\ UNCHANGED <<now, edits, row, ahead, holder, todo, running, seen, change, served, back, restarts>>

\* The next run is computed from the expression read before the run, whatever
\* its result, and written if the row still exists.
Marked(d) ==
    IF Live(d.id)
    THEN [row EXCEPT ![d.id] = [life |-> "live", cron |-> row[d.id].cron,
                                enabled |-> row[d.id].enabled,
                                next |-> NextSlot(d.cron, now)]]
    ELSE row

Mark ==
    /\ at["loop"] = "mark" /\ Room
    /\ \E d \in running :
          /\ row' = Marked(d)
          /\ served' = served \cup {<<d.id, d.slot>>}
          /\ back' = back \ {<<d.id, d.slot>>}
    /\ running' = {}
    /\ IF todo = {} THEN Release("loop")
       ELSE holder' = holder /\ at' = [at EXCEPT !["loop"] = "ready"]
    /\ UNCHANGED <<now, edits, ahead, todo, seen, change, backups, restarts>>

\* A mistake: the error keeps the lock.
MarkFailsHolding ==
    /\ at["loop"] = "mark"
    /\ todo' = {}
    /\ running' = {}
    /\ at' = [at EXCEPT !["loop"] = "idle"]
    /\ UNCHANGED <<now, edits, row, ahead, holder, seen, change, backups, served, back, restarts>>

\* An error of the database leaves the tick, which is logged.
MarkFails ==
    /\ at["loop"] = "mark"
    /\ todo' = {}
    /\ running' = {}
    /\ Release("loop")
    /\ UNCHANGED <<now, edits, row, ahead, seen, change, backups, served, back, restarts>>

-----------------------------------------------------------------------------
(* What ends a worker from outside.                                         *)

\* restart() of the snapshot scheduler, when its policy is edited: its task is
\* cancelled wherever it is, and gives back a lock it holds.
SnapshotCancel ==
    /\ at["snapshot"] # "idle"
    /\ at' = [at EXCEPT !["snapshot"] = "idle"]
    /\ holder' = IF holder = "snapshot" THEN Nobody ELSE holder
    /\ seen' = [seen EXCEPT !["snapshot"] = {}]
    /\ LeaveQueue("snapshot")
    /\ UNCHANGED <<now, edits, row, todo, running, change, backups, served, back, restarts>>

\* A slot older than the threshold is not run after a restart.
IsMiss(s) == Live(s) /\ row[s].enabled /\ row[s].next + Threshold < now

Recalculated(missed) ==
    [s \in Schedules |->
        IF s \in missed
        THEN [life |-> "live", cron |-> row[s].cron, enabled |-> TRUE,
              next |-> NextSlot(row[s].cron, now)]
        ELSE row[s]]

\* The process comes back.  start() moves the missed schedules one by one; if
\* it fails, the application goes on without the loop until the next restart.
Restart ==
    /\ restarts < MaxRestarts
    /\ restarts' = restarts + 1
    /\ holder' = Nobody /\ ahead' = [w \in Workers |-> {}]
    /\ todo' = {} /\ running' = {} /\ edits' = {}
    /\ seen' = [w \in Dumpers |-> {}]
    /\ LET missed == {s \in Schedules : IsMiss(s)} IN
          \/ /\ row' = Recalculated(missed)
             /\ at' = [w \in Dumpers |-> "idle"]
          \/ /\ \E some \in SUBSET missed : row' = Recalculated(some)
             /\ at' = [w \in Dumpers |-> IF w = "loop" THEN "off" ELSE "idle"]
    /\ UNCHANGED <<now, change, backups, served, back>>

-----------------------------------------------------------------------------
(* The users, and the deletion of a backup, its file and its row, by an     *)
(* administrator.                                                           *)

Begin(c) ==
    /\ change[c] = "none"
    /\ change' = [change EXCEPT ![c] = "open"]
    /\ UNCHANGED <<now, edits, row, holder, ahead, at, todo, running, seen, backups, served, back, restarts>>

Commit(c) ==
    /\ change[c] = "open"
    /\ change' = [change EXCEPT ![c] = "done"]
    /\ UNCHANGED <<now, edits, row, holder, ahead, at, todo, running, seen, backups, served, back, restarts>>

DeleteBackup(b) ==
    /\ backups' = backups \ {b}
    /\ UNCHANGED <<now, edits, row, holder, ahead, at, todo, running, seen, change, served, back, restarts>>

-----------------------------------------------------------------------------
Edit ==
    \/ \E s \in Schedules : AskEdit(s) \/ SwitchSchedule(s) \/ DeleteSchedule(s)
    \/ \E e \in edits : CreateSchedule(e) \/ UpdateSchedule(e) \/ EditFails(e)
Manual(w) == Ask(w) \/ ManualStart(w) \/ ManualSkip(w) \/ ManualNotFound(w) \/ ManualMark(w)
Snapshot(w) ==
    Ask(w) \/ SnapshotStart(w) \/ EndSnapshot(w) \/ PushSnapshot(w) \/ RotateSnapshots(w)
Users == \E c \in Changes : Begin(c) \/ Commit(c)
Deletion == \E b \in backups : DeleteBackup(b)

Next ==
    \/ Clock \/ Edit \/ Users \/ Deletion
    \/ Tick \/ LoopStart \/ LoopSkip \/ Mark \/ MarkFails
    \/ \E w \in RunCalls : Manual(w)
    \/ \E w \in Scheduled : EndDump(w) \/ EndUpload(w)
    \/ \E w \in Snapshots : Snapshot(w)
    \/ SnapshotCancel
    \/ ApiStart \/ EndApi
    \/ \E w \in Workers : Acquire(w)
    \/ Restart

Spec == Init /\ [][Next]_vars

\* What a worker that has the lock does next.
LoopStep == LoopStart \/ LoopSkip
ManualStep(w) == ManualStart(w) \/ ManualSkip(w) \/ ManualNotFound(w) \/ ManualMark(w)

\* What the event loop and the database guarantee: a tick finds the lock free
\* some day, who waits for the lock or for a connection gets it in turn if it is
\* given back, an UPDATE succeeds some day.  Nothing is assumed of pg_dump, of an
\* upload, of a start of the loop or of who keeps a connection.
Fairness ==
    /\ SF_vars(Tick)
    /\ SF_vars(Mark)
    /\ SF_vars(LoopStep)
    /\ \A w \in Snapshots : WF_vars(SnapshotStart(w))
    /\ \A w \in RunCalls : SF_vars(ManualStep(w))
    /\ WF_vars(\E w \in Workers : Acquire(w))

FairSpec == Spec /\ Fairness

-----------------------------------------------------------------------------
(* Properties.                                                              *)

\* The state is well typed, and the loop takes one due row at a time, none
\* twice in a tick (_tick, _execute_schedule).
TypeOK ==
    /\ now \in Nat /\ restarts \in Nat
    /\ row \in [Schedules -> Row]
    /\ holder \in Workers \cup {Nobody} /\ ahead \in [Workers -> SUBSET Workers]
    /\ edits \subseteq EditRecord
    /\ at \in [Dumpers -> Doing]
    /\ todo \subseteq Due /\ running \subseteq Due
    /\ \A d, e \in todo \cup running : d.id = e.id => d = e
    /\ \A d, e \in running : d = e
    /\ todo \cap running = {}
    /\ seen \in [Dumpers -> SUBSET Changes]
    /\ change \in [Changes -> {"none", "open", "done"}]
    /\ backups \subseteq Backup
    /\ served \subseteq Schedules \X Nat /\ back \subseteq served

AtWork(w) == at[w] \in {"ready", "dump", "upload", "mark"}

\* The lock is held exactly by a worker between its acquisition and its
\* release: no error, cancellation or restart leaves it held by nobody, or
\* frees it under a worker (async with backup_lock).
LockHeldAtWork == \A w \in Workers : holder = w <=> AtWork(w)

\* Ticks, manual runs and snapshots never dump together (backup_lock.py).
OneDump == \A v, w \in Workers : at[v] = "dump" /\ at[w] = "dump" => v = w

\* A slot whose run was recorded is not run again, whatever was edited, restarted
\* or read late, unless an edit that had computed its next run before wrote that
\* slot after the record; then it runs once more and no more (mark_run,
\* compute_next_run, the miss policy).
SlotRunOnce == \A d \in running : <<d.id, d.slot>> \in served => <<d.id, d.slot>> \in back

\* What the code lets happen for ever: pg_dump or an upload hangs under the lock;
\* every connection is kept by someone, the snapshots that wait for the lock
\* included, and the one who has it waits for a connection; the loop did not
\* start.
Hangs == \E w \in Workers : <>[](at[w] \in {"dump", "upload"})
PoolStarved == <>[]~Room
LoopOff == <>[](at["loop"] = "off")

\* Short of these, an enabled schedule that is due is run or skipped and moved to
\* a later slot, unless an administrator disables or deletes it: no skip, error,
\* restart or edit leaves it due (_execute_schedule always moves next_run_at,
\* "sinon on boucle indefiniment").
DueIsSettled ==
    Hangs \/ PoolStarved \/ LoopOff \/ \A s \in Schedules : IsDue(s) ~> ~IsDue(s)

\* Short of the first two, a manual run that waits for the lock ends, whoever
\* takes it, fails or is cancelled (run_now).
RunNowEnds ==
    Hangs \/ PoolStarved \/ \A w \in RunCalls : at[w] = "queued" ~> at[w] = "idle"

\* What a run skips as "the equivalent of the previous backup" (run_schedule)
\* is in a backup file.  A change that was not committed when the last dump
\* started but was stamped before the dump was recorded, is not.
Skip == LoopSkip \/ \E w \in RunCalls : ManualSkip(w)
SkipMeansCovered == [][Skip => Committed \subseteq UNION {b.holds : b \in backups}]_vars

=============================================================================
