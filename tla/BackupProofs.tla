---------------------------- MODULE BackupProofs ----------------------------
(***************************************************************************)
(* Taking backups: the lock and the slots of the schedules, for any number  *)
(* of schedules, edits in progress, manual calls, snapshot triggers and     *)
(* changes, any periods and any length of execution.  Going back to one:    *)
(* what a node may take for the shared state of the cluster, and what a     *)
(* node that is older than a restoration may serve, for any number of       *)
(* nodes, refreshes, maintenance calls, backups and restorations.           *)
(***************************************************************************)
EXTENDS ScheduledBackups, ClusterState, TLAPS

-----------------------------------------------------------------------------
(* The scheduled backups *)

\* The next slot is in the future, and is a time.
LEMMA NextSlotIsLater ==
    ASSUME NEW c \in Crons, NEW t \in Nat
    PROVE  NextSlot(c, t) \in Nat /\ NextSlot(c, t) > t
BY PeriodAssumption DEF NextSlot

\* What the loop has in hand: nothing when it rests, one row while it runs one.
LoopHolds ==
    /\ at["loop"] \in {"off", "idle", "queued", "ready"} => running = {}
    /\ at["loop"] \in {"off", "idle"} => todo = {}

\* A slot in hand has come, and was not recorded since it was last written.
InHand(d) ==
    /\ d.slot <= now /\ row[d.id].life # "none"
    /\ <<d.id, d.slot>> \in served => <<d.id, d.slot>> \in back

\* What was recorded is over, and is not the next run of its schedule unless a
\* late edit wrote it again.
Over(s, t) ==
    /\ t <= now /\ row[s].life # "none"
    /\ Live(s) /\ row[s].next = t => <<s, t>> \in back

SlotsAhead ==
    /\ \A d \in todo \cup running : InHand(d)
    /\ \A s \in Schedules, t \in Nat : <<s, t>> \in served => Over(s, t)

Inv == TypeOK /\ LockHeldAtWork /\ LoopHolds /\ SlotsAhead

\* What the steps that leave the schedules alone do not touch.
schedules == <<now, edits, row, todo, running, change, served, back, restarts>>

-----------------------------------------------------------------------------
LEMMA InitInv == Init => Inv
<1> SUFFICES ASSUME Init PROVE Inv
  OBVIOUS
<1>1. NoRow \in Row
  <2>1. (CHOOSE c \in Crons : TRUE) \in Crons
    BY PeriodAssumption
  <2> QED BY <2>1 DEF NoRow, Row
<1>2. TypeOK
  BY <1>1 DEF Init, TypeOK, Dumpers, Workers, Doing
<1>3. LockHeldAtWork /\ LoopHolds /\ SlotsAhead
  BY WorkerAssumption DEF Init, LockHeldAtWork, AtWork, LoopHolds, SlotsAhead, Dumpers, Workers,
                          Scheduled, Snapshots
<1> QED BY <1>2, <1>3 DEF Inv

\* The names of the workers are not those of calls.
LEMMA Names ==
    /\ "loop" \in Workers /\ "snapshot" \in Workers /\ RunCalls \subseteq Workers
    /\ "loop" \in Scheduled /\ RunCalls \subseteq Scheduled
    /\ "snapshot" \in Snapshots /\ Snapshots \subseteq Workers /\ Scheduled \subseteq Workers
    /\ "api" \in Dumpers /\ Workers \subseteq Dumpers /\ "api" \notin Workers
    /\ "loop" \in Dumpers /\ Nobody \notin Workers
    /\ \A w \in RunCalls \cup Snapshots : w # "loop" /\ w # "api"
    /\ \A w \in Scheduled : w = "loop" \/ w \in RunCalls
BY WorkerAssumption DEF Workers, Dumpers, Scheduled, Snapshots

\* What the type says of the parts that move with the lock.
LEMMA Places ==
    ASSUME Inv
    PROVE  /\ at \in [Dumpers -> Doing] /\ holder \in Workers \cup {Nobody}
           /\ ahead \in [Workers -> SUBSET Workers]
           /\ seen \in [Dumpers -> SUBSET Changes] /\ backups \subseteq Backup
           /\ now \in Nat /\ row \in [Schedules -> Row] /\ restarts \in Nat
           /\ running \subseteq Due /\ todo \subseteq Due
BY DEF Inv, TypeOK

\* Taking, keeping and giving back the lock: a worker moves, the others do not.
LEMMA LockMoves ==
    ASSUME Inv, NEW w \in Workers, NEW p \in Doing,
           at' = [at EXCEPT ![w] = p],
           \/ holder = Nobody /\ holder' = w /\ p \in {"ready", "dump", "upload", "mark"}
           \/ ~AtWork(w) /\ holder' = holder /\ p \in {"off", "idle", "queued", "push", "rotate"}
           \/ AtWork(w) /\ holder' = holder /\ p \in {"ready", "dump", "upload", "mark"}
           \/ AtWork(w) /\ holder' = Nobody /\ p \in {"off", "idle", "queued", "push", "rotate"}
    PROVE  /\ LockHeldAtWork' /\ at' \in [Dumpers -> Doing] /\ holder' \in Workers \cup {Nobody}
           /\ at'[w] = p /\ \A v \in Dumpers : v # w => at'[v] = at[v]
<1>1. /\ at \in [Dumpers -> Doing]
      /\ holder \in Workers \cup {Nobody} /\ Nobody \notin Workers
      /\ \A v \in Workers : holder = v <=> AtWork(v)
      /\ Workers \subseteq Dumpers
  BY Names, Places DEF Inv, LockHeldAtWork
<1>2. at'[w] = p /\ \A v \in Dumpers : v # w => at'[v] = at[v]
  BY <1>1
<1>3. ASSUME NEW v \in Workers PROVE (holder' = v <=> AtWork(v)')
  <2>1. CASE v = w
    BY <2>1, <1>1, <1>2 DEF AtWork
  <2>2. CASE v # w
    BY <2>2, <1>1, <1>2 DEF AtWork
  <2> QED BY <2>1, <2>2
<1> QED BY <1>1, <1>2, <1>3 DEF LockHeldAtWork

\* Who waits for whom stays in its type.
LEMMA QueueTyped ==
    ASSUME Inv, NEW w \in Workers
    PROVE  /\ LeaveQueue(w) => ahead' \in [Workers -> SUBSET Workers]
           /\ Enter(w) => ahead' \in [Workers -> SUBSET Workers]
<1>1. ahead \in [Workers -> SUBSET Workers] /\ Queue \subseteq Workers
  BY Places DEF Queue
<1>2. ASSUME LeaveQueue(w) PROVE ahead' \in [Workers -> SUBSET Workers]
  BY <1>1, <1>2 DEF LeaveQueue
<1>3. ASSUME Enter(w) PROVE ahead' \in [Workers -> SUBSET Workers]
  BY <1>1, <1>3 DEF Enter
<1> QED BY <1>2, <1>3

\* What Enter does.
LEMMA EnterMoves ==
    ASSUME Inv, NEW w \in Workers, at[w] = "idle", Enter(w)
    PROVE  /\ LockHeldAtWork' /\ at' \in [Dumpers -> Doing] /\ holder' \in Workers \cup {Nobody}
           /\ ahead' \in [Workers -> SUBSET Workers]
           /\ at'[w] \in {"queued", "ready"}
           /\ \A v \in Dumpers : v # w => at'[v] = at[v]
<1>1. ahead' \in [Workers -> SUBSET Workers] /\ {"queued", "ready"} \subseteq Doing
  BY QueueTyped DEF Doing
<1>2. CASE holder = Nobody /\ holder' = w /\ at' = [at EXCEPT ![w] = "ready"]
  BY <1>1, <1>2, LockMoves
<1>3. CASE holder' = holder /\ at' = [at EXCEPT ![w] = "queued"]
  BY <1>1, <1>3, LockMoves DEF AtWork
<1> QED BY <1>2, <1>3 DEF Enter

\* A worker other than the loop moves and leaves the schedules alone.
LEMMA OthersMove ==
    ASSUME Inv, LockHeldAtWork', at' \in [Dumpers -> Doing], holder' \in Workers \cup {Nobody},
           ahead' \in [Workers -> SUBSET Workers], at'["loop"] = at["loop"],
           seen' \in [Dumpers -> SUBSET Changes], backups' \subseteq Backup,
           UNCHANGED schedules
    PROVE  Inv'
<1>1. TypeOK'
  BY DEF Inv, TypeOK, schedules
<1>2. LoopHolds' /\ SlotsAhead'
  BY DEF Inv, LoopHolds, SlotsAhead, InHand, Over, Live, schedules
<1> QED BY <1>1, <1>2 DEF Inv

\* The schedules are edited, or a restart misses slots: a row that is live keeps
\* its slot, waits for a later one than now, or for one that was written again.
LEMMA RowsMove ==
    ASSUME Inv, row' \in [Schedules -> Row], back \subseteq back',
           \A s \in Schedules : row[s].life # "none" => row'[s].life # "none",
           \A s \in Schedules : Live(s)' =>
              \/ Live(s) /\ row'[s].next = row[s].next
              \/ row'[s].next > now
              \/ <<s, row'[s].next>> \in served => <<s, row'[s].next>> \in back',
           UNCHANGED <<now, todo, running, served>>
    PROVE  SlotsAhead'
<1>1. now \in Nat /\ row \in [Schedules -> Row] /\ SlotsAhead /\ todo \cup running \subseteq Due
  BY Places DEF Inv
<1>2. ASSUME NEW s \in Schedules, NEW t \in Nat, <<s, t>> \in served PROVE Over(s, t)'
  <2>1. Over(s, t) /\ ~(t > now)
    BY <1>1, <1>2 DEF SlotsAhead, Over
  <2> QED BY <1>2, <2>1 DEF Over, Live
<1>3. ASSUME NEW d \in todo \cup running PROVE InHand(d)'
  BY <1>1, <1>3 DEF SlotsAhead, InHand, Due
<1> QED BY <1>1, <1>2, <1>3 DEF SlotsAhead

-----------------------------------------------------------------------------
\* The edits of an administrator.
LEMMA EditKeeps == ASSUME Inv, Edit PROVE Inv'
<1>1. now \in Nat /\ row \in [Schedules -> Row] /\ edits \subseteq EditRecord
      /\ back \subseteq served /\ served \subseteq Schedules \X Nat
  BY DEF Inv, TypeOK
<1> DEFINE Rest == UNCHANGED <<now, holder, ahead, at, todo, running, seen, change, backups,
                               served, restarts>>
           Kept == /\ row' \in [Schedules -> Row] /\ edits' \subseteq EditRecord
                   /\ back \subseteq back' /\ back' \subseteq served
                   /\ \A s \in Schedules : row[s].life # "none" => row'[s].life # "none"
                   /\ \A s \in Schedules : row'[s].life = "live" =>
                         \/ row[s].life = "live" /\ row'[s].next = row[s].next
                         \/ row'[s].next > now
                         \/ <<s, row'[s].next>> \in served => <<s, row'[s].next>> \in back'
<1>2. Rest /\ Kept
  <2>1. ASSUME NEW s \in Schedules, AskEdit(s) PROVE Rest /\ Kept
    <3>1. PICK c \in Crons : edits' = edits \cup {[id |-> s, cron |-> c, next |-> NextSlot(c, now)]}
      BY <2>1 DEF AskEdit
    <3>2. [id |-> s, cron |-> c, next |-> NextSlot(c, now)] \in EditRecord
      BY <1>1, NextSlotIsLater DEF EditRecord
    <3> QED BY <1>1, <2>1, <3>1, <3>2 DEF AskEdit
  <2>2. ASSUME NEW s \in Schedules, SwitchSchedule(s) PROVE Rest /\ Kept
    BY <1>1, <2>2 DEF SwitchSchedule, Live, Row
  <2>3. ASSUME NEW s \in Schedules, DeleteSchedule(s) PROVE Rest /\ Kept
    BY <1>1, <2>3 DEF DeleteSchedule, Live, Row
  <2>4. ASSUME NEW e \in edits, EditFails(e) PROVE Rest /\ Kept
    BY <1>1, <2>4 DEF EditFails
  <2>5. ASSUME NEW e \in edits, NEW on \in BOOLEAN, Edited(e, on)
        PROVE  /\ Rest /\ edits' \subseteq EditRecord /\ row' \in [Schedules -> Row]
               /\ e.id \in Schedules /\ row'[e.id].next = e.next /\ row'[e.id].life = "live"
               /\ \A s \in Schedules : s # e.id => row'[s] = row[s]
    BY <1>1, <2>5 DEF Edited, EditRecord, Row
  <2>6. ASSUME NEW e \in edits, CreateSchedule(e) PROVE Rest /\ Kept
    <3>1. PICK on \in BOOLEAN : Edited(e, on)
      BY <2>6 DEF CreateSchedule
    <3>2. row[e.id].life = "none" /\ back' = back
      BY <2>6 DEF CreateSchedule
    <3>3. e.id \in Schedules /\ e.next \in Nat
      BY <1>1 DEF EditRecord
    <3>4. <<e.id, e.next>> \notin served
      BY <3>2, <3>3 DEF Inv, SlotsAhead, Over
    <3> QED BY <1>1, <2>5, <3>1, <3>2, <3>4
  <2>7. ASSUME NEW e \in edits, UpdateSchedule(e) PROVE Rest /\ Kept
    <3>1. PICK on \in BOOLEAN : Edited(e, on)
      BY <2>7 DEF UpdateSchedule
    <3>2. back' = back \cup ({<<e.id, e.next>>} \cap served)
      BY <2>7 DEF UpdateSchedule
    <3> QED BY <1>1, <2>5, <3>1, <3>2
  <2> QED BY <2>1, <2>2, <2>3, <2>4, <2>6, <2>7 DEF Edit
<1>3. TypeOK'
  BY <1>2 DEF Inv, TypeOK
<1>4. LockHeldAtWork' /\ LoopHolds'
  BY <1>2 DEF Inv, LockHeldAtWork, AtWork, LoopHolds
<1>5. SlotsAhead'
  BY <1>2, RowsMove DEF Live
<1> QED BY <1>3, <1>4, <1>5 DEF Inv

\* The users, the deletion of backups and the clock.
LEMMA OutsideKeeps == ASSUME Inv, Users \/ Deletion \/ Clock PROVE Inv'
<1> USE DEF Inv
<1>1. CASE Users
  <2>1. /\ change' \in [Changes -> {"none", "open", "done"}]
        /\ UNCHANGED <<now, edits, row, holder, ahead, at, todo, running, seen, backups, served,
                       back, restarts>>
    BY <1>1 DEF Users, Begin, Commit, TypeOK
  <2> QED BY <2>1 DEF TypeOK, LockHeldAtWork, AtWork, LoopHolds, SlotsAhead, InHand, Over, Live
<1>2. CASE Deletion
  <2>1. /\ backups' \subseteq Backup
        /\ UNCHANGED <<now, edits, row, holder, ahead, at, todo, running, seen, change, served,
                       back, restarts>>
    BY <1>2 DEF Deletion, DeleteBackup, TypeOK
  <2> QED BY <2>1 DEF TypeOK, LockHeldAtWork, AtWork, LoopHolds, SlotsAhead, InHand, Over, Live
<1>3. CASE Clock
  <2>1. /\ now \in Nat /\ now' = now + 1
        /\ UNCHANGED <<edits, row, holder, ahead, at, todo, running, seen, change, backups, served,
                       back, restarts>>
    BY <1>3 DEF Clock, TypeOK
  <2>2. TypeOK' /\ LockHeldAtWork' /\ LoopHolds'
    BY <2>1 DEF TypeOK, LockHeldAtWork, AtWork, LoopHolds
  <2>3. SlotsAhead'
    BY <2>1 DEF TypeOK, SlotsAhead, InHand, Over, Live, Due
  <2> QED BY <2>2, <2>3
<1> QED BY <1>1, <1>2, <1>3

\* The lock is asked for.
LEMMA AskKeeps ==
    ASSUME Inv, NEW w \in Workers, (Ask(w) /\ w # "loop") \/ Acquire(w) PROVE Inv'
<1>1. w \in Dumpers /\ "loop" \in Dumpers
  BY Names
<1>2. /\ LockHeldAtWork' /\ at' \in [Dumpers -> Doing] /\ holder' \in Workers \cup {Nobody}
      /\ ahead' \in [Workers -> SUBSET Workers]
      /\ at'["loop"] = at["loop"] \/ (at["loop"] = "queued" /\ at'["loop"] = "ready")
      /\ UNCHANGED schedules /\ UNCHANGED <<seen, backups>>
  <2>1. CASE Ask(w) /\ w # "loop"
    BY <2>1, <1>1, EnterMoves DEF Ask, schedules
  <2>2. CASE Acquire(w)
    <3>1. /\ holder = Nobody /\ holder' = w /\ at[w] = "queued" /\ at' = [at EXCEPT ![w] = "ready"]
          /\ LeaveQueue(w) /\ UNCHANGED schedules /\ UNCHANGED <<seen, backups>>
      BY <2>2 DEF Acquire, schedules
    <3>2. "ready" \in Doing
      BY DEF Doing
    <3>3. /\ LockHeldAtWork' /\ at' \in [Dumpers -> Doing] /\ holder' \in Workers \cup {Nobody}
          /\ at'[w] = "ready" /\ \A v \in Dumpers : v # w => at'[v] = at[v]
      BY <3>1, <3>2, LockMoves
    <3>4. ahead' \in [Workers -> SUBSET Workers]
      BY <3>1, QueueTyped
    <3> QED BY <1>1, <3>1, <3>3, <3>4
  <2> QED BY <2>1, <2>2
<1>3. TypeOK'
  BY <1>2 DEF Inv, TypeOK, schedules
<1>4. LoopHolds' /\ SlotsAhead'
  BY <1>2 DEF Inv, LoopHolds, SlotsAhead, InHand, Over, Live, schedules
<1> QED BY <1>2, <1>3, <1>4 DEF Inv

\* The tick reads the due rows: their slots have come, and none is recorded
\* unless it was written again.
LEMMA TickKeeps == ASSUME Inv, Tick PROVE Inv'
<1>1. /\ at["loop"] = "idle" /\ Enter("loop") /\ running = {} /\ now \in Nat
      /\ todo' = {[id |-> s, cron |-> row[s].cron, slot |-> row[s].next] :
                   s \in {x \in Schedules : IsDue(x)}}
      /\ row \in [Schedules -> Row]
      /\ UNCHANGED <<now, edits, row, running, seen, change, backups, served, back, restarts>>
  BY DEF Tick, Inv, LoopHolds, TypeOK
<1>2. /\ LockHeldAtWork' /\ at' \in [Dumpers -> Doing] /\ holder' \in Workers \cup {Nobody}
      /\ ahead' \in [Workers -> SUBSET Workers]
      /\ at'["loop"] \in {"queued", "ready"}
  BY <1>1, EnterMoves, Names
<1>3. ASSUME NEW d \in todo'
      PROVE  \E s \in Schedules : /\ IsDue(s) /\ row[s].next \in Nat
                                  /\ d = [id |-> s, cron |-> row[s].cron, slot |-> row[s].next]
                                  /\ d \in Due
  BY <1>1, <1>3 DEF Due, Row
<1>4. TypeOK'
  <2>1. todo' \subseteq Due /\ \A d, e \in todo' : d.id = e.id => d = e
    BY <1>3
  <2> QED BY <1>1, <1>2, <2>1 DEF Inv, TypeOK
<1>5. ASSUME NEW d \in todo' PROVE InHand(d)
  <2>1. PICK s \in Schedules : /\ IsDue(s) /\ row[s].next \in Nat
                              /\ d = [id |-> s, cron |-> row[s].cron, slot |-> row[s].next]
    BY <1>3, <1>5
  <2>2. d.id = s /\ d.slot = row[s].next /\ Live(s) /\ row[s].next <= now
    BY <2>1 DEF IsDue
  <2>3. <<s, row[s].next>> \in served => <<s, row[s].next>> \in back
    BY <2>1, <2>2 DEF Inv, SlotsAhead, Over
  <2> QED BY <2>2, <2>3 DEF InHand, Live
<1>6. LoopHolds'
  BY <1>1, <1>2 DEF LoopHolds
<1>7. SlotsAhead'
  BY <1>1, <1>5 DEF Inv, SlotsAhead, InHand, Over, Live
<1> QED BY <1>2, <1>4, <1>6, <1>7 DEF Inv

\* The loop takes a row: it leaves the list, and stays apart from the others.
LEMMA LoopTakes ==
    ASSUME Inv, at["loop"] = "ready", NEW d \in todo,
           todo' = todo \ {d}, running' = {d},
           NEW p \in {"dump", "mark"}, at' = [at EXCEPT !["loop"] = p],
           seen' \in [Dumpers -> SUBSET Changes],
           UNCHANGED <<now, edits, row, holder, ahead, change, backups, served, back, restarts>>
    PROVE  Inv'
<1>1. /\ LockHeldAtWork' /\ at' \in [Dumpers -> Doing]
      /\ at'["loop"] = p
  BY LockMoves, Names DEF AtWork, Doing
<1>2. TypeOK'
  BY <1>1 DEF Inv, TypeOK
<1>3. LoopHolds'
  BY <1>1 DEF LoopHolds
<1>4. SlotsAhead'
  BY DEF Inv, SlotsAhead, InHand, Over, Live
<1> QED BY <1>1, <1>2, <1>3, <1>4 DEF Inv

\* What a dump that starts sees.
LEMMA SeenTyped ==
    ASSUME Inv, NEW w \in Dumpers, seen' = [seen EXCEPT ![w] = Committed]
    PROVE  seen' \in [Dumpers -> SUBSET Changes]
BY DEF Inv, TypeOK, Committed

LEMMA LoopRunKeeps == ASSUME Inv, LoopStart \/ LoopSkip PROVE Inv'
<1>1. CASE LoopStart
  <2>1. PICK d \in todo : todo' = todo \ {d} /\ running' = {d}
    BY <1>1 DEF LoopStart
  <2>2. /\ at["loop"] = "ready" /\ at' = [at EXCEPT !["loop"] = "dump"]
        /\ seen' = [seen EXCEPT !["loop"] = Committed]
        /\ UNCHANGED <<now, edits, row, holder, ahead, change, backups, served, back, restarts>>
    BY <1>1 DEF LoopStart, StartDump
  <2>3. seen' \in [Dumpers -> SUBSET Changes]
    BY <2>2, SeenTyped, Names
  <2> QED BY <2>1, <2>2, <2>3, LoopTakes
<1>2. CASE LoopSkip
  <2>1. PICK d \in todo : todo' = todo \ {d} /\ running' = {d}
    BY <1>2 DEF LoopSkip
  <2>2. /\ at["loop"] = "ready" /\ at' = [at EXCEPT !["loop"] = "mark"]
        /\ seen' = seen
        /\ UNCHANGED <<now, edits, row, holder, ahead, change, backups, served, back, restarts>>
    BY <1>2 DEF LoopSkip
  <2>3. seen' \in [Dumpers -> SUBSET Changes]
    BY <2>2, Places
  <2> QED BY <2>1, <2>2, <2>3, LoopTakes
<1> QED BY <1>1, <1>2

\* A worker other than the loop that has the lock starts a dump; an API backup
\* starts without it.
LEMMA OthersStart ==
    ASSUME Inv, NEW w \in Dumpers, w # "loop",
           \/ ManualStart(w) /\ w \in RunCalls
           \/ SnapshotStart(w) /\ w \in Snapshots
           \/ ApiStart /\ w = "api"
    PROVE  Inv'
<1>1. /\ w \in Workers => at[w] = "ready"
      /\ at' = [at EXCEPT ![w] = "dump"] /\ seen' = [seen EXCEPT ![w] = Committed]
      /\ UNCHANGED schedules /\ UNCHANGED <<holder, ahead, backups>>
  BY Names DEF ManualStart, SnapshotStart, ApiStart, StartDump, schedules
<1>2. at \in [Dumpers -> Doing] /\ "loop" \in Dumpers /\ "dump" \in Doing
  BY Names, Places DEF Doing
<1>3. /\ at' \in [Dumpers -> Doing]
      /\ at'["loop"] = at["loop"] /\ \A v \in Dumpers : v # w => at'[v] = at[v]
  BY <1>1, <1>2
<1>4. LockHeldAtWork'
  <2>1. CASE w \in Workers
    BY <1>1, <1>2, <2>1, LockMoves DEF AtWork
  <2>2. CASE w \notin Workers
    BY <1>1, <1>3, <2>2, Names DEF Inv, LockHeldAtWork, AtWork
  <2> QED BY <2>1, <2>2
<1>5. seen' \in [Dumpers -> SUBSET Changes]
  BY <1>1, SeenTyped
<1>6. backups' \subseteq Backup /\ holder' \in Workers \cup {Nobody}
      /\ ahead' \in [Workers -> SUBSET Workers]
  BY <1>1, Places
<1> QED BY <1>1, <1>3, <1>4, <1>5, <1>6, OthersMove

\* A manual run that is skipped keeps the lock until it is recorded; one that
\* ends or does not find its schedule gives it back.
LEMMA ManualGoesOn ==
    ASSUME Inv, NEW w \in RunCalls, ManualSkip(w) \/ ManualNotFound(w) \/ ManualMark(w)
    PROVE  Inv'
<1>1. /\ AtWork(w) /\ UNCHANGED schedules /\ UNCHANGED <<ahead, seen, backups>>
      /\ \/ at' = [at EXCEPT ![w] = "idle"] /\ holder' = Nobody
         \/ at' = [at EXCEPT ![w] = "mark"] /\ holder' = holder
  BY DEF ManualSkip, ManualNotFound, ManualMark, Release, AtWork, schedules
<1>2. {"idle", "mark"} \subseteq Doing /\ w \in Workers /\ w # "loop"
  BY Names DEF Doing
<1>3. /\ LockHeldAtWork' /\ at' \in [Dumpers -> Doing] /\ holder' \in Workers \cup {Nobody}
      /\ \A v \in Dumpers : v # w => at'[v] = at[v]
  BY <1>1, <1>2, LockMoves
<1>4. at'["loop"] = at["loop"]
  BY <1>2, <1>3, Names
<1>5. seen' \in [Dumpers -> SUBSET Changes] /\ backups' \subseteq Backup
      /\ ahead' \in [Workers -> SUBSET Workers]
  BY <1>1, Places
<1> QED BY <1>1, <1>3, <1>4, <1>5, OthersMove

\* What is recorded at the end of a dump.
LEMMA RecordTyped ==
    ASSUME Inv, NEW w \in Dumpers,
           backups' = backups \cup {Recorded(w)} \/ backups' = backups,
           seen' = [seen EXCEPT ![w] = {}]
    PROVE  backups' \subseteq Backup /\ seen' \in [Dumpers -> SUBSET Changes]
<1>1. seen \in [Dumpers -> SUBSET Changes] /\ backups \subseteq Backup
  BY Places
<1>2. Recorded(w) \in Backup
  BY <1>1 DEF Recorded, Begun, Backup
<1> QED BY <1>1, <1>2

\* A dump or an upload of a schedule ends, and the lock is held on.
LEMMA EndRunKeeps ==
    ASSUME Inv, NEW w \in Scheduled, EndDump(w) \/ EndUpload(w) PROVE Inv'
<1>1. /\ at[w] \in {"dump", "upload"}
      /\ UNCHANGED schedules /\ UNCHANGED <<holder, ahead>>
  BY DEF EndDump, EndUpload, schedules
<1>2. PICK p \in {"upload", "mark"} : at' = [at EXCEPT ![w] = p]
  BY DEF EndDump, EndUpload
<1>3. backups' \subseteq Backup /\ seen' \in [Dumpers -> SUBSET Changes]
  <2>1. CASE EndDump(w)
    BY <2>1, RecordTyped, Names DEF EndDump
  <2>2. CASE EndUpload(w)
    BY <2>2, Places DEF EndUpload
  <2> QED BY <2>1, <2>2
<1>4. /\ LockHeldAtWork' /\ at' \in [Dumpers -> Doing] /\ holder' \in Workers \cup {Nobody}
      /\ at'[w] = p /\ \A v \in Dumpers : v # w => at'[v] = at[v]
  <2>1. w \in Workers /\ AtWork(w) /\ p \in Doing
    BY <1>1, Names DEF AtWork, Doing
  <2> QED BY <1>1, <1>2, <2>1, LockMoves
<1>5. at'["loop"] = at["loop"] \/ at'["loop"] \in {"upload", "mark"}
  BY <1>4, Names
<1>6. TypeOK'
  BY <1>1, <1>3, <1>4 DEF Inv, TypeOK, schedules
<1>7. LoopHolds' /\ SlotsAhead'
  BY <1>1, <1>5 DEF Inv, LoopHolds, SlotsAhead, InHand, Over, Live, schedules
<1> QED BY <1>4, <1>6, <1>7 DEF Inv

\* An API backup never had the lock.
LEMMA EndApiKeeps == ASSUME Inv, EndApi PROVE Inv'
<1>1. /\ at' = [at EXCEPT !["api"] = "idle"] /\ UNCHANGED schedules
      /\ UNCHANGED <<holder, ahead>>
  BY DEF EndApi, schedules
<1>2. backups' \subseteq Backup /\ seen' \in [Dumpers -> SUBSET Changes]
  BY RecordTyped, Names DEF EndApi
<1>3. /\ at' \in [Dumpers -> Doing] /\ \A v \in Workers : at'[v] = at[v]
      /\ holder' \in Workers \cup {Nobody} /\ ahead' \in [Workers -> SUBSET Workers]
  BY <1>1, Names, Places DEF Doing
<1>4. LockHeldAtWork' /\ at'["loop"] = at["loop"]
  BY <1>1, <1>3, Names DEF Inv, LockHeldAtWork, AtWork
<1> QED BY <1>1, <1>2, <1>3, <1>4, OthersMove

\* A snapshot that ends gives the lock back, and what it does next needs none.
LEMMA EndSnapshotKeeps == ASSUME Inv, NEW w \in Snapshots, EndSnapshot(w) PROVE Inv'
<1>1. /\ at[w] = "dump" /\ holder' = Nobody
      /\ backups' = backups \cup {Recorded(w)} \/ backups' = backups
      /\ seen' = [seen EXCEPT ![w] = {}]
      /\ UNCHANGED schedules /\ UNCHANGED ahead
  BY DEF EndSnapshot, schedules
<1>2. PICK p \in {"push", "idle"} : at' = [at EXCEPT ![w] = p]
  BY DEF EndSnapshot
<1>3. w \in Workers /\ AtWork(w) /\ p \in Doing /\ w # "loop"
  BY <1>1, Names DEF AtWork, Doing
<1>4. /\ LockHeldAtWork' /\ holder' \in Workers \cup {Nobody} /\ at' \in [Dumpers -> Doing]
      /\ \A v \in Dumpers : v # w => at'[v] = at[v]
  BY <1>1, <1>2, <1>3, LockMoves
<1>5. backups' \subseteq Backup /\ seen' \in [Dumpers -> SUBSET Changes]
      /\ ahead' \in [Workers -> SUBSET Workers]
  BY <1>1, <1>3, RecordTyped, Names, Places
<1> QED BY <1>1, <1>3, <1>4, <1>5, OthersMove, Names

\* It is pushed and rotated without the lock.
LEMMA SnapshotGoesOn ==
    ASSUME Inv, NEW w \in Snapshots, PushSnapshot(w) \/ RotateSnapshots(w) PROVE Inv'
<1>1. /\ ~AtWork(w) /\ holder' = holder /\ backups' \subseteq backups
      /\ UNCHANGED schedules /\ UNCHANGED <<ahead, seen>>
  BY DEF PushSnapshot, RotateSnapshots, AtWork, schedules
<1>2. PICK p \in {"rotate", "idle"} : at' = [at EXCEPT ![w] = p]
  BY DEF PushSnapshot, RotateSnapshots
<1>3. w \in Workers /\ p \in Doing /\ w # "loop"
  BY Names DEF Doing
<1>4. /\ LockHeldAtWork' /\ holder' \in Workers \cup {Nobody} /\ at' \in [Dumpers -> Doing]
      /\ \A v \in Dumpers : v # w => at'[v] = at[v]
  BY <1>1, <1>2, <1>3, LockMoves
<1>5. backups' \subseteq Backup /\ seen' \in [Dumpers -> SUBSET Changes]
      /\ ahead' \in [Workers -> SUBSET Workers]
  BY <1>1, Places
<1> QED BY <1>1, <1>3, <1>4, <1>5, OthersMove, Names

\* The run of d is recorded: its slot has come, so the next one, computed from
\* the time of the record, is later; the other rows in hand are other schedules.
LEMMA MarkKeeps == ASSUME Inv, Mark PROVE Inv'
<1>0. /\ at["loop"] = "mark" /\ now \in Nat /\ row \in [Schedules -> Row] /\ running \subseteq Due
      /\ todo \subseteq Due
  BY Places DEF Mark
<1>1. PICK d \in running : /\ row' = Marked(d) /\ served' = served \cup {<<d.id, d.slot>>}
                           /\ back' = back \ {<<d.id, d.slot>>}
  BY DEF Mark
<1>2. /\ running' = {} /\ UNCHANGED <<now, edits, ahead, todo, seen, change, backups, restarts>>
      /\ \/ todo = {} /\ holder' = Nobody /\ at' = [at EXCEPT !["loop"] = "idle"]
         \/ todo # {} /\ holder' = holder /\ at' = [at EXCEPT !["loop"] = "ready"]
  BY DEF Mark, Release
<1>3. /\ d.id \in Schedules /\ d.cron \in Crons /\ d.slot \in Nat /\ d.slot <= now
      /\ row[d.id].life # "none"
  BY <1>0 DEF Due, Inv, SlotsAhead, InHand
<1>4. NextSlot(d.cron, now) \in Nat /\ NextSlot(d.cron, now) > now
  BY <1>0, <1>3, NextSlotIsLater
<1>5. /\ row' \in [Schedules -> Row]
      /\ \A s \in Schedules : row'[s].life = row[s].life
      /\ \A s \in Schedules : s # d.id => row'[s] = row[s]
      /\ Live(d.id)' => row'[d.id].next > now
  BY <1>0, <1>1, <1>3, <1>4 DEF Marked, Live, Row
<1>6. /\ LockHeldAtWork' /\ holder' \in Workers \cup {Nobody} /\ at' \in [Dumpers -> Doing]
      /\ (todo = {} /\ at'["loop"] = "idle") \/ (todo # {} /\ at'["loop"] = "ready")
  <2>1. CASE todo = {} /\ holder' = Nobody /\ at' = [at EXCEPT !["loop"] = "idle"]
    BY <1>0, <2>1, LockMoves, Names DEF AtWork, Doing
  <2>2. CASE todo # {} /\ holder' = holder /\ at' = [at EXCEPT !["loop"] = "ready"]
    BY <1>0, <2>2, LockMoves, Names DEF AtWork, Doing
  <2> QED BY <1>2, <2>1, <2>2
<1>7. TypeOK'
  <2>1. served' \subseteq Schedules \X Nat /\ back' \subseteq served'
    BY <1>1, <1>3 DEF Inv, TypeOK
  <2> QED BY <1>2, <1>5, <1>6, <2>1 DEF Inv, TypeOK
<1>8. LoopHolds'
  BY <1>2, <1>6 DEF LoopHolds
<1>9. ASSUME NEW e \in todo PROVE InHand(e)'
  <2>1. e # d /\ e.id # d.id /\ e.id \in Schedules
    BY <1>0, <1>9 DEF Inv, TypeOK, Due
  <2>2. InHand(e)
    BY <1>9 DEF Inv, SlotsAhead
  <2> QED BY <1>1, <1>2, <1>5, <2>1, <2>2 DEF InHand
<1>10. ASSUME NEW s \in Schedules, NEW u \in Nat, <<s, u>> \in served' PROVE Over(s, u)'
  <2>1. CASE s = d.id
    <3>1. u <= now /\ row'[s].life # "none"
      BY <1>1, <1>3, <1>5, <1>10, <2>1 DEF Inv, SlotsAhead, Over
    <3>2. ASSUME Live(s)' PROVE row'[s].next # u
      BY <1>0, <1>5, <2>1, <3>1, <3>2
    <3> QED BY <1>2, <3>1, <3>2 DEF Over
  <2>2. CASE s # d.id
    <3>1. Over(s, u)
      BY <1>1, <1>10, <2>2 DEF Inv, SlotsAhead
    <3> QED BY <1>1, <1>2, <1>5, <2>2, <3>1 DEF Over, Live
  <2> QED BY <2>1, <2>2
<1>11. SlotsAhead'
  BY <1>2, <1>9, <1>10 DEF SlotsAhead
<1> QED BY <1>6, <1>7, <1>8, <1>11 DEF Inv

LEMMA MarkFailsKeeps == ASSUME Inv, MarkFails PROVE Inv'
<1>1. /\ at["loop"] = "mark" /\ todo' = {} /\ running' = {}
      /\ holder' = Nobody /\ at' = [at EXCEPT !["loop"] = "idle"]
      /\ UNCHANGED <<now, edits, row, ahead, seen, change, backups, served, back, restarts>>
  BY DEF MarkFails, Release
<1>2. /\ LockHeldAtWork' /\ holder' \in Workers \cup {Nobody} /\ at' \in [Dumpers -> Doing]
  BY <1>1, LockMoves, Names DEF AtWork, Doing
<1>3. TypeOK'
  BY <1>1, <1>2 DEF Inv, TypeOK
<1>4. LoopHolds'
  BY <1>1 DEF LoopHolds
<1>5. SlotsAhead'
  BY <1>1 DEF Inv, SlotsAhead, InHand, Over, Live
<1> QED BY <1>2, <1>3, <1>4, <1>5 DEF Inv

\* A cancelled snapshot frees the lock only if it has it.
LEMMA SnapshotCancelKeeps == ASSUME Inv, SnapshotCancel PROVE Inv'
<1>1. /\ at' = [at EXCEPT !["snapshot"] = "idle"] /\ LeaveQueue("snapshot")
      /\ holder' = IF holder = "snapshot" THEN Nobody ELSE holder
      /\ seen' = [seen EXCEPT !["snapshot"] = {}]
      /\ UNCHANGED schedules /\ UNCHANGED backups
  BY DEF SnapshotCancel, schedules
<1>2. "snapshot" \in Workers /\ "snapshot" # "loop" /\ "idle" \in Doing
  BY Names DEF Doing
<1>3. AtWork("snapshot") <=> holder = "snapshot"
  BY <1>2 DEF Inv, LockHeldAtWork
<1>4. /\ LockHeldAtWork' /\ holder' \in Workers \cup {Nobody} /\ at' \in [Dumpers -> Doing]
      /\ \A v \in Dumpers : v # "snapshot" => at'[v] = at[v]
  BY <1>1, <1>2, <1>3, LockMoves
<1>5. seen' \in [Dumpers -> SUBSET Changes] /\ backups' \subseteq Backup
      /\ ahead' \in [Workers -> SUBSET Workers]
  BY <1>1, <1>2, QueueTyped, Places
<1> QED BY <1>1, <1>4, <1>5, OthersMove, Names

\* A restart empties the hands of everyone; the schedules it moves wait for a
\* later slot than now.
LEMMA RestartKeeps == ASSUME Inv, Restart PROVE Inv'
<1>0. now \in Nat /\ row \in [Schedules -> Row] /\ restarts \in Nat
  BY Places
<1>1. /\ holder' = Nobody /\ ahead' = [w \in Workers |-> {}]
      /\ todo' = {} /\ running' = {} /\ edits' = {}
      /\ seen' = [w \in Dumpers |-> {}] /\ restarts' = restarts + 1
      /\ UNCHANGED <<now, change, backups, served, back>>
  BY DEF Restart
<1>2. /\ at' \in [Dumpers -> {"off", "idle"}] /\ at' \in [Dumpers -> Doing]
  BY DEF Restart, Doing
<1>3. PICK some \in SUBSET {s \in Schedules : IsMiss(s)} : row' = Recalculated(some)
  BY DEF Restart
<1>4. ASSUME NEW s \in Schedules
      PROVE  /\ row'[s] \in Row
             /\ row[s].life # "none" => row'[s].life # "none"
             /\ Live(s)' => \/ Live(s) /\ row'[s].next = row[s].next
                            \/ row'[s].next > now
  <2>1. row'[s] = IF s \in some
                  THEN [life |-> "live", cron |-> row[s].cron, enabled |-> TRUE,
                        next |-> NextSlot(row[s].cron, now)]
                  ELSE row[s]
    BY <1>3 DEF Recalculated
  <2>2. row[s] \in Row /\ row[s].cron \in Crons
    BY <1>0 DEF Row
  <2>3. NextSlot(row[s].cron, now) \in Nat /\ NextSlot(row[s].cron, now) > now
    BY <1>0, <2>2, NextSlotIsLater
  <2> QED BY <2>1, <2>2, <2>3 DEF Row, Live
<1>5. row' \in [Schedules -> Row]
  BY <1>3, <1>4 DEF Recalculated
<1>6. TypeOK'
  BY <1>0, <1>1, <1>2, <1>5 DEF Inv, TypeOK
<1>7. LockHeldAtWork' /\ LoopHolds'
  <2>1. \A w \in Workers : at'[w] \in {"off", "idle"} /\ w # Nobody
    BY <1>2, Names
  <2> QED BY <1>1, <2>1 DEF LockHeldAtWork, AtWork, LoopHolds
<1>8. ASSUME NEW s \in Schedules, NEW t \in Nat, <<s, t>> \in served PROVE Over(s, t)'
  <2>1. Over(s, t) /\ ~(t > now)
    BY <1>0, <1>8 DEF Inv, SlotsAhead, Over
  <2> QED BY <1>1, <1>4, <2>1 DEF Over, Live
<1>9. SlotsAhead'
  BY <1>1, <1>8 DEF SlotsAhead
<1> QED BY <1>6, <1>7, <1>9 DEF Inv

-----------------------------------------------------------------------------
LEMMA StepInv == Inv /\ [Next]_vars => Inv'
<1> SUFFICES ASSUME Inv, [Next]_vars PROVE Inv'
  OBVIOUS
<1>1. CASE Clock \/ Edit \/ Users \/ Deletion
  BY <1>1, EditKeeps, OutsideKeeps
<1>2. CASE Tick \/ LoopStart \/ LoopSkip \/ Mark \/ MarkFails
  BY <1>2, TickKeeps, LoopRunKeeps, MarkKeeps, MarkFailsKeeps
<1>3. ASSUME NEW w \in RunCalls, Manual(w) PROVE Inv'
  <2>1. w \in Workers /\ w \in Dumpers /\ w # "loop"
    BY Names
  <2>2. CASE Ask(w)
    BY <2>1, <2>2, AskKeeps
  <2>3. CASE ManualStart(w)
    BY <2>1, <2>3, OthersStart
  <2>4. CASE ManualSkip(w) \/ ManualNotFound(w) \/ ManualMark(w)
    BY <2>4, ManualGoesOn
  <2> QED BY <1>3, <2>2, <2>3, <2>4 DEF Manual
<1>4. ASSUME NEW w \in Snapshots, Snapshot(w) PROVE Inv'
  <2>1. w \in Workers /\ w \in Dumpers /\ w # "loop"
    BY Names
  <2>2. CASE Ask(w)
    BY <2>1, <2>2, AskKeeps
  <2>3. CASE SnapshotStart(w)
    BY <2>1, <2>3, OthersStart
  <2> QED BY <1>4, <2>2, <2>3, EndSnapshotKeeps, SnapshotGoesOn DEF Snapshot
<1>5. CASE ApiStart
  BY <1>5, Names, OthersStart
<1>6. ASSUME NEW w \in Workers, Acquire(w) PROVE Inv'
  BY <1>6, AskKeeps
<1>7. ASSUME NEW w \in Scheduled, EndDump(w) \/ EndUpload(w) PROVE Inv'
  BY <1>7, EndRunKeeps
<1>8. CASE SnapshotCancel \/ EndApi \/ Restart
  BY <1>8, SnapshotCancelKeeps, EndApiKeeps, RestartKeeps
<1>9. CASE UNCHANGED vars
  BY <1>9 DEF vars, Inv, TypeOK, LockHeldAtWork, AtWork, LoopHolds, SlotsAhead, InHand, Over, Live
<1> QED BY <1>1, <1>2, <1>3, <1>4, <1>5, <1>6, <1>7, <1>8, <1>9 DEF Next

\* The strengthened invariant: the lock is held exactly by who works, and the next
\* run of a schedule is none of the recorded ones, but what a late edit wrote.
THEOREM Invariance == Spec => []Inv
BY InitInv, StepInv, PTL DEF Spec

\* Any execution is well typed (scheduled_backups_scheduler.py).
THEOREM TypeCorrect == Spec => []TypeOK
<1>1. Inv => TypeOK
  BY DEF Inv
<1> QED BY <1>1, Invariance, PTL

\* The lock of backup_lock.py is held exactly by who works: no error, no
\* cancellation and no restart leaks it.
THEOREM LockNeverLeaks == Spec => []LockHeldAtWork
<1>1. Inv => LockHeldAtWork
  BY DEF Inv
<1> QED BY <1>1, Invariance, PTL

\* So two of them never dump together.
THEOREM DumpsAlone == Spec => []OneDump
<1>1. Inv => OneDump
  BY DEF Inv, LockHeldAtWork, AtWork, OneDump
<1> QED BY <1>1, Invariance, PTL

\* A slot that mark_run recorded runs again only if an edit that had computed it
\* before wrote it after the record, and then once.
THEOREM SlotsRunOnce == Spec => []SlotRunOnce
<1>1. Inv => SlotRunOnce
  BY DEF Inv, SlotsAhead, InHand, SlotRunOnce
<1> QED BY <1>1, Invariance, PTL

-----------------------------------------------------------------------------
(* The shared state of a cluster: the inductive invariant *)

Rows == [readable : BOOLEAN, epoch : Nat, maint : Nat, listed : SUBSET Backups]
Dumped == [epoch : Nat, maint : Nat, listed : SUBSET Backups]
Half == [step : {"half"}, epoch : Nat, synced : Nat]
Read == [step : {"read"}, epoch : Nat, synced : Nat, maint : Nat]
Compare == [step : {"compare"}, epoch : Nat, seen : Nat]
Restoring == [step : {"dropped", "empty", "epoch", "filled", "rotated", "failed"},
              backup : Backups]

Types ==
    /\ db \in Rows
    /\ dump \in [Backups -> Dumped \cup {NoDump}]
    /\ restore \in Restoring \cup {NoRestore}
    /\ ram \in [Nodes -> [epoch : Nat, maint : Nat, synced : Nat]]
    /\ refresh \in [Nodes -> [Slots -> Half \cup Read \cup {NoRefresh}]]
    /\ admin \in [Admins -> [node : Nodes, maint : Nat] \cup {NoAdmin}]
    /\ req \in [Nodes -> Compare \cup {NoRequest}]
    /\ up \subseteq Nodes
    /\ writes \in Nat /\ rotations \in Nat

\* A backup that a row lists, or that is being restored, has been dumped.
ListedAreDumped ==
    /\ \A b \in db.listed : dump[b] # NoDump
    /\ \A d \in Backups : \A b \in dump[d].listed : dump[b] # NoDump
    /\ restore # NoRestore => dump[restore.backup] # NoDump

\* Wherever a maintenance mode lies, a transaction committed it.
AllCommitted ==
    /\ Off \in committed
    /\ db.maint \in committed
    /\ \A b \in Backups : dump[b] # NoDump => dump[b].maint \in committed
    /\ \A n \in Nodes, t \in Slots : refresh[n][t].step = "read" => refresh[n][t].maint \in committed
    /\ \A a \in Admins : admin[a] # NoAdmin => admin[a].maint \in committed
    /\ MirrorsCommitted

\* An epoch is at most the number of rotations at the time when it was read.
EpochsAreOld ==
    /\ db.epoch <= rotations
    /\ \A b \in Backups : dump[b] # NoDump => dump[b].epoch <= rotations
    /\ \A n \in Nodes : ram[n].epoch <= ram[n].synced
    /\ \A n \in Nodes, t \in Slots :
          refresh[n][t].step \in {"half", "read"} => refresh[n][t].epoch <= refresh[n][t].synced

\* As long as no rotation gave an epoch again, that of a whole database counts
\* them, and so does the one that a request was admitted with.
EpochsCount ==
    ~rewound =>
      /\ Whole => db.epoch >= rotations
      /\ \A n \in Nodes : req[n].step = "compare" => req[n].epoch >= req[n].seen

ClusterInv == Types /\ ListedAreDumped /\ AllCommitted /\ EpochsAreOld /\ EpochsCount /\ StaleNodeRefuses

LEMMA InitClusterInv == ClusterInit => ClusterInv
<1> SUFFICES ASSUME ClusterInit PROVE ClusterInv
  OBVIOUS
<1>1. Types
  BY DEF ClusterInit, Types, Rows, Blank, Off
<1>2. ListedAreDumped
  BY DEF ClusterInit, ListedAreDumped, NoDump, NoRestore
<1>3. AllCommitted
  BY DEF ClusterInit, AllCommitted, MirrorsCommitted, NoRefresh, Blank, Off
<1>4. EpochsAreOld /\ EpochsCount /\ StaleNodeRefuses
  BY DEF ClusterInit, EpochsAreOld, EpochsCount, StaleNodeRefuses, Blank, NoRefresh, NoRequest
<1> QED BY <1>1, <1>2, <1>3, <1>4 DEF ClusterInv

-----------------------------------------------------------------------------
(* The nodes: the shared rows, the dumps and the restoration stay *)

LEMMA SharedStays ==
    ASSUME ClusterInv, UNCHANGED <<shared, committed, rotations>>, rewound' = rewound, Types',
           (\A n \in Nodes : /\ ram'[n].maint \in committed
                             /\ ram'[n].epoch <= ram'[n].synced),
           (\A n \in Nodes, t \in Slots :
              /\ refresh'[n][t].step = "read" => refresh'[n][t].maint \in committed
              /\ refresh'[n][t].step \in {"half", "read"} =>
                   refresh'[n][t].epoch <= refresh'[n][t].synced),
           (\A a \in Admins : admin'[a] # NoAdmin => admin'[a].maint \in committed),
           (\A n \in Nodes : ~rewound /\ req'[n].step = "compare" => req'[n].epoch >= req'[n].seen),
           "compared" \in stale' => rewound
    PROVE  ClusterInv'
<1>1. UNCHANGED <<db, dump, restore>>
  BY DEF shared
<1>2. ListedAreDumped'
  BY <1>1 DEF ClusterInv, ListedAreDumped
<1>3. AllCommitted'
  BY <1>1 DEF ClusterInv, AllCommitted, MirrorsCommitted
<1>4. EpochsAreOld'
  BY <1>1 DEF ClusterInv, EpochsAreOld
<1>5. EpochsCount'
  BY <1>1 DEF ClusterInv, EpochsCount, Whole, InRestore
<1>6. StaleNodeRefuses'
  BY DEF StaleNodeRefuses
<1> QED BY <1>2, <1>3, <1>4, <1>5, <1>6 DEF ClusterInv

\* What Inv says of the memory of the nodes.
LEMMA NodeFacts ==
    ASSUME ClusterInv
    PROVE  /\ \A n \in Nodes : ram[n].maint \in committed /\ ram[n].epoch <= ram[n].synced
           /\ \A n \in Nodes, t \in Slots :
                /\ refresh[n][t].step = "read" => refresh[n][t].maint \in committed
                /\ refresh[n][t].step \in {"half", "read"} =>
                     refresh[n][t].epoch <= refresh[n][t].synced
           /\ \A a \in Admins : admin[a] # NoAdmin => admin[a].maint \in committed
           /\ \A n \in Nodes :
                ~rewound /\ req[n].step = "compare" => req[n].epoch >= req[n].seen
           /\ "compared" \in stale => rewound
           /\ Off \in committed /\ db.maint \in committed /\ db.epoch <= rotations
BY DEF ClusterInv, AllCommitted, MirrorsCommitted, EpochsAreOld, EpochsCount, StaleNodeRefuses

\* One refresh moves, the others do not.
RefreshMoved(n, t, r) ==
    /\ refresh' \in [Nodes -> [Slots -> Half \cup Read \cup {NoRefresh}]]
    /\ refresh'[n][t] = r
    /\ \A m \in Nodes, u \in Slots : <<m, u>> # <<n, t>> => refresh'[m][u] = refresh[m][u]

LEMMA RefreshMoves ==
    ASSUME Types, NEW n \in Nodes, NEW t \in Slots, NEW r \in Half \cup Read \cup {NoRefresh},
           refresh' = [refresh EXCEPT ![n][t] = r]
    PROVE  RefreshMoved(n, t, r)
<1>1. refresh \in [Nodes -> [Slots -> Half \cup Read \cup {NoRefresh}]]
  BY DEF Types
<1>2. refresh' = [refresh EXCEPT ![n] = [refresh[n] EXCEPT ![t] = r]]
  BY <1>1
<1>3. refresh[n] \in [Slots -> Half \cup Read \cup {NoRefresh}]
  BY <1>1
<1>4. [refresh[n] EXCEPT ![t] = r] \in [Slots -> Half \cup Read \cup {NoRefresh}]
  BY <1>3
<1>5. refresh' \in [Nodes -> [Slots -> Half \cup Read \cup {NoRefresh}]]
  BY <1>1, <1>2, <1>4
<1>6. refresh'[n] = [refresh[n] EXCEPT ![t] = r] /\ \A m \in Nodes : m # n => refresh'[m] = refresh[m]
  BY <1>1, <1>2
<1>7. refresh'[n][t] = r /\ \A u \in Slots : u # t => refresh'[n][u] = refresh[n][u]
  BY <1>3, <1>6
<1> QED BY <1>5, <1>6, <1>7 DEF RefreshMoved

\* A refresh that reads, or ends, while memory stays.
LEMMA RefreshKeeps ==
    ASSUME ClusterInv, NEW n \in Nodes, NEW t \in Slots, NEW r \in Half \cup Read \cup {NoRefresh},
           refresh' = [refresh EXCEPT ![n][t] = r],
           r.step = "read" => r.maint \in committed,
           r.step \in {"half", "read"} => r.epoch <= r.synced,
           UNCHANGED <<shared, ram, up, admin, req, counts, history>>
    PROVE  ClusterInv'
<1>1. Types
  BY DEF ClusterInv
<1>0. RefreshMoved(n, t, r)
  BY <1>1, RefreshMoves
<1>2. /\ refresh' \in [Nodes -> [Slots -> Half \cup Read \cup {NoRefresh}]]
      /\ refresh'[n][t] = r
      /\ \A m \in Nodes, u \in Slots : <<m, u>> # <<n, t>> => refresh'[m][u] = refresh[m][u]
  BY <1>0 DEF RefreshMoved
<1>3. Types'
  BY <1>1, <1>2 DEF Types, shared, counts, history
<1>4. \A m \in Nodes, u \in Slots :
         /\ refresh'[m][u].step = "read" => refresh'[m][u].maint \in committed
         /\ refresh'[m][u].step \in {"half", "read"} => refresh'[m][u].epoch <= refresh'[m][u].synced
  BY <1>2, NodeFacts
<1> QED BY <1>3, <1>4, NodeFacts, SharedStays DEF history, counts

LEMMA ReadEpochKeeps ==
    ASSUME ClusterInv, NEW n \in Nodes, NEW t \in Slots, ReadEpoch(n, t)
    PROVE  ClusterInv'
<1> DEFINE r == IF db.readable THEN [step |-> "half", epoch |-> db.epoch, synced |-> rotations]
                               ELSE NoRefresh
<1>1. db.epoch \in Nat /\ rotations \in Nat /\ db.epoch <= rotations
  BY NodeFacts DEF ClusterInv, Types, Rows
<1>2. /\ r \in Half \cup Read \cup {NoRefresh} /\ r.step # "read"
      /\ r.step = "half" => r.epoch <= r.synced
  BY <1>1 DEF Half, NoRefresh
<1>3. /\ refresh' = [refresh EXCEPT ![n][t] = r]
      /\ UNCHANGED <<shared, ram, up, admin, req, counts, history>>
  BY DEF ReadEpoch
<1> HIDE DEF r
<1> QED BY <1>2, <1>3, RefreshKeeps

LEMMA ReadMaintenanceKeeps ==
    ASSUME ClusterInv, NEW n \in Nodes, NEW t \in Slots, ReadMaintenance(n, t)
    PROVE  ClusterInv'
<1> DEFINE q == refresh[n][t]
           r == IF db.readable
                  THEN [step |-> "read", epoch |-> q.epoch, synced |-> q.synced, maint |-> db.maint]
                  ELSE NoRefresh
<1>1. q.epoch \in Nat /\ q.synced \in Nat /\ q.epoch <= q.synced
  BY NodeFacts DEF ClusterInv, Types, Half, Read, NoRefresh, ReadMaintenance
<1>2. db.maint \in Nat /\ db.maint \in committed
  BY NodeFacts DEF ClusterInv, Types, Rows
<1>3. /\ refresh' = [refresh EXCEPT ![n][t] = r]
      /\ UNCHANGED <<shared, ram, up, admin, req, counts, history>>
  BY DEF ReadMaintenance
<1> HIDE DEF q
<1>4. /\ r \in Half \cup Read \cup {NoRefresh}
      /\ r.step = "read" => r.maint \in committed
      /\ r.step \in {"half", "read"} => r.epoch <= r.synced
  BY <1>1, <1>2 DEF Read, NoRefresh
<1> HIDE DEF r
<1> QED BY <1>3, <1>4, RefreshKeeps

LEMMA UpdateFromDbKeeps ==
    ASSUME ClusterInv, NEW n \in Nodes, NEW t \in Slots, UpdateFromDb(n, t)
    PROVE  ClusterInv'
<1> DEFINE q == refresh[n][t]
           m == [epoch |-> q.epoch, maint |-> q.maint, synced |-> q.synced]
<1>1. Types
  BY DEF ClusterInv
<1>2. /\ q.epoch \in Nat /\ q.synced \in Nat /\ q.epoch <= q.synced
      /\ q.maint \in Nat /\ q.maint \in committed
  BY <1>1, NodeFacts DEF Types, Half, Read, NoRefresh, UpdateFromDb
<1>3. /\ ram' = [ram EXCEPT ![n] = m]
      /\ refresh' = [refresh EXCEPT ![n][t] = NoRefresh]
      /\ UNCHANGED <<shared, up, bell, admin, req, counts, history>>
  BY DEF UpdateFromDb
<1> HIDE DEF q
<1>4. /\ m \in [epoch : Nat, maint : Nat, synced : Nat]
      /\ m.maint \in committed /\ m.epoch <= m.synced
  BY <1>2
<1> HIDE DEF m
<1>10. RefreshMoved(n, t, NoRefresh)
  <2>1. NoRefresh \in Half \cup Read \cup {NoRefresh}
    OBVIOUS
  <2> QED BY <1>1, <1>3, <2>1, RefreshMoves
<1>5. /\ refresh' \in [Nodes -> [Slots -> Half \cup Read \cup {NoRefresh}]]
      /\ refresh'[n][t] = NoRefresh
      /\ \A k \in Nodes, u \in Slots : <<k, u>> # <<n, t>> => refresh'[k][u] = refresh[k][u]
  BY <1>10 DEF RefreshMoved
<1>6. /\ ram' \in [Nodes -> [epoch : Nat, maint : Nat, synced : Nat]]
      /\ ram'[n] = m /\ \A k \in Nodes : k # n => ram'[k] = ram[k]
  BY <1>1, <1>3, <1>4 DEF Types
<1>7. Types'
  BY <1>1, <1>3, <1>5, <1>6 DEF Types, shared, counts, history
<1>8. \A k \in Nodes, u \in Slots :
         /\ refresh'[k][u].step = "read" => refresh'[k][u].maint \in committed
         /\ refresh'[k][u].step \in {"half", "read"} => refresh'[k][u].epoch <= refresh'[k][u].synced
  BY <1>5, NodeFacts DEF NoRefresh
<1>9. \A k \in Nodes : ram'[k].maint \in committed /\ ram'[k].epoch <= ram'[k].synced
  BY <1>4, <1>6, NodeFacts
<1> QED BY <1>3, <1>7, <1>8, <1>9, NodeFacts, SharedStays DEF history, counts

LEMMA StopNodeKeeps ==
    ASSUME ClusterInv, NEW n \in Nodes, StopNode(n)
    PROVE  ClusterInv'
<1>1. Types /\ Off \in committed
  BY NodeFacts DEF ClusterInv
<1>2. /\ ram' = [ram EXCEPT ![n] = Blank]
      /\ refresh' = [refresh EXCEPT ![n] = [t \in Slots |-> NoRefresh]]
      /\ admin' = [a \in Admins |-> IF admin[a].node = n THEN NoAdmin ELSE admin[a]]
      /\ req' = [req EXCEPT ![n] = NoRequest]
      /\ up' = up \ {n}
      /\ UNCHANGED <<shared, counts, history>>
  BY DEF StopNode
<1>3. Blank \in [epoch : Nat, maint : Nat, synced : Nat] /\ Blank.maint = Off
        /\ Blank.epoch <= Blank.synced
  BY DEF Blank, Off
<1>4. /\ ram'[n] = Blank /\ \A k \in Nodes : k # n => ram'[k] = ram[k]
      /\ refresh'[n] = [t \in Slots |-> NoRefresh]
      /\ \A k \in Nodes : k # n => refresh'[k] = refresh[k]
      /\ req'[n] = NoRequest /\ \A k \in Nodes : k # n => req'[k] = req[k]
  BY <1>1, <1>2 DEF Types
<1>5. Types'
  <2>1. ram' \in [Nodes -> [epoch : Nat, maint : Nat, synced : Nat]]
    BY <1>1, <1>2, <1>3 DEF Types
  <2>2. refresh' \in [Nodes -> [Slots -> Half \cup Read \cup {NoRefresh}]]
    BY <1>1, <1>2 DEF Types
  <2>3. admin' \in [Admins -> [node : Nodes, maint : Nat] \cup {NoAdmin}]
    BY <1>1, <1>2 DEF Types
  <2>4. req' \in [Nodes -> Compare \cup {NoRequest}]
    BY <1>1, <1>2 DEF Types
  <2> QED BY <1>1, <1>2, <2>1, <2>2, <2>3, <2>4 DEF Types, shared, counts, history
<1>6. \A k \in Nodes, u \in Slots :
         /\ refresh'[k][u].step = "read" => refresh'[k][u].maint \in committed
         /\ refresh'[k][u].step \in {"half", "read"} => refresh'[k][u].epoch <= refresh'[k][u].synced
  BY <1>4, NodeFacts DEF NoRefresh
<1>7. \A k \in Nodes : ram'[k].maint \in committed /\ ram'[k].epoch <= ram'[k].synced
  BY <1>1, <1>3, <1>4, NodeFacts
<1>8. \A a \in Admins : admin'[a] # NoAdmin => admin'[a].maint \in committed
  BY <1>2, NodeFacts
<1>9. \A k \in Nodes : ~rewound /\ req'[k].step = "compare" => req'[k].epoch >= req'[k].seen
  BY <1>4, NodeFacts DEF NoRequest
<1> QED BY <1>2, <1>5, <1>6, <1>7, <1>8, <1>9, NodeFacts, SharedStays DEF history, counts

\* Memory is assigned, and the rest of the node stays.
LEMMA MemoryKeeps ==
    ASSUME ClusterInv, NEW n \in Nodes, NEW m \in [epoch : Nat, maint : Nat, synced : Nat],
           ram' = [ram EXCEPT ![n] = m], m.maint \in committed, m.epoch <= m.synced,
           up' \subseteq Nodes, UNCHANGED <<shared, refresh, req, counts, history>>,
           admin' \in [Admins -> [node : Nodes, maint : Nat] \cup {NoAdmin}],
           (\A a \in Admins : admin'[a] # NoAdmin => admin'[a].maint \in committed)
    PROVE  ClusterInv'
<1>1. Types
  BY DEF ClusterInv
<1>2. /\ ram' \in [Nodes -> [epoch : Nat, maint : Nat, synced : Nat]]
      /\ ram'[n] = m /\ \A k \in Nodes : k # n => ram'[k] = ram[k]
  BY <1>1 DEF Types
<1>3. Types'
  BY <1>1, <1>2 DEF Types, shared, counts, history
<1>4. \A k \in Nodes : ram'[k].maint \in committed /\ ram'[k].epoch <= ram'[k].synced
  BY <1>2, NodeFacts
<1> QED BY <1>3, <1>4, NodeFacts, SharedStays DEF history, counts

LEMMA StartNodeKeeps ==
    ASSUME ClusterInv, NEW n \in Nodes, StartNode(n)
    PROVE  ClusterInv'
<1> DEFINE m == [epoch |-> db.epoch, maint |-> db.maint, synced |-> rotations]
<1>1. /\ m \in [epoch : Nat, maint : Nat, synced : Nat]
      /\ m.maint \in committed /\ m.epoch <= m.synced
  BY NodeFacts DEF ClusterInv, Types, Rows
<1>2. /\ ram' = [ram EXCEPT ![n] = m] /\ up' \subseteq Nodes
      /\ UNCHANGED <<shared, refresh, admin, req, counts, history>>
  BY DEF StartNode, ClusterInv, Types
<1>3. /\ admin' \in [Admins -> [node : Nodes, maint : Nat] \cup {NoAdmin}]
      /\ \A a \in Admins : admin'[a] # NoAdmin => admin'[a].maint \in committed
  BY <1>2, NodeFacts DEF ClusterInv, Types
<1> HIDE DEF m
<1> QED BY <1>1, <1>2, <1>3, MemoryKeeps

LEMMA AssignMaintenanceKeeps ==
    ASSUME ClusterInv, NEW a \in Admins, AssignMaintenance(a)
    PROVE  ClusterInv'
<1> DEFINE n == admin[a].node
           m == [epoch |-> ram[n].epoch, maint |-> admin[a].maint, synced |-> ram[n].synced]
<1>1. Types
  BY DEF ClusterInv
<1>2. n \in Nodes /\ admin[a].maint \in Nat /\ admin[a].maint \in committed
  BY <1>1, NodeFacts DEF Types, AssignMaintenance
<1>3. ram[n] \in [epoch : Nat, maint : Nat, synced : Nat] /\ ram[n].epoch <= ram[n].synced
  BY <1>1, <1>2, NodeFacts DEF Types
<1>4. /\ ram' = [ram EXCEPT ![n].maint = admin[a].maint]
      /\ admin' = [admin EXCEPT ![a] = NoAdmin]
      /\ UNCHANGED <<shared, up, bell, refresh, req, counts, history>>
  BY DEF AssignMaintenance
<1>5. /\ admin' \in [Admins -> [node : Nodes, maint : Nat] \cup {NoAdmin}]
      /\ \A b \in Admins : admin'[b] # NoAdmin => admin'[b].maint \in committed
  BY <1>1, <1>4, NodeFacts DEF Types
<1>6. [ram[n] EXCEPT !.maint = admin[a].maint] = m
  BY <1>3
<1>7. ram' = [ram EXCEPT ![n] = m]
  BY <1>4, <1>6
<1>8. /\ m \in [epoch : Nat, maint : Nat, synced : Nat]
      /\ m.maint \in committed /\ m.epoch <= m.synced
  BY <1>2, <1>3
<1>9. up' \subseteq Nodes
  BY <1>1, <1>4 DEF Types
<1> HIDE DEF m, n
<1> QED BY <1>2, <1>4, <1>5, <1>7, <1>8, <1>9, MemoryKeeps

-----------------------------------------------------------------------------
(* Requests *)

\* A request is admitted or served.
LEMMA RequestKeeps ==
    ASSUME ClusterInv, NEW n \in Nodes, NEW r \in Compare \cup {NoRequest},
           req' = [req EXCEPT ![n] = r],
           ~rewound /\ r.step = "compare" => r.epoch >= r.seen,
           UNCHANGED <<shared, ram, up, admin, refresh, counts, committed, rotations, rewound>>,
           "compared" \in stale' => rewound
    PROVE  ClusterInv'
<1>1. Types
  BY DEF ClusterInv
<1>2. /\ req' \in [Nodes -> Compare \cup {NoRequest}]
      /\ req'[n] = r /\ \A k \in Nodes : k # n => req'[k] = req[k]
  BY <1>1 DEF Types
<1>3. Types'
  BY <1>1, <1>2 DEF Types, shared, counts
<1>4. \A k \in Nodes : ~rewound /\ req'[k].step = "compare" => req'[k].epoch >= req'[k].seen
  BY <1>2, NodeFacts
<1> QED BY <1>3, <1>4, NodeFacts, SharedStays

LEMMA AdmitKeeps ==
    ASSUME ClusterInv, NEW n \in Nodes, Admit(n)
    PROVE  ClusterInv'
<1> DEFINE r == [step |-> "compare", epoch |-> db.epoch, seen |-> Ended]
<1>1. db.epoch \in Nat /\ Ended \in Nat /\ (~rewound => db.epoch >= Ended)
  BY DEF ClusterInv, Types, Rows, EpochsCount, Ended
<1>2. r \in Compare /\ (~rewound => r.epoch >= r.seen)
  BY <1>1 DEF Compare
<1>3. req' = [req EXCEPT ![n] = r]
      /\ UNCHANGED <<shared, ram, up, admin, refresh, counts, committed, rotations, rewound, stale>>
  BY DEF Admit, history
<1> HIDE DEF r
<1> QED BY <1>2, <1>3, RequestKeeps, NodeFacts

\* What passes without a comparison leaves the other ways alone.
LEMMA PassKeeps ==
    ASSUME ClusterInv, NEW n \in Nodes, PassExempt(n) \/ PassUnread(n)
    PROVE  ClusterInv'
<1>1. UNCHANGED <<shared, node, counts, committed, rotations, rewound>>
  BY DEF PassExempt, PassUnread
<1>2. "compared" \in stale' => rewound
  BY NodeFacts DEF PassExempt, PassUnread, Handle
<1>3. UNCHANGED <<ram, refresh, admin, req, up, writes, db, dump, restore>>
  BY <1>1 DEF node, counts, shared
<1>4. Types'
  BY <1>1, <1>3 DEF ClusterInv, Types
<1> QED BY <1>1, <1>2, <1>3, <1>4, NodeFacts, SharedStays

\* The argument of I-3: what the node has was read at the epoch it has, or later.
LEMMA ServeKeeps ==
    ASSUME ClusterInv, NEW n \in Nodes, Serve(n)
    PROVE  ClusterInv'
<1>1. /\ req[n] \in Compare /\ ram[n] \in [epoch : Nat, maint : Nat, synced : Nat]
      /\ req[n].step = "compare"
  BY DEF ClusterInv, Types, NoRequest, Serve
<1>2. ~rewound /\ ram[n].epoch >= req[n].epoch => ram[n].synced >= req[n].seen
  BY <1>1, NodeFacts DEF Compare
<1>3. "compared" \in stale' => rewound
  <2> DEFINE Late == ram[n].epoch >= req[n].epoch /\ ram[n].synced < req[n].seen
  <2>1. "compared" \in stale' => "compared" \in stale \/ Late
    BY DEF Serve, IsEpochCoherent, Handle
  <2>2. Late => rewound
    BY <1>1, <1>2 DEF Compare
  <2>3. "compared" \in stale => rewound
    BY NodeFacts
  <2> HIDE DEF Late
  <2> QED BY <2>1, <2>2, <2>3
<1>4. req' = [req EXCEPT ![n] = NoRequest]
      /\ UNCHANGED <<shared, ram, up, admin, refresh, counts, committed, rotations, rewound>>
  BY DEF Serve
<1>5. NoRequest.step # "compare"
  BY DEF NoRequest
<1> QED BY <1>3, <1>4, <1>5, RequestKeeps

-----------------------------------------------------------------------------
(* The shared rows: maintenance calls, backups and restorations *)

\* The shared rows, the dumps or the restoration move, and memory stays.
LEMMA MemoryStays ==
    ASSUME ClusterInv, Types', UNCHANGED <<ram, refresh, req, stale, committed>>,
           (\A a \in Admins : admin'[a] # NoAdmin => admin'[a].maint \in committed),
           ListedAreDumped',
           db'.maint \in committed, db'.epoch <= rotations',
           (\A b \in Backups : dump'[b] # NoDump =>
              dump'[b].maint \in committed /\ dump'[b].epoch <= rotations'),
           rewound => rewound',
           (~rewound' /\ Whole' => db'.epoch >= rotations')
    PROVE  ClusterInv'
<1>1. AllCommitted'
  BY NodeFacts DEF AllCommitted, MirrorsCommitted
<1>2. EpochsAreOld'
  BY NodeFacts DEF EpochsAreOld
<1>3. EpochsCount'
  BY NodeFacts DEF EpochsCount
<1>4. StaleNodeRefuses'
  BY NodeFacts DEF StaleNodeRefuses
<1> QED BY <1>1, <1>2, <1>3, <1>4 DEF ClusterInv

LEMMA DumpFacts ==
    ASSUME ClusterInv
    PROVE  /\ \A b \in Backups : dump[b] # NoDump =>
                dump[b] \in Dumped /\ dump[b].maint \in committed /\ dump[b].epoch <= rotations
           /\ \A b \in db.listed : b \in Backups /\ dump[b] # NoDump
           /\ restore # NoRestore => restore \in Restoring /\ dump[restore.backup] # NoDump
           /\ restore.step # "idle" => restore # NoRestore
           /\ NoRestore.step = "idle"
BY DEF ClusterInv, Types, Rows, ListedAreDumped, AllCommitted, EpochsAreOld, NoRestore

LEMMA SetMaintenanceKeeps ==
    ASSUME ClusterInv, NEW n \in Nodes, NEW a \in Admins, NEW on \in BOOLEAN, SetMaintenance(n, a, on)
    PROVE  ClusterInv'
<1> DEFINE m == 2 * (writes + 1) - (IF on THEN 1 ELSE 0)
           newRow == [readable |-> db.readable, epoch |-> db.epoch, maint |-> m, listed |-> db.listed]
           call == [node |-> n, maint |-> m]
<1>1. Types /\ db \in Rows
  BY DEF ClusterInv, Types
<1>2. m \in Nat
  BY <1>1 DEF Types
<1>3. /\ db' = [db EXCEPT !.maint = m] /\ committed' = committed \cup {m}
      /\ admin' = [admin EXCEPT ![a] = call] /\ writes' = writes + 1
      /\ UNCHANGED <<dump, restore, ram, up, refresh, req, tries, rotations, rewound, stale>>
  BY DEF SetMaintenance
<1> HIDE DEF m
<1>4. db' = newRow
  BY <1>1, <1>3 DEF Rows
<1>5. /\ db' \in Rows /\ db'.maint = m /\ db'.epoch = db.epoch /\ db'.listed = db.listed
      /\ call \in [node : Nodes, maint : Nat] /\ call.maint = m
  BY <1>1, <1>2, <1>4 DEF Rows
<1> HIDE DEF newRow, call
<1>6. admin'[a] = call /\ \A b \in Admins : b # a => admin'[b] = admin[b]
  BY <1>1, <1>3 DEF Types
<1>7. Types'
  BY <1>1, <1>3, <1>5 DEF Types
<1>8. ListedAreDumped'
  BY <1>3, <1>5 DEF ClusterInv, ListedAreDumped
<1>9. AllCommitted'
  BY <1>3, <1>5, <1>6 DEF ClusterInv, AllCommitted, MirrorsCommitted
<1>10. EpochsAreOld'
  BY <1>3, <1>5 DEF ClusterInv, EpochsAreOld
<1>11. EpochsCount'
  BY <1>3, <1>5 DEF ClusterInv, EpochsCount, Whole, InRestore
<1>12. StaleNodeRefuses'
  BY <1>3 DEF ClusterInv, StaleNodeRefuses
<1> QED BY <1>7, <1>8, <1>9, <1>10, <1>11, <1>12 DEF ClusterInv

LEMMA CreateBackupKeeps ==
    ASSUME ClusterInv, NEW b \in Backups, CreateBackup(b)
    PROVE  ClusterInv'
<1> DEFINE d == [epoch |-> db.epoch, maint |-> db.maint, listed |-> db.listed]
<1>1. Types /\ db \in Rows
  BY DEF ClusterInv, Types
<1>2. /\ dump' = [dump EXCEPT ![b] = d] /\ db' = [db EXCEPT !.listed = @ \cup {b}]
      /\ UNCHANGED <<restore, node, counts, history>>
  BY DEF CreateBackup
<1>3. /\ d \in Dumped /\ d # NoDump /\ d.epoch = db.epoch /\ d.maint = db.maint
      /\ d.listed = db.listed
  BY <1>1 DEF Rows, Dumped, NoDump
<1> HIDE DEF d
<1>4. dump'[b] = d /\ \A c \in Backups : c # b => dump'[c] = dump[c]
  BY <1>1, <1>2 DEF Types
<1>5. db' = [readable |-> db.readable, epoch |-> db.epoch, maint |-> db.maint,
             listed |-> db.listed \cup {b}]
  BY <1>1, <1>2 DEF Rows
<1>6. /\ db' \in Rows /\ db'.maint = db.maint /\ db'.epoch = db.epoch
      /\ db'.listed = db.listed \cup {b}
  BY <1>1, <1>5 DEF Rows
<1>7. Types'
  BY <1>1, <1>2, <1>3, <1>6 DEF Types, node, counts, history
<1>8. ListedAreDumped'
  BY <1>1, <1>2, <1>3, <1>4, <1>6 DEF ClusterInv, ListedAreDumped, Types, Restoring
<1>9. ~rewound' /\ Whole' => db'.epoch >= rotations'
  BY <1>2, <1>6 DEF ClusterInv, EpochsCount, Whole, InRestore, history
<1>10. UNCHANGED <<ram, refresh, req, stale, committed, admin, rotations, rewound>>
  BY <1>2 DEF node, history
<1>11. \A c \in Backups : dump'[c] # NoDump =>
         dump'[c].maint \in committed /\ dump'[c].epoch <= rotations'
  BY <1>3, <1>4, <1>10, NodeFacts, DumpFacts
<1> QED BY <1>6, <1>7, <1>8, <1>9, <1>10, <1>11, NodeFacts, MemoryStays

\* A step of a restoration: the rows are written, and it goes on.
LEMMA RowsKeep ==
    ASSUME ClusterInv, NEW newRow \in Rows, db' = newRow, restore' \in Restoring \cup {NoRestore},
           restore' # NoRestore => dump[restore'.backup] # NoDump,
           \A b \in newRow.listed : dump[b] # NoDump,
           newRow.maint \in committed,
           newRow.epoch <= rotations', rotations' \in Nat, rotations <= rotations',
           rewound => rewound', ~rewound' /\ Whole' => newRow.epoch >= rotations',
           writes' \in Nat,
           UNCHANGED <<dump, ram, up, refresh, admin, req, stale, committed>>
    PROVE  ClusterInv'
<1>1. Types'
  BY DEF ClusterInv, Types
<1>2. ListedAreDumped'
  BY DEF ClusterInv, ListedAreDumped
<1>3. \A c \in Backups : dump'[c] # NoDump =>
         dump'[c].maint \in committed /\ dump'[c].epoch <= rotations'
  BY DumpFacts DEF ClusterInv, Types, Dumped
<1> QED BY <1>1, <1>2, <1>3, NodeFacts, MemoryStays

\* Where GoTo leads.
LEMMA GoesTo ==
    ASSUME ClusterInv, restore # NoRestore,
           NEW step \in {"dropped", "empty", "epoch", "filled", "rotated", "failed"},
           GoTo(step)
    PROVE  /\ restore' \in Restoring /\ restore'.step = step
           /\ restore'.backup = restore.backup /\ dump[restore'.backup] # NoDump
<1>1. restore \in Restoring /\ dump[restore.backup] # NoDump
  BY DumpFacts
<1>2. restore' = [step |-> step, backup |-> restore.backup]
  BY <1>1 DEF GoTo, Restoring
<1> QED BY <1>1, <1>2 DEF Restoring

LEMMA DropSchemaKeeps ==
    ASSUME ClusterInv, NEW b \in Backups, DropSchema(b)
    PROVE  ClusterInv'
<1> DEFINE newRow == [readable |-> FALSE, epoch |-> 0, maint |-> Off, listed |-> {}]
           r == [step |-> "dropped", backup |-> b]
<1>1. /\ db' = newRow /\ restore' = r
      /\ UNCHANGED <<dump, node, writes, history>>
  BY DEF DropSchema
<1>2. /\ newRow \in Rows /\ newRow.maint = Off /\ newRow.epoch = 0 /\ newRow.listed = {}
      /\ r \in Restoring /\ r.backup = b /\ r.step = "dropped"
  BY DEF Rows, Restoring, Off
<1>3. dump[b] # NoDump /\ rotations \in Nat /\ writes \in Nat
  BY DumpFacts DEF DropSchema, ClusterInv, Types
<1>4. ~Whole'
  BY <1>1, <1>2 DEF Whole, InRestore
<1> HIDE DEF newRow, r
<1> QED BY <1>1, <1>2, <1>3, <1>4, NodeFacts, RowsKeep DEF node, history

LEMMA CreateTablesKeeps ==
    ASSUME ClusterInv, CreateTables
    PROVE  ClusterInv'
<1> DEFINE newRow == [readable |-> TRUE, epoch |-> db.epoch, maint |-> db.maint, listed |-> db.listed]
<1>1. db \in Rows /\ rotations \in Nat /\ writes \in Nat /\ restore # NoRestore
  BY DumpFacts DEF ClusterInv, Types, CreateTables, InRestore
<1>2. db' = newRow /\ GoTo("empty") /\ UNCHANGED <<dump, node, counts, history>>
  BY <1>1 DEF CreateTables, Rows
<1>3. newRow \in Rows /\ newRow.maint = db.maint /\ newRow.epoch = db.epoch /\ newRow.listed = db.listed
  BY <1>1 DEF Rows
<1> HIDE DEF newRow
<1>4. /\ restore' \in Restoring /\ dump[restore'.backup] # NoDump /\ ~Whole'
  BY <1>1, <1>2, GoesTo DEF Whole, InRestore
<1> QED BY <1>1, <1>2, <1>3, <1>4, NodeFacts, DumpFacts, RowsKeep DEF node, counts, history

LEMMA FillEpochKeeps ==
    ASSUME ClusterInv, FillEpoch
    PROVE  ClusterInv'
<1> DEFINE d == dump[restore.backup]
           newRow == [readable |-> db.readable, epoch |-> d.epoch, maint |-> db.maint,
                   listed |-> d.listed]
<1>1. db \in Rows /\ rotations \in Nat /\ writes \in Nat /\ restore # NoRestore
  BY DumpFacts DEF ClusterInv, Types, FillEpoch, InRestore
<1>2. restore.backup \in Backups /\ d # NoDump /\ d \in Dumped /\ d.epoch <= rotations
  BY <1>1, DumpFacts DEF Restoring
<1>3. \A b \in d.listed : dump[b] # NoDump
  BY <1>2 DEF ClusterInv, ListedAreDumped
<1>4. /\ db' = [db EXCEPT !.listed = d.listed, !.epoch = d.epoch]
      /\ GoTo("epoch") /\ UNCHANGED <<dump, node, counts, history>>
  BY DEF FillEpoch
<1> HIDE DEF d
<1>5. [db EXCEPT !.listed = d.listed]
        = [readable |-> db.readable, epoch |-> db.epoch, maint |-> db.maint, listed |-> d.listed]
  BY <1>1 DEF Rows
<1>6. db' = [[readable |-> db.readable, epoch |-> db.epoch, maint |-> db.maint, listed |-> d.listed]
               EXCEPT !.epoch = d.epoch]
  BY <1>4, <1>5
<1>7. db' = newRow
  BY <1>6
<1>8. newRow \in Rows /\ newRow.maint = db.maint /\ newRow.epoch = d.epoch /\ newRow.listed = d.listed
  BY <1>1, <1>2 DEF Rows, Dumped
<1> HIDE DEF newRow
<1>9. /\ restore' \in Restoring /\ dump[restore'.backup] # NoDump /\ ~Whole'
  BY <1>1, <1>4, GoesTo DEF Whole, InRestore
<1> QED BY <1>1, <1>2, <1>3, <1>4, <1>7, <1>8, <1>9, NodeFacts, RowsKeep DEF node, counts, history

LEMMA FillMetadataKeeps ==
    ASSUME ClusterInv, FillMetadata
    PROVE  ClusterInv'
<1> DEFINE m == IF db.maint = Off THEN dump[restore.backup].maint ELSE db.maint
           newRow == [readable |-> db.readable, epoch |-> db.epoch, maint |-> m, listed |-> db.listed]
<1>1. db \in Rows /\ rotations \in Nat /\ writes \in Nat /\ restore # NoRestore
  BY DumpFacts DEF ClusterInv, Types, FillMetadata, InRestore
<1>2. m \in Nat /\ m \in committed
  BY <1>1, NodeFacts, DumpFacts DEF Restoring, Dumped, Rows
<1>3. /\ db' = [db EXCEPT !.maint = m]
      /\ GoTo("filled") /\ UNCHANGED <<dump, node, counts, history>>
  BY DEF FillMetadata
<1> HIDE DEF m
<1>4. db' = newRow
  BY <1>1, <1>3 DEF Rows
<1>5. newRow \in Rows /\ newRow.maint = m /\ newRow.epoch = db.epoch /\ newRow.listed = db.listed
  BY <1>1, <1>2 DEF Rows
<1> HIDE DEF newRow
<1>6. /\ restore' \in Restoring /\ dump[restore'.backup] # NoDump /\ ~Whole'
  BY <1>1, <1>3, GoesTo DEF Whole, InRestore
<1> QED BY <1>1, <1>2, <1>3, <1>4, <1>5, <1>6, NodeFacts, DumpFacts, RowsKeep
     DEF node, counts, history

\* The rotation gives an epoch above the number of rotations before it, or one that
\* may have been used.
LEMMA RotateKeeps ==
    ASSUME ClusterInv, RotateSessionEpoch
    PROVE  ClusterInv'
<1> DEFINE e == db.epoch + 1
           newRow == [readable |-> db.readable, epoch |-> e, maint |-> db.maint, listed |-> db.listed]
<1>1. /\ db \in Rows /\ rotations \in Nat /\ writes \in Nat /\ restore # NoRestore
      /\ db.epoch <= rotations
  BY DumpFacts, NodeFacts DEF ClusterInv, Types, RotateSessionEpoch, InRestore
<1>2. /\ db' = [db EXCEPT !.epoch = e] /\ rotations' = rotations + 1
      /\ GoTo("rotated") /\ UNCHANGED <<dump, node, counts, committed, stale>>
  BY DEF RotateSessionEpoch
<1>3. rewound' = (rewound \/ e <= rotations)
  BY DEF RotateSessionEpoch
<1>4. db' = newRow
  BY <1>1, <1>2 DEF Rows
<1>5. /\ newRow \in Rows /\ newRow.maint = db.maint /\ newRow.epoch = db.epoch + 1
      /\ newRow.listed = db.listed
  BY <1>1 DEF Rows
<1>6. newRow.epoch <= rotations'
  BY <1>1, <1>2, <1>5 DEF Rows
<1>7. rewound => rewound'
  BY <1>3
<1>8. ~rewound' => newRow.epoch >= rotations'
  <2>1. e <= rotations => rewound'
    BY <1>3
  <2> QED BY <2>1, <1>1, <1>2, <1>5 DEF Rows
<1> HIDE DEF newRow, e
<1>9. /\ restore' \in Restoring /\ dump[restore'.backup] # NoDump
  BY <1>1, <1>2, GoesTo
<1>10. rotations' \in Nat /\ rotations <= rotations'
  BY <1>1, <1>2
<1> QED BY <1>1, <1>2, <1>4, <1>5, <1>6, <1>7, <1>8, <1>9, <1>10, NodeFacts, DumpFacts, RowsKeep
     DEF node, counts

\* A restoration ends, or fails where it is.
LEMMA RestoreEndKeeps ==
    ASSUME ClusterInv, NotifyEpochChanged \/ RestoreFails
    PROVE  ClusterInv'
<1>1. db \in Rows /\ rotations \in Nat /\ writes \in Nat /\ restore # NoRestore
  BY DumpFacts DEF ClusterInv, Types, NotifyEpochChanged, RestoreFails, NoRestoration, InRestore
<1>2. /\ UNCHANGED <<db, dump, ram, up, refresh, admin, req, stale, committed,
                     rotations, rewound, writes>>
      /\ \/ restore' = NoRestore /\ restore.step = "rotated"
         \/ GoTo("failed")
  BY DEF NotifyEpochChanged, RestoreFails, node, counts, history, InRestore
<1>3. ~rewound /\ Whole' => db.epoch >= rotations
  <2>1. CASE restore' = NoRestore /\ restore.step = "rotated"
    BY <2>1 DEF ClusterInv, EpochsCount, Whole, InRestore
  <2>2. CASE GoTo("failed")
    BY <2>2, <1>1, GoesTo DEF Whole, InRestore
  <2> QED BY <1>2, <2>1, <2>2
<1>4. /\ restore' \in Restoring \cup {NoRestore}
      /\ restore' # NoRestore => dump[restore'.backup] # NoDump
  BY <1>1, <1>2, GoesTo
<1> QED BY <1>1, <1>2, <1>3, <1>4, NodeFacts, DumpFacts, RowsKeep

-----------------------------------------------------------------------------
(* The theorems *)

LEMMA NextClusterInv == ClusterInv /\ [ClusterNext]_clusterVars => ClusterInv'
<1> SUFFICES ASSUME ClusterInv, [ClusterNext]_clusterVars PROVE ClusterInv'
  OBVIOUS
<1>1. CASE UNCHANGED clusterVars
  <2>1. /\ UNCHANGED <<shared, committed, rotations, rewound, ram, refresh, admin, req, stale>>
        /\ UNCHANGED <<up, writes, db, dump, restore>>
    BY <1>1 DEF clusterVars, node, counts, history, shared
  <2>2. Types'
    BY <2>1 DEF ClusterInv, Types
  <2> QED BY <2>1, <2>2, NodeFacts, SharedStays
<1>2. ASSUME NEW n \in Nodes, Sync(n) \/ Middleware(n) PROVE ClusterInv'
  BY <1>2, ReadEpochKeeps, ReadMaintenanceKeeps, UpdateFromDbKeeps, StopNodeKeeps, StartNodeKeeps,
     AdmitKeeps, PassKeeps, ServeKeeps DEF Sync, Middleware
<1>3. ASSUME NEW a \in Admins, Maintenance(a) PROVE ClusterInv'
  BY <1>3, AssignMaintenanceKeeps, SetMaintenanceKeeps DEF Maintenance
<1>4. ASSUME NEW b \in Backups, CreateBackup(b) \/ DropSchema(b) PROVE ClusterInv'
  BY <1>4, CreateBackupKeeps, DropSchemaKeeps
<1>5. CASE RestoreSteps
  BY <1>5, CreateTablesKeeps, FillEpochKeeps, FillMetadataKeeps, RotateKeeps, RestoreEndKeeps
     DEF RestoreSteps
<1> QED BY <1>1, <1>2, <1>3, <1>4, <1>5 DEF ClusterNext

\* The strengthened invariant: every value that a refresh or a node holds was
\* committed, and every epoch is older than the number of rotations.
THEOREM ClusterInvariance == ClusterSpec => []ClusterInv
BY InitClusterInv, NextClusterInv, PTL DEF ClusterSpec

\* No node ever takes for the maintenance mode a value that no transaction
\* committed, in whatever order refreshes, calls and restorations follow.
THEOREM MemoryMirrorsCommitted == ClusterSpec => []MirrorsCommitted
<1>1. ClusterInv => MirrorsCommitted
  BY DEF ClusterInv, AllCommitted
<1> QED BY <1>1, ClusterInvariance, PTL

\* A node that is older than a restoration refuses the requests whose epoch it could
\* compare, as long as no rotation gives an epoch a second time.
THEOREM StaleNodesRefuse == ClusterSpec => []StaleNodeRefuses
<1>1. ClusterInv => StaleNodeRefuses
  BY DEF ClusterInv
<1> QED BY <1>1, ClusterInvariance, PTL
=============================================================================
