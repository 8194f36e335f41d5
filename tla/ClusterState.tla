---------------------------- MODULE ClusterState ----------------------------
(***************************************************************************)
(* The shared state of a cluster (session epoch and maintenance mode), its   *)
(* copy in the memory of every node, the requests that are let through on    *)
(* that copy, and the restoration of a backup that replaces the shared state: *)
(* core/cluster_sync.py, core/cluster_state.py, middleware/                  *)
(* cluster_coherence.py, api/v1/admin_maintenance.py, services/backup.py.    *)
(*                                                                          *)
(* A refresh is two SELECTs and an assignment; several run at once on a node *)
(* (the loop of 5 seconds, a task per notification).  The values of the      *)
(* maintenance mode are numbered in the order of the calls that wrote them;  *)
(* the odd ones are active.                                                  *)
(***************************************************************************)
EXTENDS Naturals, FiniteSets

CONSTANTS
    Nodes,
    Tasks,       \* per node: the refreshes that notifications start
    Loop,        \* the refresh of the loop
    Admins,      \* slots for maintenance calls, on any node
    Backups,     \* dumps, and the rows of backups_local that list them
    MaxWrites,   \* bound of the maintenance calls (model checking only)
    MaxRestores  \* bound of the restorations (model checking only)

ASSUME BoundsAssumption == {MaxWrites, MaxRestores} \subseteq Nat
ASSUME LoopAssumption == Loop \notin Tasks

VARIABLES
    db,       \* the shared rows: epoch, maintenance mode, the backups listed
    dump,     \* what each backup holds
    restore,  \* the restoration in progress
    ram,      \* cluster_state of each node
    up,       \* nodes that accept requests
    bell,     \* nodes that were notified, and have not handled it yet
    refresh,  \* the refreshes in progress
    admin,    \* maintenance calls between their commit and their assignment
    req,      \* one request per node in the middleware
    writes, tries, \* how many maintenance calls and restorations were begun
    committed,\* maintenance values that were in the database (history)
    rotations,\* how many restorations rotated the epoch (history)
    rewound,  \* a rotation gave an epoch that had been used (history)
    stale     \* how requests were served on a copy older than a restoration (history)

shared == <<db, dump, restore>>
node == <<ram, up, bell, refresh, admin, req>>
counts == <<writes, tries>>
history == <<committed, rotations, rewound, stale>>
clusterVars == <<shared, node, counts, history>>

-----------------------------------------------------------------------------
Slots == Tasks \cup {Loop}
Off == 0                                    \* no row, or never active
Active(m) == m % 2 = 1
Values == 0 .. 2 * MaxWrites + 1
Epochs == 0 .. MaxRestores
Counts == 0 .. MaxRestores

\* Readable: the tables exist.
Shared == [readable : BOOLEAN, epoch : Epochs, maint : Values, listed : SUBSET Backups]
Dump == [epoch : Epochs, maint : Values, listed : SUBSET Backups]
NoDump == [listed |-> {}]
Copy == [epoch : Epochs, maint : Values, synced : Counts]

Blank == [epoch |-> 0, maint |-> Off, synced |-> 0]
NoRefresh == [step |-> "idle"]
NoRequest == [step |-> "idle"]
NoAdmin == [node |-> "none"]
NoRestore == [step |-> "idle"]

ClusterInit ==
    /\ db = [readable |-> TRUE, epoch |-> 0, maint |-> Off, listed |-> {}]
    /\ dump = [b \in Backups |-> NoDump]
    /\ restore = NoRestore
    /\ ram = [n \in Nodes |-> Blank]
    /\ up = Nodes
    /\ bell = {}
    /\ refresh = [n \in Nodes |-> [t \in Slots |-> NoRefresh]]
    /\ admin = [a \in Admins |-> NoAdmin]
    /\ req = [n \in Nodes |-> NoRequest]
    /\ writes = 0 /\ tries = 0
    /\ committed = {Off}
    /\ rotations = 0
    /\ rewound = FALSE
    /\ stale = {}

\* No restoration runs; one that failed leaves a database that is not whole.
InRestore(step) == restore.step = step
NoRestoration == InRestore("idle") \/ InRestore("failed")
Whole == InRestore("idle") \/ InRestore("rotated")

\* pg_notify reaches the nodes whose LISTEN connection works when the transaction
\* commits: any of them.  What comes before the last one was handled counts once.
Notify == \E N \in SUBSET up : bell' = bell \cup N

-----------------------------------------------------------------------------
(* ClusterSync *)

\* A mistake: an error ends the loop.
ReadEpochOrDie(n, t) ==
    /\ n \in up /\ refresh[n][t] = NoRefresh
    /\ t # Loop => n \in bell
    /\ bell' = IF t = Loop THEN bell ELSE bell \ {n}
    /\ refresh' = [refresh EXCEPT ![n][t] =
         IF db.readable THEN [step |-> "half", epoch |-> db.epoch, synced |-> rotations]
                        ELSE [step |-> "dead"]]
    /\ UNCHANGED <<shared, ram, up, admin, req, counts, history>>

\* _refresh_from_db reads two rows by two statements.  A task of its own reads for
\* every notification (_on_notify), the loop every 5 seconds and when the
\* connection was lost.
ReadEpoch(n, t) ==
    /\ n \in up /\ refresh[n][t] = NoRefresh
    /\ t # Loop => n \in bell
    /\ bell' = IF t = Loop THEN bell ELSE bell \ {n}
    /\ refresh' = [refresh EXCEPT ![n][t] =
         IF db.readable THEN [step |-> "half", epoch |-> db.epoch, synced |-> rotations]
                        ELSE NoRefresh]
    /\ UNCHANGED <<shared, ram, up, admin, req, counts, history>>

ReadMaintenance(n, t) ==
    LET r == refresh[n][t] IN
    /\ n \in up /\ r.step = "half"
    /\ refresh' = [refresh EXCEPT ![n][t] =
         IF db.readable THEN [step |-> "read", epoch |-> r.epoch, synced |-> r.synced,
                              maint |-> db.maint]
                        ELSE NoRefresh]
    /\ UNCHANGED <<shared, ram, up, bell, admin, req, counts, history>>

\* update_from_db assigns what was read, in whatever order it comes.
UpdateFromDb(n, t) ==
    LET r == refresh[n][t] IN
    /\ n \in up /\ r.step = "read"
    /\ ram' = [ram EXCEPT ![n] = [epoch |-> r.epoch, maint |-> r.maint, synced |-> r.synced]]
    /\ refresh' = [refresh EXCEPT ![n][t] = NoRefresh]
    /\ UNCHANGED <<shared, up, bell, admin, req, counts, history>>

StopNode(n) ==
    /\ n \in up
    /\ up' = up \ {n}
    /\ ram' = [ram EXCEPT ![n] = Blank]
    /\ bell' = bell \ {n}
    /\ refresh' = [refresh EXCEPT ![n] = [t \in Slots |-> NoRefresh]]
    /\ admin' = [a \in Admins |-> IF admin[a].node = n THEN NoAdmin ELSE admin[a]]
    /\ req' = [req EXCEPT ![n] = NoRequest]
    /\ UNCHANGED <<shared, counts, history>>

\* start(): the node takes requests when a first refresh has succeeded; a change
\* between its two reads is the business of the refreshes that follow.
StartNode(n) ==
    /\ n \notin up /\ db.readable
    /\ up' = up \cup {n}
    /\ ram' = [ram EXCEPT ![n] = [epoch |-> db.epoch, maint |-> db.maint, synced |-> rotations]]
    /\ UNCHANGED <<shared, bell, refresh, admin, req, counts, history>>

-----------------------------------------------------------------------------
(* POST /admin/maintenance/enable and /disable, on any node *)

\* A mistake: memory is assigned first, and the transaction may fail.
AssignFirst(n, a, on) ==
    LET m == 2 * (writes + 1) - (IF on THEN 1 ELSE 0) IN
    /\ n \in up /\ db.readable /\ admin[a] = NoAdmin /\ writes < MaxWrites
    /\ writes' = writes + 1
    /\ ram' = [ram EXCEPT ![n].maint = m]
    /\ UNCHANGED <<shared, up, bell, refresh, admin, req, tries, history>>

\* The value and its notification commit together; then the node assigns it.
SetMaintenance(n, a, on) ==
    LET m == 2 * (writes + 1) - (IF on THEN 1 ELSE 0) IN
    /\ n \in up /\ db.readable /\ admin[a] = NoAdmin /\ writes < MaxWrites
    /\ writes' = writes + 1
    /\ db' = [db EXCEPT !.maint = m]
    /\ committed' = committed \cup {m}
    /\ Notify
    /\ admin' = [admin EXCEPT ![a] = [node |-> n, maint |-> m]]
    /\ UNCHANGED <<dump, restore, ram, up, refresh, req, tries,
                   rotations, rewound, stale>>

AssignMaintenance(a) ==
    /\ admin[a] # NoAdmin
    /\ ram' = [ram EXCEPT ![admin[a].node].maint = admin[a].maint]
    /\ admin' = [admin EXCEPT ![a] = NoAdmin]
    /\ UNCHANGED <<shared, up, bell, refresh, req, counts, history>>

-----------------------------------------------------------------------------
(* cluster_coherence_middleware.  A node takes requests once start() has assigned
   its memory (lifespan awaits it, and its error stops the node), so the branch of
   a memory that was never synced, for an application without lifespan, is not
   reached here. *)

\* The restorations that have ended, while no other one replaces the tables.
Ended == IF Whole THEN rotations ELSE 0

\* The handler runs on the memory of n: is it older than the restorations seen?
\* It was let through "open", with no comparison, or "compared".
Handle(n, way, seen) ==
    stale' = IF ram[n].synced < seen THEN stale \cup {way} ELSE stale

\* The health and configuration paths and those of the administration pass before
\* anything is looked at.
PassExempt(n) ==
    /\ n \in up /\ req[n] = NoRequest
    /\ Handle(n, "open", Ended)
    /\ UNCHANGED <<shared, node, counts, committed, rotations, rewound>>

\* The epoch cannot be read: the tables are missing, or get_pool, the connection
\* or the statement fails.  The request goes through: if the database is back when
\* its handler runs, it is served.
PassUnread(n) ==
    /\ n \in up /\ req[n] = NoRequest
    /\ ~Active(ram[n].maint)
    /\ Handle(n, "open", Ended)
    /\ UNCHANGED <<shared, node, counts, committed, rotations, rewound>>

\* The maintenance mode of the memory first, then the epoch of the database.
Admit(n) ==
    /\ n \in up /\ req[n] = NoRequest
    /\ ~Active(ram[n].maint)
    /\ db.readable
    /\ req' = [req EXCEPT ![n] = [step |-> "compare", epoch |-> db.epoch, seen |-> Ended]]
    /\ UNCHANGED <<shared, ram, up, bell, admin, refresh, counts, history>>

\* A mistake: a node whose epoch is one behind is taken for coherent.
AlmostCoherent(n, e) == ram[n].epoch + 1 >= e

IsEpochCoherent(n, e) == ram[n].epoch >= e

\* 503 node_epoch_incoherent, or the handler runs, on what the node has.
Serve(n) ==
    LET r == req[n] IN
    /\ n \in up /\ r.step = "compare"
    /\ req' = [req EXCEPT ![n] = NoRequest]
    /\ IF IsEpochCoherent(n, r.epoch) THEN Handle(n, "compared", r.seen) ELSE UNCHANGED stale
    /\ UNCHANGED <<shared, ram, up, bell, refresh, admin, counts, committed, rotations, rewound>>

-----------------------------------------------------------------------------
(* Backups *)

\* pg_dump sees one snapshot; the row of the backup is inserted after it.  A
\* backup taken while another call restores is left out.  A
\* backup that no row lists any more, here or in a dump, is out of reach: b is
\* free again.
CreateBackup(b) ==
    /\ db.readable /\ NoRestoration
    /\ b \notin db.listed
    /\ \A d \in Backups : b \notin dump[d].listed
    /\ dump' = [dump EXCEPT ![b] = [epoch |-> db.epoch, maint |-> db.maint,
                                    listed |-> db.listed]]
    /\ db' = [db EXCEPT !.listed = @ \cup {b}]
    /\ UNCHANGED <<restore, node, counts, history>>

GoTo(step) == restore' = [restore EXCEPT !.step = step]

\* restore_backup: DROP SCHEMA public CASCADE ...
DropSchema(b) ==
    /\ NoRestoration /\ db.readable
    /\ b \in db.listed
    /\ tries < MaxRestores
    /\ tries' = tries + 1
    /\ restore' = [step |-> "dropped", backup |-> b]
    /\ db' = [readable |-> FALSE, epoch |-> 0, maint |-> Off, listed |-> {}]
    /\ UNCHANGED <<dump, node, writes, history>>

\* ... then psql creates the tables, all empty: an epoch that is not there reads
\* as 0, a maintenance mode as inactive ...
CreateTables ==
    /\ InRestore("dropped")
    /\ db' = [db EXCEPT !.readable = TRUE]
    /\ GoTo("empty")
    /\ UNCHANGED <<dump, node, counts, history>>

\* ... and fills them, in the order of their names: backups_local and
\* server_session_epoch first, system_metadata after.
FillEpoch ==
    LET d == dump[restore.backup] IN
    /\ InRestore("empty")
    /\ db' = [db EXCEPT !.listed = d.listed, !.epoch = d.epoch]
    /\ GoTo("epoch")
    /\ UNCHANGED <<dump, node, counts, history>>

\* A maintenance mode written meanwhile stays: the COPY fails on its key, and psql
\* goes on.
FillMetadata ==
    /\ InRestore("epoch")
    /\ db' = [db EXCEPT !.maint = IF @ = Off THEN dump[restore.backup].maint ELSE @]
    /\ GoTo("filled")
    /\ UNCHANGED <<dump, node, counts, history>>

\* rotate_session_epoch: the epoch of the dump, plus one.  The connection is in
\* no transaction: the notification is another one.
RotateSessionEpoch ==
    LET e == db.epoch + 1 IN
    /\ InRestore("filled")
    /\ db' = [db EXCEPT !.epoch = e]
    /\ rotations' = rotations + 1
    /\ rewound' = (rewound \/ e <= rotations)
    /\ GoTo("rotated")
    /\ UNCHANGED <<dump, node, counts, committed, stale>>

NotifyEpochChanged ==
    /\ InRestore("rotated")
    /\ Notify
    /\ restore' = NoRestore
    /\ UNCHANGED <<db, dump, ram, up, refresh, admin, req, counts, history>>

\* psql fails, or the node that restores stops: what was done is kept.
RestoreFails ==
    /\ ~NoRestoration
    /\ IF InRestore("rotated") THEN restore' = NoRestore ELSE GoTo("failed")
    /\ UNCHANGED <<db, dump, node, counts, history>>

-----------------------------------------------------------------------------
Sync(n) ==
    \/ \E t \in Slots :
         ReadEpoch(n, t) \/ ReadMaintenance(n, t) \/ UpdateFromDb(n, t)
    \/ StopNode(n) \/ StartNode(n)

Maintenance(a) ==
    AssignMaintenance(a) \/ \E n \in Nodes, on \in BOOLEAN : SetMaintenance(n, a, on)

Middleware(n) == PassExempt(n) \/ PassUnread(n) \/ Admit(n) \/ Serve(n)

RestoreSteps ==
    \/ CreateTables \/ FillEpoch \/ FillMetadata
    \/ RotateSessionEpoch \/ NotifyEpochChanged \/ RestoreFails

ClusterNext ==
    \/ \E n \in Nodes : Sync(n) \/ Middleware(n)
    \/ \E a \in Admins : Maintenance(a)
    \/ \E b \in Backups : CreateBackup(b) \/ DropSchema(b)
    \/ RestoreSteps

ClusterSpec == ClusterInit /\ [][ClusterNext]_clusterVars

\* The event loop of a node runs the tasks that are ready; the loop of the
\* refreshes survives the errors; a restoration ends or fails.  A
\* notification may never come.
ClusterFairness ==
    /\ \A n \in Nodes :
         /\ \A t \in Slots : WF_clusterVars(ReadEpoch(n, t) \/ ReadMaintenance(n, t) \/ UpdateFromDb(n, t))
    /\ \A a \in Admins : WF_clusterVars(AssignMaintenance(a))
    /\ WF_clusterVars(RestoreSteps)

ClusterFairSpec == ClusterSpec /\ ClusterFairness

-----------------------------------------------------------------------------
(* Properties *)

Refreshing ==
    {NoRefresh} \cup [step : {"half"}, epoch : Epochs, synced : Counts]
    \cup [step : {"read"}, epoch : Epochs, synced : Counts, maint : Values]

Requests ==
    {NoRequest} \cup [step : {"compare"}, epoch : Epochs, seen : Counts]

ClusterTypeOK ==
    /\ db \in Shared
    /\ dump \in [Backups -> Dump \cup {NoDump}]
    /\ restore = NoRestore \/ restore \in
         [step : {"dropped", "empty", "epoch", "filled", "rotated", "failed"}, backup : Backups]
    /\ ram \in [Nodes -> Copy]
    /\ bell \subseteq up /\ up \subseteq Nodes
    /\ refresh \in [Nodes -> [Slots -> Refreshing]]
    /\ admin \in [Admins -> {NoAdmin} \cup [node : up, maint : Values]]
    /\ req \in [Nodes -> Requests]
    /\ writes \in Nat /\ tries \in Nat
    /\ committed \subseteq Values
    /\ rotations \in Counts /\ rewound \in BOOLEAN
    /\ stale \subseteq {"open", "compared"}

\* A node never takes for the maintenance mode a value that no transaction
\* committed, however its refreshes, the calls it serves and the restorations
\* follow one another (the rule of cluster_notify.py).
MirrorsCommitted ==
    \A n \in Nodes : ram[n].maint \in committed

\* Of the requests whose epoch could be compared, a node whose memory is older than
\* a restoration that has ended serves none (I-3), but while another one replaces
\* the tables.  It holds as long as no rotation gives an epoch that was used before.
\* It says nothing of the exempt paths, nor of a request whose read of the epoch
\* failed: those are served by a stale node too.
StaleNodeRefuses == "compared" \in stale => rewound

\* Without those conditions, as the middleware and session_epoch.py say it.
RestoreInvalidates == stale = {}

\* The copies converge: when nothing writes any more and the tables exist, every
\* running node has the shared state for good, whatever notifications it missed
\* and in whatever order its refreshes ended.
Converges ==
    <>[](db.readable =>
            \A n \in up : ram[n].epoch = db.epoch /\ ram[n].maint = db.maint)

=============================================================================
