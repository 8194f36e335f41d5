---------------------------- MODULE PairingExec ----------------------------
(***************************************************************************)
(* How an instance becomes a standby once its pairing is accepted:          *)
(* services/pairing_exec (the orchestrator, its nine steps and the two      *)
(* executors), its WebSocket (api/v1/admin_pairing_exec.py), the pool it    *)
(* renews (db/pool.py), the same steps done by hand with the wizard's       *)
(* cursor (advance_step and back_step of services/pairing.py), and the      *)
(* promotion (services/streaming_replication.py).                           *)
(*                                                                          *)
(* The backend runs in the database it replaces: the session of the pairing *)
(* is a row of it, and the socket keeps one of its connections.  Nothing    *)
(* prevents two sockets from running together, and a socket starts at the   *)
(* step its client asks for.                                                *)
(*                                                                          *)
(* Postgres and Docker are modelled from what the steps do with them.  A    *)
(* step that fails changes nothing: pg_basebackup removes what it created.  *)
(***************************************************************************)
EXTENDS Naturals, FiniteSets

CONSTANTS
    Sockets,   \* slots for WebSockets
    Froms,     \* the steps at which clients ask to start
    StepCalls, \* slots for "done" and "back" calls in progress
    Total      \* number of steps of the wizard

ASSUME StepAssumption == Froms \subseteq 0..8 /\ Total \in Nat \ {0}

VARIABLES
    pg,        \* the database that Postgres serves
    dir,       \* the database in the data directory
    baks,      \* those in the directories that were moved away
    override,  \* is the master's password in the override file?
    pool,      \* the password of the pool, or what it is doing
    held,      \* does another request hold a connection of the pool?
    sock,      \* the sockets
    resumed,   \* did a client ever ask for another step than the first? (history)
    ownSession,\* the row of the session, in the instance's own database
    stepCall,  \* calls between their read of the cursor and their update
    reported   \* the steps that calls reported as done (history)

filesVars == <<pg, dir, baks, override>>
runVars == <<sock, pool, held, resumed>>
wizardVars == <<ownSession, stepCall, reported>>
execVars == <<filesVars, runVars, wizardVars>>

-----------------------------------------------------------------------------
(* State *)

\* own: what the instance had; copy: a base backup of the master, in recovery;
\* promoted: a copy that left recovery; fresh: what the image creates in an
\* empty directory.
Databases == {"own", "copy", "promoted", "fresh"}

NoSocket == [pc |-> "none", step |-> 0, conn |-> FALSE]
Socket == [pc : {"opened", "ready", "started", "closing", "closed", "creating"},
           step : 0..8, conn : BOOLEAN]
NoStepCall == [op |-> "idle"]
StepCall == [op : {"done", "back"}, idx : Nat]

ExecInit ==
    /\ pg = "own" /\ dir = "own" /\ baks = {}
    /\ override = FALSE
    /\ pool = "own" /\ held = FALSE
    /\ sock = [s \in Sockets |-> NoSocket]
    /\ resumed = FALSE
    /\ ownSession = [cursor |-> 0, completed |-> FALSE]
    /\ stepCall = [c \in StepCalls |-> NoStepCall]
    /\ reported = {}

\* A base backup has the roles of the master, with their passwords.
Password == IF pg \in {"copy", "promoted"} THEN "master" ELSE "own"
Usable == pg # "down" /\ pool = Password

\* The row of the session is only in the own database.
HasSession == Usable /\ pg = "own"

\* effective_db_dsn, and create_pool, which connects.
NewPool ==
    LET p == IF override THEN "master" ELSE "own" IN
    IF pg # "down" /\ p = Password THEN p ELSE "none"

-----------------------------------------------------------------------------
(* What the commands do *)

\* A mistake: the connection of the socket outlives the server.
StopGently(ready) ==
    /\ pg' = "down"
    /\ sock' = ready
    /\ stepCall' = [c \in StepCalls |-> NoStepCall]
    /\ held' = FALSE
    /\ UNCHANGED <<dir, baks, override>>

\* docker stop: every connection is lost, which gives those of the pool back.
Stop(ready) ==
    /\ pg' = "down"
    /\ sock' = [t \in Sockets |-> [ready[t] EXCEPT !.conn = FALSE]]
    /\ stepCall' = [c \in StepCalls |-> NoStepCall]
    /\ held' = FALSE
    /\ UNCHANGED <<dir, baks, override>>

\* A mistake: one backup directory, removed before the move.
MoveOverBackup ==
    /\ dir # "none"
    /\ baks' = {dir}
    /\ dir' = "none"
    /\ UNCHANGED <<pg, override>>

\* mv data data.bak.<seconds>; a server that runs goes on in the moved directory.
Move ==
    /\ dir # "none"
    /\ baks' = baks \cup {dir}
    /\ dir' = "none"
    /\ UNCHANGED <<pg, override>>

\* pg_basebackup refuses a directory that has files.
Copy ==
    /\ dir = "none"
    /\ dir' = "copy"
    /\ UNCHANGED <<pg, baks, override>>

\* docker start does nothing to a container that runs, and creates the directory
\* that it mounts.
Start ==
    /\ dir' = IF pg = "down" /\ dir = "none" THEN "fresh" ELSE dir
    /\ pg' = IF pg = "down" THEN dir' ELSE pg
    /\ UNCHANGED <<baks, override>>

-----------------------------------------------------------------------------
(* The socket *)

Stays == UNCHANGED <<pool, held, resumed, wizardVars>>

\* The token and the session are read in the database, and the connection is
\* kept until the end.
Open(s) ==
    /\ sock[s] = NoSocket
    /\ HasSession
    /\ sock' = [sock EXCEPT ![s] = [pc |-> "opened", step |-> 0, conn |-> TRUE]]
    /\ UNCHANGED filesVars
    /\ Stays

FirstFrame(s, n) ==
    /\ sock[s].pc = "opened"
    /\ sock' = [sock EXCEPT ![s].pc = "ready", ![s].step = n]
    /\ resumed' = (resumed \/ n # 0)
    /\ UNCHANGED <<filesVars, pool, held, wizardVars>>

\* A step fails, or the event cannot be sent because the client has left.
Close(s) ==
    /\ sock[s].pc \in {"opened", "ready", "started"}
    /\ sock' = [sock EXCEPT ![s] = NoSocket]
    /\ UNCHANGED filesVars
    /\ Stays

At(s, n) == sock[s].pc = "ready" /\ sock[s].step = n

\* step_done, and step_started of the next one.
Onwards(s) ==
    /\ sock' = [sock EXCEPT ![s].step = @ + 1]
    /\ Stays

VerifyMasterReachable(s) == At(s, 0) /\ UNCHANGED filesVars /\ Onwards(s)

StopPg(s) ==
    /\ At(s, 1)
    /\ Stop([sock EXCEPT ![s].step = 2])
    /\ UNCHANGED <<pool, resumed, ownSession, reported>>

BackupDataDir(s) == At(s, 2) /\ Move /\ Onwards(s)
PgBasebackup(s) == At(s, 3) /\ Copy /\ Onwards(s)
VerifyStandbySignal(s) == At(s, 4) /\ dir = "copy" /\ UNCHANGED filesVars /\ Onwards(s)

VerifyAutoConf(s) ==
    /\ At(s, 5)
    /\ dir \in {"copy", "promoted"}
    /\ UNCHANGED filesVars
    /\ Onwards(s)

WriteDbCredentialsOverride(s) ==
    /\ At(s, 6)
    /\ override' = TRUE
    /\ UNCHANGED <<pg, dir, baks>>
    /\ Onwards(s)

StartPg(s) ==
    /\ At(s, 7)
    /\ Start
    /\ sock' = [sock EXCEPT ![s].pc = "started"]
    /\ Stays

\* pg_isready did not answer in time.
StartTimesOut(s) ==
    /\ At(s, 7)
    /\ Start
    /\ sock' = [sock EXCEPT ![s] = NoSocket]
    /\ Stays

\* The last step: execution_complete.
VerifyStreaming(s) ==
    /\ At(s, 8)
    /\ pg = "copy"
    /\ sock' = [sock EXCEPT ![s] = NoSocket]
    /\ UNCHANGED filesVars
    /\ Stays

-----------------------------------------------------------------------------
(* refresh_pool, the hook of step 7, whose errors are only logged *)

OnPgStarted(s) ==
    /\ sock[s].pc = "started"
    /\ sock' = [sock EXCEPT ![s].pc = IF pool = "none" THEN "creating" ELSE "closing"]
    /\ pool' = IF pool = "none" THEN pool ELSE "closing"
    /\ UNCHANGED <<filesVars, held, resumed, wizardVars>>

\* Pool.close waits until every connection is given back, with no limit.
PoolCloses ==
    /\ \E s \in Sockets : sock[s].pc = "closing"
    /\ ~held
    /\ \A s \in Sockets : ~sock[s].conn
    /\ \A c \in StepCalls : stepCall[c] = NoStepCall
    /\ sock' = [s \in Sockets |-> IF sock[s].pc = "closing"
                                    THEN [sock[s] EXCEPT !.pc = "closed"] ELSE sock[s]]
    /\ UNCHANGED filesVars
    /\ Stays

\* Whatever _pool is by now.
ForgetPool(s) ==
    /\ sock[s].pc = "closed"
    /\ sock' = [sock EXCEPT ![s].pc = "creating"]
    /\ pool' = "none"
    /\ UNCHANGED <<filesVars, held, resumed, wizardVars>>

InitPool(s) ==
    /\ sock[s].pc = "creating"
    /\ sock' = [sock EXCEPT ![s].pc = "ready", ![s].step = 8]
    /\ pool' = IF pool = "none" THEN NewPool ELSE pool
    /\ UNCHANGED <<filesVars, held, resumed, wizardVars>>

\* The other requests of the backend take connections of a pool that works, and give
\* them back when they like: one may wait for something else meanwhile.
TakeConnection ==
    /\ Usable /\ ~held
    /\ held' = TRUE
    /\ UNCHANGED <<filesVars, sock, pool, resumed, wizardVars>>

GiveConnection ==
    /\ held
    /\ held' = FALSE
    /\ UNCHANGED <<filesVars, sock, pool, resumed, wizardVars>>

RestartBackend ==
    /\ sock' = [s \in Sockets |-> NoSocket]
    /\ stepCall' = [c \in StepCalls |-> NoStepCall]
    /\ pool' = NewPool /\ held' = FALSE
    /\ UNCHANGED <<filesVars, resumed, ownSession, reported>>

-----------------------------------------------------------------------------
(* By hand: the commands that the wizard shows, at any time, and going back to a backup *)

StopByHand ==
    /\ pg # "down"
    /\ Stop(sock)
    /\ UNCHANGED <<pool, resumed, ownSession, reported>>

ByHand ==
    /\ Move \/ Copy \/ Start
    /\ UNCHANGED <<runVars, wizardVars>>

Rollback ==
    /\ pg = "down"
    /\ "own" \in baks
    /\ dir' = "own"
    /\ baks' = (baks \ {"own"}) \cup ({dir} \ {"none"})
    /\ UNCHANGED <<pg, override, runVars, wizardVars>>

-----------------------------------------------------------------------------
(* The cursor of the wizard *)

\* advance_step and back_step compare the index with the row, and then write.
\* The page has no button left once the cursor is past the last step.
AskStep(c, op, idx) ==
    /\ stepCall[c] = NoStepCall
    /\ HasSession
    /\ idx = ownSession.cursor
    /\ op = "back" => idx > 0
    /\ stepCall' = [stepCall EXCEPT ![c] = [op |-> op, idx |-> idx]]
    /\ UNCHANGED <<filesVars, runVars, ownSession, reported>>

AnswerStep(c) ==
    /\ stepCall' = [stepCall EXCEPT ![c] = NoStepCall]
    /\ UNCHANGED <<filesVars, runVars>>

\* A mistake: the row is incremented, whatever was compared.
AdvanceRow(c) ==
    /\ stepCall[c].op = "done"
    /\ ownSession' = [cursor |-> ownSession.cursor + 1,
                      completed |-> ownSession.completed \/ ownSession.cursor + 1 >= Total]
    /\ reported' = reported \cup {stepCall[c].idx}
    /\ AnswerStep(c)

\* One more than what was compared; the last step completes the session and
\* marks the instance as a standby, in this database.
AdvanceStep(c) ==
    /\ stepCall[c].op = "done"
    /\ ownSession' = [cursor |-> stepCall[c].idx + 1,
                      completed |-> ownSession.completed \/ stepCall[c].idx + 1 >= Total]
    /\ reported' = reported \cup {stepCall[c].idx}
    /\ AnswerStep(c)

BackStep(c) ==
    /\ stepCall[c].op = "back"
    /\ ownSession' = [ownSession EXCEPT !.cursor = stepCall[c].idx - 1]
    /\ UNCHANGED reported
    /\ AnswerStep(c)

StepFails(c) == stepCall[c] # NoStepCall /\ AnswerStep(c) /\ UNCHANGED <<ownSession, reported>>

-----------------------------------------------------------------------------
(* Promotion *)

\* pg_promote, in the directory the server runs in.
PromoteStandbyToMaster ==
    /\ Usable
    /\ pg = "copy"
    /\ pg' = "promoted"
    /\ \/ dir = "copy" /\ dir' = "promoted" /\ baks' = baks
       \/ "copy" \in baks /\ baks' = baks \cup {"promoted"} /\ dir' = dir
    /\ UNCHANGED <<override, runVars, wizardVars>>

-----------------------------------------------------------------------------
ExecStep(s) ==
    \/ VerifyMasterReachable(s) \/ StopPg(s) \/ BackupDataDir(s) \/ PgBasebackup(s)
    \/ VerifyStandbySignal(s) \/ VerifyAutoConf(s) \/ WriteDbCredentialsOverride(s)
    \/ StartPg(s) \/ StartTimesOut(s) \/ VerifyStreaming(s)
    \/ Close(s)

RefreshPool(s) == OnPgStarted(s) \/ ForgetPool(s) \/ InitPool(s)

Advance(s) == ExecStep(s) \/ RefreshPool(s) \/ \E n \in Froms : FirstFrame(s, n)

WizardCall(c) == AdvanceStep(c) \/ BackStep(c) \/ StepFails(c)

ExecNext ==
    \/ \E s \in Sockets : Open(s) \/ Advance(s)
    \/ PoolCloses \/ TakeConnection \/ GiveConnection \/ RestartBackend
    \/ StopByHand \/ ByHand \/ Rollback
    \/ \E c \in StepCalls :
         \/ WizardCall(c)
         \/ \E op \in {"done", "back"}, idx \in 0..(Total - 1) : AskStep(c, op, idx)
    \/ PromoteStandbyToMaster

ExecSpec == ExecInit /\ [][ExecNext]_execVars

\* The event loop runs the hook on, as far as its waits let it: create_pool connects
\* with a timeout, and the statements of the pool have one of 30 seconds (command_
\* timeout).  Nothing says that a client sends its first frame, that the command of a
\* step ends, nor that a request gives its connection back.
ExecFairness ==
    /\ \A s \in Sockets : WF_execVars(RefreshPool(s))
    /\ \A c \in StepCalls : WF_execVars(WizardCall(c))
    /\ WF_execVars(PoolCloses)

ExecFairSpec == ExecSpec /\ ExecFairness

-----------------------------------------------------------------------------
(* Properties *)

ExecTypeOK ==
    /\ pg \in Databases \cup {"down"}
    /\ dir \in Databases \cup {"none"}
    /\ baks \subseteq Databases
    /\ override \in BOOLEAN
    /\ pool \in {"own", "master", "closing", "none"} /\ held \in BOOLEAN
    /\ sock \in [Sockets -> Socket \cup {NoSocket}]
    /\ resumed \in BOOLEAN
    /\ ownSession \in [cursor : 0..Total, completed : BOOLEAN]
    /\ stepCall \in [StepCalls -> StepCall \cup {NoStepCall}]
    /\ reported \subseteq 0..(Total - 1)

Stored == baks \cup {dir}

\* No run, from any step and beside any other, loses the only copy of a database
\* that was written to: it is in the data directory or in a backup, from which
\* an administrator can go back (backup_pg_data_dir).
DataKept ==
    [][\A d \in {"own", "promoted"} : d \in Stored => d \in Stored']_execVars

\* A session is completed, and its instance marked as a standby, only if each step
\* was reported as done, whatever calls race on the cursor (advance_step).
CompletedMeansReported == ownSession.completed => reported = 0..(Total - 1)

\* The client has not sent its first frame, or the command of a step has not ended:
\* docker_executor.py, native_executor.py and the socket wait for them with no limit.
AtCommand(s) == sock[s].pc \in {"opened", "ready"}

\* Another socket, or a request that waits for something else, has a connection.
OthersHold(s) == held \/ \E t \in Sockets \ {s} : sock[t].conn

\* When every run starts at the first step, a run ends, unless one command of it, its
\* client, or a connection that others hold keeps it for ever: the hook that renews
\* the pool never waits for the connection of its own socket, as the stop of
\* Postgres gave it back.  A run that starts later may wait for itself.
WholeRunsEnd ==
    [](~resumed) => \A s \in Sockets :
        \/ []<>(sock[s] = NoSocket)
        \/ <>[]AtCommand(s)
        \/ <>[]OthersHold(s)

\* What orchestrator.py says: a run that ended on an error can be resumed from any
\* of its steps; does not hold, as a socket reads its session in the database that
\* the run stopped.
Resumable ==
    [][\A s \in Sockets : sock[s].pc = "ready" /\ Close(s) => HasSession']_execVars

=============================================================================
