# Harpocrate: models, checks and proofs

Harpocrate is an end-to-end encrypted secret vault: a FastAPI backend on PostgreSQL
(`src/backend/app`), a React frontend, SDKs, and a cluster mode built on PostgreSQL
streaming replication or on an application-level replication over MQTT. The server never
sees a secret in clear; what it must get right is the *control* around the ciphertexts:
who holds which key, which request was answered, what was revoked, shared, recovered,
replicated, backed up. This directory models that control in TLA+, checks it with TLC and
proves most of it with TLAPS.

## 1. Inventory

| Part (backend/app) | State | Operations | What makes it hard | What makes it correct |
|---|---|---|---|---|
| Connect flow (`services/connect_*`, `api/v1/connect.py`) | `connect_requests`, `api_keys` rows | push, open, deny, create key, seal, exchange, purge loop | concurrent calls on one row, a clock read before the lock, a purge that lists without locking, lost answers | one answer per request, one delivery per key, a key belongs to who claimed the request |
| API key authentication (`core/api_key_auth.py`, `core/api_key_cache.py`) | in-process cache, `api_keys.revoked_at`, grants | validate, revoke, delete grant | awaits between the read and the cache fill, one cache per process, invalidation before the commit | a bound on how long a revoked key lives, no refusal of a live key |
| Wallets, grants, API keys (`services/{wallets,grants,api_keys}.py`) | rows, triggers that protect the owner's grant | create/update/delete grant, create/revoke key, soft delete, restore, purge, transfer | permissions checked outside the transaction that uses them | nobody gives what he never had; a lost grant takes the keys with it; a wallet is purged after a whole stay in the trash |
| Secrets and secret types (`services/{secrets,secret_types}.py`) | `secrets` rows, placeholders, links, versions of schemas | create, put, patch, populate, assign, delete, bulk import, import, export, lists by cursor | checks outside the transactions, a catalogue edited meanwhile, lists read across writes | links stay in their wallet, typed secrets stay readable, versions order the writes, an untouched secret is listed once |
| Accounts and recovery (`services/{auth,recovery}.py`) | `users`, `recovery_sessions`, what an account owns | bootstrap, passphrase, start, mail, read blobs, fail, complete, abandon | no row lock, several browsers, an abandonment that disables foreign keys, crashes between statements | the keys of an account fit together, a consumed session did its work, attempts are limited |
| Cluster state (`core/cluster_sync.py`, `cluster_state.py`, `middleware/cluster_coherence.py`) | copy in memory of epoch and maintenance | notify, periodic refresh, admit a request, restore | overlapping refreshes, lost notifications, a restoration in several steps | every node converges; a stale node refuses what it compares |
| MQTT replication (`core/sync_publisher.py`, `sync_consumer.py`, `services/sync_apply.py`) | `sync_log`, push cursor, shelf, position per peer | trigger, publish, shelve, apply, drain, reset | numbers taken before the commit, lost and repeated messages, crashes of both sides | a follower applies a prefix of its peer, each change once |
| Pairing (`services/pairing*.py`) | `pairing_session` rows on both sides | init, confirm, accept, wizard steps | two instances, a lost answer, several standbys | counted attempts are limited; a standby keeps credentials that are its own |
| Streaming replication (`services/streaming_replication.py`) | `replication_nodes`, roles and slots in PostgreSQL | add/remove/replace node, promote | a slot is not transactional | a node has its role; a node that streams stays |
| Pairing execution (`services/pairing_exec`, `db/pool.py`) | the data directory, its backups, the pool, a WebSocket | nine steps, pool renewal, commands by hand, rollback | the backend replaces the database it runs in | no database is lost; renewing the pool does not wait for itself |
| Backups (`services/backup.py`, `backup_lock.py`) | `backups_local`, files, session epoch | create, verify, restore | long dumps while users write | a restoration makes older nodes refuse |
| Scheduled backups, snapshots (`services/scheduled_backups*.py`, `snapshot_scheduler.py`, `gfs_rotation.py`) | `scheduled_backup` rows, an in-process lock, files | tick, run now, edit, miss policy, rotation | edits while a run is in progress, skipping when nothing changed, a lock held across uploads, a pool of connections | one dump at a time; a recorded slot is not run again; a due schedule is served |
| Identity governance, audit log, anomalies, environments, remote destinations, OAuth sessions | rows | CRUD | little concurrency | — |
| Rate limit, notifications, configuration | library counters, external services | — | external | — |
| Frontend, browser cryptography, SDKs, CLI, infrastructure | — | clients of the API | — | — |

`PROJECT.json` lists every part with its status, and each hazard at the line where it bites.

### How the parts interact

* The connect flow inserts and revokes rows of `api_keys`, which the authentication reads
  through its cache; a deleted grant revokes the keys of its grantee (`services/grants.py`).
* A wallet, its grants and its keys hang on users; the deletion of an account
  (`abandon_account`) and the purge of a wallet remove them, and the secrets with the wallet.
* Secrets refer to versions of schemas; foreign keys protect what is referred to.
* Every write to `secrets`, `wallets`, `users`, `wallet_grants` goes through the trigger of
  migration 013, which feeds the MQTT replication.
* The backup schedulers share one in-process lock; a restoration rotates the session epoch,
  which the cluster state mirrors in every process and compares on every request.
* A pairing registers a standby on its master (row, role and slot); the execution of the pairing
  replaces the standby's own database by a copy, while the backend holds connections to it.

## 2. Plan

Most important behaviour first; a component's properties, mutants and proofs come with it.

1. `Connect` with its abstract `ConnectContract`; `ConnectProofs`. **Done.**
2. `ApiKeyAuth`; `ApiKeyAuthProofs`. **Done.**
3. `SyncReplication` with its abstract `ReplicationContract`; `SyncReplicationProofs`. **Done.**
4. `ScheduledBackups`; `BackupProofs`. **Done.**
5. `AccountRecovery`, `Pairing` over `ReplicationNodes`, `ClusterState`, with their proofs.
   **Done.**
6. `WalletSharing`, `Secrets` over `SecretTypes`, with their proofs. **Done.**
7. `PairingExec`; its proofs are in `PairingProofs`. **Done.**

Every invariant and every step property that a run checks is proved. The
registration of standbys has an abstract specification, `NodeLifecycle`, and its refinement. What
is left, in order: `GfsRotation` (a pure function against a reference definition); the
lifetime of keys through `Connect`, `WalletSharing` and `ApiKeyAuth` together.

## 3. Modules and code

A module `MCx` instantiates `x` for TLC; `xProofs` holds its theorems. Two modules of proofs
serve two parts each: `BackupProofs` extends `ScheduledBackups` and `ClusterState`, `PairingProofs`
extends `Pairing` and `PairingExec`, whose names therefore differ (`ClusterInit`, `ExecNext`). Operators introduced by
"A mistake" or "Wrong variant" are not part of any specification: each is a plausible bug,
defined next to what it would replace, and the properties are checked to see it.

The modules share a way of cutting the code. Asynchronous handlers interleave at each await, and
outside a transaction every SQL statement commits alone. A handler that checks first and writes
in a later transaction is two actions, with everything else in between; a handler that is one
statement, or that locks its rows, is one.

### Connect, ConnectContract, ConnectRefinement, MCConnect, ConnectProofs

| Model | Code |
|---|---|
| `req` | rows of `connect_requests` (migration 033); `codeExp` is `code_expires_at`, `jwe` is `sealed_jwe IS NOT NULL` |
| `apiKey` | rows of `api_keys` inserted by the flow |
| `call` | HTTP calls in progress, with the clock that `_now()` read **before** the row lock |
| `purge` | a purge transaction between its listing and its commit |
| `tokens`, `codes`, `received` | what reached the browser or the application; answers may be lost |
| `delivered`, `replayed` | history: keys once delivered, anomalies recorded; the loser of two exchanges of one code is among the latter (`connect_exchange.py:83`) |

Each handler is two steps, its arrival and its transaction: the transactions serialise on
`SELECT ... FOR UPDATE`, so a transaction is atomic, but the clock it compares with is older
than its turn. The purge takes no lock when it lists, so `PurgeList` and `PurgeCommit` are two
steps. `Abort`, `LoseAnswer` and `PurgeFail` are every failure before or after a commit. The loop of
the purge catches the errors of the database only (`connect_purge.py:36`): the `RuntimeError` that
`get_pool` raises while a pairing renews the pool (`pool.py:57`) ends it (`PurgeEnd`) until the
process is started again (`PurgeRestart`). Each process has a loop of its own (`Purgers`).
`ConnectContract` knows only consents and holders: it says that a user answers once, and that a
key is handed over once and only after a grant.

Left out: deletions that cascade from a user, a wallet or an application (the wallet and user
foreign keys are `ON DELETE CASCADE`, `api_key_id` is `ON DELETE SET NULL`); the values of
permissions and lifetimes (a call that exceeds them is an `Abort`); the PKCE computation (a call
has the right proof or not).

### ApiKeyAuth, MCApiKeyAuth, ApiKeyAuthProofs

| Model | Code |
|---|---|
| `key[k].revoked`, `.at` | `api_keys.revoked_at`, and when it committed |
| `rights[u]`, `lostAt` | what the grant of the owner covers, and when it was last lost |
| `cache[n]` | `_validation_cache` of process n |
| `call[c].pc` | the await at which a validation, a revocation or a deletion of a grant stands |

A validation is cut at each await: cache lookup, read of the key, fill of the cache, read of the
grant, answer. A revocation and a deletion of a grant touch the cache inside their transaction
(`RevokeInvalidate`, `UngrantInvalidate`) and commit later; `Abort` rolls back the rows and
leaves the cache as it is. Row locks (`Free`) order two transactions on one key. The session of
a user reaches the same routes (`Session`): its token is verified without the database, so what
its grant allows is read once, and no cache is in its way.

### WalletSharing, MCWalletSharing, WalletSharingProofs

| Model | Code |
|---|---|
| `wallet` | rows of `wallets`: owner, `deleted_at` |
| `grant`, `key` | rows of `wallet_grants` and `api_keys`, their permissions as sets of bits |
| `call` | a call that passed its checks (`Ask*`) and has not begun its transaction |
| `held`, `outAt`, `raced` | history: permissions once granted, last time out of the trash, keys inserted after the grant of their owner had gone or while it was being taken |

Every service reads the wallet, the caller's grant and the target, compares, and writes by
identifier in a later transaction; so each route is an `Ask` and a transaction
(`DeleteWallet`, `RestoreWallet`, `TransferOwnership`, `CreateGrant`, `UpdateGrant`, `DeleteGrant`,
`CreateApiKey`, `RevokeApiKey`), and `PurgeExpiredWallets` is one statement. The deletion of a grant
is a transaction of two statements at READ COMMITTED: `RevokeKeysOf` revokes the keys it sees
(`grants.py:326`) and keeps their rows locked (`Locked`), `DeleteGrant` takes the grant
(`grants.py:341`) and commits; a key committed between the two is in `raced`. `DeleteWallet` takes for
`deleted_at` any time between its start and its commit, as `NOW()` is the start of the transaction.
`writer` of a grant is history, who wrote its permissions last; `granted_by_user_id` is not changed
by an update and nothing reads it for a decision. A transaction fails
(`Fail`) when its row has gone or when a trigger of migration 001 refuses it. Left out: names and
descriptions, the tree of folders, the limit on public-key lookups.

### Secrets, SecretTypes, MCSecrets, SecretsProofs

| Model | Code |
|---|---|
| `secret` | rows of `secrets`: wallet, name, placeholder or value, version, link, type and schema version, `updated_at` |
| `schema`, `current`, `deprecated` | `secret_schemas` and `secret_types` |
| `call`, `edit` | routes, and edits of the catalogue, between their checks and their statement |
| `list` | a client that follows the cursor of a list, with what was there when it began |
| `answers` | history: the versions answered for each secret |

`SecretTypes` is the catalogue, `Secrets` extends it. What keeps the two coherent lies in the
database (foreign keys, the trigger `enforce_current_version_belongs_to_type`), and is the
guards of the transactions. `ImportWallet` inserts every secret as a placeholder of version 1, as
the code does. Values are ciphertexts, of which only the presence counts; tags, descriptions and
the contents of schemas are left out. Identifiers are ordered, as uuids are, since the cursor of a
list compares them; the initial rows obey the constraints of the migrations (`RowsAssumption`,
whose version is at least 1: `DEFAULT 1` at `001_schema_initial.sql:151`). Folders are prefixes (`Prefix`) and what LIKE makes of them
(`Like`).

### AccountRecovery, MCAccountRecovery, AccountRecoveryProofs

| Model | Code |
|---|---|
| `user` | rows of `users`: of a key pair only its number, for the public key, the private key under the passphrase (`bypass`) and under the words (`byrec`) |
| `session` | rows of `recovery_sessions`, with their background task and the fate of their mail |
| `wallet`, `grant`, `key` | what hangs on an account, as far as `abandon-account` removes it |
| `call` | a call between two statements, or a browser that holds a decrypted key |
| `mixed`, `reset`, `late` | history: rows to which a signed-in browser wrote another pair, sessions that wrote a passphrase, wallets inserted for, or transferred to, a user who was being removed |

`complete_session` reads, writes and consumes in three statements without a transaction
(`CompleteCheck`, `CompleteUpdate`, `MarkConsumed`); `abandon_account` deletes in one transaction
whose deletions see the rows of their moment (`AbandonSweep`, `AbandonCommit`), with
`session_replication_role = 'replica'`, so that no foreign key cascades. A transfer of ownership reads
its new owner and writes later (`AskTransfer`, `TransferOwnership`), so it may find him being
removed. `GetBlobs` refuses an account without a copy for the words (`recovery.py:331`). `Fail` and `Crash` stop
a call, a task or the process between any two statements.

### ClusterState, MCClusterState, BackupProofs

| Model | Code |
|---|---|
| `db` | the shared rows: session epoch, maintenance mode, backups listed; `readable` is whether the tables exist |
| `dump`, `restore` | what each backup holds; the restoration in progress, step by step |
| `ram`, `refresh`, `bell` | `cluster_state` of a node, its overlapping refreshes, a notification it has not handled |
| `admin`, `req` | maintenance calls between commit and assignment; a request in the middleware |
| `committed`, `rotations`, `rewound` | history |
| `stale` | history: how requests were served on a memory older than a restoration that has ended, `"open"` or `"compared"` |

A refresh is two SELECTs and an assignment; the loop's and those of notifications overlap. A
restoration drops the schema, creates the tables, fills them (the epoch and the metadata in an
order that pg_dump chooses), rotates the epoch to the dump's plus one, and notifies; it fails
anywhere. The middleware has three ways to let a request through: an exempt path, which looks at
nothing (`PassExempt`); an epoch that could not be read, whether the tables are missing or the read
failed (`PassUnread`); a comparison (`Admit`, `Serve`). Its fourth branch, a memory that was never
synced (`cluster_coherence.py:68`), is for an application without lifespan: `main.py:107` awaits the first
refresh before any request, and its failure stops the node.

### ReplicationNodes, Pairing, NodeLifecycle, PairingRefinement, MCPairing, PairingProofs

| Model | Code |
|---|---|
| `node`, `role`, `slot` | rows of `replication_nodes`, PostgreSQL roles, replication slots; a node is named by the random suffix of its role (`drawn`) |
| `streaming` | the roles whose standby holds its slot active |
| `request` | registrations and deletions in progress, step by step |
| `session`, `call` | pairing sessions of the master and the confirm calls on them |
| `waiting`, `wizard` | the standby's accept call and the session it keeps |
| `passed` | history: calls that found a session and were let past its threshold of attempts |

`ReplicationNodes` is the registration alone; `Pairing` extends it with both versions of the
pairing routes and with the administrator's. The first version looks a session up by its code
(`pairing.py:188`): a wrong code finds none, answers 403 and is counted nowhere (`AcceptUnknown`). Row and role belong to a transaction, the slot does
not (`CreateSlot`, `DropSlot`, `Break`). A forced registration deletes the node in its way and tries
again, with what other calls did in between.

`NodeLifecycle` is what an operator counts on, without transactions, requests or slots: the name of
a role is drawn once, reserved while its registration goes on, registered, then gone for good; an
application name has one registered node and one streaming standby at a time; a name that streams
is not removed. `PairingRefinement` reads the life of a name off the rows and the requests: it is
registered as long as its row is committed, and reserved as long as the registration that drew it
is neither answered nor broken.

### PairingExec, PairingProofs

| Model | Code |
|---|---|
| `pg`, `dir`, `baks`, `override` | what Postgres serves, the data directory, the directories moved away, the password override |
| `pool`, `held` | `db/pool.py`: whose password it has, or that it is closing; whether a request of another kind has a connection of it |
| `sock` | a WebSocket: its step, and whether it keeps a connection of the pool |
| `ownSession`, `stepCall`, `reported` | the wizard's cursor, the calls that move it, the steps reported (history) |
| `resumed` | history: a client asked for another step than the first |

The nine steps of both executors are actions, as are the hook that renews the pool after
step 7 (`OnPgStarted`, `PoolCloses`, `InitPool`), errors, disconnections, a restart of the backend,
each command typed by hand at any time (`ByHand`), the return to a backup (`Rollback`) and the
promotion. Two sockets that run together do to each other what commands by hand do at any time,
so the run has one. Docker, SSH and Postgres are modelled from what the steps do with them. Backups
are a set of kinds of database, so two promoted databases count as one; and the `rm -rf` that the
bundle of the first version shows to the administrator (`streaming_replication.py:154`) is not
among the commands by hand: it deletes the directory by design.

### SyncReplication, ReplicationContract, SyncReplicationRefinement, MCSyncReplication, SyncReplicationProofs

| Model | Code |
|---|---|
| `log`, `nextSeq` | `sync_log` and its `BIGSERIAL`, shared by changes, acknowledgements and rollbacks |
| `pub`, `batch`, `cursor`, `saved`, `reset` | the publisher loop, its cursor in memory and in `system_metadata`, the reset by an administrator (database first, memory next) |
| `net[m][n]` | what the broker holds of m for n; a message may be lost, kept or repeated |
| `applied`, `received`, `shelf` | `sync_replication_state`, `sync_shelf` |
| `worker` | where the consumer loop stands: at rest, applying, removing from the shelf, draining |
| `sent`, `late`, `waived` | history |

A number is taken when a row is inserted (`OpenChange`) and is visible to the publisher when the
transaction ends (`CloseChange`). Applying a change is two steps, its transaction and its commit,
between which the process may die (`Crash`). `IgnoreArrived` and `DrainIgnored` are the entity
types that the follower's version does not know. Left out: acknowledgement and `node_hello`
messages, which their receivers only log; what a payload does to the tables; `upsert_received` is
part of the shelving it follows.

### ScheduledBackups, MCScheduledBackups, BackupProofs

| Model | Code |
|---|---|
| `row` | the table `scheduled_backup`: expression, `enabled`, `next_run_at` |
| `edits` | next runs that an edit computed (`scheduled_backups.py:227`) and has not written (`:235`) |
| `holder`, `ahead`, `at` | the `asyncio.Lock` of `backup_lock.py`, who waits before whom, and what each worker does |
| `todo`, `running` | `due_rows` of a tick, as they were read; the row being run |
| `seen`, `change`, `backups` | what a dump in progress holds, the users' transactions, `backups_local` |
| `served`, `back` | history: slots recorded as run, and those of them that an edit wrote again afterwards |

The workers that share the lock are the loop of the scheduled backups, each call of `run-now`,
the snapshot scheduler and each `POST /admin/snapshots/trigger` (`Triggers`); `POST /admin/backups` dumps without the lock. Every early return,
error (`MarkFails`, a dump that is not recorded), cancellation of the snapshots' task and
restart is an action. A cron expression is a period and its slots are its multiples. A skip
compares timestamps; a backup keeps which changes had begun when it was recorded (`before`), which
is what the code looks at, and which ones its file gives back (`holds`), which is what matters.

An edit is two actions: `AskEdit` computes the next run in Python, `CreateSchedule` or
`UpdateSchedule` writes it at a later await, whatever the tick did in between. A scheduled or manual
run pushes its backup while it has the lock (`"upload"`). Of the pool, the model counts who keeps a
connection across an await on something else (`Keeps`): dumps, uploads, and a snapshot from its
first query on, while it waits for the lock included; any other use only needs one to be free
(`Room`). A restart whose `start()` fails leaves the application without the loop (`"off"`,
`main.py:121-124`).

A snapshot gives the lock back once it is recorded (`EndSnapshot`), and is pushed and rotated
without it (`PushSnapshot`, `RotateSnapshots`), while another worker dumps.

Merged: reading the due rows and testing the lock (`Tick`); testing for changes and starting
the dump; computing a next run and writing it in the tick itself (`Mark`: a slot that passes in
between is due at once); removing a file and its row. Left out: which snapshots the rotation drops (it drops any), the snapshot scheduler's
own test of what changed, the limit of 50 due rows (it only postpones),
a `pg_dump` that survives the cancellation of its task.

## 4. Runs

| Run | Instance | What it shows |
|---|---|---|
| `connect_races` | 2 users, 2 calls at a time, 2 keys, 1 request, 1 purge, clock 0..2; 502 k states | `OneDelivery`, `KeyOfItsOwner`, the contract is implemented |
| `connect_settles` | 1 user, 1 call, 2 purge loops that may end, fairness; 75 k states | as long as one purge loop goes on, a sealed key is delivered or revoked in the end (`SealedSettles`) |
| `api_key_auth_two_nodes` | 1 key, 2 processes, 2 calls, clock 0..5; 1.8 M states | no cache refuses a live key (`NoFalseRefusal`), bounds on how long a revoked key lives or a lost grant still admits, by key and by session (`RevocationBounded`, `GrantLossImmediate`) |
| `sync_replication_faults` | a writer of a newer version and a follower, 2 numbers, queues of 1, batches of 2, losses, repetitions, crashes, resets; 776 k states | one acknowledgement per change, the cursor passes only what was sent, the contract (a follower applies a prefix) is implemented |
| `scheduled_backups_lock` | 1 schedule, 1 manual call, the snapshots and 1 trigger, the API, 2 connections, 1 edit, 1 change, 1 restart, clock 0..2; 4.2 M states | the lock is held exactly by who works, a recorded slot is not run again unless a late edit wrote it |
| `scheduled_backups_served` | 1 schedule of period 1, 1 manual call, the snapshots, the API, 2 connections, 1 edit, 1 restart, clock 0..2, fairness; 156 k states | unless a dump or an upload hangs, the pool is starved or the loop is off, a due schedule is run or skipped and moved on, and a manual run ends |
| `wallet_sharing` | 3 users, 1 wallet, 3 grants, 1 key, 2 permissions, 2 calls at a time and 4 in all, clock 0..2; 135 k states | `NoAmplification`, `KeysFollowGrants`, `TrashWindowKept` |
| `secrets` | 2 wallets, 3 secrets, 2 names, 1 folder, RAW and 2 types with 3 versions, 2 calls and edits in all, pages of 1; 117 k states | `LinksStayInWallet`, `TypedSecretsReadable`, `VersionsGrow`, `UntouchedListedOnce` |
| `account_recovery` | 2 Keycloak accounts that share a wallet, the second without a copy for the words, 3 identifiers, 2 sessions, 2 wallets, 3 grants, 2 keys, 2 calls at a time and 4 in all, 2 attempts, clock 0..2; 613 k states | recovery never mixes two key pairs, a consumed session did its work, an abandoned account leaves no wallet but late ones, a mail is traced before it leaves |
| `cluster_state` | 1 node with its loop and 1 task, 1 administrator, 1 backup, 1 maintenance write, 2 restorations, fairness; 1.01 M states | memory only holds what was committed, a node behind a restoration refuses the requests whose epoch it compares, the copies converge |
| `pairing` | 2 standbys with one application name, 2 sessions, 2 calls, 1 administrator, 2 draws, 1 attempt, 1 question; 717 k states | the calls that find a session are bounded (`CountedCallsBounded`), credentials are one's own, a streaming node stays, the life of the names is implemented (`FollowsLifecycle`) |
| `pairing_exec` | 1 socket from any of its 9 steps, 2 calls on a wizard of 2 steps, 1 connection of others, fairness; 125 k states | no database is lost, only reported steps complete a session, a whole run ends unless a command, its client or a connection of others keeps it |

Every property has a mutant in `PROJECT.json`: a plausible bug of one definition, with which TLC
refutes the property under the configuration of its run.

**Bounds.** `MaxTime`, `MaxCalls`, `MaxRestarts`, `MaxWrites`, `MaxRestores`, `MaxAsked`, `MaxSeq`,
`MaxQueue` and `MaxEdits` are guards of the model and nothing of the code; the other numbers (`MaxAttempts`,
`Total`, `BatchSize`, `PageSize`, terms and windows) are the code's constants, made small. Why they
are enough:

* conflicts are between a call whose checks have passed and a transaction that commits before its
  own: two slots of calls give every pair of handlers in every order, and a third actor (the purge,
  an edit of the catalogue, an administrator) has a slot of its own. Where calls are counted, four
  allow two that prepare the state and two that race (a grant and a key, then a deletion and a
  transfer; a bootstrap and a recovery, then an abandonment and a completion). In `secrets` the
  initial state is already populated: a typed secret and one linked to it, which the first call can
  attack;
* the clocks reach one tick past the shortest term, so that each term is reached before, at and
  after a step that reads it; a wallet can be deleted, restored and deleted again within the window
  while the purge runs;
* a stale verdict needs a reader and a revoker, a second process for the absence of invalidation,
  and `Ttl + 2 * CallTime` ticks;
* two numbers suffice for a gap, a shelf and a batch with a late commit;
* one schedule, one edit in progress, one trigger and two connections already meet in every way that
  the properties distinguish: an edit late on a recorded slot, a holder of the lock without a
  connection while the others wait with theirs. That a tick with several due rows keeps them, in
  whatever order, is in the proof;
* two restorations of one dump are what makes an epoch come back;
* two standbys with one slug are the only way in which a registration meets another's node, and one
  tolerated attempt separates "counted" from "limited".

`pairing_exec` has no counter at all: its state space is finite. The theorems remove the bounds
where they exist (next section). Symmetry is used with invariants, and with action properties and
a refinement that are symmetric themselves, never with liveness. `CHECK_DEADLOCK FALSE` stands
where the calls are counted and may run out (`wallet_sharing`, `secrets`, `account_recovery`,
`cluster_state`, `pairing`).

**Fairness.**

* `PurgeFairness` (Connect): a purge loop that is not over comes round every 60 s, so a purge begins
  (weak) and commits some day (strong: the database is not unreachable for ever). Nothing says that
  a loop is not over, nor that its process is started again; `SealedSettles` therefore has the
  hypothesis that one loop goes on (`APurgeGoesOn`). `FairSpec` also restricts the browsers to the
  order of `frontend/src/lib/connectApprove.ts`: seal what the creation of the key answered
  (`SealsAfterToken`); other clients of these routes are in `Spec`, where safety is checked.
* `ScheduledBackups`: an `asyncio.Lock` wakes its waiters in order, hence `ahead` and weak fairness
  of the `Acquire` of somebody; a worker that needs a connection gets one in turn (strong, `LoopStep`,
  `ManualStep`); an update of the database succeeds some day (strong, `Mark`); a tick finds the lock
  free some day (strong, `Tick`). The last one is an assumption about the load and not a guarantee of
  the code: a tick gives up when the lock is held (`scheduled_backups_scheduler.py:142`), so manual runs
  that follow one another at each tick would postpone the schedules without end. Nothing is
  assumed of pg_dump, of an upload (SFTP has no timeout, `sftp.py:93,197`), of the start of the loop or of
  who keeps a connection. What the code then allows is written in the properties: `Hangs`,
  `PoolStarved` and, for the schedules, `LoopOff`. `DueIsSettled` and `RunNowEnds` show that nothing
  else does it: no skip, error, cancellation, restart or edit leaves a schedule due or a manual run
  waiting for ever.
* `ClusterState`: the event loop of a node runs what is ready and the loop of the refreshes survives
  its errors; a call that committed assigns its value; a restoration ends or fails. Nothing is
  assumed of the notifications, which may all be lost. Writes stop, as `MaxWrites` and `MaxRestores`
  are finite, which is the hypothesis of convergence.
* `PairingExec`: the hook that renews the pool goes on (`create_pool` connects with a timeout), the
  statements of the wizard have the `command_timeout` of the pool, a pool whose connections are all
  given back closes. Nothing is assumed of the client, of the commands of the steps
  (`docker_executor.py:338`, `native_executor.py:79` and `admin_pairing_exec.py:106` wait without a limit), of
  commands by hand, or of other requests that have a connection. `WholeRunsEnd` names those waits
  (`AtCommand`, `OthersHold`) and says that there is no other: in a behaviour in which every run
  starts at step 0, `refresh_pool` never waits for the connection of its own socket. One that
  starts later may (6.).

No fairness is assumed of users or administrators.

## 5. Proofs

For any sets of constants, and without the bounds, which are only guards. The assumptions are those
named in the modules: `None` is no identifier, durations and bounds are naturals, periods and
attempts are positive, the workers (and the requests of calls and of administrators) are distinct,
each label has a slug, the initial rows of `AccountRecovery` are consistent (`RowsAssumption`).

Each part has one inductive invariant, from which everything else follows; the one of `Secrets`
rests on another, of the catalogue alone.

* **`ConnectProofs`**: `TypeOK`, `OneDelivery`, `KeyOfItsOwner`, `RowConsistent`, `CodeWindow`,
  `AnswerIsFinal` and the refinement `ImplementsContract`. `Inv` adds that an
  attached key exists and, while its request is open, was never delivered (`AttachedKeys`); that
  whatever an application receives was first marked delivered (`DeliveredFirst`); that a reference
  being pushed is nobody else's (`FreshReferences`). Without them an exchange could deliver a key
  again, or an insertion could overwrite a row. Each step of the refinement is a step of the
  contract or a stutter (`ContractStep`), and no step changes an answer (`FinalAnswer`).
* **`ApiKeyAuthProofs`**: `TypeOK`, `RevocationBounded`, `GrantLossImmediate`, `NoFalseRefusal`.
  `StaleVerdicts` bounds a stale verdict along its way: in the hands of the request that read it,
  in a cache, in the hands of a request that found it; `Timely` says that requests are bounded
  and history is past.
* **`BackupProofs`**, scheduled backups: `TypeOK`, `LockHeldAtWork`, `OneDump`, `SlotRunOnce`. `SlotsAhead`
  says that a slot in hand has come and is not recorded (`InHand`), and that a recorded slot is past
  and is not the next run of its schedule (`Over`), both unless a late edit wrote it again (`back`).
  It holds because `compute_next_run` is strict (`NextSlotIsLater`), whichever expression it is given;
  only a value computed before and written after a record escapes it, and the run that follows
  takes it out of `back`. `OneDump` follows from the lock.
* **`WalletSharingProofs`**: `TypeOK`, `NoAmplification`, `KeysFollowGrants`, `TrashWindowKept`. A call
  in flight carries old permissions, so the invariant speaks of them: they were held when they were
  read, and what was held stays in the history (`GivenWasHeld`), and the rows it names are those of
  its wallet (`CallsNameRows`); rows have a wallet (`RowsHaveWallets`), which is what lets a purge
  take them. While a deletion of a grant is between its two statements, the keys of its grantee are
  revoked or in `raced` (`RevokedOrRaced`). `TrashDates` ties `deleted_at` to the last time out of the trash, whence the window.
* **`BackupProofs`**, cluster state: `MirrorsCommitted` and `StaleNodeRefuses`. A value in a refresh, in a dump
  or in a call was committed (`AllCommitted`); listed backups were dumped (`ListedAreDumped`); an
  epoch in memory or in a refresh is one of a rotation already counted (`EpochsAreOld`,
  `EpochsCount`), so that an equal epoch means that nothing was missed, unless an epoch came back:
  that is the condition `rewound` of `StaleNodeRefuses`, without which it is false (6.). The
  property speaks of the requests that compare; those let through `"open"` may be served stale.
* **`PairingProofs`**, pairing: `RowsHaveRoles` (which no run checks by itself), `CountedCallsBounded`,
  `CredentialsAreOwn`, `StreamingIsKept` and the refinement `FollowsLifecycle`.
  `NodesInv` is the invariant of the registrations: a draw belongs to one request and one node
  (`DrawsMatch`, `DrawsAreOwn`), an inserted row clashes with no other (`InsertedAlone`), a
  standby that streams has its slot (`StreamsHaveSlots`), which a deletion drops before the row
  (`SlotDroppedFirst`). Over it, the answers and the wizards hold draws of their own
  (`CallOwn`, `WizardOwn`) and each call that finds a session is counted
  before it passes (`Passed`).
  For the refinement (`StepFollows`), a commit is a `Register` because an inserted row clashes with
  none (`InsertedAlone`); the end of a row is an `Unregister` because its standby went before
  (`SlotDroppedFirst`) and no registration in progress has its name (`DrawsAreOwn`); an answer moves
  no name because a call past `add_node` has no registration in progress (`AddsInCalls`, which is
  inductive by itself over `Inv`).
* **`PairingProofs`**, execution: `CompletedMeansReported` and the step property `DataKept`. The cursor never
  passes a step that was not reported (`StepsReported`), even when a call that goes back races with
  one that goes on (`BackHasStep`). `DataKept` needs no invariant: each of the commands, in any
  order, keeps what the data directory and its backups hold.
* **`AccountRecoveryProofs`**: `TypeOK`, `RecoveryKeepsKeys`, `ConsumedMeansDone`,
  `OrphanWalletsAreLate`, `MailIsTraced`. `SessionOK` says what the state of a session owes to the
  past (consumed after the write, mailed after the trace, attempts below the limit while it is
  open); `CallOK` what a call in flight still knows: a browser that recovers holds the pair of
  the account it read (`RecoveryCallOK`), an insertion names a user who was there (`InsertOK`), a sweep has
  seen what it deletes (`SweepOK`); a transfer that finds its new owner swept makes the wallet `late`. Each action is a frame lemma for what it leaves alone and one
  step per conjunct that it can disturb.

* **`SyncReplicationProofs`**: `AppliedPrefix`, `AcknowledgedOnce`, `PassedMeansSent` and the
  refinement `ImplementsContract`. Numbers from the sequence on name no row (`Unused`). On the
  side of the publisher, everything behind a cursor is settled: sent, late, skipped by a reset, or
  never to be sent (`CursorsSettled`); to move a cursor over a batch one must know that what lies
  between its rows is settled as well (`BatchSettled`), and this is where a row that commits behind
  the fetch has to count as late. On the side of the follower, what travels, waits or was applied
  are changes that their emitter committed (`OnlyChanges`): no loss or repetition adds any. A worker
  that applies owns the open rows of its transaction, and the acknowledgement among them is the one
  of the change that follows (`WorkersInOrder`, `OpenAcks`); without it a crash between the
  transaction and its commit could leave an acknowledgement and no progress, or the reverse. The
  refinement maps a commit of the emitter and a commit of the follower to the two steps of the
  contract, and all the rest to stutters.
* **`SecretsProofs`**: `TypeOK`, `LinksStayInWallet`, `TypedSecretsReadable`, `VersionsGrow`,
  `UntouchedListedOnce`, and `CatalogueCoherent`. A call that passed its checks carries a link whose
  secret, if it is still there, is in its wallet (`CallsLinked`): no insertion may take an
  identifier that a call mentions, which is what random uuids give. The version that a typed
  secret names cannot be dropped, because of the foreign key (`VersionsInUse`). The last version
  told is not above the one of the row (`ToldIsOld`), so that a write, which adds one to the row as
  it finds it, always tells a greater one. The reader of a list has received, among the secrets that
  nobody touched, exactly those that its cursor has passed (`ReaderOnTrack`). That a page keeps
  it rests on the order (updated_at, id): ranks are distinct because it is strict and total
  (`Ranks`), hence each is taken, by the pigeonhole principle (`Sorting`); so a page is the first rows
  of what is before the cursor, and the next cursor is before exactly what the page left out
  (`Pages`, `CursorMoves`). Two assumptions came from the proofs: identifiers are finitely many, and
  a version is at least 1.

**Only model-checked.** Liveness (`SealedSettles`, `DueIsSettled`, `RunNowEnds`, `Converges`,
`WholeRunsEnd`) is out of the prover's reach, as are ENABLED and induction over data. No invariant
or step property of a run is left to TLC alone.

## 6. What the code does otherwise than it says

These properties state what a comment or a document says; each is defined in its module, with the
line it comes from, and TLC refutes it. They are in no configuration; to see a counterexample, name
one as an INVARIANT or a PROPERTY of the corresponding one.

| Property (module) | What happens |
|---|---|
| `DeniedKeyRevoked` (Connect) | a key created for a request that is then denied is never revoked |
| `PurgeSparesDelivered` (Connect) | a key delivered between the listing and the commit of the purge is revoked |
| `RevocationImmediate` (ApiKeyAuth) | a request that read the key before its revocation fills the cache after the invalidation, on the very process that revokes; the bound is proved |
| `ShelfWaitsForAChange` (SyncReplication) | acknowledgements, rollbacks and changes share one sequence, and followers wait for numbers that never come |
| `NoReemission` (SyncReplication) | a replicated change is published again by who applies it |
| `SkipMeansCovered` (ScheduledBackups) | a change committed during a dump is in no backup, and the next runs are skipped until something else changes |
| `FolderOnly` (Secrets) | `_` in the path of a folder is a wildcard of LIKE: deleting the folder deletes secrets of others |
| `OwnerHasGrant` (WalletSharing) | a transfer races with the deletion of the grant of the new owner, who has none afterwards |
| `RestoreInvalidates` (ClusterState) | a stale node serves the exempt paths and, while the epoch cannot be read, any path; and the new epoch is the dump's plus one, not the current one plus one: restoring an old dump twice gives an epoch that nodes already know |
| `SlotOfNode` (ReplicationNodes) | a deletion that read an old node drops the slot of the one that replaced it |
| `AbandonLeavesNothing` (AccountRecovery) | foreign keys are off during an abandonment, in spite of the comment at `recovery.py:424`: grants and API keys of the account outlive it |
| `Resumable` (PairingExec) | `orchestrator.py:4` says « Reprise possible depuis n'importe quelle étape »; the session lies in the database that the run stopped |

Seen while modelling, and present in the models:

* **Connect.** A key attached between the listing of the purge and its deletion of the request stays
  active (`connect_exchange.py:163`). `connect_purge.py:3` says that the pool may be
  recreated by a pairing and that a database out of reach only postpones the purge « au tick suivant »,
  `:19` that a key not delivered is revoked a minute after its term at most; the `RuntimeError` of
  `get_pool` during that very renewal is not caught (`:36`) and ends the loop.
* **Replication.** A change that commits after the publisher fetched beyond it is not published
  (`sync_publisher.py:135`; `PassedMeansSent` excuses it through `late`). A crash of the consumer
  between two shelved changes leaves the second on the shelf until the next message of that peer
  (`sync_consumer.py:176`). An entity type that a follower does not know blocks it, since nothing is
  recorded as applied (`sync_apply.py:52`).
* **Backups.** The next run is computed from the expression read before the run: an expression edited
  meanwhile loses its first slots; a schedule disabled or deleted meanwhile is still run
  (`scheduled_backups_scheduler.py:175`). A push that failed is not retried, for the next run is
  skipped (`scheduled_backups.py:379`). Two backups started in the same second share a file name
  (`backup.py:135`). An edit that computed its next run before a slot, and writes it after the
  slot was recorded, brings that slot back, which runs once more (`scheduled_backups.py:227,235`;
  `back`). A backup is pushed under the lock, and SFTP has no timeout: a server that stops answering
  stops every scheduled, manual and snapshot backup (`Hangs`). Snapshots and their triggers wait for
  the lock with a connection in hand, and its holder needs one: enough of them starve each other
  (`PoolStarved`). When `start()` fails there is no loop until a restart (`main.py:121`; `LoopOff`).
* **Wallets.** A key whose creation passed its checks before the grant went is inserted after it and
  stays; so does one committed between the two statements of the deletion of the grant
  (`grants.py:326,341`). Both are in `raced`.
* **Secrets.** The bulk import cannot override (`existing["id"]` on a `SecretRow`, reported as failed).
  `migrate-schema` always answers 400, and the deletion of a type always fails. Two populations of
  one placeholder both succeed. A PUT on a secret deleted meanwhile, and the assignment of a type
  to a placeholder, answer 500. An import writes every secret as a placeholder of version 1.
* **Accounts.** Two bootstraps of one shell both answer 201, and the second replaces the keys of the
  first. A browser that still holds the keys of an abandoned account may write them over the one
  bootstrapped again. Both are what `mixed` records, and what `RecoveryKeepsKeys` excepts. A completion whose account has gone
  answers 500 at its audit. A crash between the write and the mark leaves a session that can be used
  again. A disabled user can recover. A wallet transferred to an account between the deletion of its
  wallets and that of its user has no owner (`services/wallets.py:394`, `recovery.py:439`; `late`).
* **Cluster state.** JWTs carry no epoch. `auto_enable_maintenance` is used by nothing. During the
  replay of a dump the epoch and the maintenance mode may read as 0 and inactive. The middleware compares
  nothing for the exempt paths (`cluster_coherence.py:45`, the administration among them), and lets every request
  through when the epoch cannot be read (`:77`); `"open"` in `stale` records those that a stale node
  serves.
* **Pairing.** In the first version the code itself finds the session, so a wrong one is compared with
  every code and counted for none (`pairing.py:188-193`), where the comment says « chaque tentative compte »
  and `config.py:200` « Nombre max de tentatives de saisie du code de pairing avant invalidation ».
  `expire_old` is called by nothing, and the second version of confirm ignores
  `expires_at` and counts attempts on confirmed sessions. A forced confirm whose standby gave up may
  delete the newer node, and a slug that two URLs share lets one standby replace the other's node. A
  rollback after the creation of a slot leaves an orphan. The first version does not catch
  `NodeAlreadyExistsError`, a second unique violation answers 500. `refresh_nodes_state` repeats the
  anomaly of a lag.
* **Pairing execution.** The native executor starts again from step 0 in every case. A run started at
  step 2 or later with a live Postgres waits for ever in `refresh_pool`, and every request with it.
  So does any run if another request keeps its connection, and nothing bounds the command of a step.
  A disconnection after step 7 and before its hook leaves the old pool, and an `init_pool` that
  failed leaves none until a restart. `replication.is_standby_of` is written in the database that is
  replaced, so a standby does not know its master. `advance_step` looks at no status and no role.
  A remote command killed by a signal counts as done.

## 7. Not modelled

`PROJECT.json` gives the reason of every component left out, and what is missing of a component
modelled in part. By kind:

* **Nothing for two actors to disagree on**: environments, audit log, installation mode, SDK downloads,
  configuration, the registry of remote destinations. Single statements, reads, or rows that no
  decision reads.
* **Code that cannot run its course**: no statement inserts a second identity of an account, and nothing
  calls `detect_login_anomalies`, `apply_quarantine_if_needed` or the forced verification, so
  the races of identity governance cannot happen; the callback of the Google Drive session fails
  on its own payload (the pool has no codec for `jsonb`), so no connection can come from it.
* **External systems**: Keycloak and its JWKS, remote storage, the mailer, ntfy, the rate limiter's
  library, Docker, SSH, pg_dump and psql. Where the code's control depends on them (a mail that
  leaves or not, a command that ends or fails, a slot that a standby holds), the answer they give is
  a choice of the models.
* **Out of reach of the method**: cryptography in the browser, the contents of schemas, the parsing of
  tokens and of URLs, calendar arithmetic (the daily partitions of `sync_log`, cron expressions
  beyond their period).
* **Clients**: the frontend (but the order of the calls of the connect page), the SDKs and the command
  line, whose every call the models let happen in any order.
* **Planned** (section 2): the choice of the GFS rotation, and the own test of the snapshot scheduler of what
  changed.
