-------------------------- MODULE AccountRecovery --------------------------
(***************************************************************************)
(* Accounts and the recovery of a lost passphrase: services/auth.py,         *)
(* services/recovery.py, services/admin_user_resolver.py, their repositories *)
(* and routes, and what hangs on an account (its wallets, their grants and   *)
(* API keys) as far as POST abandon-account removes it.                      *)
(*                                                                          *)
(* The server never sees a key: of a key pair only its identity counts       *)
(* (Pairs), of an encrypted copy which pair it holds.  Outside a transaction *)
(* every SQL statement commits alone, so a handler is one step per statement *)
(* that matters, and a crash (Crash) keeps the statements made so far.       *)
(***************************************************************************)
EXTENDS Naturals, FiniteSets

CONSTANTS
    Subs,        \* Keycloak accounts; an account's email goes with its sub
    Ids,         \* identifiers of rows of users
    Sessions,    \* identifiers of rows of recovery_sessions
    Wallets, Grants, Keys,
    Calls,       \* slots for HTTP calls, and for a browser between two calls
    MaxAttempts, \* recovery_max_attempts
    Ttl,         \* recovery_session_ttl, in ticks
    User0, Wallet0, Grant0, Key0, \* the rows at the start
    MaxTime,     \* bound of the clock (model checking only)
    MaxCalls,    \* bound of the number of calls (model checking only)
    None         \* the SQL NULL

ASSUME BoundsAssumption ==
    {MaxAttempts, Ttl, MaxTime, MaxCalls} \subseteq Nat /\ MaxAttempts > 0
ASSUME NoneAssumption == None \notin Subs \cup Ids \cup Sessions \cup Wallets

VARIABLES
    now,
    user,    \* rows of users
    session, \* rows of recovery_sessions, and what became of their mail
    wallet, grant, key,
    call,    \* HTTP calls, and browsers that hold keys, in progress
    asked,   \* how many calls were made; numbers the key pairs
    mixed,   \* rows given a second key pair by the routes of a signed-in browser (history)
    reset,   \* sessions through which a passphrase was written (history)
    late     \* wallets inserted for, or transferred to, a user who was being removed
             \* (history)

content == <<wallet, grant, key>>
vars == <<now, user, session, content, call, asked, mixed, reset, late>>

-----------------------------------------------------------------------------
(* Rows *)

Pairs == 0 .. MaxCalls
\* The public key, and the private key under the passphrase and under the words: an
\* account older than migration 022 has no copy under the words before it renews them.
RealUser == [sub : Subs, system : {FALSE}, public : Pairs, bypass : Pairs,
             byrec : Pairs \cup {None}, disabled : BOOLEAN]
\* users_real_user_has_crypto: only a shell, made by a visit of /admin, has no keys.
Shell(a) == [sub |-> a, system |-> TRUE, disabled |-> FALSE]
NoUser == [sub |-> None]
Shells == {Shell(a) : a \in Subs}
WithPair(a, p, disabled) ==
    [sub |-> a, system |-> FALSE, public |-> p, bypass |-> p, byrec |-> p, disabled |-> disabled]

SessionRow == [user : Ids \cup {None}, email : Subs, expires : Nat, attempts : 0 .. MaxAttempts,
               status : {"pending", "failed", "consumed", "expired"},
               task : {"persist", "send", "over"}, traced : BOOLEAN, mailed : BOOLEAN]
NoSession == [status |-> "none"]

GrantRow == [wallet : Wallets, user : Ids, by : Ids]
KeyRow == [wallet : Wallets, owner : Ids]
NoRow == [wallet |-> None]

\* At the start nobody has recovered anything, and a wallet has an owner.
ASSUME RowsAssumption ==
    /\ User0 \in [Ids -> RealUser \cup {NoUser}]
    /\ \A i \in Ids : User0[i] # NoUser =>
         User0[i].bypass = User0[i].public /\ User0[i].byrec \in {User0[i].public, None}
    /\ Wallet0 \in [Wallets -> Ids \cup {None}]
    /\ \A w \in Wallets : Wallet0[w] # None => User0[Wallet0[w]] # NoUser
    /\ Grant0 \in [Grants -> GrantRow \cup {NoRow}] /\ Key0 \in [Keys -> KeyRow \cup {NoRow}]

Real(i) == user[i] # NoUser /\ ~user[i].system
RowsOf(a) == {i \in Ids : user[i].sub = a}          \* UNIQUE: at most one
\* get_by_keycloak_sub leaves the shells out and raises UserDisabledError.
SignedIn(a, i) == i \in RowsOf(a) /\ Real(i) /\ ~user[i].disabled

Idle == [op |-> "idle"]
Busy == {c \in Calls : call[c] # Idle}
Is(c, op) == call[c].op = op
\* A fresh UUID: no row has it and nobody holds it.
FreshUser(i) ==
    /\ user[i] = NoUser
    /\ \A s \in Sessions : session[s] # NoSession => session[s].user # i
    /\ \A w \in Wallets : wallet[w] # i
    /\ \A g \in Grants : grant[g] # NoRow => i \notin {grant[g].user, grant[g].by}
    /\ \A k \in Keys : key[k] # NoRow => key[k].owner # i
    /\ \A c \in Busy : call[c].user # i /\ (Is(c, "transfer") => call[c].to # i)

Call(op, i, s, p) == [op |-> op, user |-> i, session |-> s, pair |-> p, doomed |-> {}]
Ask(c, r) ==
    /\ call[c] = Idle
    /\ asked < MaxCalls
    /\ asked' = asked + 1
    /\ call' = [call EXCEPT ![c] = r]
To(c, op) == call' = [call EXCEPT ![c].op = op] /\ asked' = asked
Done(c) == call' = [call EXCEPT ![c] = Idle] /\ asked' = asked

Init ==
    /\ now = 0
    /\ user = User0
    /\ session = [s \in Sessions |-> NoSession]
    /\ wallet = Wallet0
    /\ grant = Grant0
    /\ key = Key0
    /\ call = [c \in Calls |-> Idle]
    /\ asked = 0
    /\ mixed = {}
    /\ reset = {}
    /\ late = {}

-----------------------------------------------------------------------------
(* Accounts *)

\* require_admin_jwt on an account without a row inserts a shell; UNIQUE lets
\* one of two concurrent visits in.
ResolveAdminUserId(a, i) ==
    /\ RowsOf(a) = {}
    /\ FreshUser(i)
    /\ user' = [user EXCEPT ![i] = Shell(a)]
    /\ UNCHANGED <<now, session, content, call, asked, mixed, reset, late>>

\* bootstrap_user: a real row is a 409; a shell is converted; without a row, one
\* is inserted.  The browser has drawn a key pair, numbered by the call.
AskBootstrap(c, a, i) ==
    /\ IF RowsOf(a) = {} THEN FreshUser(i) ELSE i \in RowsOf(a) /\ user[i].system
    /\ Ask(c, [op |-> IF RowsOf(a) = {} THEN "insert" ELSE "convert", user |-> i,
               session |-> None, pair |-> asked + 1, doomed |-> {}, sub |-> a])
    /\ UNCHANGED <<now, user, session, content, mixed, reset, late>>

InsertBootstrap(c) ==
    /\ Is(c, "insert")
    /\ RowsOf(call[c].sub) = {}
    /\ user' = [user EXCEPT ![call[c].user] = WithPair(call[c].sub, call[c].pair, FALSE)]
    /\ Done(c)
    /\ UNCHANGED <<now, session, content, mixed, reset, late>>

\* UPDATE users ... WHERE id: nothing asks whether the row is a shell still.
ConvertSystemUser(c) ==
    LET i == call[c].user IN
    /\ Is(c, "convert")
    /\ user' = IF user[i] = NoUser THEN user
               ELSE [user EXCEPT ![i] = WithPair(user[i].sub, call[c].pair, user[i].disabled)]
    /\ mixed' = IF Real(i) THEN mixed \cup {i} ELSE mixed
    /\ Done(c)
    /\ UNCHANGED <<now, session, content, reset, late>>

\* A browser unlocks (GET /auth/crypto) and keeps the private key it decrypted.
GetCrypto(c, a, i, op) ==
    /\ SignedIn(a, i)
    /\ op \in {"passphrase", "recovery"}
    /\ Ask(c, [op |-> op, user |-> i, session |-> None, pair |-> user[i].bypass,
               doomed |-> {}, sub |-> a])
    /\ UNCHANGED <<now, user, session, content, mixed, reset, late>>

\* PUT /auth/passphrase, PUT /auth/recovery: the row the account has by then.
PutBlob(c, i, blob) ==
    /\ SignedIn(call[c].sub, i)
    /\ user' = [user EXCEPT ![i] = blob]
    /\ mixed' = IF call[c].pair = user[i].public THEN mixed ELSE mixed \cup {i}
    /\ Done(c)
    /\ UNCHANGED <<now, session, content, reset, late>>

ChangePassphrase(c, i) ==
    Is(c, "passphrase") /\ PutBlob(c, i, [user[i] EXCEPT !.bypass = call[c].pair])

RenewRecovery(c, i) ==
    Is(c, "recovery") /\ PutBlob(c, i, [user[i] EXCEPT !.byrec = call[c].pair])

\* admin_users: disable_user, enable_user.
SetDisabled(i, b) ==
    /\ Real(i)
    /\ user[i].disabled # b
    /\ asked < MaxCalls
    /\ asked' = asked + 1
    /\ user' = [user EXCEPT ![i].disabled = b]
    /\ UNCHANGED <<now, session, content, call, mixed, reset, late>>

-----------------------------------------------------------------------------
(* What an account owns.  A wallet holds its owner; WalletSharing has the     *)
(* permissions.                                                              *)

AskContent(c, a, i, op) ==
    /\ SignedIn(a, i)
    /\ op \in {"wallet", "grant", "key"}
    /\ Ask(c, Call(op, i, None, None))
    /\ UNCHANGED <<now, user, session, content, mixed, reset, late>>

\* The transaction of abandon_account has deleted the wallets but not committed:
\* a foreign key that needs one of them waits, and then fails.
Doomed == UNION {call[c].doomed : c \in Busy}
Swept(i) == \E c \in Busy : call[c].op = "swept" /\ call[c].user = i

\* The wallet and the grant of its owner; the foreign key asks for the user.
CreateWallet(c, w, g) ==
    LET i == call[c].user IN
    /\ Is(c, "wallet")
    /\ user[i] # NoUser
    /\ wallet[w] = None /\ w \notin Doomed /\ grant[g] = NoRow
    /\ \A d \in Calls : Is(d, "transfer") => call[d].wallet # w
    /\ \A h \in Grants : grant[h].wallet # w
    /\ \A k \in Keys : key[k].wallet # w
    /\ wallet' = [wallet EXCEPT ![w] = i]
    /\ grant' = [grant EXCEPT ![g] = [wallet |-> w, user |-> i, by |-> i]]
    /\ late' = IF Swept(i) THEN late \cup {w} ELSE late
    /\ Done(c)
    /\ UNCHANGED <<now, user, session, key, mixed, reset>>

Holds(i, w) == \E g \in Grants : grant[g] # NoRow /\ grant[g].wallet = w /\ grant[g].user = i

\* transfer_ownership: the caller owns the wallet and the new owner has a grant.
AskTransfer(c, a, i, w, j) ==
    /\ SignedIn(a, i)
    /\ wallet[w] = i /\ Holds(i, w) /\ Holds(j, w)
    /\ Ask(c, [op |-> "transfer", user |-> i, session |-> None, pair |-> None, doomed |-> {},
               wallet |-> w, to |-> j])
    /\ UNCHANGED <<now, user, session, content, mixed, reset, late>>

\* UPDATE ... WHERE id: the foreign key asks for the new owner, whose removal may be
\* past the deletion of his wallets.
TransferOwnership(c) ==
    LET w == call[c].wallet
        j == call[c].to IN
    /\ Is(c, "transfer")
    /\ wallet[w] # None /\ w \notin Doomed
    /\ user[j] # NoUser
    /\ wallet' = [wallet EXCEPT ![w] = j]
    /\ late' = IF Swept(j) THEN late \cup {w} ELSE late \ {w}
    /\ Done(c)
    /\ UNCHANGED <<now, user, session, grant, key, mixed, reset>>

CreateGrant(c, w, j, g) ==
    LET i == call[c].user IN
    /\ Is(c, "grant")
    /\ user[i] # NoUser /\ Real(j) /\ Holds(i, w) /\ ~Holds(j, w)
    /\ wallet[w] # None /\ w \notin Doomed
    /\ grant[g] = NoRow
    /\ grant' = [grant EXCEPT ![g] = [wallet |-> w, user |-> j, by |-> i]]
    /\ Done(c)
    /\ UNCHANGED <<now, user, session, wallet, key, mixed, reset, late>>

CreateApiKey(c, w, k) ==
    LET i == call[c].user IN
    /\ Is(c, "key")
    /\ user[i] # NoUser /\ Holds(i, w)
    /\ wallet[w] # None /\ w \notin Doomed
    /\ key[k] = NoRow
    /\ key' = [key EXCEPT ![k] = [wallet |-> w, owner |-> i]]
    /\ Done(c)
    /\ UNCHANGED <<now, user, session, wallet, grant, mixed, reset, late>>

-----------------------------------------------------------------------------
(* Recovery sessions: the start and the mail *)

\* start_session: an unknown email or a shell makes a session without a user,
\* for which nothing is sent; the answer is the same.
StartSession(s, a) ==
    LET known == {i \in RowsOf(a) : ~user[i].system} IN
    /\ session[s] = NoSession
    /\ asked < MaxCalls
    /\ asked' = asked + 1
    /\ \E i \in IF known = {} THEN {None} ELSE known :
         session' = [session EXCEPT ![s] =
            [user |-> i, email |-> a, expires |-> now + Ttl, attempts |-> 0, status |-> "pending",
             task |-> IF i = None THEN "over" ELSE "persist",
             traced |-> FALSE, mailed |-> FALSE]]
    /\ UNCHANGED <<now, user, content, call, mixed, reset, late>>

InTask(s, t) == session[s] # NoSession /\ session[s].task = t

\* A mistake: the mail is sent although its identifier could not be written.
PersistOrNot(s, ok) ==
    /\ InTask(s, "persist")
    /\ session' = [session EXCEPT ![s].traced = ok, ![s].task = "send"]
    /\ UNCHANGED <<now, user, content, call, asked, mixed, reset, late>>

\* _persist_tx_and_trigger: no mail unless its identifier is in the database.
PersistTx(s, ok) ==
    /\ InTask(s, "persist")
    /\ session' = [session EXCEPT ![s].traced = ok, ![s].task = IF ok THEN "send" ELSE "over"]
    /\ UNCHANGED <<now, user, content, call, asked, mixed, reset, late>>

\* trigger_recovery answers False, without raising, when nothing was sent.
TriggerRecovery(s, ok) ==
    /\ InTask(s, "send")
    /\ session' = [session EXCEPT ![s].mailed = ok, ![s].task = "over"]
    /\ UNCHANGED <<now, user, content, call, asked, mixed, reset, late>>

-----------------------------------------------------------------------------
(* Recovery sessions: the browser that followed the link *)

Open(s) == session[s].status = "pending" /\ ~(session[s].expires < now)

\* get_blobs: the private key under the words, of the user of the session.
GetBlobs(c, s) ==
    LET i == session[s].user IN
    /\ session[s] # NoSession /\ session[s].mailed
    /\ Open(s)
    /\ i # None /\ user[i] # NoUser /\ user[i].byrec # None
    /\ Ask(c, Call("words", i, s, user[i].byrec))
    /\ UNCHANGED <<now, user, session, content, mixed, reset, late>>

\* A mistake: an attempt is counted on a session that has ended.
CountAttemptAlways(c) ==
    LET s == call[c].session IN
    /\ Is(c, "words")
    /\ session' = [session EXCEPT ![s].attempts = @ + 1,
         ![s].status = IF session[s].attempts + 1 >= MaxAttempts THEN "failed" ELSE @]
    /\ UNCHANGED <<now, user, content, call, asked, mixed, reset, late>>

\* POST attempt-failed: one UPDATE counts, and ends the session at the limit;
\* the browser may try other words.
RecordFailedAttempt(c) ==
    LET s == call[c].session IN
    /\ Is(c, "words")
    /\ session[s].status = "pending"
    /\ session' = [session EXCEPT ![s].attempts = @ + 1,
         ![s].status = IF session[s].attempts + 1 >= MaxAttempts THEN "failed" ELSE @]
    /\ UNCHANGED <<now, user, content, call, asked, mixed, reset, late>>

\* POST complete: complete_session reads the row, in no transaction ...
CompleteCheck(c) ==
    /\ Is(c, "words")
    /\ Open(call[c].session)
    /\ To(c, "checked")
    /\ UNCHANGED <<now, user, session, content, mixed, reset, late>>

\* A mistake: the row of users that the email of the session has now.
UpdateByEmail(c) ==
    /\ Is(c, "checked")
    /\ \E i \in RowsOf(session[call[c].session].email) :
         /\ Real(i)
         /\ user' = [user EXCEPT ![i].bypass = call[c].pair]
    /\ reset' = reset \cup {call[c].session}
    /\ To(c, "updated")
    /\ UNCHANGED <<now, session, content, mixed, late>>

\* ... writes the new blobs, to nobody if the account has gone ...
CompleteUpdate(c) ==
    LET i == call[c].user IN
    /\ Is(c, "checked")
    /\ IF user[i] = NoUser
         THEN UNCHANGED <<user, reset>>
         ELSE /\ user' = [user EXCEPT ![i].bypass = call[c].pair]
              /\ reset' = reset \cup {call[c].session}
    /\ To(c, "updated")
    /\ UNCHANGED <<now, session, content, mixed, late>>

\* A mistake: the session is consumed before the new blobs are written.
MarkFirst(c) ==
    /\ call[c].op \in {"checked", "updated", "gone"}
    /\ session' = [session EXCEPT ![call[c].session].status = "consumed"]
    /\ IF Is(c, "checked") THEN To(c, "checked") ELSE Done(c)
    /\ UNCHANGED <<now, user, content, mixed, reset, late>>

\* ... and consumes the session, whatever its status is by now.  The audit row
\* that follows fails (500) when the account has gone.
MarkConsumed(c) ==
    /\ call[c].op \in {"updated", "gone"}
    /\ session' = [session EXCEPT ![call[c].session].status = "consumed"]
    /\ Done(c)
    /\ UNCHANGED <<now, user, content, mixed, reset, late>>

\* A browser that closes, a call that fails between two of its statements; the
\* transaction of an abandonment is rolled back.
Fail(c) ==
    /\ call[c] # Idle
    /\ Done(c)
    /\ UNCHANGED <<now, user, session, content, mixed, reset, late>>

-----------------------------------------------------------------------------
(* Recovery sessions: the account is abandoned, the session expires *)

\* POST abandon-account: any session that is not consumed, past its date or not.
AskAbandon(c, s) ==
    LET i == session[s].user IN
    /\ session[s] # NoSession /\ session[s].mailed
    /\ session[s].status # "consumed"
    /\ i # None
    /\ Ask(c, Call("abandon", i, s, None))
    /\ UNCHANGED <<now, user, session, content, mixed, reset, late>>

\* The transaction: its deletions of the grants given by the user and of his
\* wallets see the rows of that moment ...
AbandonSweep(c) ==
    LET i == call[c].user IN
    /\ Is(c, "abandon")
    /\ call' = [call EXCEPT ![c].op = "swept",
         ![c].doomed = {g \in Grants : grant[g] # NoRow /\ grant[g].by = i}
                         \cup {w \in Wallets : wallet[w] = i}]
    /\ asked' = asked
    /\ UNCHANGED <<now, user, session, content, mixed, reset, late>>

\* A mistake: the user is deleted and his wallets are not.
AbandonUserOnly(c) ==
    /\ Is(c, "swept")
    /\ user' = [user EXCEPT ![call[c].user] = NoUser]
    /\ grant' = [g \in Grants |-> IF g \in call[c].doomed THEN NoRow ELSE grant[g]]
    /\ call' = [call EXCEPT ![c].op = "gone", ![c].doomed = {}]
    /\ asked' = asked
    /\ UNCHANGED <<now, session, wallet, key, mixed, reset, late>>

\* ... and the user goes.  session_replication_role = 'replica' disables the
\* triggers of the foreign keys as well: nothing cascades, nothing restricts.
AbandonCommit(c) ==
    /\ Is(c, "swept")
    /\ user' = [user EXCEPT ![call[c].user] = NoUser]
    /\ wallet' = [w \in Wallets |-> IF w \in call[c].doomed THEN None ELSE wallet[w]]
    /\ grant' = [g \in Grants |-> IF g \in call[c].doomed THEN NoRow ELSE grant[g]]
    /\ late' = late \ call[c].doomed
    /\ call' = [call EXCEPT ![c].op = "gone", ![c].doomed = {}]
    /\ asked' = asked
    /\ UNCHANGED <<now, session, key, mixed, reset>>

\* The worker of main.py: one UPDATE every five minutes.
ExpirePending ==
    LET over == {s \in Sessions : session[s].status = "pending" /\ ~Open(s)} IN
    /\ over # {}
    /\ session' = [s \in Sessions |->
         IF s \in over THEN [session[s] EXCEPT !.status = "expired"] ELSE session[s]]
    /\ UNCHANGED <<now, user, content, call, asked, mixed, reset, late>>

Tick ==
    /\ now < MaxTime
    /\ now' = now + 1
    /\ UNCHANGED <<user, session, content, call, asked, mixed, reset, late>>

\* The process ends: calls and background tasks are lost, rows stay.
Crash ==
    /\ Busy # {} \/ \E s \in Sessions : InTask(s, "persist") \/ InTask(s, "send")
    /\ call' = [c \in Calls |-> Idle]
    /\ session' = [s \in Sessions |->
         IF session[s] = NoSession THEN NoSession ELSE [session[s] EXCEPT !.task = "over"]]
    /\ UNCHANGED <<now, user, content, asked, mixed, reset, late>>

-----------------------------------------------------------------------------
AccountRoutes(c) ==
    \/ \E a \in Subs, i \in Ids :
         \/ AskBootstrap(c, a, i)
         \/ \E op \in {"passphrase", "recovery"} : GetCrypto(c, a, i, op)
         \/ \E op \in {"wallet", "grant", "key"} : AskContent(c, a, i, op)
    \/ InsertBootstrap(c) \/ ConvertSystemUser(c)
    \/ \E i \in Ids : ChangePassphrase(c, i) \/ RenewRecovery(c, i)

ContentRoutes(c) ==
    \/ TransferOwnership(c)
    \/ \E w \in Wallets :
        \/ \E a \in Subs, i, j \in Ids : AskTransfer(c, a, i, w, j)
        \/ \E g \in Grants : CreateWallet(c, w, g) \/ \E j \in Ids : CreateGrant(c, w, j, g)
        \/ \E k \in Keys : CreateApiKey(c, w, k)

RecoveryRoutes(c) ==
    \/ \E s \in Sessions : GetBlobs(c, s) \/ AskAbandon(c, s)
    \/ RecordFailedAttempt(c)
    \/ CompleteCheck(c) \/ CompleteUpdate(c) \/ MarkConsumed(c)
    \/ AbandonSweep(c) \/ AbandonCommit(c)

Mail(s) == \E ok \in BOOLEAN : PersistTx(s, ok) \/ TriggerRecovery(s, ok)

Next ==
    \/ Tick \/ Crash \/ ExpirePending
    \/ \E a \in Subs, i \in Ids : ResolveAdminUserId(a, i)
    \/ \E i \in Ids, b \in BOOLEAN : SetDisabled(i, b)
    \/ \E s \in Sessions : Mail(s) \/ \E a \in Subs : StartSession(s, a)
    \/ \E c \in Calls : AccountRoutes(c) \/ ContentRoutes(c) \/ RecoveryRoutes(c) \/ Fail(c)

Spec == Init /\ [][Next]_vars

-----------------------------------------------------------------------------
(* Properties *)

CallRow ==
    [op : {"words", "checked", "updated", "abandon", "swept", "gone"}, user : Ids,
     session : Sessions, pair : Pairs \cup {None}, doomed : SUBSET (Grants \cup Wallets)]
    \cup [op : {"wallet", "grant", "key"}, user : Ids, session : {None}, pair : {None},
          doomed : {{}}]
    \cup [op : {"transfer"}, user : Ids, session : {None}, pair : {None}, doomed : {{}},
          wallet : Wallets, to : Ids]
    \cup [op : {"insert", "convert", "passphrase", "recovery"}, user : Ids, session : {None},
          pair : Pairs, doomed : {{}}, sub : Subs]

\* The types; in particular the failed attempts of a session never exceed the
\* limit, however many browsers report them together (increment_attempts).
TypeOK ==
    /\ now \in Nat
    /\ user \in [Ids -> RealUser \cup Shells \cup {NoUser}]
    /\ session \in [Sessions -> SessionRow \cup {NoSession}]
    /\ wallet \in [Wallets -> Ids \cup {None}]
    /\ grant \in [Grants -> GrantRow \cup {NoRow}]
    /\ key \in [Keys -> KeyRow \cup {NoRow}]
    /\ call \in [Calls -> CallRow \cup {Idle}]
    /\ asked \in 0 .. MaxCalls
    /\ mixed \subseteq Ids
    /\ reset \subseteq Sessions
    /\ late \subseteq Wallets

\* Recovery never mixes two key pairs: whatever is bootstrapped, abandoned and
\* bootstrapped again while a browser goes through its words, the passphrase and
\* the words of an account open the private key of its public key, unless the
\* browser of a signed-in user wrote another pair over it.
RecoveryKeepsKeys ==
    \A i \in Ids \ mixed : Real(i) =>
        user[i].bypass = user[i].public /\ user[i].byrec \in {user[i].public, None}

\* A consumed session did its work: the passphrase was written through it, or the
\* account has gone.  It is never spent by a completion that a crash or a failure
\* stopped on the way (complete_session writes before it consumes).
ConsumedMeansDone ==
    \A s \in Sessions :
        session[s].status = "consumed" => s \in reset \/ user[session[s].user] = NoUser

\* An abandoned account takes its wallets along: the only wallet of nobody is one
\* inserted for him or transferred to him between the deletion of his wallets and
\* the end of the transaction.
OrphanWalletsAreLate ==
    \A w \in Wallets : wallet[w] # None /\ user[wallet[w]] = NoUser => w \in late

\* No mail is under way or out that the database knows nothing of (the comment of
\* _persist_tx_and_trigger), whichever of its steps fails or is interrupted.
MailIsTraced ==
    \A s \in Sessions : session[s] # NoSession =>
        (session[s].mailed => session[s].traced)

\* What the comments of abandon_account say of its deletions: the grants and the
\* keys of the wallets and of the user go with them.
AbandonLeavesNothing ==
    /\ \A g \in Grants : grant[g] # NoRow =>
         wallet[grant[g].wallet] # None /\ user[grant[g].user] # NoUser
    /\ \A k \in Keys : key[k] # NoRow =>
         wallet[key[k].wallet] # None /\ user[key[k].owner] # NoUser

=============================================================================
