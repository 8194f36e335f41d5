--------------------------- MODULE WalletSharing ---------------------------
(***************************************************************************)
(* Wallets, the grants that share them and the API keys made on them:       *)
(* services/wallets.py, services/grants.py, services/api_keys.py, their     *)
(* repositories, and the triggers of migration 001 that protect the grant   *)
(* of a wallet's owner.                                                     *)
(*                                                                          *)
(* Every service reads the wallet, the caller's grant and the target, checks *)
(* them, and only then opens the transaction that writes, by identifier and  *)
(* without checking again.  A call is therefore two steps, its checks (Ask)  *)
(* and its transaction; other calls and the hourly purge run in between.     *)
(* The transaction of delete_grant is two steps itself: at READ COMMITTED,   *)
(* its second statement sees what others committed since the first.          *)
(* Calls whose checks fail change nothing and are left out.                  *)
(***************************************************************************)
EXTENDS Naturals, FiniteSets

CONSTANTS
    Users,
    Wallets,
    Grants,      \* identifiers of rows of wallet_grants
    Keys,        \* identifiers of rows of api_keys
    Calls,       \* slots for HTTP calls in progress
    Perms,       \* the permission bits, PERM_ALL together
    Share,       \* PERM_SHARE
    TrashWindow, \* the 24 hours of purge_expired_wallets, in ticks
    MaxTime,     \* bound of the clock (model checking only)
    MaxCalls,    \* bound of the number of calls (model checking only)
    None         \* the SQL NULL

ASSUME PermsAssumption == Share \in Perms
ASSUME WindowAssumption == {TrashWindow, MaxTime, MaxCalls} \subseteq Nat
ASSUME NoneAssumption == None \notin Users \cup Wallets \cup Grants \cup Keys

VARIABLES
    now,
    wallet,  \* rows of wallets
    grant,   \* rows of wallet_grants
    key,     \* rows of api_keys
    call,    \* HTTP calls between their checks and the end of their transaction
    asked,   \* how many calls were made
    held,    \* the permissions each user was ever granted on each wallet (history)
    outAt,   \* the last time each wallet was out of the trash, no later than the
             \* beginning of the transaction that put it there (history)
    raced    \* keys inserted when their owner had no grant left, or when the
             \* transaction that takes it had revoked his keys (history)

vars == <<now, wallet, grant, key, call, asked, held, outAt, raced>>

-----------------------------------------------------------------------------
(* Rows *)

\* deleted_at IS NULL is "active"; since is deleted_at.
WalletRow == [state : {"active", "trash"}, owner : Users, since : Nat]
Missing == [state |-> "missing", owner |-> None, since |-> 0]

Sets == (SUBSET Perms) \ {{}}              \* wallet_grants_permissions_nonzero
\* writer is a history, who wrote perms last: the column granted_by_user_id, that
\* no check reads, keeps the first.
GrantRow == [wallet : Wallets, user : Users, perms : Sets, writer : Users]
KeyRow == [state : {"live", "revoked"}, wallet : Wallets, owner : Users, perms : Sets]
NoRow == [wallet |-> None]

\* "ungranting": the keys are revoked, in a transaction that is not committed.
Ops == {"delete", "restore", "transfer", "grant", "regrant", "ungrant", "ungranting",
        "newkey", "revoke"}
Idle == [op |-> "idle"]
\* keys: what an open transaction revoked; at: when a deletion was checked.
Request == [op : Ops, by : Users, wallet : Wallets, user : Users \cup {None},
            row : Grants \cup Keys \cup {None}, perms : SUBSET Perms,
            keys : SUBSET Keys, at : Nat]

Exists(w) == wallet[w] # Missing

\* UNIQUE (wallet_id, grantee_user_id): at most one.
GrantsOf(w, u) == {g \in Grants : grant[g] # NoRow /\ grant[g].wallet = w /\ grant[g].user = u}
HasGrant(w, u) == GrantsOf(w, u) # {}

\* get_wallet_for_user joins the grant of the caller: my_permissions, and
\* nothing without a grant.  It returns the wallets in the trash too.
Permissions(w, u) == UNION {grant[g].perms : g \in GrantsOf(w, u)}

\* A new identifier is drawn at random: no row has it and no call names it.
Busy == {c \in Calls : call[c] # Idle}
Named(r) == \E c \in Busy : r \in {call[c].wallet, call[c].row}
FreshWallet(w) == wallet[w] = Missing /\ ~Named(w)
FreshGrant(g) == grant[g] = NoRow /\ ~Named(g)
FreshKey(k) == key[k] = NoRow /\ ~Named(k)

\* Rows that an open transaction changed: another that changes them waits.
Locked == UNION {call[c].keys : c \in Busy}

NothingHeld == [u \in Users |-> {}]

Init ==
    /\ now = 0
    /\ wallet = [w \in Wallets |-> Missing]
    /\ grant = [g \in Grants |-> NoRow]
    /\ key = [k \in Keys |-> NoRow]
    /\ call = [c \in Calls |-> Idle]
    /\ asked = 0
    /\ held = [w \in Wallets |-> NothingHeld]
    /\ outAt = [w \in Wallets |-> 0]
    /\ raced = {}

Tick ==
    /\ now < MaxTime
    /\ now' = now + 1
    /\ outAt' = [w \in Wallets |-> IF wallet[w].state = "active" THEN now + 1 ELSE outAt[w]]
    /\ UNCHANGED <<wallet, grant, key, call, asked, held, raced>>

Hold(w, u, P) == held' = [held EXCEPT ![w][u] = @ \cup P]

-----------------------------------------------------------------------------
(* Wallets: the checks *)

Ask(c, op, u, w, v, r, P) ==
    /\ call[c] = Idle
    /\ asked < MaxCalls
    /\ asked' = asked + 1
    /\ call' = [call EXCEPT ![c] = [op |-> op, by |-> u, wallet |-> w, user |-> v,
                                    row |-> r, perms |-> P, keys |-> {},
                                    at |-> IF op = "delete" THEN now ELSE 0]]
    /\ UNCHANGED <<now, wallet, grant, key, held, outAt, raced>>

Done(c) == call' = [call EXCEPT ![c] = Idle] /\ asked' = asked

\* get_wallet answers 404 to a caller without a grant, whether or not he owns
\* the wallet.
Sees(u, w) == Exists(w) /\ HasGrant(w, u)
OwnerSees(u, w) == Sees(u, w) /\ wallet[w].owner = u

\* Wallet, grant 63 of the owner: one transaction, with nothing to check.
CreateWallet(u, w, g) ==
    /\ FreshWallet(w)
    /\ FreshGrant(g)
    /\ wallet' = [wallet EXCEPT ![w] = [state |-> "active", owner |-> u, since |-> 0]]
    /\ grant' = [grant EXCEPT ![g] = [wallet |-> w, user |-> u, perms |-> Perms, writer |-> u]]
    /\ Hold(w, u, Perms)
    /\ outAt' = [outAt EXCEPT ![w] = now]
    /\ UNCHANGED <<now, key, call, asked, raced>>

\* The caller types the name of the wallet; a wallet in the trash is refused.
AskDelete(c, u, w) ==
    /\ OwnerSees(u, w)
    /\ wallet[w].state = "active"
    /\ Ask(c, "delete", u, w, None, None, {})

AskRestore(c, u, w) ==
    /\ OwnerSees(u, w)
    /\ wallet[w].state = "trash"
    /\ Ask(c, "restore", u, w, None, None, {})

\* The new owner must have a grant, whatever it allows.
AskTransfer(c, u, w, v) ==
    /\ OwnerSees(u, w)
    /\ HasGrant(w, v)
    /\ Ask(c, "transfer", u, w, v, None, {})

-----------------------------------------------------------------------------
(* Wallets: the transactions *)

\* UPDATE wallets SET deleted_at = NOW() WHERE id: a wallet that another call
\* put in the trash meanwhile gets another date, a purged one is no row.  NOW() is
\* d, when the transaction began: after the checks, and maybe before a
\* restoration that it waited for.
DeleteWallet(c) ==
    LET w == call[c].wallet IN
    /\ call[c].op = "delete"
    /\ \E d \in call[c].at .. now :
         /\ wallet' = [wallet EXCEPT ![w] =
                         IF Exists(w) THEN [@ EXCEPT !.state = "trash", !.since = d] ELSE @]
         /\ outAt' = [outAt EXCEPT ![w] = IF Exists(w) /\ d < @ THEN d ELSE @]
    /\ Done(c)
    /\ UNCHANGED <<now, grant, key, held, raced>>

\* UPDATE wallets SET deleted_at = NULL WHERE id.
RestoreWallet(c) ==
    LET w == call[c].wallet IN
    /\ call[c].op = "restore"
    /\ wallet' = [wallet EXCEPT ![w] =
                    IF Exists(w) THEN [@ EXCEPT !.state = "active", !.since = 0] ELSE @]
    /\ outAt' = [outAt EXCEPT ![w] = IF Exists(w) THEN now ELSE @]
    /\ Done(c)
    /\ UNCHANGED <<now, grant, key, held, raced>>

\* A mistake: the row is written back as it was read (an upsert).
TransferByUpsert(c) ==
    /\ call[c].op = "transfer"
    /\ wallet' = [wallet EXCEPT ![call[c].wallet].owner = call[c].user]
    /\ Done(c)
    /\ UNCHANGED <<now, grant, key, held, outAt, raced>>

\* UPDATE wallets SET owner_user_id WHERE id.
TransferOwnership(c) ==
    LET w == call[c].wallet IN
    /\ call[c].op = "transfer"
    /\ wallet' = [wallet EXCEPT ![w].owner = IF Exists(w) THEN call[c].user ELSE @]
    /\ Done(c)
    /\ UNCHANGED <<now, grant, key, held, outAt, raced>>

\* A mistake: the wallets that are to be purged at this tick, too.
ExpiredSoon(w) == wallet[w].state = "trash" /\ wallet[w].since + TrashWindow <= now + 1

\* deleted_at + INTERVAL '24 hours' <= NOW()
Expired(w) == wallet[w].state = "trash" /\ wallet[w].since + TrashWindow <= now

\* One DELETE: the test is made again on a row that a transaction in progress
\* was changing.  The grants and the keys go with the wallet (ON DELETE CASCADE;
\* the trigger on grants finds no wallet any more and lets them go), once no
\* transaction in progress holds them.
PurgeExpiredWallets ==
    LET gone == {w \in Wallets : Expired(w)} IN
    /\ gone # {}
    /\ \A k \in Locked : key[k].wallet \notin gone
    /\ wallet' = [w \in Wallets |-> IF w \in gone THEN Missing ELSE wallet[w]]
    /\ grant' = [g \in Grants |-> IF grant[g].wallet \in gone THEN NoRow ELSE grant[g]]
    /\ key' = [k \in Keys |-> IF key[k].wallet \in gone THEN NoRow ELSE key[k]]
    /\ held' = [w \in Wallets |-> IF w \in gone THEN NothingHeld ELSE held[w]]
    /\ raced' = {k \in raced : key[k].wallet \notin gone}
    /\ outAt' = [w \in Wallets |-> IF w \in gone THEN 0 ELSE outAt[w]]
    /\ UNCHANGED <<now, call, asked>>

-----------------------------------------------------------------------------
(* Grants *)

\* _load_wallet_and_check_share; deleted_at is not looked at.
MayShare(u, w) == Exists(w) /\ Share \in Permissions(w, u)

AskGrant(c, u, w, v, P) ==
    /\ MayShare(u, w)
    /\ v # u
    /\ P \subseteq Permissions(w, u)
    /\ Ask(c, "grant", u, w, v, None, P)

\* The owner's grant is refused first; the trigger is the second line of defence.
AskRegrant(c, u, g, P) ==
    LET w == grant[g].wallet IN
    /\ grant[g] # NoRow
    /\ MayShare(u, w)
    /\ grant[g].user # wallet[w].owner
    /\ P \subseteq Permissions(w, u)
    /\ Ask(c, "regrant", u, w, grant[g].user, g, P)

AskUngrant(c, u, g) ==
    LET w == grant[g].wallet IN
    /\ grant[g] # NoRow
    /\ MayShare(u, w)
    /\ grant[g].user # wallet[w].owner
    /\ Ask(c, "ungrant", u, w, grant[g].user, g, {})

\* A foreign key and UNIQUE (wallet_id, grantee_user_id) fail the transaction.
CreateGrant(c, g) ==
    LET r == call[c] IN
    /\ r.op = "grant"
    /\ FreshGrant(g)
    /\ Exists(r.wallet)
    /\ ~HasGrant(r.wallet, r.user)
    /\ grant' = [grant EXCEPT ![g] = [wallet |-> r.wallet, user |-> r.user,
                                      perms |-> r.perms, writer |-> r.by]]
    /\ Hold(r.wallet, r.user, r.perms)
    /\ Done(c)
    /\ UNCHANGED <<now, wallet, key, outAt, raced>>

\* protect_owner_grant_update raises when the permissions of the owner change;
\* the row may be gone, and the UPDATE then changes nothing.
UpdateGrant(c) ==
    LET r == call[c] IN
    /\ r.op = "regrant"
    /\ grant[r.row] # NoRow =>
         wallet[r.wallet].owner # r.user \/ grant[r.row].perms = r.perms
    /\ IF grant[r.row] = NoRow
         THEN UNCHANGED <<grant, held>>
         ELSE /\ grant' = [grant EXCEPT ![r.row].perms = r.perms, ![r.row].writer = r.by]
              /\ Hold(r.wallet, r.user, r.perms)
    /\ Done(c)
    /\ UNCHANGED <<now, wallet, key, outAt, raced>>

LiveKeysOf(w, u) ==
    {k \in Keys : /\ key[k] # NoRow /\ key[k].state = "live"
                  /\ key[k].wallet = w /\ key[k].owner = u}

\* A mistake: the keys of the caller are revoked instead of the grantee's.
RevokeKeysOfCaller(c) ==
    LET r == call[c]
        keys == LiveKeysOf(r.wallet, r.by) IN
    /\ r.op = "ungrant"
    /\ keys \cap Locked = {}
    /\ call' = [call EXCEPT ![c] = [r EXCEPT !.op = "ungranting", !.keys = keys]]
    /\ UNCHANGED <<now, wallet, grant, key, asked, held, outAt, raced>>

\* The first statement: an UPDATE of the live keys of the grantee, those that are
\* committed by then, which others do not see before the commit.
RevokeKeysOf(c) ==
    LET r == call[c]
        keys == LiveKeysOf(r.wallet, r.user) IN
    /\ r.op = "ungrant"
    /\ keys \cap Locked = {}
    /\ call' = [call EXCEPT ![c] = [r EXCEPT !.op = "ungranting", !.keys = keys]]
    /\ UNCHANGED <<now, wallet, grant, key, asked, held, outAt, raced>>

\* The second, and the commit: the row goes, unless protect_owner_grant_delete finds
\* that the grantee owns the wallet by now.
DeleteGrant(c) ==
    LET r == call[c] IN
    /\ r.op = "ungranting"
    /\ grant[r.row] # NoRow => wallet[r.wallet].owner # r.user
    /\ key' = [k \in Keys |-> IF k \in r.keys THEN [key[k] EXCEPT !.state = "revoked"]
                                             ELSE key[k]]
    /\ grant' = [grant EXCEPT ![r.row] = NoRow]
    /\ Done(c)
    /\ UNCHANGED <<now, wallet, held, outAt, raced>>

-----------------------------------------------------------------------------
(* API keys *)

\* A mistake: the permissions of the key are not compared with the caller's.
AskKeyAnyPermission(c, u, w, P) ==
    /\ MayShare(u, w)
    /\ Ask(c, "newkey", u, w, None, None, P)

AskKey(c, u, w, P) ==
    /\ MayShare(u, w)
    /\ P \subseteq Permissions(w, u)
    /\ Ask(c, "newkey", u, w, None, None, P)

\* The grant of u on w is being taken, and his keys were revoked before.
Ungranting(w, u) ==
    \E d \in Busy : call[d].op = "ungranting" /\ call[d].wallet = w /\ call[d].user = u

\* The foreign keys ask for the wallet and the user, not for a grant.
CreateApiKey(c, k) ==
    LET r == call[c] IN
    /\ r.op = "newkey"
    /\ FreshKey(k)
    /\ Exists(r.wallet)
    /\ key' = [key EXCEPT ![k] = [state |-> "live", wallet |-> r.wallet,
                                  owner |-> r.by, perms |-> r.perms]]
    /\ raced' = IF HasGrant(r.wallet, r.by) /\ ~Ungranting(r.wallet, r.by)
                  THEN raced ELSE raced \cup {k}
    /\ Done(c)
    /\ UNCHANGED <<now, wallet, grant, held, outAt>>

\* Whoever may share revokes any key of the wallet.
AskRevoke(c, u, k) ==
    /\ key[k] # NoRow
    /\ MayShare(u, key[k].wallet)
    /\ Ask(c, "revoke", u, key[k].wallet, None, k, {})

\* UPDATE ... WHERE id AND wallet_id AND revoked_at IS NULL; 404 otherwise.
RevokeApiKey(c) ==
    LET r == call[c] IN
    /\ r.op = "revoke"
    /\ r.row \notin Locked
    /\ key[r.row] # NoRow
    /\ key[r.row].state = "live"
    /\ key' = [key EXCEPT ![r.row].state = "revoked"]
    /\ Done(c)
    /\ UNCHANGED <<now, wallet, grant, held, outAt, raced>>

-----------------------------------------------------------------------------
\* A call that fails, is refused by a constraint or a trigger, or whose client
\* went away: its transaction is rolled back.
Fail(c) ==
    /\ call[c] # Idle
    /\ Done(c)
    /\ UNCHANGED <<now, wallet, grant, key, held, outAt, raced>>

WalletRoutes(c) ==
    \E u \in Users, w \in Wallets :
        \/ AskDelete(c, u, w) \/ AskRestore(c, u, w)
        \/ \E v \in Users : AskTransfer(c, u, w, v)

GrantRoutes(c) ==
    \E u \in Users :
        \/ \E w \in Wallets, v \in Users, P \in Sets : AskGrant(c, u, w, v, P)
        \/ \E g \in Grants, P \in Sets : AskRegrant(c, u, g, P)
        \/ \E g \in Grants : AskUngrant(c, u, g)

KeyRoutes(c) ==
    \E u \in Users :
        \/ \E w \in Wallets, P \in Sets : AskKey(c, u, w, P)
        \/ \E k \in Keys : AskRevoke(c, u, k)

Transaction(c) ==
    \/ DeleteWallet(c) \/ RestoreWallet(c) \/ TransferOwnership(c)
    \/ \E g \in Grants : CreateGrant(c, g)
    \/ UpdateGrant(c) \/ RevokeKeysOf(c) \/ DeleteGrant(c)
    \/ \E k \in Keys : CreateApiKey(c, k)
    \/ RevokeApiKey(c)

Next ==
    \/ Tick
    \/ PurgeExpiredWallets
    \/ \E u \in Users, w \in Wallets, g \in Grants : CreateWallet(u, w, g)
    \/ \E c \in Calls :
         \/ WalletRoutes(c) \/ GrantRoutes(c) \/ KeyRoutes(c)
         \/ Transaction(c) \/ Fail(c)

Spec == Init /\ [][Next]_vars

-----------------------------------------------------------------------------
(* Properties *)

TypeOK ==
    /\ now \in Nat
    /\ wallet \in [Wallets -> WalletRow \cup {Missing}]
    /\ grant \in [Grants -> GrantRow \cup {NoRow}]
    /\ key \in [Keys -> KeyRow \cup {NoRow}]
    /\ call \in [Calls -> Request \cup {Idle}]
    /\ asked \in Nat
    /\ held \in [Wallets -> [Users -> SUBSET Perms]]
    /\ outAt \in [Wallets -> Nat]
    /\ raced \subseteq Keys

\* Nobody gives what he never had: the permissions of a grant or of a key were
\* all granted, at some time, to the user who wrote it, although the check that
\* compares them is made before the transaction that inserts them.
NoAmplification ==
    /\ \A g \in Grants : grant[g] # NoRow =>
         grant[g].perms \subseteq held[grant[g].wallet][grant[g].writer]
    /\ \A k \in Keys : key[k] # NoRow =>
         key[k].perms \subseteq held[key[k].wallet][key[k].owner]

\* A grant takes the API keys of its grantee with it (delete_grant): the only
\* live key of a user without a grant is one whose creation raced with the
\* deletion, its checks made before and its row committed after the keys were
\* revoked.
KeysFollowGrants ==
    \A k \in Keys :
        (key[k] # NoRow /\ key[k].state = "live" /\ ~HasGrant(key[k].wallet, key[k].owner))
            => k \in raced

\* A wallet is purged only after a whole, uninterrupted stay in the trash: a
\* restoration is worth the window again, whatever purge was under way.  The stay
\* counts from the beginning of the transaction that put it there.
TrashWindowKept ==
    [][\A w \in Wallets : Exists(w) /\ ~Exists(w)' => outAt[w] + TrashWindow <= now]_vars

\* What the triggers of migration 001 are for, and does not hold: a transfer
\* checks the grant of the new owner, whose deletion may then commit first.
OwnerHasGrant ==
    \A w \in Wallets : Exists(w) => HasGrant(w, wallet[w].owner)

=============================================================================
