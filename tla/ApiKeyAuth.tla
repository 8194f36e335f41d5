----------------------------- MODULE ApiKeyAuth -----------------------------
(***************************************************************************)
(* Authentication by API key (core/api_key_auth.py) and its in-process      *)
(* validation cache (core/api_key_cache.py), against the revocation of a    *)
(* key (services/api_keys.py) and the deletion of its owner's grant         *)
(* (services/grants.py), on several backend processes; and the other way in, *)
(* the session of a user whose grant gives access to the same routes.       *)
(*                                                                          *)
(* A validation awaits the database between its steps, and a revocation     *)
(* invalidates the cache of its own process before its transaction commits: *)
(* these are the interleavings checked here.  Tokens are abstract: the      *)
(* format, expiry, HMAC and permission tests of the token use no shared     *)
(* state and only refuse calls.                                             *)
(***************************************************************************)
EXTENDS Naturals, FiniteSets

CONSTANTS
    Keys,       \* rows of api_keys on one wallet
    Users,      \* owners of the keys
    OwnerOf,    \* the owner of each key
    Nodes,      \* backend processes, each with its own cache
    Calls,      \* slots for requests in progress
    Ttl,        \* api_key_validation_cache_ttl_seconds, in ticks
    CallTime,   \* the longest time a request takes, in ticks
    MaxTime     \* bound of the clock (model checking only)

ASSUME OwnerAssumption == OwnerOf \in [Keys -> Users]
ASSUME DurationAssumption == Ttl \in Nat /\ CallTime \in Nat /\ MaxTime \in Nat

VARIABLES
    now,
    key,        \* [revoked, at]: revoked_at IS NOT NULL, committed at that time
    rights,     \* what the grant of each user covers of the permissions of its keys
    lostAt,     \* when each user last lost its grant (history)
    cache,      \* _validation_cache of each process
    call        \* requests in progress

vars == <<now, key, rights, lostAt, cache, call>>

-----------------------------------------------------------------------------
Rights == {"none", "reduced", "full"}

\* A cache entry; an absent one is expired by convention (valid FALSE, until 0
\* is told apart by present).
NoEntry == [present |-> FALSE, valid |-> FALSE, until |-> 0]
Entry == [present : BOOLEAN, valid : BOOLEAN, until : Nat]

Idle == [pc |-> "idle"]
ValidationPc == {"start", "read", "verified", "grant", "accepted"}
SessionPc == {"session", "admitted"}
Request == [pc : ValidationPc \cup SessionPc \cup {"revoke", "revoking", "ungrant", "ungranting"},
            node : Nodes, key : Keys, since : Nat]

OwnKeys(u) == {k \in Keys : OwnerOf[k] = u}

\* The rows of api_keys an uncommitted transaction has updated: another UPDATE
\* of the same row waits for its end.
LockedBy(c) ==
    CASE call[c].pc = "revoking"   -> {call[c].key}
      [] call[c].pc = "ungranting" -> OwnKeys(OwnerOf[call[c].key])
      [] OTHER -> {}
Free(K) == \A c \in Calls : LockedBy(c) \cap K = {}

Init ==
    /\ now = 0
    /\ key = [k \in Keys |-> [revoked |-> FALSE, at |-> 0]]
    /\ rights = [u \in Users |-> "full"]
    /\ lostAt = [u \in Users |-> 0]
    /\ cache = [n \in Nodes |-> [k \in Keys |-> NoEntry]]
    /\ call = [c \in Calls |-> Idle]

\* No request lasts longer than CallTime.
Tick ==
    /\ now < MaxTime
    /\ \A c \in Calls : call[c] # Idle => now < call[c].since + CallTime
    /\ now' = now + 1
    /\ UNCHANGED <<key, rights, lostAt, cache, call>>

Begin(c, pc, n, k) ==
    /\ call[c] = Idle
    /\ call' = [call EXCEPT ![c] = [pc |-> pc, node |-> n, key |-> k, since |-> now]]
    /\ UNCHANGED <<now, key, rights, lostAt, cache>>

Goto(c, pc) == call' = [call EXCEPT ![c].pc = pc]
End(c) == call' = [call EXCEPT ![c] = Idle]

-----------------------------------------------------------------------------
(* validate_api_key_token *)

\* A mistake: entries never expire.
FreshForever(e) == e.present

\* cache_get_valid: None when absent or past its expiry.
Fresh(e) == e.present /\ now <= e.until

\* A hit only reads the wallet and the owner of the key again, not revoked_at.
CacheHit(c) ==
    LET e == cache[call[c].node][call[c].key] IN
    /\ call[c].pc = "start"
    /\ Fresh(e)
    /\ e.valid
    /\ Goto(c, "grant")
    /\ UNCHANGED <<now, key, rights, lostAt, cache>>

CacheRefuses(c) ==
    LET e == cache[call[c].node][call[c].key] IN
    /\ call[c].pc = "start"
    /\ Fresh(e)
    /\ ~e.valid
    /\ End(c)
    /\ UNCHANGED <<now, key, rights, lostAt, cache>>

\* An expired entry is deleted by the lookup.
CacheMiss(c) ==
    /\ call[c].pc = "start"
    /\ ~Fresh(cache[call[c].node][call[c].key])
    /\ cache' = [cache EXCEPT ![call[c].node][call[c].key] = NoEntry]
    /\ Goto(c, "read")
    /\ UNCHANGED <<now, key, rights, lostAt>>

\* SELECT ... WHERE revoked_at IS NULL.
ReadActive(c) ==
    /\ call[c].pc = "read"
    /\ ~key[call[c].key].revoked
    /\ Goto(c, "verified")
    /\ UNCHANGED <<now, key, rights, lostAt, cache>>

ReadRevoked(c) ==
    /\ call[c].pc = "read"
    /\ key[call[c].key].revoked
    /\ cache' = [cache EXCEPT ![call[c].node][call[c].key] =
                   [present |-> TRUE, valid |-> FALSE, until |-> now + Ttl]]
    /\ End(c)
    /\ UNCHANGED <<now, key, rights, lostAt>>

\* The connection is given back (an await), then the verdict is cached.
CacheValid(c) ==
    /\ call[c].pc = "verified"
    /\ cache' = [cache EXCEPT ![call[c].node][call[c].key] =
                   [present |-> TRUE, valid |-> TRUE, until |-> now + Ttl]]
    /\ Goto(c, "grant")
    /\ UNCHANGED <<now, key, rights, lostAt>>

\* A mistake: the grant of the owner is not read.
CoveredAlways(c) == TRUE

\* The grant of the owner is read on every call, cached or not.
Covered(c) == rights[OwnerOf[call[c].key]] = "full"

GrantAccepts(c) ==
    /\ call[c].pc = "grant"
    /\ Covered(c)
    /\ Goto(c, "accepted")
    /\ UNCHANGED <<now, key, rights, lostAt, cache>>

GrantRefuses(c) ==
    /\ call[c].pc = "grant"
    /\ ~Covered(c)
    /\ End(c)
    /\ UNCHANGED <<now, key, rights, lostAt, cache>>

\* The route, which refuses the key of another wallet or without the permission.
Serve(c) ==
    /\ call[c].pc = "accepted"
    /\ End(c)
    /\ UNCHANGED <<now, key, rights, lostAt, cache>>

-----------------------------------------------------------------------------
(* The same routes for a user signed in, here the owner of call[c].key: the *)
(* token is verified without the database, then the wallet is read with the *)
(* permissions of the user, once.                                           *)

SessionAdmitted(c) ==
    /\ call[c].pc = "session"
    /\ Covered(c)
    /\ Goto(c, "admitted")
    /\ UNCHANGED <<now, key, rights, lostAt, cache>>

\* What is left of reduced permissions may still hold one of those asked for.
HasAnyOf(c) == rights[OwnerOf[call[c].key]] # "none"

AnyOfAdmitted(c) ==
    /\ call[c].pc = "session"
    /\ HasAnyOf(c)
    /\ Goto(c, "admitted")
    /\ UNCHANGED <<now, key, rights, lostAt, cache>>

SessionRefused(c) ==
    /\ call[c].pc = "session"
    /\ ~Covered(c)
    /\ End(c)
    /\ UNCHANGED <<now, key, rights, lostAt, cache>>

ServeSession(c) ==
    /\ call[c].pc = "admitted"
    /\ End(c)
    /\ UNCHANGED <<now, key, rights, lostAt, cache>>

-----------------------------------------------------------------------------
(* revoke_api_key *)

\* A mistake: the refusal is cached before the transaction commits.
RevokeCachesRefusal(c) ==
    /\ call[c].pc = "revoke"
    /\ Free({call[c].key})
    /\ ~key[call[c].key].revoked
    /\ cache' = [cache EXCEPT ![call[c].node][call[c].key] =
                   [present |-> TRUE, valid |-> FALSE, until |-> now + Ttl]]
    /\ Goto(c, "revoking")
    /\ UNCHANGED <<now, key, rights, lostAt>>

\* Inside the transaction: UPDATE, then cache_invalidate on this process.
RevokeInvalidate(c) ==
    /\ call[c].pc = "revoke"
    /\ Free({call[c].key})
    /\ ~key[call[c].key].revoked
    /\ cache' = [cache EXCEPT ![call[c].node][call[c].key] = NoEntry]
    /\ Goto(c, "revoking")
    /\ UNCHANGED <<now, key, rights, lostAt>>

RevokeCommit(c) ==
    /\ call[c].pc = "revoking"
    /\ key' = [key EXCEPT ![call[c].key] = [revoked |-> TRUE, at |-> now]]
    /\ End(c)
    /\ UNCHANGED <<now, rights, lostAt, cache>>

-----------------------------------------------------------------------------
(* delete_grant, of the grant of the owner of call[c].key *)

\* Inside the transaction: all the keys of the grantee are revoked; the whole
\* cache of this process is cleared when there was one.
UngrantInvalidate(c) ==
    LET u == OwnerOf[call[c].key] IN
    /\ call[c].pc = "ungrant"
    /\ rights[u] # "none"
    /\ Free(OwnKeys(u))
    /\ cache' = IF \E k \in OwnKeys(u) : ~key[k].revoked
                  THEN [cache EXCEPT ![call[c].node] = [k \in Keys |-> NoEntry]]
                  ELSE cache
    /\ Goto(c, "ungranting")
    /\ UNCHANGED <<now, key, rights, lostAt>>

UngrantCommit(c) ==
    LET u == OwnerOf[call[c].key] IN
    /\ call[c].pc = "ungranting"
    /\ key' = [k \in Keys |-> IF OwnerOf[k] = u /\ ~key[k].revoked
                                THEN [revoked |-> TRUE, at |-> now] ELSE key[k]]
    /\ rights' = [rights EXCEPT ![u] = "none"]
    /\ lostAt' = [lostAt EXCEPT ![u] = now]
    /\ End(c)
    /\ UNCHANGED <<now, cache>>

\* create_grant and update_grant, by a user who may share the wallet.  The row
\* of the grant is only deleted at the end of delete_grant, so it may still be
\* updated while its keys are being revoked.
SetRights(u, level) ==
    /\ level \in {"reduced", "full"}
    /\ rights[u] # level
    /\ rights' = [rights EXCEPT ![u] = level]
    /\ UNCHANGED <<now, key, lostAt, cache, call>>

\* A request fails or is refused before its commit: a transaction is rolled
\* back, the cache keeps what was done to it.
Abort(c) ==
    /\ call[c].pc \in {"read", "verified", "grant", "session", "revoke", "revoking", "ungrant", "ungranting"}
    /\ End(c)
    /\ UNCHANGED <<now, key, rights, lostAt, cache>>

-----------------------------------------------------------------------------
Validate(c) ==
    \/ CacheHit(c) \/ CacheRefuses(c) \/ CacheMiss(c)
    \/ ReadActive(c) \/ ReadRevoked(c) \/ CacheValid(c)
    \/ GrantAccepts(c) \/ GrantRefuses(c) \/ Serve(c)

Session(c) ==
    SessionAdmitted(c) \/ AnyOfAdmitted(c) \/ SessionRefused(c) \/ ServeSession(c)

Revoke(c) == RevokeInvalidate(c) \/ RevokeCommit(c)
Ungrant(c) == UngrantInvalidate(c) \/ UngrantCommit(c)

Next ==
    \/ Tick
    \/ \E c \in Calls :
         \/ \E pc \in {"start", "session", "revoke", "ungrant"}, n \in Nodes, k \in Keys : Begin(c, pc, n, k)
         \/ Validate(c) \/ Session(c) \/ Revoke(c) \/ Ungrant(c) \/ Abort(c)
    \/ \E u \in Users, level \in Rights : SetRights(u, level)

Spec == Init /\ [][Next]_vars

-----------------------------------------------------------------------------
(* Properties *)

\* The state is well typed.
TypeOK ==
    /\ now \in Nat
    /\ key \in [Keys -> [revoked : BOOLEAN, at : Nat]]
    /\ rights \in [Users -> Rights]
    /\ lostAt \in [Users -> Nat]
    /\ cache \in [Nodes -> [Keys -> Entry]]
    /\ call \in [Calls -> Request \cup {Idle}]

\* A revoked key is accepted, on any process, no later than the lifetime of a
\* cache entry and of two requests after the commit of its revocation: the
\* request that was reading the key, and the one that finds its verdict.
RevocationBounded ==
    \A c \in Calls : call[c].pc = "accepted" /\ key[call[c].key].revoked
        => now <= key[call[c].key].at + Ttl + 2 * CallTime

\* The loss of the grant takes effect at once, whatever the caches hold, for the
\* keys of the user and for its sessions: only the requests in progress may still
\* be accepted.
GrantLossImmediate ==
    \A c \in Calls : call[c].pc \in {"accepted", "admitted"} /\ rights[OwnerOf[call[c].key]] = "none"
        => now <= lostAt[OwnerOf[call[c].key]] + CallTime

\* A key that was not revoked is never refused by the cache of a process, though
\* that cache is changed inside transactions of other requests and read between
\* the steps of this one: a revocation that is rolled back leaves no negative
\* verdict behind (revoke_api_key, delete_grant, validate_api_key_token).
NoFalseRefusal ==
    \A n \in Nodes, k \in Keys :
        cache[n][k].present /\ ~cache[n][k].valid => key[k].revoked

\* What api_keys.py:256 and api_key_cache.py:12 say: on the process that
\* revoked it, a key is refused by every request begun after the revocation
\* (here on an only process).
RevocationImmediate ==
    \A c \in Calls : call[c].pc = "accepted" /\ key[call[c].key].revoked
        => call[c].since <= key[call[c].key].at

=============================================================================
