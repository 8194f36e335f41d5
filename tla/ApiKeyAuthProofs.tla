-------------------------- MODULE ApiKeyAuthProofs --------------------------
(***************************************************************************)
(* How long a revoked key, or a key whose owner lost its grant, can still   *)
(* be accepted: proved for any number of processes, keys and requests, any  *)
(* cache lifetime and any bound on the duration of a request.               *)
(***************************************************************************)
EXTENDS ApiKeyAuth, TLAPS

\* Requests last at most CallTime; history times are past.
Timely ==
    /\ \A c \in Calls : call[c] # Idle => call[c].since <= now /\ now <= call[c].since + CallTime
    /\ \A k \in Keys : key[k].at <= now

\* A verdict read before the revocation dies soon enough, in the hands of the
\* request that read it and in the caches.
StaleVerdicts ==
    /\ \A c \in Calls : call[c].pc = "verified" /\ key[call[c].key].revoked
                          => call[c].since <= key[call[c].key].at
    /\ \A n \in Nodes, k \in Keys : cache[n][k].present /\ cache[n][k].valid =>
          /\ cache[n][k].until <= now + Ttl
          /\ key[k].revoked => cache[n][k].until <= key[k].at + Ttl + CallTime
    /\ \A c \in Calls : call[c].pc \in {"grant", "accepted"} /\ key[call[c].key].revoked
                          => call[c].since <= key[call[c].key].at + Ttl + CallTime

\* A request that is accepted read the grant before it was lost.
StaleGrants ==
    \A c \in Calls : call[c].pc \in {"accepted", "admitted"} /\ rights[OwnerOf[call[c].key]] = "none"
                       => call[c].since <= lostAt[OwnerOf[call[c].key]]

Inv == TypeOK /\ Timely /\ StaleVerdicts /\ StaleGrants /\ NoFalseRefusal

-----------------------------------------------------------------------------
LEMMA InitInv == Init => Inv
BY OwnerAssumption, DurationAssumption DEF Init, Inv, TypeOK, Timely, StaleVerdicts, StaleGrants,
   NoFalseRefusal, Rights, Entry, NoEntry, Idle

\* A request that drops entries from a cache and has nothing of its own to accept.
LEMMA DroppingEntries ==
    ASSUME Inv, NEW c \in Calls, call[c] \in Request,
           NEW pc \in {"read", "revoking", "ungranting"}, Goto(c, pc),
           UNCHANGED <<now, key, rights, lostAt>>,
           cache' \in [Nodes -> [Keys -> Entry]],
           \A n \in Nodes, k \in Keys : cache'[n][k] \in {cache[n][k], NoEntry}
    PROVE  Inv'
<1>0. /\ call' \in [Calls -> Request \cup {Idle}]
      /\ \A d \in Calls : d # c => call'[d] = call[d]
      /\ call'[c].pc = pc /\ call'[c].since = call[c].since /\ call[c] # Idle
  <2>1. call' = [call EXCEPT ![c].pc = pc] /\ call \in [Calls -> Request \cup {Idle}]
    BY DEF Inv, TypeOK, Goto
  <2>2. /\ \A d \in Calls : d # c => call'[d] = call[d]
        /\ call'[c] = [call[c] EXCEPT !.pc = pc]
    BY <2>1
  <2>3. call'[c] \in Request
    BY <2>2 DEF Request, ValidationPc, SessionPc
  <2>4. call'[c].pc = pc /\ call'[c].since = call[c].since
    BY <2>2 DEF Request
  <2>5. call[c] # Idle
    BY DEF Request, Idle, ValidationPc, SessionPc
  <2> QED BY <2>1, <2>2, <2>3, <2>4, <2>5
<1>1. TypeOK'
  BY <1>0 DEF Inv, TypeOK
<1>2. Timely'
  BY <1>0 DEF Inv, Timely
<1>3. ASSUME NEW n \in Nodes, NEW k \in Keys, cache'[n][k].present
      PROVE  cache'[n][k] = cache[n][k]
  BY <1>3 DEF NoEntry
<1>4. StaleVerdicts'
  BY <1>0, <1>3 DEF Inv, StaleVerdicts
<1>5. StaleGrants' /\ NoFalseRefusal'
  BY <1>0, <1>3 DEF Inv, StaleGrants, NoFalseRefusal
<1> QED BY <1>1, <1>2, <1>4, <1>5 DEF Inv

\* The commit of a revocation ends its request; what the others read and cached
\* of the keys it revokes, they did before now.
LEMMA CommittedRevocation ==
    ASSUME Inv, NEW c \in Calls, call' = [call EXCEPT ![c] = Idle], UNCHANGED <<now, cache>>,
           key' \in [Keys -> [revoked : BOOLEAN, at : Nat]],
           \A k \in Keys : key'[k] = key[k] \/ (key'[k].revoked /\ key'[k].at = now)
    PROVE  Timely' /\ StaleVerdicts' /\ NoFalseRefusal'
<1> USE DurationAssumption DEF Inv, TypeOK
<1>1. \A d \in Calls : call'[d] = call[d] \/ call'[d] = Idle
  OBVIOUS
<1>2. ASSUME NEW d \in Calls, call[d] # Idle
      PROVE  call[d] \in Request /\ call[d].key \in Keys /\ call[d].since \in Nat
             /\ call[d].since <= now
  BY <1>2 DEF Request, Timely
<1>3. ASSUME NEW d \in Calls, call'[d].pc \in {"verified", "grant", "accepted"}
      PROVE  call'[d] = call[d] /\ call[d] # Idle
  BY <1>1, <1>3 DEF Idle
<1>4. ASSUME NEW k \in Keys
      PROVE  /\ key[k].at \in Nat /\ key'[k].at \in Nat
             /\ key[k].at <= key'[k].at /\ key'[k].at <= now
             /\ key[k].revoked => key'[k].revoked
             /\ key'[k].revoked /\ ~key[k].revoked => key'[k].at = now
  BY DEF Timely
<1>5. Timely'
  BY <1>1, <1>4 DEF Timely
<1>6. ASSUME NEW d \in Calls, call'[d].pc = "verified", key'[call'[d].key].revoked
      PROVE  call'[d].since <= key'[call'[d].key].at
  <2>1. call'[d] = call[d] /\ call[d] # Idle
    BY <1>3, <1>6
  <2> QED BY <2>1, <1>2, <1>4, <1>6 DEF StaleVerdicts
<1>7. ASSUME NEW m \in Nodes, NEW j \in Keys, cache'[m][j].present, cache'[m][j].valid
      PROVE  /\ cache'[m][j].until <= now' + Ttl
             /\ key'[j].revoked => cache'[m][j].until <= key'[j].at + Ttl + CallTime
  <2>1. /\ cache[m][j].until \in Nat /\ cache[m][j].until <= now + Ttl
        /\ key[j].revoked => cache[m][j].until <= key[j].at + Ttl + CallTime
    BY <1>7 DEF StaleVerdicts, Entry
  <2> QED BY <2>1, <1>4
<1>8. ASSUME NEW d \in Calls, call'[d].pc \in {"grant", "accepted"}, key'[call'[d].key].revoked
      PROVE  call'[d].since <= key'[call'[d].key].at + Ttl + CallTime
  <2>1. call'[d] = call[d] /\ call[d] # Idle
    BY <1>3, <1>8
  <2> QED BY <2>1, <1>2, <1>4, <1>8 DEF StaleVerdicts
<1>9. NoFalseRefusal'
  BY <1>4 DEF NoFalseRefusal
<1> QED BY <1>5, <1>6, <1>7, <1>8, <1>9 DEF StaleVerdicts

\* One entry of one cache replaced.
LEMMA OneEntry ==
    ASSUME cache \in [Nodes -> [Keys -> Entry]], NEW n \in Nodes, NEW k \in Keys,
           NEW e \in Entry, cache' = [cache EXCEPT ![n][k] = e]
    PROVE  /\ cache' \in [Nodes -> [Keys -> Entry]]
           /\ \A m \in Nodes, j \in Keys :
                cache'[m][j] = IF m = n /\ j = k THEN e ELSE cache[m][j]
<1>1. [cache[n] EXCEPT ![k] = e] \in [Keys -> Entry]
  OBVIOUS
<1>2. cache' = [cache EXCEPT ![n] = [cache[n] EXCEPT ![k] = e]]
  OBVIOUS
<1> QED BY <1>1, <1>2

LEMMA NextInv == Inv /\ [Next]_vars => Inv'
<1> SUFFICES ASSUME Inv, [Next]_vars PROVE Inv'
  OBVIOUS
<1> USE OwnerAssumption, DurationAssumption DEF Inv, TypeOK, ValidationPc, SessionPc
<1>1. CASE UNCHANGED vars
  BY <1>1 DEF vars, Timely, StaleVerdicts, StaleGrants, NoFalseRefusal
<1>2. CASE Tick
  BY <1>2 DEF Tick, Timely, StaleVerdicts, StaleGrants, NoFalseRefusal, Entry, Request
<1>3. ASSUME NEW c \in Calls, NEW pc \in {"start", "session", "revoke", "ungrant"}, NEW n \in Nodes,
             NEW k \in Keys, Begin(c, pc, n, k)
      PROVE  Inv'
  BY <1>3 DEF Begin, Timely, StaleVerdicts, StaleGrants, NoFalseRefusal, Request
<1>4. ASSUME NEW c \in Calls, Validate(c) PROVE Inv'
  <2>0. call[c] \in Request
    BY <1>4 DEF Validate, CacheHit, CacheRefuses, CacheMiss, ReadActive, ReadRevoked, CacheValid,
       GrantAccepts, GrantRefuses, Serve, Idle
  <2>1. CASE CacheHit(c)
    <3>1. /\ call' = [call EXCEPT ![c].pc = "grant"]
          /\ UNCHANGED <<now, key, rights, lostAt, cache>>
          /\ cache[call[c].node][call[c].key].present
          /\ cache[call[c].node][call[c].key].valid
          /\ now <= cache[call[c].node][call[c].key].until
      BY <2>1 DEF CacheHit, Goto, Fresh
    <3>2. cache[call[c].node][call[c].key] \in Entry /\ key[call[c].key].at \in Nat
      BY <2>0 DEF Request
    <3>3. call[c] # Idle
      BY <2>1 DEF CacheHit, Idle
    <3>4. key[call[c].key].revoked => call[c].since <= key[call[c].key].at + Ttl + CallTime
      BY <3>1, <3>2, <3>3, <2>0 DEF Timely, StaleVerdicts, Entry, Request
    <3>5. call' \in [Calls -> Request \cup {Idle}]
      BY <3>1, <2>0 DEF Request
    <3>6. Timely' /\ StaleVerdicts'
      BY <3>1, <3>3, <3>4, <2>0 DEF Timely, StaleVerdicts, Request
    <3>7. StaleGrants' /\ NoFalseRefusal'
      BY <3>1, <2>0 DEF StaleGrants, NoFalseRefusal, Request
    <3> QED BY <3>1, <3>5, <3>6, <3>7
  <2>2. CASE CacheRefuses(c) \/ GrantRefuses(c) \/ Serve(c)
    <3>1. call' = [call EXCEPT ![c] = Idle] /\ UNCHANGED <<now, key, rights, lostAt, cache>>
      BY <2>2 DEF CacheRefuses, GrantRefuses, Serve, End
    <3> QED BY <3>1 DEF Timely, StaleVerdicts, StaleGrants, NoFalseRefusal, Idle
  <2>3. CASE CacheMiss(c)
    <3>1. call[c].node \in Nodes /\ call[c].key \in Keys /\ NoEntry \in Entry
      BY <2>0 DEF Request, NoEntry, Entry
    <3>2. /\ cache' \in [Nodes -> [Keys -> Entry]]
          /\ \A m \in Nodes, j \in Keys : cache'[m][j] \in {cache[m][j], NoEntry}
      BY <2>3, <3>1, OneEntry DEF CacheMiss
    <3> QED BY <2>0, <2>3, <3>2, DroppingEntries DEF CacheMiss
  <2>4. CASE ReadActive(c)
    BY SMTT(40), <2>0, <2>4 DEF ReadActive, Goto, Timely, StaleVerdicts, StaleGrants, NoFalseRefusal, Request, Idle
  <2>5. CASE ReadRevoked(c)
    BY SMTT(40), <2>0, <2>5 DEF ReadRevoked, End, Timely, StaleVerdicts, StaleGrants, NoFalseRefusal,
       Request, Entry, Idle
  <2>6. CASE CacheValid(c)
    <3>1. /\ call' = [call EXCEPT ![c].pc = "grant"]
          /\ cache' = [cache EXCEPT ![call[c].node][call[c].key] =
                         [present |-> TRUE, valid |-> TRUE, until |-> now + Ttl]]
          /\ UNCHANGED <<now, key, rights, lostAt>>
          /\ call[c].pc = "verified" /\ call[c] # Idle
      BY <2>6 DEF CacheValid, Goto, Idle
    <3>0. call[c].node \in Nodes /\ call[c].key \in Keys
          /\ [present |-> TRUE, valid |-> TRUE, until |-> now + Ttl] \in Entry
      BY <2>0 DEF Request, Entry
    <3>2. /\ call' \in [Calls -> Request \cup {Idle}]
          /\ cache' \in [Nodes -> [Keys -> Entry]]
          /\ \A m \in Nodes, j \in Keys :
               cache'[m][j] = IF m = call[c].node /\ j = call[c].key
                                THEN [present |-> TRUE, valid |-> TRUE, until |-> now + Ttl]
                                ELSE cache[m][j]
      <4>1. call' \in [Calls -> Request \cup {Idle}]
        BY <3>1, <2>0 DEF Request
      <4> QED BY <4>1, <3>0, <3>1, OneEntry
    <3>3. key[call[c].key].revoked => call[c].since <= key[call[c].key].at
      BY <3>1 DEF StaleVerdicts
    <3>4. Timely'
      BY <3>1, <2>0 DEF Timely, Request
    <3>5. StaleVerdicts'
      <4>1. /\ \A d \in Calls : d # c => call'[d] = call[d]
            /\ call'[c].pc = "grant" /\ call'[c].since = call[c].since
            /\ call'[c].key = call[c].key
            /\ call[c].since \in Nat /\ call[c].since <= now /\ now <= call[c].since + CallTime
        BY <3>1, <2>0 DEF Request, Timely
      <4>2. \A k \in Keys : key[k].at \in Nat /\ key[k].at <= now
        BY DEF Timely
      <4>3. \A d \in Calls : call'[d].pc = "verified" /\ key'[call'[d].key].revoked
                              => call'[d].since <= key'[call'[d].key].at
        BY <4>1, <3>1 DEF StaleVerdicts
      <4>4. ASSUME NEW m \in Nodes, NEW j \in Keys, cache'[m][j].present, cache'[m][j].valid
            PROVE  /\ cache'[m][j].until <= now + Ttl
                   /\ key[j].revoked => cache'[m][j].until <= key[j].at + Ttl + CallTime
        <5>1. CASE m = call[c].node /\ j = call[c].key
          BY <5>1, <4>1, <4>2, <3>0, <3>2, <3>3
        <5>2. CASE ~(m = call[c].node /\ j = call[c].key)
          BY <5>2, <4>4, <3>2 DEF StaleVerdicts
        <5> QED BY <5>1, <5>2
      <4>5. \A d \in Calls : call'[d].pc \in {"grant", "accepted"} /\ key'[call'[d].key].revoked
                              => call'[d].since <= key'[call'[d].key].at + Ttl + CallTime
        <5>1. key[call[c].key].revoked => call[c].since <= key[call[c].key].at + Ttl + CallTime
          BY <4>1, <4>2, <3>0, <3>3
        <5> QED BY <5>1, <4>1, <3>1 DEF StaleVerdicts
      <4> QED BY <4>3, <4>4, <4>5, <3>1 DEF StaleVerdicts
    <3>6. StaleGrants' /\ NoFalseRefusal'
      BY <3>1, <3>2, <2>0 DEF StaleGrants, NoFalseRefusal, Request
    <3> QED BY <3>1, <3>2, <3>4, <3>5, <3>6
  <2>7. CASE GrantAccepts(c)
    BY <2>0, <2>7 DEF GrantAccepts, Goto, Covered, Timely, StaleVerdicts, StaleGrants,
       NoFalseRefusal, Request, Idle
  <2> QED BY <1>4, <2>1, <2>2, <2>3, <2>4, <2>5, <2>6, <2>7 DEF Validate
<1>11. ASSUME NEW c \in Calls, Session(c) PROVE Inv'
  <2>0. call[c] \in Request
    BY <1>11 DEF Session, SessionAdmitted, AnyOfAdmitted, SessionRefused, ServeSession, Idle
  <2>1. CASE SessionAdmitted(c) \/ AnyOfAdmitted(c)
    <3>1. /\ call' = [call EXCEPT ![c].pc = "admitted"]
          /\ rights[OwnerOf[call[c].key]] # "none"
          /\ UNCHANGED <<now, key, rights, lostAt, cache>>
      BY <2>1 DEF SessionAdmitted, AnyOfAdmitted, Goto, Covered, HasAnyOf
    <3>2. /\ \A d \in Calls : d # c => call'[d] = call[d]
          /\ call'[c].pc = "admitted" /\ call'[c].since = call[c].since
          /\ call'[c].key = call[c].key /\ call'[c] \in Request
      BY <3>1, <2>0 DEF Request
    <3>3. call' \in [Calls -> Request \cup {Idle}] /\ call[c] # Idle
      BY <3>1, <3>2, <2>0 DEF Request, Idle
    <3> QED BY <3>1, <3>2, <3>3 DEF Timely, StaleVerdicts, StaleGrants, NoFalseRefusal
  <2>2. CASE SessionRefused(c) \/ ServeSession(c)
    <3>1. call' = [call EXCEPT ![c] = Idle] /\ UNCHANGED <<now, key, rights, lostAt, cache>>
      BY <2>2 DEF SessionRefused, ServeSession, End
    <3> QED BY <3>1 DEF Timely, StaleVerdicts, StaleGrants, NoFalseRefusal, Idle
  <2> QED BY <1>11, <2>1, <2>2 DEF Session
<1>5. ASSUME NEW c \in Calls, RevokeInvalidate(c) PROVE Inv'
  <2>1. call[c] \in Request
    BY <1>5 DEF RevokeInvalidate, Idle
  <2>2. call[c].node \in Nodes /\ call[c].key \in Keys /\ NoEntry \in Entry
    BY <2>1 DEF Request, NoEntry, Entry
  <2>3. /\ cache' \in [Nodes -> [Keys -> Entry]]
        /\ \A m \in Nodes, j \in Keys : cache'[m][j] \in {cache[m][j], NoEntry}
    BY <1>5, <2>2, OneEntry DEF RevokeInvalidate
  <2> QED BY <1>5, <2>1, <2>3, DroppingEntries DEF RevokeInvalidate
<1>6. ASSUME NEW c \in Calls, RevokeCommit(c) PROVE Inv'
  <2>1. /\ call' = [call EXCEPT ![c] = Idle]
        /\ key' = [key EXCEPT ![call[c].key] = [revoked |-> TRUE, at |-> now]]
        /\ UNCHANGED <<now, rights, lostAt, cache>>
        /\ call[c] \in Request
    BY <1>6 DEF RevokeCommit, End, Idle
  <2>2. /\ key' \in [Keys -> [revoked : BOOLEAN, at : Nat]]
        /\ \A k \in Keys : key'[k] = key[k] \/ (key'[k].revoked /\ key'[k].at = now)
    BY <2>1 DEF Request
  <2>3. TypeOK'
    BY <2>1, <2>2
  <2>4. StaleGrants'
    BY <2>1 DEF StaleGrants, Idle
  <2> QED BY <2>1, <2>2, <2>3, <2>4, CommittedRevocation
<1>7. ASSUME NEW c \in Calls, UngrantInvalidate(c) PROVE Inv'
  <2>1. call[c] \in Request
    BY <1>7 DEF UngrantInvalidate, Idle
  <2>2. call[c].node \in Nodes /\ NoEntry \in Entry
    BY <2>1 DEF Request, NoEntry, Entry
  <2>3. \/ cache' = cache
        \/ cache' = [cache EXCEPT ![call[c].node] = [k \in Keys |-> NoEntry]]
    BY <1>7 DEF UngrantInvalidate
  <2>4. /\ cache' \in [Nodes -> [Keys -> Entry]]
        /\ \A m \in Nodes, j \in Keys : cache'[m][j] \in {cache[m][j], NoEntry}
    <3>1. [k \in Keys |-> NoEntry] \in [Keys -> Entry]
      BY <2>2
    <3>2. CASE cache' = cache
      BY <3>2
    <3>3. CASE cache' = [cache EXCEPT ![call[c].node] = [k \in Keys |-> NoEntry]]
      BY <3>1, <3>3, <2>2
    <3> QED BY <2>3, <3>2, <3>3
  <2> QED BY <1>7, <2>1, <2>4, DroppingEntries DEF UngrantInvalidate
<1>8. ASSUME NEW c \in Calls, UngrantCommit(c) PROVE Inv'
  <2> DEFINE u == OwnerOf[call[c].key]
  <2>1. /\ call' = [call EXCEPT ![c] = Idle]
        /\ key' = [k \in Keys |-> IF OwnerOf[k] = u /\ ~key[k].revoked
                                    THEN [revoked |-> TRUE, at |-> now] ELSE key[k]]
        /\ rights' = [rights EXCEPT ![u] = "none"]
        /\ lostAt' = [lostAt EXCEPT ![u] = now]
        /\ UNCHANGED <<now, cache>>
        /\ u \in Users
    BY <1>8 DEF UngrantCommit, End, Idle, Request
  <2>2. TypeOK'
    BY <2>1 DEF Rights
  <2>3. /\ key' \in [Keys -> [revoked : BOOLEAN, at : Nat]]
        /\ \A k \in Keys : key'[k] = key[k] \/ (key'[k].revoked /\ key'[k].at = now)
    BY <2>1
  <2>4. Timely' /\ StaleVerdicts' /\ NoFalseRefusal'
    BY <2>1, <2>3, CommittedRevocation
  <2>5. StaleGrants'
    BY <2>1 DEF Timely, StaleGrants, Request, Idle
  <2> QED BY <2>2, <2>4, <2>5
<1>9. ASSUME NEW c \in Calls, Abort(c) PROVE Inv'
  BY <1>9 DEF Abort, End, Timely, StaleVerdicts, StaleGrants, NoFalseRefusal, Idle
<1>10. ASSUME NEW u \in Users, NEW level \in Rights, SetRights(u, level) PROVE Inv'
  BY <1>10 DEF SetRights, Timely, StaleVerdicts, StaleGrants, NoFalseRefusal, Rights
<1> QED
  BY <1>1, <1>2, <1>3, <1>4, <1>5, <1>6, <1>7, <1>8, <1>9, <1>10, <1>11 DEF Next, Revoke, Ungrant

LEMMA Invariance == Spec => []Inv
BY InitInv, NextInv, PTL DEF Spec

-----------------------------------------------------------------------------
\* The caches, rows and requests keep their types.
THEOREM TypeCorrect == Spec => []TypeOK
BY Invariance, PTL DEF Inv

\* A revoked key is accepted for at most Ttl + 2 * CallTime after the commit of
\* its revocation, on any process, although neither the cache hit nor the other
\* processes ever look at revoked_at (api_key_cache.py, api_key_auth.py).
THEOREM RevocationIsBounded == Spec => []RevocationBounded
<1>1. Inv => RevocationBounded
  <2> SUFFICES ASSUME Inv, NEW c \in Calls, call[c].pc = "accepted", key[call[c].key].revoked
               PROVE  now <= key[call[c].key].at + Ttl + 2 * CallTime
    BY DEF RevocationBounded
  <2>1. call[c] # Idle /\ call[c] \in Request
    BY DEF Inv, TypeOK, Idle
  <2> QED BY <2>1, DurationAssumption DEF Inv, TypeOK, Timely, StaleVerdicts, Request
<1> QED BY <1>1, Invariance, PTL

\* A key whose owner lost its grant is accepted only by requests that had begun,
\* whatever the caches hold: the grant is read on every call.
THEOREM GrantLossIsImmediate == Spec => []GrantLossImmediate
<1>1. Inv => GrantLossImmediate
  <2> SUFFICES ASSUME Inv, NEW c \in Calls, call[c].pc \in {"accepted", "admitted"},
                      rights[OwnerOf[call[c].key]] = "none"
               PROVE  now <= lostAt[OwnerOf[call[c].key]] + CallTime
    BY DEF GrantLossImmediate
  <2>1. call[c] # Idle /\ call[c] \in Request
    BY DEF Inv, TypeOK, Idle
  <2>2. lostAt[OwnerOf[call[c].key]] \in Nat
    BY <2>1, OwnerAssumption DEF Inv, TypeOK, Request
  <2> QED BY <2>1, <2>2, DurationAssumption DEF Inv, TypeOK, Timely, StaleGrants, Request
<1> QED BY <1>1, Invariance, PTL

\* No process refuses a key that was not revoked, even when a revocation is
\* rolled back after it touched the cache.
THEOREM NoActiveKeyRefused == Spec => []NoFalseRefusal
BY Invariance, PTL DEF Inv

=============================================================================
