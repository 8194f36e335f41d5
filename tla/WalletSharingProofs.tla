------------------------- MODULE WalletSharingProofs -------------------------
(***************************************************************************)
(* What sharing a wallet gives away, for any number of users, wallets,      *)
(* grants, keys and calls, any permissions and any window of the trash.     *)
(***************************************************************************)
EXTENDS WalletSharing, TLAPS

-----------------------------------------------------------------------------
(* The inductive invariant *)

\* Rows go with their wallet.
RowsHaveWallets ==
    /\ \A g \in Grants : grant[g] # NoRow => Exists(grant[g].wallet)
    /\ \A k \in Keys : key[k] # NoRow => Exists(key[k].wallet)

\* What a call kept from its checks still says something of the rows it names:
\* an identifier is never given again, and a grant keeps its wallet and its user.
CallsNameRows ==
    \A c \in Calls :
        LET r == call[c] IN
        /\ r.op \in {"regrant", "ungrant", "ungranting"} =>
             /\ r.row \in Grants
             /\ grant[r.row] # NoRow => grant[r.row].wallet = r.wallet /\ grant[r.row].user = r.user
        /\ r.op = "revoke" => r.row \in Keys
        /\ r.op \in {"transfer", "grant", "regrant", "ungrant", "ungranting"} => r.user \in Users
        /\ r.op \in {"grant", "regrant", "newkey"} => r.perms \in Sets

\* Between the two statements of delete_grant, the live keys of the grantee are
\* those that the first revoked, or were inserted since.
RevokedOrRaced ==
    \A c \in Calls : call[c].op = "ungranting" =>
        /\ \A k \in call[c].keys : key[k] # NoRow
        /\ LiveKeysOf(call[c].wallet, call[c].user) \subseteq call[c].keys \cup raced

\* A grant gives what its user holds; a call in progress gives what its caller
\* held, even if he lost it since.
GivenWasHeld ==
    /\ \A g \in Grants : grant[g] # NoRow =>
         grant[g].perms \subseteq held[grant[g].wallet][grant[g].user]
    /\ \A c \in Calls :
         (call[c].op \in {"grant", "regrant", "newkey"} /\ Exists(call[c].wallet))
             => call[c].perms \subseteq held[call[c].wallet][call[c].by]

\* A wallet was last out of the trash when it was put there, or before.
TrashDates ==
    \A w \in Wallets :
        /\ outAt[w] <= now
        /\ wallet[w].state = "trash" => outAt[w] <= wallet[w].since

Inv == /\ TypeOK /\ RowsHaveWallets /\ CallsNameRows /\ RevokedOrRaced /\ GivenWasHeld
       /\ NoAmplification /\ KeysFollowGrants /\ TrashDates

LEMMA InitInv == Init => Inv
<1> SUFFICES ASSUME Init PROVE Inv
  OBVIOUS
<1>1. TypeOK
  BY DEF Init, TypeOK, Missing, NoRow, Idle, NothingHeld
<1>2. RowsHaveWallets /\ GivenWasHeld /\ NoAmplification /\ KeysFollowGrants
  BY DEF Init, RowsHaveWallets, GivenWasHeld, NoAmplification, KeysFollowGrants, Idle
<1>3. CallsNameRows /\ RevokedOrRaced
  BY DEF Init, CallsNameRows, RevokedOrRaced, Idle
<1>4. TrashDates
  BY DEF Init, TrashDates, Missing
<1> QED BY <1>1, <1>2, <1>3, <1>4 DEF Inv

-----------------------------------------------------------------------------
(* What the types say *)

LEMMA Shapes ==
    ASSUME TypeOK
    PROVE  /\ \A w : w \in Wallets /\ Exists(w) => wallet[w] \in WalletRow
           /\ \A g : g \in Grants /\ grant[g] # NoRow => grant[g] \in GrantRow
           /\ \A k : k \in Keys /\ key[k] # NoRow => key[k] \in KeyRow
           /\ \A c : c \in Calls /\ call[c] # Idle => call[c] \in Request
           /\ \A c : c \in Calls /\ call[c].op # "idle" => call[c] # Idle
           /\ \A w : w \in Wallets /\ wallet[w].state # "missing" => Exists(w)
BY DEF TypeOK, Exists, Missing, Idle

\* A grant gives what its user was granted, so what a caller may give he held.
LEMMA PermissionsWereHeld ==
    ASSUME Inv, NEW w \in Wallets, NEW u \in Users
    PROVE  Permissions(w, u) \subseteq held[w][u]
BY DEF Inv, GivenWasHeld, Permissions, GrantsOf

\* What Hold does, user by user.
LEMMA HoldAdds ==
    ASSUME TypeOK, NEW w \in Wallets, NEW u \in Users, NEW P \in SUBSET Perms, Hold(w, u, P)
    PROVE  /\ held' \in [Wallets -> [Users -> SUBSET Perms]]
           /\ \A x \in Wallets, y \in Users : held[x][y] \subseteq held'[x][y]
           /\ P \subseteq held'[w][u]
<1>1. held \in [Wallets -> [Users -> SUBSET Perms]]
  BY DEF TypeOK
<1>2. held' = [held EXCEPT ![w] = [held[w] EXCEPT ![u] = held[w][u] \cup P]]
  BY <1>1 DEF Hold
<1>3. [held[w] EXCEPT ![u] = held[w][u] \cup P] \in [Users -> SUBSET Perms]
  BY <1>1
<1>4. held' \in [Wallets -> [Users -> SUBSET Perms]]
  BY <1>1, <1>2, <1>3
<1>5. held'[w] = [held[w] EXCEPT ![u] = held[w][u] \cup P]
  BY <1>1, <1>2
<1>6. \A x \in Wallets : x # w => held'[x] = held[x]
  BY <1>1, <1>2
<1>7. held'[w][u] = held[w][u] \cup P /\ \A y \in Users : y # u => held'[w][y] = held[w][y]
  BY <1>1, <1>5
<1> QED BY <1>4, <1>6, <1>7

\* The call that ends, and the others.
LEMMA CallEnds ==
    ASSUME TypeOK, NEW c \in Calls, Done(c)
    PROVE  /\ call' \in [Calls -> Request \cup {Idle}]
           /\ asked' \in Nat
           /\ call'[c] = Idle /\ Idle.op = "idle"
           /\ \A d \in Calls : d # c => call'[d] = call[d]
BY DEF TypeOK, Done, Idle

-----------------------------------------------------------------------------
(* The checks *)

\* A request that was checked joins the others.
LEMMA AskKeeps ==
    ASSUME Inv, NEW c \in Calls, NEW op \in Ops \ {"ungranting"}, NEW u \in Users, NEW w \in Wallets,
           NEW v \in Users \cup {None}, NEW r \in Grants \cup Keys \cup {None},
           NEW P \in SUBSET Perms, Ask(c, op, u, w, v, r, P),
           op \in {"regrant", "ungrant"} =>
             r \in Grants /\ grant[r].wallet = w /\ grant[r].user = v,
           op = "revoke" => r \in Keys,
           op \in {"transfer", "grant", "regrant", "ungrant"} => v \in Users,
           op \in {"grant", "regrant", "newkey"} => P \in Sets /\ P \subseteq held[w][u]
    PROVE  Inv'
<1> DEFINE q == [op |-> op, by |-> u, wallet |-> w, user |-> v, row |-> r, perms |-> P,
                 keys |-> {}, at |-> IF op = "delete" THEN now ELSE 0]
<1>1. /\ call' = [call EXCEPT ![c] = q] /\ asked' = asked + 1
      /\ UNCHANGED <<now, wallet, grant, key, held, outAt, raced>>
  BY DEF Ask
<1>2. /\ q \in Request /\ q.op = op /\ q.by = u /\ q.wallet = w
      /\ q.user = v /\ q.row = r /\ q.perms = P
  BY DEF Request, Inv, TypeOK
<1> HIDE DEF q
<1>3. TypeOK
  BY DEF Inv
<1>4. call'[c] = q /\ \A d \in Calls : d # c => call'[d] = call[d]
  BY <1>1, <1>3 DEF TypeOK
<1>5. TypeOK'
  BY <1>1, <1>2, <1>3 DEF TypeOK
<1>6. CallsNameRows'
  <2>1. ASSUME NEW d \in Calls
        PROVE  LET e == call'[d] IN
               /\ e.op \in {"regrant", "ungrant", "ungranting"} =>
                    /\ e.row \in Grants
                    /\ grant[e.row] # NoRow =>
                         grant[e.row].wallet = e.wallet /\ grant[e.row].user = e.user
               /\ e.op = "revoke" => e.row \in Keys
               /\ e.op \in {"transfer", "grant", "regrant", "ungrant", "ungranting"} =>
                    e.user \in Users
               /\ e.op \in {"grant", "regrant", "newkey"} => e.perms \in Sets
    <3>1. CASE d = c
      BY <3>1, <1>2, <1>4
    <3>2. CASE d # c
      BY <3>2, <1>4 DEF Inv, CallsNameRows
    <3> QED BY <3>1, <3>2
  <2> QED BY <2>1, <1>1 DEF CallsNameRows
<1>7. GivenWasHeld'
  BY <1>1, <1>2, <1>4 DEF Inv, GivenWasHeld, Exists
<1>8. RowsHaveWallets' /\ NoAmplification' /\ KeysFollowGrants' /\ TrashDates'
  BY <1>1 DEF Inv, RowsHaveWallets, NoAmplification, KeysFollowGrants, TrashDates,
     Exists, HasGrant, GrantsOf
<1>9. RevokedOrRaced'
  BY <1>1, <1>2, <1>4 DEF Inv, RevokedOrRaced, LiveKeysOf
<1> QED BY <1>5, <1>6, <1>7, <1>8, <1>9 DEF Inv

LEMMA WalletRoutesKeep ==
    ASSUME Inv, NEW c \in Calls, WalletRoutes(c)
    PROVE  Inv'
<1>1. PICK u \in Users, w \in Wallets :
        \/ AskDelete(c, u, w) \/ AskRestore(c, u, w)
        \/ \E v \in Users : AskTransfer(c, u, w, v)
  BY Zenon DEF WalletRoutes
<1>2. CASE AskDelete(c, u, w)
  BY <1>2, AskKeeps DEF AskDelete, Ops
<1>3. CASE AskRestore(c, u, w)
  BY <1>3, AskKeeps DEF AskRestore, Ops
<1>4. ASSUME NEW v \in Users, AskTransfer(c, u, w, v) PROVE Inv'
  BY <1>4, AskKeeps DEF AskTransfer, Ops
<1> QED BY <1>1, <1>2, <1>3, <1>4

LEMMA GrantRoutesKeep ==
    ASSUME Inv, NEW c \in Calls, GrantRoutes(c)
    PROVE  Inv'
<1> USE DEF Ops
<1>1. PICK u \in Users :
        \/ \E w \in Wallets, v \in Users, P \in Sets : AskGrant(c, u, w, v, P)
        \/ \E g \in Grants, P \in Sets : AskRegrant(c, u, g, P)
        \/ \E g \in Grants : AskUngrant(c, u, g)
  BY Zenon DEF GrantRoutes
<1>2. ASSUME NEW g \in Grants, grant[g] # NoRow
      PROVE  grant[g].wallet \in Wallets /\ grant[g].user \in Users
  BY <1>2, Shapes DEF Inv, GrantRow
<1>3. \A P \in Sets : P \in SUBSET Perms
  BY DEF Sets
<1>4. ASSUME NEW w \in Wallets, NEW v \in Users, NEW P \in Sets, AskGrant(c, u, w, v, P)
      PROVE  Inv'
  <2>1. P \subseteq held[w][u]
    BY <1>4, PermissionsWereHeld DEF AskGrant
  <2> QED BY <1>3, <1>4, <2>1, AskKeeps DEF AskGrant
<1>5. ASSUME NEW g \in Grants, NEW P \in Sets, AskRegrant(c, u, g, P)
      PROVE  Inv'
  <2>1. P \subseteq held[grant[g].wallet][u]
    BY <1>2, <1>5, PermissionsWereHeld DEF AskRegrant
  <2> QED BY <1>2, <1>3, <1>5, <2>1, AskKeeps DEF AskRegrant
<1>6. ASSUME NEW g \in Grants, AskUngrant(c, u, g)
      PROVE  Inv'
  BY <1>2, <1>6, AskKeeps DEF AskUngrant
<1> QED BY <1>1, <1>4, <1>5, <1>6

LEMMA KeyRoutesKeep ==
    ASSUME Inv, NEW c \in Calls, KeyRoutes(c)
    PROVE  Inv'
<1> USE DEF Ops
<1>1. PICK u \in Users :
        \/ \E w \in Wallets, P \in Sets : AskKey(c, u, w, P)
        \/ \E k \in Keys : AskRevoke(c, u, k)
  BY Zenon DEF KeyRoutes
<1>2. ASSUME NEW w \in Wallets, NEW P \in Sets, AskKey(c, u, w, P)
      PROVE  Inv'
  <2>1. P \subseteq held[w][u] /\ P \in SUBSET Perms
    BY <1>2, PermissionsWereHeld DEF AskKey, Sets
  <2> QED BY <1>2, <2>1, AskKeeps DEF AskKey
<1>3. ASSUME NEW k \in Keys, AskRevoke(c, u, k)
      PROVE  Inv'
  <2>1. key[k].wallet \in Wallets
    BY <1>3, Shapes DEF Inv, AskRevoke, KeyRow
  <2>2. PICK w \in Wallets : w = key[k].wallet
    BY <2>1
  <2>3. Ask(c, "revoke", u, w, None, k, {})
    BY <1>3, <2>2 DEF AskRevoke
  <2> QED BY <2>3, AskKeeps
<1> QED BY <1>1, <1>2, <1>3

-----------------------------------------------------------------------------
(* The transactions *)

\* A call ends; the open transactions keep the keys that they revoked, as long as
\* no key goes, is taken out of the races, or comes to life.
LEMMA RevocationsKept ==
    ASSUME Inv, NEW c \in Calls, Done(c), raced \subseteq raced',
           \A k \in Keys :
             /\ key[k] # NoRow => key'[k] # NoRow
             /\ (key'[k] # NoRow /\ key'[k].state = "live" /\ k \notin raced') =>
                  \/ /\ key[k] # NoRow /\ key[k].state = "live"
                     /\ key'[k].wallet = key[k].wallet /\ key'[k].owner = key[k].owner
                  \/ ~Ungranting(key'[k].wallet, key'[k].owner)
    PROVE  RevokedOrRaced'
<1>1. call'[c].op = "idle" /\ \A d \in Calls : d # c => call'[d] = call[d]
  BY CallEnds DEF Inv
<1>2. SUFFICES ASSUME NEW d \in Calls, d # c, call[d].op = "ungranting"
               PROVE  /\ \A k \in call[d].keys : key'[k] # NoRow
                      /\ (LiveKeysOf(call[d].wallet, call[d].user))'
                           \subseteq call[d].keys \cup raced'
  BY <1>1, <1>2 DEF RevokedOrRaced
<1>3. /\ call'[d] = call[d] /\ d \in Busy /\ call[d].keys \subseteq Keys
      /\ \A k \in call[d].keys : key[k] # NoRow
      /\ LiveKeysOf(call[d].wallet, call[d].user) \subseteq call[d].keys \cup raced
  BY <1>1, <1>2, Shapes DEF Inv, RevokedOrRaced, Busy, Request
<1>4. ASSUME NEW k \in (LiveKeysOf(call[d].wallet, call[d].user))', k \notin raced'
      PROVE  k \in call[d].keys
  <2>1. /\ k \in Keys /\ key'[k] # NoRow /\ key'[k].state = "live"
        /\ key'[k].wallet = call[d].wallet /\ key'[k].owner = call[d].user
    BY <1>3, <1>4 DEF LiveKeysOf
  <2>2. Ungranting(key'[k].wallet, key'[k].owner)
    BY <1>2, <1>3, <2>1 DEF Ungranting
  <2>3. k \in LiveKeysOf(call[d].wallet, call[d].user)
    BY <1>4, <2>1, <2>2 DEF LiveKeysOf
  <2> QED BY <1>3, <1>4, <2>3
<1> QED BY <1>3, <1>4

\* A call ends and nothing else moves but the state, the date or the owner of a
\* wallet: no row loses its wallet.
LEMMA WalletWritten ==
    ASSUME Inv, NEW c \in Calls, Done(c),
           wallet' \in [Wallets -> WalletRow \cup {Missing}],
           \A w \in Wallets : (Exists(w))' <=> Exists(w),
           UNCHANGED <<now, grant, key, held, raced>>,
           outAt' \in [Wallets -> Nat],
           TrashDates'
    PROVE  Inv'
<1>1. TypeOK
  BY DEF Inv
<1>2. TypeOK'
  BY <1>1, CallEnds DEF TypeOK
<1>3. RowsHaveWallets'
  BY <1>1, Shapes DEF Inv, RowsHaveWallets, GrantRow, KeyRow
<1>4. CallsNameRows'
  <2>1. \A d \in Calls : d # c => call'[d] = call[d]
    BY <1>1, CallEnds
  <2>2. call'[c].op = "idle"
    BY <1>1, CallEnds
  <2> QED BY <2>1, <2>2 DEF Inv, CallsNameRows
<1>5. GivenWasHeld'
  <2>1. \A d \in Calls : call'[d].op # "idle" => call'[d] = call[d] /\ call[d].wallet \in Wallets
    BY <1>1, CallEnds, Shapes DEF Request
  <2> QED BY <1>3, <2>1 DEF Inv, GivenWasHeld
<1>6. NoAmplification' /\ KeysFollowGrants'
  BY DEF Inv, NoAmplification, KeysFollowGrants, HasGrant, GrantsOf
<1>7. RevokedOrRaced'
  BY RevocationsKept
<1> QED BY <1>2, <1>3, <1>4, <1>5, <1>6, <1>7 DEF Inv

\* A row of a wallet with another state and another date.
LEMMA Redated ==
    ASSUME NEW r \in WalletRow, NEW s, NEW d
    PROVE  [r EXCEPT !.state = s, !.since = d] = [state |-> s, owner |-> r.owner, since |-> d]
<1>1. [r EXCEPT !.state = s] = [state |-> s, owner |-> r.owner, since |-> r.since]
  BY DEF WalletRow
<1>2. [r EXCEPT !.state = s, !.since = d]
        = [[state |-> s, owner |-> r.owner, since |-> r.since] EXCEPT !.since = d]
  BY <1>1
<1> QED BY <1>2

LEMMA DeleteWalletKeeps ==
    ASSUME Inv, NEW c \in Calls, DeleteWallet(c)
    PROVE  Inv' /\ \A w \in Wallets : (Exists(w))' <=> Exists(w)
<1> DEFINE x == call[c].wallet
<1>1. TypeOK /\ x \in Wallets /\ now \in Nat /\ call[c].at \in Nat
  BY Shapes DEF Inv, TypeOK, DeleteWallet, Request, Idle
<1>2. PICK d \in call[c].at .. now :
        /\ wallet' = [wallet EXCEPT ![x] = IF Exists(x)
                        THEN [wallet[x] EXCEPT !.state = "trash", !.since = d] ELSE wallet[x]]
        /\ outAt' = [outAt EXCEPT ![x] = IF Exists(x) /\ d < outAt[x] THEN d ELSE outAt[x]]
  BY DEF DeleteWallet
<1>3. d \in Nat /\ d <= now /\ Done(c) /\ UNCHANGED <<now, grant, key, held, raced>>
  BY <1>1 DEF DeleteWallet
<1> HIDE DEF x
<1>4. Exists(x) => [wallet[x] EXCEPT !.state = "trash", !.since = d]
                     = [state |-> "trash", owner |-> wallet[x].owner, since |-> d]
  BY <1>1, Shapes, Redated
<1>5. /\ Exists(x) => wallet'[x] = [state |-> "trash", owner |-> wallet[x].owner, since |-> d]
      /\ ~Exists(x) => wallet'[x] = wallet[x]
      /\ \A w \in Wallets : w # x => wallet'[w] = wallet[w] /\ outAt'[w] = outAt[w]
      /\ outAt'[x] = IF Exists(x) /\ d < outAt[x] THEN d ELSE outAt[x]
  BY <1>1, <1>2, <1>4 DEF TypeOK
<1>6. wallet' \in [Wallets -> WalletRow \cup {Missing}]
  BY <1>1, <1>2, <1>3, <1>4, Shapes DEF TypeOK, WalletRow
<1>7. \A w \in Wallets : (Exists(w))' <=> Exists(w)
  BY <1>5 DEF Exists, Missing
<1>8. outAt' \in [Wallets -> Nat]
  BY <1>1, <1>2, <1>3 DEF TypeOK
<1>9. TrashDates'
  BY <1>1, <1>3, <1>5 DEF Inv, TrashDates, TypeOK
<1> QED BY <1>3, <1>6, <1>7, <1>8, <1>9, WalletWritten

LEMMA RestoreWalletKeeps ==
    ASSUME Inv, NEW c \in Calls, RestoreWallet(c)
    PROVE  Inv' /\ \A w \in Wallets : (Exists(w))' <=> Exists(w)
<1> DEFINE x == call[c].wallet
<1>1. TypeOK /\ x \in Wallets /\ now \in Nat
  BY Shapes DEF Inv, TypeOK, RestoreWallet, Request, Idle
<1>2. /\ wallet' = [wallet EXCEPT ![x] = IF Exists(x)
                      THEN [wallet[x] EXCEPT !.state = "active", !.since = 0] ELSE wallet[x]]
      /\ outAt' = [outAt EXCEPT ![x] = IF Exists(x) THEN now ELSE outAt[x]]
      /\ Done(c) /\ UNCHANGED <<now, grant, key, held, raced>>
  BY DEF RestoreWallet
<1> HIDE DEF x
<1>3. Exists(x) => [wallet[x] EXCEPT !.state = "active", !.since = 0]
                     = [state |-> "active", owner |-> wallet[x].owner, since |-> 0]
  BY <1>1, Shapes, Redated
<1>4. /\ Exists(x) => wallet'[x] = [state |-> "active", owner |-> wallet[x].owner, since |-> 0]
      /\ ~Exists(x) => wallet'[x] = wallet[x]
      /\ \A w \in Wallets : w # x => wallet'[w] = wallet[w]
  BY <1>1, <1>2, <1>3 DEF TypeOK
<1>5. wallet' \in [Wallets -> WalletRow \cup {Missing}]
  BY <1>1, <1>2, <1>3, Shapes DEF TypeOK, WalletRow
<1>6. \A w \in Wallets : (Exists(w))' <=> Exists(w)
  BY <1>4 DEF Exists, Missing
<1>7. outAt' \in [Wallets -> Nat]
  BY <1>1, <1>2 DEF TypeOK
<1>8. TrashDates'
  BY <1>1, <1>2, <1>4 DEF Inv, TrashDates, TypeOK, Exists, Missing
<1> QED BY <1>2, <1>5, <1>6, <1>7, <1>8, WalletWritten

LEMMA TransferKeeps ==
    ASSUME Inv, NEW c \in Calls, TransferOwnership(c)
    PROVE  Inv' /\ \A w \in Wallets : (Exists(w))' <=> Exists(w)
<1> DEFINE x == call[c].wallet
           v == call[c].user
<1>1. TypeOK /\ x \in Wallets /\ v \in Users
  BY Shapes DEF Inv, CallsNameRows, TransferOwnership, Request, Idle
<1>2. /\ wallet' = [wallet EXCEPT ![x] =
                      [wallet[x] EXCEPT !.owner = IF Exists(x) THEN v ELSE wallet[x].owner]]
      /\ Done(c) /\ UNCHANGED <<now, grant, key, held, outAt, raced>>
  BY DEF TransferOwnership
<1> HIDE DEF x, v
<1> DEFINE row == [wallet[x] EXCEPT !.owner = IF Exists(x) THEN v ELSE wallet[x].owner]
<1>3. /\ Exists(x) => row = [state |-> wallet[x].state, owner |-> v, since |-> wallet[x].since]
      /\ ~Exists(x) => row = wallet[x]
  BY <1>1, Shapes DEF WalletRow, Exists, Missing
<1>4. wallet' = [wallet EXCEPT ![x] = row]
  BY <1>2
<1> HIDE DEF row
<1>5. wallet'[x] = row /\ \A w \in Wallets : w # x => wallet'[w] = wallet[w]
  BY <1>1, <1>4 DEF TypeOK
<1>6. row \in WalletRow \cup {Missing}
  BY <1>1, <1>3, Shapes DEF WalletRow, Exists
<1>7. wallet' \in [Wallets -> WalletRow \cup {Missing}]
  BY <1>1, <1>4, <1>6 DEF TypeOK
<1>8. \A w \in Wallets : (Exists(w))' <=> Exists(w)
  <2>1. Exists(x) => row.state # "missing"
    BY <1>1, <1>3, Shapes DEF WalletRow
  <2> QED BY <2>1, <1>3, <1>5 DEF Exists, Missing
<1>9. TrashDates'
  BY <1>1, <1>2, <1>3, <1>5 DEF Inv, TrashDates
<1> QED BY <1>1, <1>2, <1>7, <1>8, <1>9, WalletWritten DEF TypeOK

-----------------------------------------------------------------------------
\* A call that ends says nothing any more; the others say what they said, as long
\* as the grants that they name are the same or are gone.
LEMMA NamesKept ==
    ASSUME Inv, NEW c \in Calls, Done(c),
           \A g \in Grants : grant'[g] # NoRow =>
             /\ \A d \in Calls : d # c /\ call[d] # Idle /\ call[d].row = g => grant[g] # NoRow
             /\ grant[g] # NoRow =>
                  grant'[g].wallet = grant[g].wallet /\ grant'[g].user = grant[g].user
    PROVE  CallsNameRows'
<1>1. TypeOK
  BY DEF Inv
<1>2. call'[c].op = "idle" /\ \A d \in Calls : d # c => call'[d] = call[d]
  BY <1>1, CallEnds
<1>3. \A d \in Calls : call[d].op # "idle" => call[d] # Idle
  BY <1>1, Shapes
<1> QED BY <1>2, <1>3 DEF Inv, CallsNameRows

LEMMA CreateGrantKeeps ==
    ASSUME Inv, NEW c \in Calls, NEW g \in Grants, CreateGrant(c, g)
    PROVE  Inv'
<1> DEFINE r == call[c]
           row == [wallet |-> r.wallet, user |-> r.user, perms |-> r.perms, writer |-> r.by]
<1>1. /\ TypeOK /\ r \in Request /\ r.user \in Users /\ r.perms \in Sets
      /\ r.wallet \in Wallets /\ r.by \in Users /\ r.perms \in SUBSET Perms
  BY Shapes DEF Inv, CallsNameRows, CreateGrant, Request, Idle
<1>2. /\ grant[g] = NoRow /\ ~Named(g) /\ Exists(r.wallet)
      /\ grant' = [grant EXCEPT ![g] = row]
      /\ Hold(r.wallet, r.user, r.perms) /\ Done(c)
      /\ UNCHANGED <<now, wallet, key, outAt, raced>>
  BY DEF CreateGrant, FreshGrant
<1>3. r.perms \subseteq held[r.wallet][r.by]
  BY <1>2 DEF Inv, GivenWasHeld, CreateGrant
<1>4. row \in GrantRow /\ row.wallet = r.wallet /\ row.user = r.user /\ row.perms = r.perms
        /\ row.writer = r.by
  BY <1>1 DEF GrantRow
<1> HIDE DEF row, r
<1>5. grant'[g] = row /\ \A h \in Grants : h # g => grant'[h] = grant[h]
  BY <1>1, <1>2 DEF TypeOK
<1>6. /\ held' \in [Wallets -> [Users -> SUBSET Perms]]
      /\ \A x \in Wallets, y \in Users : held[x][y] \subseteq held'[x][y]
      /\ r.perms \subseteq held'[r.wallet][r.user]
  BY <1>1, <1>2, HoldAdds
<1>7. TypeOK'
  BY <1>1, <1>2, <1>4, <1>6, CallEnds DEF TypeOK
<1>8. RowsHaveWallets'
  BY <1>2, <1>4, <1>5 DEF Inv, RowsHaveWallets, Exists
<1>9. CallsNameRows'
  BY <1>2, <1>5, NamesKept DEF Named, Busy
<1>10. \A h \in Grants : grant[h] # NoRow =>
          grant[h].wallet \in Wallets /\ grant[h].user \in Users /\ grant[h].writer \in Users
  BY <1>1, Shapes DEF GrantRow
<1>11. \A k \in Keys : key[k] # NoRow => key[k].wallet \in Wallets /\ key[k].owner \in Users
  BY <1>1, Shapes DEF KeyRow
<1>12. GivenWasHeld'
  <2>1. ASSUME NEW h \in Grants, grant'[h] # NoRow
        PROVE  grant'[h].perms \subseteq held'[grant'[h].wallet][grant'[h].user]
    BY <2>1, <1>4, <1>5, <1>6, <1>10 DEF Inv, GivenWasHeld
  <2>2. ASSUME NEW d \in Calls, call'[d].op \in {"grant", "regrant", "newkey"},
               (Exists(call[d].wallet))'
        PROVE  call'[d].perms \subseteq held'[call'[d].wallet][call'[d].by]
    <3>1. call'[d] = call[d] /\ call[d] \in Request
      BY <2>2, <1>1, <1>2, CallEnds, Shapes
    <3>2. call[d].perms \subseteq held[call[d].wallet][call[d].by]
      BY <3>1, <2>2, <1>2 DEF Inv, GivenWasHeld, Exists
    <3> QED BY <3>1, <3>2, <1>6 DEF Request
  <2>3. \A d \in Calls : call'[d].op # "idle" => call'[d] = call[d]
    BY <1>1, <1>2, CallEnds
  <2> QED BY <2>1, <2>2, <2>3 DEF GivenWasHeld
<1>13. NoAmplification'
  BY <1>1, <1>2, <1>3, <1>4, <1>5, <1>6, <1>10, <1>11 DEF Inv, NoAmplification
<1>14. KeysFollowGrants'
  BY <1>2, <1>5 DEF Inv, KeysFollowGrants, HasGrant, GrantsOf
<1>15. TrashDates' /\ RevokedOrRaced'
  BY <1>2, RevocationsKept DEF Inv, TrashDates
<1> QED BY <1>7, <1>8, <1>9, <1>12, <1>13, <1>14, <1>15 DEF Inv

\* A row of a grant with other permissions, given by another user.
LEMMA Regiven ==
    ASSUME NEW r \in GrantRow, NEW P, NEW u
    PROVE  [r EXCEPT !.perms = P, !.writer = u]
             = [wallet |-> r.wallet, user |-> r.user, perms |-> P, writer |-> u]
<1>1. [r EXCEPT !.perms = P] = [wallet |-> r.wallet, user |-> r.user, perms |-> P, writer |-> r.writer]
  BY DEF GrantRow
<1>2. [r EXCEPT !.perms = P, !.writer = u]
        = [[wallet |-> r.wallet, user |-> r.user, perms |-> P, writer |-> r.writer] EXCEPT !.writer = u]
  BY <1>1
<1> QED BY <1>2

\* The grant keeps its wallet and its user, who holds what it gives.
LEMMA UpdateGrantKeeps ==
    ASSUME Inv, NEW c \in Calls, UpdateGrant(c)
    PROVE  Inv'
<1> DEFINE r == call[c]
           g == r.row
           row == [grant[g] EXCEPT !.perms = r.perms, !.writer = r.by]
<1>1. /\ TypeOK /\ r \in Request /\ r.user \in Users /\ r.perms \in Sets
      /\ r.wallet \in Wallets /\ r.by \in Users /\ r.perms \in SUBSET Perms
      /\ g \in Grants
      /\ grant[g] # NoRow => grant[g].wallet = r.wallet /\ grant[g].user = r.user
  BY Shapes DEF Inv, CallsNameRows, UpdateGrant, Request, Idle
<1>2. Done(c) /\ UNCHANGED <<now, wallet, key, outAt, raced>>
  BY DEF UpdateGrant
<1>3. CASE grant[g] = NoRow
  <2>1. UNCHANGED <<grant, held>>
    BY <1>3 DEF UpdateGrant
  <2>2. \A w \in Wallets : (Exists(w))' <=> Exists(w)
    BY <1>2 DEF Exists
  <2>3. TrashDates'
    BY <1>2 DEF Inv, TrashDates
  <2> QED BY <1>1, <1>2, <2>1, <2>2, <2>3, WalletWritten DEF TypeOK
<1>4. CASE grant[g] # NoRow
  <2>1. /\ grant' = [grant EXCEPT ![g] = row] /\ Hold(r.wallet, r.user, r.perms)
    <3>1. grant' = [grant EXCEPT ![g].perms = r.perms, ![g].writer = r.by]
      BY <1>4 DEF UpdateGrant
    <3>2. [grant EXCEPT ![g].perms = r.perms, ![g].writer = r.by]
            = [[grant EXCEPT ![g] = [grant[g] EXCEPT !.perms = r.perms]]
                 EXCEPT ![g] = [[grant EXCEPT ![g] = [grant[g] EXCEPT !.perms = r.perms]][g]
                                  EXCEPT !.writer = r.by]]
      OBVIOUS
    <3>3. [grant EXCEPT ![g] = [grant[g] EXCEPT !.perms = r.perms]][g]
            = [grant[g] EXCEPT !.perms = r.perms]
      BY <1>1 DEF TypeOK
    <3>4. [grant EXCEPT ![g].perms = r.perms, ![g].writer = r.by] = [grant EXCEPT ![g] = row]
      BY <1>1, <3>2, <3>3 DEF TypeOK
    <3>5. Hold(r.wallet, r.user, r.perms)
      BY <1>4 DEF UpdateGrant
    <3> QED BY <3>1, <3>4, <3>5
  <2>2. grant[g] \in GrantRow /\ Exists(r.wallet)
    BY <1>1, <1>4, Shapes DEF Inv, RowsHaveWallets
  <2>3. r.perms \subseteq held[r.wallet][r.by]
    BY <2>2 DEF Inv, GivenWasHeld, UpdateGrant
  <2>4. row = [wallet |-> r.wallet, user |-> r.user, perms |-> r.perms, writer |-> r.by]
    <3>1. PICK x \in GrantRow : x = grant[g]
      BY <2>2
    <3>2. [x EXCEPT !.perms = r.perms, !.writer = r.by]
            = [wallet |-> x.wallet, user |-> x.user, perms |-> r.perms, writer |-> r.by]
      BY Regiven
    <3> QED BY <1>1, <1>4, <3>1, <3>2
  <2> HIDE DEF row, r, g
  <2>5. row \in GrantRow /\ row # NoRow /\ row.wallet = r.wallet /\ row.user = r.user
          /\ row.perms = r.perms /\ row.writer = r.by
    BY <1>1, <2>4 DEF GrantRow, NoRow
  <2>6. grant'[g] = row /\ \A h \in Grants : h # g => grant'[h] = grant[h]
    BY <1>1, <2>1 DEF TypeOK
  <2>7. /\ held' \in [Wallets -> [Users -> SUBSET Perms]]
        /\ \A x \in Wallets, y \in Users : held[x][y] \subseteq held'[x][y]
        /\ r.perms \subseteq held'[r.wallet][r.user]
    BY <1>1, <2>1, HoldAdds
  <2>8. TypeOK'
    BY <1>1, <1>2, <2>1, <2>5, <2>7, CallEnds DEF TypeOK
  <2>9. RowsHaveWallets'
    BY <1>2, <2>2, <2>5, <2>6 DEF Inv, RowsHaveWallets, Exists
  <2>10. CallsNameRows'
    BY <1>1, <1>2, <1>4, <2>5, <2>6, NamesKept
  <2>11. \A h \in Grants : grant[h] # NoRow =>
            grant[h].wallet \in Wallets /\ grant[h].user \in Users /\ grant[h].writer \in Users
    BY <1>1, Shapes DEF GrantRow
  <2>12. \A k \in Keys : key[k] # NoRow => key[k].wallet \in Wallets /\ key[k].owner \in Users
    BY <1>1, Shapes DEF KeyRow
  <2>13. GivenWasHeld'
    <3>1. ASSUME NEW h \in Grants, grant'[h] # NoRow
          PROVE  grant'[h].perms \subseteq held'[grant'[h].wallet][grant'[h].user]
      BY <3>1, <2>5, <2>6, <2>7, <2>11 DEF Inv, GivenWasHeld
    <3>2. \A d \in Calls : call'[d].op # "idle" => call'[d] = call[d] /\ call[d] \in Request
      BY <1>1, <1>2, CallEnds, Shapes
    <3>3. \A d \in Calls : call[d] \in Request =>
              call[d].wallet \in Wallets /\ call[d].by \in Users
      BY DEF Request
    <3>4. ASSUME NEW d \in Calls, call'[d].op \in {"grant", "regrant", "newkey"},
                 (Exists(call[d].wallet))'
          PROVE  call'[d].perms \subseteq held'[call'[d].wallet][call'[d].by]
      BY <3>2, <3>3, <3>4, <1>2, <2>7 DEF Inv, GivenWasHeld, Exists
    <3> QED BY <3>1, <3>2, <3>4 DEF GivenWasHeld
  <2>14. NoAmplification'
    BY <1>1, <1>2, <2>3, <2>5, <2>6, <2>7, <2>11, <2>12 DEF Inv, NoAmplification
  <2>15. KeysFollowGrants'
    BY <1>1, <1>2, <1>4, <2>5, <2>6 DEF Inv, KeysFollowGrants, HasGrant, GrantsOf
  <2>16. TrashDates' /\ RevokedOrRaced'
    BY <1>2, RevocationsKept DEF Inv, TrashDates
  <2> QED BY <2>8, <2>9, <2>10, <2>13, <2>14, <2>15, <2>16 DEF Inv
<1> QED BY <1>3, <1>4

-----------------------------------------------------------------------------
\* A call that ends gave what it gave: the wallets and what users held are the same.
LEMMA GivenKept ==
    ASSUME Inv, NEW c \in Calls, Done(c), UNCHANGED <<wallet, held>>
    PROVE  \A d \in Calls :
             (call'[d].op \in {"grant", "regrant", "newkey"} /\ (Exists(call[d].wallet))')
                 => call'[d].perms \subseteq held'[call'[d].wallet][call'[d].by]
<1>1. \A d \in Calls : call'[d].op # "idle" => call'[d] = call[d]
  BY CallEnds DEF Inv
<1> QED BY <1>1 DEF Inv, GivenWasHeld, Exists

\* The first statement of delete_grant: the keys are those of the request.
LEMMA RevokeKeysKeeps ==
    ASSUME Inv, NEW c \in Calls, RevokeKeysOf(c)
    PROVE  Inv'
<1> DEFINE r == call[c]
           keys == LiveKeysOf(r.wallet, r.user)
           q == [r EXCEPT !.op = "ungranting", !.keys = keys]
<1>1. TypeOK /\ r \in Request /\ r.op = "ungrant" /\ keys \subseteq Keys
  BY Shapes DEF Inv, RevokeKeysOf, Idle, LiveKeysOf
<1>2. /\ call' = [call EXCEPT ![c] = q]
      /\ UNCHANGED <<now, wallet, grant, key, asked, held, outAt, raced>>
  BY DEF RevokeKeysOf
<1>3. /\ q \in Request /\ q.op = "ungranting" /\ q.wallet = r.wallet /\ q.user = r.user
      /\ q.row = r.row /\ q.keys = keys
  BY <1>1 DEF Request, Ops
<1>4. \A k \in keys : key[k] # NoRow
  BY DEF LiveKeysOf
<1> HIDE DEF q
<1>5. call'[c] = q /\ \A d \in Calls : d # c => call'[d] = call[d]
  BY <1>1, <1>2 DEF TypeOK
<1>6. TypeOK'
  BY <1>1, <1>2, <1>3 DEF TypeOK
<1>7. CallsNameRows'
  BY <1>1, <1>2, <1>3, <1>5 DEF Inv, CallsNameRows
<1>8. RevokedOrRaced'
  BY <1>2, <1>3, <1>4, <1>5 DEF Inv, RevokedOrRaced, LiveKeysOf
<1>9. GivenWasHeld'
  BY <1>2, <1>3, <1>5 DEF Inv, GivenWasHeld, Exists
<1>10. RowsHaveWallets' /\ NoAmplification' /\ KeysFollowGrants' /\ TrashDates'
  BY <1>2 DEF Inv, RowsHaveWallets, NoAmplification, KeysFollowGrants, TrashDates,
     Exists, HasGrant, GrantsOf
<1> QED BY <1>6, <1>7, <1>8, <1>9, <1>10 DEF Inv

\* The second: what stays alive without the grant was raced.
LEMMA DeleteGrantKeeps ==
    ASSUME Inv, NEW c \in Calls, DeleteGrant(c)
    PROVE  Inv'
<1> DEFINE r == call[c]
<1>1. /\ TypeOK /\ r \in Request /\ r.user \in Users /\ r.wallet \in Wallets /\ r.row \in Grants
      /\ grant[r.row] # NoRow => grant[r.row].wallet = r.wallet /\ grant[r.row].user = r.user
      /\ \A k \in r.keys : k \in Keys /\ key[k] # NoRow
      /\ LiveKeysOf(r.wallet, r.user) \subseteq r.keys \cup raced
  BY Shapes DEF Inv, CallsNameRows, RevokedOrRaced, DeleteGrant, Request, Idle
<1>2. /\ key' = [k \in Keys |-> IF k \in r.keys THEN [key[k] EXCEPT !.state = "revoked"]
                                               ELSE key[k]]
      /\ grant' = [grant EXCEPT ![r.row] = NoRow]
      /\ Done(c) /\ UNCHANGED <<now, wallet, held, outAt, raced>>
  BY DEF DeleteGrant
<1> HIDE DEF r
<1>3. grant'[r.row] = NoRow /\ \A h \in Grants : h # r.row => grant'[h] = grant[h]
  BY <1>1, <1>2 DEF TypeOK
<1>4. ASSUME NEW k \in Keys
      PROVE  /\ key[k] = NoRow => key'[k] = NoRow
             /\ key[k] # NoRow => /\ key'[k] \in KeyRow /\ key'[k] # NoRow
                                  /\ key'[k].wallet = key[k].wallet
                                  /\ key'[k].owner = key[k].owner
                                  /\ key'[k].perms = key[k].perms
                                  /\ key'[k].state = "live" =>
                                       key[k].state = "live" /\ k \notin r.keys
  <2>1. key'[k] = IF k \in r.keys THEN [key[k] EXCEPT !.state = "revoked"] ELSE key[k]
    BY <1>2
  <2>2. key[k] # NoRow => key[k] \in KeyRow
    BY <1>1, Shapes
  <2>3. key[k] \in KeyRow => [key[k] EXCEPT !.state = "revoked"]
          = [state |-> "revoked", wallet |-> key[k].wallet, owner |-> key[k].owner,
             perms |-> key[k].perms]
    BY DEF KeyRow
  <2>4. \A x \in KeyRow : x # NoRow
    BY DEF KeyRow, NoRow
  <2> QED BY <1>1, <2>1, <2>2, <2>3, <2>4 DEF KeyRow
<1>5. TypeOK'
  <2>1. key' \in [Keys -> KeyRow \cup {NoRow}]
    BY <1>2, <1>4
  <2> QED BY <1>1, <1>2, <2>1, CallEnds DEF TypeOK
<1>6. RowsHaveWallets'
  BY <1>2, <1>3, <1>4 DEF Inv, RowsHaveWallets, Exists
<1>7. CallsNameRows'
  BY <1>2, <1>3, NamesKept
<1>8. GivenWasHeld'
  BY <1>2, <1>3, GivenKept DEF Inv, GivenWasHeld
<1>9. NoAmplification'
  BY <1>2, <1>3, <1>4 DEF Inv, NoAmplification
<1>10. KeysFollowGrants'
  <2>1. ASSUME NEW k \in Keys, key'[k] # NoRow, key'[k].state = "live", k \notin raced,
               HasGrant(key[k].wallet, key[k].owner)
        PROVE  (HasGrant(key[k].wallet, key[k].owner))'
    <3>1. PICK g \in Grants : /\ grant[g] # NoRow /\ grant[g].wallet = key[k].wallet
                              /\ grant[g].user = key[k].owner
      BY <2>1 DEF HasGrant, GrantsOf
    <3>2. g # r.row
      BY <1>1, <1>4, <2>1, <3>1 DEF LiveKeysOf
    <3>3. key'[k].wallet = key[k].wallet /\ key'[k].owner = key[k].owner
      BY <1>4, <2>1
    <3> QED BY <1>3, <3>1, <3>2, <3>3 DEF HasGrant, GrantsOf
  <2> QED BY <1>2, <1>4, <2>1 DEF Inv, KeysFollowGrants
<1>11. TrashDates' /\ RevokedOrRaced'
  <2>1. \A k \in Keys : key'[k] # NoRow => key[k] # NoRow
    BY <1>4
  <2> QED BY <1>2, <1>4, <2>1, RevocationsKept DEF Inv, TrashDates
<1> QED BY <1>5, <1>6, <1>7, <1>8, <1>9, <1>10, <1>11 DEF Inv

-----------------------------------------------------------------------------
\* Grants, wallets and what users held stay when a call writes a key.
LEMMA KeyWritten ==
    ASSUME Inv, NEW c \in Calls, Done(c), NEW k \in Keys, NEW row \in KeyRow,
           key' = [key EXCEPT ![k] = row],
           UNCHANGED <<now, wallet, grant, held, outAt>>,
           raced \subseteq raced', raced' \subseteq Keys,
           Exists(row.wallet), row.perms \subseteq held[row.wallet][row.owner],
           row.state = "live" =>
             \/ HasGrant(row.wallet, row.owner) /\ ~Ungranting(row.wallet, row.owner)
             \/ k \in raced'
    PROVE  Inv'
<1>1. TypeOK /\ row # NoRow
  BY DEF Inv, KeyRow, NoRow
<1>2. key'[k] = row /\ \A j \in Keys : j # k => key'[j] = key[j]
  BY <1>1 DEF TypeOK
<1>3. TypeOK'
  BY <1>1, CallEnds DEF TypeOK
<1>4. CallsNameRows'
  BY NamesKept
<1>5. GivenWasHeld'
  BY GivenKept DEF Inv, GivenWasHeld
<1>6. NoAmplification'
  BY <1>2 DEF Inv, NoAmplification
<1>7. KeysFollowGrants'
  BY <1>2 DEF Inv, KeysFollowGrants, HasGrant, GrantsOf
<1>8. RowsHaveWallets' /\ TrashDates'
  BY <1>2 DEF Inv, RowsHaveWallets, TrashDates, Exists
<1>9. RevokedOrRaced'
  BY <1>1, <1>2, RevocationsKept
<1> QED BY <1>3, <1>4, <1>5, <1>6, <1>7, <1>8, <1>9 DEF Inv

LEMMA CreateApiKeyKeeps ==
    ASSUME Inv, NEW c \in Calls, NEW k \in Keys, CreateApiKey(c, k)
    PROVE  Inv'
<1> DEFINE r == call[c]
           row == [state |-> "live", wallet |-> r.wallet, owner |-> r.by, perms |-> r.perms]
<1>1. r \in Request /\ r.perms \in Sets /\ r.wallet \in Wallets /\ r.by \in Users
  BY Shapes DEF Inv, CallsNameRows, CreateApiKey, Request, Idle
<1>2. r.perms \subseteq held[r.wallet][r.by]
  BY DEF Inv, GivenWasHeld, CreateApiKey
<1>3. /\ row \in KeyRow /\ row.wallet = r.wallet /\ row.owner = r.by /\ row.perms = r.perms
      /\ Exists(row.wallet)
  BY <1>1 DEF KeyRow, CreateApiKey
<1>4. /\ key' = [key EXCEPT ![k] = row] /\ Done(c)
      /\ raced' = IF HasGrant(r.wallet, r.by) /\ ~Ungranting(r.wallet, r.by)
                    THEN raced ELSE raced \cup {k}
      /\ UNCHANGED <<now, wallet, grant, held, outAt>>
  BY DEF CreateApiKey
<1>5. raced \subseteq Keys
  BY DEF Inv, TypeOK
<1> HIDE DEF row, r
<1>6. /\ raced \subseteq raced' /\ raced' \subseteq Keys
      /\ \/ HasGrant(row.wallet, row.owner) /\ ~Ungranting(row.wallet, row.owner)
         \/ k \in raced'
  BY <1>3, <1>4, <1>5
<1> QED BY <1>2, <1>3, <1>4, <1>6, KeyWritten

LEMMA RevokeApiKeyKeeps ==
    ASSUME Inv, NEW c \in Calls, RevokeApiKey(c)
    PROVE  Inv'
<1> DEFINE k == call[c].row
           row == [key[k] EXCEPT !.state = "revoked"]
<1>1. k \in Keys /\ key[k] # NoRow /\ key[k] \in KeyRow
  BY Shapes DEF Inv, CallsNameRows, RevokeApiKey
<1>2. row = [state |-> "revoked", wallet |-> key[k].wallet, owner |-> key[k].owner,
             perms |-> key[k].perms]
  BY <1>1 DEF KeyRow
<1>3. key' = [key EXCEPT ![k] = row] /\ Done(c)
      /\ UNCHANGED <<now, wallet, grant, held, outAt, raced>>
  BY DEF RevokeApiKey
<1>4. raced \subseteq Keys
  BY DEF Inv, TypeOK
<1> HIDE DEF row, k
<1>5. /\ row \in KeyRow /\ row.state = "revoked" /\ row.wallet = key[k].wallet
      /\ row.owner = key[k].owner /\ row.perms = key[k].perms
  BY <1>1, <1>2 DEF KeyRow
<1>6. Exists(row.wallet) /\ row.perms \subseteq held[row.wallet][row.owner]
  BY <1>1, <1>5 DEF Inv, RowsHaveWallets, NoAmplification
<1> QED BY <1>1, <1>3, <1>4, <1>5, <1>6, KeyWritten

-----------------------------------------------------------------------------
\* A new wallet: no row and no call in progress names it.
LEMMA CreateWalletKeeps ==
    ASSUME Inv, NEW u \in Users, NEW w \in Wallets, NEW g \in Grants, CreateWallet(u, w, g)
    PROVE  Inv'
<1> DEFINE new == [state |-> "active", owner |-> u, since |-> 0]
           row == [wallet |-> w, user |-> u, perms |-> Perms, writer |-> u]
<1>1. TypeOK /\ Perms \in Sets /\ now \in Nat
  BY PermsAssumption DEF Inv, TypeOK, Sets
<1>2. /\ wallet[w] = Missing /\ ~Named(w) /\ grant[g] = NoRow /\ ~Named(g)
      /\ wallet' = [wallet EXCEPT ![w] = new] /\ grant' = [grant EXCEPT ![g] = row]
      /\ Hold(w, u, Perms) /\ outAt' = [outAt EXCEPT ![w] = now]
      /\ UNCHANGED <<now, key, call, asked, raced>>
  BY DEF CreateWallet, FreshWallet, FreshGrant
<1>3. /\ new \in WalletRow /\ new.state = "active" /\ new # Missing
      /\ row \in GrantRow /\ row # NoRow /\ row.wallet = w /\ row.user = u /\ row.writer = u
      /\ row.perms = Perms
  BY <1>1 DEF WalletRow, Missing, GrantRow, NoRow
<1> HIDE DEF new, row
<1>4. /\ wallet'[w] = new /\ \A x \in Wallets : x # w => wallet'[x] = wallet[x]
      /\ grant'[g] = row /\ \A h \in Grants : h # g => grant'[h] = grant[h]
      /\ outAt'[w] = now /\ \A x \in Wallets : x # w => outAt'[x] = outAt[x]
  BY <1>1, <1>2 DEF TypeOK
<1>5. /\ held' \in [Wallets -> [Users -> SUBSET Perms]]
      /\ \A x \in Wallets, y \in Users : held[x][y] \subseteq held'[x][y]
      /\ Perms \subseteq held'[w][u]
  BY <1>1, <1>2, HoldAdds
<1>6. TypeOK'
  BY <1>1, <1>2, <1>3, <1>5 DEF TypeOK
<1>7. /\ \A h \in Grants : grant[h] # NoRow => /\ grant[h].wallet \in Wallets
                                               /\ grant[h].user \in Users /\ grant[h].writer \in Users
      /\ \A k \in Keys : key[k] # NoRow => key[k].wallet \in Wallets /\ key[k].owner \in Users
  BY <1>1, Shapes DEF GrantRow, KeyRow
<1>8. \A x \in Wallets : Exists(x) => (Exists(x))'
  BY <1>2, <1>3, <1>4 DEF Exists
<1>9. RowsHaveWallets'
  BY <1>2, <1>3, <1>4, <1>7, <1>8 DEF Inv, RowsHaveWallets, Exists
<1>10. \A c \in Calls : call[c].op # "idle" =>
          /\ call[c] \in Request /\ call[c].wallet # w /\ call[c].row # g
          /\ call[c].wallet \in Wallets /\ call[c].by \in Users
  BY <1>1, <1>2, Shapes DEF Named, Busy, Request
<1>11. CallsNameRows'
  BY <1>2, <1>4, <1>10 DEF Inv, CallsNameRows
<1>12. GivenWasHeld'
  <2>1. ASSUME NEW h \in Grants, grant'[h] # NoRow
        PROVE  grant'[h].perms \subseteq held'[grant'[h].wallet][grant'[h].user]
    BY <2>1, <1>3, <1>4, <1>5, <1>7 DEF Inv, GivenWasHeld
  <2>2. ASSUME NEW c \in Calls, call[c].op \in {"grant", "regrant", "newkey"},
               (Exists(call[c].wallet))'
        PROVE  call[c].perms \subseteq held'[call[c].wallet][call[c].by]
    <3>1. Exists(call[c].wallet)
      BY <1>2, <1>4, <1>10, <2>2 DEF Exists
    <3> QED BY <3>1, <1>5, <1>10, <2>2 DEF Inv, GivenWasHeld
  <2> QED BY <1>2, <2>1, <2>2 DEF GivenWasHeld
<1>13. NoAmplification'
  BY <1>2, <1>3, <1>4, <1>5, <1>7 DEF Inv, NoAmplification
<1>14. KeysFollowGrants'
  BY <1>2, <1>3, <1>4, <1>7 DEF Inv, KeysFollowGrants, HasGrant, GrantsOf
<1>15. TrashDates' /\ RevokedOrRaced'
  BY <1>1, <1>2, <1>3, <1>4 DEF Inv, TrashDates, TypeOK, RevokedOrRaced, LiveKeysOf
<1> QED BY <1>6, <1>9, <1>11, <1>12, <1>13, <1>14, <1>15 DEF Inv

\* The purge takes rows with their wallets, and leaves what calls keep in hand.
LEMMA PurgeKeeps ==
    ASSUME Inv, PurgeExpiredWallets
    PROVE  Inv'
<1> DEFINE gone == {w \in Wallets : Expired(w)}
<1>1. TypeOK
  BY DEF Inv
<1>2. /\ wallet' = [w \in Wallets |-> IF w \in gone THEN Missing ELSE wallet[w]]
      /\ grant' = [g \in Grants |-> IF grant[g].wallet \in gone THEN NoRow ELSE grant[g]]
      /\ key' = [k \in Keys |-> IF key[k].wallet \in gone THEN NoRow ELSE key[k]]
      /\ held' = [w \in Wallets |-> IF w \in gone THEN NothingHeld ELSE held[w]]
      /\ raced' = {k \in raced : key[k].wallet \notin gone}
      /\ outAt' = [w \in Wallets |-> IF w \in gone THEN 0 ELSE outAt[w]]
      /\ UNCHANGED <<now, call, asked>>
      /\ \A k \in Locked : key[k].wallet \notin gone
  BY DEF PurgeExpiredWallets
<1> HIDE DEF gone
<1>3. TypeOK'
  BY <1>1, <1>2 DEF TypeOK, NothingHeld
<1>4. /\ \A g \in Grants : grant'[g] # NoRow =>
            grant'[g] = grant[g] /\ grant[g].wallet \in Wallets /\ grant[g].wallet \notin gone
      /\ \A k \in Keys : key'[k] # NoRow =>
            key'[k] = key[k] /\ key[k].wallet \in Wallets /\ key[k].wallet \notin gone
  BY <1>1, <1>2, Shapes DEF GrantRow, KeyRow
<1>5. \A w \in Wallets : w \notin gone =>
            wallet'[w] = wallet[w] /\ held'[w] = held[w] /\ outAt'[w] = outAt[w]
  BY <1>2
<1>6. RowsHaveWallets'
  BY <1>4, <1>5 DEF Inv, RowsHaveWallets, Exists
<1>7. CallsNameRows'
  BY <1>2, <1>4 DEF Inv, CallsNameRows
<1>8. GivenWasHeld'
  <2>1. ASSUME NEW c \in Calls, call[c].op \in {"grant", "regrant", "newkey"},
               (Exists(call[c].wallet))'
        PROVE  call[c].perms \subseteq held'[call[c].wallet][call[c].by]
    <3>1. call[c].wallet \in Wallets
      BY <1>1, <2>1, Shapes DEF Request
    <3>2. call[c].wallet \notin gone
      BY <1>2, <2>1, <3>1 DEF Exists
    <3>3. Exists(call[c].wallet)
      BY <1>2, <1>5, <2>1, <3>1, <3>2 DEF Exists
    <3>4. call[c].perms \subseteq held[call[c].wallet][call[c].by]
      BY <2>1, <3>3 DEF Inv, GivenWasHeld
    <3> QED BY <1>5, <3>1, <3>2, <3>4
  <2> QED BY <1>2, <1>4, <1>5, <2>1 DEF Inv, GivenWasHeld
<1>9. NoAmplification'
  BY <1>4, <1>5 DEF Inv, NoAmplification
<1>10. KeysFollowGrants'
  <2>1. ASSUME NEW k \in Keys, key'[k] # NoRow, HasGrant(key[k].wallet, key[k].owner)
        PROVE  (HasGrant(key[k].wallet, key[k].owner))'
    <3>1. PICK g \in Grants : /\ grant[g] # NoRow /\ grant[g].wallet = key[k].wallet
                              /\ grant[g].user = key[k].owner
      BY <2>1 DEF HasGrant, GrantsOf
    <3>2. grant'[g] = grant[g]
      BY <1>2, <1>4, <2>1, <3>1
    <3> QED BY <1>4, <2>1, <3>1, <3>2 DEF HasGrant, GrantsOf
  <2> QED BY <1>2, <1>4, <2>1 DEF Inv, KeysFollowGrants
<1>11. TrashDates'
  BY <1>1, <1>2 DEF Inv, TrashDates, TypeOK, Missing
<1>12. RevokedOrRaced'
  <2>1. ASSUME NEW c \in Calls, call[c].op = "ungranting"
        PROVE  /\ \A k \in call[c].keys : key'[k] # NoRow
               /\ (LiveKeysOf(call[c].wallet, call[c].user))' \subseteq call[c].keys \cup raced'
    <3>1. c \in Busy /\ call[c].keys \subseteq Keys
      BY <1>1, <2>1, Shapes DEF Busy, Request
    <3>2. \A k \in call[c].keys : key[k] # NoRow /\ key[k].wallet \notin gone
      BY <1>2, <2>1, <3>1 DEF Inv, RevokedOrRaced, Locked
    <3>3. \A k \in call[c].keys : key'[k] # NoRow
      BY <1>2, <3>1, <3>2
    <3>4. ASSUME NEW k \in (LiveKeysOf(call[c].wallet, call[c].user))'
          PROVE  k \in call[c].keys \cup raced'
      <4>1. k \in LiveKeysOf(call[c].wallet, call[c].user) /\ key[k].wallet \notin gone
        BY <1>2, <1>4, <3>4 DEF LiveKeysOf
      <4> QED BY <1>2, <2>1, <4>1 DEF Inv, RevokedOrRaced
    <3> QED BY <3>3, <3>4
  <2> QED BY <1>2, <2>1 DEF RevokedOrRaced
<1> QED BY <1>3, <1>6, <1>7, <1>8, <1>9, <1>10, <1>11, <1>12 DEF Inv

LEMMA TickKeeps ==
    ASSUME Inv, Tick
    PROVE  Inv'
<1>1. TypeOK'
  BY DEF Inv, TypeOK, Tick
<1>2. TrashDates'
  BY DEF Inv, TypeOK, TrashDates, Tick
<1>3. /\ RowsHaveWallets' /\ CallsNameRows' /\ RevokedOrRaced' /\ GivenWasHeld'
      /\ NoAmplification' /\ KeysFollowGrants'
  BY DEF Inv, RowsHaveWallets, CallsNameRows, RevokedOrRaced, LiveKeysOf, GivenWasHeld, NoAmplification, KeysFollowGrants,
     Exists, HasGrant, GrantsOf, Tick
<1> QED BY <1>1, <1>2, <1>3 DEF Inv

LEMMA FailKeeps ==
    ASSUME Inv, NEW c \in Calls, Fail(c)
    PROVE  Inv'
<1>1. Done(c) /\ UNCHANGED <<now, wallet, grant, key, held, outAt, raced>>
  BY DEF Fail
<1>2. (\A w \in Wallets : (Exists(w))' <=> Exists(w)) /\ TrashDates'
  BY <1>1 DEF Exists, Inv, TrashDates
<1> QED BY <1>1, <1>2, WalletWritten DEF Inv, TypeOK

-----------------------------------------------------------------------------
(* The theorems *)

LEMMA NextInv == Inv /\ [Next]_vars => Inv'
<1> SUFFICES ASSUME Inv, [Next]_vars PROVE Inv'
  OBVIOUS
<1>1. CASE UNCHANGED vars
  BY <1>1 DEF vars, Inv, TypeOK, RowsHaveWallets, CallsNameRows, RevokedOrRaced, LiveKeysOf,
     GivenWasHeld,
     NoAmplification, KeysFollowGrants, TrashDates, Exists, HasGrant, GrantsOf
<1>2. ASSUME NEW u \in Users, NEW w \in Wallets, NEW g \in Grants, CreateWallet(u, w, g)
      PROVE  Inv'
  BY <1>2, CreateWalletKeeps
<1>3. ASSUME NEW c \in Calls, WalletRoutes(c) \/ GrantRoutes(c) \/ KeyRoutes(c)
      PROVE  Inv'
  BY <1>3, WalletRoutesKeep, GrantRoutesKeep, KeyRoutesKeep
<1>4. ASSUME NEW c \in Calls, Transaction(c)
      PROVE  Inv'
  BY <1>4, DeleteWalletKeeps, RestoreWalletKeeps, TransferKeeps, CreateGrantKeeps,
     UpdateGrantKeeps, RevokeKeysKeeps, DeleteGrantKeeps, CreateApiKeyKeeps, RevokeApiKeyKeeps DEF Transaction
<1> QED BY <1>1, <1>2, <1>3, <1>4, TickKeeps, PurgeKeeps, FailKeeps DEF Next

\* The strengthened invariant: what a call read before its transaction was true of
\* a row that may have changed since, and the trash dates what it holds.
THEOREM Invariance == Spec => []Inv
BY InitInv, NextInv, PTL DEF Spec

\* Rows, calls and the two histories have their types (wallets.py, grants.py,
\* api_keys.py and their repositories).
THEOREM TypeCorrectness == Spec => []TypeOK
<1>1. Inv => TypeOK
  BY DEF Inv
<1> QED BY <1>1, Invariance, PTL

\* Nobody ever gives, in a grant or in a key, a permission that he was not granted
\* himself, however the checks of one call and the transactions of others
\* interleave.
THEOREM PermissionsNotAmplified == Spec => []NoAmplification
<1>1. Inv => NoAmplification
  BY DEF Inv
<1> QED BY <1>1, Invariance, PTL

\* The only live key of a user without a grant on its wallet is one whose creation
\* raced with the deletion of the grant: checked before, and committed after the
\* statement that revokes the keys (grants.py, delete_grant).
THEOREM KeysGoWithGrants == Spec => []KeysFollowGrants
<1>1. Inv => KeysFollowGrants
  BY DEF Inv
<1> QED BY <1>1, Invariance, PTL

\* A wallet is gone only after a whole stay in the trash, counted from the beginning
\* of the transaction that put it there, even if it was restored and put back there
\* while a purge or another call was in progress.
THEOREM PurgesWaitTheWindow == Spec => TrashWindowKept
<1>1. ASSUME Inv, PurgeExpiredWallets, NEW w \in Wallets, Exists(w), ~(Exists(w))'
      PROVE  outAt[w] + TrashWindow <= now
  <2>1. Expired(w)
    BY <1>1 DEF PurgeExpiredWallets, Exists
  <2>2. wallet[w] \in WalletRow /\ outAt[w] \in Nat /\ now \in Nat /\ TrashWindow \in Nat
    BY <1>1, Shapes, WindowAssumption DEF Inv, TypeOK
  <2> QED BY <1>1, <2>1, <2>2 DEF Expired, Inv, TrashDates, WalletRow
<1>2. ASSUME Inv, [Next]_vars, ~PurgeExpiredWallets, NEW w \in Wallets, Exists(w)
      PROVE  (Exists(w))'
  <2>1. CASE UNCHANGED wallet
    BY <1>2, <2>1 DEF Exists
  <2>2. ASSUME NEW c \in Calls, DeleteWallet(c) \/ RestoreWallet(c) \/ TransferOwnership(c)
        PROVE  (Exists(w))'
    BY <1>2, <2>2, DeleteWalletKeeps, RestoreWalletKeeps, TransferKeeps
  <2>3. ASSUME NEW u \in Users, NEW x \in Wallets, NEW g \in Grants, CreateWallet(u, x, g)
        PROVE  (Exists(w))'
    BY <1>2, <2>3 DEF CreateWallet, FreshWallet, Exists, Inv, TypeOK
  <2>4. ASSUME NEW c \in Calls, WalletRoutes(c) \/ GrantRoutes(c) \/ KeyRoutes(c)
        PROVE  UNCHANGED wallet
    BY <2>4 DEF WalletRoutes, GrantRoutes, KeyRoutes, AskDelete, AskRestore, AskTransfer,
       AskGrant, AskRegrant, AskUngrant, AskKey, AskRevoke, Ask
  <2>5. ASSUME NEW c \in Calls, Transaction(c) \/ Fail(c)
        PROVE  (Exists(w))'
    BY <2>1, <2>2, <2>5 DEF Transaction, CreateGrant, UpdateGrant, RevokeKeysOf, DeleteGrant,
       CreateApiKey, RevokeApiKey, Fail
  <2>6. CASE Tick \/ UNCHANGED vars
    BY <2>1, <2>6 DEF Tick, vars
  <2> QED BY <1>2, <2>1, <2>3, <2>4, <2>5, <2>6 DEF Next
<1>3. Inv /\ [Next]_vars =>
        [\A w \in Wallets : Exists(w) /\ ~Exists(w)' => outAt[w] + TrashWindow <= now]_vars
  BY <1>1, <1>2
<1> QED BY <1>3, Invariance, PTL DEF Spec, TrashWindowKept
=============================================================================
