----------------------- MODULE AccountRecoveryProofs -----------------------
(***************************************************************************)
(* The recovery of accounts for any number of accounts, wallets, recovery    *)
(* sessions and browsers.                                                    *)
(***************************************************************************)
EXTENDS AccountRecovery, TLAPS

-----------------------------------------------------------------------------
(* The invariant *)

Recovering == {"words", "checked", "updated", "abandon", "swept", "gone"}

\* The user of a session was a real one, and is never a shell; a session ends at
\* its limit, did its work if it is consumed, and sends what the database knows.
SessionOK(s) ==
    session[s] # NoSession =>
      /\ session[s].user # None => user[session[s].user] = NoUser \/ Real(session[s].user)
      /\ session[s].status = "pending" => session[s].attempts < MaxAttempts
      /\ session[s].status = "consumed" =>
           session[s].user # None /\ (s \in reset \/ user[session[s].user] = NoUser)
      /\ session[s].task = "persist" => ~session[s].mailed
      /\ session[s].task = "send" \/ session[s].mailed => session[s].traced

\* A browser holds the pair of the account of its session, while it is there.
RecoveryCallOK(c) ==
    call[c].op \in Recovering =>
      LET i == call[c].user
          s == call[c].session IN
      /\ session[s] # NoSession /\ session[s].user = i
      /\ call[c].op \in {"words", "checked"} =>
           /\ call[c].pair \in Pairs
           /\ user[i] # NoUser /\ i \notin mixed => call[c].pair = user[i].public
      /\ call[c].op = "updated" => s \in reset \/ user[i] = NoUser
      /\ call[c].op = "gone" => user[i] = NoUser

\* The row that a bootstrap will insert is known to nobody.
InsertOK(c) ==
    call[c].op = "insert" =>
      /\ user[call[c].user] = NoUser
      /\ \A s \in Sessions : session[s] # NoSession => session[s].user # call[c].user
      /\ \A d \in Calls \ {c} : call[d].op = "insert" => call[d].user # call[c].user

\* A wallet that an abandonment does not see came after its sweep.
SweepOK(c) ==
    call[c].op = "swept" =>
      \A w \in Wallets : wallet[w] = call[c].user => w \in call[c].doomed \cup late

CallOK(c) == RecoveryCallOK(c) /\ InsertOK(c) /\ SweepOK(c)

Inv == /\ TypeOK
       /\ \A s \in Sessions : SessionOK(s)
       /\ \A c \in Calls : CallOK(c)
       /\ RecoveryKeepsKeys /\ OrphanWalletsAreLate

-----------------------------------------------------------------------------
(* The rows *)

LEMMA UserRows ==
    /\ \A x \in RealUser : /\ x # NoUser /\ ~x.system /\ x.sub \in Subs
                           /\ x.public \in Pairs /\ x.bypass \in Pairs /\ x.byrec \in Pairs \cup {None}
                           /\ x.disabled \in BOOLEAN
    /\ \A x \in Shells : x # NoUser /\ x.system /\ x.sub \in Subs /\ x.disabled \in BOOLEAN
    /\ NoUser.sub = None /\ None \notin Subs
    /\ \A a \in Subs : Shell(a) \in Shells
    /\ \A a \in Subs, p \in Pairs, b \in BOOLEAN :
         /\ WithPair(a, p, b) \in RealUser
         /\ WithPair(a, p, b).public = p /\ WithPair(a, p, b).bypass = p /\ WithPair(a, p, b).byrec = p
<1>1. \A x \in RealUser : /\ ~x.system /\ x.sub \in Subs
                         /\ x.public \in Pairs /\ x.bypass \in Pairs /\ x.byrec \in Pairs \cup {None}
                         /\ x.disabled \in BOOLEAN
  BY DEF RealUser
<1>2. \A x \in Shells : x.system /\ x.sub \in Subs /\ x.disabled \in BOOLEAN
  <2>1. \A a : Shell(a).system /\ Shell(a).sub = a
    BY DEF Shell
  <2>2. \A a : Shell(a).disabled = FALSE
    BY DEF Shell
  <2> QED BY <2>1, <2>2 DEF Shells
<1>3. NoUser.sub = None /\ None \notin Subs
  BY NoneAssumption DEF NoUser
<1>4. \A a \in Subs : Shell(a) \in Shells
  BY DEF Shells
<1>5. \A a \in Subs, p \in Pairs, b \in BOOLEAN : WithPair(a, p, b) \in RealUser
  BY DEF WithPair, RealUser
<1>6. \A a \in Subs, p \in Pairs, b \in BOOLEAN :
         WithPair(a, p, b).public = p /\ WithPair(a, p, b).bypass = p /\ WithPair(a, p, b).byrec = p
  BY DEF WithPair
<1> QED BY <1>1, <1>2, <1>3, <1>4, <1>5, <1>6

LEMMA Users ==
    ASSUME TypeOK, NEW i \in Ids
    PROVE  /\ user[i] \in RealUser \cup Shells \cup {NoUser}
           /\ Real(i) <=> user[i] \in RealUser
           /\ \A a \in Subs : i \in RowsOf(a) => user[i] # NoUser
           /\ \A a \in Subs : SignedIn(a, i) => Real(i)
BY UserRows DEF TypeOK, Real, RowsOf, SignedIn

RecoveryRow ==
    [op : Recovering, user : Ids, session : Sessions, pair : Pairs \cup {None},
     doomed : SUBSET (Grants \cup Wallets)]
ContentRow ==
    [op : {"wallet", "grant", "key"}, user : Ids, session : {None}, pair : {None}, doomed : {{}}]
TransferRow ==
    [op : {"transfer"}, user : Ids, session : {None}, pair : {None}, doomed : {{}},
     wallet : Wallets, to : Ids]
AccountRow ==
    [op : {"insert", "convert", "passphrase", "recovery"}, user : Ids, session : {None},
     pair : Pairs, doomed : {{}}, sub : Subs]

LEMMA CallRows ==
    /\ CallRow = RecoveryRow \cup ContentRow \cup TransferRow \cup AccountRow
    /\ Idle.op = "idle"
    /\ \A x \in RecoveryRow : /\ x.op \in Recovering /\ x.user \in Ids /\ x.session \in Sessions
                              /\ x.doomed \subseteq Grants \cup Wallets
    /\ \A x \in ContentRow : x.op \in {"wallet", "grant", "key"} /\ x.user \in Ids
    /\ \A x \in TransferRow : /\ x.op = "transfer" /\ x.user \in Ids
                              /\ x.wallet \in Wallets /\ x.to \in Ids
    /\ \A x \in AccountRow : /\ x.op \in {"insert", "convert", "passphrase", "recovery"}
                             /\ x.user \in Ids /\ x.pair \in Pairs /\ x.sub \in Subs
    /\ \A x \in CallRow : x # Idle
BY DEF CallRow, RecoveryRow, ContentRow, TransferRow, AccountRow, Recovering, Idle

LEMMA Called ==
    ASSUME TypeOK, NEW c \in Calls
    PROVE  /\ call[c].op \in Recovering => call[c] \in RecoveryRow
           /\ call[c].op \in {"wallet", "grant", "key"} => call[c] \in ContentRow
           /\ call[c].op = "transfer" => call[c] \in TransferRow
           /\ call[c].op \in {"insert", "convert", "passphrase", "recovery"} => call[c] \in AccountRow
           /\ call[c].op # "idle" => call[c] # Idle
BY CallRows DEF TypeOK, Recovering

LEMMA SessionRows ==
    /\ NoSession \notin SessionRow /\ NoSession.status = "none"
    /\ \A x \in SessionRow : x.user \in Ids \cup {None} /\ x.attempts \in 0 .. MaxAttempts
BY DEF SessionRow, NoSession

LEMMA IdOfSession ==
    ASSUME TypeOK, NEW s \in Sessions, session[s] # NoSession
    PROVE  session[s] \in SessionRow /\ session[s].user \in Ids \cup {None}
BY SessionRows DEF TypeOK

-----------------------------------------------------------------------------
(* What every step leaves of what the others rely on *)

UsersGoOn ==
    \A s \in Sessions, i \in Ids : session[s] # NoSession /\ session[s].user = i =>
      /\ user[i] = NoUser => user'[i] = NoUser
      /\ Real(i) => \/ user'[i] = NoUser
                    \/ /\ Real(i)'
                       /\ i \notin mixed' => i \notin mixed /\ user'[i].public = user[i].public

SessionsGoOn ==
    /\ \A s \in Sessions : session[s] # NoSession =>
         session'[s] # NoSession /\ session'[s].user = session[s].user
    /\ \A s \in Sessions : session[s] = NoSession /\ session'[s] # NoSession =>
         session'[s].user = None \/ user[session'[s].user] # NoUser

WalletsGoOn ==
    \A w \in Wallets : wallet'[w] # None =>
      \/ wallet'[w] = wallet[w] /\ (w \in late => w \in late')
      \/ w \in late'
      \/ \A c \in Calls : ~(call[c].op = "swept" /\ call[c].user = wallet'[w])

InsertsGoOn ==
    /\ \A c \in Calls : call[c].op = "insert" /\ call'[c] = call[c] => user'[call[c].user] = NoUser
    /\ \A c \in Calls : call'[c].op = "insert" /\ call'[c] # call[c] =>
         \A d \in Calls \ {c} : call[d].op = "insert" => call[d].user # call'[c].user

Frame == UsersGoOn /\ SessionsGoOn /\ WalletsGoOn /\ InsertsGoOn /\ reset \subseteq reset'

LEMMA RecoveryCallStays ==
    ASSUME Inv, Frame, NEW c \in Calls, call'[c] = call[c]
    PROVE  RecoveryCallOK(c)'
<1> SUFFICES ASSUME call[c].op \in Recovering PROVE RecoveryCallOK(c)'
  BY DEF RecoveryCallOK
<1> DEFINE i == call[c].user
           s == call[c].session
<1>1. /\ TypeOK /\ RecoveryCallOK(c) /\ i \in Ids /\ s \in Sessions
  BY Called, CallRows DEF Inv, CallOK
<1>2. session[s] # NoSession /\ session[s].user = i /\ i # None
  BY <1>1, NoneAssumption DEF RecoveryCallOK
<1>3. user[i] = NoUser \/ Real(i)
  BY <1>1, <1>2 DEF Inv, SessionOK
<1>4. /\ user[i] = NoUser => user'[i] = NoUser
      /\ Real(i) => user'[i] = NoUser
                    \/ (i \notin mixed' => (i \notin mixed /\ user'[i].public = user[i].public))
  BY <1>1, <1>2 DEF Frame, UsersGoOn
<1>5. session'[s] # NoSession /\ session'[s].user = i
  BY <1>1, <1>2 DEF Frame, SessionsGoOn
<1>6. call[c].op \in {"words", "checked"} =>
        /\ call[c].pair \in Pairs
        /\ user'[i] # NoUser /\ i \notin mixed' => call[c].pair = user'[i].public
  BY <1>1, <1>3, <1>4 DEF RecoveryCallOK, Real
<1>7. /\ call[c].op = "updated" => s \in reset' \/ user'[i] = NoUser
      /\ call[c].op = "gone" => user'[i] = NoUser
  BY <1>1, <1>4 DEF RecoveryCallOK, Frame
<1> QED BY <1>5, <1>6, <1>7 DEF RecoveryCallOK

LEMMA CallsGoOn ==
    ASSUME Inv, Frame,
           \A c \in Calls : \/ call'[c] = call[c] \/ call'[c] = Idle
                            \/ CallOK(c)'
    PROVE  \A c \in Calls : CallOK(c)'
<1> SUFFICES ASSUME NEW c \in Calls, call'[c] = call[c] \/ call'[c] = Idle PROVE CallOK(c)'
  OBVIOUS
<1>1. CASE call'[c] = Idle
  BY <1>1, CallRows DEF CallOK, RecoveryCallOK, InsertOK, SweepOK, Recovering
<1>2. CASE call'[c] = call[c]
  <2>1. RecoveryCallOK(c)'
    BY <1>2, RecoveryCallStays
  <2>2. InsertOK(c)'
    <3> SUFFICES ASSUME call[c].op = "insert" PROVE InsertOK(c)'
      BY <1>2 DEF InsertOK
    <3>1. InsertOK(c) /\ user[call[c].user] = NoUser
      BY DEF Inv, CallOK, InsertOK
    <3>2. user'[call[c].user] = NoUser
      BY <1>2 DEF Frame, InsertsGoOn
    <3>3. call[c].user \in Ids
      BY Called, CallRows DEF Inv
    <3>4. ASSUME NEW s \in Sessions, session'[s] # NoSession
          PROVE  session'[s].user # call[c].user
      BY <3>1, <3>3, <3>4, NoneAssumption DEF InsertOK, Frame, SessionsGoOn
    <3>5. ASSUME NEW d \in Calls \ {c}, call'[d].op = "insert"
          PROVE  call'[d].user # call[c].user
      <4>1. CASE call'[d] = call[d]
        BY <3>1, <3>5, <4>1 DEF InsertOK
      <4>2. CASE call'[d] # call[d]
        BY <3>5, <4>2 DEF Frame, InsertsGoOn
      <4> QED BY <4>1, <4>2
    <3> QED BY <1>2, <3>2, <3>4, <3>5 DEF InsertOK
  <2>3. SweepOK(c)'
    <3> SUFFICES ASSUME call[c].op = "swept", NEW w \in Wallets, wallet'[w] = call[c].user
                 PROVE  w \in call[c].doomed \cup late'
      BY <1>2 DEF SweepOK
    <3>1. call[c].user \in Ids /\ wallet'[w] # None
      BY Called, CallRows, NoneAssumption DEF Inv, Recovering
    <3> QED BY <3>1 DEF Inv, CallOK, SweepOK, Frame, WalletsGoOn
  <2> QED BY <2>1, <2>2, <2>3 DEF CallOK
<1> QED BY <1>1, <1>2

\* Rows of sessions that do not change.
LEMMA SessionStays ==
    ASSUME Inv, Frame, NEW s \in Sessions, session'[s] = session[s]
    PROVE  SessionOK(s)'
<1> SUFFICES ASSUME session[s] # NoSession PROVE SessionOK(s)'
  BY DEF SessionOK
<1>1. SessionOK(s) /\ session[s].user \in Ids \cup {None}
  BY IdOfSession DEF Inv
<1>2. session[s].user # None =>
        user'[session[s].user] = NoUser \/ (user'[session[s].user] # NoUser /\ ~user'[session[s].user].system)
  BY <1>1 DEF SessionOK, Frame, UsersGoOn, Real
<1>3. session[s].status = "consumed" =>
        session[s].user # None /\ (s \in reset' \/ user'[session[s].user] = NoUser)
  BY <1>1 DEF SessionOK, Frame, UsersGoOn
<1> QED BY <1>1, <1>2, <1>3 DEF SessionOK, Real

\* Steps that leave the users and the sessions alone.
LEMMA UsersStay ==
    ASSUME Inv, UNCHANGED <<user, session, mixed, reset>>, WalletsGoOn,
           \A c \in Calls : call'[c].op = "insert" => call'[c] = call[c]
    PROVE  Frame
BY DEF Inv, CallOK, InsertOK, Frame, UsersGoOn, SessionsGoOn, InsertsGoOn, Real

LEMMA Assemble ==
    ASSUME Inv, TypeOK', Frame,
           \A c \in Calls : call'[c] = call[c] \/ call'[c] = Idle \/ CallOK(c)',
           \A s \in Sessions : session'[s] = session[s] \/ SessionOK(s)',
           RecoveryKeepsKeys', OrphanWalletsAreLate'
    PROVE  Inv'
<1>1. \A s \in Sessions : SessionOK(s)'
  BY SessionStays
<1>2. \A c \in Calls : CallOK(c)'
  BY CallsGoOn
<1> QED BY <1>1, <1>2 DEF Inv

LEMMA CallSet ==
    ASSUME TypeOK, NEW c \in Calls, NEW x \in CallRow \cup {Idle}, call' = [call EXCEPT ![c] = x]
    PROVE  /\ call' \in [Calls -> CallRow \cup {Idle}]
           /\ call'[c] = x /\ \A d \in Calls : d # c => call'[d] = call[d]
BY DEF TypeOK

LEMMA OpSet ==
    ASSUME TypeOK, NEW c \in Calls, call[c] \in RecoveryRow, NEW op \in Recovering,
           call' = [call EXCEPT ![c].op = op]
    PROVE  \E x \in RecoveryRow :
             /\ call' = [call EXCEPT ![c] = x] /\ x.op = op /\ x.user = call[c].user
             /\ x.session = call[c].session /\ x.pair = call[c].pair /\ x.doomed = call[c].doomed
<1> DEFINE o == call[c]
           x == [op |-> op, user |-> o.user, session |-> o.session, pair |-> o.pair, doomed |-> o.doomed]
<1>1. [o EXCEPT !.op = op] = x /\ x \in RecoveryRow
  BY DEF RecoveryRow
<1>2. call' = [call EXCEPT ![c] = [o EXCEPT !.op = op]]
  OBVIOUS
<1>3. call' = [call EXCEPT ![c] = x]
  BY <1>1, <1>2
<1>4. /\ x.op = op /\ x.user = o.user /\ x.session = o.session
      /\ x.pair = o.pair /\ x.doomed = o.doomed
  OBVIOUS
<1> HIDE DEF x
<1> QED BY <1>1, <1>3, <1>4

LEMMA AskedTyped ==
    ASSUME TypeOK, asked' = asked \/ (asked < MaxCalls /\ asked' = asked + 1)
    PROVE  asked' \in 0 .. MaxCalls
BY BoundsAssumption DEF TypeOK

-----------------------------------------------------------------------------
(* Steps of the calls alone *)

LEMMA OnlyCalls ==
    ASSUME Inv, UNCHANGED <<now, user, session, content, mixed, reset, late>>,
           call' \in [Calls -> CallRow \cup {Idle}],
           asked' = asked \/ (asked < MaxCalls /\ asked' = asked + 1),
           \A c \in Calls : call'[c] = call[c] \/ call'[c] = Idle \/ CallOK(c)',
           InsertsGoOn
    PROVE  Inv'
<1>1. TypeOK'
  BY AskedTyped DEF Inv, TypeOK, content
<1>2. Frame
  BY DEF Inv, Frame, UsersGoOn, SessionsGoOn, WalletsGoOn, SessionOK, Real, content
<1>3. RecoveryKeepsKeys' /\ OrphanWalletsAreLate'
  BY DEF Inv, RecoveryKeepsKeys, OrphanWalletsAreLate, Real, content
<1> QED BY <1>1, <1>2, <1>3, Assemble

\* Calls that begin or end without a row to insert.
LEMMA NoInsert ==
    ASSUME Inv, UNCHANGED user, \A c \in Calls : call'[c].op = "insert" => call'[c] = call[c]
    PROVE  InsertsGoOn
BY DEF InsertsGoOn, Inv, CallOK, InsertOK

LEMMA FailKeeps ==
    ASSUME Inv, NEW c \in Calls, Fail(c)
    PROVE  Inv'
<1>1. /\ call' = [call EXCEPT ![c] = Idle] /\ asked' = asked
      /\ UNCHANGED <<now, user, session, content, mixed, reset, late>>
  BY DEF Fail, Done
<1>2. /\ call' \in [Calls -> CallRow \cup {Idle}]
      /\ call'[c] = Idle /\ \A d \in Calls : d # c => call'[d] = call[d]
  BY <1>1, CallSet DEF Inv
<1>3. InsertsGoOn
  BY <1>1, <1>2, CallRows, NoInsert
<1> QED BY <1>1, <1>2, <1>3, OnlyCalls

\* A call that is asked for: its row, and what it relies on.
LEMMA AskKeeps ==
    ASSUME Inv, NEW c \in Calls, NEW x \in CallRow, Ask(c, x),
           UNCHANGED <<now, user, session, content, mixed, reset, late>>,
           call'[c] = x => RecoveryCallOK(c)' /\ InsertOK(c)',
           x.op # "swept"
    PROVE  Inv'
<1>1. call[c] = Idle /\ asked < MaxCalls /\ asked' = asked + 1 /\ call' = [call EXCEPT ![c] = x]
  BY DEF Ask
<1>2. /\ call' \in [Calls -> CallRow \cup {Idle}]
      /\ call'[c] = x /\ \A d \in Calls : d # c => call'[d] = call[d]
  BY <1>1, CallSet DEF Inv
<1>3. CallOK(c)'
  BY <1>2 DEF CallOK, SweepOK
<1>4. InsertsGoOn
  <2>1. \A d \in Calls : call[d].op = "insert" /\ call'[d] = call[d] => user'[call[d].user] = NoUser
    BY DEF Inv, CallOK, InsertOK
  <2>2. call'[c].op = "insert" =>
           \A d \in Calls \ {c} : call[d].op = "insert" => call[d].user # call'[c].user
    BY <1>2 DEF InsertOK
  <2> QED BY <1>2, <2>1, <2>2 DEF InsertsGoOn
<1> QED BY <1>1, <1>2, <1>3, <1>4, OnlyCalls

LEMMA AskBootstrapKeeps ==
    ASSUME Inv, NEW c \in Calls, NEW a \in Subs, NEW i \in Ids, AskBootstrap(c, a, i)
    PROVE  Inv'
<1> DEFINE op == IF RowsOf(a) = {} THEN "insert" ELSE "convert"
           x == [op |-> op, user |-> i, session |-> None, pair |-> asked + 1, doomed |-> {}, sub |-> a]
<1>1. Ask(c, x) /\ UNCHANGED <<now, user, session, content, mixed, reset, late>>
  BY DEF AskBootstrap
<1>2. asked + 1 \in Pairs
  BY <1>1, BoundsAssumption DEF Ask, Inv, TypeOK, Pairs
<1>3. op \in {"insert", "convert"} /\ (op = "insert" => FreshUser(i))
  BY DEF AskBootstrap
<1> HIDE DEF op
<1>4. x \in AccountRow /\ x.op = op /\ x.user = i
  BY <1>2, <1>3 DEF AccountRow
<1> HIDE DEF x
<1>5. x \in CallRow /\ call' = [call EXCEPT ![c] = x]
  BY <1>1, <1>4, CallRows DEF Ask
<1>6. call'[c] = x /\ \A d \in Calls : d # c => call'[d] = call[d]
  BY <1>5, CallSet DEF Inv
<1>7. RecoveryCallOK(c)'
  BY <1>3, <1>4, <1>6 DEF RecoveryCallOK, Recovering
<1>8. InsertOK(c)'
  <2> SUFFICES ASSUME op = "insert" PROVE InsertOK(c)'
    BY <1>4, <1>6 DEF InsertOK
  <2>1. FreshUser(i)
    BY <1>3
  <2>2. \A d \in Calls \ {c} : call[d].op = "insert" => call[d].user # i
    BY <2>1, CallRows DEF FreshUser, Busy
  <2> QED BY <1>1, <1>4, <1>6, <2>1, <2>2 DEF InsertOK, FreshUser
<1> QED BY <1>1, <1>3, <1>4, <1>5, <1>7, <1>8, AskKeeps

LEMMA GetCryptoKeeps ==
    ASSUME Inv, NEW c \in Calls, NEW a \in Subs, NEW i \in Ids, NEW op, GetCrypto(c, a, i, op)
    PROVE  Inv'
<1> DEFINE x == [op |-> op, user |-> i, session |-> None, pair |-> user[i].bypass,
                 doomed |-> {}, sub |-> a]
<1>1. /\ Ask(c, x) /\ UNCHANGED <<now, user, session, content, mixed, reset, late>>
      /\ op \in {"passphrase", "recovery"} /\ user[i] \in RealUser
  BY Users DEF GetCrypto, Inv
<1>2. x \in AccountRow /\ x.op = op
  BY <1>1, UserRows DEF AccountRow
<1> HIDE DEF x
<1>3. x \in CallRow
  BY <1>2, CallRows
<1>4. call'[c] = x => RecoveryCallOK(c)' /\ InsertOK(c)'
  BY <1>1, <1>2 DEF RecoveryCallOK, InsertOK, Recovering
<1> QED BY <1>1, <1>2, <1>3, <1>4, AskKeeps

LEMMA AskContentKeeps ==
    ASSUME Inv, NEW c \in Calls, NEW a \in Subs, NEW i \in Ids, NEW op, AskContent(c, a, i, op)
    PROVE  Inv'
<1> DEFINE x == Call(op, i, None, None)
<1>1. /\ Ask(c, x) /\ UNCHANGED <<now, user, session, content, mixed, reset, late>>
      /\ op \in {"wallet", "grant", "key"}
  BY DEF AskContent
<1>2. x \in ContentRow /\ x.op = op
  BY <1>1 DEF ContentRow, Call
<1> HIDE DEF x
<1>3. x \in CallRow
  BY <1>2, CallRows
<1>4. call'[c] = x => RecoveryCallOK(c)' /\ InsertOK(c)'
  BY <1>1, <1>2 DEF RecoveryCallOK, InsertOK, Recovering
<1> QED BY <1>1, <1>2, <1>3, <1>4, AskKeeps

LEMMA AskTransferKeeps ==
    ASSUME Inv, NEW c \in Calls, NEW a \in Subs, NEW i \in Ids, NEW w \in Wallets, NEW j \in Ids,
           AskTransfer(c, a, i, w, j)
    PROVE  Inv'
<1> DEFINE x == [op |-> "transfer", user |-> i, session |-> None, pair |-> None, doomed |-> {},
                 wallet |-> w, to |-> j]
<1>1. Ask(c, x) /\ UNCHANGED <<now, user, session, content, mixed, reset, late>>
  BY DEF AskTransfer
<1>2. x \in TransferRow /\ x.op = "transfer"
  BY DEF TransferRow
<1> HIDE DEF x
<1>3. x \in CallRow
  BY <1>2, CallRows
<1>4. call'[c] = x => RecoveryCallOK(c)' /\ InsertOK(c)'
  BY <1>1, <1>2 DEF RecoveryCallOK, InsertOK, Recovering
<1> QED BY <1>1, <1>2, <1>3, <1>4, AskKeeps

LEMMA GetBlobsKeeps ==
    ASSUME Inv, NEW c \in Calls, NEW s \in Sessions, GetBlobs(c, s)
    PROVE  Inv'
<1> PICK i : i = session[s].user
  OBVIOUS
<1> DEFINE x == Call("words", i, s, user[i].byrec)
<1>1. /\ Ask(c, x) /\ UNCHANGED <<now, user, session, content, mixed, reset, late>>
      /\ session[s] # NoSession /\ i # None /\ user[i] # NoUser /\ user[i].byrec # None
  BY DEF GetBlobs
<1>2. i \in Ids /\ Real(i)
  BY <1>1, IdOfSession DEF Inv, SessionOK
<1>3. user[i] \in RealUser /\ user[i].byrec \in Pairs
  BY <1>1, <1>2, Users, UserRows DEF Inv
<1>4. i \notin mixed => user[i].byrec = user[i].public
  BY <1>1, <1>2 DEF Inv, RecoveryKeepsKeys
<1>5. x \in RecoveryRow /\ x.op = "words" /\ x.user = i /\ x.session = s /\ x.pair = user[i].byrec
  BY <1>2, <1>3 DEF RecoveryRow, Call, Recovering
<1> HIDE DEF x
<1>6. x \in CallRow
  BY <1>5, CallRows
<1>7. call'[c] = x => RecoveryCallOK(c)' /\ InsertOK(c)'
  BY <1>1, <1>3, <1>4, <1>5 DEF RecoveryCallOK, InsertOK
<1> QED BY <1>1, <1>5, <1>6, <1>7, AskKeeps

LEMMA AskAbandonKeeps ==
    ASSUME Inv, NEW c \in Calls, NEW s \in Sessions, AskAbandon(c, s)
    PROVE  Inv'
<1> PICK i : i = session[s].user
  OBVIOUS
<1> DEFINE x == Call("abandon", i, s, None)
<1>1. /\ Ask(c, x) /\ UNCHANGED <<now, user, session, content, mixed, reset, late>>
      /\ session[s] # NoSession /\ i # None
  BY DEF AskAbandon
<1>2. i \in Ids
  BY <1>1, IdOfSession DEF Inv
<1>3. x \in RecoveryRow /\ x.op = "abandon" /\ x.user = i /\ x.session = s
  BY <1>2 DEF RecoveryRow, Call, Recovering
<1> HIDE DEF x
<1>4. x \in CallRow
  BY <1>3, CallRows
<1>5. call'[c] = x => RecoveryCallOK(c)' /\ InsertOK(c)'
  BY <1>1, <1>3 DEF RecoveryCallOK, InsertOK
<1> QED BY <1>1, <1>3, <1>4, <1>5, AskKeeps

LEMMA CompleteCheckKeeps ==
    ASSUME Inv, NEW c \in Calls, CompleteCheck(c)
    PROVE  Inv'
<1>1. /\ call[c].op = "words" /\ call[c] \in RecoveryRow
      /\ call' = [call EXCEPT ![c].op = "checked"] /\ asked' = asked
      /\ UNCHANGED <<now, user, session, content, mixed, reset, late>>
  BY Called DEF CompleteCheck, Is, To, Inv, Recovering
<1>2. PICK x \in RecoveryRow :
        /\ call' = [call EXCEPT ![c] = x] /\ x.op = "checked" /\ x.user = call[c].user
        /\ x.session = call[c].session /\ x.pair = call[c].pair
  BY ZenonT(60), <1>1, OpSet DEF Inv, Recovering
<1>3. /\ call' \in [Calls -> CallRow \cup {Idle}]
      /\ call'[c] = x /\ \A d \in Calls : d # c => call'[d] = call[d]
  BY <1>2, CallRows, CallSet DEF Inv
<1>4. CallOK(c)'
  BY <1>1, <1>2, <1>3 DEF Inv, CallOK, RecoveryCallOK, InsertOK, SweepOK, Recovering
<1>5. InsertsGoOn
  BY <1>1, <1>2, <1>3, NoInsert
<1> QED BY <1>1, <1>3, <1>4, <1>5, OnlyCalls

\* The op and the doomed rows of an abandonment.
Dooms(c, op, D) == call' = [call EXCEPT ![c].op = op, ![c].doomed = D]

LEMMA SweptSet ==
    ASSUME TypeOK, NEW c \in Calls, call[c] \in RecoveryRow, NEW op \in Recovering,
           NEW D \in SUBSET (Grants \cup Wallets), Dooms(c, op, D)
    PROVE  \E x \in RecoveryRow :
             /\ call' = [call EXCEPT ![c] = x] /\ x.op = op /\ x.user = call[c].user
             /\ x.session = call[c].session /\ x.doomed = D
<1> DEFINE o == call[c]
           y == [op |-> op, user |-> o.user, session |-> o.session, pair |-> o.pair, doomed |-> o.doomed]
           x == [op |-> op, user |-> o.user, session |-> o.session, pair |-> o.pair, doomed |-> D]
<1>1. [o EXCEPT !.op = op] = y /\ [y EXCEPT !.doomed = D] = x /\ x \in RecoveryRow
  BY DEF RecoveryRow
<1>2. call' = [[call EXCEPT ![c] = [o EXCEPT !.op = op]]
                 EXCEPT ![c] = [[call EXCEPT ![c] = [o EXCEPT !.op = op]][c] EXCEPT !.doomed = D]]
  BY DEF Dooms
<1>3. [call EXCEPT ![c] = [o EXCEPT !.op = op]][c] = y
  BY <1>1 DEF TypeOK
<1> HIDE DEF x, y, o
<1>4. call' = [[call EXCEPT ![c] = y] EXCEPT ![c] = x]
  BY <1>1, <1>2, <1>3
<1>5. call' = [call EXCEPT ![c] = x]
  BY <1>4 DEF TypeOK
<1> QED BY <1>1, <1>5 DEF x, o

LEMMA AbandonSweepKeeps ==
    ASSUME Inv, NEW c \in Calls, AbandonSweep(c)
    PROVE  Inv'
<1> PICK i : i = call[c].user
  OBVIOUS
<1> PICK D \in SUBSET (Grants \cup Wallets) :
       D = {g \in Grants : grant[g] # NoRow /\ grant[g].by = i} \cup {w \in Wallets : wallet[w] = i}
  OBVIOUS
<1>1. /\ call[c].op = "abandon" /\ call[c] \in RecoveryRow
      /\ Dooms(c, "swept", D) /\ asked' = asked
      /\ UNCHANGED <<now, user, session, content, mixed, reset, late>>
  BY Called DEF AbandonSweep, Is, Inv, Recovering, Dooms
<1>2. \A w \in Wallets : wallet[w] = i => w \in D
  OBVIOUS
<1>3. PICK x \in RecoveryRow :
        /\ call' = [call EXCEPT ![c] = x] /\ x.op = "swept" /\ x.user = i
        /\ x.session = call[c].session /\ x.doomed = D
  <2>1. TypeOK /\ "swept" \in Recovering
    BY DEF Inv, Recovering
  <2> QED BY <1>1, <2>1, SweptSet
<1>4. /\ call' \in [Calls -> CallRow \cup {Idle}]
      /\ call'[c] = x /\ \A d \in Calls : d # c => call'[d] = call[d]
  BY <1>3, CallRows, CallSet DEF Inv
<1>5. CallOK(c)'
  BY <1>1, <1>2, <1>3, <1>4 DEF Inv, CallOK, RecoveryCallOK, InsertOK, SweepOK, Recovering, content
<1>6. InsertsGoOn
  BY <1>1, <1>3, <1>4, NoInsert
<1> QED BY <1>1, <1>4, <1>5, <1>6, OnlyCalls

-----------------------------------------------------------------------------
(* Wallets, grants and keys *)

LEMMA CreateWalletKeeps ==
    ASSUME Inv, NEW c \in Calls, NEW w \in Wallets, NEW g \in Grants, CreateWallet(c, w, g)
    PROVE  Inv'
<1> PICK i : i = call[c].user
  OBVIOUS
<1>1. /\ call[c].op = "wallet" /\ user[i] # NoUser /\ wallet[w] = None
      /\ wallet' = [wallet EXCEPT ![w] = i]
      /\ grant' = [grant EXCEPT ![g] = [wallet |-> w, user |-> i, by |-> i]]
      /\ late' = IF Swept(i) THEN late \cup {w} ELSE late
      /\ call' = [call EXCEPT ![c] = Idle] /\ asked' = asked
      /\ UNCHANGED <<now, user, session, key, mixed, reset>>
  BY DEF CreateWallet, Is, Done
<1>2. i \in Ids
  BY <1>1, Called, CallRows DEF Inv
<1>3. /\ call' \in [Calls -> CallRow \cup {Idle}]
      /\ call'[c] = Idle /\ \A d \in Calls : d # c => call'[d] = call[d]
  BY <1>1, CallSet DEF Inv
<1>4. wallet'[w] = i /\ \A v \in Wallets : v # w => wallet'[v] = wallet[v]
  BY <1>1 DEF Inv, TypeOK
<1>5. TypeOK'
  BY <1>1, <1>2, <1>3 DEF Inv, TypeOK, GrantRow
<1>6. WalletsGoOn
  <2>1. Swept(i) => w \in late'
    BY <1>1
  <2>2. ~Swept(i) => \A d \in Calls : ~(call[d].op = "swept" /\ call[d].user = i)
    BY CallRows DEF Swept, Busy
  <2> QED BY <1>1, <1>4, <2>1, <2>2 DEF WalletsGoOn
<1>7. Frame
  BY <1>1, <1>3, <1>6, CallRows, UsersStay
<1>8. RecoveryKeepsKeys'
  BY <1>1 DEF Inv, RecoveryKeepsKeys, Real
<1>9. OrphanWalletsAreLate'
  BY <1>1, <1>4 DEF Inv, OrphanWalletsAreLate
<1> QED BY <1>1, <1>3, <1>5, <1>7, <1>8, <1>9, Assemble

\* The new owner is there; the wallet is late if his own are swept already.
LEMMA TransferKeeps ==
    ASSUME Inv, NEW c \in Calls, TransferOwnership(c)
    PROVE  Inv'
<1> PICK w, j : w = call[c].wallet /\ j = call[c].to
  OBVIOUS
<1>1. /\ call[c].op = "transfer" /\ user[j] # NoUser
      /\ wallet' = [wallet EXCEPT ![w] = j]
      /\ late' = IF Swept(j) THEN late \cup {w} ELSE late \ {w}
      /\ call' = [call EXCEPT ![c] = Idle] /\ asked' = asked
      /\ UNCHANGED <<now, user, session, grant, key, mixed, reset>>
  BY DEF TransferOwnership, Is, Done
<1>2. w \in Wallets /\ j \in Ids
  BY <1>1, Called, CallRows DEF Inv
<1>3. /\ call' \in [Calls -> CallRow \cup {Idle}]
      /\ call'[c] = Idle /\ \A d \in Calls : d # c => call'[d] = call[d]
  BY <1>1, CallSet DEF Inv
<1>4. wallet'[w] = j /\ \A v \in Wallets : v # w => wallet'[v] = wallet[v]
  BY <1>1, <1>2 DEF Inv, TypeOK
<1>5. TypeOK'
  BY <1>1, <1>2, <1>3 DEF Inv, TypeOK
<1>6. WalletsGoOn
  <2>1. Swept(j) => w \in late'
    BY <1>1
  <2>2. ~Swept(j) => \A d \in Calls : ~(call[d].op = "swept" /\ call[d].user = j)
    BY CallRows DEF Swept, Busy
  <2> QED BY <1>1, <1>4, <2>1, <2>2 DEF WalletsGoOn
<1>7. Frame
  BY <1>1, <1>3, <1>6, CallRows, UsersStay
<1>8. RecoveryKeepsKeys'
  BY <1>1 DEF Inv, RecoveryKeepsKeys, Real
<1>9. OrphanWalletsAreLate'
  BY <1>1, <1>4 DEF Inv, OrphanWalletsAreLate
<1> QED BY <1>1, <1>3, <1>5, <1>7, <1>8, <1>9, Assemble

LEMMA CreateGrantKeeps ==
    ASSUME Inv, NEW c \in Calls, NEW w \in Wallets, NEW j \in Ids, NEW g \in Grants,
           CreateGrant(c, w, j, g)
    PROVE  Inv'
<1> PICK i : i = call[c].user
  OBVIOUS
<1>1. /\ call[c].op = "grant"
      /\ grant' = [grant EXCEPT ![g] = [wallet |-> w, user |-> j, by |-> i]]
      /\ call' = [call EXCEPT ![c] = Idle] /\ asked' = asked
      /\ UNCHANGED <<now, user, session, wallet, key, mixed, reset, late>>
  BY DEF CreateGrant, Is, Done
<1>2. i \in Ids
  BY <1>1, Called, CallRows DEF Inv
<1>3. /\ call' \in [Calls -> CallRow \cup {Idle}]
      /\ call'[c] = Idle /\ \A d \in Calls : d # c => call'[d] = call[d]
  BY <1>1, CallSet DEF Inv
<1>4. TypeOK'
  BY <1>1, <1>2, <1>3 DEF Inv, TypeOK, GrantRow
<1>5. Frame
  BY <1>1, <1>3, CallRows, UsersStay DEF WalletsGoOn
<1>6. RecoveryKeepsKeys' /\ OrphanWalletsAreLate'
  BY <1>1 DEF Inv, RecoveryKeepsKeys, Real, OrphanWalletsAreLate
<1> QED BY <1>1, <1>3, <1>4, <1>5, <1>6, Assemble

LEMMA CreateApiKeyKeeps ==
    ASSUME Inv, NEW c \in Calls, NEW w \in Wallets, NEW k \in Keys, CreateApiKey(c, w, k)
    PROVE  Inv'
<1> PICK i : i = call[c].user
  OBVIOUS
<1>1. /\ call[c].op = "key"
      /\ key' = [key EXCEPT ![k] = [wallet |-> w, owner |-> i]]
      /\ call' = [call EXCEPT ![c] = Idle] /\ asked' = asked
      /\ UNCHANGED <<now, user, session, wallet, grant, mixed, reset, late>>
  BY DEF CreateApiKey, Is, Done
<1>2. i \in Ids
  BY <1>1, Called, CallRows DEF Inv
<1>3. /\ call' \in [Calls -> CallRow \cup {Idle}]
      /\ call'[c] = Idle /\ \A d \in Calls : d # c => call'[d] = call[d]
  BY <1>1, CallSet DEF Inv
<1>4. TypeOK'
  BY <1>1, <1>2, <1>3 DEF Inv, TypeOK, KeyRow
<1>5. Frame
  BY <1>1, <1>3, CallRows, UsersStay DEF WalletsGoOn
<1>6. RecoveryKeepsKeys' /\ OrphanWalletsAreLate'
  BY <1>1 DEF Inv, RecoveryKeepsKeys, Real, OrphanWalletsAreLate
<1> QED BY <1>1, <1>3, <1>4, <1>5, <1>6, Assemble

-----------------------------------------------------------------------------
(* Accounts *)

Fresh(i) == /\ user[i] = NoUser
            /\ \A s \in Sessions : session[s] # NoSession => session[s].user # i

LEMMA OneUser ==
    ASSUME Inv, NEW i \in Ids, NEW x \in RealUser \cup Shells, user' = [user EXCEPT ![i] = x],
           UNCHANGED <<session, wallet, late>>, reset \subseteq reset', mixed \subseteq mixed',
           InsertsGoOn,
           \/ Fresh(i)
           \/ /\ user[i] # NoUser
              /\ Real(i) => x \in RealUser /\ (i \notin mixed' => x.public = user[i].public)
    PROVE  /\ Frame /\ OrphanWalletsAreLate'
           /\ user' \in [Ids -> RealUser \cup Shells \cup {NoUser}]
           /\ user'[i] = x /\ \A j \in Ids : j # i => user'[j] = user[j]
<1>1. /\ user' \in [Ids -> RealUser \cup Shells \cup {NoUser}]
      /\ user'[i] = x /\ \A j \in Ids : j # i => user'[j] = user[j]
      /\ x # NoUser /\ (x \in RealUser => ~x.system)
  BY UserRows DEF Inv, TypeOK
<1>2. UsersGoOn
  <2> SUFFICES ASSUME NEW s \in Sessions, session[s] # NoSession, NEW j \in Ids, j = session[s].user
               PROVE  /\ user[j] = NoUser => user'[j] = NoUser
                      /\ Real(j) => \/ user'[j] = NoUser
                                    \/ /\ user'[j] # NoUser /\ ~user'[j].system
                                       /\ j \notin mixed' => j \notin mixed /\ user'[j].public = user[j].public
    BY IdOfSession DEF UsersGoOn, Real, Inv
  <2>1. CASE j # i
    BY <1>1, <2>1 DEF Real
  <2>2. CASE j = i
    BY <1>1, <2>2 DEF Fresh
  <2> QED BY <2>1, <2>2
<1>3. SessionsGoOn /\ WalletsGoOn
  BY DEF SessionsGoOn, WalletsGoOn
<1>4. OrphanWalletsAreLate'
  <2>1. \A w \in Wallets : wallet[w] # None => wallet[w] \in Ids
    BY DEF Inv, TypeOK
  <2> QED BY <1>1, <2>1 DEF Inv, OrphanWalletsAreLate
<1> QED BY <1>1, <1>2, <1>3, <1>4 DEF Frame

\* A row that is there is nobody's to insert.
LEMMA NobodyInserts ==
    ASSUME Inv, NEW i \in Ids, user[i] # NoUser, NEW x,
           user' = [user EXCEPT ![i] = x],
           \A c \in Calls : call'[c].op = "insert" => call'[c] = call[c]
    PROVE  InsertsGoOn
<1>1. ASSUME NEW c \in Calls, call[c].op = "insert" PROVE user'[call[c].user] = NoUser
  <2>1. user[call[c].user] = NoUser /\ call[c].user \in Ids
    BY <1>1, Called, CallRows DEF Inv, CallOK, InsertOK
  <2> QED BY <2>1 DEF Inv, TypeOK
<1> QED BY <1>1 DEF InsertsGoOn

LEMMA ResolveKeeps ==
    ASSUME Inv, NEW a \in Subs, NEW i \in Ids, ResolveAdminUserId(a, i)
    PROVE  Inv'
<1> DEFINE x == Shell(a)
<1>1. /\ FreshUser(i) /\ user' = [user EXCEPT ![i] = x]
      /\ UNCHANGED <<now, session, content, call, asked, mixed, reset, late>>
  BY DEF ResolveAdminUserId
<1>2. x \in Shells /\ x.system
  BY UserRows
<1> HIDE DEF x
<1>3. InsertsGoOn
  <2>1. ASSUME NEW c \in Calls, call[c].op = "insert" PROVE user'[call[c].user] = NoUser
    <3>1. user[call[c].user] = NoUser /\ call[c].user \in Ids /\ call[c] # Idle
      BY <2>1, Called, CallRows DEF Inv, CallOK, InsertOK
    <3>2. call[c].user # i
      BY <1>1, <3>1 DEF FreshUser, Busy
    <3> QED BY <1>1, <3>1, <3>2 DEF Inv, TypeOK
  <2> QED BY <1>1, <2>1 DEF InsertsGoOn
<1>4. /\ Frame /\ OrphanWalletsAreLate'
      /\ user' \in [Ids -> RealUser \cup Shells \cup {NoUser}]
      /\ user'[i] = x /\ \A j \in Ids : j # i => user'[j] = user[j]
  BY <1>1, <1>2, <1>3, OneUser DEF Fresh, FreshUser, content
<1>5. TypeOK'
  BY <1>1, <1>4 DEF Inv, TypeOK, content
<1>6. RecoveryKeepsKeys'
  BY <1>1, <1>2, <1>4 DEF Inv, RecoveryKeepsKeys, Real
<1> QED BY <1>1, <1>4, <1>5, <1>6, Assemble

LEMMA InsertBootstrapKeeps ==
    ASSUME Inv, NEW c \in Calls, InsertBootstrap(c)
    PROVE  Inv'
<1>0. call[c].op = "insert" /\ call[c] \in AccountRow /\ InsertOK(c) /\ call[c].user \in Ids
  BY Called, CallRows DEF InsertBootstrap, Is, Inv, CallOK
<1> PICK i \in Ids : i = call[c].user
  BY <1>0
<1> PICK x : x = WithPair(call[c].sub, call[c].pair, FALSE)
  OBVIOUS
<1>1. /\ user' = [user EXCEPT ![i] = x] /\ call' = [call EXCEPT ![c] = Idle] /\ asked' = asked
      /\ UNCHANGED <<now, session, content, mixed, reset, late>>
  BY DEF InsertBootstrap, Done
<1>2. x \in RealUser /\ x.bypass = x.public /\ x.byrec = x.public
  <2>1. call[c].sub \in Subs /\ call[c].pair \in Pairs
    BY <1>0, CallRows
  <2> QED BY <2>1 DEF WithPair, RealUser
<1>3. /\ call' \in [Calls -> CallRow \cup {Idle}]
      /\ call'[c] = Idle /\ \A d \in Calls : d # c => call'[d] = call[d]
  BY <1>1, CallSet DEF Inv
<1>4. InsertsGoOn
  <2>1. ASSUME NEW d \in Calls, call[d].op = "insert", d # c PROVE user'[call[d].user] = NoUser
    <3>1. user[call[d].user] = NoUser /\ call[d].user \in Ids /\ call[d].user # i
      BY <1>0, <2>1, Called, CallRows DEF Inv, CallOK, InsertOK
    <3> QED BY <1>1, <3>1 DEF Inv, TypeOK
  <2>2. call'[c].op # "insert" /\ call[c] # Idle
    BY <1>0, <1>3, CallRows
  <2> QED BY <1>3, <2>1, <2>2 DEF InsertsGoOn
<1>5. /\ Frame /\ OrphanWalletsAreLate'
      /\ user' \in [Ids -> RealUser \cup Shells \cup {NoUser}]
      /\ user'[i] = x /\ \A j \in Ids : j # i => user'[j] = user[j]
  BY <1>0, <1>1, <1>2, <1>4, OneUser DEF Fresh, InsertOK, content
<1>6. TypeOK'
  BY <1>1, <1>3, <1>5 DEF Inv, TypeOK, content
<1>7. RecoveryKeepsKeys'
  BY <1>1, <1>2, <1>5 DEF Inv, RecoveryKeepsKeys, Real
<1> QED BY <1>1, <1>3, <1>5, <1>6, <1>7, Assemble

LEMMA ConvertKeeps ==
    ASSUME Inv, NEW c \in Calls, ConvertSystemUser(c)
    PROVE  Inv'
<1>0. call[c].op = "convert" /\ call[c] \in AccountRow /\ call[c].user \in Ids /\ call[c].pair \in Pairs
  BY Called, CallRows DEF ConvertSystemUser, Is, Inv
<1> PICK i \in Ids : i = call[c].user
  BY <1>0
<1>1. /\ call' = [call EXCEPT ![c] = Idle] /\ asked' = asked
      /\ UNCHANGED <<now, session, content, reset, late>>
      /\ mixed' = IF Real(i) THEN mixed \cup {i} ELSE mixed
  BY DEF ConvertSystemUser, Done
<1>2. /\ call' \in [Calls -> CallRow \cup {Idle}]
      /\ call'[c] = Idle /\ \A d \in Calls : d # c => call'[d] = call[d]
  BY <1>1, CallSet DEF Inv
<1>3. CASE user[i] = NoUser
  <2>1. user' = user /\ mixed' = mixed
    BY <1>1, <1>3 DEF ConvertSystemUser, Real
  <2>2. InsertsGoOn
    BY <1>2, <2>1, CallRows, NoInsert
  <2> QED BY <1>1, <1>2, <2>1, <2>2, OnlyCalls
<1>4. CASE user[i] # NoUser
  <2> PICK x : x = WithPair(user[i].sub, call[c].pair, user[i].disabled)
    OBVIOUS
  <2>1. user' = [user EXCEPT ![i] = x]
    BY <1>4 DEF ConvertSystemUser
  <2>2. user[i] \in RealUser \cup Shells
    BY <1>4, Users DEF Inv
  <2>3. user[i].sub \in Subs /\ user[i].disabled \in BOOLEAN
    BY <2>2, UserRows
  <2>4. x \in RealUser /\ x.bypass = x.public /\ x.byrec = x.public
    BY <1>0, <2>3, UserRows
  <2>5. InsertsGoOn
    BY <1>2, <1>4, <2>1, CallRows, NobodyInserts
  <2>6. mixed \subseteq mixed' /\ (Real(i) => i \in mixed')
    BY <1>1
  <2>7. /\ Frame /\ OrphanWalletsAreLate'
        /\ user' \in [Ids -> RealUser \cup Shells \cup {NoUser}]
        /\ user'[i] = x /\ \A j \in Ids : j # i => user'[j] = user[j]
    BY <1>1, <1>4, <2>1, <2>4, <2>5, <2>6, OneUser DEF content
  <2>8. TypeOK'
    BY <1>1, <1>2, <2>7 DEF Inv, TypeOK, content
  <2>9. RecoveryKeepsKeys'
    BY <2>4, <2>6, <2>7 DEF Inv, RecoveryKeepsKeys, Real
  <2> QED BY <1>1, <1>2, <2>7, <2>8, <2>9, Assemble
<1> QED BY <1>3, <1>4

\* The row that the account of a signed-in browser has by now, another copy of
\* the private key written over one of its own.
LEMMA PutBlobKeeps ==
    ASSUME Inv, NEW c \in Calls, NEW i \in Ids, NEW x \in RealUser, PutBlob(c, i, x),
           call[c].op \in {"passphrase", "recovery"}, x.public = user[i].public,
           x.bypass \in {user[i].bypass, call[c].pair}, x.byrec \in {user[i].byrec, call[c].pair}
    PROVE  Inv'
<1>1. /\ SignedIn(call[c].sub, i) /\ user' = [user EXCEPT ![i] = x]
      /\ mixed' = IF call[c].pair = user[i].public THEN mixed ELSE mixed \cup {i}
      /\ call' = [call EXCEPT ![c] = Idle] /\ asked' = asked
      /\ UNCHANGED <<now, session, content, reset, late>>
  BY DEF PutBlob, Done
<1>2. Real(i) /\ user[i] # NoUser
  BY <1>1 DEF SignedIn, Real
<1>3. /\ call' \in [Calls -> CallRow \cup {Idle}]
      /\ call'[c] = Idle /\ \A d \in Calls : d # c => call'[d] = call[d]
  BY <1>1, CallSet DEF Inv
<1>4. InsertsGoOn
  BY <1>1, <1>2, <1>3, CallRows, NobodyInserts
<1>5. mixed \subseteq mixed' /\ mixed' \subseteq Ids
  BY <1>1 DEF Inv, TypeOK
<1>6. /\ Frame /\ OrphanWalletsAreLate'
      /\ user' \in [Ids -> RealUser \cup Shells \cup {NoUser}]
      /\ user'[i] = x /\ \A j \in Ids : j # i => user'[j] = user[j]
  BY <1>1, <1>2, <1>4, <1>5, OneUser DEF content
<1>7. TypeOK'
  BY <1>1, <1>3, <1>5, <1>6 DEF Inv, TypeOK, content
<1>8. RecoveryKeepsKeys'
  BY <1>1, <1>2, <1>6 DEF Inv, RecoveryKeepsKeys, Real
<1> QED BY <1>1, <1>3, <1>6, <1>7, <1>8, Assemble

\* One field of a real user.
LEMMA UserFields ==
    ASSUME NEW u \in RealUser, NEW p \in Pairs
    PROVE  /\ [u EXCEPT !.bypass = p] \in RealUser
           /\ [u EXCEPT !.bypass = p].public = u.public /\ [u EXCEPT !.bypass = p].byrec = u.byrec
           /\ [u EXCEPT !.bypass = p].bypass = p
           /\ [u EXCEPT !.byrec = p] \in RealUser
           /\ [u EXCEPT !.byrec = p].public = u.public /\ [u EXCEPT !.byrec = p].bypass = u.bypass
           /\ [u EXCEPT !.byrec = p].byrec = p
BY DEF RealUser

LEMMA SignedInKeeps ==
    ASSUME Inv, NEW c \in Calls, NEW i \in Ids, ChangePassphrase(c, i) \/ RenewRecovery(c, i)
    PROVE  Inv'
<1>1. call[c].op \in {"passphrase", "recovery"} /\ call[c] \in AccountRow /\ call[c].pair \in Pairs
      /\ call[c].sub \in Subs
  BY Called, CallRows DEF ChangePassphrase, RenewRecovery, Is, Inv
<1>2. SignedIn(call[c].sub, i)
  BY DEF ChangePassphrase, RenewRecovery, PutBlob
<1>3. user[i] \in RealUser
  BY <1>1, <1>2, Users DEF Inv
<1>4. CASE ChangePassphrase(c, i)
  <2> PICK x : x = [user[i] EXCEPT !.bypass = call[c].pair]
    OBVIOUS
  <2>1. x \in RealUser /\ x.public = user[i].public /\ x.byrec = user[i].byrec /\ x.bypass = call[c].pair
    BY <1>1, <1>3, UserFields
  <2> QED BY <1>1, <1>4, <2>1, PutBlobKeeps DEF ChangePassphrase
<1>5. CASE RenewRecovery(c, i)
  <2> PICK x : x = [user[i] EXCEPT !.byrec = call[c].pair]
    OBVIOUS
  <2>1. x \in RealUser /\ x.public = user[i].public /\ x.bypass = user[i].bypass /\ x.byrec = call[c].pair
    BY <1>1, <1>3, UserFields
  <2> QED BY <1>1, <1>5, <2>1, PutBlobKeeps DEF RenewRecovery
<1> QED BY <1>4, <1>5

LEMMA DisabledSet ==
    ASSUME NEW u \in RealUser, NEW b \in BOOLEAN
    PROVE  \E x \in RealUser : /\ [u EXCEPT !.disabled = b] = x
                              /\ x.public = u.public /\ x.bypass = u.bypass /\ x.byrec = u.byrec
<1> DEFINE x == [sub |-> u.sub, system |-> u.system, public |-> u.public, bypass |-> u.bypass,
                 byrec |-> u.byrec, disabled |-> b]
<1>1. x \in RealUser
  BY DEF RealUser
<1>2. [u EXCEPT !.disabled = b] = x
  BY DEF RealUser
<1> QED BY <1>1, <1>2

LEMMA SetDisabledKeeps ==
    ASSUME Inv, NEW i \in Ids, NEW b \in BOOLEAN, SetDisabled(i, b)
    PROVE  Inv'
<1>1. /\ Real(i) /\ asked < MaxCalls /\ asked' = asked + 1
      /\ user' = [user EXCEPT ![i] = [user[i] EXCEPT !.disabled = b]]
      /\ UNCHANGED <<now, session, content, call, mixed, reset, late>>
  BY DEF SetDisabled
<1>2. user[i] \in RealUser /\ user[i] # NoUser
  BY <1>1, Users DEF Inv, Real
<1>3. PICK x \in RealUser : /\ [user[i] EXCEPT !.disabled = b] = x /\ x.public = user[i].public
                           /\ x.bypass = user[i].bypass /\ x.byrec = user[i].byrec
  BY <1>2, DisabledSet
<1>4. user' = [user EXCEPT ![i] = x]
  BY <1>1, <1>3
<1>5. InsertsGoOn
  BY <1>1, <1>2, <1>4, NobodyInserts
<1>6. /\ Frame /\ OrphanWalletsAreLate'
      /\ user' \in [Ids -> RealUser \cup Shells \cup {NoUser}]
      /\ user'[i] = x /\ \A j \in Ids : j # i => user'[j] = user[j]
  BY <1>1, <1>2, <1>3, <1>4, <1>5, OneUser DEF content
<1>7. TypeOK'
  BY <1>1, <1>6, AskedTyped DEF Inv, TypeOK, content
<1>8. RecoveryKeepsKeys'
  BY <1>1, <1>3, <1>6 DEF Inv, RecoveryKeepsKeys, Real
<1> QED BY <1>1, <1>6, <1>7, <1>8, Assemble

-----------------------------------------------------------------------------
(* Completion and abandonment *)

LEMMA CompleteUpdateKeeps ==
    ASSUME Inv, NEW c \in Calls, CompleteUpdate(c)
    PROVE  Inv'
<1>0. /\ call[c].op = "checked" /\ call[c] \in RecoveryRow /\ RecoveryCallOK(c)
      /\ call[c].user \in Ids /\ call[c].session \in Sessions
  BY Called, CallRows DEF CompleteUpdate, Is, Inv, CallOK, Recovering
<1> PICK i \in Ids, s \in Sessions : i = call[c].user /\ s = call[c].session
  BY <1>0
<1>1. /\ session[s] # NoSession /\ session[s].user = i /\ i # None /\ call[c].pair \in Pairs
      /\ user[i] # NoUser /\ i \notin mixed => call[c].pair = user[i].public
  BY <1>0, NoneAssumption DEF RecoveryCallOK, Recovering
<1>2. /\ call' = [call EXCEPT ![c].op = "updated"] /\ asked' = asked
      /\ UNCHANGED <<now, session, content, mixed, late>>
  BY DEF CompleteUpdate, To
<1>3. PICK x \in RecoveryRow :
        /\ call' = [call EXCEPT ![c] = x] /\ x.op = "updated" /\ x.user = i /\ x.session = s
  BY <1>0, <1>2, OpSet DEF Inv, Recovering
<1>4. /\ call' \in [Calls -> CallRow \cup {Idle}]
      /\ call'[c] = x /\ \A d \in Calls : d # c => call'[d] = call[d]
  BY <1>3, CallRows, CallSet DEF Inv
<1>5. ASSUME s \in reset' \/ user'[i] = NoUser PROVE CallOK(c)'
  BY <1>1, <1>2, <1>3, <1>4, <1>5 DEF CallOK, RecoveryCallOK, InsertOK, SweepOK
<1>6. CASE user[i] = NoUser
  <2>1. UNCHANGED <<user, reset>>
    BY <1>6 DEF CompleteUpdate
  <2>2. InsertsGoOn
    BY <1>3, <1>4, <2>1, NoInsert
  <2> QED BY <1>2, <1>4, <1>5, <1>6, <2>1, <2>2, OnlyCalls
<1>7. CASE user[i] # NoUser
  <2> PICK y : y = [user[i] EXCEPT !.bypass = call[c].pair]
    OBVIOUS
  <2>1. user' = [user EXCEPT ![i] = y] /\ reset' = reset \cup {s}
    BY <1>7 DEF CompleteUpdate
  <2>2. Real(i) /\ user[i] \in RealUser
    BY <1>1, <1>7, Users DEF Inv, SessionOK
  <2>3. y \in RealUser /\ y.public = user[i].public /\ y.byrec = user[i].byrec /\ y.bypass = call[c].pair
    BY <1>1, <2>2, UserFields
  <2>4. InsertsGoOn
    BY <1>3, <1>4, <1>7, <2>1, NobodyInserts
  <2>5. /\ Frame /\ OrphanWalletsAreLate'
        /\ user' \in [Ids -> RealUser \cup Shells \cup {NoUser}]
        /\ user'[i] = y /\ \A j \in Ids : j # i => user'[j] = user[j]
    BY <1>2, <1>7, <2>1, <2>3, <2>4, OneUser DEF content
  <2>6. TypeOK'
    BY <1>2, <1>4, <2>1, <2>5 DEF Inv, TypeOK, content
  <2>7. RecoveryKeepsKeys'
    <3>1. i \notin mixed => y.bypass = y.public /\ y.byrec \in {y.public, None}
      BY <1>1, <1>7, <2>2, <2>3 DEF Inv, RecoveryKeepsKeys
    <3> QED BY <1>2, <2>5, <3>1 DEF Inv, RecoveryKeepsKeys, Real
  <2> QED BY <1>2, <1>4, <1>5, <2>1, <2>5, <2>6, <2>7, Assemble
<1> QED BY <1>6, <1>7

LEMMA AbandonCommitKeeps ==
    ASSUME Inv, NEW c \in Calls, AbandonCommit(c)
    PROVE  Inv'
<1>0. /\ call[c].op = "swept" /\ call[c] \in RecoveryRow /\ RecoveryCallOK(c) /\ SweepOK(c)
      /\ call[c].user \in Ids /\ call[c].session \in Sessions /\ TypeOK
  BY Called, CallRows DEF AbandonCommit, Is, Inv, CallOK, Recovering
<1> PICK i \in Ids, s \in Sessions : i = call[c].user /\ s = call[c].session
  BY <1>0
<1> PICK D : D = call[c].doomed
  OBVIOUS
<1>1. /\ user' = [user EXCEPT ![i] = NoUser]
      /\ wallet' = [w \in Wallets |-> IF w \in D THEN None ELSE wallet[w]]
      /\ grant' = [g \in Grants |-> IF g \in D THEN NoRow ELSE grant[g]]
      /\ late' = late \ D
      /\ Dooms(c, "gone", {}) /\ asked' = asked
      /\ UNCHANGED <<now, session, key, mixed, reset>>
  BY DEF AbandonCommit, Dooms
<1>2. PICK x \in RecoveryRow :
        /\ call' = [call EXCEPT ![c] = x] /\ x.op = "gone" /\ x.user = i /\ x.session = s
  <2>1. "gone" \in Recovering /\ {} \in SUBSET (Grants \cup Wallets)
    BY DEF Recovering
  <2> QED BY <1>0, <1>1, <2>1, SweptSet
<1>3. /\ call' \in [Calls -> CallRow \cup {Idle}]
      /\ call'[c] = x /\ \A d \in Calls : d # c => call'[d] = call[d]
  BY <1>0, <1>2, CallRows, CallSet
<1>4. user'[i] = NoUser /\ \A j \in Ids : j # i => user'[j] = user[j]
  BY <1>0, <1>1 DEF TypeOK
<1>5. TypeOK'
  <2>1. user' \in [Ids -> RealUser \cup Shells \cup {NoUser}]
    BY <1>0, <1>1 DEF TypeOK
  <2>2. /\ wallet' \in [Wallets -> Ids \cup {None}] /\ grant' \in [Grants -> GrantRow \cup {NoRow}]
        /\ late' \subseteq Wallets
    BY <1>0, <1>1 DEF TypeOK
  <2> QED BY <1>0, <1>1, <1>3, <2>1, <2>2 DEF TypeOK
<1>6. CallOK(c)'
  BY <1>0, <1>1, <1>2, <1>3, <1>4 DEF CallOK, RecoveryCallOK, InsertOK, SweepOK, Recovering
<1>7. UsersGoOn
  <2>1. ASSUME NEW j \in Ids
        PROVE  /\ user[j] = NoUser => user'[j] = NoUser
               /\ Real(j) => \/ user'[j] = NoUser
                             \/ /\ Real(j)'
                                /\ j \notin mixed' => j \notin mixed /\ user'[j].public = user[j].public
    BY <1>1, <1>4 DEF Real
  <2> QED BY <2>1 DEF UsersGoOn
<1>8. InsertsGoOn
  <2>1. ASSUME NEW d \in Calls, call[d].op = "insert" PROVE user'[call[d].user] = NoUser
    <3>1. user[call[d].user] = NoUser /\ call[d].user \in Ids
      BY <2>1, Called, CallRows DEF Inv, CallOK, InsertOK
    <3> QED BY <1>4, <3>1
  <2> QED BY <1>2, <1>3, <2>1 DEF InsertsGoOn
<1>9. Frame
  BY <1>1, <1>7, <1>8 DEF Frame, SessionsGoOn, WalletsGoOn
<1>10. RecoveryKeepsKeys'
  BY <1>1, <1>4 DEF Inv, RecoveryKeepsKeys, Real
<1>11. OrphanWalletsAreLate'
  <2> SUFFICES ASSUME NEW w \in Wallets, wallet'[w] # None, user'[wallet'[w]] = NoUser
               PROVE  w \in late'
    BY DEF OrphanWalletsAreLate
  <2>1. w \notin D /\ wallet'[w] = wallet[w] /\ wallet[w] \in Ids
    BY <1>0, <1>1 DEF TypeOK
  <2>2. CASE wallet[w] = i
    BY <1>0, <1>1, <2>1, <2>2 DEF SweepOK
  <2>3. CASE wallet[w] # i
    BY <1>1, <1>4, <2>1, <2>3 DEF Inv, OrphanWalletsAreLate
  <2> QED BY <2>2, <2>3
<1> QED BY <1>1, <1>3, <1>5, <1>6, <1>9, <1>10, <1>11, Assemble

-----------------------------------------------------------------------------
(* Sessions *)

\* A session goes on for the same user; what changes in its row is given.
LEMMA OneSession ==
    ASSUME Inv, NEW s \in Sessions, NEW x \in SessionRow, session[s] # NoSession,
           session' = [session EXCEPT ![s] = x], x.user = session[s].user,
           UNCHANGED <<now, user, content, mixed, reset, late>>,
           call' \in [Calls -> CallRow \cup {Idle}],
           \A c \in Calls : call'[c] = call[c] \/ call'[c] = Idle,
           asked' = asked,
           x.status = "pending" => x.attempts < MaxAttempts,
           x.status = "consumed" => x.user # None /\ (s \in reset \/ user[x.user] = NoUser),
           x.task = "persist" => ~x.mailed,
           x.task = "send" \/ x.mailed => x.traced
    PROVE  Inv'
<1>1. /\ session' \in [Sessions -> SessionRow \cup {NoSession}]
      /\ session'[s] = x /\ \A t \in Sessions : t # s => session'[t] = session[t]
      /\ x # NoSession
  BY SessionRows DEF Inv, TypeOK
<1>2. TypeOK'
  BY <1>1 DEF Inv, TypeOK, content
<1>3. Frame
  <2>1. InsertsGoOn
    BY CallRows, NoInsert
  <2>2. SessionsGoOn
    BY <1>1 DEF SessionsGoOn
  <2> QED BY <2>1, <2>2 DEF Frame, UsersGoOn, WalletsGoOn, Real, content
<1>4. SessionOK(s)'
  BY <1>1 DEF Inv, SessionOK, Real
<1>5. RecoveryKeepsKeys' /\ OrphanWalletsAreLate'
  BY DEF Inv, RecoveryKeepsKeys, Real, OrphanWalletsAreLate, content
<1> QED BY <1>1, <1>2, <1>3, <1>4, <1>5, Assemble

LEMMA MarkConsumedKeeps ==
    ASSUME Inv, NEW c \in Calls, MarkConsumed(c)
    PROVE  Inv'
<1>0. /\ call[c].op \in {"updated", "gone"} /\ call[c] \in RecoveryRow /\ RecoveryCallOK(c)
      /\ call[c].user \in Ids /\ call[c].session \in Sessions
  BY Called, CallRows DEF MarkConsumed, Inv, CallOK, Recovering
<1> PICK i \in Ids, s \in Sessions : i = call[c].user /\ s = call[c].session
  BY <1>0
<1>1. /\ session[s] # NoSession /\ session[s].user = i /\ i # None
      /\ s \in reset \/ user[i] = NoUser
  BY <1>0, NoneAssumption DEF RecoveryCallOK, Recovering
<1>2. session[s] \in SessionRow
  BY <1>1, IdOfSession DEF Inv
<1> DEFINE o == session[s]
           x == [user |-> o.user, email |-> o.email, expires |-> o.expires, attempts |-> o.attempts,
                 status |-> "consumed", task |-> o.task, traced |-> o.traced, mailed |-> o.mailed]
<1>3. x \in SessionRow /\ [o EXCEPT !.status = "consumed"] = x
  BY <1>2 DEF SessionRow
<1>4. /\ session' = [session EXCEPT ![s] = x] /\ call' = [call EXCEPT ![c] = Idle] /\ asked' = asked
      /\ UNCHANGED <<now, user, content, mixed, reset, late>>
  BY <1>3 DEF MarkConsumed, Done
<1>5. x.user = i /\ x.status = "consumed" /\ x.task = o.task /\ x.mailed = o.mailed /\ x.traced = o.traced
  BY <1>1
<1> HIDE DEF x
<1>6. /\ call' \in [Calls -> CallRow \cup {Idle}]
      /\ \A d \in Calls : call'[d] = call[d] \/ call'[d] = Idle
  BY <1>4, CallSet DEF Inv
<1>7. /\ x.task = "persist" => ~x.mailed
      /\ x.task = "send" \/ x.mailed => x.traced
  BY <1>1, <1>5 DEF Inv, SessionOK
<1> QED BY <1>1, <1>3, <1>4, <1>5, <1>6, <1>7, OneSession

LEMMA RecordFailedAttemptKeeps ==
    ASSUME Inv, NEW c \in Calls, RecordFailedAttempt(c)
    PROVE  Inv'
<1>0. /\ call[c] \in RecoveryRow /\ RecoveryCallOK(c) /\ call[c].session \in Sessions
      /\ call[c].op = "words"
  BY Called, CallRows DEF RecordFailedAttempt, Is, Inv, CallOK, Recovering
<1> PICK s \in Sessions : s = call[c].session
  BY <1>0
<1>1. session[s] # NoSession /\ session[s].status = "pending" /\ session[s].attempts < MaxAttempts
  BY <1>0 DEF RecoveryCallOK, Recovering, RecordFailedAttempt, Inv, SessionOK
<1>2. session[s] \in SessionRow /\ session[s].attempts \in 0 .. MaxAttempts
  BY <1>1, IdOfSession, SessionRows DEF Inv
<1> PICK n, st : n = session[s].attempts + 1 /\ st = IF n >= MaxAttempts THEN "failed" ELSE session[s].status
  OBVIOUS
<1> DEFINE o == session[s]
           y == [user |-> o.user, email |-> o.email, expires |-> o.expires, attempts |-> n,
                 status |-> o.status, task |-> o.task, traced |-> o.traced, mailed |-> o.mailed]
           x == [user |-> o.user, email |-> o.email, expires |-> o.expires, attempts |-> n,
                 status |-> st, task |-> o.task, traced |-> o.traced, mailed |-> o.mailed]
<1>3. n \in 0 .. MaxAttempts /\ (st = "pending" => n < MaxAttempts) /\ st \in {"pending", "failed"}
  BY <1>1, <1>2, BoundsAssumption
<1>4. x \in SessionRow /\ [o EXCEPT !.attempts = n] = y /\ [y EXCEPT !.status = st] = x
  BY <1>2, <1>3 DEF SessionRow
<1>5. /\ session' = [session EXCEPT ![s].attempts = n, ![s].status = st]
      /\ UNCHANGED <<now, user, content, call, asked, mixed, reset, late>>
  BY DEF RecordFailedAttempt
<1>6. session' = [[session EXCEPT ![s] = [o EXCEPT !.attempts = n]]
                    EXCEPT ![s] = [[session EXCEPT ![s] = [o EXCEPT !.attempts = n]][s] EXCEPT !.status = st]]
  BY <1>5
<1>7. [session EXCEPT ![s] = [o EXCEPT !.attempts = n]][s] = y
  BY <1>4 DEF Inv, TypeOK
<1>8. /\ x.user = o.user /\ x.status = st /\ x.attempts = n /\ x.task = o.task
      /\ x.mailed = o.mailed /\ x.traced = o.traced
  OBVIOUS
<1> HIDE DEF x, y
<1>9. session' = [[session EXCEPT ![s] = y] EXCEPT ![s] = x]
  BY <1>4, <1>6, <1>7
<1>10. session' = [session EXCEPT ![s] = x]
  BY <1>9 DEF Inv, TypeOK
<1>11. /\ x.task = "persist" => ~x.mailed
       /\ x.task = "send" \/ x.mailed => x.traced
  BY <1>1, <1>8 DEF Inv, SessionOK
<1>12. call' \in [Calls -> CallRow \cup {Idle}]
  BY <1>5 DEF Inv, TypeOK
<1>13. x \in SessionRow /\ x.user = session[s].user
  BY <1>4, <1>8
<1>14. (x.status = "pending" => x.attempts < MaxAttempts) /\ x.status # "consumed"
  BY <1>3, <1>8
<1>15. \A d \in Calls : call'[d] = call[d] \/ call'[d] = Idle
  BY <1>5
<1> HIDE DEF o
<1> QED BY <1>1, <1>5, <1>10, <1>11, <1>12, <1>13, <1>14, <1>15, OneSession

LEMMA PersistTxKeeps ==
    ASSUME Inv, NEW s \in Sessions, NEW ok \in BOOLEAN, PersistTx(s, ok)
    PROVE  Inv'
<1> PICK k : k = IF ok THEN "send" ELSE "over"
  OBVIOUS
<1>1. /\ session[s] # NoSession /\ session[s].task = "persist"
      /\ session' = [session EXCEPT ![s].traced = ok, ![s].task = k]
      /\ UNCHANGED <<now, user, content, call, asked, mixed, reset, late>>
  BY DEF PersistTx, InTask
<1>2. session[s] \in SessionRow /\ k \in {"send", "over"} /\ (k = "send" => ok)
  BY <1>1, IdOfSession DEF Inv
<1> DEFINE o == session[s]
           y == [user |-> o.user, email |-> o.email, expires |-> o.expires, attempts |-> o.attempts,
                 status |-> o.status, task |-> o.task, traced |-> ok, mailed |-> o.mailed]
           x == [user |-> o.user, email |-> o.email, expires |-> o.expires, attempts |-> o.attempts,
                 status |-> o.status, task |-> k, traced |-> ok, mailed |-> o.mailed]
<1>3. x \in SessionRow /\ [y EXCEPT !.task = k] = x
  BY <1>2 DEF SessionRow
<1>4. [o EXCEPT !.traced = ok] = y
  BY <1>2 DEF SessionRow
<1>5. session' = [[session EXCEPT ![s] = [o EXCEPT !.traced = ok]]
                    EXCEPT ![s] = [[session EXCEPT ![s] = [o EXCEPT !.traced = ok]][s] EXCEPT !.task = k]]
  BY <1>1
<1>6. [session EXCEPT ![s] = [o EXCEPT !.traced = ok]][s] = y
  BY <1>4 DEF Inv, TypeOK
<1>7. x.user = o.user /\ x.status = o.status /\ x.attempts = o.attempts /\ x.task = k
  OBVIOUS
<1>8. (x.mailed <=> o.mailed) /\ (x.traced <=> ok)
  OBVIOUS
<1> HIDE DEF x, y
<1>9. session' = [[session EXCEPT ![s] = y] EXCEPT ![s] = x]
  BY <1>3, <1>4, <1>5, <1>6
<1>10. session' = [session EXCEPT ![s] = x]
  BY <1>9 DEF Inv, TypeOK
<1>11. ~o.mailed
  BY <1>1 DEF Inv, SessionOK
<1>12. /\ x.task = "persist" => ~x.mailed
       /\ x.task = "send" \/ x.mailed => x.traced
  BY <1>2, <1>7, <1>8, <1>11
<1>13. /\ x.status = "pending" => x.attempts < MaxAttempts
       /\ x.status = "consumed" => x.user # None /\ (s \in reset \/ user[x.user] = NoUser)
  BY <1>1, <1>7 DEF Inv, SessionOK
<1>14. call' \in [Calls -> CallRow \cup {Idle}] /\ \A d \in Calls : call'[d] = call[d] \/ call'[d] = Idle
  BY <1>1 DEF Inv, TypeOK
<1>15. x.user = session[s].user
  BY <1>7
<1> HIDE DEF o
<1> QED BY <1>1, <1>3, <1>10, <1>12, <1>13, <1>14, <1>15, OneSession

LEMMA TriggerRecoveryKeeps ==
    ASSUME Inv, NEW s \in Sessions, NEW ok \in BOOLEAN, TriggerRecovery(s, ok)
    PROVE  Inv'
<1>1. /\ session[s] # NoSession /\ session[s].task = "send"
      /\ session' = [session EXCEPT ![s].mailed = ok, ![s].task = "over"]
      /\ UNCHANGED <<now, user, content, call, asked, mixed, reset, late>>
  BY DEF TriggerRecovery, InTask
<1>2. session[s] \in SessionRow
  BY <1>1, IdOfSession DEF Inv
<1> DEFINE o == session[s]
           y == [user |-> o.user, email |-> o.email, expires |-> o.expires, attempts |-> o.attempts,
                 status |-> o.status, task |-> o.task, traced |-> o.traced, mailed |-> ok]
           x == [user |-> o.user, email |-> o.email, expires |-> o.expires, attempts |-> o.attempts,
                 status |-> o.status, task |-> "over", traced |-> o.traced, mailed |-> ok]
<1>3. x \in SessionRow /\ [y EXCEPT !.task = "over"] = x
  BY <1>2 DEF SessionRow
<1>4. [o EXCEPT !.mailed = ok] = y
  BY <1>2 DEF SessionRow
<1>5. session' = [[session EXCEPT ![s] = [o EXCEPT !.mailed = ok]]
                    EXCEPT ![s] = [[session EXCEPT ![s] = [o EXCEPT !.mailed = ok]][s] EXCEPT !.task = "over"]]
  BY <1>1
<1>6. [session EXCEPT ![s] = [o EXCEPT !.mailed = ok]][s] = y
  BY <1>4 DEF Inv, TypeOK
<1>7. x.user = o.user /\ x.status = o.status /\ x.attempts = o.attempts /\ x.task = "over"
  OBVIOUS
<1>8. x.traced <=> o.traced
  OBVIOUS
<1> HIDE DEF x, y
<1>9. session' = [[session EXCEPT ![s] = y] EXCEPT ![s] = x]
  BY <1>3, <1>4, <1>5, <1>6
<1>10. session' = [session EXCEPT ![s] = x]
  BY <1>9 DEF Inv, TypeOK
<1>11. o.traced
  BY <1>1 DEF Inv, SessionOK
<1>12. x.task # "persist" /\ x.traced
  BY <1>7, <1>8, <1>11
<1>13. /\ x.status = "pending" => x.attempts < MaxAttempts
       /\ x.status = "consumed" => x.user # None /\ (s \in reset \/ user[x.user] = NoUser)
  BY <1>1, <1>7 DEF Inv, SessionOK
<1>14. call' \in [Calls -> CallRow \cup {Idle}] /\ \A d \in Calls : call'[d] = call[d] \/ call'[d] = Idle
  BY <1>1 DEF Inv, TypeOK
<1>15. x.user = session[s].user
  BY <1>7
<1> HIDE DEF o
<1> QED BY <1>1, <1>3, <1>10, <1>12, <1>13, <1>14, <1>15, OneSession

\* Steps of the sessions that leave the accounts alone.
LEMMA OnlySessions ==
    ASSUME Inv, session' \in [Sessions -> SessionRow \cup {NoSession}], SessionsGoOn,
           \A s \in Sessions : session'[s] = session[s] \/ SessionOK(s)',
           UNCHANGED <<user, content, mixed, reset, late>>, now' \in Nat,
           call' \in [Calls -> CallRow \cup {Idle}],
           \A c \in Calls : call'[c] = call[c] \/ call'[c] = Idle,
           asked' = asked \/ (asked < MaxCalls /\ asked' = asked + 1)
    PROVE  Inv'
<1>1. TypeOK'
  BY AskedTyped DEF Inv, TypeOK, content
<1>2. Frame
  <2>1. InsertsGoOn
    BY CallRows, NoInsert
  <2> QED BY <2>1 DEF Frame, UsersGoOn, WalletsGoOn, Real, content
<1>3. RecoveryKeepsKeys' /\ OrphanWalletsAreLate'
  BY DEF Inv, RecoveryKeepsKeys, Real, OrphanWalletsAreLate, content
<1> QED BY <1>1, <1>2, <1>3, Assemble

LEMMA StartSessionKeeps ==
    ASSUME Inv, NEW s \in Sessions, NEW a \in Subs, StartSession(s, a)
    PROVE  Inv'
<1> DEFINE known == {i \in RowsOf(a) : ~user[i].system}
<1> PICK i \in IF known = {} THEN {None} ELSE known :
      session' = [session EXCEPT ![s] =
            [user |-> i, email |-> a, expires |-> now + Ttl, attempts |-> 0, status |-> "pending",
             task |-> IF i = None THEN "over" ELSE "persist",
             traced |-> FALSE, mailed |-> FALSE]]
  BY DEF StartSession
<1> DEFINE x == [user |-> i, email |-> a, expires |-> now + Ttl, attempts |-> 0, status |-> "pending",
                 task |-> IF i = None THEN "over" ELSE "persist", traced |-> FALSE, mailed |-> FALSE]
<1>1. /\ session[s] = NoSession /\ asked < MaxCalls /\ asked' = asked + 1
      /\ UNCHANGED <<now, user, content, call, mixed, reset, late>>
  BY DEF StartSession
<1>2. i = None \/ (i \in Ids /\ user[i] # NoUser /\ Real(i))
  BY Users DEF Inv, RowsOf, Real
<1>3. x \in SessionRow
  BY <1>2, BoundsAssumption DEF SessionRow, Inv, TypeOK
<1>4. /\ x.user = i /\ x.status = "pending" /\ x.attempts = 0 /\ x.task # "send"
      /\ ~x.mailed
  OBVIOUS
<1> HIDE DEF x
<1>5. /\ session' \in [Sessions -> SessionRow \cup {NoSession}]
      /\ session'[s] = x /\ \A t \in Sessions : t # s => session'[t] = session[t]
  BY <1>3 DEF Inv, TypeOK, x
<1>6. SessionOK(s)'
  BY <1>1, <1>2, <1>4, <1>5, BoundsAssumption DEF SessionOK, Real
<1>7. SessionsGoOn
  BY <1>1, <1>2, <1>4, <1>5 DEF SessionsGoOn
<1>8. call' \in [Calls -> CallRow \cup {Idle}] /\ now' \in Nat
  BY <1>1 DEF Inv, TypeOK
<1> QED BY <1>1, <1>5, <1>6, <1>7, <1>8, OnlySessions

LEMMA ExpirePendingKeeps ==
    ASSUME Inv, ExpirePending
    PROVE  Inv'
<1> DEFINE over == {s \in Sessions : session[s].status = "pending" /\ ~Open(s)}
<1>1. /\ session' = [s \in Sessions |->
             IF s \in over THEN [session[s] EXCEPT !.status = "expired"] ELSE session[s]]
      /\ UNCHANGED <<now, user, content, call, asked, mixed, reset, late>>
  BY DEF ExpirePending
<1>2. ASSUME NEW s \in Sessions, s \in over
      PROVE  /\ session[s] # NoSession /\ session'[s] \in SessionRow
             /\ session'[s].user = session[s].user /\ SessionOK(s)'
  <2>1. session[s] # NoSession /\ session[s] \in SessionRow /\ session[s].status = "pending"
    BY <1>2, SessionRows DEF Inv, TypeOK
  <2> DEFINE o == session[s]
             x == [user |-> o.user, email |-> o.email, expires |-> o.expires, attempts |-> o.attempts,
                   status |-> "expired", task |-> o.task, traced |-> o.traced, mailed |-> o.mailed]
  <2>2. x \in SessionRow /\ [o EXCEPT !.status = "expired"] = x
    BY <2>1 DEF SessionRow
  <2>3. x.user = o.user /\ x.status = "expired" /\ x.task = o.task
    OBVIOUS
  <2>4. (x.traced <=> o.traced) /\ (x.mailed <=> o.mailed)
    OBVIOUS
  <2>5. session'[s] = x
    BY <1>1, <1>2, <2>2
  <2> HIDE DEF x
  <2>6. SessionOK(s)'
    BY <1>1, <2>1, <2>3, <2>4, <2>5 DEF Inv, SessionOK, Real
  <2> QED BY <2>1, <2>2, <2>3, <2>5, <2>6
<1>3. \A s \in Sessions : s \notin over => session'[s] = session[s]
  BY <1>1
<1> HIDE DEF over
<1>4. session' \in [Sessions -> SessionRow \cup {NoSession}]
  <2>1. \A s \in Sessions : session'[s] \in SessionRow \cup {NoSession}
    BY <1>2, <1>3 DEF Inv, TypeOK
  <2> QED BY <1>1, <2>1
<1>5. SessionsGoOn
  BY <1>2, <1>3, SessionRows DEF SessionsGoOn
<1>6. /\ call' \in [Calls -> CallRow \cup {Idle}] /\ now' \in Nat
      /\ \A c \in Calls : call'[c] = call[c] \/ call'[c] = Idle
  BY <1>1 DEF Inv, TypeOK
<1> QED BY <1>1, <1>2, <1>3, <1>4, <1>5, <1>6, OnlySessions

LEMMA CrashKeeps ==
    ASSUME Inv, Crash
    PROVE  Inv'
<1>1. /\ call' = [c \in Calls |-> Idle]
      /\ session' = [s \in Sessions |->
           IF session[s] = NoSession THEN NoSession ELSE [session[s] EXCEPT !.task = "over"]]
      /\ UNCHANGED <<now, user, content, asked, mixed, reset, late>>
  BY DEF Crash
<1>2. ASSUME NEW s \in Sessions, session[s] # NoSession
      PROVE  /\ session'[s] \in SessionRow
             /\ session'[s].user = session[s].user /\ SessionOK(s)'
  <2>1. session[s] \in SessionRow
    BY <1>2 DEF Inv, TypeOK
  <2> DEFINE o == session[s]
             x == [user |-> o.user, email |-> o.email, expires |-> o.expires, attempts |-> o.attempts,
                   status |-> o.status, task |-> "over", traced |-> o.traced, mailed |-> o.mailed]
  <2>2. x \in SessionRow /\ [o EXCEPT !.task = "over"] = x
    BY <2>1 DEF SessionRow
  <2>3. x.user = o.user /\ x.status = o.status /\ x.task = "over" /\ x.attempts = o.attempts
    OBVIOUS
  <2>4. (x.traced <=> o.traced) /\ (x.mailed <=> o.mailed)
    OBVIOUS
  <2>5. session'[s] = x
    BY <1>1, <1>2, <2>2
  <2> HIDE DEF x
  <2>6. SessionOK(s)'
    BY <1>1, <1>2, <2>3, <2>4, <2>5 DEF Inv, SessionOK, Real
  <2> QED BY <2>2, <2>3, <2>5, <2>6
<1>3. \A s \in Sessions : session[s] = NoSession => session'[s] = NoSession
  BY <1>1
<1>4. session' \in [Sessions -> SessionRow \cup {NoSession}]
  <2>1. \A s \in Sessions : session'[s] \in SessionRow \cup {NoSession}
    BY <1>2, <1>3
  <2> QED BY <1>1, <2>1
<1>5. SessionsGoOn
  BY <1>2, <1>3, SessionRows DEF SessionsGoOn
<1>6. /\ call' \in [Calls -> CallRow \cup {Idle}] /\ now' \in Nat
      /\ \A c \in Calls : call'[c] = call[c] \/ call'[c] = Idle
  BY <1>1 DEF Inv, TypeOK
<1> QED BY <1>1, <1>2, <1>3, <1>4, <1>5, <1>6, OnlySessions

LEMMA TickKeeps ==
    ASSUME Inv, Tick
    PROVE  Inv'
<1>1. now' = now + 1 /\ UNCHANGED <<user, session, content, call, asked, mixed, reset, late>>
  BY DEF Tick
<1>2. session' \in [Sessions -> SessionRow \cup {NoSession}] /\ SessionsGoOn
      /\ call' \in [Calls -> CallRow \cup {Idle}] /\ now' \in Nat
  BY <1>1 DEF Inv, TypeOK, SessionsGoOn
<1> QED BY <1>1, <1>2, OnlySessions

-----------------------------------------------------------------------------
(* The invariant holds *)

LEMMA InitEstablishes ==
    ASSUME Init
    PROVE  Inv
<1>1. TypeOK
  <2>1. 0 \in 0 .. MaxCalls
    BY BoundsAssumption
  <2> QED BY <2>1, RowsAssumption DEF Init, TypeOK
<1>2. \A s \in Sessions : SessionOK(s)
  BY DEF Init, SessionOK
<1>3. \A c \in Calls : CallOK(c)
  BY CallRows DEF Init, CallOK, RecoveryCallOK, InsertOK, SweepOK, Recovering
<1>4. RecoveryKeepsKeys
  BY RowsAssumption DEF Init, RecoveryKeepsKeys, Real
<1>5. OrphanWalletsAreLate
  BY RowsAssumption DEF Init, OrphanWalletsAreLate
<1> QED BY <1>1, <1>2, <1>3, <1>4, <1>5 DEF Inv

LEMMA StutterKeeps ==
    ASSUME Inv, UNCHANGED vars
    PROVE  Inv'
<1>1. /\ UNCHANGED <<now, user, session, content, mixed, reset, late>> /\ call' = call /\ asked' = asked
  BY DEF vars
<1>2. session' \in [Sessions -> SessionRow \cup {NoSession}] /\ SessionsGoOn
      /\ call' \in [Calls -> CallRow \cup {Idle}] /\ now' \in Nat
  BY <1>1 DEF Inv, TypeOK, SessionsGoOn
<1> QED BY <1>1, <1>2, OnlySessions

LEMMA CallStepKeeps ==
    ASSUME Inv, NEW c \in Calls, AccountRoutes(c) \/ ContentRoutes(c) \/ RecoveryRoutes(c) \/ Fail(c)
    PROVE  Inv'
<1>1. CASE AccountRoutes(c)
  <2>1. ASSUME NEW a \in Subs, NEW i \in Ids, AskBootstrap(c, a, i) PROVE Inv'
    BY <2>1, AskBootstrapKeeps
  <2>2. ASSUME NEW a \in Subs, NEW i \in Ids, NEW op \in {"passphrase", "recovery"}, GetCrypto(c, a, i, op)
        PROVE  Inv'
    BY <2>2, GetCryptoKeeps
  <2>3. ASSUME NEW a \in Subs, NEW i \in Ids, NEW op \in {"wallet", "grant", "key"}, AskContent(c, a, i, op)
        PROVE  Inv'
    BY <2>3, AskContentKeeps
  <2>4. ASSUME InsertBootstrap(c) \/ ConvertSystemUser(c) PROVE Inv'
    BY <2>4, InsertBootstrapKeeps, ConvertKeeps
  <2>5. ASSUME NEW i \in Ids, ChangePassphrase(c, i) \/ RenewRecovery(c, i) PROVE Inv'
    BY <2>5, SignedInKeeps
  <2> QED BY <1>1, <2>1, <2>2, <2>3, <2>4, <2>5 DEF AccountRoutes
<1>2. CASE ContentRoutes(c)
  <2>1. ASSUME NEW w \in Wallets, NEW g \in Grants, CreateWallet(c, w, g) PROVE Inv'
    BY <2>1, CreateWalletKeeps
  <2>4. ASSUME NEW w \in Wallets, NEW a \in Subs, NEW i \in Ids, NEW j \in Ids, AskTransfer(c, a, i, w, j)
        PROVE  Inv'
    BY <2>4, AskTransferKeeps
  <2>2. ASSUME NEW w \in Wallets, NEW g \in Grants, NEW j \in Ids, CreateGrant(c, w, j, g) PROVE Inv'
    BY <2>2, CreateGrantKeeps
  <2>3. ASSUME NEW w \in Wallets, NEW k \in Keys, CreateApiKey(c, w, k) PROVE Inv'
    BY <2>3, CreateApiKeyKeeps
  <2> QED BY <1>2, <2>1, <2>2, <2>3, <2>4, TransferKeeps DEF ContentRoutes
<1>3. CASE RecoveryRoutes(c)
  <2>1. ASSUME NEW s \in Sessions, GetBlobs(c, s) \/ AskAbandon(c, s) PROVE Inv'
    BY <2>1, GetBlobsKeeps, AskAbandonKeeps
  <2>2. ASSUME RecordFailedAttempt(c) \/ CompleteCheck(c) \/ CompleteUpdate(c) \/ MarkConsumed(c)
        PROVE  Inv'
    BY <2>2, RecordFailedAttemptKeeps, CompleteCheckKeeps, CompleteUpdateKeeps, MarkConsumedKeeps
  <2>3. ASSUME AbandonSweep(c) \/ AbandonCommit(c) PROVE Inv'
    BY <2>3, AbandonSweepKeeps, AbandonCommitKeeps
  <2> QED BY <1>3, <2>1, <2>2, <2>3 DEF RecoveryRoutes
<1> QED BY <1>1, <1>2, <1>3, FailKeeps

LEMMA StepKeeps ==
    ASSUME Inv, [Next]_vars
    PROVE  Inv'
<1>1. ASSUME Tick \/ Crash \/ ExpirePending PROVE Inv'
  BY <1>1, TickKeeps, CrashKeeps, ExpirePendingKeeps
<1>2. ASSUME NEW a \in Subs, NEW i \in Ids, ResolveAdminUserId(a, i) PROVE Inv'
  BY <1>2, ResolveKeeps
<1>3. ASSUME NEW i \in Ids, NEW b \in BOOLEAN, SetDisabled(i, b) PROVE Inv'
  BY <1>3, SetDisabledKeeps
<1>4. ASSUME NEW s \in Sessions, NEW ok \in BOOLEAN, PersistTx(s, ok) \/ TriggerRecovery(s, ok) PROVE Inv'
  BY <1>4, PersistTxKeeps, TriggerRecoveryKeeps
<1>5. ASSUME NEW s \in Sessions, NEW a \in Subs, StartSession(s, a) PROVE Inv'
  BY <1>5, StartSessionKeeps
<1>6. ASSUME NEW c \in Calls, AccountRoutes(c) \/ ContentRoutes(c) \/ RecoveryRoutes(c) \/ Fail(c)
      PROVE  Inv'
  BY <1>6, CallStepKeeps
<1>7. ASSUME UNCHANGED vars PROVE Inv'
  BY <1>7, StutterKeeps
<1> QED BY <1>1, <1>2, <1>3, <1>4, <1>5, <1>6, <1>7 DEF Next, Mail

\* The strengthened invariant: rows of the types, sessions that are true to their
\* accounts, and calls whose reads still mean what they meant.
THEOREM Invariance == Spec => []Inv
<1>1. Init => Inv
  BY InitEstablishes
<1>2. Inv /\ [Next]_vars => Inv'
  BY StepKeeps
<1> QED BY <1>1, <1>2, PTL DEF Spec

\* Rows and calls have their types; failed attempts stop at the limit, whatever
\* browsers report them together (increment_attempts).
THEOREM RowsAreTyped == Spec => []TypeOK
<1>1. Inv => TypeOK
  BY DEF Inv
<1> QED BY <1>1, Invariance, PTL

\* No interleaving of recoveries, abandonments and bootstraps leaves an account
\* whose passphrase or words open another key pair than its own.
THEOREM RecoveryNeverMixesKeys == Spec => []RecoveryKeepsKeys
<1>1. Inv => RecoveryKeepsKeys
  BY DEF Inv
<1> QED BY <1>1, Invariance, PTL

\* complete_session consumes a session only after it wrote the new passphrase,
\* across every crash, or the account has gone.
THEOREM ConsumedSessionsAreDone == Spec => []ConsumedMeansDone
<1>1. Inv => ConsumedMeansDone
  BY SessionRows DEF Inv, ConsumedMeansDone, SessionOK
<1> QED BY <1>1, Invariance, PTL

\* abandon_account leaves no wallet behind but those that were inserted for the user,
\* or transferred to him, after it deleted his wallets and before it committed.
THEOREM AbandonTakesTheWallets == Spec => []OrphanWalletsAreLate
<1>1. Inv => OrphanWalletsAreLate
  BY DEF Inv
<1> QED BY <1>1, Invariance, PTL

\* _persist_tx_and_trigger never sends a mail whose identifier is not written.
THEOREM SentMailIsTraced == Spec => []MailIsTraced
<1>1. Inv => MailIsTraced
  BY DEF Inv, MailIsTraced, SessionOK
<1> QED BY <1>1, Invariance, PTL
=============================================================================
