--------------------------- MODULE SecretsProofs ---------------------------
(***************************************************************************)
(* What holds of the secrets for any number of wallets, of secrets, of      *)
(* calls in progress and of edits of the catalogue, for any page size, and  *)
(* for any moment at which a transaction of another call falls between two  *)
(* pages or between the checks of a call and its own transaction.           *)
(***************************************************************************)
EXTENDS Secrets, FiniteSetTheorems, SequenceTheorems, TLAPS

-----------------------------------------------------------------------------
(* The inductive invariant *)

\* What a call in progress was given, by operation.
CallsMade ==
    \A c \in Busy :
        /\ call[c].op \in {"create", "placeholder"} => call[c].name \in Names
        /\ call[c].op = "create" => call[c].type \in Types /\ call[c].schema \in Versions
        /\ call[c].op = "placeholder" => call[c].type = None /\ call[c].schema = None
        /\ call[c].op \notin {"create", "placeholder"} => call[c].id \in Ids
        /\ call[c].op = "assign" => call[c].type \in Types /\ call[c].schema \in Versions

\* The wallet of the link was compared when the call was checked.  The linked
\* secret may be gone since, and its identifier names no other one.
CallsLinked ==
    \A c \in Busy : call[c].link \in Live => secret[call[c].link].wallet = call[c].wallet

\* The last version told of a secret is not above the one of its row.
ToldIsOld == \A i \in Live : answers[i] # <<>> /\ Told(i) <= secret[i].version

\* What the reader of a list has received, of the secrets that nobody touched:
\* all those that its cursor has passed, each of them once.
Received(i) == \E k \in 1..Len(list.got) : list.got[k] = i
ReaderOnTrack ==
    list # NoList =>
        /\ list.old \subseteq InScope(list.wallet, list.scope)
        /\ \A k, l \in 1..Len(list.got) :
             list.got[k] = list.got[l] /\ list.got[k] \in list.old => k = l
        /\ \A i \in list.old : Received(i) <=> ~list.more \/ ~Before(i, list.cursor)

\* The catalogue, alone: RAW has a current version, and the current version of
\* every type exists and is one of that type.
CatalogueCoherent ==
    /\ current[Raw] # None
    /\ \A t \in Types : TypeExists(t) => VersionOf(current[t], t)
CatalogueInv == TypesTypeOK /\ CatalogueCoherent

LinkInv == LinksStayInWallet /\ CallsLinked
VersionInv == VersionsGrow /\ ToldIsOld
Inv == TypeOK /\ CallsMade /\ LinkInv /\ TypedSecretsReadable /\ VersionInv /\ ReaderOnTrack

-----------------------------------------------------------------------------
LEMMA LiveRow ==
    ASSUME TypeOK, NEW i \in Live
    PROVE  /\ i \in Ids /\ secret[i] \in Row /\ secret[i].wallet \in Wallets
           /\ secret[i].version \in Nat /\ secret[i].at \in Nat
BY DEF TypeOK, Live, Row

LEMMA InitInv == Init => Inv
<1> SUFFICES ASSUME Init PROVE Inv
  OBVIOUS
<1>1. secret \in [Ids -> Row \cup {NoRow}] /\ secret = Secret0
  BY RowsAssumption DEF Init
<1>2. answers \in [Ids -> Seq(Nat)] /\ \A i \in Ids : answers[i] = IF i \in Live THEN <<1>> ELSE <<>>
  BY DEF Init
<1>3. TypesTypeOK
  BY CatalogueAssumption DEF Init, TypesInit, TypesTypeOK
<1>4. TypeOK
  BY <1>1, <1>2, <1>3, BoundAssumption DEF Init, TypeOK
<1>5. CallsMade /\ CallsLinked /\ ReaderOnTrack
  BY DEF Init, CallsMade, CallsLinked, ReaderOnTrack, Busy
<1>6. ASSUME NEW i \in Live
      PROVE  /\ secret[i].version > 0
             /\ secret[i].link # None => secret[i].link \in In(secret[i].wallet)
             /\ secret[i].type = None <=> secret[i].schema = None
             /\ secret[i].type # None => VersionOf(secret[i].schema, secret[i].type)
  <2>1. i \in Ids /\ Secret0[i] # NoRow /\ secret[i] \in Row
    BY <1>1 DEF Live
  <2>2. /\ secret[i].version > 0
        /\ secret[i].link # None => Secret0[secret[i].link] # NoRow /\ Secret0[secret[i].link].wallet = secret[i].wallet
        /\ secret[i].type = None <=> secret[i].schema = None
        /\ secret[i].schema # None => Schema0[secret[i].schema] = secret[i].type
    BY <1>1, <2>1, RowsAssumption
  <2>3. secret[i].link # None => secret[i].link \in In(secret[i].wallet)
    BY <1>1, <2>1, <2>2 DEF In, Live, Row
  <2> QED BY <2>2, <2>3 DEF VersionOf, Init, TypesInit
<1>7. LinksStayInWallet /\ TypedSecretsReadable
  BY <1>6 DEF LinksStayInWallet, TypedSecretsReadable
<1>8. VersionsGrow
  BY <1>2 DEF VersionsGrow
<1>9. ToldIsOld
  <2> SUFFICES ASSUME NEW i \in Live PROVE answers[i] # <<>> /\ Told(i) <= secret[i].version
    BY DEF ToldIsOld
  <2>1. answers[i] = <<1>> /\ secret[i].version \in Nat
    BY <1>2, <1>4, LiveRow DEF Live
  <2> QED BY <1>6, <2>1 DEF Told
<1> QED BY <1>4, <1>5, <1>7, <1>8, <1>9 DEF Inv, LinkInv, VersionInv

-----------------------------------------------------------------------------
(* What a step must respect *)

\* The calls go on or end, and the secrets they speak of stay where they are.
LEMMA CallsRest ==
    ASSUME Inv, \A c \in Calls : call'[c] = call[c] \/ call'[c] = Idle,
           \A i \in Ids : Mentioned(i) /\ i \in Live' => i \in Live /\ secret'[i].wallet = secret[i].wallet
    PROVE  CallsMade' /\ CallsLinked'
<1>1. ASSUME NEW c \in Calls, call'[c] # Idle
      PROVE  c \in Busy /\ call'[c] = call[c]
  BY <1>1 DEF Busy
<1>2. CallsMade'
  BY <1>1 DEF Inv, CallsMade, Busy
<1>3. CallsLinked'
  <2> SUFFICES ASSUME NEW c \in Calls, call'[c] # Idle, call'[c].link \in Live'
               PROVE  secret'[call'[c].link].wallet = call'[c].wallet
    BY DEF CallsLinked, Busy
  <2>1. c \in Busy /\ call'[c] = call[c]
    BY <1>1
  <2>2. call[c].link \in Ids /\ Mentioned(call[c].link)
    BY <2>1 DEF Mentioned, Live
  <2> QED BY <2>1, <2>2 DEF Inv, LinkInv, CallsLinked
<1> QED BY <1>2, <1>3

\* The reader keeps what it was waiting for, when nothing of it is touched.
LEMMA ReaderRests ==
    ASSUME Inv, NEW I, Touch(I), \A i \in Live \ I : secret'[i] = secret[i]
    PROVE  ReaderOnTrack' /\ list' \in Listing \cup {NoList}
<1>1. CASE list = NoList
  BY <1>1 DEF Touch, ReaderOnTrack
<1>2. CASE list # NoList
  <2>1. list \in Listing /\ list' = [list EXCEPT !.old = @ \ I]
    BY <1>2 DEF Touch, Inv, TypeOK
  <2>2. /\ list' \in Listing /\ list'.old = list.old \ I /\ list'.got = list.got
        /\ list'.more = list.more /\ list'.cursor = list.cursor
        /\ list'.wallet = list.wallet /\ list'.scope = list.scope
    BY <2>1 DEF Listing
  <2>3. /\ list.old \subseteq InScope(list.wallet, list.scope)
        /\ \A k, l \in 1..Len(list.got) :
             list.got[k] = list.got[l] /\ list.got[k] \in list.old => k = l
        /\ \A i \in list.old : Received(i) <=> ~list.more \/ ~Before(i, list.cursor)
    BY <1>2 DEF Inv, ReaderOnTrack
  <2>4. ASSUME NEW i \in list.old, i \notin I
        PROVE  /\ secret'[i] = secret[i] /\ i \in InScope(list.wallet, list.scope)'
               /\ Received(i)' <=> Received(i)
               /\ Before(i, list.cursor)' <=> Before(i, list.cursor)
    <3>1. i \in Live
      BY <2>3 DEF InScope, In
    <3>2. secret'[i] = secret[i]
      BY <2>4, <3>1
    <3>3. i \in InScope(list.wallet, list.scope)'
      BY <2>2, <2>3, <3>1, <3>2 DEF InScope, In, Live
    <3>4. Received(i)' <=> Received(i)
      BY <2>2 DEF Received
    <3>5. Before(i, list.cursor)' <=> Before(i, list.cursor)
      BY <2>2, <3>2 DEF Before
    <3> QED BY <3>2, <3>3, <3>4, <3>5
  <2>5. ReaderOnTrack'
    <3>1. list'.old \subseteq InScope(list.wallet, list.scope)'
      BY <2>2, <2>4
    <3>2. \A k, l \in 1..Len(list'.got) :
             list'.got[k] = list'.got[l] /\ list'.got[k] \in list'.old => k = l
      BY <2>2, <2>3
    <3>3. \A i \in list'.old : Received(i)' <=> ~list'.more \/ ~Before(i, list.cursor)'
      BY <2>2, <2>3, <2>4
    <3> QED BY <3>1, <3>2, <3>3 DEF ReaderOnTrack
  <2> QED BY <2>2, <2>5
<1> QED BY <1>1, <1>2

LEMMA TypedKept ==
    ASSUME Inv, schema' = schema,
           \A i \in Live' :
              \/ i \in Live /\ secret'[i].type = secret[i].type /\ secret'[i].schema = secret[i].schema
              \/ secret'[i].type = None /\ secret'[i].schema = None
              \/ /\ secret'[i].type \in Types /\ secret'[i].schema \in Versions
                 /\ VersionOf(secret'[i].schema, secret'[i].type)
    PROVE  TypedSecretsReadable'
<1> SUFFICES ASSUME NEW i \in Live'
             PROVE  /\ secret'[i].type = None <=> secret'[i].schema = None
                    /\ secret'[i].type # None => schema[secret'[i].schema] = secret'[i].type
  BY DEF TypedSecretsReadable, VersionOf
<1> QED BY NoneIsNone DEF Inv, TypedSecretsReadable, VersionOf

Growing(q) == \A m, n \in DOMAIN q : m < n => q[m] < q[n]

\* A version that is above the last one may follow it.
LEMMA AppendGrows ==
    ASSUME NEW q \in Seq(Nat), Growing(q), q # <<>>, NEW v \in Nat, q[Len(q)] < v
    PROVE  /\ Append(q, v) \in Seq(Nat) /\ Append(q, v) # <<>>
           /\ Append(q, v)[Len(Append(q, v))] = v /\ Growing(Append(q, v))
<1> DEFINE r == Append(q, v)
<1>1. /\ r \in Seq(Nat) /\ r # <<>> /\ Len(r) = Len(q) + 1
      /\ \A k \in 1..Len(q) : r[k] = q[k]
      /\ r[Len(q) + 1] = v
  BY AppendProperties
<1>2. Len(q) \in Nat /\ Len(q) > 0
  BY EmptySeq
<1>3. DOMAIN q = 1..Len(q) /\ DOMAIN r = 1..(Len(q) + 1)
  BY <1>1
<1>4. ASSUME NEW m \in DOMAIN r, NEW n \in DOMAIN r, m < n PROVE r[m] < r[n]
  <2>1. m \in 1..Len(q) /\ r[m] = q[m] /\ q[m] \in Nat
    BY <1>1, <1>2, <1>3, <1>4
  <2>2. Len(q) \in DOMAIN q /\ q[Len(q)] \in Nat
    BY <1>2, <1>3
  <2>3. q[m] <= q[Len(q)]
    BY <1>2, <1>3, <2>1, <2>2 DEF Growing
  <2>4. CASE n = Len(q) + 1
    BY <1>1, <2>1, <2>2, <2>3, <2>4
  <2>5. CASE n # Len(q) + 1
    BY <1>1, <1>2, <1>3, <1>4, <2>1, <2>5 DEF Growing
  <2> QED BY <2>4, <2>5
<1> QED BY <1>1, <1>4 DEF Growing

\* The versions told and those of the rows, whatever becomes of each secret: it
\* is read or written by nobody, told a greater version that is the one of its
\* row, inserted, or removed.
VersionStep(i) ==
    \/ answers'[i] = answers[i] /\ (i \in Live' => i \in Live /\ secret[i].version <= secret'[i].version)
    \/ /\ i \in Live /\ secret'[i].version \in Nat /\ Told(i) < secret'[i].version
       /\ answers'[i] = Append(answers[i], secret'[i].version)
    \/ answers'[i] = <<1>> /\ secret'[i].version = 1
    \/ answers'[i] = <<>> /\ i \notin Live'

LEMMA VersionsStep ==
    ASSUME Inv, NEW i \in Ids, VersionStep(i), i \in Live' => secret'[i].version \in Nat
    PROVE  /\ answers'[i] \in Seq(Nat) /\ Growing(answers'[i])
           /\ i \in Live' => answers'[i] # <<>> /\ answers'[i][Len(answers'[i])] <= secret'[i].version
<1>1. answers[i] \in Seq(Nat) /\ Growing(answers[i])
  BY DEF Inv, TypeOK, VersionInv, VersionsGrow, Growing
<1>2. ASSUME i \in Live
      PROVE  /\ answers[i] # <<>> /\ answers[i][Len(answers[i])] <= secret[i].version
             /\ answers[i][Len(answers[i])] \in Nat /\ secret[i].version \in Nat
  <2>1. answers[i] # <<>> /\ Told(i) <= secret[i].version
    BY <1>2 DEF Inv, VersionInv, ToldIsOld
  <2>2. Len(answers[i]) \in 1..Len(answers[i])
    BY <1>1, <2>1
  <2>3. secret[i].version \in Nat
    BY <1>2, LiveRow DEF Inv
  <2> QED BY <1>1, <2>1, <2>2, <2>3 DEF Told
<1>3. CASE answers'[i] = answers[i] /\ (i \in Live' => i \in Live /\ secret[i].version <= secret'[i].version)
  BY <1>1, <1>2, <1>3
<1>4. CASE /\ i \in Live /\ secret'[i].version \in Nat /\ Told(i) < secret'[i].version
           /\ answers'[i] = Append(answers[i], secret'[i].version)
  <2>1. PICK v \in Nat : v = secret'[i].version
    BY <1>4
  <2>2. answers[i] # <<>> /\ answers[i][Len(answers[i])] < v
    BY <1>2, <1>4, <2>1 DEF Told
  <2>3. /\ Append(answers[i], v) \in Seq(Nat) /\ Append(answers[i], v) # <<>>
        /\ Append(answers[i], v)[Len(Append(answers[i], v))] = v
        /\ Growing(Append(answers[i], v))
    BY <1>1, <2>2, AppendGrows
  <2>4. answers'[i] = Append(answers[i], v) /\ v <= v
    BY <1>4, <2>1
  <2> QED BY <2>1, <2>3, <2>4
<1>5. CASE answers'[i] = <<1>> /\ secret'[i].version = 1
  BY <1>5 DEF Growing
<1>6. CASE answers'[i] = <<>> /\ i \notin Live'
  BY <1>6 DEF Growing
<1> QED BY <1>3, <1>4, <1>5, <1>6 DEF VersionStep

LEMMA VersionsKept ==
    ASSUME Inv, secret' \in [Ids -> Row \cup {NoRow}], answers' = [i \in Ids |-> answers'[i]],
           \A i \in Ids : VersionStep(i)
    PROVE  VersionInv' /\ answers' \in [Ids -> Seq(Nat)]
<1>1. ASSUME NEW i \in Ids
      PROVE  /\ answers'[i] \in Seq(Nat) /\ Growing(answers'[i])
             /\ i \in Live' => answers'[i] # <<>> /\ answers'[i][Len(answers'[i])] <= secret'[i].version
  <2>1. i \in Live' => secret'[i].version \in Nat
    BY DEF Live, Row
  <2> QED BY <2>1, VersionsStep
<1>2. answers' \in [Ids -> Seq(Nat)]
  BY <1>1
<1>3. VersionsGrow'
  BY <1>1 DEF VersionsGrow, Growing
<1>4. ToldIsOld'
  BY <1>1 DEF ToldIsOld, Told, Live
<1> QED BY <1>2, <1>3, <1>4 DEF VersionInv

LEMMA CallEnds ==
    ASSUME Inv, NEW c \in Calls, Done(c)
    PROVE  /\ call' \in [Calls -> Request \cup {Idle}]
           /\ \A d \in Calls : call'[d] = call[d] \/ call'[d] = Idle
           /\ TypesTypeOK' /\ schema' = schema /\ now' \in Nat /\ asked' \in Nat
BY DEF Inv, TypeOK, Done, typeVars, TypesTypeOK

LEMMA NoRowIsNone == ASSUME NEW r \in Row PROVE r # NoRow
BY NullAssumption DEF Row, NoRow

-----------------------------------------------------------------------------
(* The transactions *)

\* One row changes, in its wallet and with its link, and its version is told or not.
LEMMA RowChanges ==
    ASSUME Inv, NEW c \in Calls, Done(c), NEW i \in Live, NEW r \in Row,
           r.wallet = secret[i].wallet, r.link = secret[i].link,
           \/ r.type = secret[i].type /\ r.schema = secret[i].schema
           \/ r.type \in Types /\ r.schema \in Versions /\ VersionOf(r.schema, r.type),
           secret' = [secret EXCEPT ![i] = r], Touch({i}),
           \/ answers' = answers /\ secret[i].version <= r.version
           \/ answers' = [answers EXCEPT ![i] = Append(@, r.version)] /\ secret[i].version < r.version
    PROVE  Inv'
<1>1. /\ secret \in [Ids -> Row \cup {NoRow}] /\ answers \in [Ids -> Seq(Nat)]
      /\ i \in Ids /\ secret[i].version \in Nat
  BY LiveRow DEF Inv, TypeOK
<1>2. /\ secret' \in [Ids -> Row \cup {NoRow}] /\ secret'[i] = r
      /\ \A j \in Ids : j # i => secret'[j] = secret[j]
  BY <1>1
<1>3. Live' = Live
  BY <1>1, <1>2, NoRowIsNone DEF Live
<1>4. \A j \in Live : /\ secret'[j].wallet = secret[j].wallet /\ secret'[j].link = secret[j].link
  BY <1>2 DEF Live
<1>5. CallsMade' /\ CallsLinked'
  BY <1>3, <1>4, CallEnds, CallsRest
<1>6. ReaderOnTrack' /\ list' \in Listing \cup {NoList}
  BY <1>2, ReaderRests DEF Live
<1>7. LinksStayInWallet'
  <2> SUFFICES ASSUME NEW j \in Live, secret'[j].link # None
               PROVE  secret'[j].link \in Live /\ secret'[secret'[j].link].wallet = secret'[j].wallet
    BY <1>3 DEF LinksStayInWallet, In
  <2> QED BY <1>4 DEF Inv, LinkInv, LinksStayInWallet, In
<1>8. TypedSecretsReadable'
  BY <1>2, <1>3, CallEnds, TypedKept DEF Live
<1>9. VersionInv' /\ answers' \in [Ids -> Seq(Nat)]
  <2>1. Told(i) <= secret[i].version /\ Told(i) \in Nat
    <3>1. answers[i] # <<>> /\ Told(i) <= secret[i].version
      BY DEF Inv, VersionInv, ToldIsOld
    <3>2. Len(answers[i]) \in 1..Len(answers[i])
      BY <1>1, <3>1
    <3> QED BY <1>1, <3>1, <3>2 DEF Told
  <2>2. r.version \in Nat
    BY DEF Row
  <2>3. ASSUME NEW j \in Ids PROVE VersionStep(j)
    <3>1. CASE answers' = answers /\ secret[i].version <= r.version
      <4>1. j \in Live => secret[j].version <= secret'[j].version
        BY <1>1, <1>2, <3>1, LiveRow DEF Inv
      <4> QED BY <1>3, <3>1, <4>1 DEF VersionStep
    <3>2. CASE answers' = [answers EXCEPT ![i] = Append(@, r.version)] /\ secret[i].version < r.version
      <4>1. CASE j = i
        <5>1. Told(i) < r.version
          BY <1>1, <2>1, <2>2, <3>2
        <5> QED BY <1>1, <1>2, <2>2, <3>2, <4>1, <5>1 DEF VersionStep
      <4>2. CASE j # i
        <5>1. answers'[j] = answers[j] /\ secret'[j] = secret[j]
          BY <1>1, <1>2, <3>2, <4>2
        <5>2. j \in Live => secret[j].version <= secret'[j].version
          BY <5>1, LiveRow DEF Inv
        <5> QED BY <1>3, <5>1, <5>2 DEF VersionStep
      <4> QED BY <4>1, <4>2
    <3> QED BY <3>1, <3>2
  <2>4. answers' = [j \in Ids |-> answers'[j]]
    BY <1>1
  <2> QED BY <1>2, <2>3, <2>4, VersionsKept
<1>10. TypeOK'
  BY <1>2, <1>6, <1>9, CallEnds DEF TypeOK
<1> QED BY <1>5, <1>6, <1>7, <1>8, <1>9, <1>10 DEF Inv, LinkInv

\* Nothing was written.
LEMMA NothingWritten ==
    ASSUME Inv, NEW c \in Calls, Done(c), NEW I, Touch(I), UNCHANGED <<secret, answers>>
    PROVE  Inv'
<1>1. CallsMade' /\ CallsLinked'
  BY CallEnds, CallsRest DEF Live
<1>2. ReaderOnTrack' /\ list' \in Listing \cup {NoList}
  BY ReaderRests
<1>3. LinksStayInWallet' /\ VersionInv'
  BY DEF Inv, LinkInv, LinksStayInWallet, In, Live, VersionInv, VersionsGrow, ToldIsOld, Told
<1>4. TypedSecretsReadable'
  BY CallEnds DEF Inv, TypedSecretsReadable, Live, VersionOf
<1>5. TypeOK'
  BY <1>2, CallEnds DEF Inv, TypeOK
<1> QED BY <1>1, <1>2, <1>3, <1>4, <1>5 DEF Inv, LinkInv

\* What a write makes of a row.
Written(r, v) == [r EXCEPT !.version = v, !.placeholder = FALSE, !.at = now]

LEMMA WrittenIs ==
    ASSUME NEW r \in Row, NEW v \in Nat, now \in Nat
    PROVE  /\ Written(r, v) \in Row /\ Written(r, v).wallet = r.wallet /\ Written(r, v).link = r.link
           /\ Written(r, v).type = r.type /\ Written(r, v).schema = r.schema
           /\ Written(r, v).version = v
<1>1. Written(r, v) \in Row
  BY DEF Written, Row
<1> QED BY <1>1 DEF Written, Row

LEMMA WriteKeeps == ASSUME Inv, NEW c \in Calls, call[c].id \in Ids, Write(c) PROVE Inv'
<1> DEFINE i == call[c].id
           r == Written(secret[i], secret[i].version + 1)
<1>1. Touch({i}) /\ Done(c)
  BY DEF Write
<1>2. CASE i \in Live
  <2>1. secret[i] \in Row /\ secret[i].version \in Nat /\ now \in Nat
    BY <1>2, LiveRow DEF Inv, TypeOK
  <2>2. /\ r \in Row /\ r.wallet = secret[i].wallet /\ r.link = secret[i].link
        /\ r.type = secret[i].type /\ r.schema = secret[i].schema
        /\ r.version = secret[i].version + 1
    <3>1. secret[i].version + 1 \in Nat
      BY <2>1
    <3> QED BY <2>1, <3>1, WrittenIs
  <2>3. secret' = [secret EXCEPT ![i] = r]
    BY <1>2 DEF Write, Written, Inv, TypeOK
  <2>4. answers' = [answers EXCEPT ![i] = Append(@, r.version)]
    BY <1>2, <2>2 DEF Write
  <2>5. secret[i].version < r.version
    BY <2>1, <2>2
  <2> HIDE DEF r
  <2> QED BY <1>1, <1>2, <2>2, <2>3, <2>4, <2>5, RowChanges
<1>3. CASE i \notin Live
  <2>1. UNCHANGED <<secret, answers>>
    BY <1>3 DEF Write
  <2> QED BY <1>1, <2>1, NothingWritten
<1> QED BY <1>2, <1>3

\* The operation of a call in progress says what it carries.
LEMMA InProgress ==
    ASSUME Inv, NEW c \in Calls, call[c].op # "idle"
    PROVE  /\ c \in Busy /\ call[c] \in Request
           /\ call[c].op \in {"create", "placeholder"} => call[c].name \in Names
           /\ call[c].op = "create" => call[c].type \in Types /\ call[c].schema \in Versions
           /\ call[c].op = "placeholder" => call[c].type = None /\ call[c].schema = None
           /\ call[c].op \notin {"create", "placeholder"} => call[c].id \in Ids
           /\ call[c].op = "assign" => call[c].type \in Types /\ call[c].schema \in Versions
BY DEF Inv, TypeOK, CallsMade, Busy, Idle

LEMMA PatchKeeps ==
    ASSUME Inv, NEW c \in Calls, NEW b \in BOOLEAN, Patch(c, b) PROVE Inv'
<1> DEFINE i == call[c].id
           r == [secret[i] EXCEPT !.at = now]
<1>1. /\ Done(c) /\ answers' = answers
      /\ secret' = IF i \in Live /\ b THEN [secret EXCEPT ![i].at = now] ELSE secret
      /\ Touch(IF b THEN {i} ELSE {})
  BY DEF Patch
<1>2. CASE i \in Live /\ b
  <2>1. secret[i] \in Row /\ secret[i].version \in Nat /\ now \in Nat
    BY <1>2, LiveRow DEF Inv, TypeOK
  <2>2. r \in Row
    BY <2>1 DEF Row
  <2>3. /\ r.wallet = secret[i].wallet /\ r.link = secret[i].link
        /\ r.type = secret[i].type /\ r.schema = secret[i].schema
        /\ secret[i].version <= r.version
    BY <2>1 DEF Row
  <2>4. secret' = [secret EXCEPT ![i] = r] /\ Touch({i})
    BY <1>1, <1>2
  <2> HIDE DEF r
  <2> QED BY <1>1, <1>2, <2>2, <2>3, <2>4, RowChanges
<1>3. CASE ~(i \in Live /\ b)
  <2>1. UNCHANGED <<secret, answers>>
    BY <1>1, <1>3
  <2> QED BY <1>1, <2>1, NothingWritten
<1> QED BY <1>2, <1>3

\* The row of a secret that gets another type.
Assigned(r, t, s, v) == [r EXCEPT !.type = t, !.schema = s, !.version = v, !.at = now]

LEMMA AssignedIs ==
    ASSUME NEW r \in Row, NEW t \in Types, NEW s \in Versions, NEW v \in Nat, now \in Nat
    PROVE  /\ Assigned(r, t, s, v) \in Row /\ Assigned(r, t, s, v).wallet = r.wallet
           /\ Assigned(r, t, s, v).link = r.link /\ Assigned(r, t, s, v).version = v
           /\ Assigned(r, t, s, v).type = t /\ Assigned(r, t, s, v).schema = s
<1>1. Assigned(r, t, s, v) \in Row
  BY DEF Assigned, Row
<1> QED BY <1>1 DEF Assigned, Row

LEMMA AssignTypeKeeps == ASSUME Inv, NEW c \in Calls, AssignType(c) PROVE Inv'
<1> DEFINE i == call[c].id
           t == call[c].type
           s == call[c].schema
           r == Assigned(secret[i], t, s, secret[i].version + 1)
<1>1. /\ Done(c) /\ answers' = answers /\ Touch({i}) /\ i \in Live /\ VersionOf(s, t)
      /\ call[c].op = "assign"
      /\ secret' = [secret EXCEPT ![i].type = t, ![i].schema = s,
                                  ![i].version = @ + 1, ![i].at = now]
  BY DEF AssignType
<1>2. t \in Types /\ s \in Versions
  BY <1>1, InProgress
<1>3. /\ secret[i] \in Row /\ secret[i].version \in Nat /\ now \in Nat
      /\ secret[i].version + 1 \in Nat
  BY <1>1, LiveRow DEF Inv, TypeOK
<1>4. /\ r \in Row /\ r.wallet = secret[i].wallet /\ r.link = secret[i].link
      /\ r.type = t /\ r.schema = s /\ r.version = secret[i].version + 1
  BY <1>2, <1>3, AssignedIs
<1>5. secret' = [secret EXCEPT ![i] = r]
  BY <1>1 DEF Assigned, Inv, TypeOK
<1>6. secret[i].version <= r.version
  BY <1>3, <1>4
<1> HIDE DEF r
<1> QED BY <1>1, <1>2, <1>4, <1>5, <1>6, RowChanges

LEMMA FailKeeps == ASSUME Inv, NEW c \in Calls, Fail(c) PROVE Inv'
<1>1. Touch({})
  <2>1. CASE list = NoList
    BY <2>1 DEF Touch, Fail
  <2>2. CASE list # NoList
    <3>1. list \in Listing
      BY <2>2 DEF Inv, TypeOK
    <3>2. list = [list EXCEPT !.old = @ \ {}]
      BY <3>1 DEF Listing
    <3> QED BY <2>2, <3>2 DEF Touch, Fail
  <2> QED BY <2>1, <2>2
<1> QED BY <1>1, NothingWritten DEF Fail

\* A row on an identifier that nobody speaks of.
LEMMA InsertKeeps ==
    ASSUME Inv, NEW c \in Calls, NEW i \in Ids, call[c].op \in {"create", "placeholder"},
           Insert(c, i)
    PROVE  Inv'
<1> DEFINE q == call[c]
           r == NewRow(q.wallet, q.name, q.op = "placeholder", q.link, q.type, q.schema)
<1>1. /\ i \notin Live /\ ~Mentioned(i)
      /\ q.link \in Live \cup {None} /\ (q.type # None => VersionOf(q.schema, q.type))
      /\ secret' = [secret EXCEPT ![i] = r]
      /\ answers' = [answers EXCEPT ![i] = <<1>>] /\ Touch({i}) /\ Done(c)
  BY DEF Insert, Fresh, Insertable
<1>2. /\ c \in Busy /\ q \in Request /\ q.name \in Names
      /\ q.op = "create" => q.type \in Types /\ q.schema \in Versions
      /\ q.op = "placeholder" => q.type = None /\ q.schema = None
  BY InProgress
<1>3. /\ r \in Row /\ r.wallet = q.wallet /\ r.link = q.link /\ r.version = 1
      /\ r.type = q.type /\ r.schema = q.schema
  BY <1>2 DEF NewRow, Row, Request, Inv, TypeOK
<1> HIDE DEF r
<1>4. secret \in [Ids -> Row \cup {NoRow}] /\ answers \in [Ids -> Seq(Nat)]
  BY DEF Inv, TypeOK
<1>5. /\ secret' \in [Ids -> Row \cup {NoRow}] /\ secret'[i] = r
      /\ \A j \in Ids : j # i => secret'[j] = secret[j]
  BY <1>1, <1>3, <1>4
<1>6. Live' = Live \cup {i}
  BY <1>3, <1>4, <1>5, NoRowIsNone DEF Live
<1>7. CallsMade' /\ CallsLinked'
  BY <1>1, <1>5, <1>6, CallEnds, CallsRest
<1>8. ReaderOnTrack' /\ list' \in Listing \cup {NoList}
  BY <1>1, <1>5, ReaderRests DEF Live
<1>9. LinksStayInWallet'
  <2> SUFFICES ASSUME NEW j \in Live', secret'[j].link # None
               PROVE  secret'[j].link \in Live' /\ secret'[secret'[j].link].wallet = secret'[j].wallet
    BY DEF LinksStayInWallet, In
  <2>1. CASE j = i
    <3>1. q.link \in Live /\ q.link \in Ids /\ q.link # i
      BY <1>1, <1>3, <1>5, <2>1 DEF Live
    <3>2. secret[q.link].wallet = q.wallet
      BY <1>2, <3>1 DEF Inv, LinkInv, CallsLinked
    <3> QED BY <1>3, <1>5, <1>6, <2>1, <3>1, <3>2
  <2>2. CASE j # i
    <3>1. j \in Live /\ secret'[j] = secret[j]
      BY <1>5, <1>6, <2>2 DEF Live
    <3>2. /\ secret[j].link \in Live /\ secret[j].link \in Ids
          /\ secret[secret[j].link].wallet = secret[j].wallet
      BY <3>1 DEF Inv, LinkInv, LinksStayInWallet, In, Live
    <3> QED BY <1>1, <1>5, <1>6, <3>1, <3>2
  <2> QED BY <2>1, <2>2
<1>10. TypedSecretsReadable'
  <2>1. \A j \in Live' : j # i => j \in Live /\ secret'[j] = secret[j]
    BY <1>5, <1>6 DEF Live
  <2>2. \/ r.type = None /\ r.schema = None
        \/ r.type \in Types /\ r.schema \in Versions /\ VersionOf(r.schema, r.type)
    BY <1>1, <1>2, <1>3, NoneIsNone
  <2> QED BY <1>1, <1>5, <2>1, <2>2, CallEnds, TypedKept
<1>11. VersionInv' /\ answers' \in [Ids -> Seq(Nat)]
  <2>1. ASSUME NEW j \in Ids PROVE VersionStep(j)
    <3>1. CASE j = i
      BY <1>1, <1>3, <1>4, <1>5, <3>1 DEF VersionStep
    <3>2. CASE j # i
      <4>1. answers'[j] = answers[j] /\ secret'[j] = secret[j]
        BY <1>1, <1>4, <1>5, <3>2
      <4>2. j \in Live => secret[j].version <= secret'[j].version
        BY <4>1, LiveRow DEF Inv
      <4> QED BY <1>6, <3>2, <4>1, <4>2 DEF VersionStep
    <3> QED BY <3>1, <3>2
  <2>2. answers' = [j \in Ids |-> answers'[j]]
    BY <1>1, <1>4
  <2> QED BY <1>5, <2>1, <2>2, VersionsKept
<1>12. TypeOK'
  BY <1>1, <1>5, <1>8, <1>11, CallEnds DEF TypeOK
<1> QED BY <1>7, <1>8, <1>9, <1>10, <1>11, <1>12 DEF Inv, LinkInv

\* The calls end or go on, and the catalogue is left alone.
Framed ==
    /\ call' \in [Calls -> Request \cup {Idle}]
    /\ \A d \in Calls : call'[d] = call[d] \/ call'[d] = Idle
    /\ TypesTypeOK' /\ schema' = schema /\ now' \in Nat /\ asked' \in Nat

\* Rows go away together, and the links to them are cut.
LEMMA RemoveKeeps ==
    ASSUME Inv, Framed, NEW I \in SUBSET Ids, Remove(I) PROVE Inv'
<1>1. /\ secret' = Without(I) /\ Touch(I \cup Linked(I))
      /\ answers' = [i \in Ids |-> IF i \in I THEN <<>> ELSE answers[i]]
  BY DEF Remove
<1>2. secret \in [Ids -> Row \cup {NoRow}] /\ answers \in [Ids -> Seq(Nat)] /\ now \in Nat
  BY DEF Inv, TypeOK
<1> DEFINE Cut(r) == [r EXCEPT !.link = None, !.at = now]
<1>3. ASSUME NEW j \in Linked(I)
      PROVE  /\ j \in Live /\ Cut(secret[j]) \in Row /\ Cut(secret[j]).wallet = secret[j].wallet
             /\ Cut(secret[j]).link = None /\ Cut(secret[j]).version = secret[j].version
             /\ Cut(secret[j]).type = secret[j].type /\ Cut(secret[j]).schema = secret[j].schema
  <2>1. j \in Live /\ secret[j] \in Row
    BY LiveRow DEF Linked, Inv
  <2>2. Cut(secret[j]) \in Row
    BY <1>2, <2>1 DEF Row
  <2> QED BY <2>1, <2>2 DEF Row
<1>4. /\ \A j \in Ids : j \in I => secret'[j] = NoRow
      /\ \A j \in Ids : j \notin I /\ j \in Linked(I) => secret'[j] = Cut(secret[j])
      /\ \A j \in Ids : j \notin I /\ j \notin Linked(I) => secret'[j] = secret[j]
      /\ secret' = [j \in Ids |-> secret'[j]]
  BY <1>1 DEF Without, Linked
<1> HIDE DEF Cut
<1>5. secret' \in [Ids -> Row \cup {NoRow}]
  BY <1>2, <1>3, <1>4
<1>6. Live' = Live \ I
  BY <1>3, <1>4, NoRowIsNone DEF Live
<1>7. ASSUME NEW j \in Live'
      PROVE  /\ j \in Live /\ j \notin I /\ j \in Ids
             /\ secret'[j].wallet = secret[j].wallet /\ secret'[j].version = secret[j].version
             /\ secret'[j].type = secret[j].type /\ secret'[j].schema = secret[j].schema
             /\ secret'[j].link = None \/ (secret'[j].link = secret[j].link /\ secret[j].link \notin I)
  <2>1. j \in Live /\ j \notin I /\ j \in Ids
    BY <1>6 DEF Live
  <2>2. CASE j \in Linked(I)
    BY <1>3, <1>4, <2>1, <2>2
  <2>3. CASE j \notin Linked(I)
    BY <1>4, <2>1, <2>3 DEF Linked
  <2> QED BY <2>1, <2>2, <2>3
<1>8. CallsMade' /\ CallsLinked'
  BY <1>7, CallsRest DEF Framed
<1>9. ReaderOnTrack' /\ list' \in Listing \cup {NoList}
  <2>1. \A j \in Live \ (I \cup Linked(I)) : secret'[j] = secret[j]
    BY <1>4 DEF Live
  <2> QED BY <1>1, <2>1, ReaderRests
<1>10. LinksStayInWallet'
  <2> SUFFICES ASSUME NEW j \in Live', secret'[j].link # None
               PROVE  secret'[j].link \in Live' /\ secret'[secret'[j].link].wallet = secret'[j].wallet
    BY DEF LinksStayInWallet, In
  <2>1. j \in Live /\ secret'[j].link = secret[j].link /\ secret[j].link \notin I
    BY <1>7
  <2>2. secret[j].link \in Live /\ secret[secret[j].link].wallet = secret[j].wallet
    BY <2>1 DEF Inv, LinkInv, LinksStayInWallet, In
  <2>3. secret[j].link \in Live'
    BY <1>6, <2>1, <2>2
  <2> QED BY <1>7, <2>1, <2>2, <2>3
<1>11. TypedSecretsReadable'
  BY <1>7, TypedKept DEF Framed
<1>12. VersionInv' /\ answers' \in [Ids -> Seq(Nat)]
  <2>1. ASSUME NEW j \in Ids PROVE VersionStep(j)
    <3>1. CASE j \in I
      BY <1>1, <1>6, <3>1 DEF VersionStep
    <3>2. CASE j \notin I
      <4>1. answers'[j] = answers[j]
        BY <1>1, <3>2
      <4>2. j \in Live' => j \in Live /\ secret[j].version <= secret'[j].version
        <5> SUFFICES ASSUME j \in Live' PROVE j \in Live /\ secret[j].version <= secret'[j].version
          OBVIOUS
        <5>1. j \in Live /\ secret'[j].version = secret[j].version
          BY <1>7
        <5>2. secret[j].version \in Nat
          BY <5>1, LiveRow DEF Inv
        <5> QED BY <5>1, <5>2
      <4> QED BY <4>1, <4>2 DEF VersionStep
    <3> QED BY <3>1, <3>2
  <2>2. answers' = [j \in Ids |-> answers'[j]]
    BY <1>1
  <2> QED BY <1>5, <2>1, <2>2, VersionsKept
<1>13. TypeOK'
  BY <1>5, <1>9, <1>12 DEF TypeOK, Framed
<1> QED BY <1>8, <1>9, <1>10, <1>11, <1>12, <1>13 DEF Inv, LinkInv

LEMMA DeleteKeeps == ASSUME Inv, NEW c \in Calls, Delete(c) PROVE Inv'
<1>1. call[c].op = "delete" /\ Remove({call[c].id}) /\ Done(c)
  BY DEF Delete
<1>2. {call[c].id} \in SUBSET Ids
  BY <1>1, InProgress
<1>3. Framed
  BY <1>1, CallEnds DEF Framed
<1> QED BY <1>1, <1>2, <1>3, RemoveKeeps

LEMMA DeleteByPathKeeps ==
    ASSUME Inv, NEW w \in Wallets, NEW f \in Folders, DeleteByPath(w, f) PROVE Inv'
<1> DEFINE I == {i \in In(w) : secret[i].name \in Like[f]}
<1>1. I \in SUBSET Ids /\ Remove(I)
  BY DEF DeleteByPath, In, Live
<1>2. Framed
  BY DEF DeleteByPath, Framed, Count, Inv, TypeOK, typeVars, TypesTypeOK
<1> HIDE DEF I
<1> QED BY <1>1, <1>2, RemoveKeeps

LEMMA PurgeWalletKeeps ==
    ASSUME Inv, NEW w \in Wallets, PurgeWallet(w) PROVE Inv'
<1>1. In(w) \in SUBSET Ids /\ Remove(In(w))
  BY DEF PurgeWallet, In, Live
<1>2. Framed
  BY DEF PurgeWallet, Framed, Inv, TypeOK, typeVars, TypesTypeOK
<1> QED BY <1>1, <1>2, RemoveKeeps

\* A new wallet: its rows are linked among themselves, and nobody knows them yet.
LEMMA ImportWalletKeeps ==
    ASSUME Inv, NEW w \in Wallets, NEW N \in SUBSET Names,
           NEW at \in [N -> {i \in Ids : Fresh(i)}],
           NEW link \in [N -> {at[n] : n \in N} \cup {None}], ImportWallet(w, at, link)
    PROVE  Inv'
<1> DEFINE A == {at[n] : n \in N}
           Of(i) == CHOOSE m \in N : at[m] = i
           R(i) == NewRow(w, Of(i), TRUE, link[Of(i)], None, None)
<1>1. /\ secret' = [i \in Ids |-> IF \E n \in N : at[n] = i THEN R(i) ELSE secret[i]]
      /\ answers' = [i \in Ids |-> IF i \in A THEN <<1>> ELSE answers[i]]
      /\ asked' = asked + 1 /\ UNCHANGED <<typeVars, now, call, list>>
  BY DEF ImportWallet, Count
<1>2. secret \in [Ids -> Row \cup {NoRow}] /\ answers \in [Ids -> Seq(Nat)] /\ now \in Nat
  BY DEF Inv, TypeOK
<1>3. A \in SUBSET Ids /\ \A i \in A : Fresh(i) /\ i \notin Live /\ ~Mentioned(i)
  BY DEF Fresh
<1>4. ASSUME NEW i \in A PROVE Of(i) \in N /\ Of(i) \in Names /\ link[Of(i)] \in A \cup {None}
  <2>1. \E m \in N : at[m] = i
    OBVIOUS
  <2>2. Of(i) \in N
    BY <2>1
  <2> QED BY <2>2
<1> HIDE DEF Of
<1>5. ASSUME NEW i \in A
      PROVE  /\ R(i) \in Row /\ R(i).wallet = w /\ R(i).version = 1
             /\ R(i).type = None /\ R(i).schema = None /\ R(i).link \in A \cup {None}
  <2>1. link[Of(i)] \in Ids \cup {None} /\ Of(i) \in Names
    BY <1>3, <1>4
  <2> QED BY <1>2, <1>4, <2>1 DEF NewRow, Row
<1>6. /\ \A i \in A : secret'[i] = R(i)
      /\ \A i \in Ids : i \notin A => secret'[i] = secret[i]
      /\ secret' = [i \in Ids |-> secret'[i]]
  BY <1>1, <1>3
<1> HIDE DEF R, A
<1>7. secret' \in [Ids -> Row \cup {NoRow}]
  BY <1>2, <1>3, <1>5, <1>6
<1>8. Live' = Live \cup A
  BY <1>2, <1>3, <1>5, <1>6, NoRowIsNone DEF Live
<1>9. \A j \in Live : j \notin A /\ j \in Ids /\ secret'[j] = secret[j]
  BY <1>3, <1>6 DEF Live
<1>10. CallsMade' /\ CallsLinked'
  BY <1>1, <1>3, <1>8, <1>9, CallsRest
<1>11. ReaderOnTrack' /\ list' \in Listing \cup {NoList}
  <2>1. CASE list = NoList
    BY <1>1, <2>1 DEF ReaderOnTrack
  <2>2. CASE list # NoList
    <3>1. list \in Listing /\ list' = list
      BY <1>1, <2>2 DEF Inv, TypeOK
    <3>2. list = [list EXCEPT !.old = @ \ {}]
      BY <3>1 DEF Listing
    <3>3. Touch({})
      BY <2>2, <3>1, <3>2 DEF Touch
    <3> QED BY <1>9, <3>3, ReaderRests
  <2> QED BY <2>1, <2>2
<1>12. LinksStayInWallet'
  <2> SUFFICES ASSUME NEW j \in Live', secret'[j].link # None
               PROVE  secret'[j].link \in Live' /\ secret'[secret'[j].link].wallet = secret'[j].wallet
    BY DEF LinksStayInWallet, In
  <2>1. CASE j \in A
    BY <1>5, <1>6, <1>8, <2>1
  <2>2. CASE j \notin A
    <3>1. j \in Live /\ secret'[j] = secret[j]
      BY <1>8, <1>9, <2>2
    <3>2. secret[j].link \in Live /\ secret[secret[j].link].wallet = secret[j].wallet
      BY <2>2, <3>1 DEF Inv, LinkInv, LinksStayInWallet, In
    <3> QED BY <1>8, <1>9, <3>1, <3>2
  <2> QED BY <2>1, <2>2
<1>13. TypedSecretsReadable'
  <2>1. \A j \in Live' :
           \/ j \in Live /\ secret'[j] = secret[j]
           \/ secret'[j].type = None /\ secret'[j].schema = None
    BY <1>5, <1>6, <1>8, <1>9
  <2> QED BY <1>1, <2>1, TypedKept DEF typeVars
<1>14. VersionInv' /\ answers' \in [Ids -> Seq(Nat)]
  <2>1. ASSUME NEW j \in Ids PROVE VersionStep(j)
    <3>1. CASE j \in A
      BY <1>1, <1>5, <1>6, <3>1 DEF VersionStep
    <3>2. CASE j \notin A
      <4>1. answers'[j] = answers[j]
        BY <1>1, <3>2
      <4>2. j \in Live => secret[j].version <= secret'[j].version
        BY <1>9, LiveRow DEF Inv
      <4> QED BY <1>8, <3>2, <4>1, <4>2 DEF VersionStep
    <3> QED BY <3>1, <3>2
  <2>2. answers' = [j \in Ids |-> answers'[j]]
    BY <1>1
  <2> QED BY <1>7, <2>1, <2>2, VersionsKept
<1>15. TypeOK'
  BY <1>1, <1>7, <1>11, <1>14 DEF Inv, TypeOK, typeVars, TypesTypeOK
<1> QED BY <1>10, <1>11, <1>12, <1>13, <1>14, <1>15 DEF Inv, LinkInv

-----------------------------------------------------------------------------
(* The checks *)

\* No secret, no version told, no list: only the calls and the catalogue move.
LEMMA RowsRest ==
    ASSUME Inv, UNCHANGED <<secret, answers, list>>
    PROVE  LinksStayInWallet' /\ VersionInv' /\ ReaderOnTrack'
BY DEF Inv, LinkInv, LinksStayInWallet, In, Live, VersionInv, VersionsGrow, ToldIsOld, Told,
       ReaderOnTrack, InScope, Received, Before

LEMMA AskKeeps ==
    ASSUME Inv, NEW c \in Calls,
           NEW op \in {"create", "placeholder", "put", "patch", "delete", "populate", "assign"},
           NEW w \in Wallets, NEW i \in Ids \cup {None}, NEW n \in Names \cup {None},
           NEW l \in Ids \cup {None}, NEW t \in Types \cup {None}, NEW s \in Versions \cup {None},
           op \in {"create", "placeholder"} => n \in Names,
           op = "create" => t \in Types /\ s \in Versions,
           op = "placeholder" => t = None /\ s = None,
           op \notin {"create", "placeholder"} => i \in Ids,
           op = "assign" => t \in Types /\ s \in Versions,
           l \in Live => secret[l].wallet = w,
           Ask(c, op, w, i, n, l, t, s)
    PROVE  Inv'
<1> DEFINE q == [op |-> op, wallet |-> w, id |-> i, name |-> n, link |-> l, type |-> t, schema |-> s]
<1>1. /\ call' = [call EXCEPT ![c] = q] /\ asked' = asked + 1
      /\ UNCHANGED <<typeVars, now, secret, answers, list>>
  BY DEF Ask, Count
<1>2. /\ q \in Request /\ q.op = op /\ q.wallet = w /\ q.id = i /\ q.name = n
      /\ q.link = l /\ q.type = t /\ q.schema = s
  BY DEF Request
<1> HIDE DEF q
<1>3. /\ call' \in [Calls -> Request \cup {Idle}] /\ call'[c] = q
      /\ \A d \in Calls : d # c => call'[d] = call[d]
  BY <1>1, <1>2 DEF Inv, TypeOK
<1>4. CallsMade'
  <2> SUFFICES ASSUME NEW d \in Busy'
               PROVE  /\ call'[d].op \in {"create", "placeholder"} => call'[d].name \in Names
                      /\ call'[d].op = "create" => call'[d].type \in Types /\ call'[d].schema \in Versions
                      /\ call'[d].op = "placeholder" => call'[d].type = None /\ call'[d].schema = None
                      /\ call'[d].op \notin {"create", "placeholder"} => call'[d].id \in Ids
                      /\ call'[d].op = "assign" => call'[d].type \in Types /\ call'[d].schema \in Versions
    BY DEF CallsMade
  <2>1. CASE d = c
    BY <1>2, <1>3, <2>1
  <2>2. CASE d # c
    <3>1. d \in Busy /\ call'[d] = call[d]
      BY <1>3, <2>2 DEF Busy
    <3> QED BY <3>1 DEF Inv, CallsMade
  <2> QED BY <2>1, <2>2
<1>5. CallsLinked'
  <2> SUFFICES ASSUME NEW d \in Busy', call'[d].link \in Live
               PROVE  secret[call'[d].link].wallet = call'[d].wallet
    BY <1>1 DEF CallsLinked, Live
  <2>1. CASE d = c
    BY <1>2, <1>3, <2>1
  <2>2. CASE d # c
    <3>1. d \in Busy /\ call'[d] = call[d]
      BY <1>3, <2>2 DEF Busy
    <3> QED BY <3>1 DEF Inv, LinkInv, CallsLinked
  <2> QED BY <2>1, <2>2
<1>6. LinksStayInWallet' /\ VersionInv' /\ ReaderOnTrack'
  BY <1>1, RowsRest
<1>7. TypedSecretsReadable'
  BY <1>1 DEF Inv, TypedSecretsReadable, Live, VersionOf, typeVars
<1>8. TypeOK'
  BY <1>1, <1>3 DEF Inv, TypeOK, typeVars, TypesTypeOK
<1> QED BY <1>4, <1>5, <1>6, <1>7, <1>8 DEF Inv, LinkInv

\* A call about a row of the wallet.
LEMMA AskByIdKeeps ==
    ASSUME Inv, NEW c \in Calls, NEW w \in Wallets, NEW i \in Ids,
           \/ AskPutById(c, w, i) \/ AskPopulateById(c, w, i)
           \/ AskPatchById(c, w, i) \/ AskDeleteById(c, w, i)
           \/ \E t \in Types, v \in Versions : AskAssignById(c, w, i, t, v)
    PROVE  Inv'
<1>1. None \notin Live
  BY NullAssumption DEF Live
<1>2. CASE \/ AskPutById(c, w, i) \/ AskPopulateById(c, w, i)
           \/ AskPatchById(c, w, i) \/ AskDeleteById(c, w, i)
  <2>1. PICK op \in {"put", "populate", "patch", "delete"} : Ask(c, op, w, i, None, None, None, None)
    BY <1>2 DEF AskPutById, AskPopulateById, AskPatchById, AskDeleteById
  <2> QED BY <1>1, <2>1, AskKeeps
<1>3. CASE \E t \in Types, v \in Versions : AskAssignById(c, w, i, t, v)
  <2>1. PICK t \in Types, v \in Versions : Ask(c, "assign", w, i, None, None, t, v)
    BY <1>3 DEF AskAssignById
  <2> QED BY <1>1, <2>1, AskKeeps
<1> QED BY <1>2, <1>3

LEMMA RoutesKeep ==
    ASSUME Inv, CatalogueInv, NEW c \in Calls, NEW w \in Wallets, Routes(c, w) PROVE Inv'
<1>1. None \notin Live /\ Raw \in Types
  BY NullAssumption, CatalogueAssumption DEF Live
<1>2. ASSUME NEW n \in Names, BulkImportItem(c, w, n) PROVE Inv'
  <2>1. Ask(c, "create", w, None, n, None, Raw, current[Raw])
    BY <1>2 DEF BulkImportItem
  <2>2. current[Raw] \in Versions
    BY <1>1 DEF CatalogueInv, CatalogueCoherent, TypesTypeOK
  <2> QED BY <1>1, <2>1, <2>2, AskKeeps
<1>3. ASSUME NEW n \in Names, NEW l \in Ids \cup {None}, AskPlaceholder(c, w, n, l) PROVE Inv'
  <2>1. l \in In(w) \cup {None} /\ Ask(c, "placeholder", w, None, n, l, None, None)
    BY <1>3 DEF AskPlaceholder
  <2>2. l \in Live => secret[l].wallet = w
    BY <1>1, <2>1 DEF In
  <2> QED BY <2>1, <2>2, AskKeeps
<1>4. ASSUME NEW n \in Names,
             AskPut(c, w, n) \/ AskPopulate(c, w, n) \/ AskPatch(c, w, n) \/ AskDelete(c, w, n)
      PROVE  Inv'
  BY <1>4, AskByIdKeeps DEF AskPut, AskPopulate, AskPatch, AskDelete, Named, In, Live
<1>5. ASSUME NEW n \in Names, NEW t \in Types, NEW v \in Versions,
             AskCreate(c, w, n, t, v) \/ AskAssign(c, w, n, t, v)
      PROVE  Inv'
  <2>1. CASE AskCreate(c, w, n, t, v)
    <3>1. Ask(c, "create", w, None, n, None, t, v)
      BY <2>1 DEF AskCreate
    <3> QED BY <1>1, <3>1, AskKeeps
  <2>2. CASE AskAssign(c, w, n, t, v)
    BY <2>2, AskByIdKeeps DEF AskAssign, Named, In, Live
  <2> QED BY <1>5, <2>1, <2>2
<1>6. ASSUME NEW i \in Ids,
             \/ AskPutById(c, w, i) \/ AskPopulateById(c, w, i)
             \/ AskPatchById(c, w, i) \/ AskDeleteById(c, w, i)
             \/ \E t \in Types, v \in Versions : AskAssignById(c, w, i, t, v)
      PROVE  Inv'
  BY <1>6, AskByIdKeeps
<1> QED BY <1>2, <1>3, <1>4, <1>5, <1>6 DEF Routes

-----------------------------------------------------------------------------
(* The catalogue *)

LEMMA CatalogueInit == Init => CatalogueInv
BY CatalogueAssumption
   DEF Init, TypesInit, CatalogueInv, TypesTypeOK, CatalogueCoherent, TypeExists, VersionOf

LEMMA CatalogueRoutes == ASSUME CatalogueInv, EditRoutes PROVE CatalogueInv'
<1> USE NoneIsNone, CatalogueAssumption
<1>1. ASSUME NEW t \in Types, NEW v \in Versions, CreateType(t, v) PROVE CatalogueInv'
  BY <1>1 DEF CreateType, FreshVersion, CatalogueInv, TypesTypeOK, CatalogueCoherent, TypeExists,
              VersionOf
<1>2. ASSUME NEW t \in Types, NEW v \in Versions, NEW b \in BOOLEAN, AddVersion(t, v, b)
      PROVE  CatalogueInv'
  BY <1>2 DEF AddVersion, FreshVersion, CatalogueInv, TypesTypeOK, CatalogueCoherent, TypeExists,
              VersionOf
<1>3. ASSUME NEW t \in Types, NEW v \in Versions, NEW e \in Edits,
             AskCurrent(e, t, v) \/ AskDrop(e, t, v)
      PROVE  CatalogueInv'
  <2>1. PICK op \in {"current", "drop"} : AskEdit(e, op, t, v)
    BY <1>3 DEF AskCurrent, AskDrop
  <2>2. [op |-> op, type |-> t, version |-> v] \in Edit
    BY DEF Edit
  <2> QED BY <2>1, <2>2 DEF AskEdit, CatalogueInv, TypesTypeOK, CatalogueCoherent, TypeExists,
                            VersionOf
<1>4. ASSUME NEW t \in Types, Deprecate(t) PROVE CatalogueInv'
  BY <1>4 DEF Deprecate, CatalogueInv, TypesTypeOK, CatalogueCoherent, TypeExists, VersionOf
<1> QED BY <1>1, <1>2, <1>3, <1>4 DEF EditRoutes

LEMMA CatalogueStatement ==
    ASSUME CatalogueInv, NEW used, EditStatement(used) PROVE CatalogueInv'
<1> USE NoneIsNone, CatalogueAssumption
<1>1. ASSUME NEW e \in Edits, SetCurrent(e) PROVE CatalogueInv'
  <2>1. edit[e].op = "current" /\ edit[e] \in Edit \cup {NoEdit}
    BY <1>1 DEF SetCurrent, CatalogueInv, TypesTypeOK
  <2>2. edit[e].type \in Types /\ edit[e].version \in Versions
    BY <2>1 DEF Edit, NoEdit
  <2> QED BY <1>1, <2>2 DEF SetCurrent, Close, CatalogueInv, TypesTypeOK, CatalogueCoherent,
                            TypeExists, VersionOf
<1>2. ASSUME NEW e \in Edits, DropVersion(e, used) PROVE CatalogueInv'
  <2>1. edit[e].op = "drop" /\ edit[e] \in Edit \cup {NoEdit}
    BY <1>2 DEF DropVersion, CatalogueInv, TypesTypeOK
  <2>2. edit[e].version \in Versions
    BY <2>1 DEF Edit, NoEdit
  <2> QED BY <1>2, <2>2 DEF DropVersion, Close, CatalogueInv, TypesTypeOK, CatalogueCoherent,
                            TypeExists, VersionOf
<1>3. ASSUME NEW e \in Edits, EditFails(e) PROVE CatalogueInv'
  BY <1>3 DEF EditFails, Close, CatalogueInv, TypesTypeOK, CatalogueCoherent, TypeExists, VersionOf
<1> QED BY <1>1, <1>2, <1>3 DEF EditStatement

\* A version that a secret refers to is neither taken for another type nor dropped.
LEMMA VersionsInUse ==
    ASSUME TypesTypeOK, EditRoutes \/ EditStatement(Used), NEW v \in Used, NEW t \in Types,
           v \in Versions, VersionOf(v, t)
    PROVE  schema'[v] = schema[v]
<1>1. CASE EditRoutes
  BY <1>1, NoneIsNone DEF EditRoutes, CreateType, AddVersion, AskCurrent, AskDrop, AskEdit,
     Deprecate, FreshVersion, VersionOf, TypesTypeOK
<1>2. CASE EditStatement(Used)
  BY <1>2 DEF EditStatement, SetCurrent, DropVersion, EditFails, TypesTypeOK
<1> QED BY <1>1, <1>2

LEMMA EditionKeeps == ASSUME Inv, CatalogueInv, Edition PROVE Inv'
<1>1. /\ UNCHANGED <<now, secret, call, answers, list>>
      /\ asked' \in Nat
      /\ EditRoutes \/ EditStatement(Used)
  BY DEF Edition, Count, secretVars, Inv, TypeOK
<1>2. CatalogueInv'
  BY <1>1, CatalogueRoutes, CatalogueStatement
<1>3. CallsMade' /\ CallsLinked'
  BY <1>1, CallsRest DEF Live
<1>4. LinksStayInWallet' /\ VersionInv' /\ ReaderOnTrack'
  BY <1>1, RowsRest
<1>5. TypedSecretsReadable'
  <2> SUFFICES ASSUME NEW i \in Live
               PROVE  /\ secret[i].type = None <=> secret[i].schema = None
                      /\ secret[i].type # None => schema'[secret[i].schema] = secret[i].type
    BY <1>1 DEF TypedSecretsReadable, Live, VersionOf
  <2>1. /\ secret[i].type = None <=> secret[i].schema = None
        /\ secret[i].type # None => VersionOf(secret[i].schema, secret[i].type)
        /\ secret[i].type \in Types \cup {None} /\ secret[i].schema \in Versions \cup {None}
    BY LiveRow DEF Inv, TypedSecretsReadable, Row
  <2>2. ASSUME secret[i].type # None PROVE schema'[secret[i].schema] = secret[i].type
    <3>1. secret[i].schema \in Used
      BY <2>1, <2>2 DEF Used
    <3>2. schema'[secret[i].schema] = schema[secret[i].schema]
      BY <1>1, <2>1, <2>2, <3>1, VersionsInUse DEF CatalogueInv
    <3> QED BY <2>1, <2>2, <3>2 DEF VersionOf
  <2> QED BY <2>1, <2>2
<1>6. TypeOK'
  BY <1>1, <1>2 DEF Inv, TypeOK, CatalogueInv
<1> QED BY <1>3, <1>4, <1>5, <1>6 DEF Inv, LinkInv

LEMMA TickKeeps == ASSUME Inv, Tick PROVE Inv'
<1>1. /\ now' = now + 1 /\ UNCHANGED <<typeVars, secret, call, answers, asked, list>>
  BY DEF Tick, secretVars
<1>2. CallsMade' /\ CallsLinked'
  BY <1>1, CallsRest DEF Live
<1>3. LinksStayInWallet' /\ VersionInv' /\ ReaderOnTrack'
  BY <1>1, RowsRest
<1>4. TypedSecretsReadable' /\ TypeOK'
  BY <1>1 DEF Inv, TypedSecretsReadable, Live, VersionOf, typeVars, TypeOK, TypesTypeOK
<1> QED BY <1>2, <1>3, <1>4 DEF Inv, LinkInv

-----------------------------------------------------------------------------
(* The reads *)

LEMMA AnswerKeeps ==
    ASSUME Inv, NEW I \in SUBSET Live, Answer(I), UNCHANGED secret
    PROVE  VersionInv' /\ answers' \in [Ids -> Seq(Nat)]
<1>1. answers' = [i \in Ids |-> IF i \in I /\ Told(i) # secret[i].version
                                  THEN Append(answers[i], secret[i].version) ELSE answers[i]]
  BY DEF Answer
<1>2. ASSUME NEW i \in Ids PROVE VersionStep(i)
  <2>1. ASSUME i \in Live
        PROVE  /\ secret[i].version \in Nat /\ Told(i) \in Nat /\ Told(i) <= secret[i].version
    <3>1. answers[i] # <<>> /\ Told(i) <= secret[i].version
      BY <2>1 DEF Inv, VersionInv, ToldIsOld
    <3>2. answers[i] \in Seq(Nat)
      BY DEF Inv, TypeOK
    <3>3. Len(answers[i]) \in 1..Len(answers[i])
      BY <3>1, <3>2
    <3> QED BY <2>1, <3>1, <3>2, <3>3, LiveRow DEF Told, Inv
  <2>2. CASE i \in I /\ Told(i) # secret[i].version
    <3>1. Told(i) < secret[i].version
      BY <2>1, <2>2
    <3> QED BY <1>1, <2>1, <2>2, <3>1 DEF VersionStep
  <2>3. CASE ~(i \in I /\ Told(i) # secret[i].version)
    <3>1. answers'[i] = answers[i]
      BY <1>1, <2>3
    <3>2. i \in Live' => i \in Live
      BY DEF Live
    <3>3. i \in Live => secret[i].version <= secret'[i].version
      BY <2>1
    <3> QED BY <3>1, <3>2, <3>3 DEF VersionStep
  <2> QED BY <2>2, <2>3
<1>3. answers' = [i \in Ids |-> answers'[i]]
  BY <1>1
<1>4. secret' \in [Ids -> Row \cup {NoRow}]
  BY DEF Inv, TypeOK
<1> QED BY <1>2, <1>3, <1>4, VersionsKept

\* A step that only reads rows, for a client or for a list.
LEMMA OnlyRead ==
    ASSUME Inv, NEW I \in SUBSET Live, Answer(I), UNCHANGED <<typeVars, now, secret, call, asked>>,
           ReaderOnTrack', list' \in Listing \cup {NoList}
    PROVE  Inv'
<1>1. VersionInv' /\ answers' \in [Ids -> Seq(Nat)]
  BY AnswerKeeps
<1>2. CallsMade' /\ CallsLinked'
  BY CallsRest DEF Live
<1>3. LinksStayInWallet' /\ TypedSecretsReadable'
  BY DEF Inv, LinkInv, LinksStayInWallet, In, Live, TypedSecretsReadable, VersionOf, typeVars
<1>4. TypeOK'
  BY <1>1 DEF Inv, TypeOK, typeVars, TypesTypeOK
<1> QED BY <1>1, <1>2, <1>3, <1>4 DEF Inv, LinkInv

LEMMA ReadsKeep == ASSUME Inv, NEW w \in Wallets, Reads(w) PROVE Inv'
<1>1. PICK I \in SUBSET Live : Read(I)
  BY DEF Reads, GetSecretById, GetDescriptorById, GetSecret, GetDescriptor, ExportWallet, Named, In
<1>2. ReaderOnTrack' /\ list' \in Listing \cup {NoList}
  BY <1>1 DEF Read, Inv, TypeOK, ReaderOnTrack, InScope, In, Live, Received, Before
<1> QED BY <1>1, <1>2, OnlyRead DEF Read

-----------------------------------------------------------------------------
(* The list *)

LEMMA StartListKeeps ==
    ASSUME Inv, NEW w \in Wallets, NEW S \in Scopes, StartList(w, S) PROVE Inv'
<1> DEFINE l == [wallet |-> w, scope |-> S, more |-> TRUE, cursor |-> <<>>,
                 old |-> InScope(w, S), got |-> <<>>]
<1>1. list' = l /\ asked' = asked + 1 /\ UNCHANGED <<typeVars, now, secret, call, answers>>
  BY DEF StartList, Count, secretVars
<1>2. InScope(w, S) \subseteq Ids
  BY DEF InScope, In, Live
<1>3. /\ l \in Listing /\ l.old = InScope(w, S) /\ l.got = <<>> /\ l.more = TRUE
      /\ l.cursor = <<>> /\ l.wallet = w /\ l.scope = S
  <2>1. \A T : <<>> \in Seq(T)
    BY EmptySeq
  <2> QED BY <1>2, <2>1 DEF Listing
<1> HIDE DEF l
<1>4. ReaderOnTrack'
  <2>1. list'.old \subseteq InScope(list.wallet, list.scope)'
    BY <1>1, <1>3 DEF InScope, In, Live
  <2>2. Len(list'.got) = 0
    BY <1>1, <1>3
  <2>3. \A i : ~Received(i)'
    BY <2>2 DEF Received
  <2>4. \A i : Before(i, list.cursor)'
    BY <1>1, <1>3 DEF Before
  <2> QED BY <1>1, <1>3, <2>1, <2>2, <2>3, <2>4 DEF ReaderOnTrack
<1>5. CallsMade' /\ CallsLinked'
  BY <1>1, CallsRest DEF Live
<1>6. LinksStayInWallet' /\ VersionInv' /\ TypedSecretsReadable'
  BY <1>1 DEF Inv, LinkInv, LinksStayInWallet, In, Live, VersionInv, VersionsGrow, ToldIsOld, Told,
              TypedSecretsReadable, VersionOf, typeVars
<1>7. TypeOK'
  BY <1>1, <1>3 DEF Inv, TypeOK, typeVars, TypesTypeOK
<1> QED BY <1>4, <1>5, <1>6, <1>7 DEF Inv, LinkInv

LEMMA EndListKeeps == ASSUME Inv, EndList PROVE Inv'
<1>1. list' = NoList /\ UNCHANGED <<typeVars, now, secret, call, answers, asked>>
  BY DEF EndList, secretVars
<1>2. ReaderOnTrack'
  BY <1>1 DEF ReaderOnTrack
<1>3. CallsMade' /\ CallsLinked'
  BY <1>1, CallsRest DEF Live
<1>4. LinksStayInWallet' /\ VersionInv' /\ TypedSecretsReadable'
  BY <1>1 DEF Inv, LinkInv, LinksStayInWallet, In, Live, VersionInv, VersionsGrow, ToldIsOld, Told,
              TypedSecretsReadable, VersionOf, typeVars
<1>5. TypeOK'
  BY <1>1 DEF Inv, TypeOK, typeVars, TypesTypeOK
<1> QED BY <1>2, <1>3, <1>4, <1>5 DEF Inv, LinkInv

\* The rank of a row among others is the number of rows that come before it.  No
\* two rows have the same, as (updated_at, id) is a strict total order.
Dated(I) == I \in SUBSET Ids /\ \A i \in I : secret[i].at \in Nat

LEMMA Ranks ==
    ASSUME NEW I, Dated(I)
    PROVE  /\ IsFiniteSet(I) /\ Cardinality(I) \in Nat
           /\ \A i \in I : Cardinality(After(i, I)) \in 0..(Cardinality(I) - 1)
           /\ \A i, j \in I : j \in After(i, I) => Cardinality(After(j, I)) < Cardinality(After(i, I))
           /\ \A i, j \in I : i # j => j \in After(i, I) \/ i \in After(j, I)
<1>1. IsFiniteSet(I) /\ Cardinality(I) \in Nat /\ I \subseteq Nat
  BY IdsAssumption, FS_Subset, FS_CardinalityType DEF Dated
<1>2. ASSUME NEW i \in I
      PROVE  /\ IsFiniteSet(After(i, I)) /\ Cardinality(After(i, I)) \in Nat
             /\ Cardinality(After(i, I)) <= Cardinality(I) - 1
  <2>1. i \notin After(i, I)
    BY <1>1 DEF After, Dated
  <2>2. After(i, I) \in SUBSET (I \ {i})
    BY <2>1 DEF After
  <2>3. IsFiniteSet(I \ {i}) /\ Cardinality(I \ {i}) = Cardinality(I) - 1
    BY <1>1, FS_RemoveElement
  <2> QED BY <2>2, <2>3, FS_Subset, FS_CardinalityType
<1>3. ASSUME NEW i \in I, NEW j \in I, j \in After(i, I)
      PROVE  Cardinality(After(j, I)) < Cardinality(After(i, I))
  <2>1. /\ \A k \in I : secret[k].at \in Nat /\ k \in Nat
        /\ j \notin After(j, I)
    BY <1>1 DEF After, Dated
  <2>2. After(j, I) \in SUBSET After(i, I)
    BY <1>3, <2>1 DEF After
  <2>3. Cardinality(After(j, I)) <= Cardinality(After(i, I)) /\ Cardinality(After(j, I)) # Cardinality(After(i, I))
    BY <1>2, <1>3, <2>1, <2>2, FS_Subset
  <2> QED BY <1>2, <2>3
<1>4. \A i, j \in I : i # j => j \in After(i, I) \/ i \in After(j, I)
  BY <1>1 DEF After, Dated
<1>5. \A i \in I : Cardinality(After(i, I)) \in 0..(Cardinality(I) - 1)
  BY <1>1, <1>2
<1> QED BY <1>1, <1>3, <1>4, <1>5

\* Hence every rank is taken, and the rows come in this order.
LEMMA Sorting ==
    ASSUME NEW I, Dated(I)
    PROVE  /\ Len(Sorted(I)) = Cardinality(I)
           /\ \A k \in 1..Cardinality(I) : Sorted(I)[k] \in I /\ Cardinality(After(Sorted(I)[k], I)) = k - 1
           /\ \A i \in I : Sorted(I)[Cardinality(After(i, I)) + 1] = i
<1> DEFINE Rank(i) == Cardinality(After(i, I))
<1>1. /\ IsFiniteSet(I) /\ Cardinality(I) \in Nat
      /\ \A i \in I : Rank(i) \in 0..(Cardinality(I) - 1)
      /\ \A i, j \in I : j \in After(i, I) => Rank(j) < Rank(i)
      /\ \A i, j \in I : i # j => j \in After(i, I) \/ i \in After(j, I)
  BY Ranks
<1> HIDE DEF Rank
<1>2. PICK n \in Nat : n = Cardinality(I)
  BY <1>1
<1>3. \A i, j \in I : Rank(i) = Rank(j) => i = j
  BY <1>1, <1>2
<1>4. ASSUME NEW k \in 1..n PROVE \E i \in I : Rank(i) = k - 1
  <2> SUFFICES ASSUME \A i \in I : Rank(i) # k - 1 PROVE FALSE
    OBVIOUS
  <2>0. PICK x \in 0..(n - 1) : x = k - 1
    OBVIOUS
  <2> DEFINE T == (0..(n - 1)) \ {x}
             f == [i \in I |-> Rank(i)]
  <2>1. IsFiniteSet(0..(n - 1)) /\ Cardinality(0..(n - 1)) = n
    BY FS_Interval
  <2>2. IsFiniteSet(T) /\ Cardinality(T) = n - 1
    BY <2>1, FS_RemoveElement
  <2>3. f \in [I -> T]
    BY <1>1, <1>2, <2>0
  <2>4. \A i \in I : f[i] = Rank(i)
    OBVIOUS
  <2> HIDE DEF T, f
  <2>5. Cardinality(T) < Cardinality(I)
    BY <1>2, <2>2
  <2>6. \E i, j \in I : i # j /\ f[i] = f[j]
    BY ONLY <1>1, <2>2, <2>3, <2>5, FS_PigeonHole
  <2> QED BY <1>3, <2>4, <2>6
<1>5. Sorted(I) = [k \in 1..n |-> CHOOSE i \in I : Rank(i) = k - 1]
  BY <1>2 DEF Sorted, Rank
<1>6. ASSUME NEW k \in 1..n PROVE Sorted(I)[k] \in I /\ Rank(Sorted(I)[k]) = k - 1
  BY <1>4, <1>5
<1>7. Len(Sorted(I)) = n
  BY <1>5
<1>8. ASSUME NEW i \in I PROVE Sorted(I)[Rank(i) + 1] = i
  <2>1. Rank(i) + 1 \in 1..n /\ (Rank(i) + 1) - 1 = Rank(i)
    BY <1>1, <1>2
  <2> QED BY <1>3, <1>6, <2>1
<1> QED BY <1>2, <1>6, <1>7, <1>8 DEF Rank

LEMMA MinOfTwo ==
    ASSUME NEW a \in Nat, NEW b \in Nat PROVE Min({a, b}) = IF a <= b THEN a ELSE b
<1>1. CASE a <= b
  <2>1. a \in {a, b} /\ \A y \in {a, b} : a <= y
    BY <1>1
  <2>2. Min({a, b}) \in {a, b} /\ \A y \in {a, b} : Min({a, b}) <= y
    BY <2>1 DEF Min
  <2> QED BY <1>1, <2>2
<1>2. CASE ~(a <= b)
  <2>1. b \in {a, b} /\ \A y \in {a, b} : b <= y
    BY <1>2
  <2>2. Min({a, b}) \in {a, b} /\ \A y \in {a, b} : Min({a, b}) <= y
    BY <2>1 DEF Min
  <2> QED BY <1>2, <2>2
<1> QED BY <1>1, <1>2

\* The first m of the rows in the order of their ranks.
LEMMA FirstRows ==
    ASSUME NEW I, NEW n \in Nat, NEW m \in Nat, m <= n, NEW r \in [I -> 0..(n - 1)], NEW s,
           \A k \in 1..n : s[k] \in I /\ r[s[k]] = k - 1, \A i \in I : s[r[i] + 1] = i,
           NEW p, \A k \in 1..m : p[k] = s[k]
    PROVE  /\ \A k \in 1..m : p[k] \in I /\ r[p[k]] = k - 1
           /\ \A k, l \in 1..m : p[k] = p[l] => k = l
           /\ \A i \in I : (\E k \in 1..m : p[k] = i) <=> r[i] < m
<1>1. \A k \in 1..m : k \in 1..n
  OBVIOUS
<1>2. \A k \in 1..m : p[k] \in I /\ r[p[k]] = k - 1
  BY <1>1
<1>3. \A k, l \in 1..m : p[k] = p[l] => k = l
  BY <1>2
<1>4. ASSUME NEW i \in I PROVE (\E k \in 1..m : p[k] = i) <=> r[i] < m
  <2>1. ASSUME NEW k \in 1..m, p[k] = i PROVE r[i] < m
    BY <1>2, <2>1
  <2>2. ASSUME r[i] < m PROVE r[i] + 1 \in 1..m /\ p[r[i] + 1] = i
    BY <2>2
  <2> QED BY <2>1, <2>2
<1> QED BY <1>2, <1>3, <1>4

\* A page has rows of the answer, each of them once, and a row is on it unless
\* the page is full and its last row comes before.
LEMMA Pages ==
    ASSUME NEW I, Dated(I)
    PROVE  LET p == SubSeq(Sorted(I), 1, Min({PageSize, Len(Sorted(I))})) IN
           /\ p \in Seq(I) /\ Len(p) \in Nat
           /\ \A k, l \in 1..Len(p) : p[k] = p[l] => k = l
           /\ \A i \in I : (\E k \in 1..Len(p) : p[k] = i)
                             <=> Len(p) # PageSize \/ p[PageSize] \notin After(i, I)
<1>1. PICK n \in Nat : n = Cardinality(I)
  BY Ranks
<1>2. PICK r : r = [i \in I |-> Cardinality(After(i, I))]
  OBVIOUS
<1>3. PICK s : s = Sorted(I)
  OBVIOUS
<1>4. /\ r \in [I -> 0..(n - 1)]
      /\ \A i, j \in I : j \in After(i, I) => r[j] < r[i]
      /\ \A i, j \in I : i # j => j \in After(i, I) \/ i \in After(j, I)
  BY <1>1, <1>2, Ranks
<1>5. /\ Len(s) = n
      /\ \A k \in 1..n : s[k] \in I /\ r[s[k]] = k - 1
      /\ \A i \in I : s[r[i] + 1] = i
  BY <1>1, <1>2, <1>3, Sorting
<1>6. PICK m \in Nat : m = Min({PageSize, n})
  BY BoundAssumption, MinOfTwo
<1>7. m <= n /\ ((m = PageSize /\ m > 0) \/ (m = n /\ m < PageSize))
  BY <1>6, BoundAssumption, MinOfTwo
<1>8. \A k \in 1..m : s[k] \in I
  BY <1>5, <1>7
<1>9. /\ SubSeq(s, 1, m) \in Seq(I)
      /\ Len(SubSeq(s, 1, m)) = IF 1 <= m THEN m - 1 + 1 ELSE 0
      /\ \A k \in 1..(m - 1 + 1) : SubSeq(s, 1, m)[k] = s[1 + k - 1]
  BY <1>8, SubSeqProperties
<1>10. PICK p : p = SubSeq(s, 1, m)
  OBVIOUS
<1>11. p \in Seq(I) /\ Len(p) = m /\ \A k \in 1..m : p[k] = s[k]
  <2>1. m - 1 + 1 = m /\ \A k \in 1..m : 1 + k - 1 = k
    OBVIOUS
  <2>2. (IF 1 <= m THEN m - 1 + 1 ELSE 0) = m
    OBVIOUS
  <2> QED BY <1>9, <1>10, <2>1, <2>2
<1>12. /\ \A k \in 1..m : p[k] \in I /\ r[p[k]] = k - 1
       /\ \A k, l \in 1..m : p[k] = p[l] => k = l
       /\ \A i \in I : (\E k \in 1..m : p[k] = i) <=> r[i] < m
  <2>1. /\ m <= n /\ r \in [I -> 0..(n - 1)]
        /\ \A k \in 1..n : s[k] \in I /\ r[s[k]] = k - 1
        /\ \A i \in I : s[r[i] + 1] = i
        /\ \A k \in 1..m : p[k] = s[k]
    BY <1>4, <1>5, <1>7, <1>11
  <2> QED BY ONLY <2>1, FirstRows, n \in Nat, m \in Nat
<1>13. ASSUME NEW i \in I
       PROVE  r[i] < m <=> m # PageSize \/ p[PageSize] \notin After(i, I)
  <2>1. r[i] \in 0..(n - 1)
    BY <1>4
  <2>2. CASE m # PageSize
    BY <1>7, <2>1, <2>2
  <2>3. CASE m = PageSize
    <3>0. m \in 1..m
      BY <1>7, <2>3
    <3>1. p[m] \in I /\ r[p[m]] = m - 1
      BY <1>12, <3>0
    <3>2. p[m] \in After(i, I) => r[p[m]] < r[i]
      BY <1>4, <3>1
    <3>3. p[m] \notin After(i, I) => i = p[m] \/ r[i] < r[p[m]]
      BY <1>4, <3>1
    <3> QED BY <2>1, <2>3, <3>1, <3>2, <3>3
  <2> QED BY <2>2, <2>3
<1>14. p = SubSeq(Sorted(I), 1, Min({PageSize, Len(Sorted(I))}))
  BY <1>3, <1>5, <1>6, <1>10
<1> QED BY <1>11, <1>12, <1>13, <1>14

\* What a page leaves for later is what its last row comes before.
LEMMA CursorMoves ==
    ASSUME TypeOK, NEW i \in Live, NEW j \in Live, NEW cur \in (Nat \X Ids) \cup {<<>>}
    PROVE  /\ <<secret[j].at, j>> \in Nat \X Ids /\ <<secret[j].at, j>> # <<>>
           /\ Before(i, <<secret[j].at, j>>) <=>
                secret[i].at < secret[j].at \/ (secret[i].at = secret[j].at /\ i < j)
           /\ Before(j, cur) /\ ~Before(i, cur) => ~Before(i, <<secret[j].at, j>>)
<1>1. /\ i \in Nat /\ j \in Nat /\ j \in Ids
      /\ secret[i].at \in Nat /\ secret[j].at \in Nat
  BY LiveRow, IdsAssumption
<1>2. PICK a \in Nat, b \in Nat : a = secret[i].at /\ b = secret[j].at
  BY <1>1
<1>3. /\ <<b, j>> \in Nat \X Ids /\ <<b, j>> # <<>> /\ <<b, j>>[1] = b /\ <<b, j>>[2] = j
  BY <1>1
<1>4. Before(i, <<b, j>>) <=> a < b \/ (a = b /\ i < j)
  BY <1>2, <1>3 DEF Before
<1>5. ASSUME Before(j, cur), ~Before(i, cur) PROVE ~Before(i, <<b, j>>)
  <2>1. cur # <<>>
    BY <1>5 DEF Before
  <2>2. cur[1] \in Nat /\ cur[2] \in Nat
    BY <2>1, IdsAssumption
  <2>3. (b < cur[1] \/ (b = cur[1] /\ j < cur[2])) /\ ~(a < cur[1] \/ (a = cur[1] /\ i < cur[2]))
    BY <1>2, <1>5, <2>1 DEF Before
  <2>4. ~(a < b \/ (a = b /\ i < j))
    BY <1>1, <2>2, <2>3
  <2> QED BY <1>4, <2>4
<1> QED BY <1>2, <1>3, <1>4, <1>5

LEMMA NextPageKeeps == ASSUME Inv, NextPage PROVE Inv'
<1>1. PICK I : I = {i \in InScope(list.wallet, list.scope) : Before(i, list.cursor)}
  OBVIOUS
<1>2. PICK p : p = SubSeq(Sorted(I), 1, Min({PageSize, Len(Sorted(I))}))
  OBVIOUS
<1>3. p = Page(list.wallet, list.scope, list.cursor)
  BY <1>1, <1>2 DEF Page
<1>4. PICK cur : cur = IF Len(p) = PageSize THEN <<secret[p[PageSize]].at, p[PageSize]>> ELSE list.cursor
  OBVIOUS
<1>5. /\ list # NoList /\ list.more
      /\ list' = [list EXCEPT !.got = @ \o p, !.more = Len(p) = PageSize, !.cursor = cur]
      /\ Answer({p[k] : k \in DOMAIN p})
      /\ UNCHANGED <<typeVars, now, secret, call, asked>>
  BY <1>3, <1>4 DEF NextPage
<1>6. TypeOK /\ list \in Listing
  BY <1>5 DEF Inv, TypeOK
<1>7. I \subseteq Live /\ Live \subseteq Ids /\ Dated(I)
  BY <1>1, <1>6, LiveRow DEF Dated, InScope, In, Live
<1>8. /\ p \in Seq(I) /\ Len(p) \in Nat
      /\ \A k, l \in 1..Len(p) : p[k] = p[l] => k = l
      /\ \A i \in I : (\E k \in 1..Len(p) : p[k] = i)
                        <=> Len(p) # PageSize \/ p[PageSize] \notin After(i, I)
  BY <1>2, <1>7, Pages
<1>9. p \in Seq(Ids) /\ DOMAIN p = 1..Len(p) /\ \A k \in 1..Len(p) : p[k] \in I
  BY <1>7, <1>8
<1>10. /\ list.got \in Seq(Ids) /\ Len(list.got) \in Nat
       /\ list.cursor \in (Nat \X Ids) \cup {<<>>} /\ list.more \in BOOLEAN
  BY <1>6 DEF Listing
<1>11. PICK q : q = list.got \o p
  OBVIOUS
<1>12. /\ q \in Seq(Ids) /\ Len(q) = Len(list.got) + Len(p)
       /\ \A k \in 1..Len(q) : q[k] = IF k <= Len(list.got) THEN list.got[k] ELSE p[k - Len(list.got)]
  BY <1>9, <1>10, <1>11, ConcatProperties
<1>13. ASSUME Len(p) = PageSize
       PROVE  /\ p[PageSize] \in I /\ cur = <<secret[p[PageSize]].at, p[PageSize]>>
  BY <1>4, <1>9, <1>13, BoundAssumption
<1>14. cur \in (Nat \X Ids) \cup {<<>>}
  <2>1. CASE Len(p) = PageSize
    BY <1>6, <1>7, <1>13, <1>10, <2>1, CursorMoves
  <2>2. CASE Len(p) # PageSize
    BY <1>4, <1>10, <2>2
  <2> QED BY <2>1, <2>2
<1>15. /\ list' \in Listing /\ list' # NoList /\ list'.got = q /\ list'.cursor = cur
       /\ list'.more = (Len(p) = PageSize) /\ list'.old = list.old
       /\ list'.wallet = list.wallet /\ list'.scope = list.scope
  <2>1. list' = [list EXCEPT !.got = q, !.more = Len(p) = PageSize, !.cursor = cur]
    BY <1>5, <1>11
  <2>2. list' \in Listing /\ list'.got = q
    BY <1>6, <1>12, <1>14, <2>1 DEF Listing
  <2>3. DOMAIN list' # DOMAIN NoList
    BY <2>2 DEF Listing, NoList
  <2> QED BY <1>6, <2>1, <2>2, <2>3 DEF Listing
<1>16. /\ list.old \subseteq InScope(list.wallet, list.scope)
       /\ \A k, l \in 1..Len(list.got) :
            list.got[k] = list.got[l] /\ list.got[k] \in list.old => k = l
       /\ \A i \in list.old : Received(i) <=> ~Before(i, list.cursor)
  BY <1>5 DEF Inv, ReaderOnTrack
<1>17. \A i \in list.old : i \in Live /\ (i \in I <=> Before(i, list.cursor))
  BY <1>1, <1>16 DEF InScope, In
<1>18. PICK g \in Nat, n \in Nat : g = Len(list.got) /\ n = Len(p)
  BY <1>8, <1>10
<1>19. ASSUME NEW k \in 1..(g + n), NEW l \in 1..(g + n), q[k] = q[l], q[k] \in list.old PROVE k = l
  <2>1. ASSUME NEW m \in 1..(g + n), m <= g, q[m] \in list.old
        PROVE  m \in 1..g /\ q[m] = list.got[m] /\ q[m] \notin I
    <3>1. m \in 1..g /\ q[m] = list.got[m]
      BY <1>12, <1>18, <2>1
    <3>2. Received(q[m])
      BY <1>18, <3>1 DEF Received
    <3> QED BY <1>16, <1>17, <2>1, <3>1, <3>2
  <2>2. ASSUME NEW m \in 1..(g + n), ~(m <= g)
        PROVE  m - g \in 1..n /\ q[m] = p[m - g] /\ q[m] \in I
    BY <1>9, <1>12, <1>18, <2>2
  <2>3. CASE k <= g /\ l <= g
    BY <1>16, <1>18, <1>19, <2>1, <2>3
  <2>4. CASE ~(k <= g) /\ ~(l <= g)
    <3>1. k - g \in 1..n /\ l - g \in 1..n /\ p[k - g] = p[l - g]
      BY <1>19, <2>2, <2>4
    <3>2. \A a, b \in 1..n : p[a] = p[b] => a = b
      BY <1>8, <1>18
    <3>3. k - g = l - g
      BY <3>1, <3>2
    <3> QED BY <3>3
  <2>5. CASE (k <= g /\ ~(l <= g)) \/ (~(k <= g) /\ l <= g)
    BY <1>19, <2>1, <2>2, <2>5
  <2> QED BY <2>3, <2>4, <2>5
<1>20. ASSUME NEW i \in list.old
       PROVE  (\E k \in 1..(g + n) : q[k] = i) <=> n # PageSize \/ ~Before(i, cur)
  <2>1. (\E k \in 1..(g + n) : q[k] = i) <=> Received(i) \/ \E k \in 1..n : p[k] = i
    <3>1. ASSUME NEW k \in 1..(g + n), q[k] = i PROVE Received(i) \/ \E m \in 1..n : p[m] = i
      <4>1. CASE k <= g
        BY <1>12, <1>18, <3>1, <4>1 DEF Received
      <4>2. CASE ~(k <= g)
        <5>1. k - g \in 1..n /\ p[k - g] = i
          BY <1>12, <1>18, <3>1, <4>2
        <5> QED BY <5>1
      <4> QED BY <4>1, <4>2
    <3>2. ASSUME NEW k \in 1..g, list.got[k] = i PROVE \E m \in 1..(g + n) : q[m] = i
      <4>1. k \in 1..(g + n) /\ q[k] = i
        BY <1>12, <1>18, <3>2
      <4> QED BY <4>1
    <3>3. ASSUME NEW k \in 1..n, p[k] = i PROVE \E m \in 1..(g + n) : q[m] = i
      <4>1. g + k \in 1..(g + n) /\ ~(g + k <= g) /\ (g + k) - g = k
        OBVIOUS
      <4>2. q[g + k] = p[k]
        BY <1>12, <1>18, <4>1
      <4> QED BY <3>3, <4>1, <4>2
    <3> QED BY <1>18, <3>1, <3>2, <3>3 DEF Received
  <2>2. CASE i \notin I
    <3>1. Received(i) /\ ~Before(i, list.cursor) /\ i \in Live
      BY <1>16, <1>17, <2>2
    <3>2. CASE n = PageSize
      <4>1. p[PageSize] \in Live /\ Before(p[PageSize], list.cursor)
        BY <1>1, <1>7, <1>13, <1>18, <3>2
      <4>2. ~Before(i, cur)
        BY <1>6, <1>10, <1>13, <1>18, <3>1, <3>2, <4>1, CursorMoves
      <4> QED BY <2>1, <3>1, <4>2
    <3> QED BY <2>1, <3>1, <3>2
  <2>3. CASE i \in I
    <3>1. ~Received(i) /\ i \in Live
      BY <1>16, <1>17, <2>3
    <3>2. (\E k \in 1..n : p[k] = i) <=> n # PageSize \/ p[PageSize] \notin After(i, I)
      BY <1>8, <1>18, <2>3
    <3>3. CASE n = PageSize
      <4>1. p[PageSize] \in I /\ p[PageSize] \in Live /\ cur = <<secret[p[PageSize]].at, p[PageSize]>>
        BY <1>7, <1>13, <1>18, <3>3
      <4>2. p[PageSize] \in Nat /\ i \in Nat /\ secret[i].at \in Nat /\ secret[p[PageSize]].at \in Nat
        BY <1>6, <3>1, <4>1, LiveRow, IdsAssumption
      <4>3. Before(i, cur) <=> p[PageSize] \in After(i, I)
        BY <1>6, <1>10, <3>1, <4>1, <4>2, CursorMoves DEF After
      <4> QED BY <2>1, <3>1, <3>2, <3>3, <4>3
    <3> QED BY <2>1, <3>1, <3>2, <3>3
  <2> QED BY <2>2, <2>3
<1>21. ReaderOnTrack'
  <2>1. list'.old \subseteq InScope(list.wallet, list.scope)'
    BY <1>5, <1>15, <1>16 DEF InScope, In, Live
  <2>2. \A k, l \in 1..Len(list'.got) :
          list'.got[k] = list'.got[l] /\ list'.got[k] \in list'.old => k = l
    BY <1>12, <1>15, <1>18, <1>19
  <2>3. \A i \in list'.old : Received(i)' <=> ~list'.more \/ ~Before(i, list.cursor)'
    <3> SUFFICES ASSUME NEW i \in list.old
                 PROVE  Received(i)' <=> ~list'.more \/ ~Before(i, list.cursor)'
      BY <1>15
    <3>1. Received(i)' <=> \E k \in 1..(g + n) : q[k] = i
      BY <1>12, <1>15, <1>18 DEF Received
    <3>2. Before(i, list.cursor)' <=> Before(i, cur)
      BY <1>5, <1>15 DEF Before
    <3>3. list'.more <=> n = PageSize
      BY <1>15, <1>18
    <3> QED BY <1>20, <3>1, <3>2, <3>3
  <2> QED BY <2>1, <2>2, <2>3 DEF ReaderOnTrack
<1>22. {p[k] : k \in DOMAIN p} \in SUBSET Live
  BY <1>7, <1>9
<1> QED BY <1>5, <1>15, <1>21, <1>22, OnlyRead


-----------------------------------------------------------------------------
(* The specification *)

LEMMA TransactionKeeps == ASSUME Inv, NEW c \in Calls, Transaction(c) PROVE Inv'
<1>1. ASSUME NEW i \in Ids, InsertSecret(c, i) \/ InsertPlaceholder(c, i) PROVE Inv'
  BY <1>1, InsertKeeps DEF InsertSecret, InsertPlaceholder
<1>2. CASE UpdateSecretValue(c) \/ PopulateSecret(c)
  <2>1. call[c].op \in {"put", "populate"} /\ Write(c)
    BY <1>2 DEF UpdateSecretValue, PopulateSecret
  <2> QED BY <2>1, InProgress, WriteKeeps
<1>3. CASE AssignType(c)
  BY <1>3, AssignTypeKeeps
<1>4. CASE Delete(c)
  BY <1>4, DeleteKeeps
<1>5. CASE Fail(c)
  BY <1>5, FailKeeps
<1>6. ASSUME NEW b \in BOOLEAN, Patch(c, b) PROVE Inv'
  BY <1>6, PatchKeeps
<1> QED BY <1>1, <1>2, <1>3, <1>4, <1>5, <1>6 DEF Transaction

LEMMA Rests == ASSUME Inv, UNCHANGED vars PROVE Inv'
<1>1. UNCHANGED <<typeVars, now, secret, call, asked, answers, list>>
  BY DEF vars
<1>2. CallsMade' /\ CallsLinked'
  BY <1>1, CallsRest DEF Live
<1>3. LinksStayInWallet' /\ VersionInv' /\ ReaderOnTrack'
  BY <1>1, RowsRest
<1>4. TypedSecretsReadable' /\ TypeOK'
  BY <1>1 DEF Inv, TypedSecretsReadable, Live, VersionOf, typeVars, TypeOK, TypesTypeOK
<1> QED BY <1>2, <1>3, <1>4 DEF Inv, LinkInv

LEMMA StepKeeps == ASSUME Inv, CatalogueInv, [Next]_vars PROVE Inv'
<1>1. CASE Tick
  BY <1>1, TickKeeps
<1>2. CASE Edition
  BY <1>2, EditionKeeps
<1>3. ASSUME NEW c \in Calls, Transaction(c) PROVE Inv'
  BY <1>3, TransactionKeeps
<1>4. ASSUME NEW c \in Calls, NEW w \in Wallets, Routes(c, w) PROVE Inv'
  BY <1>4, RoutesKeep
<1>5. ASSUME NEW w \in Wallets, Imports(w) PROVE Inv'
  BY <1>5, ImportWalletKeeps DEF Imports
<1>6. ASSUME NEW w \in Wallets, PurgeWallet(w) PROVE Inv'
  BY <1>6, PurgeWalletKeeps
<1>7. ASSUME NEW w \in Wallets, Reads(w) PROVE Inv'
  BY <1>7, ReadsKeep
<1>8. ASSUME NEW w \in Wallets, NEW S \in Scopes, StartList(w, S) PROVE Inv'
  BY <1>8, StartListKeeps
<1>9. ASSUME NEW w \in Wallets, NEW f \in Folders, DeleteByPath(w, f) PROVE Inv'
  BY <1>9, DeleteByPathKeeps
<1>10. CASE NextPage
  BY <1>10, NextPageKeeps
<1>11. CASE EndList
  BY <1>11, EndListKeeps
<1>12. CASE UNCHANGED vars
  BY <1>12, Rests
<1> QED
  BY <1>1, <1>2, <1>3, <1>4, <1>5, <1>6, <1>7, <1>8, <1>9, <1>10, <1>11, <1>12 DEF Next

\* Nothing but an edition touches the catalogue.
LEMMA CatalogueStays == ASSUME CatalogueInv, [Next]_vars PROVE CatalogueInv'
<1>1. CASE Edition
  BY <1>1, CatalogueRoutes, CatalogueStatement DEF Edition
<1>2. ASSUME UNCHANGED typeVars PROVE CatalogueInv'
  BY <1>2 DEF typeVars, CatalogueInv, TypesTypeOK, CatalogueCoherent, TypeExists, VersionOf
<1>3. ASSUME NEW c \in Calls, Transaction(c) PROVE UNCHANGED typeVars
  BY <1>3 DEF Transaction, InsertSecret, InsertPlaceholder, Insert, UpdateSecretValue,
     PopulateSecret, Write, AssignType, Delete, Fail, Patch, Done
<1>4. ASSUME NEW c \in Calls, NEW w \in Wallets, Routes(c, w) PROVE UNCHANGED typeVars
  BY <1>4 DEF Routes, BulkImportItem, AskPlaceholder, AskPut, AskPopulate, AskPatch, AskDelete,
     AskCreate, AskAssign, AskPutById, AskPopulateById, AskPatchById, AskDeleteById,
     AskAssignById, Ask
<1>5. ASSUME NEW w \in Wallets,
             \/ Imports(w) \/ PurgeWallet(w) \/ Reads(w)
             \/ \E S \in Scopes : StartList(w, S)
             \/ \E f \in Folders : DeleteByPath(w, f)
      PROVE  UNCHANGED typeVars
  BY <1>5 DEF Imports, ImportWallet, PurgeWallet, Reads, GetSecretById, GetDescriptorById,
     GetSecret, GetDescriptor, ExportWallet, Read, StartList, DeleteByPath
<1>6. ASSUME Tick \/ NextPage \/ EndList \/ UNCHANGED vars PROVE UNCHANGED typeVars
  BY <1>6 DEF Tick, NextPage, EndList, vars
<1> QED BY <1>1, <1>2, <1>3, <1>4, <1>5, <1>6 DEF Next

\* The catalogue stays coherent, whatever the administrator's edits and their
\* order: RAW keeps a current version, by which every creation without a type is
\* sealed, and the current version of a type is never one that was dropped.
THEOREM CatalogueHolds == Spec => []CatalogueInv
<1>1. CatalogueInv /\ [Next]_vars => CatalogueInv'
  BY CatalogueStays
<1> QED BY CatalogueInit, <1>1, PTL DEF Spec

\* The inductive invariant holds.  Its step uses the one of the catalogue, as the
\* import of an item seals it with the current version of RAW.
THEOREM Invariance == Spec => []Inv
<1>1. Inv /\ CatalogueInv /\ [Next]_vars => Inv'
  BY StepKeeps
<1> QED BY InitInv, CatalogueHolds, <1>1, PTL DEF Spec

\* Rows, calls, answers and lists are always of their types.
THEOREM TypeCorrect == Spec => []TypeOK
<1>1. Inv => TypeOK
  BY DEF Inv
<1> QED BY Invariance, <1>1, PTL

\* A secret is only ever linked to a secret of its own wallet that exists, though
\* the route compares the wallets before the transaction that inserts the row.
THEOREM LinksHold == Spec => []LinksStayInWallet
<1>1. Inv => LinksStayInWallet
  BY DEF Inv, LinkInv
<1> QED BY Invariance, <1>1, PTL

\* The version of the schema that a typed secret was sealed with is never dropped
\* nor given to another type while the secret exists.
THEOREM TypedHold == Spec => []TypedSecretsReadable
<1>1. Inv => TypedSecretsReadable
  BY DEF Inv
<1> QED BY Invariance, <1>1, PTL

\* The versions that clients are told of a secret grow, whatever writes and reads
\* overlap: none is told twice for two writes, none after a greater one.
THEOREM VersionsHold == Spec => []VersionsGrow
<1>1. Inv => VersionsGrow
  BY DEF Inv, VersionInv
<1> QED BY Invariance, <1>1, PTL

\* A reader that has reached the end of a list got every secret that was there
\* when it began and that nobody touched, once: the cursor neither skips nor
\* repeats a row, for any page size and whatever moves between two pages.
THEOREM ListedOnce == Spec => []UntouchedListedOnce
<1>1. ASSUME Inv PROVE UntouchedListedOnce
  <2> SUFFICES ASSUME list # NoList, ~list.more, NEW i \in list.old
               PROVE  Cardinality({k \in DOMAIN list.got : list.got[k] = i}) = 1
    BY DEF UntouchedListedOnce
  <2>1. list.got \in Seq(Ids) /\ DOMAIN list.got = 1..Len(list.got)
    BY <1>1 DEF Inv, TypeOK, Listing
  <2>2. PICK k \in 1..Len(list.got) : list.got[k] = i
    BY <1>1 DEF Inv, ReaderOnTrack, Received
  <2>3. \A l \in 1..Len(list.got) : list.got[l] = i => l = k
    BY <1>1, <2>2 DEF Inv, ReaderOnTrack
  <2>4. {l \in DOMAIN list.got : list.got[l] = i} = {k}
    BY <2>1, <2>2, <2>3
  <2> QED BY <2>4, FS_Singleton
<1> QED BY Invariance, <1>1, PTL


=============================================================================
