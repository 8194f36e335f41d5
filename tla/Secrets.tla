------------------------------ MODULE Secrets ------------------------------
(***************************************************************************)
(* The secrets of the wallets: services/secrets.py,                          *)
(* db/repositories/secrets.py, the routes of api/v1/secrets.py, the import   *)
(* of a wallet (services/wallets.py) and the constraints of migrations 001,  *)
(* 006 and 008, over the catalogue of types (SecretTypes).                   *)
(*                                                                          *)
(* A call reads what it needs, checks it, and then writes by identifier in a *)
(* transaction that checks nothing again.  The lists are read page after     *)
(* page, by a cursor on (updated_at, id), while everything else goes on.     *)
(*                                                                          *)
(* Who may call what is the matter of WalletSharing and ApiKeyAuth; values   *)
(* are ciphertexts, of which only the presence matters here.                 *)
(***************************************************************************)
EXTENDS SecretTypes, Integers, Sequences, FiniteSets, FiniteSetsExt

CONSTANTS
    Wallets,
    Ids,        \* identifiers of secrets, ordered as uuids are
    Names,
    Folders,    \* paths other than the root
    Prefix,     \* Prefix[f]: the names that start with the path f
    Like,       \* Like[f]: the names that LIKE f || '%' matches, where _ is any character
    Scopes,     \* what a list may be restricted to: sets of names
    Secret0,    \* the rows of secrets at the start
    Calls,      \* slots for HTTP calls in progress
    PageSize,   \* the limit of a list
    MaxTime,    \* bound of the clock (model checking only)
    MaxCalls    \* bound of the number of calls and edits (model checking only)

ASSUME IdsAssumption == Ids \subseteq Nat \ {0} /\ IsFiniteSet(Ids)
ASSUME NullAssumption == None \notin Wallets \cup Ids \cup Names
ASSUME PathAssumption ==
    /\ Prefix \in [Folders -> SUBSET Names] /\ Like \in [Folders -> SUBSET Names]
    /\ Scopes \subseteq SUBSET Names
ASSUME BoundAssumption == PageSize \in Nat \ {0} /\ {MaxTime, MaxCalls} \subseteq Nat

VARIABLES
    now,
    secret,   \* rows of secrets
    call,     \* calls between their checks and their transaction
    asked,    \* how many calls and edits were made
    answers,  \* the versions answered for each secret, in order, without repetition (history)
    list      \* a client that reads the list of a wallet page after page

secretVars == <<secret, call, answers>>
vars == <<typeVars, now, secret, call, asked, answers, list>>

-----------------------------------------------------------------------------
(* Rows *)

Row == [wallet : Wallets, name : Names, placeholder : BOOLEAN, version : Nat,
        link : Ids \cup {None}, type : Types \cup {None},
        schema : Versions \cup {None}, at : Nat]
NoRow == [wallet |-> None]

ASSUME RowsAssumption ==
    /\ Secret0 \in [Ids -> Row \cup {NoRow}]
    /\ \A i \in Ids : Secret0[i] # NoRow =>
         LET r == Secret0[i] IN
         /\ r.version > 0
         /\ \A j \in Ids \ {i} : Secret0[j] # NoRow => Secret0[j].wallet # r.wallet \/ Secret0[j].name # r.name
         /\ r.link # None => Secret0[r.link] # NoRow /\ Secret0[r.link].wallet = r.wallet
         /\ r.type = None <=> r.schema = None
         /\ r.schema # None => Schema0[r.schema] = r.type

Live == {i \in Ids : secret[i] # NoRow}
In(w) == {i \in Live : secret[i].wallet = w}
Named(w, n) == {i \in In(w) : secret[i].name = n}
Used == {secret[i].schema : i \in Live} \ {None}

Idle == [op |-> "idle"]
Request == [op : {"create", "placeholder", "put", "patch", "delete", "populate", "assign"},
            wallet : Wallets, id : Ids \cup {None}, name : Names \cup {None},
            link : Ids \cup {None}, type : Types \cup {None}, schema : Versions \cup {None}]

\* A client between two pages.  old: the secrets that were there when it began and
\* that nobody touched since; got: the identifiers received, page after page.
NoList == [wallet |-> None]
Listing == [wallet : Wallets, scope : Scopes, more : BOOLEAN, cursor : (Nat \X Ids) \cup {<<>>},
            old : SUBSET Ids, got : Seq(Ids)]

Busy == {c \in Calls : call[c] # Idle}
Mentioned(i) == \E c \in Busy : i \in {call[c].id, call[c].link}
Fresh(i) == i \notin Live /\ ~Mentioned(i)

Init ==
    /\ TypesInit
    /\ now = 0
    /\ secret = Secret0
    /\ call = [c \in Calls |-> Idle]
    /\ asked = 0
    /\ answers = [i \in Ids |-> IF i \in Live THEN <<1>> ELSE <<>>]
    /\ list = NoList

Tick ==
    /\ now < MaxTime
    /\ now' = now + 1
    /\ UNCHANGED <<typeVars, secretVars, asked, list>>

\* What a transaction touched is not for the reader of a list any more.
Touch(I) ==
    list' = IF list = NoList THEN list ELSE [list EXCEPT !.old = @ \ I]

NewRow(w, n, p, link, t, s) ==
    [wallet |-> w, name |-> n, placeholder |-> p, version |-> 1,
     link |-> link, type |-> t, schema |-> s, at |-> now]

-----------------------------------------------------------------------------
(* The checks *)

Count == asked < MaxCalls /\ asked' = asked + 1

Ask(c, op, w, i, n, l, t, s) ==
    /\ call[c] = Idle
    /\ Count
    /\ call' = [call EXCEPT ![c] = [op |-> op, wallet |-> w, id |-> i, name |-> n,
                                    link |-> l, type |-> t, schema |-> s]]
    /\ UNCHANGED <<typeVars, now, secret, answers, list>>

\* RAW and its current version by default; a given type must not be deprecated.
\* Its version is not compared with it: one of another type is refused by the
\* trigger, for good, and left out here.
AskCreate(c, w, n, t, v) ==
    /\ VersionOf(v, t)
    /\ t \in deprecated => t = Raw /\ v = current[Raw]
    /\ Ask(c, "create", w, None, n, None, t, v)

\* One item of an import: an insertion when the name is free.  When it is not,
\* nothing is written, whether the item says override or not: existing["id"]
\* fails on a SecretRow, and the item is reported as failed.
BulkImportItem(c, w, n) ==
    /\ Named(w, n) = {}
    /\ Ask(c, "create", w, None, n, None, Raw, current[Raw])

\* A mistake: the linked secret is not compared with the wallet.
AskPlaceholderAnywhere(c, w, n, l) ==
    /\ l \in Live \cup {None}
    /\ Ask(c, "placeholder", w, None, n, l, None, None)

\* The linked secret must exist, in the same wallet.
AskPlaceholder(c, w, n, l) ==
    /\ l \in In(w) \cup {None}
    /\ Ask(c, "placeholder", w, None, n, l, None, None)

\* By identifier: the row read must be one of the wallet.
AskPutById(c, w, i) ==
    /\ i \in In(w)
    /\ ~secret[i].placeholder
    /\ Ask(c, "put", w, i, None, None, None, None)

AskPopulateById(c, w, i) ==
    /\ i \in In(w)
    /\ secret[i].placeholder
    /\ Ask(c, "populate", w, i, None, None, None, None)

AskPatchById(c, w, i) == i \in In(w) /\ Ask(c, "patch", w, i, None, None, None, None)
AskDeleteById(c, w, i) == i \in In(w) /\ Ask(c, "delete", w, i, None, None, None, None)

AskAssignById(c, w, i, t, v) ==
    /\ i \in In(w)
    /\ VersionOf(v, t)
    /\ t \notin deprecated
    /\ Ask(c, "assign", w, i, None, None, t, v)

\* By name: the identifier the name has when the call reads it.
AskPut(c, w, n) == \E i \in Named(w, n) : AskPutById(c, w, i)
AskPopulate(c, w, n) == \E i \in Named(w, n) : AskPopulateById(c, w, i)
AskPatch(c, w, n) == \E i \in Named(w, n) : AskPatchById(c, w, i)
AskDelete(c, w, n) == \E i \in Named(w, n) : AskDeleteById(c, w, i)
AskAssign(c, w, n, t, v) == \E i \in Named(w, n) : AskAssignById(c, w, i, t, v)

-----------------------------------------------------------------------------
(* The transactions *)

Done(c) ==
    /\ call' = [call EXCEPT ![c] = Idle]
    /\ UNCHANGED <<typeVars, now, asked>>

\* UNIQUE (wallet_id, name); foreign keys to the type, the version and the linked
\* secret; and trg_secrets_type_schema_consistency.
Insertable(r) ==
    /\ Named(r.wallet, r.name) = {}
    /\ r.link \in Live \cup {None}
    /\ r.type # None => VersionOf(r.schema, r.type)

Insert(c, i) ==
    LET r == call[c] IN
    /\ Fresh(i)
    /\ Insertable(r)
    /\ secret' = [secret EXCEPT ![i] =
         NewRow(r.wallet, r.name, r.op = "placeholder", r.link, r.type, r.schema)]
    /\ answers' = [answers EXCEPT ![i] = <<1>>]
    /\ Touch({i})
    /\ Done(c)

InsertSecret(c, i) == call[c].op = "create" /\ Insert(c, i)
InsertPlaceholder(c, i) == call[c].op = "placeholder" /\ Insert(c, i)

\* A mistake: the version is computed before the update, by the reader.
WriteSameVersion(c) ==
    LET i == call[c].id IN
    /\ IF i \in Live
         THEN /\ secret' = [secret EXCEPT ![i].placeholder = FALSE, ![i].at = now,
                              ![i].version = IF call[c].op = "put" THEN @ + 1 ELSE 2]
              /\ answers' = [answers EXCEPT ![i] = Append(@, secret'[i].version)]
         ELSE UNCHANGED <<secret, answers>>
    /\ Touch({i})
    /\ Done(c)

\* A mistake: an update that found no row is answered like another.
WriteAnswersAnyway(c) ==
    LET i == call[c].id IN
    /\ secret' = IF i \in Live
                   THEN [secret EXCEPT ![i].version = @ + 1, ![i].placeholder = FALSE]
                   ELSE secret
    /\ answers' = [answers EXCEPT ![i] = Append(@, IF i \in Live THEN secret[i].version + 1 ELSE None)]
    /\ Touch({i})
    /\ Done(c)

\* UPDATE ... generation_version + 1 ... RETURNING: the version of the row as it
\* is now.  On a row that is gone it changes nothing and answers nothing.
Write(c) ==
    LET i == call[c].id IN
    /\ IF i \in Live
         THEN /\ secret' = [secret EXCEPT ![i].version = @ + 1, ![i].placeholder = FALSE,
                                          ![i].at = now]
              /\ answers' = [answers EXCEPT ![i] = Append(@, secret[i].version + 1)]
         ELSE UNCHANGED <<secret, answers>>
    /\ Touch({i})
    /\ Done(c)

UpdateSecretValue(c) == call[c].op = "put" /\ Write(c)
PopulateSecret(c) == call[c].op = "populate" /\ Write(c)

\* A description updates the row; tags alone only rewrite secret_tags.
Patch(c, description) ==
    LET i == call[c].id IN
    /\ call[c].op = "patch"
    /\ secret' = IF i \in Live /\ description THEN [secret EXCEPT ![i].at = now] ELSE secret
    /\ answers' = answers
    /\ Touch(IF description THEN {i} ELSE {})
    /\ Done(c)

\* The value, the type and its version, in one statement without a transaction.
\* secrets_value_or_placeholder refuses a placeholder.
AssignType(c) ==
    LET r == call[c] IN
    /\ r.op = "assign"
    /\ r.id \in Live
    /\ ~secret[r.id].placeholder
    /\ VersionOf(r.schema, r.type)
    /\ secret' = [secret EXCEPT ![r.id].type = r.type, ![r.id].schema = r.schema,
                                ![r.id].version = @ + 1, ![r.id].at = now]
    /\ answers' = answers
    /\ Touch({r.id})
    /\ Done(c)

\* linked_secret_id is ON DELETE SET NULL, which is an update of the other row.
Linked(I) == {j \in Live \ I : secret[j].link \in I}
Without(I) ==
    [j \in Ids |-> CASE j \in I -> NoRow
                     [] j \in Linked(I) -> [secret[j] EXCEPT !.link = None, !.at = now]
                     [] OTHER -> secret[j]]

Remove(I) ==
    /\ secret' = Without(I)
    /\ answers' = [i \in Ids |-> IF i \in I THEN <<>> ELSE answers[i]]
    /\ Touch(I \cup Linked(I))

Delete(c) ==
    /\ call[c].op = "delete"
    /\ Remove({call[c].id})
    /\ Done(c)

Fail(c) ==
    /\ call[c] # Idle
    /\ Done(c)
    /\ UNCHANGED <<secret, answers, list>>

\* DELETE of a folder: one statement.  The root is refused.
DeleteByPath(w, f) ==
    LET I == {i \in In(w) : secret[i].name \in Like[f]} IN
    /\ I # {}
    /\ Count
    /\ Remove(I)
    /\ UNCHANGED <<typeVars, now, call>>

NewWallet(w) == In(w) = {} /\ w \notin {call[c].wallet : c \in Busy} \cup {list.wallet}

\* A new wallet and all its secrets, placeholders linked by name, in one
\* transaction: nothing is read outside.
ImportWallet(w, at, link) ==
    /\ NewWallet(w)
    /\ \A m, n \in DOMAIN at : m # n => at[m] # at[n]
    /\ Count
    /\ secret' = [i \in Ids |->
         IF \E n \in DOMAIN at : at[n] = i
           THEN LET n == CHOOSE m \in DOMAIN at : at[m] = i IN
                  NewRow(w, n, TRUE, link[n], None, None)
           ELSE secret[i]]
    /\ answers' = [i \in Ids |-> IF i \in {at[n] : n \in DOMAIN at} THEN <<1>> ELSE answers[i]]
    /\ UNCHANGED <<typeVars, now, call, list>>

\* The purge of a wallet takes its secrets along (ON DELETE CASCADE).
PurgeWallet(w) ==
    /\ In(w) # {}
    /\ Remove(In(w))
    /\ UNCHANGED <<typeVars, now, call, asked>>

-----------------------------------------------------------------------------
(* The reads: one statement, whose answer has the version of each row *)

Told(i) == answers[i][Len(answers[i])]
Answer(I) ==
    answers' = [i \in Ids |-> IF i \in I /\ Told(i) # secret[i].version
                                THEN Append(answers[i], secret[i].version) ELSE answers[i]]

Read(I) ==
    /\ Answer(I)
    /\ UNCHANGED <<typeVars, now, secret, call, asked, list>>

\* A placeholder has no value to give (424), and only a placeholder has a
\* descriptor.
GetSecretById(w, i) == i \in In(w) /\ ~secret[i].placeholder /\ Read({i})
GetDescriptorById(w, i) == i \in In(w) /\ secret[i].placeholder /\ Read({i})
GetSecret(w, n) == \E i \in Named(w, n) : GetSecretById(w, i)
GetDescriptor(w, n) == \E i \in Named(w, n) : GetDescriptorById(w, i)
ExportWallet(w) == Read(In(w))

-----------------------------------------------------------------------------
(* The list, page after page: ORDER BY updated_at DESC, id DESC *)

\* A mistake: the cursor is compared on updated_at alone.
BeforeByDate(i, cur) == cur = <<>> \/ secret[i].at < cur[1]

\* (updated_at, id) < (cursor_updated_at, cursor_id)
Before(i, cur) ==
    \/ cur = <<>>
    \/ secret[i].at < cur[1]
    \/ secret[i].at = cur[1] /\ i < cur[2]

After(i, I) == {j \in I : secret[j].at > secret[i].at \/ (secret[j].at = secret[i].at /\ j > i)}
Sorted(I) == [k \in 1..Cardinality(I) |-> CHOOSE i \in I : Cardinality(After(i, I)) = k - 1]

\* The whole wallet, a folder without its subfolders, or the names that contain
\* a word.  Names are never changed.
InScope(w, S) == {i \in In(w) : secret[i].name \in S}

Page(w, S, cur) ==
    LET rows == Sorted({i \in InScope(w, S) : Before(i, cur)}) IN
    SubSeq(rows, 1, Min({PageSize, Len(rows)}))

StartList(w, S) ==
    /\ list = NoList
    /\ list' = [wallet |-> w, scope |-> S, more |-> TRUE, cursor |-> <<>>,
                old |-> InScope(w, S), got |-> <<>>]
    /\ Count
    /\ UNCHANGED <<typeVars, now, secretVars>>

\* A full page comes with the cursor of its last row, any other one is the last.
NextPage ==
    LET page == Page(list.wallet, list.scope, list.cursor) IN
    /\ list # NoList
    /\ list.more
    /\ list' = [list EXCEPT !.got = @ \o page,
                            !.more = Len(page) = PageSize,
                            !.cursor = IF Len(page) = PageSize
                                         THEN <<secret[page[PageSize]].at, page[PageSize]>>
                                         ELSE @]
    /\ Answer({page[k] : k \in DOMAIN page})
    /\ UNCHANGED <<typeVars, now, secret, call, asked>>

EndList ==
    /\ list # NoList
    /\ list' = NoList
    /\ UNCHANGED <<typeVars, now, secretVars, asked>>

-----------------------------------------------------------------------------
Edition ==
    /\ \/ EditRoutes /\ Count
       \/ EditStatement(Used) /\ asked' = asked
    /\ UNCHANGED <<now, secretVars, list>>

Routes(c, w) ==
    \/ \E n \in Names :
         \/ BulkImportItem(c, w, n)
         \/ \E l \in Ids \cup {None} : AskPlaceholder(c, w, n, l)
         \/ AskPut(c, w, n) \/ AskPopulate(c, w, n) \/ AskPatch(c, w, n) \/ AskDelete(c, w, n)
         \/ \E t \in Types, v \in Versions : AskCreate(c, w, n, t, v) \/ AskAssign(c, w, n, t, v)
    \/ \E i \in Ids :
         \/ AskPutById(c, w, i) \/ AskPopulateById(c, w, i)
         \/ AskPatchById(c, w, i) \/ AskDeleteById(c, w, i)
         \/ \E t \in Types, v \in Versions : AskAssignById(c, w, i, t, v)

Reads(w) ==
    \/ \E i \in Ids : GetSecretById(w, i) \/ GetDescriptorById(w, i)
    \/ \E n \in Names : GetSecret(w, n) \/ GetDescriptor(w, n)
    \/ ExportWallet(w)

Transaction(c) ==
    \/ \E i \in Ids : InsertSecret(c, i) \/ InsertPlaceholder(c, i)
    \/ UpdateSecretValue(c) \/ PopulateSecret(c) \/ AssignType(c) \/ Delete(c) \/ Fail(c)
    \/ \E b \in BOOLEAN : Patch(c, b)

Imports(w) ==
    /\ NewWallet(w)
    /\ \E N \in (SUBSET Names) \ {{}} :
        \E at \in [N -> {i \in Ids : Fresh(i)}] :
            \E link \in [N -> {at[n] : n \in N} \cup {None}] : ImportWallet(w, at, link)

Next ==
    \/ Tick
    \/ Edition
    \/ \E c \in Calls : Transaction(c) \/ \E w \in Wallets : Routes(c, w)
    \/ \E w \in Wallets :
         \/ Imports(w) \/ PurgeWallet(w) \/ Reads(w)
         \/ \E S \in Scopes : StartList(w, S)
         \/ \E f \in Folders : DeleteByPath(w, f)
    \/ NextPage \/ EndList

Spec == Init /\ [][Next]_vars

-----------------------------------------------------------------------------
(* Properties *)

TypeOK ==
    /\ TypesTypeOK
    /\ now \in Nat
    /\ secret \in [Ids -> Row \cup {NoRow}]
    /\ call \in [Calls -> Request \cup {Idle}]
    /\ asked \in Nat
    /\ answers \in [Ids -> Seq(Nat)]
    /\ list \in Listing \cup {NoList}

\* A secret is linked to a secret that exists, in its own wallet, although the
\* wallet of the link is read before the transaction that writes it.
LinksStayInWallet ==
    \A i \in Live : secret[i].link # None =>
        secret[i].link \in In(secret[i].wallet)

\* The schema that a typed secret was sealed with still exists and is one of its
\* type: its clients can read it, whatever the administrator did to the catalogue.
TypedSecretsReadable ==
    \A i \in Live :
        /\ secret[i].type = None <=> secret[i].schema = None
        /\ secret[i].type # None => VersionOf(secret[i].schema, secret[i].type)

\* Two acknowledged writes of a secret never have the same version, the one with
\* the greater version is the later one, and nobody reads an older version than
\* one that was answered before: a client can tell what it overwrote.
VersionsGrow ==
    \A i \in Ids : \A m, n \in DOMAIN answers[i] : m < n => answers[i][m] < answers[i][n]

\* A reader of a list, of a wallet or of a folder, gets every secret that nobody
\* touched meanwhile exactly once, though rows move to the front, appear and disappear between its pages.
UntouchedListedOnce ==
    list # NoList /\ ~list.more =>
        \A i \in list.old : Cardinality({k \in DOMAIN list.got : list.got[k] = i}) = 1

\* What the docstring of delete_by_path_prefix says: the deletion of a folder
\* removes the secrets whose name starts with its path, and no other; does not
\* hold, as _ matches any character in the LIKE of its DELETE.
FolderOnly ==
    [][\A w \in Wallets, f \in Folders : DeleteByPath(w, f) =>
         \A i \in Live : secret'[i] = NoRow => secret[i].name \in Prefix[f]]_vars

=============================================================================
