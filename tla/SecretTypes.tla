---------------------------- MODULE SecretTypes ----------------------------
(***************************************************************************)
(* The catalogue of secret types and of the versions of their schemas:       *)
(* services/secret_types.py, db/repositories/secret_types.py, the routes of  *)
(* api/v1/admin_secret_types.py and the constraints of migration 006.        *)
(*                                                                          *)
(* An edit is checked, then written in another statement, so the version it  *)
(* names may have become the current one, or disappeared, in between.  What  *)
(* keeps the catalogue coherent is in the database: foreign keys, and the    *)
(* trigger enforce_current_version_belongs_to_type.  The labels, the notes   *)
(* and the schemas themselves are left out.                                  *)
(***************************************************************************)
CONSTANTS
    Types,
    Raw,       \* the system type raw/raw, seeded at the start
    Versions,  \* identifiers of rows of secret_schemas
    Schema0,   \* the catalogue at the start: the type of each version, None if
    Current0,  \* there is no such version; the current version of each type
    Edits,     \* slots for edits in progress
    None       \* the SQL NULL

ASSUME NoneIsNone == None \notin Types \cup Versions
ASSUME CatalogueAssumption ==
    /\ Schema0 \in [Versions -> Types \cup {None}]
    /\ Current0 \in [Types -> Versions \cup {None}]
    /\ \A t \in Types : Current0[t] # None => Schema0[Current0[t]] = t
    /\ Raw \in Types /\ Current0[Raw] # None

VARIABLES
    schema,      \* parent_uuid of each version, None when there is no such row
    current,     \* current_version_uuid of each type, None when there is no such row
    deprecated,  \* the types whose deprecated_at is set
    edit         \* edits between their checks and their statement

typeVars == <<schema, current, deprecated, edit>>

NoEdit == [op |-> "none"]
Edit == [op : {"current", "drop"}, type : Types, version : Versions]

TypesInit ==
    /\ schema = Schema0
    /\ current = Current0
    /\ deprecated = {}
    /\ edit = [e \in Edits |-> NoEdit]

TypeExists(t) == current[t] # None
VersionOf(v, t) == schema[v] = t

Pending == {e \in Edits : edit[e] # NoEdit}
FreshVersion(v) == schema[v] = None /\ v \notin {edit[e].version : e \in Pending}

\* The type and its first version, in one transaction.
CreateType(t, v) ==
    /\ ~TypeExists(t)
    /\ FreshVersion(v)
    /\ schema' = [schema EXCEPT ![v] = t]
    /\ current' = [current EXCEPT ![t] = v]
    /\ UNCHANGED <<deprecated, edit>>

\* The row of the type is locked while the version is numbered and inserted.
AddVersion(t, v, setAsCurrent) ==
    /\ TypeExists(t)
    /\ FreshVersion(v)
    /\ schema' = [schema EXCEPT ![v] = t]
    /\ current' = IF setAsCurrent THEN [current EXCEPT ![t] = v] ELSE current
    /\ UNCHANGED <<deprecated, edit>>

Deprecate(t) ==
    /\ TypeExists(t)
    /\ deprecated' = IF t \in deprecated THEN deprecated \ {t} ELSE deprecated \cup {t}
    /\ UNCHANGED <<schema, current, edit>>

AskEdit(e, op, t, v) ==
    /\ edit[e] = NoEdit
    /\ edit' = [edit EXCEPT ![e] = [op |-> op, type |-> t, version |-> v]]
    /\ UNCHANGED <<schema, current, deprecated>>

\* PATCH: the version is read and compared with the type.
AskCurrent(e, t, v) == TypeExists(t) /\ VersionOf(v, t) /\ AskEdit(e, "current", t, v)

\* DELETE of a version: neither of a system type nor the current one.
AskDrop(e, t, v) ==
    /\ VersionOf(v, t)
    /\ t # Raw
    /\ current[t] # v
    /\ AskEdit(e, "drop", t, v)

Close(e) == edit' = [edit EXCEPT ![e] = NoEdit]

\* The trigger refuses a version that is not one of this type any more.
SetCurrent(e) ==
    LET r == edit[e] IN
    /\ r.op = "current"
    /\ VersionOf(r.version, r.type)
    /\ current' = [current EXCEPT ![r.type] = r.version]
    /\ Close(e)
    /\ UNCHANGED <<schema, deprecated>>

\* A mistake: the references to a version are not declared ON DELETE RESTRICT,
\* and what was checked before is relied on.
DropCheckedVersion(e, used) ==
    LET v == edit[e].version IN
    /\ edit[e].op = "drop"
    /\ schema' = [schema EXCEPT ![v] = None]
    /\ Close(e)
    /\ UNCHANGED <<current, deprecated>>

\* used: the versions that secrets refer to.  They, and the current version of
\* every type, are protected by foreign keys (ON DELETE RESTRICT).
DropVersion(e, used) ==
    LET v == edit[e].version IN
    /\ edit[e].op = "drop"
    /\ v \notin used
    /\ \A t \in Types : current[t] # v
    /\ schema' = [schema EXCEPT ![v] = None]
    /\ Close(e)
    /\ UNCHANGED <<current, deprecated>>

\* Refused by a constraint, or cut off.  The deletion of a type always ends here:
\* a type has a version from its creation on, the current one cannot be deleted,
\* and parent_uuid is ON DELETE RESTRICT.
EditFails(e) ==
    /\ edit[e] # NoEdit
    /\ Close(e)
    /\ UNCHANGED <<schema, current, deprecated>>

EditRoutes ==
    \/ \E t \in Types, v \in Versions :
         \/ CreateType(t, v)
         \/ \E b \in BOOLEAN : AddVersion(t, v, b)
         \/ \E e \in Edits : AskCurrent(e, t, v) \/ AskDrop(e, t, v)
    \/ \E t \in Types : Deprecate(t)

EditStatement(used) == \E e \in Edits : SetCurrent(e) \/ DropVersion(e, used) \/ EditFails(e)

-----------------------------------------------------------------------------
TypesTypeOK ==
    /\ schema \in [Versions -> Types \cup {None}]
    /\ current \in [Types -> Versions \cup {None}]
    /\ deprecated \subseteq Types
    /\ edit \in [Edits -> Edit \cup {NoEdit}]

=============================================================================
