-------------------------- MODULE ReplicationNodes --------------------------
(***************************************************************************)
(* The standbys registered on a master: services/streaming_replication.py,   *)
(* db/repositories/replication_nodes.py, migration 026 and the node routes   *)
(* of api/v1/admin_replication.py.                                           *)
(*                                                                          *)
(* A node is a row, a PostgreSQL role and a replication slot.  The row and   *)
(* the role belong to the transaction; the slot is created and dropped at    *)
(* once, whatever becomes of the transaction.  A role name has a random      *)
(* suffix drawn by the call: a node is named here by that draw.              *)
(***************************************************************************)
EXTENDS Naturals, FiniteSets

CONSTANTS
    Draws,    \* random suffixes, one per add_node
    Labels,
    Slugs,    \* application names, which are the slot names
    SlugOf,   \* SlugOf[l]: the application name made from the label l
    Requests, \* slots for registrations and deletions in progress
    None

ASSUME SlugAssumption == SlugOf \in [Labels -> Slugs]
ASSUME NoneAssumption == None \notin Draws \cup Labels \cup Slugs

VARIABLES
    node,    \* node[d]: the label of the committed row whose role is d, or None
    role,    \* PostgreSQL roles
    slot,    \* replication slots of the master
    drawn,   \* drawn[d]: the label that the draw d was made for, or None
    streaming, \* the roles whose standby streams, through its slot
    request

nodeVars == <<node, role, slot, drawn, streaming, request>>

-----------------------------------------------------------------------------
NoRequest == [step |-> "idle"]
Adding == {"insert", "slot", "commit", "conflict"}
Deleting == {"find", "dropslot", "droprole"}
Ended == {"added", "refused", "failed", "deleted", "missing"}
Request ==
    {NoRequest}
    \cup [step : Adding \cup Deleting \cup Ended, op : {"add", "delete"}, draw : Draws \cup {None},
          label : Labels \cup {None}, force : BOOLEAN, old : Draws \cup {None}, again : BOOLEAN]

NodesInit ==
    /\ node = [d \in Draws |-> None]
    /\ role = {} /\ slot = {}
    /\ drawn = [d \in Draws |-> None]
    /\ streaming = {}
    /\ request = [r \in Requests |-> NoRequest]

Slug(d) == SlugOf[drawn[d]]

\* The nodes that the unique indexes on label and application_name refuse
\* beside a row for the label l: equal labels give equal application names.
Clashes(l) == {d \in Draws : node[d] # None /\ SlugOf[node[d]] = SlugOf[l]}

\* Rows inserted and not committed: an insertion that clashes with one waits.
Uncommitted(l) ==
    {r \in Requests : request[r].step \in {"slot", "commit"} /\ SlugOf[request[r].label] = SlugOf[l]}

\* pg_replication_slots.active.
Busy(s) == \E d \in streaming : Slug(d) = s

Goto(r, step) == request' = [request EXCEPT ![r].step = step]

-----------------------------------------------------------------------------
(* add_node *)

Unused == {d \in Draws : drawn[d] = None}

\* make_replication_user: the name is drawn once for both attempts.
Begin(r, l, force, d) ==
    /\ request[r] = NoRequest
    /\ drawn' = [drawn EXCEPT ![d] = l]
    /\ request' = [request EXCEPT ![r] = [step |-> "insert", op |-> "add", draw |-> d, label |-> l,
                                          force |-> force, old |-> None, again |-> FALSE]]
    /\ UNCHANGED <<node, role, slot, streaming>>

\* Wrong variant: a SELECT for the names instead of the unique indexes.
InsertAfterSelect(r) ==
    /\ request[r].step = "insert"
    /\ Goto(r, IF Clashes(request[r].label) = {} THEN "slot"
               ELSE IF request[r].again THEN "failed" ELSE "conflict")
    /\ UNCHANGED <<node, role, slot, drawn, streaming>>

\* CREATE ROLE and INSERT, not committed.  A second violation of uniqueness,
\* after the replacement, is not caught.
InsertRow(r) ==
    /\ request[r].step = "insert"
    /\ Uncommitted(request[r].label) = {}
    /\ Goto(r, IF Clashes(request[r].label) = {} THEN "slot"
               ELSE IF request[r].again THEN "failed" ELSE "conflict")
    /\ UNCHANGED <<node, role, slot, drawn, streaming>>

\* pg_create_physical_replication_slot, unless the slot is there.
CreateSlot(r) ==
    /\ request[r].step = "slot"
    /\ slot' = slot \cup {SlugOf[request[r].label]}
    /\ Goto(r, "commit")
    /\ UNCHANGED <<node, role, drawn, streaming>>

CommitNode(r) ==
    LET q == request[r] IN
    /\ q.step = "commit"
    /\ node' = [node EXCEPT ![q.draw] = q.label]
    /\ role' = role \cup {q.draw}
    /\ Goto(r, "added")
    /\ UNCHANGED <<slot, drawn, streaming>>

\* Wrong variant: a registration made twice is answered with the node there is.
LoadAndReuse(r) ==
    LET q == request[r] IN
    /\ q.step = "conflict"
    /\ \/ Clashes(q.label) = {} /\ Goto(r, "failed")
       \/ \E d \in Clashes(q.label) : request' = [request EXCEPT ![r].step = "added", ![r].draw = d]
    /\ UNCHANGED <<node, role, slot, drawn, streaming>>

\* _load_existing_node_details, in a statement of its own: the row may be gone.
LoadExisting(r) ==
    LET q == request[r] IN
    /\ q.step = "conflict"
    /\ \/ Clashes(q.label) = {} /\ Goto(r, "failed")
       \/ Clashes(q.label) # {} /\ ~q.force /\ Goto(r, "refused")
       \/ \E d \in Clashes(q.label) :
            /\ q.force
            /\ request' = [request EXCEPT ![r].step = "find", ![r].old = d]
    /\ UNCHANGED <<node, role, slot, drawn, streaming>>

-----------------------------------------------------------------------------
(* delete_node, for the route and for a replacement *)

AskDelete(r, d) ==
    /\ request[r] = NoRequest
    /\ request' = [request EXCEPT ![r] = [step |-> "find", op |-> "delete", draw |-> None, label |-> None,
                                          force |-> FALSE, old |-> d, again |-> FALSE]]
    /\ UNCHANGED <<node, role, slot, drawn, streaming>>

\* A replacement goes on with its second insertion whether a row was deleted
\* or not.
After(r, ended) ==
    IF request[r].op = "add"
      THEN request' = [request EXCEPT ![r].step = "insert", ![r].again = TRUE]
      ELSE Goto(r, ended)

FindNode(r) ==
    /\ request[r].step = "find"
    /\ IF node[request[r].old] = None THEN After(r, "missing") ELSE Goto(r, "dropslot")
    /\ UNCHANGED <<node, role, slot, drawn, streaming>>

\* Wrong variant: the failure is logged and the deletion goes on.
DropSlotOrGoOn(r) ==
    LET s == Slug(request[r].old) IN
    /\ request[r].step = "dropslot"
    /\ Goto(r, "droprole")
    /\ slot' = IF Busy(s) THEN slot ELSE slot \ {s}
    /\ UNCHANGED <<node, role, drawn, streaming>>

\* pg_drop_replication_slot fails on a slot in use; the error goes up.
DropSlot(r) ==
    LET s == Slug(request[r].old) IN
    /\ request[r].step = "dropslot"
    /\ IF s \in slot /\ Busy(s)
         THEN Goto(r, "failed") /\ slot' = slot
         ELSE Goto(r, "droprole") /\ slot' = slot \ {s}
    /\ UNCHANGED <<node, role, drawn, streaming>>

\* DROP ROLE IF EXISTS, DELETE of the row read before, COMMIT.
DropNode(r) ==
    LET d == request[r].old IN
    /\ request[r].step = "droprole"
    /\ role' = role \ {d}
    /\ node' = [node EXCEPT ![d] = None]
    /\ After(r, "deleted")
    /\ UNCHANGED <<slot, drawn, streaming>>

-----------------------------------------------------------------------------
\* The process or its connection dies: the transaction is rolled back, and the
\* slot stays as it is.
Break(r) ==
    /\ request[r].step \notin {"idle"} \cup Ended
    /\ Goto(r, "failed")
    /\ UNCHANGED <<node, role, slot, drawn, streaming>>

Answer(r) ==
    /\ request[r].step \in Ended
    /\ request' = [request EXCEPT ![r] = NoRequest]
    /\ UNCHANGED <<node, role, slot, drawn, streaming>>

\* A standby that was given the role connects, with primary_slot_name as
\* pg_basebackup --slot -R sets it (the manual snippets leave it empty: such a
\* standby holds nothing that a deletion looks at).
Stream(d) ==
    /\ d \in role \ streaming
    /\ Slug(d) \in slot /\ ~Busy(Slug(d))
    /\ streaming' = streaming \cup {d}
    /\ UNCHANGED <<node, role, slot, drawn, request>>

Hangup(d) ==
    /\ d \in streaming
    /\ streaming' = streaming \ {d}
    /\ UNCHANGED <<node, role, slot, drawn, request>>

Add(r) == InsertRow(r) \/ CreateSlot(r) \/ CommitNode(r) \/ LoadExisting(r)
Delete(r) == FindNode(r) \/ DropSlot(r) \/ DropNode(r)
Standby == \E d \in Draws : Stream(d) \/ Hangup(d)

-----------------------------------------------------------------------------
NodesTypeOK ==
    /\ node \in [Draws -> Labels \cup {None}]
    /\ role \subseteq Draws /\ slot \subseteq Slugs
    /\ drawn \in [Draws -> Labels \cup {None}]
    /\ streaming \subseteq Draws
    /\ request \in [Requests -> Request]

\* A registered node and its role come and go together, whatever breaks and
\* whichever registrations, replacements and deletions cross
\* (_create_role_and_insert_node, delete_node).
RowsHaveRoles == role = {d \in Draws : node[d] # None}

\* "l'admin doit déconnecter le standby d'abord": a node is not deleted, nor
\* replaced by force, while its standby streams through its slot, even when
\* the deletion read the node long before (delete_node).
StreamingIsKept ==
    [][\A d \in streaming : node[d] # None => node'[d] # None]_nodeVars

\* A registered node has its slot (pg_basebackup --slot supposes it).  Does not
\* hold: a deletion that read an old node drops the slot of the node that has
\* replaced it, and a deletion cut off after the slot leaves row and role.
SlotOfNode == \A d \in Draws : node[d] # None => SlugOf[node[d]] \in slot
=============================================================================
