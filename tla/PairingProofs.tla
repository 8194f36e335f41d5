---------------------------- MODULE PairingProofs ----------------------------
(***************************************************************************)
(* The registration of standbys and the credentials they keep, for any      *)
(* number of sessions, calls, labels and role names, and any limit of the    *)
(* attempts; then the execution of a pairing: the cursor of the wizard and   *)
(* the data of the instance, for any number of sockets and calls, any steps  *)
(* to start from and any length of the wizard.                               *)
(***************************************************************************)
EXTENDS PairingRefinement, PairingExec, FiniteSetTheorems, TLAPS

-----------------------------------------------------------------------------
(* The invariant of the nodes *)

Fields ==
    [step : Adding \cup Deleting \cup Ended, op : {"add", "delete"}, draw : Draws \cup {None},
     label : Labels \cup {None}, force : BOOLEAN, old : Draws \cup {None}, again : BOOLEAN]

Active(r) == request[r] # NoRequest
Asks(r) == Active(r) /\ request[r].op = "add"
InFlight(r) == Asks(r) /\ request[r].step \notin Ended
Inserted(r) == request[r].step \in {"slot", "commit"}

\* A draw belongs to the label it was made for, and a deletion has found a node.
DrawsMatch ==
    /\ \A d \in Draws : node[d] # None => drawn[d] = node[d]
    /\ \A r \in Requests : Active(r) =>
         /\ request[r].op = "add" =>
              /\ request[r].draw \in Draws /\ request[r].label \in Labels
              /\ drawn[request[r].draw] = request[r].label
         /\ request[r].step \in Adding \cup {"added"} => request[r].op = "add"
         /\ request[r].step \in Deleting => request[r].old # None
         /\ request[r].old # None => drawn[request[r].old] # None

\* Nobody else has the draw of a request; until it ends, nothing knows its draw.
DrawsAreOwn ==
    /\ \A r, q \in Requests : r # q /\ Asks(r) /\ Asks(q) => request[r].draw # request[q].draw
    /\ \A r \in Requests : InFlight(r) =>
         /\ node[request[r].draw] = None
         /\ \A q \in Requests : Active(q) => request[q].old # request[r].draw

\* The unique indexes: a row inserted and not committed clashes with no other.
InsertedAlone ==
    \A r \in Requests : Inserted(r) =>
        /\ Clashes(request[r].label) = {}
        /\ \A q \in Requests : Inserted(q) /\ q # r => SlugOf[request[q].label] # SlugOf[request[r].label]

\* A standby streams through a slot that is there, as a role that was drawn.
StreamsHaveSlots == \A d \in streaming : drawn[d] # None /\ Slug(d) \in slot

\* Between the end of its slot and the end of its row, a node has no slot and no
\* standby: a slot of that name could only come with a row that clashes.
SlotDroppedFirst ==
    \A r \in Requests : request[r].step = "droprole" /\ node[request[r].old] # None =>
        Slug(request[r].old) \notin slot /\ request[r].old \notin streaming

NodesInv == /\ NodesTypeOK /\ DrawsMatch /\ DrawsAreOwn /\ InsertedAlone
            /\ StreamsHaveSlots /\ SlotDroppedFirst /\ RowsHaveRoles

LEMMA InitNodes == NodesInit => NodesInv
<1> SUFFICES ASSUME NodesInit PROVE NodesInv
  OBVIOUS
<1>1. NodesTypeOK
  BY DEF NodesInit, NodesTypeOK, Request
<1>2. DrawsMatch /\ DrawsAreOwn /\ InsertedAlone
  BY DEF NodesInit, DrawsMatch, DrawsAreOwn, InsertedAlone, Active, Asks, InFlight, Inserted, NoRequest
<1>3. StreamsHaveSlots /\ SlotDroppedFirst /\ RowsHaveRoles
  BY DEF NodesInit, StreamsHaveSlots, SlotDroppedFirst, RowsHaveRoles, NoRequest
<1> QED BY <1>1, <1>2, <1>3 DEF NodesInv

\* The rows of the requests.
LEMMA Requested ==
    ASSUME NodesTypeOK
    PROVE  /\ Request = Fields \cup {NoRequest}
           /\ NoRequest.step = "idle" /\ \A q \in Fields : q # NoRequest /\ q.step # "idle"
           /\ \A r \in Requests : Active(r) => request[r] \in Fields
           /\ \A r \in Requests : request[r].step # "idle" => Active(r)
BY DEF NodesTypeOK, Request, Fields, NoRequest, Active, Adding, Deleting, Ended

\* One request moves.
LEMMA OneMoves ==
    ASSUME NodesTypeOK, NEW r \in Requests, NEW q \in Request, request' = [request EXCEPT ![r] = q]
    PROVE  /\ request' \in [Requests -> Request]
           /\ request'[r] = q /\ \A p \in Requests : p # r => request'[p] = request[p]
BY DEF NodesTypeOK

\* What Goto leaves of a request.
LEMMA GoesTo ==
    ASSUME NodesTypeOK, NEW r \in Requests, Active(r), NEW s \in Adding \cup Deleting \cup Ended,
           Goto(r, s)
    PROVE  \E q \in Fields :
             /\ request' = [request EXCEPT ![r] = q]
             /\ q.step = s /\ q.op = request[r].op /\ q.draw = request[r].draw
             /\ q.label = request[r].label /\ q.old = request[r].old
<1> DEFINE o == request[r]
           q == [step |-> s, op |-> o.op, draw |-> o.draw, label |-> o.label, force |-> o.force,
                 old |-> o.old, again |-> o.again]
<1>1. o \in Fields
  BY Requested
<1>2. q \in Fields
  BY <1>1 DEF Fields
<1>3. [o EXCEPT !.step = s] = q
  BY <1>1 DEF Fields
<1>4. request' = [request EXCEPT ![r] = [o EXCEPT !.step = s]]
  BY DEF Goto
<1>5. request' = [request EXCEPT ![r] = q]
  BY <1>3, <1>4
<1> QED BY <1>2, <1>5

\* A request in flight goes on, and rows, roles and standbys stay.
LEMMA RequestGoesOn ==
    ASSUME NodesInv, NEW r \in Requests, Active(r), request[r].step \notin Ended,
           NEW q \in Fields, request' = [request EXCEPT ![r] = q],
           q.op = request[r].op, q.draw = request[r].draw, q.label = request[r].label,
           UNCHANGED <<node, role, drawn, streaming>>,
           q.step \in Adding \cup {"added"} => q.op = "add",
           q.step \in Deleting => q.old # None,
           q.old = request[r].old \/ (q.old \in Draws /\ node[q.old] # None),
           q.step \in {"slot", "commit"} =>
             (Inserted(r) \/ (Clashes(q.label) = {} /\ Uncommitted(q.label) = {})),
           slot' \subseteq Slugs, StreamsHaveSlots', SlotDroppedFirst'
    PROVE  NodesInv'
<1>1. NodesTypeOK /\ q \in Request
  BY Requested DEF NodesInv
<1>2. /\ request' \in [Requests -> Request]
      /\ request'[r] = q /\ \A p \in Requests : p # r => request'[p] = request[p]
  BY <1>1, OneMoves
<1>3. NodesTypeOK'
  BY <1>1, <1>2 DEF NodesTypeOK
<1>4. q # NoRequest
  BY <1>1, Requested
<1>5. DrawsMatch'
  BY <1>2, <1>4 DEF NodesInv, DrawsMatch, Active
<1>6. \A p \in Requests : /\ Active(p)' <=> Active(p)
                          /\ Asks(p)' <=> Asks(p)
                          /\ request'[p].draw = request[p].draw \/ p = r
                          /\ InFlight(p)' => InFlight(p)
  BY <1>2, <1>4 DEF Active, Asks, InFlight
<1>7. DrawsAreOwn'
  BY <1>2, <1>4, <1>6 DEF NodesInv, DrawsAreOwn, Active, Asks, InFlight
<1>8. InsertedAlone'
  <2>1. ASSUME NEW p \in Requests, Inserted(p)'
        PROVE  Clashes(request'[p].label) = {}
    BY <2>1, <1>2 DEF NodesInv, InsertedAlone, Inserted
  <2>2. ASSUME NEW p \in Requests, NEW o \in Requests, Inserted(p)', Inserted(o)', p # o
        PROVE  SlugOf[request'[o].label] # SlugOf[request'[p].label]
    BY <2>2, <1>2 DEF NodesInv, InsertedAlone, Inserted, Uncommitted
  <2> QED BY <2>1, <2>2 DEF InsertedAlone, Clashes
<1>9. RowsHaveRoles'
  BY DEF NodesInv, RowsHaveRoles
<1> QED BY <1>3, <1>5, <1>7, <1>8, <1>9 DEF NodesInv

\* What a request in flight leaves for the calls that made it, and for the others.
Framed ==
    /\ drawn' = drawn
    /\ \A p \in Requests :
         /\ Asks(p)' <=> Asks(p)
         /\ Asks(p) =>
              /\ request'[p].draw = request[p].draw /\ request'[p].label = request[p].label
              /\ request[p].step = "added" => request'[p].step = "added"

LEMMA FrameOfOne ==
    ASSUME NodesTypeOK, NEW r \in Requests, Active(r), request[r].step # "added",
           NEW q \in Fields, request' = [request EXCEPT ![r] = q],
           q.op = request[r].op, q.draw = request[r].draw, q.label = request[r].label,
           drawn' = drawn
    PROVE  Framed
<1>1. q \in Request /\ q # NoRequest
  BY Requested
<1> QED BY <1>1, OneMoves DEF Framed, Asks, Active

-----------------------------------------------------------------------------
(* The steps of a registration or of a deletion *)

LEMMA InsertRowKeeps ==
    ASSUME NodesInv, NEW r \in Requests, InsertRow(r)
    PROVE  NodesInv' /\ Framed
<1>1. NodesTypeOK /\ Active(r) /\ request[r].op = "add"
  BY Requested DEF NodesInv, InsertRow, DrawsMatch, Adding
<1>2. PICK s \in {"slot", "failed", "conflict"} :
        /\ Goto(r, s)
        /\ s = "slot" => Clashes(request[r].label) = {} /\ Uncommitted(request[r].label) = {}
  BY DEF InsertRow
<1>3. PICK q \in Fields :
        /\ request' = [request EXCEPT ![r] = q]
        /\ q.step = s /\ q.op = request[r].op /\ q.draw = request[r].draw
        /\ q.label = request[r].label /\ q.old = request[r].old
  BY <1>1, <1>2, GoesTo DEF Adding, Ended
<1>4. UNCHANGED <<node, role, slot, drawn, streaming>> /\ request[r].step = "insert"
  BY DEF InsertRow
<1>5. StreamsHaveSlots'
  BY <1>4 DEF NodesInv, StreamsHaveSlots, Slug
<1>6. SlotDroppedFirst'
  BY <1>1, <1>3, <1>4, OneMoves, Requested DEF NodesInv, SlotDroppedFirst, Slug
<1>7. slot' \subseteq Slugs
  BY <1>1, <1>4 DEF NodesTypeOK
<1>8. s \notin Deleting /\ request[r].step \notin Ended /\ request[r].step # "added"
  BY <1>4 DEF Deleting, Ended
<1> QED BY <1>1, <1>2, <1>3, <1>4, <1>5, <1>6, <1>7, <1>8, RequestGoesOn, FrameOfOne

LEMMA CreateSlotKeeps ==
    ASSUME NodesInv, NEW r \in Requests, CreateSlot(r)
    PROVE  NodesInv' /\ Framed
<1>1. NodesTypeOK /\ Active(r) /\ request[r].op = "add" /\ Inserted(r) /\ request[r].label \in Labels
  BY Requested DEF NodesInv, CreateSlot, DrawsMatch, Adding, Inserted
<1>2. PICK q \in Fields :
        /\ request' = [request EXCEPT ![r] = q]
        /\ q.step = "commit" /\ q.op = request[r].op /\ q.draw = request[r].draw
        /\ q.label = request[r].label /\ q.old = request[r].old
  BY <1>1, GoesTo DEF CreateSlot, Adding
<1>3. /\ UNCHANGED <<node, role, drawn, streaming>> /\ request[r].step = "slot"
      /\ slot' = slot \cup {SlugOf[request[r].label]}
  BY DEF CreateSlot
<1>4. StreamsHaveSlots'
  BY <1>3 DEF NodesInv, StreamsHaveSlots, Slug
<1>5. SlotDroppedFirst'
  <2>1. ASSUME NEW p \in Requests, request[p].step = "droprole", node[request[p].old] # None
        PROVE  Slug(request[p].old) \notin slot' /\ request[p].old \notin streaming
    <3>1. request[p] \in Fields /\ request[p].old # None
      BY <1>1, <2>1, Requested DEF NodesInv, DrawsMatch, Deleting
    <3>2. request[p].old \in Draws /\ drawn[request[p].old] = node[request[p].old]
      BY <2>1, <3>1 DEF Fields, NodesInv, DrawsMatch
    <3>3. request[p].old \notin Clashes(request[r].label)
      BY <1>1 DEF NodesInv, InsertedAlone
    <3>4. Slug(request[p].old) # SlugOf[request[r].label]
      BY <2>1, <3>2, <3>3 DEF Clashes, Slug
    <3> QED BY <1>3, <2>1, <3>4 DEF NodesInv, SlotDroppedFirst
  <2>2. \A p \in Requests : request'[p].step = "droprole" => request'[p] = request[p]
    BY <1>1, <1>2, OneMoves, Requested
  <2> QED BY <1>3, <2>1, <2>2 DEF SlotDroppedFirst, Slug
<1>6. slot' \subseteq Slugs
  BY <1>1, <1>3, SlugAssumption DEF NodesTypeOK
<1>7. request[r].step \notin Ended /\ request[r].step # "added" /\ "commit" \notin Deleting
  BY <1>3 DEF Deleting, Ended
<1> QED BY <1>1, <1>2, <1>3, <1>4, <1>5, <1>6, <1>7, RequestGoesOn, FrameOfOne

LEMMA CommitNodeKeeps ==
    ASSUME NodesInv, NEW r \in Requests, CommitNode(r)
    PROVE  NodesInv' /\ Framed
<1> DEFINE d == request[r].draw
           l == request[r].label
<1>1. /\ NodesTypeOK /\ Active(r) /\ request[r].op = "add" /\ request[r].step = "commit"
      /\ d \in Draws /\ l \in Labels /\ drawn[d] = l
  BY Requested DEF NodesInv, CommitNode, DrawsMatch, Adding
<1>2. Inserted(r) /\ InFlight(r) /\ node[d] = None
  BY <1>1 DEF NodesInv, DrawsAreOwn, InFlight, Asks, Inserted, Ended
<1>3. PICK q \in Fields :
        /\ request' = [request EXCEPT ![r] = q]
        /\ q.step = "added" /\ q.op = request[r].op /\ q.draw = d
        /\ q.label = l /\ q.old = request[r].old
  BY <1>1, GoesTo DEF CommitNode, Ended
<1>4. /\ node' = [node EXCEPT ![d] = l] /\ role' = role \cup {d}
      /\ UNCHANGED <<slot, drawn, streaming>>
  BY DEF CommitNode
<1>5. Clashes(l) = {} /\ \A p \in Requests : Inserted(p) /\ p # r => SlugOf[request[p].label] # SlugOf[l]
  BY <1>2 DEF NodesInv, InsertedAlone
<1> HIDE DEF d, l
<1>6. q \in Request /\ q # NoRequest /\ l # None /\ d # None
  BY <1>1, Requested, NoneAssumption
<1>7. /\ request' \in [Requests -> Request]
      /\ request'[r] = q /\ \A p \in Requests : p # r => request'[p] = request[p]
  BY <1>1, <1>3, <1>6, OneMoves
<1>8. node'[d] = l /\ \A e \in Draws : e # d => node'[e] = node[e]
  BY <1>1, <1>4 DEF NodesTypeOK
<1>9. NodesTypeOK'
  BY <1>1, <1>4, <1>7 DEF NodesTypeOK
<1>10. DrawsMatch'
  BY <1>1, <1>3, <1>4, <1>7, <1>8 DEF NodesInv, DrawsMatch, Active, Adding, Deleting
<1>11. DrawsAreOwn'
  <2>1. \A p \in Requests : InFlight(p)' => p # r /\ InFlight(p) /\ request[p].draw # d
    BY <1>1, <1>2, <1>3, <1>7 DEF NodesInv, DrawsAreOwn, InFlight, Asks, Active, Ended, d
  <2>2. \A p \in Requests : Asks(p)' <=> Asks(p)
    BY <1>1, <1>3, <1>6, <1>7 DEF Asks, Active
  <2>3. \A p \in Requests : Asks(p) => request'[p].draw = request[p].draw
    BY <1>3, <1>7 DEF d
  <2>4. \A p \in Requests : Active(p)' => Active(p) /\ request'[p].old = request[p].old
    BY <1>1, <1>3, <1>7 DEF Active
  <2>5. \A p \in Requests : InFlight(p)' => node'[request'[p].draw] = None
    BY <1>7, <1>8, <2>1 DEF NodesInv, DrawsAreOwn, DrawsMatch, InFlight, Asks
  <2>6. \A p, o \in Requests : InFlight(p)' /\ Active(o)' => request'[o].old # request'[p].draw
    BY <1>7, <2>1, <2>4 DEF NodesInv, DrawsAreOwn
  <2> QED BY <2>2, <2>3, <2>5, <2>6 DEF NodesInv, DrawsAreOwn
<1>12. InsertedAlone'
  <2>1. \A p \in Requests : Inserted(p)' => p # r /\ Inserted(p) /\ request'[p].label = request[p].label
    BY <1>3, <1>7 DEF Inserted
  <2>2. ASSUME NEW p \in Requests, Inserted(p)'
        PROVE  (Clashes(request[p].label))' = {}
    BY <2>1, <2>2, <1>5, <1>7, <1>8 DEF NodesInv, InsertedAlone, Clashes
  <2> QED BY <2>1, <2>2 DEF NodesInv, InsertedAlone, Clashes
<1>13. StreamsHaveSlots'
  BY <1>4 DEF NodesInv, StreamsHaveSlots, Slug
<1>14. SlotDroppedFirst'
  <2>1. \A p \in Requests : request'[p].step = "droprole" => p # r /\ request'[p] = request[p]
    BY <1>3, <1>7
  <2>2. ASSUME NEW p \in Requests, request[p].step = "droprole", node'[request[p].old] # None
        PROVE  node[request[p].old] # None
    <3>1. request[p] \in Fields /\ request[p].old # None /\ Active(p)
      BY <1>1, <2>2, Requested DEF NodesInv, DrawsMatch, Deleting
    <3>2. request[p].old \in Draws /\ request[p].old # d
      BY <1>2, <3>1 DEF Fields, NodesInv, DrawsAreOwn, d
    <3> QED BY <1>8, <2>2, <3>2
  <2> QED BY <1>4, <2>1, <2>2 DEF NodesInv, SlotDroppedFirst, Slug
<1>15. RowsHaveRoles'
  BY <1>1, <1>4, <1>6, <1>8 DEF NodesInv, RowsHaveRoles
<1>16. Framed
  BY <1>1, <1>3, <1>4, FrameOfOne DEF d, l
<1> QED BY <1>9, <1>10, <1>11, <1>12, <1>13, <1>14, <1>15, <1>16 DEF NodesInv

\* A violation of uniqueness ends the request or makes it a replacement.
LEMMA LoadExistingGoes ==
    ASSUME NodesTypeOK, NEW r \in Requests, Active(r), LoadExisting(r)
    PROVE  \E q \in Fields :
             /\ request' = [request EXCEPT ![r] = q]
             /\ q.op = request[r].op /\ q.draw = request[r].draw /\ q.label = request[r].label
             /\ \/ q.step \in {"failed", "refused"} /\ q.old = request[r].old
                \/ q.step = "find" /\ q.old \in Draws /\ node[q.old] # None
<1>1. CASE \E s \in {"failed", "refused"} : Goto(r, s)
  BY <1>1, GoesTo DEF Ended
<1>2. ASSUME NEW d \in Clashes(request[r].label),
             request' = [request EXCEPT ![r].step = "find", ![r].old = d]
      PROVE  \E q \in Fields :
               /\ request' = [request EXCEPT ![r] = q]
               /\ q.op = request[r].op /\ q.draw = request[r].draw /\ q.label = request[r].label
               /\ q.step = "find" /\ q.old \in Draws /\ node[q.old] # None
  <2> DEFINE o == request[r]
             p == [step |-> "find", op |-> o.op, draw |-> o.draw, label |-> o.label,
                   force |-> o.force, old |-> o.old, again |-> o.again]
             q == [step |-> "find", op |-> o.op, draw |-> o.draw, label |-> o.label,
                   force |-> o.force, old |-> d, again |-> o.again]
  <2>1. o \in Fields
    BY Requested
  <2>2. [o EXCEPT !.step = "find"] = p
    BY <2>1 DEF Fields
  <2>3. d \in Draws /\ node[d] # None
    BY DEF Clashes
  <2>4. q \in Fields
    BY <2>1, <2>3 DEF Fields, Deleting
  <2>5. request' = [[request EXCEPT ![r] = [o EXCEPT !.step = "find"]]
                      EXCEPT ![r] = [[request EXCEPT ![r] = [o EXCEPT !.step = "find"]][r]
                                       EXCEPT !.old = d]]
    BY <1>2
  <2>6. [request EXCEPT ![r] = [o EXCEPT !.step = "find"]][r] = p
    BY <2>2 DEF NodesTypeOK
  <2>7. [p EXCEPT !.old = d] = q
    OBVIOUS
  <2> HIDE DEF p, q, o
  <2>8. request' = [[request EXCEPT ![r] = p] EXCEPT ![r] = q]
    BY <2>2, <2>5, <2>6, <2>7
  <2>9. request' = [request EXCEPT ![r] = q]
    BY <2>8 DEF NodesTypeOK
  <2> QED BY <2>3, <2>4, <2>9 DEF q, o
<1> QED BY <1>1, <1>2 DEF LoadExisting

LEMMA LoadExistingKeeps ==
    ASSUME NodesInv, NEW r \in Requests, LoadExisting(r)
    PROVE  NodesInv' /\ Framed
<1>1. /\ NodesTypeOK /\ Active(r) /\ request[r].op = "add" /\ request[r].step = "conflict"
      /\ UNCHANGED <<node, role, slot, drawn, streaming>>
  BY Requested DEF NodesInv, LoadExisting, DrawsMatch, Adding
<1>2. StreamsHaveSlots' /\ slot' \subseteq Slugs
  BY <1>1 DEF NodesInv, StreamsHaveSlots, Slug, NodesTypeOK
<1>3. PICK q \in Fields :
        /\ request' = [request EXCEPT ![r] = q]
        /\ q.op = request[r].op /\ q.draw = request[r].draw /\ q.label = request[r].label
        /\ \/ q.step \in {"failed", "refused"} /\ q.old = request[r].old
           \/ q.step = "find" /\ q.old \in Draws /\ node[q.old] # None
  BY <1>1, LoadExistingGoes
<1>4. SlotDroppedFirst'
  BY <1>1, <1>3, OneMoves, Requested DEF NodesInv, SlotDroppedFirst, Slug
<1>5. /\ request[r].step \notin Ended /\ request[r].step # "added"
      /\ q.step \in Deleting => q.old # None
      /\ q.step \notin Adding \cup {"added"}
  BY <1>1, <1>3, NoneAssumption DEF Ended, Deleting, Adding
<1> QED BY <1>1, <1>2, <1>3, <1>4, <1>5, RequestGoesOn, FrameOfOne DEF Adding

LEMMA MarkAgain ==
    ASSUME NEW o
    PROVE  [[step |-> "insert", op |-> o.op, draw |-> o.draw, label |-> o.label, force |-> o.force,
             old |-> o.old, again |-> o.again] EXCEPT !.again = TRUE]
           = [step |-> "insert", op |-> o.op, draw |-> o.draw, label |-> o.label, force |-> o.force,
              old |-> o.old, again |-> TRUE]
<1>1. \A b : [[step |-> "insert", op |-> o.op, draw |-> o.draw, label |-> o.label, force |-> o.force,
               old |-> o.old, again |-> o.again] EXCEPT !.again = b]
             = [step |-> "insert", op |-> o.op, draw |-> o.draw, label |-> o.label, force |-> o.force,
                old |-> o.old, again |-> b]
  OBVIOUS
<1> QED BY <1>1, Zenon

\* A deletion ends, or the replacement it was for inserts again.
LEMMA AfterGoes ==
    ASSUME NodesTypeOK, NEW r \in Requests, Active(r), NEW e \in Ended, After(r, e)
    PROVE  \E q \in Fields :
             /\ request' = [request EXCEPT ![r] = q]
             /\ q.op = request[r].op /\ q.draw = request[r].draw /\ q.label = request[r].label
             /\ q.old = request[r].old
             /\ \/ q.op = "add" /\ q.step = "insert"
                \/ q.op = "delete" /\ q.step = e
<1> DEFINE o == request[r]
           p == [step |-> "insert", op |-> o.op, draw |-> o.draw, label |-> o.label,
                 force |-> o.force, old |-> o.old, again |-> o.again]
           q == [step |-> "insert", op |-> o.op, draw |-> o.draw, label |-> o.label,
                 force |-> o.force, old |-> o.old, again |-> TRUE]
<1>1. o \in Fields
  BY Requested
<1>2. CASE o.op = "add"
  <2>1. request' = [request EXCEPT ![r].step = "insert", ![r].again = TRUE]
    BY <1>2 DEF After
  <2>2. [o EXCEPT !.step = "insert"] = p
    BY <1>1 DEF Fields
  <2>3. q \in Fields
    BY <1>1 DEF Fields, Adding
  <2>4. request' = [[request EXCEPT ![r] = [o EXCEPT !.step = "insert"]]
                      EXCEPT ![r] = [[request EXCEPT ![r] = [o EXCEPT !.step = "insert"]][r]
                                       EXCEPT !.again = TRUE]]
    BY <2>1
  <2>5. [request EXCEPT ![r] = [o EXCEPT !.step = "insert"]][r] = p
    BY <2>2 DEF NodesTypeOK
  <2>6. [p EXCEPT !.again = TRUE] = q
    BY MarkAgain, Zenon
  <2> HIDE DEF p, q, o
  <2>7. request' = [[request EXCEPT ![r] = p] EXCEPT ![r] = q]
    BY <2>2, <2>4, <2>5, <2>6
  <2>8. request' = [request EXCEPT ![r] = q]
    BY <2>7 DEF NodesTypeOK
  <2> QED BY <1>2, <2>3, <2>8 DEF q, o
<1>3. CASE o.op # "add"
  <2>1. o.op = "delete"
    BY <1>1, <1>3 DEF Fields
  <2>2. Goto(r, e)
    BY <1>3 DEF After
  <2> QED BY <2>1, <2>2, GoesTo
<1> QED BY <1>2, <1>3

LEMMA FindNodeKeeps ==
    ASSUME NodesInv, NEW r \in Requests, FindNode(r)
    PROVE  NodesInv' /\ Framed
<1>1. /\ NodesTypeOK /\ Active(r) /\ request[r].step = "find" /\ request[r].old # None
      /\ UNCHANGED <<node, role, slot, drawn, streaming>>
  BY Requested DEF NodesInv, FindNode, DrawsMatch, Deleting
<1>2. StreamsHaveSlots' /\ slot' \subseteq Slugs
  BY <1>1 DEF NodesInv, StreamsHaveSlots, Slug, NodesTypeOK
<1>3. After(r, "missing") \/ Goto(r, "dropslot")
  BY DEF FindNode
<1>4. PICK q \in Fields :
        /\ request' = [request EXCEPT ![r] = q]
        /\ q.op = request[r].op /\ q.draw = request[r].draw /\ q.label = request[r].label
        /\ q.old = request[r].old
        /\ \/ q.op = "add" /\ q.step = "insert"
           \/ q.step \in {"missing", "dropslot"}
  BY <1>1, <1>3, AfterGoes, GoesTo DEF Ended, Deleting
<1>5. SlotDroppedFirst'
  BY <1>1, <1>4, OneMoves, Requested DEF NodesInv, SlotDroppedFirst, Slug
<1>6. /\ request[r].step \notin Ended /\ request[r].step # "added"
      /\ q.step \in Adding \cup {"added"} => q.op = "add"
  BY <1>1, <1>4 DEF Ended, Adding
<1> QED BY <1>1, <1>2, <1>4, <1>5, <1>6, RequestGoesOn, FrameOfOne

LEMMA DropSlotKeeps ==
    ASSUME NodesInv, NEW r \in Requests, DropSlot(r)
    PROVE  NodesInv' /\ Framed
<1> DEFINE d == request[r].old
           s == Slug(d)
<1>1. /\ NodesTypeOK /\ Active(r) /\ request[r].step = "dropslot" /\ d # None
      /\ UNCHANGED <<node, role, drawn, streaming>>
  BY Requested DEF NodesInv, DropSlot, DrawsMatch, Deleting
<1>2. \/ Goto(r, "failed") /\ slot' = slot
      \/ Goto(r, "droprole") /\ slot' = slot \ {s} /\ ~(s \in slot /\ Busy(s))
  BY DEF DropSlot
<1> HIDE DEF d, s
<1>3. PICK t \in {"failed", "droprole"} :
        /\ Goto(r, t)
        /\ t = "failed" => slot' = slot
        /\ t = "droprole" => slot' = slot \ {s} /\ ~(s \in slot /\ Busy(s))
  BY <1>2
<1>4. PICK q \in Fields :
        /\ request' = [request EXCEPT ![r] = q]
        /\ q.step = t /\ q.op = request[r].op /\ q.draw = request[r].draw
        /\ q.label = request[r].label /\ q.old = request[r].old
  BY <1>1, <1>3, GoesTo DEF Ended, Deleting
<1>5. StreamsHaveSlots'
  <2>1. ~(s \in slot /\ Busy(s)) => \A e \in streaming : Slug(e) # s
    BY DEF NodesInv, StreamsHaveSlots, Busy
  <2> QED BY <1>1, <1>3, <2>1 DEF NodesInv, StreamsHaveSlots, Slug
<1>6. SlotDroppedFirst'
  <2>1. t = "droprole" => Slug(d) \notin slot' /\ d \notin streaming
    BY <1>3 DEF NodesInv, StreamsHaveSlots, Busy, s
  <2>2. \A p \in Requests : p # r => request'[p] = request[p]
    BY <1>1, <1>4, OneMoves, Requested
  <2>3. request'[r] = q
    BY <1>1, <1>4, OneMoves, Requested
  <2>4. \A p \in Requests : request[p].step = "droprole" /\ node[request[p].old] # None =>
            Slug(request[p].old) \notin slot' /\ request[p].old \notin streaming
    BY <1>3 DEF NodesInv, SlotDroppedFirst
  <2> QED BY <1>1, <1>4, <2>1, <2>2, <2>3, <2>4 DEF SlotDroppedFirst, Slug, d
<1>7. /\ request[r].step \notin Ended /\ request[r].step # "added"
      /\ t \notin Adding \cup {"added"}
  BY <1>1 DEF Ended, Adding
<1>8. slot' \subseteq Slugs
  BY <1>1, <1>3 DEF NodesTypeOK
<1> QED BY <1>1, <1>4, <1>5, <1>6, <1>7, <1>8, RequestGoesOn, FrameOfOne DEF d, Adding

LEMMA BreakKeeps ==
    ASSUME NodesInv, NEW r \in Requests, Break(r)
    PROVE  NodesInv' /\ Framed
<1>1. /\ NodesTypeOK /\ Active(r) /\ request[r].step \notin Ended
      /\ UNCHANGED <<node, role, slot, drawn, streaming>>
  BY Requested DEF NodesInv, Break
<1>2. PICK q \in Fields :
        /\ request' = [request EXCEPT ![r] = q]
        /\ q.step = "failed" /\ q.op = request[r].op /\ q.draw = request[r].draw
        /\ q.label = request[r].label /\ q.old = request[r].old
  BY <1>1, GoesTo DEF Break, Ended
<1>3. StreamsHaveSlots' /\ slot' \subseteq Slugs
  BY <1>1 DEF NodesInv, StreamsHaveSlots, Slug, NodesTypeOK
<1>4. SlotDroppedFirst'
  BY <1>1, <1>2, OneMoves, Requested DEF NodesInv, SlotDroppedFirst, Slug
<1>5. "failed" \notin Adding \cup Deleting \cup {"added"} /\ request[r].step # "added"
  BY <1>1 DEF Adding, Deleting, Ended
<1> QED BY <1>1, <1>2, <1>3, <1>4, <1>5, RequestGoesOn, FrameOfOne DEF Adding

\* The row goes with its role, and nothing else.
LEMMA DropNodeKeeps ==
    ASSUME NodesInv, NEW r \in Requests, DropNode(r)
    PROVE  NodesInv' /\ Framed
<1> DEFINE d == request[r].old
<1>1. /\ NodesTypeOK /\ Active(r) /\ request[r].step = "droprole" /\ d # None
      /\ request[r] \in Fields /\ d \in Draws
  BY Requested DEF NodesInv, DropNode, DrawsMatch, Deleting, Fields
<1>2. /\ role' = role \ {d} /\ node' = [node EXCEPT ![d] = None]
      /\ UNCHANGED <<slot, drawn, streaming>>
  BY DEF DropNode
<1>3. PICK q \in Fields :
        /\ request' = [request EXCEPT ![r] = q]
        /\ q.op = request[r].op /\ q.draw = request[r].draw /\ q.label = request[r].label
        /\ q.old = request[r].old
        /\ \/ q.op = "add" /\ q.step = "insert"
           \/ q.op = "delete" /\ q.step = "deleted"
  BY <1>1, AfterGoes DEF DropNode, Ended
<1> HIDE DEF d
<1>4. q \in Request /\ q # NoRequest
  BY <1>1, Requested
<1>5. /\ request' \in [Requests -> Request]
      /\ request'[r] = q /\ \A p \in Requests : p # r => request'[p] = request[p]
  BY <1>1, <1>3, <1>4, OneMoves
<1>6. node'[d] = None /\ \A e \in Draws : e # d => node'[e] = node[e]
  BY <1>1, <1>2 DEF NodesTypeOK
<1>7. NodesTypeOK'
  BY <1>1, <1>2, <1>5 DEF NodesTypeOK
<1>8. DrawsMatch'
  <2>1. \A e \in Draws : node'[e] # None => drawn'[e] = node'[e]
    BY <1>2, <1>6 DEF NodesInv, DrawsMatch
  <2>2. Active(r) /\ q.step \notin Deleting
    BY <1>1, <1>3 DEF Deleting
  <2>3. q.step \in Adding \cup {"added"} => q.op = "add"
    BY <1>3 DEF Adding
  <2> QED BY <1>2, <1>3, <1>5, <2>1, <2>2, <2>3 DEF NodesInv, DrawsMatch, Active
<1>9. DrawsAreOwn'
  <2>1. \A p \in Requests : /\ InFlight(p)' => InFlight(p)
                            /\ Asks(p)' <=> Asks(p)
                            /\ Asks(p) => request'[p].draw = request[p].draw
                            /\ Active(p)' => Active(p) /\ request'[p].old = request[p].old
    BY <1>1, <1>3, <1>4, <1>5 DEF InFlight, Asks, Active, Ended
  <2>2. \A p \in Requests : InFlight(p) => request[p].draw \in Draws /\ node[request[p].draw] = None
    BY DEF NodesInv, DrawsMatch, DrawsAreOwn, InFlight, Asks
  <2>3. \A p \in Requests : InFlight(p) => node'[request[p].draw] = None
    BY <1>6, <2>2
  <2>4. \A p \in Requests : InFlight(p) => Asks(p)
    BY DEF InFlight
  <2> QED BY <2>1, <2>3, <2>4 DEF NodesInv, DrawsAreOwn
<1>10. InsertedAlone'
  <2>1. \A p \in Requests : Inserted(p)' => Inserted(p) /\ request'[p].label = request[p].label
    BY <1>3, <1>5 DEF Inserted
  <2>2. \A l \in Labels \cup {None} : (Clashes(l))' \subseteq Clashes(l)
    BY <1>6 DEF Clashes
  <2>3. \A p \in Requests : Inserted(p) => request[p].label \in Labels
    BY Requested DEF NodesInv, DrawsMatch, Inserted, Adding
  <2> QED BY <2>1, <2>2, <2>3 DEF NodesInv, InsertedAlone, Clashes
<1>11. StreamsHaveSlots'
  BY <1>2 DEF NodesInv, StreamsHaveSlots, Slug
<1>12. SlotDroppedFirst'
  <2>1. \A p \in Requests : request'[p].step = "droprole" => p # r /\ request'[p] = request[p]
    BY <1>3, <1>5
  <2>2. ASSUME NEW p \in Requests, request[p].step = "droprole", node'[request[p].old] # None
        PROVE  node[request[p].old] # None
    <3>1. request[p] \in Fields /\ request[p].old # None
      BY <1>1, <2>2, Requested DEF NodesInv, DrawsMatch, Deleting
    <3>2. request[p].old \in Draws
      BY <3>1 DEF Fields
    <3> QED BY <1>6, <2>2, <3>2
  <2> QED BY <1>2, <2>1, <2>2 DEF NodesInv, SlotDroppedFirst, Slug
<1>13. RowsHaveRoles'
  BY <1>2, <1>6 DEF NodesInv, RowsHaveRoles
<1>14. Framed
  BY <1>1, <1>2, <1>3, FrameOfOne
<1> QED BY <1>7, <1>8, <1>9, <1>10, <1>11, <1>12, <1>13, <1>14 DEF NodesInv

-----------------------------------------------------------------------------
(* Requests that begin and end, and standbys *)

\* The draw was never used: no row, no request and no deletion knows it.
LEMMA BeginKeeps ==
    ASSUME NodesInv, NEW r \in Requests, NEW l \in Labels, NEW force \in BOOLEAN,
           NEW d \in Unused, Begin(r, l, force, d)
    PROVE  /\ NodesInv'
           /\ drawn' = [drawn EXCEPT ![d] = l]
           /\ request'[r].draw = d /\ request'[r].label = l /\ Asks(r)'
           /\ \A p \in Requests : p # r => request'[p] = request[p]
<1> DEFINE q == [step |-> "insert", op |-> "add", draw |-> d, label |-> l,
                 force |-> force, old |-> None, again |-> FALSE]
<1>1. /\ NodesTypeOK /\ request[r] = NoRequest /\ d \in Draws /\ drawn[d] = None /\ l # None
      /\ l # None
  BY NoneAssumption DEF NodesInv, Begin, Unused
<1>2. /\ drawn' = [drawn EXCEPT ![d] = l] /\ request' = [request EXCEPT ![r] = q]
      /\ UNCHANGED <<node, role, slot, streaming>>
  BY DEF Begin
<1>3. /\ q \in Fields /\ q.step = "insert" /\ q.op = "add" /\ q.draw = d /\ q.label = l
      /\ q.old = None
  BY <1>1 DEF Fields, Adding
<1> HIDE DEF q
<1>4. q \in Request /\ q # NoRequest
  BY <1>1, <1>3, Requested
<1>5. /\ request' \in [Requests -> Request]
      /\ request'[r] = q /\ \A p \in Requests : p # r => request'[p] = request[p]
  BY <1>1, <1>2, <1>4, OneMoves
<1>6. drawn'[d] = l /\ \A e \in Draws : e # d => drawn'[e] = drawn[e]
  BY <1>1, <1>2 DEF NodesTypeOK
<1>7. NodesTypeOK'
  BY <1>1, <1>2, <1>5 DEF NodesTypeOK
<1>8. node[d] = None
  BY <1>1 DEF NodesInv, DrawsMatch
<1>9. \A p \in Requests : Active(p) => p # r /\ request[p].old # d /\ (Asks(p) => request[p].draw # d)
  <2>1. d # None
    BY <1>1, NoneAssumption
  <2>2. \A p \in Requests : Active(p) => p # r /\ request[p].old # d
    BY <1>1, <2>1 DEF NodesInv, DrawsMatch, Active
  <2>3. \A p \in Requests : Asks(p) => drawn[request[p].draw] \in Labels
    BY DEF NodesInv, DrawsMatch, Asks
  <2> QED BY <1>1, <2>2, <2>3, NoneAssumption
<1>10. DrawsMatch'
  <2>1. \A e \in Draws : node'[e] # None => drawn'[e] = node'[e]
    BY <1>2, <1>6, <1>8 DEF NodesInv, DrawsMatch
  <2>2. ASSUME NEW p \in Requests, Active(p), p # r
        PROVE  /\ request[p].op = "add" => drawn'[request[p].draw] = drawn[request[p].draw]
               /\ request[p].old # None => drawn'[request[p].old] = drawn[request[p].old]
    BY <1>1, <1>6, <1>9, <2>2, Requested DEF NodesInv, DrawsMatch, Asks, Fields
  <2> QED BY <1>1, <1>3, <1>5, <1>6, <2>1, <2>2 DEF NodesInv, DrawsMatch, Active, Adding, Deleting
<1>11. DrawsAreOwn'
  <2>1. \A p \in Requests : p # r => (Asks(p)' <=> Asks(p)) /\ (InFlight(p)' <=> InFlight(p)) /\ (Active(p)' <=> Active(p))
    BY <1>5 DEF Active, Asks, InFlight
  <2>2. ASSUME NEW p \in Requests, NEW o \in Requests, p # o, Asks(p)', Asks(o)'
        PROVE  request'[p].draw # request'[o].draw
    BY <1>3, <1>5, <1>9, <2>1, <2>2 DEF NodesInv, DrawsAreOwn, Asks
  <2>3. ASSUME NEW p \in Requests, InFlight(p)'
        PROVE  node'[request'[p].draw] = None
    BY <1>2, <1>3, <1>5, <1>8, <2>1, <2>3 DEF NodesInv, DrawsAreOwn
  <2>4. ASSUME NEW p \in Requests, NEW o \in Requests, InFlight(p)', Active(o)'
        PROVE  request'[o].old # request'[p].draw
    <3>1. request'[p].draw \in Draws
      BY <1>1, <1>3, <1>5, <2>1, <2>4 DEF NodesInv, DrawsMatch, InFlight, Asks
    <3>2. CASE o = r
      BY <1>3, <1>5, <3>1, <3>2, NoneAssumption
    <3>3. CASE o # r
      BY <1>3, <1>5, <1>9, <2>1, <2>4, <3>3 DEF NodesInv, DrawsAreOwn
    <3> QED BY <3>2, <3>3
  <2> QED BY <2>2, <2>3, <2>4 DEF DrawsAreOwn
<1>12. InsertedAlone'
  BY <1>2, <1>3, <1>5 DEF NodesInv, InsertedAlone, Inserted, Clashes
<1>13. StreamsHaveSlots'
  BY <1>1, <1>2, <1>6 DEF NodesInv, StreamsHaveSlots, Slug, NodesTypeOK
<1>14. SlotDroppedFirst'
  <2>1. ASSUME NEW p \in Requests, request'[p].step = "droprole", node'[request'[p].old] # None
        PROVE  SlugOf[drawn'[request'[p].old]] \notin slot' /\ request'[p].old \notin streaming'
    <3>1. p # r /\ request'[p] = request[p] /\ request[p] \in Fields /\ Active(p)
      BY <1>1, <1>3, <1>5, <2>1, Requested
    <3>2. request[p].old # None
      BY <2>1, <3>1 DEF NodesInv, DrawsMatch, Deleting
    <3>3. request[p].old \in Draws /\ request[p].old # d
      BY <1>9, <3>1, <3>2 DEF Fields
    <3> QED BY <1>2, <1>6, <2>1, <3>1, <3>3 DEF NodesInv, SlotDroppedFirst, Slug
  <2> QED BY <2>1 DEF SlotDroppedFirst, Slug
<1>15. RowsHaveRoles'
  BY <1>2 DEF NodesInv, RowsHaveRoles
<1>16. Asks(r)'
  BY <1>3, <1>4, <1>5 DEF Asks, Active
<1> QED BY <1>2, <1>3, <1>5, <1>7, <1>10, <1>11, <1>12, <1>13, <1>14, <1>15, <1>16 DEF NodesInv

LEMMA AskDeleteKeeps ==
    ASSUME NodesInv, NEW r \in Requests, NEW d \in Draws, node[d] # None, AskDelete(r, d)
    PROVE  /\ NodesInv' /\ drawn' = drawn /\ ~Asks(r) /\ ~Asks(r)'
           /\ \A p \in Requests : p # r => request'[p] = request[p]
<1> DEFINE q == [step |-> "find", op |-> "delete", draw |-> None, label |-> None,
                 force |-> FALSE, old |-> d, again |-> FALSE]
<1>1. /\ NodesTypeOK /\ request[r] = NoRequest /\ drawn[d] # None
      /\ UNCHANGED <<node, role, slot, drawn, streaming>>
  BY DEF NodesInv, AskDelete, DrawsMatch
<1>2. request' = [request EXCEPT ![r] = q]
  BY DEF AskDelete
<1>3. q \in Fields /\ q.step = "find" /\ q.op = "delete" /\ q.old = d /\ d # None
  BY NoneAssumption DEF Fields, Deleting
<1> HIDE DEF q
<1>4. q \in Request /\ q # NoRequest
  BY <1>1, <1>3, Requested
<1>5. /\ request' \in [Requests -> Request]
      /\ request'[r] = q /\ \A p \in Requests : p # r => request'[p] = request[p]
  BY <1>1, <1>2, <1>4, OneMoves
<1>6. /\ ~Asks(r) /\ ~Asks(r)' /\ ~Inserted(r)'
      /\ \A p \in Requests : p # r => /\ Asks(p)' <=> Asks(p)
                                      /\ InFlight(p)' <=> InFlight(p)
                                      /\ Active(p)' <=> Active(p)
                                      /\ Inserted(p)' <=> Inserted(p)
  BY <1>1, <1>3, <1>5 DEF Asks, Active, InFlight, Inserted
<1>7. NodesTypeOK'
  BY <1>1, <1>5 DEF NodesTypeOK
<1>8. DrawsMatch'
  BY <1>1, <1>3, <1>5, <1>6 DEF NodesInv, DrawsMatch, Active, Adding
<1>9. DrawsAreOwn'
  <2>1. ASSUME NEW p \in Requests, NEW o \in Requests, p # o, Asks(p)', Asks(o)'
        PROVE  request'[p].draw # request'[o].draw
    BY <1>5, <1>6, <2>1 DEF NodesInv, DrawsAreOwn
  <2>2. ASSUME NEW p \in Requests, InFlight(p)'
        PROVE  /\ node'[request'[p].draw] = None
               /\ \A o \in Requests : Active(o)' => request'[o].old # request'[p].draw
    <3>1. p # r
      BY <1>6, <2>2 DEF InFlight
    <3> QED BY <1>1, <1>3, <1>5, <1>6, <2>2, <3>1 DEF NodesInv, DrawsAreOwn
  <2> QED BY <2>1, <2>2 DEF DrawsAreOwn
<1>10. InsertedAlone'
  BY <1>1, <1>5, <1>6 DEF NodesInv, InsertedAlone, Clashes
<1>11. StreamsHaveSlots' /\ RowsHaveRoles'
  BY <1>1 DEF NodesInv, StreamsHaveSlots, RowsHaveRoles, Slug
<1>12. SlotDroppedFirst'
  BY <1>1, <1>3, <1>5 DEF NodesInv, SlotDroppedFirst, Slug
<1> QED BY <1>1, <1>5, <1>6, <1>7, <1>8, <1>9, <1>10, <1>11, <1>12 DEF NodesInv

\* A request is forgotten.
LEMMA ForgetKeeps ==
    ASSUME NodesInv, NEW r \in Requests, request' = [request EXCEPT ![r] = NoRequest],
           UNCHANGED <<node, role, slot, drawn, streaming>>
    PROVE  /\ NodesInv' /\ ~Asks(r)'
           /\ \A p \in Requests : p # r => request'[p] = request[p]
<1>1. NodesTypeOK
  BY DEF NodesInv
<1>2. NoRequest \in Request
  BY DEF Request
<1>3. /\ request' \in [Requests -> Request]
      /\ request'[r] = NoRequest /\ \A p \in Requests : p # r => request'[p] = request[p]
  BY <1>1, <1>2, OneMoves
<1>4. NodesTypeOK'
  BY <1>1, <1>3 DEF NodesTypeOK
<1>5. \A p \in Requests : Active(p)' => p # r
  BY <1>3 DEF Active
<1>6. DrawsMatch'
  BY <1>3, <1>5 DEF NodesInv, DrawsMatch, Active
<1>7. \A p \in Requests : /\ Active(p)' => Active(p) /\ p # r
                          /\ Asks(p)' => Asks(p) /\ p # r
                          /\ InFlight(p)' => InFlight(p) /\ p # r
  BY <1>3, <1>5 DEF Active, Asks, InFlight
<1>8. DrawsAreOwn'
  <2>1. ASSUME NEW p \in Requests, NEW o \in Requests, p # o, Asks(p)', Asks(o)'
        PROVE  request'[p].draw # request'[o].draw
    BY <1>3, <1>7, <2>1 DEF NodesInv, DrawsAreOwn
  <2>2. ASSUME NEW p \in Requests, InFlight(p)'
        PROVE  /\ node'[request'[p].draw] = None
               /\ \A o \in Requests : Active(o)' => request'[o].old # request'[p].draw
    BY <1>3, <1>7, <2>2 DEF NodesInv, DrawsAreOwn
  <2> QED BY <2>1, <2>2 DEF DrawsAreOwn
<1>9. NoRequest.step = "idle"
  BY DEF NoRequest
<1>10. InsertedAlone'
  BY <1>3, <1>9 DEF NodesInv, InsertedAlone, Inserted, Clashes
<1>11. StreamsHaveSlots' /\ RowsHaveRoles'
  BY DEF NodesInv, StreamsHaveSlots, RowsHaveRoles, Slug
<1>12. SlotDroppedFirst'
  BY <1>3, <1>9 DEF NodesInv, SlotDroppedFirst, Slug
<1> QED BY <1>3, <1>4, <1>5, <1>6, <1>8, <1>10, <1>11, <1>12 DEF NodesInv, Asks

\* A standby connects only where a slot is, and a node that is being dropped has
\* none left.
LEMMA StandbyKeeps ==
    ASSUME NodesInv, Standby
    PROVE  NodesInv' /\ Framed
<1>1. PICK d \in Draws : Stream(d) \/ Hangup(d)
  BY DEF Standby
<1>2. /\ UNCHANGED <<node, role, slot, drawn, request>>
      /\ streaming' \subseteq streaming \cup {d}
      /\ d \in streaming' => d \in streaming \/ (d \in role /\ Slug(d) \in slot)
  BY <1>1 DEF Stream, Hangup
<1>3. NodesTypeOK'
  BY <1>2 DEF NodesInv, NodesTypeOK
<1>4. DrawsMatch' /\ DrawsAreOwn' /\ InsertedAlone' /\ RowsHaveRoles'
  BY <1>2 DEF NodesInv, DrawsMatch, DrawsAreOwn, InsertedAlone, RowsHaveRoles, Active, Asks,
              InFlight, Inserted, Clashes
<1>5. StreamsHaveSlots'
  BY <1>2 DEF NodesInv, StreamsHaveSlots, RowsHaveRoles, DrawsMatch, Slug
<1>6. SlotDroppedFirst'
  BY <1>2 DEF NodesInv, SlotDroppedFirst, Slug
<1>7. Framed
  BY <1>2 DEF Framed, Asks, Active
<1> QED BY <1>3, <1>4, <1>5, <1>6, <1>7 DEF NodesInv

LEMMA RegistrationKeeps ==
    ASSUME NodesInv, Registration
    PROVE  NodesInv' /\ Framed
BY InsertRowKeeps, CreateSlotKeeps, CommitNodeKeeps, LoadExistingKeeps, FindNodeKeeps, DropSlotKeeps,
   DropNodeKeeps, BreakKeeps, StandbyKeeps DEF Registration, Add, Delete

-----------------------------------------------------------------------------
(* The invariant of the calls *)

Row == [kind : {"v1", "v2"}, status : {"pending", "confirmed", "failed"},
        attempts : Nat, payload : Draws \cup {None}]

CallsTyped ==
    /\ session \in [Sessions -> Row \cup {NoSession}]
    /\ call \in [Calls -> Call \cup AnsweredCall \cup {NoCall}]
    /\ wizard \in [Calls -> Draws \cup {None}]
    /\ passed \in [Sessions -> SUBSET Calls]

Moving == {"count", "over", "check", "add", "store", "answer"}
HasNode(c) == call[c].step \in {"add", "store"} \/ (call[c].step = "answer" /\ call[c].result = "ok")

\* A call on a session that is there, registering a node under its own label.
CallOwn(c) ==
    /\ call[c].step \in Moving => session[call[c].session] # NoSession
    /\ HasNode(c) => Asks(c) /\ request[c].label = call[c].label

\* What a standby has kept comes from its own call, and no other may have it.
WizardOwn(c) ==
    wizard[c] # None =>
      /\ call[c].step = "end" /\ drawn[wizard[c]] = call[c].label
      /\ \A r \in Requests : Asks(r) => request[r].draw # wizard[c]
      /\ \A b \in Calls \ {c} : wizard[b] # wizard[c]

\* The calls past the threshold are among those that were counted.
Passed(s) ==
    /\ IsFiniteSet(passed[s]) /\ Cardinality(passed[s]) <= MaxAttempts
    /\ IF session[s] = NoSession THEN passed[s] = {}
       ELSE Cardinality(passed[s]) <= session[s].attempts

Inv == /\ NodesInv /\ CallsTyped
       /\ \A c \in Calls : CallOwn(c) /\ WizardOwn(c)
       /\ \A s \in Sessions : Passed(s)

\* What every step leaves of the draws and of the requests of the calls.
Kept ==
    /\ \A d \in Draws : drawn[d] # None => drawn'[d] = drawn[d]
    /\ \A r \in Requests : Asks(r)' =>
         (Asks(r) /\ request'[r].draw = request[r].draw) \/ drawn[request'[r].draw] = None
    /\ \A c \in Calls : Asks(c) => Asks(c)' /\ request'[c].label = request[c].label

LEMMA FramedIsKept == ASSUME Framed PROVE Kept
BY RequestsAssumption DEF Framed, Kept

LEMMA Kinds ==
    /\ NoCall.step = "idle" /\ \A x \in AnsweredCall : x.step = "end" /\ x.label \in Labels
    /\ \A x \in Call : /\ x.step \in Moving /\ x.session \in Sessions /\ x.label \in Labels
                       /\ x.force \in BOOLEAN
    /\ \A x \in Row : x.attempts \in Nat /\ x # NoSession
BY DEF NoCall, AnsweredCall, Call, Moving, Row, NoSession

LEMMA MovingCalls ==
    ASSUME CallsTyped, NEW c \in Calls, call[c].step \in Moving
    PROVE  call[c] \in Call
BY Kinds DEF CallsTyped, Moving

LEMMA CallsGoOn ==
    ASSUME Inv, Kept, wizard' = wizard,
           \A s \in Sessions : session[s] # NoSession => session'[s] # NoSession,
           \A b \in Calls : call'[b] = call[b] \/ (call[b].step # "end" /\ CallOwn(b)')
    PROVE  \A c \in Calls : CallOwn(c)' /\ WizardOwn(c)'
<1>1. ASSUME NEW c \in Calls PROVE CallOwn(c)'
  <2>1. CASE call'[c] = call[c]
    <3>1. call[c].step \in Moving => session'[call[c].session] # NoSession
      BY MovingCalls, Kinds DEF Inv, CallOwn
    <3>2. HasNode(c) => Asks(c)' /\ request'[c].label = call[c].label
      BY DEF Inv, CallOwn, Kept
    <3> QED BY <2>1, <3>1, <3>2 DEF CallOwn, HasNode
  <2> QED BY <2>1
<1>2. ASSUME NEW c \in Calls, wizard[c] # None PROVE WizardOwn(c)'
  <2>1. call[c].step = "end" /\ call'[c] = call[c]
    BY <1>2 DEF Inv, WizardOwn
  <2>2. call[c].label \in Labels /\ wizard[c] \in Draws
    BY <1>2, <2>1, Kinds DEF Inv, CallsTyped, Moving
  <2>3. drawn[wizard[c]] # None /\ drawn'[wizard[c]] = call[c].label
    BY <1>2, <2>2, NoneAssumption DEF Inv, WizardOwn, Kept
  <2>4. ASSUME NEW r \in Requests, Asks(r)' PROVE request'[r].draw # wizard[c]
    BY <1>2, <2>3, <2>4 DEF Inv, WizardOwn, Kept
  <2>5. \A b \in Calls \ {c} : wizard[b] # wizard[c]
    BY <1>2 DEF Inv, WizardOwn
  <2> QED BY <2>1, <2>3, <2>4, <2>5 DEF WizardOwn
<1> QED BY <1>1, <1>2 DEF WizardOwn

LEMMA NodesStay ==
    ASSUME NodesInv, UNCHANGED nodeVars
    PROVE  NodesInv' /\ Kept
<1>1. NodesTypeOK' /\ StreamsHaveSlots' /\ SlotDroppedFirst' /\ RowsHaveRoles'
  BY DEF NodesInv, nodeVars, NodesTypeOK, StreamsHaveSlots, SlotDroppedFirst, RowsHaveRoles, Slug
<1>2. DrawsMatch' /\ DrawsAreOwn' /\ InsertedAlone'
  BY DEF NodesInv, nodeVars, DrawsMatch, DrawsAreOwn, InsertedAlone, Active, Asks, InFlight,
         Inserted, Clashes
<1>3. Kept
  BY DEF nodeVars, Kept, Asks, Active
<1> QED BY <1>1, <1>2, <1>3 DEF NodesInv

LEMMA CallResumes ==
    ASSUME CallsTyped, NEW c \in Calls, call[c] \in Call,
           NEW step \in Moving, Resume(c, step)
    PROVE  \E x \in Call : /\ call' = [call EXCEPT ![c] = x]
                          /\ x.step = step /\ x.session = call[c].session
                          /\ x.label = call[c].label /\ x.result = call[c].result
<1> DEFINE o == call[c]
           x == [step |-> step, session |-> o.session, label |-> o.label, good |-> o.good,
                 force |-> o.force, read |-> o.read, result |-> o.result]
<1>1. [o EXCEPT !.step = step] = x
  BY DEF Call
<1>2. x \in Call
  BY DEF Call, Moving
<1> QED BY <1>1, <1>2 DEF Resume

LEMMA CallReplies ==
    ASSUME CallsTyped, NEW c \in Calls, call[c] \in Call,
           NEW result \in {"ok", "refused"}, Reply(c, result)
    PROVE  \E x \in Call : /\ call' = [call EXCEPT ![c] = x]
                          /\ x.step = "answer" /\ x.session = call[c].session
                          /\ x.label = call[c].label /\ x.result = result
<1> DEFINE o == call[c]
           y == [step |-> "answer", session |-> o.session, label |-> o.label, good |-> o.good,
                 force |-> o.force, read |-> o.read, result |-> o.result]
           x == [step |-> "answer", session |-> o.session, label |-> o.label, good |-> o.good,
                 force |-> o.force, read |-> o.read, result |-> result]
<1>1. [o EXCEPT !.step = "answer"] = y
  BY DEF Call
<1>2. x \in Call
  BY DEF Call
<1>3. call' = [[call EXCEPT ![c] = [o EXCEPT !.step = "answer"]]
                 EXCEPT ![c] = [[call EXCEPT ![c] = [o EXCEPT !.step = "answer"]][c]
                                  EXCEPT !.result = result]]
  BY DEF Reply
<1>4. [call EXCEPT ![c] = [o EXCEPT !.step = "answer"]][c] = y
  BY <1>1 DEF CallsTyped
<1>5. [y EXCEPT !.result = result] = x
  BY DEF Call
<1> HIDE DEF x, y, o
<1>6. call' = [[call EXCEPT ![c] = y] EXCEPT ![c] = x]
  BY <1>1, <1>3, <1>4, <1>5
<1>7. call' = [call EXCEPT ![c] = x]
  BY <1>6 DEF CallsTyped
<1> QED BY <1>2, <1>7 DEF x, o

\* A call in progress moves; the rest of the invariant is known.
LEMMA CallMoves ==
    ASSUME Inv, NodesInv', Kept, NEW c \in Calls, call[c] \in Call, NEW x \in Call,
           call' = [call EXCEPT ![c] = x],
           x.session = call[c].session, x.label = call[c].label,
           x.step \in {"add", "store"} \/ (x.step = "answer" /\ x.result = "ok")
             => Asks(c)' /\ request'[c].label = x.label,
           session' \in [Sessions -> Row \cup {NoSession}],
           \A s \in Sessions : session[s] # NoSession => session'[s] # NoSession,
           passed' \in [Sessions -> SUBSET Calls], wizard' = wizard,
           \A s \in Sessions : Passed(s)'
    PROVE  Inv'
<1>1. call'[c] = x /\ \A b \in Calls : b # c => call'[b] = call[b]
  BY DEF Inv, CallsTyped
<1>2. CallsTyped'
  BY DEF Inv, CallsTyped
<1>3. call[c].step \in Moving /\ call[c].step # "end"
  BY Kinds DEF Moving
<1>4. CallOwn(c)'
  BY <1>1, <1>3, Kinds DEF Inv, CallOwn, HasNode
<1>5. \A b \in Calls : CallOwn(b)' /\ WizardOwn(b)'
  BY <1>1, <1>3, <1>4, CallsGoOn DEF Inv, CallsTyped
<1> QED BY <1>2, <1>5 DEF Inv

\* Rewriting a session that is there.
LEMMA SessionRewritten ==
    ASSUME CallsTyped, NEW s \in Sessions, session[s] # NoSession,
           NEW x \in Row, session' = [session EXCEPT ![s] = x]
    PROVE  /\ session' \in [Sessions -> Row \cup {NoSession}]
           /\ session'[s] = x /\ \A t \in Sessions : t # s => session'[t] = session[t]
           /\ \A t \in Sessions : session'[t] = NoSession <=> session[t] = NoSession
BY Kinds DEF CallsTyped

LEMMA GuessesStay ==
    ASSUME CallsTyped, \A s \in Sessions : Passed(s), passed' = passed,
           \A s \in Sessions : session'[s] = NoSession <=> session[s] = NoSession,
           session \in [Sessions -> Row \cup {NoSession}],
           session' \in [Sessions -> Row \cup {NoSession}],
           \A s \in Sessions : session[s] # NoSession => session'[s].attempts >= session[s].attempts
    PROVE  \A s \in Sessions : Passed(s)'
<1> SUFFICES ASSUME NEW s \in Sessions PROVE Passed(s)'
  OBVIOUS
<1>1. Passed(s)
  OBVIOUS
<1>2. CASE session[s] = NoSession
  BY <1>1, <1>2 DEF Passed
<1>3. CASE session[s] # NoSession
  <2>1. Cardinality(passed[s]) \in Nat
    BY <1>1, FS_CardinalityType DEF Passed
  <2>2. session[s].attempts \in Nat /\ session'[s].attempts \in Nat
    BY <1>3, Kinds
  <2> QED BY <1>1, <1>3, <2>1, <2>2 DEF Passed
<1> QED BY <1>2, <1>3

-----------------------------------------------------------------------------
(* The steps of the master *)

LEMMA CountAttemptKeeps ==
    ASSUME Inv, NEW c \in Calls, CountAttempt(c)
    PROVE  Inv'
<1>0. CallsTyped /\ call[c] \in Call
  BY MovingCalls DEF Inv, CountAttempt, Moving
<1> PICK s \in Sessions : s = call[c].session
  BY <1>0, Kinds
<1> DEFINE o == session[s]
           n == o.attempts + 1
           y == [kind |-> o.kind, status |-> o.status, attempts |-> n, payload |-> o.payload]
<1>1. CallsTyped /\ call[c] \in Call /\ o # NoSession /\ o \in Row
  BY <1>0, Kinds DEF Inv, CallOwn, CallsTyped
<1>2. o.attempts \in Nat /\ n \in Nat
  BY <1>1, Kinds
<1>3. y \in Row
  BY <1>1, <1>2 DEF Row
<1>4. session' = [session EXCEPT ![s] = [o EXCEPT !.attempts = n]]
  BY DEF CountAttempt
<1>5. [o EXCEPT !.attempts = n] = y
  BY <1>1 DEF Row
<1>6. session' = [session EXCEPT ![s] = y]
  BY <1>4, <1>5
<1>7. /\ UNCHANGED <<nodeVars, wizard>>
      /\ \/ Resume(c, "over") /\ UNCHANGED passed
         \/ Resume(c, "check") /\ n <= MaxAttempts /\ passed' = [passed EXCEPT ![s] = @ \cup {c}]
  BY <1>2, AttemptsAssumption DEF CountAttempt, standbyVars
<1>8. y.attempts = n
  OBVIOUS
<1> HIDE DEF y
<1>9. /\ session' \in [Sessions -> Row \cup {NoSession}]
      /\ session'[s] = y /\ \A t \in Sessions : t # s => session'[t] = session[t]
      /\ \A t \in Sessions : session'[t] = NoSession <=> session[t] = NoSession
  BY <1>1, <1>3, <1>6, SessionRewritten
<1>10. PICK x \in Call : /\ call' = [call EXCEPT ![c] = x]
                         /\ x.step \in {"over", "check"} /\ x.session = call[c].session
                         /\ x.label = call[c].label
  BY <1>1, <1>7, CallResumes DEF Moving
<1>11. passed' \in [Sessions -> SUBSET Calls]
  BY <1>1, <1>7 DEF CallsTyped
<1>12. \A t \in Sessions : Passed(t)'
  <2>1. CASE passed' = passed
    <3>1. \A t \in Sessions : session[t] # NoSession => session[t].attempts \in Nat
      BY <1>1, Kinds DEF CallsTyped
    <3> HIDE DEF n
    <3>2. \A t \in Sessions : session[t] # NoSession => session'[t].attempts >= session[t].attempts
      BY <1>1, <1>2, <1>8, <1>9, <3>1 DEF n
    <3> QED BY <1>1, <1>9, <2>1, <3>2, GuessesStay DEF Inv, CallsTyped
  <2>2. CASE n <= MaxAttempts /\ passed' = [passed EXCEPT ![s] = @ \cup {c}]
    <3>1. \A t \in Sessions : t # s => passed'[t] = passed[t]
      BY <1>1, <2>2 DEF CallsTyped
    <3>2. passed'[s] = passed[s] \cup {c}
      BY <1>1, <2>2 DEF CallsTyped
    <3>3. IsFiniteSet(passed[s]) /\ Cardinality(passed[s]) <= o.attempts
      BY <1>1 DEF Inv, Passed
    <3>4. /\ IsFiniteSet(passed'[s])
          /\ Cardinality(passed'[s]) = Cardinality(passed[s])
             \/ Cardinality(passed'[s]) = Cardinality(passed[s]) + 1
      <4>1. CASE c \in passed[s]
        <5>1. passed[s] \cup {c} = passed[s]
          BY <4>1
        <5> QED BY <3>2, <3>3, <5>1
      <4>2. CASE c \notin passed[s]
        <5>1. \A S : IsFiniteSet(S) /\ c \notin S =>
                IsFiniteSet(S \cup {c}) /\ Cardinality(S \cup {c}) = Cardinality(S) + 1
          BY FS_AddElement
        <5>2. /\ IsFiniteSet(passed[s] \cup {c})
              /\ Cardinality(passed[s] \cup {c}) = Cardinality(passed[s]) + 1
          BY <3>3, <4>2, <5>1
        <5> QED BY <3>2, <5>2
      <4> QED BY <4>1, <4>2
    <3>5. Cardinality(passed[s]) \in Nat
      BY <3>3, FS_CardinalityType
    <3>6. Cardinality(passed'[s]) <= n
      BY <1>2, <3>3, <3>4, <3>5
    <3>7. Cardinality(passed'[s]) <= MaxAttempts
      BY <1>2, <2>2, <3>4, <3>5, <3>6, AttemptsAssumption
    <3>8. Passed(s)'
      BY <1>1, <1>3, <1>8, <1>9, <3>4, <3>6, <3>7, Kinds DEF Passed
    <3>9. \A t \in Sessions : t # s => Passed(t)'
      BY <1>9, <3>1 DEF Inv, Passed
    <3> QED BY <3>8, <3>9
  <2> QED BY <1>7, <2>1, <2>2
<1>13. NodesInv' /\ Kept
  BY <1>7, NodesStay DEF Inv
<1> QED BY <1>1, <1>7, <1>9, <1>10, <1>11, <1>12, <1>13, CallMoves

LEMMA CloseSessionKeeps ==
    ASSUME Inv, NEW c \in Calls, CloseSession(c)
    PROVE  Inv'
<1>0. CallsTyped /\ call[c] \in Call
  BY MovingCalls DEF Inv, CloseSession, Moving
<1> PICK s \in Sessions : s = call[c].session
  BY <1>0, Kinds
<1> DEFINE o == session[s]
           y == [kind |-> o.kind, status |-> "failed", attempts |-> o.attempts, payload |-> o.payload]
<1>1. o # NoSession /\ o \in Row
  BY <1>0, Kinds DEF Inv, CallOwn, CallsTyped
<1>2. [o EXCEPT !.status = "failed"] = y /\ y \in Row /\ y.attempts = o.attempts
  BY <1>1 DEF Row
<1>3. session' = [session EXCEPT ![s] = y]
  BY <1>2 DEF CloseSession
<1> HIDE DEF y
<1>4. /\ session' \in [Sessions -> Row \cup {NoSession}]
      /\ session'[s] = y /\ \A t \in Sessions : t # s => session'[t] = session[t]
      /\ \A t \in Sessions : session'[t] = NoSession <=> session[t] = NoSession
  BY <1>0, <1>1, <1>2, <1>3, SessionRewritten
<1>5. UNCHANGED <<nodeVars, passed, wizard>> /\ Reply(c, "refused")
  BY DEF CloseSession, standbyVars
<1>6. PICK x \in Call : /\ call' = [call EXCEPT ![c] = x]
                        /\ x.step = "answer" /\ x.session = call[c].session
                        /\ x.label = call[c].label /\ x.result = "refused"
  BY <1>0, <1>5, CallReplies
<1>7. \A t \in Sessions : Passed(t)'
  <2>1. \A t \in Sessions : session[t] # NoSession => session'[t].attempts >= session[t].attempts
    BY <1>0, <1>2, <1>4, Kinds DEF CallsTyped
  <2> QED BY <1>0, <1>4, <1>5, <2>1, GuessesStay DEF Inv, CallsTyped
<1>8. NodesInv' /\ Kept
  BY <1>5, NodesStay DEF Inv
<1> QED BY <1>0, <1>4, <1>5, <1>6, <1>7, <1>8, CallMoves DEF CallsTyped

LEMMA StorePayloadKeeps ==
    ASSUME Inv, NEW c \in Calls, StorePayload(c)
    PROVE  Inv'
<1>0. CallsTyped /\ call[c] \in Call /\ Asks(c) /\ request[c].label = call[c].label
  BY MovingCalls DEF Inv, StorePayload, Moving, CallOwn, HasNode
<1> PICK s \in Sessions : s = call[c].session
  BY <1>0, Kinds
<1> PICK d \in Draws : d = request[c].draw
  BY <1>0, RequestsAssumption DEF Inv, NodesInv, DrawsMatch, Asks
<1> DEFINE o == session[s]
           y == [kind |-> o.kind, status |-> o.status, attempts |-> o.attempts, payload |-> d]
           z == [kind |-> o.kind, status |-> "confirmed", attempts |-> o.attempts, payload |-> d]
<1>1. o # NoSession /\ o \in Row
  BY <1>0, Kinds DEF Inv, CallOwn, CallsTyped, StorePayload, Moving
<1>2. z \in Row /\ z.attempts = o.attempts
  BY <1>1 DEF Row
<1>3. [o EXCEPT !.payload = d] = y /\ [y EXCEPT !.status = "confirmed"] = z
  BY <1>1 DEF Row
<1>4. session' = [session EXCEPT ![s].payload = d, ![s].status = "confirmed"]
  BY DEF StorePayload
<1>5. session' = [[session EXCEPT ![s] = [o EXCEPT !.payload = d]]
                    EXCEPT ![s] = [[session EXCEPT ![s] = [o EXCEPT !.payload = d]][s]
                                     EXCEPT !.status = "confirmed"]]
  BY <1>4
<1>6. [session EXCEPT ![s] = [o EXCEPT !.payload = d]][s] = y
  BY <1>0, <1>3 DEF CallsTyped
<1> HIDE DEF y, z, o
<1>7. session' = [[session EXCEPT ![s] = y] EXCEPT ![s] = z]
  BY <1>3, <1>5, <1>6
<1>8. session' = [session EXCEPT ![s] = z]
  BY <1>0, <1>7 DEF CallsTyped
<1>9. /\ session' \in [Sessions -> Row \cup {NoSession}]
      /\ session'[s] = z /\ \A t \in Sessions : t # s => session'[t] = session[t]
      /\ \A t \in Sessions : session'[t] = NoSession <=> session[t] = NoSession
  BY <1>0, <1>1, <1>2, <1>8, SessionRewritten DEF o
<1>10. UNCHANGED <<nodeVars, passed, wizard>> /\ Reply(c, "ok")
  BY DEF StorePayload, standbyVars
<1>11. PICK x \in Call : /\ call' = [call EXCEPT ![c] = x]
                         /\ x.step = "answer" /\ x.session = call[c].session
                         /\ x.label = call[c].label /\ x.result = "ok"
  BY <1>0, <1>10, CallReplies
<1>12. \A t \in Sessions : Passed(t)'
  <2>1. \A t \in Sessions : session[t] # NoSession => session'[t].attempts >= session[t].attempts
    BY <1>0, <1>2, <1>9, Kinds DEF CallsTyped, o
  <2> QED BY <1>0, <1>9, <1>10, <2>1, GuessesStay DEF Inv, CallsTyped
<1>13. NodesInv' /\ Kept
  BY <1>10, NodesStay DEF Inv
<1>14. Asks(c)' /\ request'[c].label = x.label
  BY <1>0, <1>10, <1>11 DEF Asks, Active, nodeVars
<1> QED BY <1>0, <1>9, <1>10, <1>11, <1>12, <1>13, <1>14, CallMoves DEF CallsTyped

LEMMA SessionsStay ==
    ASSUME Inv, UNCHANGED <<session, passed>>
    PROVE  /\ session' \in [Sessions -> Row \cup {NoSession}]
           /\ \A s \in Sessions : session[s] # NoSession => session'[s] # NoSession
           /\ passed' \in [Sessions -> SUBSET Calls]
           /\ \A s \in Sessions : Passed(s)'
BY DEF Inv, CallsTyped, Passed

LEMMA BeginIsKept ==
    ASSUME NodesInv, NEW r \in Requests, NEW l \in Labels, NEW force \in BOOLEAN,
           NEW d \in Unused, Begin(r, l, force, d)
    PROVE  Kept
<1>1. /\ drawn' = [drawn EXCEPT ![d] = l]
      /\ request'[r].draw = d
      /\ \A p \in Requests : p # r => request'[p] = request[p]
  BY BeginKeeps
<1>2. d \in Draws /\ drawn[d] = None /\ request[r] = NoRequest
  BY DEF Unused, Begin
<1>3. \A e \in Draws : drawn[e] # None => drawn'[e] = drawn[e]
  BY <1>1, <1>2 DEF NodesInv, NodesTypeOK
<1>4. \A p \in Requests : p # r => (Asks(p)' <=> Asks(p))
  BY <1>1 DEF Asks, Active
<1>5. ~Asks(r)
  BY <1>2 DEF Asks, Active
<1> QED BY <1>1, <1>2, <1>3, <1>4, <1>5, RequestsAssumption DEF Kept

LEMMA CheckCallKeeps ==
    ASSUME Inv, NEW c \in Calls, CheckCall(c)
    PROVE  Inv'
<1>1. /\ CallsTyped /\ call[c] \in Call /\ call[c].label \in Labels /\ call[c].force \in BOOLEAN
      /\ c \in Requests
  BY MovingCalls, Kinds, RequestsAssumption DEF Inv, CheckCall, Moving
<1>2. UNCHANGED <<session, passed, wizard>>
  BY DEF CheckCall, standbyVars
<1>3. CASE Resume(c, "add") /\ \E d \in Unused : Begin(c, call[c].label, call[c].force, d)
  <2>1. PICK d \in Unused : Begin(c, call[c].label, call[c].force, d)
    BY <1>3
  <2>2. PICK l \in Labels, f \in BOOLEAN : l = call[c].label /\ f = call[c].force
    BY <1>1
  <2>3. Begin(c, l, f, d)
    BY <2>1, <2>2
  <2>4. NodesInv' /\ Kept /\ Asks(c)' /\ request'[c].label = l
    BY <1>1, <2>3, BeginKeeps, BeginIsKept DEF Inv
  <2>5. PICK x \in Call : /\ call' = [call EXCEPT ![c] = x]
                          /\ x.step = "add" /\ x.session = call[c].session
                          /\ x.label = call[c].label
    BY <1>1, <1>3, CallResumes DEF Moving
  <2> QED BY <1>1, <1>2, <2>2, <2>4, <2>5, SessionsStay, CallMoves
<1>4. CASE Reply(c, "refused") /\ UNCHANGED nodeVars
  <2>1. NodesInv' /\ Kept
    BY <1>4, NodesStay DEF Inv
  <2>2. PICK x \in Call : /\ call' = [call EXCEPT ![c] = x]
                          /\ x.step = "answer" /\ x.session = call[c].session
                          /\ x.label = call[c].label /\ x.result = "refused"
    BY <1>1, <1>4, CallReplies
  <2> QED BY <1>1, <1>2, <2>1, <2>2, SessionsStay, CallMoves
<1> QED BY <1>3, <1>4 DEF CheckCall

LEMMA NodeAnsweredKeeps ==
    ASSUME Inv, NEW c \in Calls, NodeAnswered(c)
    PROVE  Inv'
<1>1. /\ CallsTyped /\ call[c] \in Call /\ Asks(c) /\ request[c].label = call[c].label
  BY MovingCalls DEF Inv, NodeAnswered, Moving, CallOwn, HasNode
<1>2. UNCHANGED <<nodeVars, session, passed, wizard>>
  BY DEF NodeAnswered, standbyVars
<1>3. Resume(c, "store") \/ Reply(c, "refused")
  BY DEF NodeAnswered
<1>4. PICK x \in Call : /\ call' = [call EXCEPT ![c] = x]
                        /\ x.session = call[c].session /\ x.label = call[c].label
  BY <1>1, <1>3, CallResumes, CallReplies DEF Moving
<1>5. Asks(c)' /\ request'[c].label = x.label
  BY <1>1, <1>2, <1>4 DEF Asks, Active, nodeVars
<1>6. NodesInv' /\ Kept
  BY <1>2, NodesStay DEF Inv
<1> QED BY <1>1, <1>2, <1>4, <1>5, <1>6, SessionsStay, CallMoves

LEMMA LoseCallKeeps ==
    ASSUME Inv, NEW c \in Calls, LoseCall(c)
    PROVE  Inv'
<1>1. CallsTyped /\ call[c] \in Call
  BY MovingCalls DEF Inv, LoseCall, Moving
<1>2. UNCHANGED <<nodeVars, session, passed, wizard>> /\ Reply(c, "refused")
  BY DEF LoseCall, standbyVars
<1>3. PICK x \in Call : /\ call' = [call EXCEPT ![c] = x]
                        /\ x.step = "answer" /\ x.session = call[c].session
                        /\ x.label = call[c].label /\ x.result = "refused"
  BY <1>1, <1>2, CallReplies
<1>4. NodesInv' /\ Kept
  BY <1>2, NodesStay DEF Inv
<1> QED BY <1>1, <1>2, <1>3, <1>4, SessionsStay, CallMoves

LEMMA OpenSessionKeeps ==
    ASSUME Inv, NEW s \in Sessions, NEW kind \in {"v1", "v2"}, OpenSession(s, kind)
    PROVE  Inv'
<1> DEFINE x == [kind |-> kind, status |-> "pending", attempts |-> 0, payload |-> None]
<1>1. x \in Row /\ x # NoSession /\ x.attempts = 0
  BY Kinds DEF Row
<1>2. session[s] = NoSession /\ session' = [session EXCEPT ![s] = x]
      /\ UNCHANGED <<nodeVars, call, passed, wizard>>
  BY DEF OpenSession, standbyVars
<1> HIDE DEF x
<1>3. /\ session' \in [Sessions -> Row \cup {NoSession}]
      /\ session'[s] = x /\ \A t \in Sessions : t # s => session'[t] = session[t]
  BY <1>1, <1>2 DEF Inv, CallsTyped
<1>4. NodesInv' /\ Kept
  BY <1>2, NodesStay DEF Inv
<1>5. \A c \in Calls : CallOwn(c)' /\ WizardOwn(c)'
  BY <1>2, <1>3, <1>4, CallsGoOn
<1>6. CallsTyped'
  BY <1>2, <1>3 DEF Inv, CallsTyped
<1>7. \A t \in Sessions : t # s => Passed(t)'
  BY <1>2, <1>3 DEF Inv, Passed
<1>8. Passed(s)'
  <2>1. passed[s] = {} /\ passed'[s] = {}
    BY <1>2 DEF Inv, Passed
  <2> QED BY <1>1, <1>3, <2>1, FS_EmptySet, AttemptsAssumption DEF Passed
<1> QED BY <1>4, <1>5, <1>6, <1>7, <1>8 DEF Inv

-----------------------------------------------------------------------------
(* The steps of the standbys and of the routes *)

LEMMA AcceptKeeps ==
    ASSUME Inv, NEW c \in Calls, NEW s \in Sessions, NEW l \in Labels,
           NEW good \in BOOLEAN, NEW force \in BOOLEAN, Accept(c, s, l, good, force)
    PROVE  Inv'
<1> DEFINE x == [step |-> "count", session |-> s, label |-> l, good |-> good, force |-> force,
                 read |-> session[s].status, result |-> "none"]
<1>1. call[c] = NoCall /\ session[s] # NoSession /\ call' = [call EXCEPT ![c] = x]
      /\ UNCHANGED <<nodeVars, session, passed, wizard>>
  BY DEF Accept, Found
<1>2. session[s] \in Row
  BY <1>1 DEF Inv, CallsTyped
<1>3. session[s].status \in {"pending", "confirmed", "failed"}
  BY <1>2 DEF Row
<1>4. x \in Call /\ x.step = "count" /\ x.session = s
  BY <1>3 DEF Call
<1> HIDE DEF x
<1>5. call'[c] = x /\ \A b \in Calls : b # c => call'[b] = call[b]
  BY <1>1 DEF Inv, CallsTyped
<1>6. NodesInv' /\ Kept
  BY <1>1, NodesStay DEF Inv
<1>7. CallOwn(c)' /\ call[c].step # "end"
  BY <1>1, <1>4, <1>5, Kinds DEF CallOwn, HasNode
<1>8. \A b \in Calls : CallOwn(b)' /\ WizardOwn(b)'
  BY <1>1, <1>5, <1>6, <1>7, CallsGoOn
<1>9. CallsTyped'
  BY <1>1, <1>4 DEF Inv, CallsTyped
<1> QED BY <1>1, <1>6, <1>8, <1>9, SessionsStay DEF Inv

\* A call that finds no session ends where it began.
LEMMA AcceptUnknownKeeps ==
    ASSUME Inv, NEW c \in Calls, NEW l \in Labels, AcceptUnknown(c, l)
    PROVE  Inv'
<1> DEFINE x == [step |-> "end", label |-> l]
<1>1. call[c] = NoCall /\ call' = [call EXCEPT ![c] = x]
      /\ UNCHANGED <<nodeVars, session, passed, wizard>>
  BY DEF AcceptUnknown, standbyVars
<1>2. x \in AnsweredCall /\ x.step = "end"
  BY DEF AnsweredCall
<1> HIDE DEF x
<1>3. call'[c] = x /\ \A b \in Calls : b # c => call'[b] = call[b]
  BY <1>1 DEF Inv, CallsTyped
<1>4. NodesInv' /\ Kept
  BY <1>1, NodesStay DEF Inv
<1>5. CallOwn(c)' /\ call[c].step # "end"
  BY <1>1, <1>2, <1>3, Kinds DEF CallOwn, HasNode, Moving
<1>6. \A b \in Calls : CallOwn(b)' /\ WizardOwn(b)'
  BY <1>1, <1>3, <1>4, <1>5, CallsGoOn
<1>7. CallsTyped'
  BY <1>1, <1>2 DEF Inv, CallsTyped
<1> QED BY <1>1, <1>4, <1>6, <1>7, SessionsStay DEF Inv

\* The draw goes from the request of the call to the standby, and nobody else
\* had it.
LEMMA ReceiveKeeps ==
    ASSUME Inv, NEW c \in Calls, Receive(c)
    PROVE  Inv'
<1> DEFINE x == [step |-> "end", label |-> call[c].label]
           w == IF call[c].result = "ok" /\ c \in waiting THEN request[c].draw ELSE None
<1>1. /\ CallsTyped /\ NodesInv /\ call[c].step = "answer" /\ call[c] \in Call /\ c \in Requests
      /\ call[c].label \in Labels
  BY MovingCalls, Kinds, RequestsAssumption DEF Inv, Receive, Moving
<1>2. /\ call' = [call EXCEPT ![c] = x] /\ wizard' = [wizard EXCEPT ![c] = w]
      /\ request' = [request EXCEPT ![c] = NoRequest]
      /\ UNCHANGED <<node, role, slot, drawn, streaming, session, passed>>
  BY DEF Receive
<1>3. x \in AnsweredCall /\ x.step = "end" /\ x.label = call[c].label
  BY <1>1 DEF AnsweredCall
<1>4. w # None => Asks(c) /\ w = request[c].draw /\ w \in Draws /\ drawn[w] = call[c].label
  BY <1>1 DEF Inv, CallOwn, HasNode, NodesInv, DrawsMatch, Asks
<1>5. w \in Draws \cup {None}
  BY <1>4
<1> HIDE DEF x, w
<1>6. /\ call'[c] = x /\ \A b \in Calls : b # c => call'[b] = call[b]
      /\ wizard'[c] = w /\ \A b \in Calls : b # c => wizard'[b] = wizard[b]
  BY <1>1, <1>2 DEF CallsTyped
<1>7. NodesInv' /\ ~Asks(c)' /\ \A p \in Requests : p # c => request'[p] = request[p]
  BY <1>1, <1>2, ForgetKeeps
<1>8. CallsTyped'
  BY <1>1, <1>2, <1>3, <1>5 DEF CallsTyped
<1>9. \A p \in Requests : p # c => (Asks(p)' <=> Asks(p))
  BY <1>7 DEF Asks, Active
<1>10. ASSUME NEW b \in Calls PROVE CallOwn(b)'
  <2>1. CASE b = c
    BY <1>3, <1>6, <2>1 DEF CallOwn, HasNode, Moving
  <2>2. CASE b # c
    BY <1>2, <1>6, <1>7, <1>9, <2>2, RequestsAssumption DEF Inv, CallOwn, HasNode
  <2> QED BY <2>1, <2>2
<1>11. \A b \in Calls : w # None => wizard[b] # w
  BY <1>1, <1>4 DEF Inv, WizardOwn
<1>12. ASSUME NEW b \in Calls, wizard'[b] # None PROVE WizardOwn(b)'
  <2>1. CASE b = c
    <3>1. w # None
      BY <1>6, <1>12, <2>1
    <3>2. \A p \in Requests : Asks(p)' => request'[p].draw # w
      BY <1>1, <1>4, <1>7, <1>9, <3>1 DEF NodesInv, DrawsAreOwn
    <3>3. \A o \in Calls \ {c} : wizard'[o] # w
      BY <1>6, <1>11, <3>1
    <3> QED BY <1>2, <1>3, <1>4, <1>6, <2>1, <3>1, <3>2, <3>3 DEF WizardOwn
  <2>2. CASE b # c
    <3>1. wizard'[b] = wizard[b] /\ wizard[b] # None /\ WizardOwn(b)
      BY <1>6, <1>12, <2>2 DEF Inv
    <3>2. \A p \in Requests : Asks(p)' => request'[p].draw # wizard[b]
      BY <1>7, <1>9, <3>1 DEF WizardOwn
    <3>3. w # wizard[b]
      BY <1>11, <3>1
    <3>4. \A o \in Calls \ {b} : wizard'[o] # wizard[b]
      BY <1>6, <3>1, <3>3 DEF WizardOwn
    <3> QED BY <1>2, <1>6, <2>2, <3>1, <3>2, <3>4 DEF WizardOwn
  <2> QED BY <2>1, <2>2
<1>13. \A b \in Calls : WizardOwn(b)'
  BY <1>12 DEF WizardOwn
<1> QED BY <1>2, <1>7, <1>8, <1>10, <1>13, SessionsStay DEF Inv

\* The steps of the nodes that no call waits for.
LEMMA NodesMove ==
    ASSUME Inv, NodesInv', Kept, UNCHANGED <<session, call, passed, wizard>>
    PROVE  Inv'
<1>1. \A c \in Calls : CallOwn(c)' /\ WizardOwn(c)'
  BY CallsGoOn
<1>2. CallsTyped'
  BY DEF Inv, CallsTyped
<1> QED BY <1>1, <1>2, SessionsStay DEF Inv

LEMMA NodeRoutesKeep ==
    ASSUME Inv, NodeRoutes
    PROVE  Inv'
<1>1. NodesInv /\ UNCHANGED <<session, call, passed, wizard>>
  BY DEF Inv, NodeRoutes, AddStreamingNode, DeleteStreamingNode, masterVars, standbyVars
<1>2. CASE \E r \in Admins, l \in Labels, d \in Unused : AddStreamingNode(r, l, d)
  <2>1. PICK r \in Admins, l \in Labels, d \in Unused : Begin(r, l, FALSE, d)
    BY <1>2 DEF AddStreamingNode
  <2>2. NodesInv' /\ Kept
    BY <1>1, <2>1, RequestsAssumption, BeginKeeps, BeginIsKept
  <2> QED BY <1>1, <2>2, NodesMove
<1>3. CASE \E r \in Admins, d \in Draws : DeleteStreamingNode(r, d)
  <2>1. PICK r \in Admins, d \in Draws : node[d] # None /\ AskDelete(r, d)
    BY <1>3 DEF DeleteStreamingNode
  <2>2. r \in Requests
    BY RequestsAssumption
  <2>3. /\ NodesInv' /\ drawn' = drawn /\ ~Asks(r) /\ ~Asks(r)'
        /\ \A p \in Requests : p # r => request'[p] = request[p]
    BY <1>1, <2>1, <2>2, AskDeleteKeeps
  <2>4. \A p \in Requests : p # r => (Asks(p)' <=> Asks(p))
    BY <2>3 DEF Asks, Active
  <2>5. Kept
    BY <2>3, <2>4, RequestsAssumption DEF Kept
  <2> QED BY <1>1, <2>3, <2>5, NodesMove
<1>4. CASE \E r \in Admins : Answer(r) /\ UNCHANGED <<masterVars, standbyVars, asked>>
  <2>1. PICK r \in Admins : Answer(r)
    BY <1>4
  <2>2. r \in Requests /\ r \notin Calls
    BY RequestsAssumption
  <2>3. /\ NodesInv' /\ ~Asks(r)' /\ drawn' = drawn
        /\ \A p \in Requests : p # r => request'[p] = request[p]
    BY <1>1, <2>1, <2>2, ForgetKeeps DEF Answer
  <2>4. \A p \in Requests : p # r => (Asks(p)' <=> Asks(p))
    BY <2>3 DEF Asks, Active
  <2>5. Kept
    BY <2>2, <2>3, <2>4, RequestsAssumption DEF Kept
  <2> QED BY <1>1, <2>3, <2>5, NodesMove
<1> QED BY <1>2, <1>3, <1>4 DEF NodeRoutes

-----------------------------------------------------------------------------
LEMMA InitEstablishes == Init => Inv
<1> SUFFICES ASSUME Init PROVE Inv
  OBVIOUS
<1>1. NodesInv
  BY InitNodes DEF Init
<1>2. CallsTyped /\ \A c \in Calls : CallOwn(c) /\ WizardOwn(c)
  BY DEF Init, CallsTyped, CallOwn, WizardOwn, HasNode, Moving, NoCall
<1>3. \A s \in Sessions : Passed(s)
  BY FS_EmptySet, AttemptsAssumption DEF Init, Passed
<1> QED BY <1>1, <1>2, <1>3 DEF Inv

LEMMA StepKeeps == Inv /\ [Next]_vars => Inv'
<1> SUFFICES ASSUME Inv, [Next]_vars PROVE Inv'
  OBVIOUS
<1>1. CASE MasterRoutes
  BY <1>1, OpenSessionKeeps, CountAttemptKeeps, CloseSessionKeeps, CheckCallKeeps, NodeAnsweredKeeps,
     StorePayloadKeeps, LoseCallKeeps DEF MasterRoutes
<1>2. CASE StandbyRoutes
  <2>1. ASSUME NEW c \in Calls, GiveUp(c) PROVE Inv'
    BY <2>1, NodesStay, NodesMove DEF GiveUp, masterVars, Inv
  <2> QED BY <1>2, <2>1, AcceptKeeps, AcceptUnknownKeeps, ReceiveKeeps DEF StandbyRoutes
<1>3. CASE NodeRoutes
  BY <1>3, NodeRoutesKeep
<1>4. CASE Registration
  <2>1. NodesInv' /\ Kept
    BY <1>4, RegistrationKeeps, FramedIsKept DEF Inv
  <2> QED BY <1>4, <2>1, NodesMove DEF Registration, masterVars, standbyVars
<1>5. CASE UNCHANGED vars
  BY <1>5, NodesStay, NodesMove DEF vars, masterVars, standbyVars, Inv
<1> QED BY <1>1, <1>2, <1>3, <1>4, <1>5 DEF Next

\* The strengthened invariant: the rows, the draws and the slots of the nodes,
\* the calls that register them and what the standbys keep.
THEOREM Invariance == Spec => []Inv
BY InitEstablishes, StepKeeps, PTL DEF Spec

\* A registered node and its role come and go together, whatever breaks
\* (_create_role_and_insert_node, delete_node).
THEOREM NodesHaveRoles == Spec => []RowsHaveRoles
<1>1. Inv => RowsHaveRoles
  BY DEF Inv, NodesInv
<1> QED BY <1>1, Invariance, PTL

\* Of the calls that found a session, at most pairing_max_attempts have their token
\* compared (second version) and register a node, however many standbys try it
\* together; wrong codes of the first version find none, and are not among them.
THEOREM AttemptsAreBounded == Spec => []CountedCallsBounded
<1>1. Inv => CountedCallsBounded
  BY DEF Inv, Passed, CountedCallsBounded
<1> QED BY <1>1, Invariance, PTL

\* The credentials that a standby keeps were made for its own URL, and no other
\* standby keeps them.
THEOREM StandbysKeepTheirOwn == Spec => []CredentialsAreOwn
<1>1. Inv => CredentialsAreOwn
  BY DEF Inv, WizardOwn, CredentialsAreOwn
<1> QED BY <1>1, Invariance, PTL

\* A node is not deleted, nor replaced by force, while its standby streams
\* through its slot (delete_node).
THEOREM StreamingNodesStay == Spec => StreamingIsKept
<1> DEFINE StayNodes == \A d \in streaming : node[d] # None => node'[d] # None
<1>1. Inv /\ [Next]_vars => [StayNodes]_nodeVars
  <2> SUFFICES ASSUME Inv, Next, NEW d \in streaming, node[d] # None PROVE node'[d] # None
    BY DEF vars
  <2>1. d \in Draws /\ NodesTypeOK
    BY DEF Inv, NodesInv, NodesTypeOK
  <2>2. ASSUME NEW r \in Requests, DropNode(r) PROVE node'[d] # None
    <3>1. node' = [node EXCEPT ![request[r].old] = None] /\ request[r].step = "droprole"
      BY <2>2 DEF DropNode
    <3>2. d # request[r].old
      BY <3>1 DEF Inv, NodesInv, SlotDroppedFirst
    <3> QED BY <2>1, <3>1, <3>2 DEF NodesTypeOK
  <2>3. ASSUME NEW r \in Requests, CommitNode(r) PROVE node'[d] # None
    <3>1. node' = [node EXCEPT ![request[r].draw] = request[r].label] /\ request[r].label \in Labels
      BY <2>3, Requested DEF CommitNode, Inv, NodesInv, DrawsMatch, Adding
    <3> QED BY <2>1, <3>1, NoneAssumption DEF NodesTypeOK
  <2>4. CASE MasterRoutes
    <3>1. node' = node
      BY <2>4 DEF MasterRoutes, OpenSession, CountAttempt, CloseSession, CheckCall, NodeAnswered,
                  StorePayload, LoseCall, Begin, nodeVars
    <3> QED BY <3>1
  <2>5. CASE StandbyRoutes
    <3>1. node' = node
      BY <2>5 DEF StandbyRoutes, Accept, AcceptUnknown, Receive, GiveUp, nodeVars
    <3> QED BY <3>1
  <2>6. CASE NodeRoutes
    <3>1. node' = node
      BY <2>6 DEF NodeRoutes, AddStreamingNode, DeleteStreamingNode, Answer, Begin, AskDelete
    <3> QED BY <3>1
  <2>7. CASE Registration
    <3>1. ASSUME NEW r \in Requests,
                 InsertRow(r) \/ CreateSlot(r) \/ LoadExisting(r) \/ FindNode(r) \/ DropSlot(r) \/ Break(r)
          PROVE  node' = node
      BY <3>1 DEF InsertRow, CreateSlot, LoadExisting, FindNode, DropSlot, Break
    <3>2. ASSUME Standby PROVE node' = node
      BY <3>2 DEF Standby, Stream, Hangup
    <3> QED BY <2>2, <2>3, <2>7, <3>1, <3>2 DEF Registration, Add, Delete
  <2> QED BY <2>4, <2>5, <2>6, <2>7 DEF Next
<1> QED BY <1>1, Invariance, PTL DEF Spec, StreamingIsKept

-----------------------------------------------------------------------------
(* The life of a name *)

Life == [d \in Draws |-> LifeOf(d)]

\* Between two requests of its own, a call has none in progress.
AddsInCalls == \A c \in Calls : request[c].step \in Adding \cup Deleting => call[c].step = "add"

LEMMA Stages ==
    \A d \in Draws :
      /\ LifeOf(d) = "unused" <=> drawn[d] = None
      /\ LifeOf(d) = "registered" <=> drawn[d] # None /\ node[d] # None
      /\ LifeOf(d) = "reserved" <=> drawn[d] # None /\ node[d] = None /\ Reserved(d)
      /\ LifeOf(d) = "gone" <=> drawn[d] # None /\ node[d] = None /\ ~Reserved(d)
BY DEF LifeOf

LEMMA StagesAfter ==
    \A d \in Draws :
      /\ LifeOf(d)' = "unused" <=> drawn'[d] = None
      /\ LifeOf(d)' = "registered" <=> drawn'[d] # None /\ node'[d] # None
      /\ LifeOf(d)' = "reserved" <=> drawn'[d] # None /\ node'[d] = None /\ Reserved(d)'
      /\ LifeOf(d)' = "gone" <=> drawn'[d] # None /\ node'[d] = None /\ ~Reserved(d)'
BY DEF LifeOf

\* A name that nothing happened to stays where it stands.
LEMMA NameStays ==
    ASSUME NEW d \in Draws, drawn'[d] = drawn[d], node'[d] = node[d], Reserved(d)' <=> Reserved(d)
    PROVE  LifeOf(d)' = LifeOf(d)
BY DEF LifeOf

LEMMA NameMoves ==
    ASSUME NEW d \in Draws, NEW stage, LifeOf(d)' = stage,
           \A e \in Draws : e # d => LifeOf(e)' = LifeOf(e)
    PROVE  Lifecycle!Becomes(d, stage)
BY DEF Lifecycle!Becomes

\* A request that goes on keeps its name, and only its own.
LEMMA ReservedStays ==
    ASSUME NEW r \in Requests, \A p \in Requests : p # r => request'[p] = request[p],
           NEW d \in Draws,
           \/ request'[r].step \in Adding \cup Deleting /\ request[r].step \in Adding \cup Deleting
              /\ request'[r].op = request[r].op /\ request'[r].draw = request[r].draw
           \/ /\ request'[r].step \in Adding \cup Deleting => ~(request'[r].op = "add" /\ request'[r].draw = d)
              /\ request[r].step \in Adding \cup Deleting => ~(request[r].op = "add" /\ request[r].draw = d)
    PROVE  Reserved(d)' <=> Reserved(d)
BY DEF Reserved

\* The name that a registration in progress has drawn.
LEMMA NameInProgress ==
    ASSUME NodesInv, NEW r \in Requests, request[r].step \in Adding \cup Deleting, request[r].op = "add"
    PROVE  /\ request[r].draw \in Draws /\ LifeOf(request[r].draw) = "reserved"
           /\ \A q \in Requests : q # r /\ request[q].step \in Adding \cup Deleting /\ request[q].op = "add"
                => request[q].draw # request[r].draw
<1>1. Asks(r) /\ InFlight(r)
  BY Requested DEF NodesInv, Asks, InFlight, Adding, Deleting, Ended
<1>2. request[r].draw \in Draws /\ drawn[request[r].draw] # None /\ node[request[r].draw] = None
  BY <1>1, NoneAssumption DEF NodesInv, DrawsMatch, DrawsAreOwn, Asks
<1>3. Reserved(request[r].draw)
  BY DEF Reserved
<1>4. \A q \in Requests : request[q].step \in Adding \cup Deleting /\ request[q].op = "add" => Asks(q)
  BY Requested DEF NodesInv, Asks, Adding, Deleting
<1> QED BY <1>1, <1>2, <1>3, <1>4, Stages DEF NodesInv, DrawsAreOwn

\* A request goes on or ends; a registration that ends without a row gives its
\* name up.
LEMMA GoesOnOrGivesUp ==
    ASSUME NodesInv, NEW r \in Requests, request[r].step \in Adding \cup Deleting,
           NEW q \in Fields, request' = [request EXCEPT ![r] = q],
           q.op = request[r].op, q.draw = request[r].draw,
           UNCHANGED <<node, drawn, streaming>>
    PROVE  Lifecycle!LNext \/ UNCHANGED <<Life, drawn, streaming>>
<1>1. request'[r] = q /\ \A p \in Requests : p # r => request'[p] = request[p]
  BY Requested, OneMoves DEF NodesInv
<1>2. CASE q.step \in Adding \cup Deleting \/ q.op # "add"
  <2>1. \A d \in Draws : Reserved(d)' <=> Reserved(d)
    BY <1>1, <1>2, ReservedStays
  <2> QED BY <2>1, NameStays DEF Life
<1>3. CASE q.step \notin Adding \cup Deleting /\ q.op = "add"
  <2>1. PICK d \in Draws : d = request[r].draw /\ LifeOf(d) = "reserved"
    BY <1>3, NameInProgress
  <2>2. ~Reserved(d)'
    BY <1>1, <1>3, <2>1, NameInProgress DEF Reserved
  <2>3. LifeOf(d)' = "gone"
    BY <2>1, <2>2, Stages, StagesAfter
  <2>4. \A e \in Draws : e # d => LifeOf(e)' = LifeOf(e)
    BY <1>1, <1>3, <2>1, ReservedStays, NameStays
  <2>5. Lifecycle!Becomes(d, "gone")
    BY <2>1, <2>3, <2>4, NameMoves
  <2>6. Lifecycle!GiveUp(d)
    BY <2>1, <2>5 DEF Lifecycle!GiveUp
  <2> QED BY <2>1, <2>6 DEF Lifecycle!LNext
<1> QED BY <1>2, <1>3

-----------------------------------------------------------------------------
(* The steps of a registration or of a deletion follow the life of the names *)

Follows == Lifecycle!LNext \/ UNCHANGED <<Life, drawn, streaming>>

\* The steps that leave the rows.
LEMMA QuietStepFollows ==
    ASSUME NodesInv, NEW r \in Requests,
           InsertRow(r) \/ CreateSlot(r) \/ FindNode(r) \/ DropSlot(r) \/ Break(r)
    PROVE  Follows
<1>1. /\ request[r].step \in Adding \cup Deleting /\ Active(r) /\ NodesTypeOK
      /\ UNCHANGED <<node, drawn, streaming>>
  <2>1. request[r].step \notin {"idle"} \cup Ended
    BY DEF InsertRow, CreateSlot, FindNode, DropSlot, Break, Ended
  <2>2. UNCHANGED <<node, drawn, streaming>>
    BY DEF InsertRow, CreateSlot, FindNode, DropSlot, Break
  <2> QED BY <2>1, <2>2, Requested DEF NodesInv, NodesTypeOK, Request, NoRequest
<1>2. \/ \E e \in Ended : After(r, e)
      \/ \E s \in Adding \cup Deleting \cup Ended : Goto(r, s)
  BY DEF InsertRow, CreateSlot, FindNode, DropSlot, Break, Adding, Deleting, Ended
<1>3. PICK q \in Fields : /\ request' = [request EXCEPT ![r] = q]
                          /\ q.op = request[r].op /\ q.draw = request[r].draw
  BY <1>1, <1>2, AfterGoes, GoesTo
<1> QED BY <1>1, <1>3, GoesOnOrGivesUp DEF Follows

LEMMA LoadExistingFollows ==
    ASSUME NodesInv, NEW r \in Requests, LoadExisting(r)
    PROVE  Follows
<1>1. /\ request[r].step = "conflict" /\ Active(r) /\ NodesTypeOK
      /\ UNCHANGED <<node, drawn, streaming>>
  BY Requested DEF LoadExisting, NodesInv
<1>2. PICK q \in Fields : /\ request' = [request EXCEPT ![r] = q]
                          /\ q.op = request[r].op /\ q.draw = request[r].draw
  BY <1>1, LoadExistingGoes
<1> QED BY <1>1, <1>2, GoesOnOrGivesUp DEF Follows, Adding

\* The row of a name that is alone for its application.
LEMMA CommitNodeFollows ==
    ASSUME NodesInv, NEW r \in Requests, CommitNode(r)
    PROVE  Follows
<1>0. PICK d \in Draws : d = request[r].draw
  BY Requested DEF CommitNode, NodesInv, DrawsMatch, Adding
<1>1. /\ request[r].step = "commit" /\ Active(r) /\ NodesTypeOK /\ request[r].op = "add"
      /\ request[r].label \in Labels /\ drawn[d] = request[r].label
      /\ node' = [node EXCEPT ![d] = request[r].label]
      /\ UNCHANGED <<drawn, streaming>>
  BY <1>0, Requested DEF CommitNode, NodesInv, DrawsMatch, Adding
<1>2. PICK q \in Fields : request' = [request EXCEPT ![r] = q] /\ q.step = "added"
  BY <1>1, GoesTo DEF CommitNode, Ended
<1>3. request'[r] = q /\ \A p \in Requests : p # r => request'[p] = request[p]
  BY <1>1, <1>2, OneMoves, Requested
<1>4. LifeOf(d) = "reserved"
  BY <1>0, <1>1, NameInProgress DEF Adding
<1>5. node'[d] # None /\ \A e \in Draws : e # d => node'[e] = node[e]
  BY <1>1, NoneAssumption DEF NodesTypeOK
<1>6. LifeOf(d)' = "registered"
  BY <1>1, <1>5, NoneAssumption, StagesAfter
<1>7. ASSUME NEW e \in Draws, e # d PROVE LifeOf(e)' = LifeOf(e)
  <2>1. Reserved(e)' <=> Reserved(e)
    BY <1>0, <1>1, <1>2, <1>3, <1>7, ReservedStays DEF Adding, Deleting
  <2> QED BY <1>1, <1>5, <1>7, <2>1, NameStays
<1>8. Lifecycle!SameApplication(d) \cap Lifecycle!Registered = {}
  <2> SUFFICES ASSUME NEW e \in Draws, drawn[e] # None, SlugOf[drawn[e]] = SlugOf[drawn[d]],
                      LifeOf(e) = "registered"
               PROVE  FALSE
    BY DEF Lifecycle!SameApplication, Lifecycle!Registered
  <2>1. node[e] # None /\ drawn[e] = node[e]
    BY Stages DEF NodesInv, DrawsMatch
  <2>2. e \in Clashes(request[r].label)
    BY <1>1, <2>1 DEF Clashes
  <2> QED BY <1>1, <2>2 DEF NodesInv, InsertedAlone, Inserted
<1>9. Lifecycle!Becomes(d, "registered")
  BY <1>1, <1>6, <1>7, NameMoves
<1>10. Lifecycle!Register(d)
  BY <1>1, <1>4, <1>8, <1>9 DEF Lifecycle!Register
<1> QED BY <1>1, <1>10 DEF Follows, Lifecycle!LNext

\* The row that goes is one that no standby streams with, and no registration
\* in progress has its name.
LEMMA DropNodeFollows ==
    ASSUME NodesInv, NEW r \in Requests, DropNode(r)
    PROVE  Follows
<1>0. PICK d \in Draws : d = request[r].old /\ drawn[d] # None
  BY Requested DEF DropNode, NodesInv, DrawsMatch, Deleting, Fields
<1>1. /\ request[r].step = "droprole" /\ Active(r) /\ NodesTypeOK /\ After(r, "deleted")
      /\ node' = [node EXCEPT ![d] = None] /\ UNCHANGED <<drawn, streaming>>
  BY <1>0, Requested DEF DropNode, NodesInv
<1>2. PICK q \in Fields : /\ request' = [request EXCEPT ![r] = q]
                          /\ q.op = request[r].op /\ q.draw = request[r].draw
                          /\ \/ q.op = "add" /\ q.step = "insert"
                             \/ q.op = "delete" /\ q.step = "deleted"
  BY <1>1, AfterGoes DEF Ended
<1>3. request'[r] = q /\ \A p \in Requests : p # r => request'[p] = request[p]
  BY <1>1, <1>2, OneMoves, Requested
<1>4. \A e \in Draws : Reserved(e)' <=> Reserved(e)
  BY <1>1, <1>2, <1>3, ReservedStays DEF Adding, Deleting
<1>5. \A e \in Draws : e # d => LifeOf(e)' = LifeOf(e)
  BY <1>1, <1>4, NameStays DEF NodesTypeOK
<1>6. CASE node[d] = None
  <2>1. LifeOf(d)' = LifeOf(d)
    BY <1>1, <1>4, <1>6, NameStays DEF NodesTypeOK
  <2> QED BY <1>1, <1>5, <2>1 DEF Follows, Life
<1>7. CASE node[d] # None
  <2>1. LifeOf(d) = "registered" /\ d \notin streaming
    BY <1>0, <1>1, <1>7, Stages DEF NodesInv, SlotDroppedFirst
  <2>2. ASSUME Reserved(d) PROVE FALSE
    <3>1. PICK p \in Requests : /\ request[p].step \in Adding \cup Deleting
                                /\ request[p].op = "add" /\ request[p].draw = d
      BY <2>2 DEF Reserved
    <3> QED BY <1>7, <3>1, NameInProgress, Stages
  <2>3. node'[d] = None
    BY <1>1 DEF NodesTypeOK
  <2>4. LifeOf(d)' = "gone"
    BY <1>0, <1>1, <1>4, <2>2, <2>3, StagesAfter
  <2>5. Lifecycle!Becomes(d, "gone")
    BY <1>1, <1>5, <2>4, NameMoves
  <2>6. Lifecycle!Unregister(d)
    BY <1>1, <2>1, <2>5 DEF Lifecycle!Unregister
  <2> QED BY <1>1, <2>6 DEF Follows, Lifecycle!LNext
<1> QED BY <1>6, <1>7

\* A standby that connects has a row, and its slot is free.
LEMMA StandbyFollows ==
    ASSUME NodesInv, Standby
    PROVE  Follows
<1>1. PICK d \in Draws : Stream(d) \/ Hangup(d)
  BY DEF Standby
<1>2. Life' = Life /\ drawn' = drawn
  BY <1>1, NameStays DEF Stream, Hangup, Life, Reserved
<1>3. CASE Stream(d)
  <2>1. LifeOf(d) = "registered"
    BY <1>3, Stages DEF Stream, NodesInv, RowsHaveRoles, DrawsMatch
  <2>2. Lifecycle!SameApplication(d) \cap streaming = {}
    BY <1>3 DEF Stream, Busy, Slug, Lifecycle!SameApplication
  <2>3. Lifecycle!Connect(d)
    BY <1>2, <1>3, <2>1, <2>2 DEF Lifecycle!Connect, Stream, Life
  <2> QED BY <2>3 DEF Follows, Lifecycle!LNext
<1>4. CASE Hangup(d)
  <2>1. Lifecycle!Disconnect(d)
    BY <1>2, <1>4 DEF Lifecycle!Disconnect, Hangup, Life
  <2> QED BY <2>1 DEF Follows, Lifecycle!LNext
<1> QED BY <1>1, <1>3, <1>4

LEMMA RegistrationFollows ==
    ASSUME NodesInv, Registration
    PROVE  Follows
BY QuietStepFollows, LoadExistingFollows, CommitNodeFollows, DropNodeFollows, StandbyFollows
   DEF Registration, Add, Delete

-----------------------------------------------------------------------------
(* The calls and the routes follow it too *)

LEMMA BeginFollows ==
    ASSUME NodesInv, NEW r \in Requests, NEW l \in Labels, NEW force \in BOOLEAN,
           NEW d \in Unused, Begin(r, l, force, d)
    PROVE  Follows
<1>1. /\ d \in Draws /\ drawn[d] = None /\ drawn' = [drawn EXCEPT ![d] = l] /\ NodesTypeOK
      /\ request[r] = NoRequest /\ UNCHANGED <<node, streaming>> /\ node[d] = None
  BY DEF Begin, Unused, NodesInv, DrawsMatch
<1>2. /\ request'[r].step = "insert" /\ request'[r].op = "add" /\ request'[r].draw = d
      /\ \A p \in Requests : p # r => request'[p] = request[p]
  BY <1>1 DEF Begin, NodesTypeOK
<1>3. LifeOf(d) = "unused"
  BY <1>1, Stages
<1>4. drawn'[d] # None /\ \A e \in Draws : e # d => drawn'[e] = drawn[e]
  BY <1>1, NoneAssumption DEF NodesTypeOK
<1>5. Reserved(d)'
  BY <1>2 DEF Reserved, Adding
<1>6. LifeOf(d)' = "reserved"
  BY <1>1, <1>4, <1>5, StagesAfter
<1>7. \A e \in Draws : e # d => (Reserved(e)' <=> Reserved(e))
  BY <1>1, <1>2, ReservedStays DEF NoRequest, Adding, Deleting
<1>8. \A e \in Draws : e # d => LifeOf(e)' = LifeOf(e)
  BY <1>1, <1>4, <1>7, NameStays
<1>9. Lifecycle!Becomes(d, "reserved")
  BY <1>1, <1>6, <1>8, NameMoves
<1>10. Lifecycle!Draw(d, l)
  BY <1>1, <1>3, <1>9 DEF Lifecycle!Draw
<1> QED BY <1>1, <1>10 DEF Follows, Lifecycle!LNext

\* A deletion is asked, or an ended request is forgotten: no name moves.
LEMMA OutsideFollows ==
    ASSUME NEW r \in Requests, \A p \in Requests : p # r => request'[p] = request[p],
           request[r].step \notin Adding \cup Deleting,
           request'[r].step \in Adding \cup Deleting => request'[r].op # "add",
           UNCHANGED <<node, drawn, streaming>>
    PROVE  Follows
<1>1. \A d \in Draws : Reserved(d)' <=> Reserved(d)
  BY ReservedStays
<1> QED BY <1>1, NameStays DEF Follows, Life

LEMMA StillFollows ==
    ASSUME UNCHANGED nodeVars
    PROVE  Follows
<1>1. \A d \in Draws : Reserved(d)' <=> Reserved(d)
  BY DEF Reserved, nodeVars
<1> QED BY <1>1, NameStays DEF Follows, Life, nodeVars

LEMMA StepFollows ==
    ASSUME Inv, AddsInCalls, [Next]_vars
    PROVE  Follows
<1>1. NodesInv /\ NodesTypeOK /\ CallsTyped /\ Calls \subseteq Requests /\ Admins \subseteq Requests
  BY RequestsAssumption DEF Inv, NodesInv
<1>2. CASE MasterRoutes
  <2>1. ASSUME NEW c \in Calls, NEW d \in Unused, CheckCall(c), Begin(c, call[c].label, call[c].force, d)
        PROVE  Follows
    <3>1. PICK l \in Labels, f \in BOOLEAN : l = call[c].label /\ f = call[c].force
      BY <1>1, <2>1, MovingCalls, Kinds DEF CheckCall, Moving
    <3>2. Begin(c, l, f, d)
      BY <2>1, <3>1
    <3> QED BY <1>1, <3>2, BeginFollows
  <2>2. \/ UNCHANGED nodeVars
        \/ \E c \in Calls : CheckCall(c) /\ \E d \in Unused : Begin(c, call[c].label, call[c].force, d)
    BY <1>2 DEF MasterRoutes, OpenSession, CountAttempt, CloseSession, CheckCall, NodeAnswered,
                StorePayload, LoseCall
  <2> QED BY <2>1, <2>2, StillFollows
<1>3. CASE StandbyRoutes
  <2>1. ASSUME NEW c \in Calls, Receive(c) PROVE Follows
    <3>1. request[c].step \notin Adding \cup Deleting
      BY <2>1 DEF Receive, AddsInCalls
    <3>2. /\ request'[c] = NoRequest /\ UNCHANGED <<node, drawn, streaming>>
          /\ \A p \in Requests : p # c => request'[p] = request[p]
      BY <1>1, <2>1 DEF Receive, NodesTypeOK
    <3>3. request'[c].step \notin Adding \cup Deleting
      BY <3>2 DEF NoRequest, Adding, Deleting
    <3> QED BY <1>1, <3>1, <3>2, <3>3, OutsideFollows
  <2>2. \/ UNCHANGED nodeVars
        \/ \E c \in Calls : Receive(c)
    BY <1>3 DEF StandbyRoutes, Accept, AcceptUnknown, GiveUp
  <2> QED BY <2>1, <2>2, StillFollows
<1>4. CASE NodeRoutes
  <2>1. ASSUME NEW r \in Admins, NEW l \in Labels, NEW d \in Unused, AddStreamingNode(r, l, d)
        PROVE  Follows
    BY <1>1, <2>1, BeginFollows DEF AddStreamingNode
  <2>2. ASSUME NEW r \in Admins, NEW d \in Draws, DeleteStreamingNode(r, d)
        PROVE  Follows
    <3>1. /\ request[r] = NoRequest /\ request'[r].op = "delete" /\ UNCHANGED <<node, drawn, streaming>>
          /\ \A p \in Requests : p # r => request'[p] = request[p]
      BY <1>1, <2>2 DEF DeleteStreamingNode, AskDelete, NodesTypeOK
    <3>2. request[r].step \notin Adding \cup Deleting
      BY <3>1 DEF NoRequest, Adding, Deleting
    <3> QED BY <1>1, <3>1, <3>2, OutsideFollows
  <2>3. ASSUME NEW r \in Admins, Answer(r)
        PROVE  Follows
    <3>1. /\ request'[r] = NoRequest /\ UNCHANGED <<node, drawn, streaming>>
          /\ \A p \in Requests : p # r => request'[p] = request[p]
      BY <1>1, <2>3 DEF Answer, NodesTypeOK
    <3>2. /\ request[r].step \notin Adding \cup Deleting
          /\ request'[r].step \notin Adding \cup Deleting
      BY <2>3, <3>1 DEF Answer, NoRequest, Adding, Deleting, Ended
    <3> QED BY <1>1, <3>1, <3>2, OutsideFollows
  <2> QED BY <1>4, <2>1, <2>2, <2>3 DEF NodeRoutes
<1>5. CASE Registration
  BY <1>1, <1>5, RegistrationFollows
<1>6. CASE UNCHANGED vars
  BY <1>6, StillFollows DEF vars
<1> QED BY <1>2, <1>3, <1>4, <1>5, <1>6 DEF Next

\* A call that is past add_node has no registration in progress.
LEMMA AddsStayInCalls == Inv /\ AddsInCalls /\ [Next]_vars => AddsInCalls'
<1> SUFFICES ASSUME Inv, AddsInCalls, [Next]_vars, NEW c \in Calls,
                    request'[c].step \in Adding \cup Deleting
             PROVE  call'[c].step = "add"
  BY DEF AddsInCalls
<1>1. NodesTypeOK /\ CallsTyped /\ c \in Requests /\ c \notin Admins
  BY RequestsAssumption DEF Inv, NodesInv
<1>2. CASE request'[c] = request[c]
  <2>1. call[c].step = "add" /\ request[c].step \notin Ended
    BY <1>2 DEF AddsInCalls, Adding, Deleting, Ended
  <2>2. ASSUME NEW b \in Calls, b # c,
               CountAttempt(b) \/ CloseSession(b) \/ CheckCall(b) \/ NodeAnswered(b)
                 \/ StorePayload(b) \/ LoseCall(b) \/ Receive(b)
        PROVE  call'[c] = call[c]
    BY <1>1, <2>2 DEF CallsTyped, CountAttempt, CloseSession, CheckCall, NodeAnswered, StorePayload,
                      LoseCall, Receive, Resume, Reply
  <2>3. ASSUME NEW b \in Calls, NEW s \in Sessions, NEW l \in Labels, NEW good \in BOOLEAN,
               NEW force \in BOOLEAN, Accept(b, s, l, good, force)
        PROVE  call'[c] = call[c]
    BY <1>1, <2>1, <2>3 DEF CallsTyped, Accept, NoCall
  <2>9. ASSUME NEW b \in Calls, NEW l \in Labels, AcceptUnknown(b, l) PROVE call'[c] = call[c]
    BY <1>1, <2>1, <2>9 DEF CallsTyped, AcceptUnknown, NoCall
  <2>4. ~(\/ CountAttempt(c) \/ CloseSession(c) \/ CheckCall(c) \/ NodeAnswered(c)
          \/ StorePayload(c) \/ LoseCall(c) \/ Receive(c))
    BY <2>1 DEF CountAttempt, CloseSession, CheckCall, NodeAnswered, StorePayload, LoseCall, Receive
  <2>5. call'[c] = call[c]
    <3>1. CASE MasterRoutes
      BY <2>2, <2>4, <3>1 DEF MasterRoutes, OpenSession
    <3>2. CASE StandbyRoutes
      BY <2>2, <2>3, <2>4, <2>9, <3>2 DEF StandbyRoutes, GiveUp, masterVars
    <3>3. CASE NodeRoutes \/ Registration \/ UNCHANGED vars
      BY <3>3 DEF NodeRoutes, AddStreamingNode, DeleteStreamingNode, Registration, vars, masterVars
    <3> QED BY <3>1, <3>2, <3>3 DEF Next
  <2> QED BY <2>1, <2>5
<1>3. CASE request'[c] # request[c]
  <2>1. CASE MasterRoutes
    <3>1. PICK b \in Calls : CheckCall(b) /\ Resume(b, "add")
                             /\ \E d \in Unused : Begin(b, call[b].label, call[b].force, d)
      BY <1>3, <2>1 DEF MasterRoutes, OpenSession, CountAttempt, CloseSession, CheckCall, NodeAnswered,
                        StorePayload, LoseCall, nodeVars
    <3>2. b = c
      BY <1>1, <1>3, <3>1 DEF Begin, NodesTypeOK
    <3> QED BY <1>1, <3>1, <3>2, MovingCalls DEF Resume, CallsTyped, CheckCall, Moving
  <2>2. CASE StandbyRoutes
    <3>1. PICK b \in Calls : Receive(b)
      BY <1>3, <2>2 DEF StandbyRoutes, Accept, AcceptUnknown, GiveUp, nodeVars
    <3>2. request'[c] = NoRequest
      BY <1>1, <1>3, <3>1 DEF Receive, NodesTypeOK
    <3> QED BY <3>2 DEF NoRequest, Adding, Deleting
  <2>3. CASE NodeRoutes
    BY <1>1, <1>3, <2>3 DEF NodeRoutes, AddStreamingNode, DeleteStreamingNode, Begin, AskDelete, Answer,
                            NodesTypeOK
  <2>4. CASE Registration
    <3>1. request[c].step \in Adding \cup Deleting
      <4>1. \/ request' = request
            \/ \E r \in Requests :
                 /\ request[r].step \notin {"idle"} \cup Ended
                 /\ \A p \in Requests : p # r => request'[p] = request[p]
        <5>1. ASSUME NEW r \in Requests, Add(r) \/ Delete(r) \/ Break(r)
              PROVE  /\ request[r].step \notin {"idle"} \cup Ended
                     /\ \A p \in Requests : p # r => request'[p] = request[p]
          BY <1>1, <5>1 DEF Add, Delete, Break, InsertRow, CreateSlot, CommitNode, LoadExisting, FindNode,
                            DropSlot, DropNode, After, Goto, NodesTypeOK, Ended
        <5>2. Standby => request' = request
          BY DEF Standby, Stream, Hangup
        <5> QED BY <2>4, <5>1, <5>2 DEF Registration
      <4>2. request[c].step \notin {"idle"} \cup Ended
        BY <1>1, <1>3, <4>1
      <4> QED BY <1>1, <4>2, Requested DEF Fields, NodesTypeOK
    <3> QED BY <2>4, <3>1 DEF Registration, AddsInCalls, masterVars
  <2>5. CASE UNCHANGED vars
    BY <1>3, <2>5 DEF vars, nodeVars
  <2> QED BY <2>1, <2>2, <2>3, <2>4, <2>5 DEF Next
<1> QED BY <1>2, <1>3

LEMMA InitFollows == Init => Lifecycle!LInit
BY DEF Init, NodesInit, Lifecycle!LInit, LifeOf

\* The pairing, the node routes and the standbys follow the life of the names,
\* whatever is retried, replaced by force, deleted or broken.
THEOREM LifeOfNames == Spec => FollowsLifecycle
<1>1. Init => Lifecycle!LInit /\ AddsInCalls
  BY InitFollows, RequestsAssumption DEF Init, NodesInit, AddsInCalls, NoRequest, Adding, Deleting
<1>2. Inv /\ AddsInCalls /\ [Next]_vars => [Lifecycle!LNext]_(Lifecycle!lvars)
  BY StepFollows DEF Follows, Life, Lifecycle!lvars
<1> QED BY <1>1, <1>2, AddsStayInCalls, Invariance, PTL DEF Spec, FollowsLifecycle, Lifecycle!LSpec

-----------------------------------------------------------------------------
(* The execution: the cursor of the wizard *)

\* The steps before the cursor, and before the index of a call that was compared
\* with it, were reported, even if the cursor went back meanwhile.
Below(n) == {i \in Nat : i < n}

CursorType ==
    /\ ownSession \in [cursor : 0..Total, completed : BOOLEAN]
    /\ stepCall \in [StepCalls -> StepCall \cup {NoStepCall}]
    /\ reported \subseteq 0..(Total - 1)

StepsReported ==
    /\ Below(ownSession.cursor) \subseteq reported
    /\ \A c \in StepCalls : stepCall[c] # NoStepCall =>
          stepCall[c].idx < Total /\ Below(stepCall[c].idx) \subseteq reported

\* A call that takes the cursor back has a step to go back to.
BackHasStep == \A c \in StepCalls : stepCall[c].op = "back" => stepCall[c].idx > 0

CursorInv == CursorType /\ StepsReported /\ BackHasStep /\ CompletedMeansReported

LEMMA InitCursor == ExecInit => CursorInv
BY StepAssumption DEF ExecInit, CursorInv, CursorType, StepsReported, BackHasStep,
   CompletedMeansReported, Below, NoStepCall

\* The calls that a stop, or the end of the backend, cuts.
LEMMA CallsCut ==
    ASSUME CursorInv, stepCall' = [c \in StepCalls |-> NoStepCall], UNCHANGED <<ownSession, reported>>
    PROVE  CursorInv'
BY DEF CursorInv, CursorType, StepsReported, BackHasStep, CompletedMeansReported, NoStepCall

\* Commands and sockets leave the wizard alone.
LEMMA WizardUntouched ==
    ASSUME CursorInv, UNCHANGED wizardVars
    PROVE  CursorInv'
BY DEF CursorInv, CursorType, StepsReported, BackHasStep, CompletedMeansReported, wizardVars

\* A call that answers: what remains is known of the others.
LEMMA CallAnswers ==
    ASSUME CursorInv, NEW c \in StepCalls, AnswerStep(c), reported \subseteq reported'
    PROVE  /\ stepCall' \in [StepCalls -> StepCall \cup {NoStepCall}]
           /\ \A d \in StepCalls : stepCall'[d] # NoStepCall =>
                 stepCall'[d].idx < Total /\ Below(stepCall'[d].idx) \subseteq reported'
           /\ BackHasStep'
<1>1. stepCall \in [StepCalls -> StepCall \cup {NoStepCall}] /\ stepCall' = [stepCall EXCEPT ![c] = NoStepCall]
  BY DEF CursorInv, CursorType, AnswerStep
<1>2. \A d \in StepCalls : stepCall'[d] = IF d = c THEN NoStepCall ELSE stepCall[d]
  BY <1>1
<1>3. NoStepCall.op # "back"
  BY DEF NoStepCall
<1> QED BY <1>1, <1>2, <1>3 DEF CursorInv, StepsReported, BackHasStep

LEMMA AskKeepsCursor ==
    ASSUME CursorInv, NEW c \in StepCalls, NEW op \in {"done", "back"},
           NEW idx \in 0..(Total - 1), AskStep(c, op, idx)
    PROVE  CursorInv'
<1> DEFINE r == [op |-> op, idx |-> idx]
<1>1. /\ stepCall \in [StepCalls -> StepCall \cup {NoStepCall}] /\ stepCall' = [stepCall EXCEPT ![c] = r]
      /\ UNCHANGED <<ownSession, reported>> /\ idx = ownSession.cursor
      /\ op = "back" => idx > 0
  BY DEF CursorInv, CursorType, AskStep
<1>2. r \in StepCall /\ r.op = op /\ r.idx = idx /\ idx \in Nat /\ idx < Total
  BY StepAssumption DEF StepCall
<1> HIDE DEF r
<1>3. \A d \in StepCalls : stepCall'[d] = IF d = c THEN r ELSE stepCall[d]
  BY <1>1
<1>4. CursorType'
  BY <1>1, <1>2 DEF CursorInv, CursorType
<1>5. StepsReported'
  BY <1>1, <1>2, <1>3 DEF CursorInv, StepsReported
<1>6. BackHasStep' /\ CompletedMeansReported'
  BY <1>1, <1>2, <1>3 DEF CursorInv, BackHasStep, CompletedMeansReported
<1> QED BY <1>4, <1>5, <1>6 DEF CursorInv

LEMMA AdvanceKeepsCursor ==
    ASSUME CursorInv, NEW c \in StepCalls, AdvanceStep(c)
    PROVE  CursorInv'
<1> DEFINE i == stepCall[c].idx
<1>1. stepCall[c] \in StepCall /\ stepCall[c] # NoStepCall /\ i \in Nat
  BY DEF CursorInv, CursorType, AdvanceStep, StepCall, NoStepCall
<1>2. i < Total /\ Below(i) \subseteq reported
  BY <1>1 DEF CursorInv, StepsReported
<1>3. /\ ownSession' = [cursor |-> i + 1, completed |-> ownSession.completed \/ i + 1 >= Total]
      /\ reported' = reported \cup {i} /\ AnswerStep(c)
  BY DEF AdvanceStep
<1>4. ownSession.completed \in BOOLEAN /\ reported \subseteq 0..(Total - 1)
  BY DEF CursorInv, CursorType
<1> HIDE DEF i
<1>5. /\ ownSession'.cursor = i + 1
      /\ ownSession'.completed = (ownSession.completed \/ i + 1 >= Total)
      /\ ownSession' \in [cursor : 0..Total, completed : BOOLEAN]
  BY <1>1, <1>2, <1>3, <1>4, StepAssumption
<1>6. reported' \subseteq 0..(Total - 1) /\ reported \subseteq reported'
  BY <1>1, <1>2, <1>3, <1>4, StepAssumption
<1>7. Below(i + 1) \subseteq reported'
  BY <1>1, <1>2, <1>3 DEF Below
<1>8. CompletedMeansReported'
  <2>1. CASE ownSession.completed
    BY <2>1, <1>5, <1>6 DEF CursorInv, CompletedMeansReported
  <2>2. CASE i + 1 >= Total
    <3>1. i + 1 = Total
      BY <2>2, <1>1, <1>2, StepAssumption
    <3>2. \A n \in 0..(Total - 1) : n \in Below(i + 1)
      BY <3>1, StepAssumption DEF Below
    <3> QED BY <3>2, <1>6, <1>7 DEF CompletedMeansReported
  <2>3. CASE ~ownSession.completed /\ ~(i + 1 >= Total)
    BY <2>3, <1>5 DEF CompletedMeansReported
  <2> QED BY <2>1, <2>2, <2>3
<1> QED BY <1>3, <1>5, <1>6, <1>7, <1>8, CallAnswers DEF CursorInv, CursorType, StepsReported

LEMMA BackKeepsCursor ==
    ASSUME CursorInv, NEW c \in StepCalls, BackStep(c)
    PROVE  CursorInv'
<1> DEFINE i == stepCall[c].idx
<1>1. stepCall[c] \in StepCall /\ stepCall[c] # NoStepCall /\ i \in Nat /\ i > 0
  BY DEF CursorInv, CursorType, BackHasStep, BackStep, StepCall, NoStepCall
<1>2. i < Total /\ Below(i) \subseteq reported
  BY <1>1 DEF CursorInv, StepsReported
<1>3. /\ ownSession' = [ownSession EXCEPT !.cursor = i - 1]
      /\ reported' = reported /\ AnswerStep(c)
  BY DEF BackStep
<1>4. ownSession \in [cursor : 0..Total, completed : BOOLEAN]
  BY DEF CursorInv, CursorType
<1> HIDE DEF i
<1>5. /\ ownSession'.cursor = i - 1 /\ ownSession'.completed = ownSession.completed
      /\ ownSession' \in [cursor : 0..Total, completed : BOOLEAN]
  BY <1>1, <1>2, <1>3, <1>4, StepAssumption
<1>6. Below(i - 1) \subseteq reported'
  BY <1>1, <1>2, <1>3 DEF Below
<1>7. CompletedMeansReported'
  BY <1>3, <1>5 DEF CursorInv, CompletedMeansReported
<1> QED BY <1>3, <1>5, <1>6, <1>7, CallAnswers DEF CursorInv, CursorType, StepsReported

LEMMA NextCursor == CursorInv /\ [ExecNext]_execVars => CursorInv'
<1> SUFFICES ASSUME CursorInv, [ExecNext]_execVars PROVE CursorInv'
  OBVIOUS
<1>1. CASE UNCHANGED execVars
  BY <1>1, WizardUntouched DEF execVars
<1>2. ASSUME NEW s \in Sockets, Open(s) \/ Advance(s) PROVE CursorInv'
  <2>1. CASE StopPg(s)
    BY <2>1, CallsCut DEF StopPg, Stop
  <2>2. CASE ~StopPg(s)
    BY <2>2, <1>2, WizardUntouched DEF Open, Advance, ExecStep, RefreshPool, FirstFrame,
       VerifyMasterReachable, BackupDataDir, PgBasebackup, VerifyStandbySignal, VerifyAutoConf,
       WriteDbCredentialsOverride, StartPg, StartTimesOut, VerifyStreaming, Close, Onwards,
       Stays, OnPgStarted, ForgetPool, InitPool
  <2> QED BY <2>1, <2>2
<1>3. CASE PoolCloses \/ TakeConnection \/ GiveConnection \/ ByHand \/ Rollback \/ PromoteStandbyToMaster
  BY <1>3, WizardUntouched DEF PoolCloses, Stays, TakeConnection, GiveConnection, ByHand, Rollback,
     PromoteStandbyToMaster
<1>4. CASE RestartBackend \/ StopByHand
  BY <1>4, CallsCut DEF RestartBackend, StopByHand, Stop
<1>5. ASSUME NEW c \in StepCalls, WizardCall(c) PROVE CursorInv'
  <2>1. CASE StepFails(c)
    BY <2>1, CallAnswers DEF StepFails, CursorInv, CursorType, StepsReported, CompletedMeansReported
  <2> QED BY <2>1, <1>5, AdvanceKeepsCursor, BackKeepsCursor DEF WizardCall
<1>6. ASSUME NEW c \in StepCalls, NEW op \in {"done", "back"}, NEW idx \in 0..(Total - 1),
             AskStep(c, op, idx)
      PROVE  CursorInv'
  BY <1>6, AskKeepsCursor
<1> QED BY <1>1, <1>2, <1>3, <1>4, <1>5, <1>6 DEF ExecNext

\* A session is completed, and the instance marked as a standby, only when every
\* step was reported as done: advance_step and back_step compare the cursor before
\* their transaction, and any number of them race.
THEOREM CompletedSessionsReported == ExecSpec => []CompletedMeansReported
<1>1. CursorInv => CompletedMeansReported
  BY DEF CursorInv
<1> QED BY <1>1, InitCursor, NextCursor, PTL DEF ExecSpec

-----------------------------------------------------------------------------
(* The execution: the data *)

\* What was written to is still stored after the step.
DataIsKept == \A d \in {"own", "promoted"} : d \in baks \cup {dir} => d \in baks' \cup {dir'}

LEMMA NextKeeps == [ExecNext]_execVars => DataIsKept
<1> SUFFICES ASSUME [ExecNext]_execVars PROVE DataIsKept
  OBVIOUS
<1>1. ASSUME UNCHANGED <<dir, baks>> PROVE DataIsKept
  BY <1>1 DEF DataIsKept
<1>2. CASE Move
  BY <1>2 DEF Move, DataIsKept
<1>3. CASE Copy
  BY <1>3 DEF Copy, DataIsKept
<1>4. CASE Start
  BY <1>4 DEF Start, DataIsKept
<1>5. ASSUME NEW s \in Sockets, Open(s) \/ Advance(s) PROVE DataIsKept
  BY <1>1, <1>2, <1>3, <1>4, <1>5 DEF Open, Advance, ExecStep, RefreshPool, FirstFrame,
     VerifyMasterReachable, StopPg, Stop, BackupDataDir, PgBasebackup, VerifyStandbySignal,
     VerifyAutoConf, WriteDbCredentialsOverride, StartPg, StartTimesOut, VerifyStreaming, Close,
     OnPgStarted, ForgetPool, InitPool, filesVars
<1>6. CASE ByHand
  BY <1>2, <1>3, <1>4, <1>6 DEF ByHand
<1>7. CASE Rollback
  BY <1>7 DEF Rollback, DataIsKept
<1>8. CASE PromoteStandbyToMaster
  BY <1>8 DEF PromoteStandbyToMaster, DataIsKept
<1>9. CASE PoolCloses \/ TakeConnection \/ GiveConnection \/ RestartBackend \/ StopByHand
  BY <1>1, <1>9 DEF PoolCloses, TakeConnection, GiveConnection, RestartBackend, StopByHand, Stop, filesVars
<1>10. ASSUME NEW c \in StepCalls,
              \/ WizardCall(c)
              \/ \E op \in {"done", "back"}, idx \in 0..(Total - 1) : AskStep(c, op, idx)
       PROVE  DataIsKept
  BY <1>1, <1>10 DEF WizardCall, AdvanceStep, BackStep, StepFails, AskStep, AnswerStep, filesVars
<1>11. CASE UNCHANGED execVars
  BY <1>11, <1>1 DEF execVars, filesVars
<1> QED BY <1>5, <1>6, <1>7, <1>8, <1>9, <1>10, <1>11 DEF ExecNext

\* No step of a run, command typed by hand, return to a backup or promotion loses
\* the only copy of a database that was written to.
THEOREM DatabasesAreKept == ExecSpec => DataKept
<1>1. [ExecNext]_execVars => [\A d \in {"own", "promoted"} : d \in Stored => d \in Stored']_execVars
  BY NextKeeps DEF DataIsKept, Stored
<1> QED BY <1>1, PTL DEF ExecSpec, DataKept
=============================================================================
