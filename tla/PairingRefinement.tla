------------------------- MODULE PairingRefinement -------------------------
(***************************************************************************)
(* The pairing and the node routes implement the life of a name: a name is  *)
(* registered as long as its row is committed, and reserved as long as a    *)
(* registration that drew it goes on.                                        *)
(***************************************************************************)
EXTENDS Pairing

Reserved(d) ==
    \E r \in Requests :
        /\ request[r].step \in Adding \cup Deleting
        /\ request[r].op = "add" /\ request[r].draw = d

LifeOf(d) ==
    CASE drawn[d] = None -> "unused"
      [] drawn[d] # None /\ node[d] # None -> "registered"
      [] drawn[d] # None /\ node[d] = None /\ Reserved(d) -> "reserved"
      [] OTHER -> "gone"

Lifecycle == INSTANCE NodeLifecycle
    WITH Names <- Draws, life <- [d \in Draws |-> LifeOf(d)], label <- drawn

\* However registrations, replacements by force, deletions and failures cross:
\* an application has one registered node at a time, a node that streams is not
\* removed, and the credentials of a name that was removed or given up are never
\* those of a node again.
FollowsLifecycle == Lifecycle!LSpec
=============================================================================
