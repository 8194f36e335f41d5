------------------------ MODULE ReplicationContract ------------------------
(***************************************************************************)
(* What application-level replication promises: each node follows the log   *)
(* of each peer, one committed change after the other.  Brokers, cursors,   *)
(* shelves and crashes are not visible here.                                *)
(***************************************************************************)
EXTENDS Naturals

CONSTANTS Nodes

VARIABLES
    changes,    \* the changes each node committed, by seq
    upto        \* how far each node has followed each peer

rvars == <<changes, upto>>

RInit ==
    /\ changes = [n \in Nodes |-> {}]
    /\ upto = [n \in Nodes |-> [m \in Nodes |-> 0]]

\* Some changes of n commit; none is ever withdrawn.
Commit(n) == changes' = [changes EXCEPT ![n] = @ \cup changes'[n]]

Follow(n, m) ==
    /\ m # n
    /\ upto[n][m] + 1 \in changes[m]
    /\ upto' = [upto EXCEPT ![n][m] = @ + 1]

RNext ==
    \E n \in Nodes :
        /\ Commit(n)
        /\ UNCHANGED upto \/ \E m \in Nodes : Follow(n, m)

RSpec == RInit /\ [][RNext]_rvars
=============================================================================
