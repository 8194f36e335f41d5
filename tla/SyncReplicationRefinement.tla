--------------------- MODULE SyncReplicationRefinement ---------------------
(***************************************************************************)
(* The replication implements its contract: the committed changes a node    *)
(* logs under its own name are its changes, last_applied_seq is how far a   *)
(* peer has been followed.                                                  *)
(***************************************************************************)
EXTENDS SyncReplication

OwnChanges(n) ==
    {s \in Seqs : /\ log[n][s].state = "committed" /\ log[n][s].emitter = n
                  /\ log[n][s].kind = "transaction"}

Contract == INSTANCE ReplicationContract
    WITH changes <- [n \in Nodes |-> OwnChanges(n)], upto <- applied

\* A peer is followed change by change, in order, and a change is never
\* withdrawn, whatever the broker, the shelf and the crashes do.
ImplementsContract == Contract!RSpec
=============================================================================
