------------------------- MODULE MCSyncReplication -------------------------
(***************************************************************************)
(* Small instances of SyncReplication for TLC.                              *)
(***************************************************************************)
EXTENDS SyncReplicationRefinement

CONSTANTS n1, n2
=============================================================================
