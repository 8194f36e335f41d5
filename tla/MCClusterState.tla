--------------------------- MODULE MCClusterState ---------------------------
EXTENDS ClusterState
=============================================================================
