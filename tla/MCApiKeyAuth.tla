---------------------------- MODULE MCApiKeyAuth ----------------------------
EXTENDS ApiKeyAuth, TLC

CONSTANTS k1, k2, n1, n2, u1, c1, c2

\* Every key belongs to u1: one deletion of a grant revokes them all.
OneOwner == [k \in Keys |-> u1]

Symmetry == Permutations(Keys) \cup Permutations(Nodes) \cup Permutations(Calls)
=============================================================================
