----------------------------- MODULE MCPairing -----------------------------
EXTENDS PairingRefinement, TLC

CONSTANTS l1, l2, slug1

\* Two standbys whose URLs give the same application name.
SlugOfDef == (l1 :> slug1) @@ (l2 :> slug1)
RequestsDef == Calls \cup Admins

\* Both labels have the same application name, so that they may be exchanged.
Symmetry ==
    Permutations(Calls) \cup Permutations(Draws) \cup Permutations(Sessions) \cup Permutations(Labels)
=============================================================================
