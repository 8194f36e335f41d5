----------------------------- MODULE MCConnect -----------------------------
(***************************************************************************)
(* Small instances of Connect for TLC.                                      *)
(***************************************************************************)
EXTENDS ConnectRefinement, TLC

CONSTANTS a1, a2, u1, u2, r1, r2, k1, k2, c1, c2, p1, p2

\* The applications, users, calls and keys are interchangeable.
Symmetry == Permutations(Users) \cup Permutations(Calls) \cup Permutations(Keys)
            \cup Permutations(Clients) \cup Permutations(Requests)

=============================================================================
