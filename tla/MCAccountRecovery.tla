------------------------- MODULE MCAccountRecovery -------------------------
(* An account with a wallet, shared with an older one that never renewed its *)
(* words, and an API key; a third identifier for those who come back.        *)
EXTENDS AccountRecovery, TLC

CONSTANTS a, b, u1, u2, u3, w1, w2, g1, g2, g3, k1, k2, s1, s2, c1, c2

User0Def == u1 :> WithPair(a, 0, FALSE) @@ u2 :> [WithPair(b, 0, FALSE) EXCEPT !.byrec = None] @@ u3 :> NoUser
Wallet0Def == w1 :> u1 @@ w2 :> None
Grant0Def == g1 :> [wallet |-> w1, user |-> u1, by |-> u1]
              @@ g2 :> [wallet |-> w1, user |-> u2, by |-> u1] @@ g3 :> NoRow
Key0Def == k1 :> [wallet |-> w1, owner |-> u1] @@ k2 :> NoRow

Symmetry == Permutations(Sessions) \cup Permutations(Calls)
=============================================================================
