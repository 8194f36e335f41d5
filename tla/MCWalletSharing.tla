-------------------------- MODULE MCWalletSharing --------------------------
EXTENDS WalletSharing, TLC

Symmetry == Permutations(Users) \cup Permutations(Grants) \cup Permutations(Keys)
              \cup Permutations(Calls)
=============================================================================
