----------------------------- MODULE MCIdentity -----------------------------
EXTENDS Identity, TLC

Symmetry == Permutations(Passwords)
=============================================================================
