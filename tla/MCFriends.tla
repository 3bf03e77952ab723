----------------------------- MODULE MCFriends -----------------------------
(* Friends with a few accounts and handlers, which are interchangeable.    *)
EXTENDS Friends, TLC

Symmetry == Permutations(Accounts) \cup Permutations(Handlers)
=============================================================================
