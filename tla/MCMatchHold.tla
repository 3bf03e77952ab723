---------------------------- MODULE MCMatchHold ----------------------------
(* MatchHold on a few players and connections.                             *)
EXTENDS MatchHold, TLC

Symmetry == Permutations(Players) \cup Permutations(Conns)
=============================================================================
