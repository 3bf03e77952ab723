------------------------------- MODULE MCLoft -------------------------------
EXTENDS Loft, TLC

\* Two slots on the first page, one on the second.
MCKeys == {<<0, 0>>, <<0, 1>>, <<1, 0>>}

Symmetry == Permutations(Conns) \cup Permutations(Ids)
=============================================================================
