------------------------------ MODULE MCPurse ------------------------------
EXTENDS Purse, TLC

CONSTANTS b, g, h, pack, box, coin

\* A pack in a pack: two levels, as in the catalogue.
MCPacks == pack :> <<<<b, 1>>, <<coin, 1>>>> @@ box :> <<<<pack, 1>>, <<Tablet, 1>>>>

MCCoins == coin :> <<"emblem", 1>>

\* Two of the bronze inscription, for an exchange of two of a kind.
MCMaxCount == [i \in Counted |-> IF i = b THEN 2 ELSE 1]

Symmetry == Permutations(Gold)
=============================================================================
