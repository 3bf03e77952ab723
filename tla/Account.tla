------------------------------ MODULE Account ------------------------------
(***************************************************************************)
(* What the two halves of one account share: module Loft has its tablets,  *)
(* module Purse what it has and spends (internal/accounts).  Their names   *)
(* are apart, so that a module can extend both.                            *)
(***************************************************************************)
CONSTANTS
  Conns,   \* game connections of the account
  None,    \* no tablet, no slot, an empty socket
  MaxUid   \* bound on instance ids

VARIABLE
  next     \* Account.NextTabletUID
=============================================================================
