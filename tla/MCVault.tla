------------------------------- MODULE MCVault -------------------------------
(***************************************************************************)
(* Two funded deposits at different derivation indexes and one output to bump *)
(* fees with.                                                                *)
(***************************************************************************)
EXTENDS Vault, TLC

CONSTANTS c1, c2, b1

TwoCoins == {c1, c2}
TwoIndexes == c1 :> 1 @@ c2 :> 2
OneFeeBump == {b1}
TwoLockTimes == {0, 1}
=============================================================================
