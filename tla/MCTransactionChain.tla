-------------------------- MODULE MCTransactionChain --------------------------
(***************************************************************************)
(* Instances of TransactionChain with the fee rates, limits and weights of    *)
(* the code in satoshis; MAX_MONEY and 2^64, which do not fit TLC's integers,  *)
(* are scaled down and only need to be above the amounts at play.             *)
(*                                                                          *)
(* DepositSat is 224 for two stakeholders (the smallest deposit that the      *)
(* tests accept is 234 632 sats), 4112 for 38: 35 bytes of script and 73 of    *)
(* signature for each, and 8 more.                                           *)
(***************************************************************************)
EXTENDS TransactionChain

CONSTANTS v1, v2

OneVault == {v1}
TwoVaults == {v1, v2}

\* Around the smallest deposit, two revaults above it, and the largest.
ScaledMaxMoney == 600000
ScaledU64 == 1300000
SmallestDeposit == UnvaultFees + UNVAULT_CPFP_VALUE + DUST_LIMIT
ChainAmounts ==
  {EmergencyFees - 1, UnvaultFees + UNVAULT_CPFP_VALUE + CancelFees + 1,
   SmallestDeposit - 1, SmallestDeposit, SmallestDeposit + 120000, ScaledMaxMoney}
TwoAmounts == {SmallestDeposit, SmallestDeposit + 120000}
ChainFeeBumps == {294, 56730, ScaledMaxMoney + 1}
ChainSpends == {DUST_VALUE - 1, 150000, 200000}
NoFeeBumps == {}
NoSpends == {}

\* With many stakeholders the Emergency asks for more than the Unvault does.
LargeWalletAmounts == {SmallestDeposit, EmergencyFees + 60000}
=============================================================================
