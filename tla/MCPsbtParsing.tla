---------------------------- MODULE MCPsbtParsing ----------------------------
(***************************************************************************)
(* Instances of PsbtParsing: amounts in satoshis around the thresholds of the *)
(* constructors and of the parsers, MAX_MONEY and 2^64 scaled down as in       *)
(* MCTransactionChain.                                                       *)
(***************************************************************************)
EXTENDS PsbtParsing

ScaledMaxMoney == 600000
ScaledU64 == 1300000
SmallestDeposit == UnvaultFees + UNVAULT_CPFP_VALUE + DUST_LIMIT

\* One sat below the fees of the Emergency, dust and not dust above them, the
\* smallest deposit that is unvaulted.
ParsingDeposits ==
  {EmergencyFees - 1, EmergencyFees + DUST_VALUE - 1, EmergencyFees + DUST_VALUE,
   SmallestDeposit}

\* 0: no fee-bumping input; with ScaledMaxMoney more is spent than there is.
ParsingFeeBumps == {0, 56730, ScaledMaxMoney}

\* Nothing, dust, all of the inputs, and a sum that wraps around.
ParsingSpendOuts ==
  {<<>>, <<DUST_VALUE - 1>>, <<DUST_VALUE>>, <<200000>>, <<650000, 650330>>}
ParsingChanges == {<<>>, <<50000>>}

OneDeposit == {SmallestDeposit}
NoFeeBump == {0}
OneSpendOut == {<<DUST_VALUE>>}
NoChange == {<<>>}
=============================================================================
