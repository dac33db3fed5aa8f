----------------------------- MODULE Constructors -----------------------------
(***************************************************************************)
(* The constructors of the Unvault, Cancel, Emergency, UnvaultEmergency and   *)
(* Spend transactions: their errors, in order, and the amounts they put in a  *)
(* transaction.                                                             *)
(*                                                                          *)
(* A presigned transaction is its type and its amounts: what it spends, its   *)
(* fee-bumping input, the output that carries the coins, the output to be     *)
(* CPFPed (0 where there is none).  Weights are those of the code for P2WSH    *)
(* outputs; the scripts enter by the weight of their satisfactions.           *)
(***************************************************************************)
EXTENDS Integers, SequencesExt

CONSTANTS
  DepositSat,     \* max_sat_weight() of a Deposit txo
  UnvaultSat,     \* max_sat_weight() of an Unvault txo
  MAX_MONEY,      \* max_money(Network::Bitcoin)
  U64             \* 2^64

ASSUME ConstructorsAssumption ==
  DepositSat \in Nat /\ UnvaultSat \in Nat /\ MAX_MONEY \in Nat /\ U64 \in Nat \ {0}

UNVAULT_CPFP_VALUE == 30000
UNVAULT_TX_FEERATE == 6
CANCEL_TX_FEERATE == 22
EMER_TX_FEERATE == 75
DUST_LIMIT == 200000
INSANE_FEES == 20000000
MAX_STANDARD_TX_WEIGHT == 400000

\* What script_pubkey.dust_value() is for a P2WSH output.
DUST_VALUE == 330

\* get_weight() of an unsigned transaction with P2WSH outputs only.
Weight(ins, outs) == 4 * (10 + 41 * ins + 43 * outs)
-----------------------------------------------------------------------------
(***************************************************************************)
(* The constructors: XError is the error of X::new ("None" when it returns    *)
(* Ok, "Panic" when an expect or an assert fails), XTx what it returns.       *)
(***************************************************************************)
UnvaultWeight == Weight(1, 2) + DepositSat
UnvaultFees == UNVAULT_TX_FEERATE * UnvaultWeight
UnvaultValue(d) == d - UnvaultFees - UNVAULT_CPFP_VALUE

\* Mutant: DUST_LIMIT is not asked for.
UnvaultErrorNoLimit(d) ==
  IF UnvaultFees + UNVAULT_CPFP_VALUE > d THEN "Dust"
  ELSE IF UnvaultValue(d) > MAX_MONEY THEN "InsaneAmounts"
  ELSE "None"

UnvaultError(d) ==
  IF UnvaultFees > INSANE_FEES THEN "InsaneFees"
  ELSE IF UnvaultWeight > MAX_STANDARD_TX_WEIGHT THEN "Panic"
  ELSE IF UnvaultFees + UNVAULT_CPFP_VALUE + DUST_LIMIT > d THEN "Dust"
  ELSE IF UnvaultValue(d) > MAX_MONEY THEN "InsaneAmounts"
  ELSE "None"

UnvaultTx(d) ==
  [type |-> "Unvault", in |-> d, feebump |-> 0,
   out |-> UnvaultValue(d), cpfp |-> UNVAULT_CPFP_VALUE]

\* A revocation transaction pays for itself at a fixed feerate: the weight is
\* that without the fee-bumping input.
RevocationWeight(sat) == Weight(1, 1) + sat
CancelFees == CANCEL_TX_FEERATE * RevocationWeight(UnvaultSat)
EmergencyFees == EMER_TX_FEERATE * RevocationWeight(DepositSat)
UnvaultEmergencyFees == EMER_TX_FEERATE * RevocationWeight(UnvaultSat)

\* The debug_assert! and assert! on fees and weight of the three constructors.
RevocationAsserts(fees, sat) ==
  fees < INSANE_FEES /\ RevocationWeight(sat) <= MAX_STANDARD_TX_WEIGHT

CancelError(u, fb) ==
  IF fb > MAX_MONEY THEN "InsaneAmounts"
  ELSE IF ~RevocationAsserts(CancelFees, UnvaultSat) THEN "Panic"
  ELSE IF u < CancelFees \/ u - CancelFees >= MAX_MONEY THEN "Panic"
  ELSE "None"

\* Mutant: the subtraction of the fees is not checked.
EmergencyErrorUnchecked(d, fb) ==
  IF fb > MAX_MONEY THEN "InsaneAmounts"
  ELSE IF d - EmergencyFees > MAX_MONEY THEN "InsaneAmounts"
  ELSE "None"

EmergencyError(d, fb) ==
  IF fb > MAX_MONEY THEN "InsaneAmounts"
  ELSE IF ~RevocationAsserts(EmergencyFees, DepositSat) THEN "Panic"
  ELSE IF d < EmergencyFees THEN "Dust"
  ELSE IF d - EmergencyFees > MAX_MONEY THEN "InsaneAmounts"
  ELSE "None"

UnvaultEmergencyError(u, fb) ==
  IF fb > MAX_MONEY THEN "InsaneAmounts"
  ELSE IF ~RevocationAsserts(UnvaultEmergencyFees, UnvaultSat) THEN "Panic"
  ELSE IF u < UnvaultEmergencyFees \/ u - UnvaultEmergencyFees >= MAX_MONEY
  THEN "Panic"
  ELSE "None"

\* Mutant: the fee-bumping input is paid out.
RevocationTxPaysBump(type, v, fees, fb) ==
  [type |-> type, in |-> v, feebump |-> fb, out |-> v + fb - fees, cpfp |-> 0]

RevocationTx(type, v, fees, fb) ==
  [type |-> type, in |-> v, feebump |-> fb, out |-> v - fees, cpfp |-> 0]

CancelTx(u, fb) == RevocationTx("Cancel", u, CancelFees, fb)
EmergencyTx(d, fb) == RevocationTx("Emergency", d, EmergencyFees, fb)
UnvaultEmergencyTx(u, fb) ==
  RevocationTx("UnvaultEmergency", u, UnvaultEmergencyFees, fb)

FirstError(errs) ==
  LET failing == {i \in DOMAIN errs : errs[i] # "None"} IN
  IF failing = {} THEN "None"
  ELSE errs[CHOOSE i \in failing : \A j \in failing : i <= j]
-----------------------------------------------------------------------------
(***************************************************************************)
(* SpendTransaction::new over the Unvault outputs of a list of deposits.      *)
(***************************************************************************)
Total(seq) == FoldSeq(+, 0, seq)

SpendWeight(ins, outs) == Weight(ins, outs + 1) + ins * UnvaultSat
SpendCpfpValue(ins, outs) == 16 * SpendWeight(ins, outs)

\* The sums of the values spent and sent, in a u64.  The output to be CPFPed is
\* not part of what is sent.
ValueIn(us) == Total(us) % U64
ValueOut(outs) == Total(outs) % U64

\* Mutant: dust outputs are accepted.
SpendErrorNoDust(us, dup, outs, checkInsane) ==
  IF dup THEN "DuplicatedInput"
  ELSE IF ValueOut(outs) > MAX_MONEY THEN "InsaneAmounts"
  ELSE IF ValueIn(us) < ValueOut(outs) THEN "NegativeFees"
  ELSE "None"

\* us: the Unvault values, dup: is one of them there twice?
SpendError(us, dup, outs, checkInsane) ==
  IF dup THEN "DuplicatedInput"
  ELSE IF \E i \in DOMAIN outs : outs[i] < DUST_VALUE THEN "Dust"
  ELSE IF SpendWeight(Len(us), Len(outs)) > MAX_STANDARD_TX_WEIGHT THEN "TooLarge"
  ELSE IF ValueOut(outs) > MAX_MONEY THEN "InsaneAmounts"
  ELSE IF ValueIn(us) < ValueOut(outs) THEN "NegativeFees"
  ELSE IF checkInsane /\ ValueIn(us) - ValueOut(outs) > INSANE_FEES
  THEN "InsaneFees"
  ELSE "None"

SpendTx(us, outs) ==
  [ins |-> us, cpfp |-> SpendCpfpValue(Len(us), Len(outs)), outs |-> outs]

(***************************************************************************)
(* psbt_fees() and the amount checks of psbt_common_sanity_checks().          *)
(***************************************************************************)
OutputParses(v) == v \in DUST_VALUE..MAX_MONEY

\* FeesParse: the checks on the sums of the inputs and of the outputs.
FeesParse(in, out) == out <= in /\ in - out <= MAX_MONEY
=============================================================================
