------------------------------- MODULE CpfpFees -------------------------------
(***************************************************************************)
(* Weights, feerates and fees of a CPFP transaction and of the transactions   *)
(* it is to bump (the package), as CpfpTransaction::from_txins computes them. *)
(* Feerates are in sats per 1000 weight units.                               *)
(***************************************************************************)
EXTENDS Integers, SequencesExt

CONSTANT CpfpSat   \* max_sat_weight() of a Cpfp txo; one descriptor, one weight

ASSUME CpfpSatAssumption == CpfpSat \in Nat

CPFP_MIN_CHANGE == 10000

(***************************************************************************)
(* A package: the values of the outputs to be CPFPed, the weight and the fees *)
(* of the transactions they are in, the feerate to add.                      *)
(***************************************************************************)
Package == [to_be_cpfped : Seq(Nat), tbc_weight : Nat \ {0}, tbc_fees : Nat,
            added_feerate : Nat]

Total(seq) == FoldSeq(+, 0, seq)

\* The script of the single output, and the size of this output in bytes.
Scripts == {"change", "op_return", "padded_op_return"}
OutputSize == [change |-> 43, op_return |-> 11, padded_op_return |-> 33]

\* Mutant: the OP_RETURN is never padded.
OpReturnScriptUnpadded(ins) == "op_return"

\* op_return_script(): with one input an empty OP_RETURN would be too small.
OpReturnScript(ins) == IF ins > 1 THEN "op_return" ELSE "padded_op_return"

\* Size of the transaction without its witnesses, weight with them at their most.
StrippedSize(ins, script) == 10 + 41 * ins + OutputSize[script]
CpfpWeight(ins, script) == 4 * StrippedSize(ins, script) + ins * CpfpSat
\* Mutant: the transactions to bump are left out of the package.
PackageWeightAlone(p, ins, script) == CpfpWeight(ins, script)

PackageWeight(p, ins, script) == CpfpWeight(ins, script) + p.tbc_weight

\* Mutant: the feerate of the transactions to bump is rounded down.
TbcFeerateRoundedDown(p) == (1000 * p.tbc_fees) \div p.tbc_weight

TbcFeerate(p) == (1000 * (p.tbc_fees + p.tbc_weight)) \div p.tbc_weight
TargetFeerate(p) == TbcFeerate(p) + p.added_feerate

\* What the CPFP transaction has to pay.  The code subtracts Amounts: a negative
\* result is a panic.
FeesNeeded(p, ins, script) ==
  (TargetFeerate(p) * PackageWeight(p, ins, script)) \div 1000 - p.tbc_fees
=============================================================================
