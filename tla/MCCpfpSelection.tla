--------------------------- MODULE MCCpfpSelection ---------------------------
(***************************************************************************)
(* Instances of CpfpSelection with the amounts, weights and feerates of real  *)
(* transactions: an Unvault of two stakeholders at 6 sats per weight unit, a   *)
(* Spend without fees, two Unvaults at once, and wallets of up to four UTxOs. *)
(***************************************************************************)
EXTENDS CpfpSelection

Bumped(values, weight, fees) ==
  {[to_be_cpfped |-> values, tbc_weight |-> weight, tbc_fees |-> fees,
    added_feerate |-> f] : f \in {0, 19500, 20000, 30000, 62000, 100000}}

UnvaultOrSpends ==
  Bumped(<<30000>>, 772, 4632)
    \cup Bumped(<<15328>>, 958, 0)
    \cup Bumped(<<30000, 30000>>, 1544, 9265)

\* What a second input is worth that pays, with the 15 328 sats of the Spend's CPFP
\* output, exactly the fees of bumping it by 19 500 sats per 1000 weight units.
ExactCoin == 18907

\* Below what an input costs at high feerates, the exact one, an Unvault's, a change.
SmallWallets == BoundedSeq({2000, ExactCoin, 30000, 90000}, 4)
=============================================================================
