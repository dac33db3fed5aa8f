----------------------------- MODULE CpfpPromise -----------------------------
(***************************************************************************)
(* What the doc of CpfpTransaction::from_txins promises, without saying how   *)
(* coins are selected: a transaction that spends the outputs to be CPFPed and *)
(* as few as possible of the available UTxOs and brings the package to the     *)
(* target feerate, or an error when no choice of UTxOs can.                   *)
(*                                                                          *)
(* The doc's promise is the one without Margin: coins do when there is an      *)
(* output with which they meet the target feerate.                           *)
(***************************************************************************)
EXTENDS CpfpFees

CONSTANTS
  Packages,   \* what callers may ask to bump
  Wallets,    \* the available UTxOs: sequences of their values
  Margin      \* sats that coins have to leave above the fees to be said to do

VARIABLES package, utxos, result

vars == <<package, utxos, result>>

Pending == [status |-> "pending"]
InsufficientFunds == [status |-> "InsufficientFunds"]

Init == package \in Packages /\ utxos \in Wallets /\ result = Pending

\* The value of the coins spent when the UTxOs of indices K are added.
Spent(K) ==
  Total(package.to_be_cpfped) + SumFunctionOnSet(utxos, K)

Inputs(K) == Len(package.to_be_cpfped) + Cardinality(K)

\* What an output of this kind is worth when n inputs of this value are spent.
OutputValue(n, sum, script) ==
  IF script = "change" THEN sum - FeesNeeded(package, n, script) ELSE 0

\* The output makes the package meet its target feerate: what is not sent to a
\* change output is paid as fees.
Meets(n, sum, script, value) ==
  /\ value <= sum
  /\ sum - value >= FeesNeeded(package, n, script)
  /\ \/ script = "change" /\ value > CPFP_MIN_CHANGE
     \/ script = OpReturnScript(n) /\ value = 0

\* With one of the outputs K meets the target feerate, were it even worth Margin less.
Sufficient(K) ==
  LET n == Inputs(K)
      sum == Spent(K) - Margin
  IN  \E script \in Scripts : Meets(n, sum, script, OutputValue(n, sum, script))

Bump ==
  /\ result = Pending
  /\ \E K \in SUBSET DOMAIN utxos, script \in Scripts :
       LET value == OutputValue(Inputs(K), Spent(K), script) IN
       /\ Sufficient(K)
       /\ \A L \in SUBSET DOMAIN utxos :
            Cardinality(L) < Cardinality(K) => ~Sufficient(L)
       /\ Meets(Inputs(K), Spent(K), script, value)
       /\ result' = [status |-> "Ok", inputs |-> Inputs(K), spent |-> Spent(K),
                     script |-> script, value |-> value]
  /\ UNCHANGED <<package, utxos>>

Refuse ==
  /\ result = Pending
  /\ \A K \in SUBSET DOMAIN utxos : ~Sufficient(K)
  /\ result' = InsufficientFunds
  /\ UNCHANGED <<package, utxos>>

Next == Bump \/ Refuse

Spec == Init /\ [][Next]_vars /\ WF_vars(Next)
=============================================================================
