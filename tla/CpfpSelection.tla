---------------------------- MODULE CpfpSelection ----------------------------
(***************************************************************************)
(* CpfpTransaction::from_txins: the largest-first coin selection loop that    *)
(* bumps a package of Unvault or Spend transactions.  One action is one       *)
(* iteration of the loop.                                                   *)
(***************************************************************************)
EXTENDS CpfpFees

CONSTANTS
  Packages,   \* what callers may ask to bump
  Wallets     \* the available UTxOs: sequences of their values

ASSUME PackagesAssumption ==
  /\ Packages \subseteq {p \in Package : p.to_be_cpfped # <<>>}
  /\ Wallets \subseteq Seq(Nat)

VARIABLES
  package,          \* the arguments about the transactions to bump
  utxos,            \* the argument available_utxos
  available_utxos,  \* what is left of it
  ins,              \* inputs of the transaction so far
  inputs_sum,       \* their value
  result            \* what the function returned

vars == <<package, utxos, available_utxos, ins, inputs_sum, result>>

Pending == [status |-> "pending"]
InsufficientFunds == [status |-> "InsufficientFunds"]

Init ==
  /\ package \in Packages
  /\ utxos \in Wallets
  /\ available_utxos = utxos
  /\ ins = Len(package.to_be_cpfped)
  /\ inputs_sum = Total(package.to_be_cpfped)
  /\ result = Pending

\* The inputs are worth more than one of the two kinds of output needs in fees.
Enough(p, n, sum) ==
  \/ sum > FeesNeeded(p, n, "change")
  \/ sum > FeesNeeded(p, n, OpReturnScript(n))

\* Mutant: the vector is sorted in descending order.
Smallest(i) ==
  \A j \in DOMAIN available_utxos : available_utxos[j] >= available_utxos[i]

\* The UTxO that pop() takes from the vector sorted by value.
Largest(i) ==
  \A j \in DOMAIN available_utxos : available_utxos[j] <= available_utxos[i]

\* Mutant: the operands of the subtraction are swapped.
WorthChangeSwapped ==
  FeesNeeded(package, ins, "change") - inputs_sum > CPFP_MIN_CHANGE

WorthChange ==
  inputs_sum - FeesNeeded(package, ins, "change") > CPFP_MIN_CHANGE

Return(script, value) ==
  /\ result = Pending
  /\ Enough(package, ins, inputs_sum)
  /\ result' = [status |-> "Ok", inputs |-> ins, spent |-> inputs_sum,
                script |-> script, value |-> value]
  /\ UNCHANGED <<package, utxos, available_utxos, ins, inputs_sum>>

ReturnChange ==
  /\ WorthChange
  /\ Return("change", inputs_sum - FeesNeeded(package, ins, "change"))

ReturnOpReturn ==
  /\ ~WorthChange
  /\ Return(OpReturnScript(ins), 0)

AddInput ==
  /\ result = Pending
  /\ ~Enough(package, ins, inputs_sum)
  /\ \E i \in DOMAIN available_utxos :
       /\ Largest(i)
       /\ available_utxos' = RemoveAt(available_utxos, i)
       /\ inputs_sum' = inputs_sum + available_utxos[i]
  /\ ins' = ins + 1
  /\ UNCHANGED <<package, utxos, result>>

GiveUp ==
  /\ result = Pending
  /\ ~Enough(package, ins, inputs_sum)
  /\ available_utxos = <<>>
  /\ result' = InsufficientFunds
  /\ UNCHANGED <<package, utxos, available_utxos, ins, inputs_sum>>

Next == ReturnChange \/ ReturnOpReturn \/ AddInput \/ GiveUp

Spec == Init /\ [][Next]_vars /\ WF_vars(Next)
-----------------------------------------------------------------------------
Bumps ==
  [status : {"Ok"}, inputs : Nat, spent : Nat, script : Scripts, value : Nat]

\* Amounts are never negative: no subtraction of Amounts in the loop panics, and
\* the fees() of the transaction are defined.
TypeOK ==
  /\ package \in Package /\ utxos \in Seq(Nat) /\ available_utxos \in Seq(Nat)
  /\ ins \in Nat \ {0} /\ inputs_sum \in Nat
  /\ \A script \in Scripts : FeesNeeded(package, ins, script) >= 0
  /\ result \in Bumps \cup {Pending, InsufficientFunds}

\* The package pays at most CPFP_MIN_CHANGE sats more than its target feerate
\* asks for, whatever the coins, and the transaction sends no more than it spends.
OverpaymentBounded ==
  result.status = "Ok" =>
    /\ result.value <= result.spent
    /\ result.spent - result.value
         <= FeesNeeded(package, result.inputs, "change") + CPFP_MIN_CHANGE

\* The bump adds what it was asked for to the feerate of the transactions it
\* bumps, whatever was rounded on the way; and when there is a change output no
\* more than the 1000 sats per 1000 weight units that rounding up adds to it.
FeerateAdded ==
  result.status = "Ok" =>
    LET weight == PackageWeight(package, result.inputs, result.script)
        fees == result.spent - result.value + package.tbc_fees
        unbumped == (package.tbc_fees * weight + package.tbc_weight - 1) \div package.tbc_weight
    IN
    /\ package.added_feerate * weight <= 1000 * (fees - unbumped)
    /\ result.script = "change" =>
         1000 * (fees - unbumped) <= (package.added_feerate + 1000) * weight

\* The transaction has the 82 bytes that the network asks for at least.
StandardSize ==
  result.status = "Ok" => StrippedSize(result.inputs, result.script) >= 82

\* Largest-first does what the doc promises but for one sat: the transaction meets
\* the target feerate with the fewest inputs that leave at least one sat above the
\* fees, and the function gives up only if no choice of UTxOs leaves that much
\* (the comparisons of cpfp.rs:155 are strict).  It always returns.
Promise == INSTANCE CpfpPromise WITH
  package <- package, utxos <- utxos, result <- result, Margin <- 1
KeepsPromise == Promise!Spec

\* "will error if not enough UTxOs are provided to cover the expected feerate"
\* (cpfp.rs:58): the promise to the letter.  Coins that pay the fees exactly cover
\* the feerate, and the function takes one more or gives up.
DocPromise == INSTANCE CpfpPromise WITH
  package <- package, utxos <- utxos, result <- result, Margin <- 0
CoversExactly == DocPromise!Spec
=============================================================================
