------------------------- MODULE CpfpSelectionProofs -------------------------
(***************************************************************************)
(* Proofs about CpfpSelection, for any packages, wallets and witness weight:   *)
(* the arithmetic of the loop cannot underflow, and its transactions have the *)
(* standard size, and the loop does what its doc promises.                   *)
(***************************************************************************)
EXTENDS CpfpSelection, SumProofs

\* Division rounds down, by less than one.
LEMMA DivRounds ==
  ASSUME NEW a \in Nat, NEW b \in Nat \ {0}
  PROVE  /\ a \div b \in Nat
         /\ b * (a \div b) <= a
         /\ a < b * (a \div b) + b
BY Z3

LEMMA DivBound ==
  ASSUME NEW a \in Nat, NEW b \in Nat \ {0}, NEW c \in Nat, b * c <= a
  PROVE  c <= a \div b
<1>1. \/ c <= a \div b
      \/ c >= a \div b + 1
  BY DivRounds
<1>2. a < b * (a \div b + 1)
  BY DivRounds
<1> QED
  BY <1>1, <1>2, DivRounds, Z3

LEMMA WeightType ==
  ASSUME NEW n \in Nat, NEW script \in Scripts
  PROVE  /\ OutputSize[script] \in 11..43
         /\ StrippedSize(n, script) = 10 + 41 * n + OutputSize[script]
         /\ CpfpWeight(n, script) \in Nat
<1>1. OutputSize[script] \in 11..43
  BY DEF OutputSize, Scripts
<1>2. n * CpfpSat \in Nat
  BY CpfpSatAssumption
<1>3. StrippedSize(n, script) \in Nat
  BY <1>1 DEF StrippedSize
<1> QED
  BY <1>1, <1>2, <1>3 DEF StrippedSize, CpfpWeight

\* The subtraction of the fees already paid by the transactions to bump never
\* underflows: rounding their feerate up makes the target ask for at least that
\* much, after both roundings down.
THEOREM NoUnderflow ==
  ASSUME NEW p \in Package, NEW n \in Nat, NEW script \in Scripts
  PROVE  FeesNeeded(p, n, script) \in Nat
<1> DEFINE f == p.tbc_fees
           w == p.tbc_weight
           q == TbcFeerate(p)
           t == TargetFeerate(p)
           pw == PackageWeight(p, n, script)
<1>1. f \in Nat /\ w \in Nat \ {0} /\ p.added_feerate \in Nat
  BY DEF Package
<1>2. q = (1000 * (f + w)) \div w
  BY DEF TbcFeerate
<1> DEFINE a == 1000 * (f + w)
<1>3. a \in Nat /\ a = 1000 * f + 1000 * w
  BY <1>1
<1>4. q \in Nat /\ a < w * q + w
  <2> HIDE DEF a, f, w, q
  <2> QED
    BY <1>1, <1>2, <1>3, DivRounds DEF a
<1>5. pw \in Nat /\ w <= pw
  BY <1>1, WeightType DEF PackageWeight
<1>6. t \in Nat /\ q <= t
  BY <1>1, <1>4 DEF TargetFeerate
<1> HIDE DEF f, w, q, t, pw, a
<1>7. /\ t * pw \in Nat /\ q * w \in Nat /\ q * w <= t * pw
  BY <1>1, <1>4, <1>5, <1>6, MultMonotone
<1>8. q * w = w * q
  BY <1>1, <1>4
<1>9. 1000 * f <= t * pw
  BY <1>1, <1>3, <1>4, <1>7, <1>8
<1>10. f <= (t * pw) \div 1000 /\ (t * pw) \div 1000 \in Nat
  BY <1>1, <1>7, <1>9, DivBound, DivRounds
<1>11. FeesNeeded(p, n, script) = (t * pw) \div 1000 - f
  BY DEF FeesNeeded, t, pw, f
<1> QED
  BY <1>1, <1>10, <1>11

\* The change output is the heavier one: a transaction that can have it can also
\* do with the OP_RETURN.
THEOREM OpReturnIsCheaper ==
  ASSUME NEW p \in Package, NEW n \in Nat
  PROVE  FeesNeeded(p, n, OpReturnScript(n)) <= FeesNeeded(p, n, "change")
<1> DEFINE t == TargetFeerate(p)
           light == PackageWeight(p, n, OpReturnScript(n))
           heavy == PackageWeight(p, n, "change")
<1>1. /\ p.tbc_fees \in Nat /\ p.tbc_weight \in Nat \ {0} /\ p.added_feerate \in Nat
      /\ 1000 * (p.tbc_fees + p.tbc_weight) \in Nat
  BY DEF Package
<1>2. t \in Nat
  BY <1>1, DivRounds DEF TargetFeerate, TbcFeerate
<1>3. light \in Nat /\ heavy \in Nat /\ light <= heavy
  <2>1. {"change", OpReturnScript(n)} \subseteq Scripts
    BY DEF Scripts, OpReturnScript
  <2>2. n * CpfpSat \in Nat
    BY CpfpSatAssumption
  <2>3. OutputSize["change"] = 43 /\ OutputSize[OpReturnScript(n)] \in 11..33
    BY DEF OutputSize, OpReturnScript
  <2> HIDE DEF light, heavy
  <2> QED
    BY <1>1, <2>2, <2>3 DEF light, heavy, PackageWeight, CpfpWeight, StrippedSize
<1> HIDE DEF t, light, heavy
<1>4. t * light \in Nat /\ t * heavy \in Nat /\ t * light <= t * heavy
  BY <1>2, <1>3, MultMonotone
<1>5. /\ (t * light) \div 1000 \in Nat
      /\ 1000 * ((t * light) \div 1000) <= t * light
      /\ (t * heavy) \div 1000 \in Nat
  BY <1>4, DivRounds
<1>6. (t * light) \div 1000 <= (t * heavy) \div 1000
  BY <1>4, <1>5, DivBound
<1> QED
  BY <1>1, <1>5, <1>6 DEF FeesNeeded, t, light, heavy
-----------------------------------------------------------------------------
\* What was returned has the inputs at that time and one of its two outputs.
SizeInv ==
  /\ package \in Packages
  /\ ins \in Nat \ {0}
  /\ result.status = "Ok" =>
       /\ result.inputs \in Nat \ {0}
       /\ result.script \in {"change", OpReturnScript(result.inputs)}

\* However many coins are selected the transaction is not below the minimum size
\* that the network relays.
THEOREM Standard == Spec => []StandardSize
<1>1. Init => SizeInv
  <2> SUFFICES ASSUME Init PROVE SizeInv
    OBVIOUS
  <2>1. package.to_be_cpfped \in Seq(Nat) /\ package.to_be_cpfped # <<>>
    BY PackagesAssumption DEF Init, Package
  <2> QED
    BY <2>1 DEF Init, SizeInv, Pending
<1>2. SizeInv /\ [Next]_vars => SizeInv'
  <2> SUFFICES ASSUME SizeInv, [Next]_vars PROVE SizeInv'
    OBVIOUS
  <2>1. CASE ReturnChange
    BY <2>1 DEF SizeInv, ReturnChange, Return
  <2>2. CASE ReturnOpReturn
    BY <2>2 DEF SizeInv, ReturnOpReturn, Return
  <2>3. CASE AddInput
    BY <2>3 DEF SizeInv, AddInput
  <2>4. CASE GiveUp
    BY <2>4 DEF SizeInv, GiveUp, InsufficientFunds
  <2>5. CASE UNCHANGED vars
    BY <2>5 DEF SizeInv, vars
  <2> QED
    BY <2>1, <2>2, <2>3, <2>4, <2>5 DEF Next
<1>3. SizeInv => StandardSize
  <2> SUFFICES ASSUME SizeInv, result.status = "Ok"
               PROVE  StrippedSize(result.inputs, result.script) >= 82
    BY DEF StandardSize
  <2> DEFINE n == result.inputs
  <2>1. n \in Nat \ {0} /\ result.script \in {"change", OpReturnScript(n)}
    BY DEF SizeInv
  <2> HIDE DEF n
  <2>2. n > 1 => OutputSize[result.script] \in {11, 43}
    BY <2>1 DEF OpReturnScript, OutputSize
  <2>3. ~(n > 1) => OutputSize[result.script] \in {33, 43}
    BY <2>1 DEF OpReturnScript, OutputSize
  <2>4. StrippedSize(n, result.script) >= 82
    BY <2>1, <2>2, <2>3 DEF StrippedSize
  <2> QED
    BY <2>4 DEF n
<1> QED
  BY <1>1, <1>2, <1>3, PTL DEF Spec
-----------------------------------------------------------------------------
LEMMA Cancels ==
  ASSUME NEW w \in Nat \ {0}, NEW a \in Int, NEW b \in Int, w * a <= w * b
  PROVE  a <= b
<1> SUFFICES ASSUME b < a PROVE FALSE
  OBVIOUS
<1>1. PICK d \in Nat \ {0} : a = b + d
  <2>1. a - b \in Nat \ {0} /\ a = b + (a - b)
    OBVIOUS
  <2> QED
    BY <2>1
<1>2. w * a = w * b + w * d
  BY <1>1, Z3
<1>3. w * d \in Nat \ {0} /\ w * b \in Int
  BY Z3
<1> QED
  BY <1>2, <1>3

\* f, w: fees and weight of the transactions to bump, q their rounded feerate; u:
\* what they would pay over the weight p of the package, rounded up.
LEMMA RoundedFeerate ==
  ASSUME NEW f \in Nat, NEW w \in Nat \ {0}, NEW p \in Nat, NEW q \in Nat, NEW u \in Nat,
         w * q <= 1000 * f + 1000 * w, 1000 * f + 1000 * w < w * q + w,
         w * u <= f * p + w - 1, f * p <= w * u
  PROVE  /\ 999 * p - 1000 <= q * p - 1000 * u
         /\ q * p - 1000 * u <= 1000 * p
<1> DEFINE wq == w * q
           wu == w * u
           fp == f * p
           wp == w * p
           qp == q * p
<1>1. wq \in Nat /\ wu \in Nat /\ fp \in Nat /\ wp \in Nat /\ qp \in Nat
  OBVIOUS
<1>2. w * (qp - 1000 * u) = wq * p - 1000 * wu
  BY Z3
<1>3. (1000 * f + 1000 * w) * p = 1000 * fp + 1000 * wp
  BY Z3
<1>4. w * (1000 * p) = 1000 * wp
  BY Z3
<1>5. (1000 * f + 999 * w) * p = 1000 * fp + 999 * wp
  BY Z3
<1>6. w * (999 * p - 1000) = 999 * wp - 1000 * w
  BY Z3
<1>7. wq * p <= (1000 * f + 1000 * w) * p
  <2>1. wq <= 1000 * f + 1000 * w /\ 1000 * f + 1000 * w \in Nat
    OBVIOUS
  <2> HIDE DEF wq
  <2> QED
    BY <1>1, <2>1, MultMonotone
<1>8. (1000 * f + 999 * w) * p <= wq * p
  <2>1. 1000 * f + 999 * w <= wq /\ 1000 * f + 999 * w \in Nat
    BY <1>1
  <2> HIDE DEF wq
  <2> QED
    BY <1>1, <2>1, MultMonotone
<1>9. wq * p \in Nat
  BY <1>1
<1>10. wu <= fp + w - 1 /\ fp <= wu
  OBVIOUS
<1> DEFINE d == qp - 1000 * u
           wqp == wq * p
<1>11. w * d = wqp - 1000 * wu /\ d \in Int /\ wqp \in Nat
  BY <1>1, <1>2, <1>9
<1>12. wqp <= 1000 * fp + 1000 * wp /\ 1000 * fp + 999 * wp <= wqp
  BY <1>3, <1>5, <1>7, <1>8
<1> HIDE DEF wq, wu, fp, wp, qp, d, wqp
<1>13. w * d <= w * (1000 * p)
  BY <1>1, <1>4, <1>10, <1>11, <1>12
<1>14. w * (999 * p - 1000) <= w * d
  BY <1>1, <1>6, <1>10, <1>11, <1>12
<1>15. d <= 1000 * p
  BY <1>11, <1>13, Cancels
<1>16. 999 * p - 1000 <= d
  BY <1>11, <1>14, Cancels
<1> QED
  BY <1>15, <1>16 DEF d, qp
-----------------------------------------------------------------------------
\* What a transaction that was returned is made of: a change of what the fees
\* leave, or an OP_RETURN when that would be too small a change.
Returned ==
  LET needed == FeesNeeded(package, ins, "change") IN
  /\ result.status = "Ok" /\ result.inputs = ins /\ result.spent = inputs_sum
  /\ result = [status |-> "Ok", inputs |-> ins, spent |-> inputs_sum,
               script |-> result.script, value |-> result.value]
  /\ \/ /\ result.script = "change"
        /\ result.value = inputs_sum - needed /\ result.value > CPFP_MIN_CHANGE
     \/ /\ result.script = OpReturnScript(ins)
        /\ result.value = 0 /\ inputs_sum - needed <= CPFP_MIN_CHANGE
        /\ inputs_sum > FeesNeeded(package, ins, OpReturnScript(ins))

IInv ==
  /\ package \in Packages /\ utxos \in Wallets /\ available_utxos \in Seq(Nat)
  /\ ins \in Nat \ {0} /\ inputs_sum \in Nat
  /\ result = Pending \/ result = InsufficientFunds \/ Returned

LEMMA PackageFacts ==
  ASSUME NEW p \in Packages
  PROVE  /\ p \in Package /\ p.to_be_cpfped \in Seq(Nat) /\ p.to_be_cpfped # <<>>
         /\ p.tbc_fees \in Nat /\ p.tbc_weight \in Nat \ {0} /\ p.added_feerate \in Nat
BY PackagesAssumption DEF Package

LEMMA ScriptFacts ==
  ASSUME NEW n
  PROVE  "change" \in Scripts /\ OpReturnScript(n) \in Scripts /\ OpReturnScript(n) # "change"
BY DEF Scripts, OpReturnScript

LEMMA Removed ==
  ASSUME NEW s \in Seq(Nat), NEW i \in DOMAIN s
  PROVE  RemoveAt(s, i) \in Seq(Nat)
<1>1. Len(s) \in Nat /\ i \in 1..Len(s)
  OBVIOUS
<1>2. SubSeq(s, 1, i - 1) \in Seq(Nat)
  BY <1>1
<1>3. SubSeq(s, i + 1, Len(s)) \in Seq(Nat)
  BY <1>1
<1> QED
  BY <1>2, <1>3 DEF RemoveAt

LEMMA Step ==
  ASSUME IInv, [Next]_vars
  PROVE  IInv'
<1> DEFINE change == FeesNeeded(package, ins, "change")
           op_return == FeesNeeded(package, ins, OpReturnScript(ins))
<1>1. change \in Nat /\ op_return \in Nat /\ op_return <= change
  BY PackageFacts, ScriptFacts, NoUnderflow, OpReturnIsCheaper DEF IInv
<1>2. CASE ReturnChange
  <2>1. /\ UNCHANGED <<package, utxos, available_utxos, ins, inputs_sum>>
        /\ result' = [status |-> "Ok", inputs |-> ins, spent |-> inputs_sum,
                      script |-> "change", value |-> inputs_sum - change]
        /\ inputs_sum - change > CPFP_MIN_CHANGE
    BY <1>2 DEF ReturnChange, Return, WorthChange
  <2>2. Returned'
    BY <2>1 DEF Returned
  <2> QED
    BY <2>1, <2>2 DEF IInv
<1>3. CASE ReturnOpReturn
  <2>1. /\ UNCHANGED <<package, utxos, available_utxos, ins, inputs_sum>>
        /\ result' = [status |-> "Ok", inputs |-> ins, spent |-> inputs_sum,
                      script |-> OpReturnScript(ins), value |-> 0]
    BY <1>3 DEF ReturnOpReturn, Return
  <2>2. ~(inputs_sum - change > CPFP_MIN_CHANGE)
    BY <1>3 DEF ReturnOpReturn, WorthChange
  <2>3. inputs_sum > change \/ inputs_sum > op_return
    BY <1>3 DEF ReturnOpReturn, Return, Enough
  <2> HIDE DEF change, op_return
  <2>4. inputs_sum - change <= CPFP_MIN_CHANGE /\ inputs_sum > op_return
    BY <1>1, <2>2, <2>3 DEF IInv, CPFP_MIN_CHANGE
  <2>5. Returned'
    BY <2>1, <2>4 DEF Returned, change, op_return
  <2> QED
    BY <2>1, <2>5 DEF IInv
<1>4. CASE AddInput
  <2>1. PICK i \in DOMAIN available_utxos :
          /\ available_utxos' = RemoveAt(available_utxos, i)
          /\ inputs_sum' = inputs_sum + available_utxos[i]
    BY <1>4 DEF AddInput
  <2>2. available_utxos' \in Seq(Nat) /\ available_utxos[i] \in Nat
    BY <2>1, Removed DEF IInv
  <2>3. inputs_sum' \in Nat
    BY <2>1, <2>2 DEF IInv
  <2>4. ins' \in Nat \ {0} /\ UNCHANGED <<package, utxos, result>> /\ result = Pending
    BY <1>4 DEF AddInput, IInv
  <2> QED
    BY <2>2, <2>3, <2>4 DEF IInv, Pending
<1>5. CASE GiveUp
  BY <1>5 DEF GiveUp, IInv, InsufficientFunds
<1>6. CASE UNCHANGED vars
  BY <1>6 DEF vars, IInv, Pending, InsufficientFunds, Returned
<1> QED
  BY <1>2, <1>3, <1>4, <1>5, <1>6 DEF Next

LEMMA InitTyped == Init => IInv
<1> SUFFICES ASSUME Init
             PROVE  IInv
  OBVIOUS
<1>1. /\ package \in Packages /\ utxos \in Wallets /\ result = Pending
      /\ available_utxos = utxos /\ ins = Len(package.to_be_cpfped)
      /\ inputs_sum = Total(package.to_be_cpfped)
  BY DEF Init
<1>2. ins \in Nat \ {0}
  BY <1>1, PackageFacts
<1>3. inputs_sum \in Nat /\ available_utxos \in Seq(Nat)
  BY <1>1, PackageFacts, TotalNat, PackagesAssumption DEF Total
<1> QED
  BY <1>1, <1>2, <1>3 DEF IInv

THEOREM Invariance == Spec => []IInv
BY InitTyped, Step, PTL DEF Spec

\* The result of the loop is one of the three it can have, of amounts.
LEMMA ReturnedFacts ==
  ASSUME IInv, result.status = "Ok"
  PROVE  /\ Returned /\ package \in Package
         /\ FeesNeeded(package, ins, "change") \in Nat
         /\ result.script \in Scripts
BY PackageFacts, ScriptFacts, NoUnderflow DEF IInv, Pending, InsufficientFunds, Returned

\* No Amount of the loop is below zero, for any wallet.
THEOREM AmountsTyped == Spec => []TypeOK
<1>1. IInv => TypeOK
  <2> SUFFICES ASSUME IInv
               PROVE  TypeOK
    OBVIOUS
  <2>1. package \in Package /\ utxos \in Seq(Nat)
    BY PackagesAssumption DEF IInv
  <2>2. \A script \in Scripts : FeesNeeded(package, ins, script) >= 0
    BY <2>1, NoUnderflow DEF IInv
  <2>3. result \in Bumps \cup {Pending, InsufficientFunds}
    <3>1. ASSUME Returned PROVE result \in Bumps
      <4>1. result.script \in Scripts /\ result.value \in Nat
        <5> DEFINE needed == FeesNeeded(package, ins, "change")
        <5>1. /\ needed \in Nat /\ inputs_sum \in Nat
              /\ "change" \in Scripts /\ OpReturnScript(ins) \in Scripts
          BY <2>1, ScriptFacts, NoUnderflow DEF IInv
        <5>2. \/ /\ result.script = "change" /\ result.value = inputs_sum - needed
                 /\ result.value > CPFP_MIN_CHANGE
              \/ result.script = OpReturnScript(ins) /\ result.value = 0
          BY <3>1 DEF Returned
        <5> HIDE DEF needed
        <5> QED
          BY <5>1, <5>2 DEF CPFP_MIN_CHANGE
      <4>2. result = [status |-> "Ok", inputs |-> ins, spent |-> inputs_sum,
                      script |-> result.script, value |-> result.value]
        BY <3>1 DEF Returned
      <4>3. ins \in Nat /\ inputs_sum \in Nat
        BY DEF IInv
      <4> QED
        BY <4>1, <4>2, <4>3 DEF Bumps
    <3> QED
      BY <3>1 DEF IInv
  <2> QED
    BY <2>1, <2>2, <2>3 DEF IInv, TypeOK
<1> QED
  BY <1>1, Invariance, PTL

\* Whatever the coins, the package pays at most CPFP_MIN_CHANGE more than its
\* target feerate asks for.
THEOREM Overpayment == Spec => []OverpaymentBounded
<1>1. IInv => OverpaymentBounded
  <2> SUFFICES ASSUME IInv, result.status = "Ok"
               PROVE  /\ result.value <= result.spent
                      /\ result.spent - result.value
                           <= FeesNeeded(package, result.inputs, "change") + CPFP_MIN_CHANGE
    BY DEF OverpaymentBounded
  <2> DEFINE needed == FeesNeeded(package, ins, "change")
  <2>1. /\ result.inputs = ins /\ result.spent = inputs_sum
        /\ \/ result.value = inputs_sum - needed
           \/ result.value = 0 /\ inputs_sum - needed <= CPFP_MIN_CHANGE
    BY ReturnedFacts DEF Returned
  <2>2. needed \in Nat /\ inputs_sum \in Nat
    BY ReturnedFacts DEF IInv
  <2> HIDE DEF needed
  <2>3. /\ result.value <= inputs_sum
        /\ inputs_sum - result.value <= needed + CPFP_MIN_CHANGE
    BY <2>1, <2>2 DEF CPFP_MIN_CHANGE
  <2> QED
    BY <2>1, <2>3 DEF needed
<1> QED
  BY <1>1, Invariance, PTL

\* For any package and wallet: what the bump adds to the feerate of the package is
\* at least what it was asked for, and with a change output at most the rounding more.
THEOREM FeerateIsAdded == Spec => []FeerateAdded
<1>1. IInv => FeerateAdded
  <2> SUFFICES ASSUME IInv, result.status = "Ok"
               PROVE  LET weight == PackageWeight(package, result.inputs, result.script)
                          fees == result.spent - result.value + package.tbc_fees
                          unbumped == (package.tbc_fees * weight + package.tbc_weight - 1)
                                        \div package.tbc_weight
                      IN
                      /\ package.added_feerate * weight <= 1000 * (fees - unbumped)
                      /\ result.script = "change" =>
                           1000 * (fees - unbumped) <= (package.added_feerate + 1000) * weight
    BY DEF FeerateAdded
  <2> DEFINE f == package.tbc_fees
             w == package.tbc_weight
             added == package.added_feerate
             weight == PackageWeight(package, result.inputs, result.script)
             fees == result.spent - result.value + f
             unbumped == (f * weight + w - 1) \div w
             q == TbcFeerate(package)
             paid == ((q + added) * weight) \div 1000
  <2>1. package \in Package /\ Returned /\ result.script \in Scripts
    BY ReturnedFacts
  <2>2. f \in Nat /\ w \in Nat \ {0} /\ added \in Nat
    BY PackageFacts DEF IInv
  <2>3. weight \in Nat /\ weight >= 3
    <3>1. ins \in Nat /\ result.inputs = ins
      BY <2>1 DEF IInv, Returned
    <3>2. /\ CpfpWeight(ins, result.script) = 4 * StrippedSize(ins, result.script) + ins * CpfpSat
          /\ StrippedSize(ins, result.script) \in Nat
          /\ StrippedSize(ins, result.script) >= 10 /\ ins * CpfpSat \in Nat
      <4>1. OutputSize[result.script] \in 11..43
        BY <2>1, WeightType
      <4>2. StrippedSize(ins, result.script) = 10 + 41 * ins + OutputSize[result.script]
        BY DEF StrippedSize
      <4>3. ins * CpfpSat \in Nat
        BY <3>1, CpfpSatAssumption
      <4> QED
        BY <3>1, <4>1, <4>2, <4>3 DEF CpfpWeight
    <3> QED
      BY <2>2, <3>1, <3>2 DEF PackageWeight
  <2>4. q = (1000 * (f + w)) \div w
    BY DEF TbcFeerate
  <2>5. FeesNeeded(package, result.inputs, result.script) = paid - f
    BY DEF FeesNeeded, TargetFeerate
  <2>6. inputs_sum \in Nat
    BY DEF IInv
  <2>7. \/ result.script = "change" /\ fees = paid
        \/ result.script # "change" /\ fees > paid /\ fees \in Nat
    <3>1. result.inputs = ins /\ result.spent = inputs_sum
      BY <2>1 DEF Returned
    <3>2. FeesNeeded(package, result.inputs, result.script) \in Nat
      BY <2>1, <3>1, NoUnderflow DEF IInv
    <3> DEFINE needed == FeesNeeded(package, result.inputs, result.script)
    <3>3. \/ result.script = "change" /\ result.value = inputs_sum - needed
          \/ result.script # "change" /\ result.value = 0 /\ inputs_sum > needed
      BY <2>1, <3>1, ScriptFacts DEF Returned
    <3>4. paid = needed + f
      <4>1. needed = paid - f /\ needed \in Nat
        BY <2>5, <3>2
      <4>2. paid \in Int
        <5>1. (q + added) * weight \in Nat
          <6>1. 1000 * (f + w) \in Nat
            BY <2>2
          <6> HIDE DEF q, f, w, weight, added
          <6>2. q \in Nat
            BY <2>2, <2>4, <6>1, DivRounds
          <6> QED
            BY <2>2, <2>3, <6>2
        <5> HIDE DEF q, f, w, weight, added
        <5> QED
          BY <5>1, DivRounds
      <4> HIDE DEF needed, paid, f
      <4> QED
        BY <2>2, <4>1, <4>2
    <3>5. needed \in Nat /\ fees = inputs_sum - result.value + f
      BY <3>1, <3>2
    <3> HIDE DEF needed, paid, f, fees
    <3> QED
      BY <2>2, <2>6, <3>3, <3>4, <3>5
  <2> HIDE DEF f, w, added, weight, fees, q
  <2>8. q \in Nat /\ w * q <= 1000 * f + 1000 * w /\ 1000 * f + 1000 * w < w * q + w
    <3>1. 1000 * (f + w) \in Nat /\ 1000 * (f + w) = 1000 * f + 1000 * w
      BY <2>2
    <3> QED
      BY <2>2, <2>4, <3>1, DivRounds
  <2>9. unbumped \in Nat /\ w * unbumped <= f * weight + w - 1 /\ f * weight <= w * unbumped
    <3>1. f * weight \in Nat
      BY <2>2, <2>3
    <3> DEFINE n == f * weight + w - 1
    <3>2. n \in Nat
      BY <2>2, <3>1
    <3>3. unbumped \in Nat /\ w * unbumped <= n /\ n < w * unbumped + w
      <4> HIDE DEF n
      <4>1. unbumped = n \div w
        BY DEF n
      <4> QED
        BY <2>2, <3>2, <4>1, DivRounds
    <3>4. w * unbumped \in Nat
      BY <2>2, <3>3
    <3> QED
      BY <2>2, <3>1, <3>3, <3>4
  <2> HIDE DEF unbumped
  <2>10. /\ 999 * weight - 1000 <= q * weight - 1000 * unbumped
         /\ q * weight - 1000 * unbumped <= 1000 * weight
    BY <2>2, <2>3, <2>8, <2>9, RoundedFeerate
  <2>11. /\ paid \in Nat /\ 1000 * paid <= q * weight + added * weight
         /\ q * weight + added * weight < 1000 * paid + 1000
    <3>1. (q + added) * weight \in Nat
      BY <2>2, <2>3, <2>8
    <3>2. (q + added) * weight = q * weight + added * weight
      BY <2>2, <2>3, <2>8, Z3
    <3> QED
      BY <3>1, <3>2, DivRounds
  <2> HIDE DEF paid
  <2>12. (added + 1000) * weight = added * weight + 1000 * weight
    BY <2>2, <2>3, Z3
  <2>13. q * weight \in Nat /\ added * weight \in Nat
    BY <2>2, <2>3, <2>8
  <2> DEFINE qw == q * weight
             aw == added * weight
  <2>14. /\ aw \in Nat /\ qw \in Nat /\ 999 * weight - 1000 <= qw - 1000 * unbumped
         /\ qw - 1000 * unbumped <= 1000 * weight
         /\ 1000 * paid <= qw + aw /\ qw + aw < 1000 * paid + 1000
    BY <2>10, <2>11, <2>13
  <2> HIDE DEF qw, aw
  <2>15. fees \in Nat /\ fees >= paid /\ (result.script = "change" => fees = paid)
    BY <2>7, <2>11
  <2>16. /\ aw <= 1000 * (fees - unbumped)
         /\ result.script = "change" => 1000 * (fees - unbumped) <= aw + 1000 * weight
    BY <2>3, <2>9, <2>11, <2>14, <2>15
  <2> QED
    BY <2>12, <2>16 DEF aw, f, w, added, weight, fees, unbumped
<1> QED
  BY <1>1, Invariance, PTL
-----------------------------------------------------------------------------
\* What a choice of UTxOs is worth, and whether the loop would stop at it.
Spent(K) == Total(package.to_be_cpfped) + SumFunctionOnSet(utxos, K)
Inputs(K) == Len(package.to_be_cpfped) + Cardinality(K)
Sufficient(K) == Enough(package, Inputs(K), Spent(K))

\* The promise is about the same fees and the same sums.
LEMMA SameFees ==
  ASSUME NEW p, NEW n
  PROVE  /\ \A script : Promise!FeesNeeded(p, n, script) = FeesNeeded(p, n, script)
         /\ Promise!OpReturnScript(n) = OpReturnScript(n)
BY DEF Promise!FeesNeeded, FeesNeeded, Promise!TargetFeerate, TargetFeerate,
       Promise!TbcFeerate, TbcFeerate, Promise!PackageWeight, PackageWeight,
       Promise!CpfpWeight, CpfpWeight, Promise!StrippedSize, StrippedSize,
       Promise!OutputSize, OutputSize, Promise!OpReturnScript, OpReturnScript

LEMMA SameSums ==
  ASSUME NEW K
  PROVE  Promise!Spent(K) = Spent(K) /\ Promise!Inputs(K) = Inputs(K)
<1>1. Promise!SumFunctionOnSet(utxos, K) = SumFunctionOnSet(utxos, K)
  BY DEF Promise!SumFunctionOnSet, SumFunctionOnSet, Promise!FoldFunctionOnSet,
         FoldFunctionOnSet, Promise!MapThenFoldSet, MapThenFoldSet
<1>2. Promise!Total(package.to_be_cpfped) = Total(package.to_be_cpfped)
  BY DEF Promise!Total, Total, Promise!FoldSeq, FoldSeq, Promise!FoldFunction, FoldFunction,
         Promise!FoldFunctionOnSet, FoldFunctionOnSet, Promise!MapThenFoldSet, MapThenFoldSet
<1>3. Promise!Cardinality(K) = Cardinality(K)
  BY DEF Promise!Cardinality, Cardinality
<1> QED
  BY <1>1, <1>2, <1>3 DEF Promise!Spent, Spent, Promise!Inputs, Inputs

LEMMA EnoughMonotone ==
  ASSUME NEW p \in Package, NEW n \in Nat, NEW a \in Int, NEW b \in Int, a <= b,
         Enough(p, n, a)
  PROVE  Enough(p, n, b)
<1>1. FeesNeeded(p, n, "change") \in Nat /\ FeesNeeded(p, n, OpReturnScript(n)) \in Nat
  BY ScriptFacts, NoUnderflow
<1> QED
  BY <1>1 DEF Enough

\* The UTxOs of indices K were added: at[k] is the index of the k-th of those that
\* are left, and none of these is worth more than one that was added.
Chosen(K, at) ==
  /\ K \subseteq DOMAIN utxos
  /\ at \in [DOMAIN available_utxos -> DOMAIN utxos \ K]
  /\ \A k, l \in DOMAIN available_utxos : at[k] = at[l] => k = l
  /\ \A i \in DOMAIN utxos \ K : \E k \in DOMAIN available_utxos : at[k] = i
  /\ \A k \in DOMAIN available_utxos : available_utxos[k] = utxos[at[k]]
  /\ \A i \in K, j \in DOMAIN utxos \ K : utxos[j] <= utxos[i]
  /\ ins = Inputs(K) /\ inputs_sum = Spent(K)

\* No choice of fewer UTxOs is worth enough.
Fewest(K) ==
  \A L \in SUBSET DOMAIN utxos :
    Cardinality(L) < Cardinality(K) => ~Sufficient(L)

ChoiceInv == \E K, at : Chosen(K, at) /\ Fewest(K)

LEMMA WalletFacts ==
  ASSUME IInv, NEW K \in SUBSET DOMAIN utxos
  PROVE  /\ IsFiniteSet(DOMAIN utxos) /\ IsFiniteSet(K) /\ Cardinality(K) \in Nat
         /\ \A i \in DOMAIN utxos : utxos[i] \in Nat
         /\ SumFunctionOnSet(utxos, K) \in Nat
         /\ Spent(K) \in Nat /\ Inputs(K) \in Nat
<1>1. utxos \in Seq(Nat)
  BY PackagesAssumption DEF IInv
<1>2. IsFiniteSet(DOMAIN utxos) /\ \A i \in DOMAIN utxos : utxos[i] \in Nat
  <2>1. DOMAIN utxos = 1..Len(utxos) /\ Len(utxos) \in Nat
    BY <1>1
  <2>2. IsFiniteSet(1..Len(utxos))
    BY <2>1, FS_Interval
  <2> QED
    BY <1>1, <2>1, <2>2
<1>3. IsFiniteSet(K) /\ Cardinality(K) \in Nat
  BY <1>2, FS_Subset, FS_CardinalityType
<1>4. SumFunctionOnSet(utxos, K) \in Nat
  BY <1>2, <1>3, SumNat
<1>5. package.to_be_cpfped \in Seq(Nat)
  BY PackageFacts DEF IInv
<1>6. Total(package.to_be_cpfped) \in Nat
  BY <1>5, TotalNat, Zenon DEF Total
<1>7. Len(package.to_be_cpfped) \in Nat
  BY <1>5
<1> QED
  BY <1>2, <1>3, <1>4, <1>6, <1>7 DEF Spent, Inputs

\* The loop stops at the choices that leave the promise's margin, one sat: the
\* OP_RETURN is the cheaper output, and with it the rest pays the fees.
LEMMA SufficientIsEnough ==
  ASSUME IInv, NEW K \in SUBSET DOMAIN utxos
  PROVE  Promise!Sufficient(K) <=> Sufficient(K)
<1> DEFINE n == Inputs(K)
           sum == Spent(K)
           change == FeesNeeded(package, n, "change")
           op_return == FeesNeeded(package, n, OpReturnScript(n))
<1>1. package \in Package /\ n \in Nat /\ sum \in Nat
  BY PackageFacts, WalletFacts DEF IInv
<1>2. change \in Nat /\ op_return \in Nat /\ op_return <= change
  BY <1>1, ScriptFacts, NoUnderflow, OpReturnIsCheaper
<1>3. Sufficient(K) <=> sum > op_return
  <2>1. Sufficient(K) <=> sum > change \/ sum > op_return
    BY DEF Sufficient, Enough
  <2> HIDE DEF sum, change, op_return
  <2> QED
    BY <1>1, <1>2, <2>1
<1>4. /\ Promise!Spent(K) = sum /\ Promise!Inputs(K) = n
      /\ Promise!Scripts = Scripts /\ Promise!CPFP_MIN_CHANGE \in Nat
      /\ Promise!OpReturnScript(n) = OpReturnScript(n)
      /\ OpReturnScript(n) \in Scripts /\ OpReturnScript(n) # "change"
      /\ Promise!FeesNeeded(package, n, "change") = change
      /\ Promise!FeesNeeded(package, n, OpReturnScript(n)) = op_return
  BY <1>1, SameSums, SameFees, ScriptFacts
     DEF Promise!Scripts, Scripts, Promise!CPFP_MIN_CHANGE
<1>5. ASSUME sum > op_return PROVE Promise!Sufficient(K)
  <2>1. Promise!OutputValue(n, sum - 1, OpReturnScript(n)) = 0
    BY <1>4 DEF Promise!OutputValue
  <2>2. 0 <= sum - 1 /\ (sum - 1) - 0 >= op_return
    <3> HIDE DEF sum, op_return
    <3> QED
      BY <1>1, <1>2, <1>5
  <2> HIDE DEF sum, op_return, n, change
  <2>3. Promise!Meets(n, sum - 1, OpReturnScript(n), 0)
    BY <1>4, <2>2 DEF Promise!Meets
  <2> QED
    BY <1>4, <2>1, <2>3 DEF Promise!Sufficient
<1>6. ASSUME Promise!Sufficient(K) PROVE sum > op_return
  <2> HIDE DEF sum, op_return, n, change
  <2>1. PICK script \in Scripts :
          Promise!Meets(n, sum - 1, script, Promise!OutputValue(n, sum - 1, script))
    BY <1>4, <1>6 DEF Promise!Sufficient
  <2>2. CASE script = "change"
    BY <1>1, <1>2, <1>4, <2>1, <2>2 DEF Promise!Meets, Promise!OutputValue
  <2>3. CASE script = OpReturnScript(n)
    BY <1>1, <1>2, <1>4, <2>1, <2>3 DEF Promise!Meets, Promise!OutputValue
  <2> QED
    BY <1>4, <2>1, <2>2, <2>3 DEF Promise!Meets
<1> QED
  BY <1>3, <1>5, <1>6

\* Among the choices of as many UTxOs, K is worth the most.
LEMMA ChosenIsBest ==
  ASSUME IInv, NEW K, NEW at, Chosen(K, at), ~Enough(package, ins, inputs_sum),
         NEW L \in SUBSET DOMAIN utxos, Cardinality(L) = Cardinality(K)
  PROVE  ~Sufficient(L)
<1>1. K \in SUBSET DOMAIN utxos /\ package \in Package
  BY PackageFacts DEF Chosen, IInv
<1>2. Dominates(utxos, K, L)
  BY DEF Chosen, Dominates
<1>3. SumFunctionOnSet(utxos, L) <= SumFunctionOnSet(utxos, K)
  <2>1. Cardinality(L) <= Cardinality(K)
    BY <1>1, WalletFacts
  <2> QED
    BY <1>1, <1>2, <2>1, WalletFacts, LargestSum
<1>4. /\ Inputs(L) = ins /\ ins \in Nat
      /\ Spent(L) \in Nat /\ inputs_sum \in Nat
  BY <1>1, WalletFacts DEF Chosen, IInv, Inputs
<1>5. Spent(L) <= inputs_sum
  <2>1. package.to_be_cpfped \in Seq(Nat)
    BY PackageFacts DEF IInv
  <2>2. Total(package.to_be_cpfped) \in Nat
    BY <2>1, TotalNat DEF Total
  <2>3. SumFunctionOnSet(utxos, L) \in Nat /\ SumFunctionOnSet(utxos, K) \in Nat
    BY <1>1, WalletFacts
  <2>4. inputs_sum = Spent(K)
    BY DEF Chosen
  <2> QED
    BY <1>3, <2>2, <2>3, <2>4 DEF Spent
<1>6. ~Enough(package, Inputs(L), Spent(L))
  BY <1>1, <1>4, <1>5, EnoughMonotone
<1> QED
  BY <1>6 DEF Sufficient

LEMMA ChoiceStarts == Init /\ IInv => ChoiceInv
<1> SUFFICES ASSUME Init, IInv PROVE ChoiceInv
  OBVIOUS
<1> DEFINE D == DOMAIN utxos
           at == [k \in D |-> k]
<1>1. /\ available_utxos = utxos /\ ins = Len(package.to_be_cpfped)
      /\ inputs_sum = Total(package.to_be_cpfped) /\ inputs_sum \in Nat /\ ins \in Nat
  BY DEF Init, IInv
<1>2. ins = Inputs({}) /\ inputs_sum = Spent({})
  BY <1>1, SumEmpty, FS_EmptySet DEF Inputs, Spent
<1>3. Chosen({}, at)
  BY <1>1, <1>2 DEF Chosen
<1>4. Fewest({})
  <2>1. ASSUME NEW L \in SUBSET DOMAIN utxos PROVE ~(Cardinality(L) < Cardinality({}))
    <3>1. Cardinality(L) \in Nat /\ Cardinality({}) = 0
      BY WalletFacts, FS_EmptySet
    <3> QED
      BY <3>1
  <2> QED
    BY <2>1 DEF Fewest
<1> QED
  BY <1>3, <1>4 DEF ChoiceInv

LEMMA Concatenated ==
  ASSUME NEW a \in Seq(Nat), NEW b \in Seq(Nat)
  PROVE  /\ Len(a \o b) = Len(a) + Len(b) /\ DOMAIN (a \o b) = 1..(Len(a) + Len(b))
         /\ \A k \in 1..Len(a) : (a \o b)[k] = a[k]
         /\ \A k \in 1..Len(b) : (a \o b)[Len(a) + k] = b[k]
<1>1. Len(a \o b) = Len(a) + Len(b)
  OBVIOUS
<1>2. DOMAIN (a \o b) = 1..(Len(a) + Len(b))
  BY <1>1
<1>3. \A k \in 1..Len(a) : (a \o b)[k] = a[k]
  OBVIOUS
<1>4. \A k \in 1..Len(b) : (a \o b)[Len(a) + k] = b[k]
  OBVIOUS
<1> QED
  BY <1>1, <1>2, <1>3, <1>4

\* t is s without its element i: old[k] is where the k-th of t was in s.
Closes(s, i, t, old) ==
  /\ old \in [DOMAIN t -> DOMAIN s \ {i}]
  /\ \A k \in DOMAIN t : t[k] = s[old[k]]
  /\ \A k, l \in DOMAIN t : old[k] = old[l] => k = l
  /\ \A j \in DOMAIN s \ {i} : \E k \in DOMAIN t : old[k] = j

LEMMA RemovedIs ==
  ASSUME NEW s \in Seq(Nat), NEW i \in DOMAIN s
  PROVE  \E old : Closes(s, i, RemoveAt(s, i), old)
<1> DEFINE n == Len(s)
           old == [k \in 1..(n - 1) |-> IF k < i THEN k ELSE k + 1]
           t == RemoveAt(s, i)
<1>1. n \in Nat \ {0} /\ i \in 1..n /\ DOMAIN s = 1..n
  OBVIOUS
<1> DEFINE before == SubSeq(s, 1, i - 1)
           after == SubSeq(s, i + 1, n)
<1>2. before \in Seq(Nat) /\ Len(before) = i - 1 /\ \A k \in 1..(i - 1) : before[k] = s[k]
  <2>1. before \in Seq(Nat)
    BY <1>1
  <2>2. Len(before) = i - 1
    BY <1>1
  <2>3. \A k \in 1..(i - 1) : before[k] = s[k]
    BY <1>1
  <2> QED
    BY <2>1, <2>2, <2>3
<1>3. after \in Seq(Nat) /\ Len(after) = n - i /\ \A k \in 1..(n - i) : after[k] = s[i + k]
  <2>1. after \in Seq(Nat)
    BY <1>1
  <2>2. Len(after) = n - i
    BY <1>1
  <2>3. ASSUME NEW k \in 1..(n - i) PROVE after[k] = s[i + k]
    BY <1>1, SMTT(30)
  <2> QED
    BY <2>1, <2>2, <2>3
<1>4. /\ DOMAIN t = 1..(n - 1)
      /\ \A k \in 1..(i - 1) : t[k] = before[k]
      /\ \A k \in 1..(n - i) : t[(i - 1) + k] = after[k]
  <2>1. t = before \o after
    BY DEF RemoveAt
  <2>2. (i - 1) + (n - i) = n - 1
    BY <1>1
  <2> HIDE DEF before, after, t, n
  <2>3. /\ DOMAIN t = 1..(Len(before) + Len(after))
        /\ \A k \in 1..Len(before) : t[k] = before[k]
        /\ \A k \in 1..Len(after) : t[Len(before) + k] = after[k]
    BY <1>2, <1>3, <2>1, Concatenated
  <2> QED
    BY <1>2, <1>3, <2>2, <2>3
<1>5. ASSUME NEW k \in 1..(n - 1)
      PROVE  old[k] \in DOMAIN s /\ old[k] # i /\ t[k] = s[old[k]]
  <2> HIDE DEF before, after, t, n
  <2>1. CASE k <= i - 1
    BY <1>1, <1>2, <1>4, <2>1
  <2>2. CASE k >= i
    <3> DEFINE l == k - (i - 1)
    <3>1. l \in 1..(n - i) /\ i + l = k + 1 /\ (i - 1) + l = k
      BY <1>1, <2>2
    <3> HIDE DEF l
    <3>2. t[k] = s[k + 1]
      BY <1>3, <1>4, <3>1
    <3> QED
      BY <1>1, <2>2, <3>2
  <2> QED
    BY <1>1, <2>1, <2>2
<1>6. \A k, l \in 1..(n - 1) : old[k] = old[l] => k = l
  BY <1>1
<1>7. ASSUME NEW j \in DOMAIN s \ {i}
      PROVE  \E k \in 1..(n - 1) : old[k] = j
  <2>1. CASE j < i
    BY <1>1, <2>1
  <2>2. CASE j > i
    <3>1. j - 1 \in 1..(n - 1) /\ old[j - 1] = j
      BY <1>1, <2>2
    <3> QED
      BY <3>1
  <2> QED
    BY <1>1, <2>1, <2>2
<1>8. DOMAIN old = 1..(n - 1)
  OBVIOUS
<1> HIDE DEF old, t
<1>9. old \in [DOMAIN t -> DOMAIN s \ {i}]
  <2>1. old = [k \in 1..(n - 1) |-> old[k]]
    BY DEF old
  <2>2. \A k \in 1..(n - 1) : old[k] \in DOMAIN s \ {i}
    BY <1>5
  <2> QED
    BY <1>4, <2>1, <2>2
<1>10. Closes(s, i, t, old)
  BY <1>4, <1>5, <1>6, <1>7, <1>9 DEF Closes
<1> QED
  BY <1>10 DEF t

LEMMA AddInputKeepsChoice ==
  ASSUME IInv, IInv', ChoiceInv, AddInput
  PROVE  ChoiceInv'
<1>1. PICK K, at : Chosen(K, at) /\ Fewest(K)
  BY DEF ChoiceInv
<1>2. PICK i \in DOMAIN available_utxos :
        /\ Largest(i)
        /\ available_utxos' = RemoveAt(available_utxos, i)
        /\ inputs_sum' = inputs_sum + available_utxos[i]
  BY DEF AddInput
<1>3. /\ ~Enough(package, ins, inputs_sum) /\ ins' = ins + 1
      /\ UNCHANGED <<package, utxos, result>>
  BY DEF AddInput
<1>4. PICK old : Closes(available_utxos, i, available_utxos', old)
  <2>1. available_utxos \in Seq(Nat)
    BY DEF IInv
  <2> QED
    BY <1>2, <2>1, RemovedIs
<1> DEFINE D == DOMAIN utxos
           H == K \cup {at[i]}
           left == DOMAIN available_utxos'
<1>5. PICK to : to = [k \in left |-> at[old[k]]]
  OBVIOUS
<1>6. at[i] \in D /\ at[i] \notin K /\ available_utxos[i] = utxos[at[i]]
  BY <1>1, <1>2 DEF Chosen
<1>7. to \in [left -> D \ H]
  <2>1. ASSUME NEW k \in left PROVE at[old[k]] \in D \ H
    BY <1>1, <1>2, <1>4 DEF Chosen, Closes
  <2> QED
    BY <1>5, <2>1
<1>8. \A k, l \in left : to[k] = to[l] => k = l
  BY <1>5, <1>1, <1>4 DEF Chosen, Closes
<1>9. \A j \in D \ H : \E k \in left : to[k] = j
  <2> SUFFICES ASSUME NEW j \in D \ H PROVE \E k \in left : to[k] = j
    OBVIOUS
  <2>1. PICK l \in DOMAIN available_utxos : at[l] = j
    BY <1>1 DEF Chosen
  <2>2. l # i
    BY <2>1
  <2>3. PICK k \in left : old[k] = l
    BY <1>4, <2>2 DEF Closes
  <2> QED
    BY <1>5, <2>1, <2>3
<1>10. \A k \in left : available_utxos'[k] = utxos[to[k]]
  BY <1>5, <1>1, <1>4 DEF Chosen, Closes
<1>11. \A h \in H, j \in D \ H : utxos[j] <= utxos[h]
  <2> SUFFICES ASSUME NEW h \in H, NEW j \in D \ H PROVE utxos[j] <= utxos[h]
    OBVIOUS
  <2>1. PICK l \in DOMAIN available_utxos : at[l] = j
    BY <1>1 DEF Chosen
  <2>2. utxos[j] <= utxos[at[i]]
    BY <1>1, <1>2, <1>6, <2>1 DEF Chosen, Largest
  <2>3. h \in K => utxos[j] <= utxos[h]
    BY <1>1 DEF Chosen
  <2> QED
    BY <2>2, <2>3
<1>12. K \in SUBSET D /\ ins = Inputs(K) /\ inputs_sum = Spent(K)
  BY <1>1 DEF Chosen
<1>13. /\ IsFiniteSet(K) /\ Cardinality(K) \in Nat /\ Cardinality(H) = Cardinality(K) + 1
       /\ \A x \in D : utxos[x] \in Nat
  BY <1>6, <1>12, WalletFacts, FS_AddElement
<1>14. ins' = Inputs(H)'
  <2>1. Len(package.to_be_cpfped) \in Nat
    <3>1. package.to_be_cpfped \in Seq(Nat)
      BY PackageFacts DEF IInv
    <3> QED
      BY <3>1
  <2>2. Cardinality(H') = Cardinality(K) + 1
    BY <1>13
  <2> QED
    BY <1>3, <1>12, <1>13, <2>1 DEF Inputs
<1>15. inputs_sum' = Spent(H)'
  <2>1. SumFunctionOnSet(utxos, H) = SumFunctionOnSet(utxos, K) + utxos[at[i]]
    <3>1. \A x \in H : utxos[x] \in Int
      BY <1>6, <1>12, <1>13
    <3> QED
      BY <1>6, <1>13, <3>1, SumAdd
  <2>2. Total(package.to_be_cpfped) \in Nat
    <3>1. package.to_be_cpfped \in Seq(Nat)
      BY PackageFacts DEF IInv
    <3> QED
      BY <3>1, TotalNat, Zenon DEF Total
  <2>3. SumFunctionOnSet(utxos, K) \in Nat /\ utxos[at[i]] \in Nat
    BY <1>6, <1>12, <1>13, WalletFacts
  <2>4. inputs_sum' = Total(package.to_be_cpfped) + SumFunctionOnSet(utxos, H)
    <3> HIDE DEF H
    <3> QED
      BY <1>2, <1>6, <1>12, <2>1, <2>2, <2>3 DEF Spent
  <2> QED
    BY <1>3, <2>4 DEF Spent
<1>16. Chosen(H, to)'
  <2>1. H \subseteq D /\ D' = D /\ utxos' = utxos
    BY <1>3, <1>6, <1>12
  <2> HIDE DEF H
  <2> QED
    BY <1>7, <1>8, <1>9, <1>10, <1>11, <1>14, <1>15, <2>1 DEF Chosen
<1>17. Fewest(H)'
  <2> SUFFICES ASSUME NEW L \in SUBSET D, Cardinality(L) < Cardinality(H)
               PROVE  ~Sufficient(L)
    BY <1>3 DEF Fewest, Sufficient, Inputs, Spent
  <2>1. Cardinality(L) < Cardinality(K) \/ Cardinality(L) = Cardinality(K)
    <3>1. Cardinality(L) \in Nat
      BY WalletFacts
    <3> HIDE DEF H
    <3> QED
      BY <1>13, <3>1
  <2>2. CASE Cardinality(L) < Cardinality(K)
    BY <1>1, <2>2 DEF Fewest
  <2>3. CASE Cardinality(L) = Cardinality(K)
    BY <1>1, <1>3, <2>3, ChosenIsBest
  <2> QED
    BY <2>1, <2>2, <2>3
<1> QED
  BY <1>16, <1>17 DEF ChoiceInv

LEMMA ChoiceKept ==
  ASSUME IInv, IInv', ChoiceInv, [Next]_vars
  PROVE  ChoiceInv'
<1>1. ASSUME UNCHANGED <<package, utxos, available_utxos, ins, inputs_sum>>
      PROVE  ChoiceInv'
  BY <1>1 DEF ChoiceInv, Chosen, Fewest, Sufficient, Inputs, Spent
<1> QED
  BY <1>1, AddInputKeepsChoice
     DEF Next, ReturnChange, ReturnOpReturn, Return, GiveUp, vars
-----------------------------------------------------------------------------
\* A transaction that is returned has the fewest UTxOs.
LEMMA ReturnIsBump ==
  ASSUME IInv, ChoiceInv, ReturnChange \/ ReturnOpReturn
  PROVE  Promise!Bump
<1> DEFINE change == FeesNeeded(package, ins, "change")
           op_return == FeesNeeded(package, ins, OpReturnScript(ins))
<1>1. PICK K, at : Chosen(K, at) /\ Fewest(K)
  BY DEF ChoiceInv
<1>2. K \in SUBSET DOMAIN utxos /\ Inputs(K) = ins /\ Spent(K) = inputs_sum
  BY <1>1 DEF Chosen
<1>3. /\ change \in Nat /\ op_return \in Nat /\ op_return <= change
      /\ inputs_sum \in Nat
  BY PackageFacts, ScriptFacts, NoUnderflow, OpReturnIsCheaper DEF IInv
<1>4. PICK script \in Scripts, value \in Nat :
        /\ result = Pending /\ Enough(package, ins, inputs_sum)
        /\ result' = [status |-> "Ok", inputs |-> ins, spent |-> inputs_sum,
                      script |-> script, value |-> value]
        /\ UNCHANGED <<package, utxos>>
        /\ \/ script = "change" /\ value = inputs_sum - change /\ value > CPFP_MIN_CHANGE
           \/ script = OpReturnScript(ins) /\ value = 0 /\ inputs_sum >= op_return
  <2>1. CASE ReturnChange
    <3>1. /\ inputs_sum - change > CPFP_MIN_CHANGE
          /\ Return("change", inputs_sum - change)
      BY <2>1 DEF ReturnChange, WorthChange
    <3> HIDE DEF change
    <3>2. inputs_sum - change \in Nat
      BY <1>3, <3>1 DEF CPFP_MIN_CHANGE
    <3> QED
      BY <3>1, <3>2, ScriptFacts DEF Return
  <2>2. CASE ReturnOpReturn
    <3>1. Return(OpReturnScript(ins), 0)
      BY <2>2 DEF ReturnOpReturn
    <3>2. inputs_sum > change \/ inputs_sum > op_return
      BY <3>1 DEF Return, Enough
    <3> HIDE DEF change, op_return
    <3>3. inputs_sum >= op_return
      BY <1>3, <3>2
    <3> QED
      BY <3>1, <3>3, ScriptFacts DEF Return
  <2> QED
    BY <2>1, <2>2
<1>5. Sufficient(K) /\ \A L \in SUBSET DOMAIN utxos :
                         Cardinality(L) < Cardinality(K) => ~Sufficient(L)
  BY <1>1, <1>2, <1>4 DEF Sufficient, Fewest
<1>6. /\ value = IF script = "change" THEN inputs_sum - change ELSE 0
      /\ value <= inputs_sum
      /\ inputs_sum - value >= FeesNeeded(package, ins, script)
      /\ \/ script = "change" /\ value > CPFP_MIN_CHANGE
         \/ script = OpReturnScript(ins) /\ value = 0
  <2>1. CASE script = "change" /\ value = inputs_sum - change /\ value > CPFP_MIN_CHANGE
    <3>1. FeesNeeded(package, ins, script) = change
      BY <2>1
    <3> HIDE DEF change, op_return
    <3> QED
      BY <1>3, <2>1, <3>1
  <2>2. CASE script = OpReturnScript(ins) /\ value = 0 /\ inputs_sum >= op_return
    <3>1. FeesNeeded(package, ins, script) = op_return /\ script # "change"
      BY <2>2, ScriptFacts
    <3> HIDE DEF change, op_return
    <3> QED
      BY <1>3, <2>2, <3>1
  <2> QED
    BY <1>4, <2>1, <2>2
<1>7. Promise!Meets(ins, inputs_sum, script, value)
  <2>1. /\ Promise!FeesNeeded(package, ins, script) = FeesNeeded(package, ins, script)
        /\ Promise!OpReturnScript(ins) = OpReturnScript(ins)
    BY SameFees, Zenon
  <2>2. Promise!CPFP_MIN_CHANGE = CPFP_MIN_CHANGE
    BY DEF Promise!CPFP_MIN_CHANGE, CPFP_MIN_CHANGE
  <2> HIDE DEF change, op_return
  <2> QED
    BY <1>6, <2>1, <2>2 DEF Promise!Meets
<1>8. Promise!Scripts = Scripts /\ Promise!Pending = Pending
  BY DEF Promise!Scripts, Scripts, Promise!Pending, Pending
<1>9. \A L : Promise!Cardinality(L) = Cardinality(L)
  BY DEF Promise!Cardinality, Cardinality
<1>10. /\ Promise!Spent(K) = inputs_sum /\ Promise!Inputs(K) = ins
       /\ value = Promise!OutputValue(ins, inputs_sum, script)
  BY <1>2, <1>6, SameFees, SameSums DEF Promise!OutputValue
<1>11. /\ Promise!Sufficient(K)
       /\ \A L \in SUBSET DOMAIN utxos :
            Promise!Cardinality(L) < Promise!Cardinality(K) => ~Promise!Sufficient(L)
  BY <1>2, <1>5, <1>9, SufficientIsEnough
<1>12. result' = [status |-> "Ok", inputs |-> Promise!Inputs(K), spent |-> Promise!Spent(K),
                  script |-> script, value |-> value]
  BY <1>4, <1>10
<1> QED
  BY <1>2, <1>4, <1>7, <1>8, <1>10, <1>11, <1>12 DEF Promise!Bump

\* It gives up when all the UTxOs are not worth enough, nor is any part of them.
LEMMA GiveUpIsRefuse ==
  ASSUME IInv, ChoiceInv, GiveUp
  PROVE  Promise!Refuse
<1>1. PICK K, at : Chosen(K, at) /\ Fewest(K)
  BY DEF ChoiceInv
<1>2. /\ result = Pending /\ ~Enough(package, ins, inputs_sum) /\ available_utxos = <<>>
      /\ result' = InsufficientFunds /\ UNCHANGED <<package, utxos>>
  BY DEF GiveUp
<1>3. K = DOMAIN utxos
  BY <1>1, <1>2 DEF Chosen
<1>4. ASSUME NEW L \in SUBSET DOMAIN utxos PROVE ~Sufficient(L)
  <2>1. /\ Cardinality(L) \in Nat /\ Cardinality(K) \in Nat
        /\ Cardinality(L) <= Cardinality(K)
    BY <1>3, WalletFacts, FS_Subset
  <2>2. CASE Cardinality(L) < Cardinality(K)
    BY <1>1, <2>2 DEF Fewest
  <2>3. CASE Cardinality(L) = Cardinality(K)
    BY <1>1, <1>2, <2>3, ChosenIsBest
  <2> QED
    BY <2>1, <2>2, <2>3
<1> QED
  BY <1>2, <1>4, SufficientIsEnough
     DEF Promise!Refuse, Promise!Pending, Pending, Promise!InsufficientFunds, InsufficientFunds

\* For any packages and wallets, what the loop returns is what the doc of
\* from_txins promises but for one sat (KeepsPromise, without its liveness): the
\* target feerate met with the fewest UTxOs that leave a sat above the fees, or an
\* error when no choice of them does.
THEOREM SelectionKeepsPromise ==
  Spec => Promise!Init /\ [][Promise!Next]_<<package, utxos, result>>
<1>1. Init => Promise!Init
  BY DEF Init, Promise!Init, Pending, Promise!Pending
<1>2. IInv /\ ChoiceInv /\ [Next]_vars => [Promise!Next]_<<package, utxos, result>>
  <2> SUFFICES ASSUME IInv, ChoiceInv, [Next]_vars
               PROVE  [Promise!Next]_<<package, utxos, result>>
    OBVIOUS
  <2>1. CASE ReturnChange \/ ReturnOpReturn
    BY <2>1, ReturnIsBump DEF Promise!Next
  <2>2. CASE GiveUp
    BY <2>2, GiveUpIsRefuse DEF Promise!Next
  <2>3. CASE AddInput
    BY <2>3 DEF AddInput
  <2>4. CASE UNCHANGED vars
    BY <2>4 DEF vars
  <2> QED
    BY <2>1, <2>2, <2>3, <2>4 DEF Next
<1>3. Init => IInv /\ ChoiceInv
  BY InitTyped, ChoiceStarts
<1>4. IInv /\ ChoiceInv /\ [Next]_vars => IInv' /\ ChoiceInv'
  BY Step, ChoiceKept
<1> QED
  BY <1>1, <1>2, <1>3, <1>4, PTL DEF Spec
=============================================================================
