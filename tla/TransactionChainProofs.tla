------------------------ MODULE TransactionChainProofs ------------------------
(***************************************************************************)
(* Proofs about TransactionChain, for any number of vaults, any deposits,     *)
(* fee bumps and weights.  The inductive invariant says what each built       *)
(* transaction is: a function of the deposit and of the fee bump.             *)
(***************************************************************************)
EXTENDS TransactionChain, ConstructorsProofs, TLAPS

\* What can have been built on top of a deposit of d sats.
IsUnvault(tx, d) == UnvaultError(d) = "None" /\ tx = UnvaultTx(d)

IsCancel(tx, d, fb) ==
  /\ UnvaultError(d) = "None"
  /\ CancelError(UnvaultValue(d), fb) = "None"
  /\ tx = CancelTx(UnvaultValue(d), fb)

IsEmergency(tx, d, fb) ==
  EmergencyError(d, fb) = "None" /\ tx = EmergencyTx(d, fb)

IsUnvaultEmergency(tx, d, fb) ==
  /\ UnvaultError(d) = "None"
  /\ UnvaultEmergencyError(UnvaultValue(d), fb) = "None"
  /\ tx = UnvaultEmergencyTx(UnvaultValue(d), fb)

BuiltOn(tx, d) ==
  \/ IsUnvault(tx, d)
  \/ \E fb \in FeeBumps \cup {0} :
       IsCancel(tx, d, fb) \/ IsEmergency(tx, d, fb) \/ IsUnvaultEmergency(tx, d, fb)

BuiltInv ==
  /\ deposit \in [Vaults -> 0..MAX_MONEY]
  /\ DOMAIN built = Vaults
  /\ \A v \in Vaults : \A tx \in built[v] : BuiltOn(tx, deposit[v])

\* The weights and fees are natural numbers.
LEMMA FeesType ==
  /\ UnvaultWeight \in Nat /\ UnvaultFees \in Nat /\ UnvaultFees >= 1
  /\ CancelFees \in Nat /\ CancelFees >= 1
  /\ EmergencyFees \in Nat /\ EmergencyFees >= 1
  /\ UnvaultEmergencyFees \in Nat /\ UnvaultEmergencyFees >= 1
  /\ RevocationWeight(UnvaultSat) \in Nat /\ RevocationWeight(DepositSat) \in Nat
BY ChainAssumption, SMT
   DEF UnvaultWeight, UnvaultFees, UNVAULT_TX_FEERATE, CancelFees, CANCEL_TX_FEERATE,
       EmergencyFees, UnvaultEmergencyFees, EMER_TX_FEERATE, RevocationWeight, Weight

\* Adding transactions of the right form keeps the invariant.
LEMMA BuildInv ==
  ASSUME BuiltInv, NEW v \in Vaults, NEW err, NEW txs, Build(v, err, txs),
         err = "None" => \A tx \in txs : BuiltOn(tx, deposit[v])
  PROVE  BuiltInv'
<1>1. deposit' = deposit
  BY DEF Build
<1>2. CASE err = "None" /\ built' = [built EXCEPT ![v] = @ \cup txs]
  <2>1. DOMAIN built' = Vaults /\ built'[v] = built[v] \cup txs
    BY <1>2 DEF BuiltInv
  <2>2. \A w \in Vaults \ {v} : built'[w] = built[w]
    BY <1>2 DEF BuiltInv
  <2>3. \A w \in Vaults : \A tx \in built'[w] : BuiltOn(tx, deposit[w])
    BY <1>2, <2>1, <2>2 DEF BuiltInv
  <2> QED
    BY <1>1, <2>1, <2>3 DEF BuiltInv
<1>3. CASE built' = built
  BY <1>1, <1>3 DEF BuiltInv
<1> QED
  BY <1>2, <1>3 DEF Build

\* What a Cancel leaves is a deposit.
LEMMA CancelOut ==
  ASSUME NEW d \in 0..MAX_MONEY, NEW tx, BuiltOn(tx, d), tx.type = "Cancel"
  PROVE  /\ tx.out = UnvaultValue(d) - CancelFees
         /\ tx.out \in 0..MAX_MONEY
         /\ UnvaultError(d) = "None"
<1>1. PICK fb \in FeeBumps \cup {0} : IsCancel(tx, d, fb)
  BY DEF BuiltOn, IsUnvault, UnvaultTx, IsEmergency, EmergencyTx,
         IsUnvaultEmergency, UnvaultEmergencyTx, RevocationTx
<1>2. tx.out = UnvaultValue(d) - CancelFees
  BY <1>1 DEF IsCancel, CancelTx, RevocationTx
<1>3. CancelFees \in Nat /\ UnvaultFees \in Nat
  BY FeesType
<1>4. UnvaultValue(d) \in Int
  BY <1>3, ChainAssumption DEF UnvaultValue, UNVAULT_CPFP_VALUE
<1>5. UnvaultValue(d) >= CancelFees
  <2>1. CancelError(UnvaultValue(d), fb) = "None"
    BY <1>1 DEF IsCancel
  <2> QED
    BY <2>1, <1>3, <1>4 DEF CancelError
<1>6. UnvaultValue(d) <= MAX_MONEY
  <2>1. UnvaultError(d) = "None"
    BY <1>1 DEF IsCancel
  <2> QED
    BY <2>1, <1>3, <1>4, ChainAssumption DEF UnvaultError
<1> QED
  BY <1>1, <1>2, <1>3, <1>4, <1>5, <1>6, ChainAssumption DEF IsCancel

\* There is an Unvault for a deposit only if its constructor accepted it.
LEMMA UnvaultTxo ==
  ASSUME BuiltInv, NEW v \in Vaults, NEW u \in UnvaultTxos(v)
  PROVE  u = UnvaultValue(deposit[v]) /\ UnvaultError(deposit[v]) = "None"
<1>1. PICK tx \in built[v] : tx.type = "Unvault" /\ tx.out = u
  BY DEF UnvaultTxos
<1>2. BuiltOn(tx, deposit[v])
  BY DEF BuiltInv
<1>3. IsUnvault(tx, deposit[v])
  BY <1>1, <1>2 DEF BuiltOn, IsCancel, CancelTx, IsEmergency, EmergencyTx,
                    IsUnvaultEmergency, UnvaultEmergencyTx, RevocationTx
<1> QED
  BY <1>1, <1>3 DEF IsUnvault, UnvaultTx

LEMMA InitBuilt == Init => BuiltInv
BY ChainAssumption DEF Init, BuiltInv

LEMMA StepBuilt ==
  ASSUME BuiltInv, [Next]_vars
  PROVE  BuiltInv'
<1>1. ASSUME NEW v \in Vaults, TransactionChainManager(v)
      PROVE  BuiltInv'
  <2>1. ManagerChainError(deposit[v]) = "None" =>
          \A tx \in ManagerChain(deposit[v]) : BuiltOn(tx, deposit[v])
    BY FirstOfTwo DEF ManagerChainError, ManagerChain, BuiltOn, IsUnvault, IsCancel
  <2> QED
    BY <1>1, <2>1, BuildInv DEF TransactionChainManager
<1>2. ASSUME NEW v \in Vaults, TransactionChainAll(v)
      PROVE  BuiltInv'
  <2>1. ASSUME ChainError(deposit[v]) = "None"
        PROVE  /\ UnvaultError(deposit[v]) = "None"
               /\ CancelError(UnvaultValue(deposit[v]), 0) = "None"
               /\ EmergencyError(deposit[v], 0) = "None"
               /\ UnvaultEmergencyError(UnvaultValue(deposit[v]), 0) = "None"
    <3>1. ManagerChainError(deposit[v]) = "None"
      BY <2>1, FirstOfThree DEF ChainError
    <3> QED
      BY <2>1, <3>1, FirstOfThree, FirstOfTwo DEF ChainError, ManagerChainError
  <2>2. ChainError(deposit[v]) = "None" =>
          \A tx \in Chain(deposit[v]) : BuiltOn(tx, deposit[v])
    BY <2>1 DEF Chain, ManagerChain, BuiltOn, IsUnvault, IsCancel, IsEmergency,
                IsUnvaultEmergency
  <2> QED
    BY <1>2, <2>2, BuildInv DEF TransactionChainAll
<1>3. \A v \in Vaults : \A u \in UnvaultTxos(v) :
        u = UnvaultValue(deposit[v]) /\ UnvaultError(deposit[v]) = "None"
  BY UnvaultTxo
<1>4. ASSUME NEW v \in Vaults, NEW fb \in FeeBumps \cup {0}, NewCancel(v, fb)
      PROVE  BuiltInv'
  <2>1. PICK u \in UnvaultTxos(v) : Build(v, CancelError(u, fb), {CancelTx(u, fb)})
    BY <1>4 DEF NewCancel
  <2>2. CancelError(u, fb) = "None" => BuiltOn(CancelTx(u, fb), deposit[v])
    BY <1>3 DEF BuiltOn, IsCancel
  <2> QED
    BY <2>1, <2>2, BuildInv
<1>5. ASSUME NEW v \in Vaults, NEW fb \in FeeBumps \cup {0}, NewUnvaultEmergency(v, fb)
      PROVE  BuiltInv'
  <2>1. PICK u \in UnvaultTxos(v) :
          Build(v, UnvaultEmergencyError(u, fb), {UnvaultEmergencyTx(u, fb)})
    BY <1>5 DEF NewUnvaultEmergency
  <2>2. UnvaultEmergencyError(u, fb) = "None" =>
          BuiltOn(UnvaultEmergencyTx(u, fb), deposit[v])
    BY <1>3 DEF BuiltOn, IsUnvaultEmergency
  <2> QED
    BY <2>1, <2>2, BuildInv
<1>6. ASSUME NEW v \in Vaults, NEW fb \in FeeBumps \cup {0}, NewEmergency(v, fb)
      PROVE  BuiltInv'
  <2>1. EmergencyError(deposit[v], fb) = "None" =>
          BuiltOn(EmergencyTx(deposit[v], fb), deposit[v])
    BY DEF BuiltOn, IsEmergency
  <2> QED
    BY <1>6, <2>1, BuildInv DEF NewEmergency
<1>7. ASSUME NEW v \in Vaults, Revault(v)
      PROVE  BuiltInv'
  <2>1. PICK tx \in built[v] :
          /\ tx.type = "Cancel"
          /\ deposit' = [deposit EXCEPT ![v] = tx.out]
          /\ built' = [built EXCEPT ![v] = {}]
    BY <1>7 DEF Revault
  <2>2. tx.out \in 0..MAX_MONEY
    BY <2>1, CancelOut DEF BuiltInv
  <2> QED
    BY <2>1, <2>2 DEF BuiltInv
<1>8. ASSUME UNCHANGED <<deposit, built>>
      PROVE  BuiltInv'
  BY <1>8 DEF BuiltInv
<1> QED
  BY <1>1, <1>2, <1>4, <1>5, <1>6, <1>7, <1>8 DEF Next, vars, SpendTxFromDeposits

\* An Unvault accepted by its constructor pays for all that comes on top of it.
LEMMA UnvaultPays ==
  ASSUME Affordable, NEW d \in 0..MAX_MONEY, UnvaultError(d) = "None",
         NEW u, u = UnvaultValue(d)
  PROVE  /\ u \in DUST_LIMIT..MAX_MONEY
         /\ u + UNVAULT_CPFP_VALUE <= d
         /\ u - CancelFees \in DUST_VALUE..u
         /\ u - UnvaultEmergencyFees \in DUST_VALUE..u
         /\ d - EmergencyFees \in DUST_VALUE..d
         /\ u - CancelFees - EmergencyFees \in DUST_VALUE..u
<1>1. d >= UnvaultFees + UNVAULT_CPFP_VALUE + DUST_LIMIT
  BY FeesType, ChainAssumption DEF UnvaultError, UNVAULT_CPFP_VALUE, DUST_LIMIT
<1>2. u <= MAX_MONEY /\ u \in Int
  BY FeesType, ChainAssumption DEF UnvaultError, UnvaultValue, UNVAULT_CPFP_VALUE
<1> QED
  BY <1>1, <1>2, FeesType, ChainAssumption
     DEF Affordable, UnvaultValue, UNVAULT_CPFP_VALUE, DUST_LIMIT, DUST_VALUE

\* The constructors of the revocation transactions, when their weights are those
\* that the asserts expect, return no other error than InsaneAmounts or Dust.
LEMMA RevocationErrors ==
  ASSUME Affordable, NEW d \in 0..MAX_MONEY, UnvaultError(d) = "None",
         NEW fb \in Nat, NEW u, u = UnvaultValue(d)
  PROVE  LET ok == IF fb > MAX_MONEY THEN "InsaneAmounts" ELSE "None" IN
         /\ CancelError(u, fb) = ok
         /\ UnvaultEmergencyError(u, fb) = ok
         /\ EmergencyError(d, fb) = ok
         /\ EmergencyError(u - CancelFees, fb) = ok
<1>1. /\ u \in 0..MAX_MONEY
      /\ u >= CancelFees /\ u - CancelFees < MAX_MONEY
      /\ u >= UnvaultEmergencyFees /\ u - UnvaultEmergencyFees < MAX_MONEY
      /\ d >= EmergencyFees /\ d - EmergencyFees <= MAX_MONEY
      /\ u - CancelFees >= EmergencyFees
      /\ u - CancelFees - EmergencyFees <= MAX_MONEY
  BY UnvaultPays, FeesType, ChainAssumption DEF DUST_LIMIT, DUST_VALUE
<1>2. /\ RevocationAsserts(CancelFees, UnvaultSat)
      /\ RevocationAsserts(UnvaultEmergencyFees, UnvaultSat)
      /\ RevocationAsserts(EmergencyFees, DepositSat)
  BY DEF Affordable
<1>3. CancelFees \in Nat /\ EmergencyFees \in Nat /\ UnvaultEmergencyFees \in Nat
  BY FeesType
<1> QED
  BY <1>1, <1>2, <1>3, ChainAssumption
     DEF CancelError, UnvaultEmergencyError, EmergencyError

\* The results of the constructors that are no panic.
Errors == Results \ {"Panic"}

LEMMA NoErrorPanics ==
  ASSUME Affordable
  PROVE  /\ \A d \in 0..MAX_MONEY : UnvaultError(d) \in Errors
         /\ \A d \in 0..MAX_MONEY, fb \in Nat : EmergencyError(d, fb) \in Errors
         /\ \A us, dup, outs, insane : SpendError(us, dup, outs, insane) \in Errors
<1>1. ASSUME NEW d \in 0..MAX_MONEY PROVE UnvaultError(d) \in Errors
  <2>1. ~(UnvaultWeight > MAX_STANDARD_TX_WEIGHT)
    BY FeesType DEF Affordable, MAX_STANDARD_TX_WEIGHT
  <2> QED
    BY <2>1 DEF UnvaultError, Errors, Results
<1>2. ASSUME NEW d \in 0..MAX_MONEY, NEW fb \in Nat
      PROVE  EmergencyError(d, fb) \in Errors
  <2>1. RevocationAsserts(EmergencyFees, DepositSat)
    BY DEF Affordable
  <2> QED
    BY <2>1 DEF EmergencyError, Errors, Results
<1>3. \A us, dup, outs, insane : SpendError(us, dup, outs, insane) \in Errors
  BY DEF SpendError, Errors, Results
<1> QED
  BY <1>1, <1>2, <1>3

\* No reachable step panics when the scripts are affordable.
LEMMA StepNoPanic ==
  ASSUME Affordable, BuiltInv, NoPanic, [Next]_vars
  PROVE  NoPanic'
<1>1. ASSUME NEW v \in Vaults
      PROVE  /\ deposit[v] \in 0..MAX_MONEY
             /\ UnvaultError(deposit[v]) \in Errors
             /\ \A fb \in Nat : EmergencyError(deposit[v], fb) \in Errors
  BY NoErrorPanics DEF BuiltInv
<1>2. ASSUME NEW v \in Vaults, UnvaultError(deposit[v]) = "None", NEW fb \in Nat,
             NEW u, u = UnvaultValue(deposit[v])
      PROVE  CancelError(u, fb) # "Panic" /\ UnvaultEmergencyError(u, fb) # "Panic"
  <2>1. deposit[v] \in 0..MAX_MONEY
    BY <1>1
  <2> QED
    BY <1>2, <2>1, RevocationErrors
<1>3. FeeBumps \cup {0} \subseteq Nat
  BY ChainAssumption
<1>4. ASSUME NEW v \in Vaults, TransactionChainManager(v)
      PROVE  NoPanic'
  <2>1. ManagerChainError(deposit[v]) # "Panic"
    BY <1>1, <1>2, FirstOfTwo DEF ManagerChainError, Errors
  <2> QED
    BY <1>4, <2>1 DEF TransactionChainManager, Build, NoPanic
<1>5. ASSUME NEW v \in Vaults, TransactionChainAll(v)
      PROVE  NoPanic'
  <2>1. ManagerChainError(deposit[v]) # "Panic"
    BY <1>1, <1>2, FirstOfTwo DEF ManagerChainError, Errors
  <2>2. ManagerChainError(deposit[v]) = "None" => UnvaultError(deposit[v]) = "None"
    BY FirstOfTwo DEF ManagerChainError
  <2>3. EmergencyError(deposit[v], 0) # "Panic"
    BY <1>1 DEF Errors
  <2>4. ChainError(deposit[v]) # "Panic"
    BY <1>2, <2>1, <2>2, <2>3, FirstOfThree DEF ChainError
  <2> QED
    BY <1>5, <2>4 DEF TransactionChainAll, Build, NoPanic
<1>6. ASSUME NEW v \in Vaults, NEW fb \in FeeBumps \cup {0},
             NewCancel(v, fb) \/ NewUnvaultEmergency(v, fb)
      PROVE  NoPanic'
  <2>1. PICK u \in UnvaultTxos(v) : ret' \in {CancelError(u, fb), UnvaultEmergencyError(u, fb)}
    BY <1>6 DEF NewCancel, NewUnvaultEmergency, Build
  <2> QED
    BY <1>2, <1>3, <2>1, UnvaultTxo DEF NoPanic
<1>7. ASSUME NEW v \in Vaults, NEW fb \in FeeBumps \cup {0}, NewEmergency(v, fb)
      PROVE  NoPanic'
  BY <1>1, <1>3, <1>7 DEF NewEmergency, Build, NoPanic, Errors
<1>8. ASSUME NEW v \in Vaults, Revault(v)
      PROVE  NoPanic'
  BY <1>8 DEF Revault, NoPanic
<1>9. ASSUME NEW vs \in BoundedSeq(Vaults, 2), NEW outs, NEW insane,
             SpendTxFromDeposits(vs, outs, insane)
      PROVE  NoPanic'
  <2> DEFINE us == [i \in DOMAIN vs |-> UnvaultValue(deposit[vs[i]])]
             dup == \E i, j \in DOMAIN vs : i # j /\ vs[i] = vs[j]
             unvaults == [i \in DOMAIN vs |-> UnvaultError(deposit[vs[i]])]
             errs == unvaults \o <<SpendError(us, dup, outs, insane)>>
  <2>1. PICK n \in 0..2 : vs \in [1..n -> Vaults]
    BY SMT DEF BoundedSeq, SeqOf
  <2>2. unvaults \in [1..n -> Errors]
    BY <2>1, <1>1
  <2>3. unvaults \in Seq(Errors) /\ Len(unvaults) = n
    BY <2>1, <2>2
  <2>4. SpendError(us, dup, outs, insane) \in Errors
    BY NoErrorPanics
  <2> HIDE DEF us, dup, unvaults
  <2>5. errs \in [1..(n + 1) -> Errors]
    <3>1. errs \in Seq(Errors) /\ Len(errs) = n + 1
      BY <2>1, <2>3, <2>4
    <3> HIDE DEF errs
    <3>2. DOMAIN errs = 1..(n + 1) /\ \A i \in 1..(n + 1) : errs[i] \in Errors
      BY <3>1
    <3>3. errs = [i \in 1..(n + 1) |-> errs[i]]
      BY <3>1, <3>2
    <3> QED
      BY <3>2, <3>3
  <2> HIDE DEF errs
  <2>6. FirstError(errs) \in Errors \cup {"None"}
    BY <2>1, <2>5, FirstErrorIn
  <2>7. ret' = FirstError(errs)
    BY <1>9 DEF SpendTxFromDeposits, errs, unvaults, us, dup
  <2> QED
    BY <2>6, <2>7 DEF NoPanic, Errors
<1>10. CASE UNCHANGED vars
  BY <1>10 DEF vars, NoPanic
<1> QED
  BY <1>4, <1>5, <1>6, <1>7, <1>8, <1>9, <1>10 DEF Next
-----------------------------------------------------------------------------
\* Every transaction built for a vault is the function of its current deposit
\* that its constructor computes, also after any number of Cancels.
THEOREM ChainInvariance == Spec => []BuiltInv
<1>1. BuiltInv /\ UNCHANGED vars => BuiltInv'
  BY DEF BuiltInv, vars
<1>2. BuiltInv /\ [Next]_vars => BuiltInv'
  BY StepBuilt
<1> QED
  BY InitBuilt, <1>2, PTL DEF Spec

\* With affordable scripts no expect and no assert of the constructors fails, for
\* any deposit and any history of revaults.
THEOREM ChainNoPanic == Affordable => (Spec => []NoPanic)
<1> SUFFICES ASSUME Affordable
             PROVE  Spec => []NoPanic
  OBVIOUS
<1>1. Init => NoPanic
  BY DEF Init, NoPanic
<1>2. BuiltInv /\ NoPanic /\ [Next]_vars => NoPanic'
  BY StepNoPanic
<1> QED
  BY <1>1, <1>2, ChainInvariance, PTL DEF Spec

\* With affordable scripts a deposit that was given an Unvault can be revaulted
\* and sent to the Emergency address, before and after the unvaulting.
THEOREM Escapes == Affordable => (Spec => []EscapesOpen)
<1> SUFFICES ASSUME Affordable
             PROVE  Spec => []EscapesOpen
  OBVIOUS
<1>1. BuiltInv => EscapesOpen
  <2> SUFFICES ASSUME BuiltInv, NEW v \in Vaults, NEW u \in UnvaultTxos(v)
               PROVE  /\ CancelError(u, 0) = "None"
                      /\ UnvaultEmergencyError(u, 0) = "None"
                      /\ EmergencyError(deposit[v], 0) = "None"
    BY DEF EscapesOpen
  <2>1. deposit[v] \in 0..MAX_MONEY
    BY DEF BuiltInv
  <2>2. u = UnvaultValue(deposit[v]) /\ UnvaultError(deposit[v]) = "None"
    BY UnvaultTxo
  <2>3. ~(0 > MAX_MONEY)
    BY ChainAssumption
  <2> QED
    BY <2>1, <2>2, <2>3, RevocationErrors
<1> QED
  BY <1>1, ChainInvariance, PTL

\* For any weights: transactions of one type built for one deposit have the same
\* outputs, whatever their fee-bumping input.
THEOREM FeeBumping == Spec => []BumpKeepsOutputs
<1>1. BuiltInv => BumpKeepsOutputs
  <2> SUFFICES ASSUME BuiltInv, NEW v \in Vaults, NEW a \in built[v], NEW b \in built[v],
                      a.type = b.type
               PROVE  a.in = b.in /\ a.out = b.out /\ a.cpfp = b.cpfp
    BY DEF BumpKeepsOutputs
  <2>1. BuiltOn(a, deposit[v]) /\ BuiltOn(b, deposit[v])
    BY DEF BuiltInv
  <2> QED
    BY <2>1 DEF BuiltOn, IsUnvault, UnvaultTx, IsCancel, CancelTx, IsEmergency,
                EmergencyTx, IsUnvaultEmergency, UnvaultEmergencyTx, RevocationTx
<1> QED
  BY <1>1, ChainInvariance, PTL

\* A step that changes a deposit is the confirmation of one of its Cancels.
LEMMA DepositStep ==
  ASSUME BuiltInv, [Next]_vars, NEW v \in Vaults, deposit'[v] # deposit[v]
  PROVE  /\ UnvaultError(deposit[v]) = "None"
         /\ deposit'[v] = UnvaultValue(deposit[v]) - CancelFees
         /\ deposit'[v] \in 0..MAX_MONEY
<1>1. PICK w \in Vaults : Revault(w)
  BY DEF Next, vars, TransactionChainManager, TransactionChainAll, NewCancel,
         NewUnvaultEmergency, NewEmergency, SpendTxFromDeposits, Build
<1>2. PICK tx \in built[w] :
        tx.type = "Cancel" /\ deposit' = [deposit EXCEPT ![w] = tx.out]
  BY <1>1 DEF Revault
<1>3. w = v /\ deposit'[v] = tx.out
  BY <1>2 DEF BuiltInv
<1>4. deposit[v] \in 0..MAX_MONEY /\ BuiltOn(tx, deposit[v])
  BY <1>2, <1>3 DEF BuiltInv
<1> QED
  BY <1>2, <1>3, <1>4, CancelOut

\* For any weights: revaulting costs the fees of the Unvault and of the Cancel
\* and the CPFP output, no matter how often it was done and which fee was added.
THEOREM Cost == Spec => RevaultCost
<1>1. BuiltInv /\ [Next]_vars =>
        [\A v \in Vaults : deposit'[v] # deposit[v] =>
           deposit[v] - deposit'[v] = UnvaultFees + UNVAULT_CPFP_VALUE + CancelFees]_vars
  <2> SUFFICES ASSUME BuiltInv, [Next]_vars, NEW v \in Vaults, deposit'[v] # deposit[v]
               PROVE  deposit[v] - deposit'[v]
                        = UnvaultFees + UNVAULT_CPFP_VALUE + CancelFees
    OBVIOUS
  <2>1. deposit[v] \in 0..MAX_MONEY
    BY DEF BuiltInv
  <2>2. deposit'[v] = UnvaultValue(deposit[v]) - CancelFees
    BY DepositStep
  <2> QED
    BY <2>1, <2>2, FeesType, ChainAssumption DEF UnvaultValue, UNVAULT_CPFP_VALUE
<1> QED
  BY <1>1, ChainInvariance, PTL DEF Spec, RevaultCost

\* With affordable scripts the deposit that a Cancel creates can be sent to the
\* Emergency address, even when it is too small for another Unvault.
THEOREM RevaultedDepositEscapes == Affordable => (Spec => RevaultedEscapes)
<1> SUFFICES ASSUME Affordable
             PROVE  Spec => RevaultedEscapes
  OBVIOUS
<1>1. BuiltInv /\ [Next]_vars =>
        [\A v \in Vaults :
           deposit'[v] # deposit[v] => EmergencyError(deposit'[v], 0) = "None"]_vars
  <2> SUFFICES ASSUME BuiltInv, [Next]_vars, NEW v \in Vaults, deposit'[v] # deposit[v]
               PROVE  EmergencyError(deposit'[v], 0) = "None"
    OBVIOUS
  <2>1. deposit[v] \in 0..MAX_MONEY /\ ~(0 > MAX_MONEY)
    BY ChainAssumption DEF BuiltInv
  <2>2. /\ UnvaultError(deposit[v]) = "None"
        /\ deposit'[v] = UnvaultValue(deposit[v]) - CancelFees
    BY DepositStep
  <2> QED
    BY <2>1, <2>2, RevocationErrors
<1> QED
  BY <1>1, ChainInvariance, PTL DEF Spec, RevaultedEscapes

\* With affordable scripts the amounts of every transaction of a vault pass the
\* checks of the parser, as long as it spends no more coins than there are.
THEOREM ChainParses == Affordable => (Spec => []PresignedParse)
<1> SUFFICES ASSUME Affordable
             PROVE  Spec => []PresignedParse
  OBVIOUS
<1>1. BuiltInv => PresignedParse
  <2> SUFFICES ASSUME BuiltInv, NEW v \in Vaults, NEW u \in UnvaultTxos(v),
                      NEW tx \in built[v], tx.in + tx.feebump <= MAX_MONEY
               PROVE  AmountsParse(tx)
    BY DEF PresignedParse
  <2> DEFINE d == deposit[v]
  <2>1. d \in 0..MAX_MONEY /\ u = UnvaultValue(d) /\ UnvaultError(d) = "None"
    BY UnvaultTxo DEF BuiltInv
  <2> HIDE DEF d
  <2>2. /\ u \in DUST_LIMIT..MAX_MONEY /\ u + UNVAULT_CPFP_VALUE <= d
        /\ u - CancelFees \in DUST_VALUE..u
        /\ u - UnvaultEmergencyFees \in DUST_VALUE..u
        /\ d - EmergencyFees \in DUST_VALUE..d
    BY <2>1, UnvaultPays
  <2>3. CASE IsUnvault(tx, d)
    BY <2>1, <2>2, <2>3, ChainAssumption
       DEF IsUnvault, UnvaultTx, AmountsParse, OutputParses, FeesParse, DUST_VALUE,
           DUST_LIMIT, UNVAULT_CPFP_VALUE
  <2>4. ASSUME NEW in \in 0..MAX_MONEY, NEW out \in DUST_VALUE..in, NEW fb \in Nat,
               tx = [type |-> tx.type, in |-> in, feebump |-> fb, out |-> out, cpfp |-> 0],
               tx.type # "Unvault"
        PROVE  AmountsParse(tx)
    <3>1. tx.in = in /\ tx.feebump = fb /\ tx.out = out /\ tx.cpfp = 0
      BY <2>4
    <3> QED
      BY <2>4, <3>1, ChainAssumption DEF AmountsParse, OutputParses, FeesParse, DUST_VALUE
  <2>5. ASSUME NEW fb \in FeeBumps \cup {0},
               IsCancel(tx, d, fb) \/ IsEmergency(tx, d, fb) \/ IsUnvaultEmergency(tx, d, fb)
        PROVE  AmountsParse(tx)
    <3>1. fb \in Nat
      <4>1. CASE fb \in FeeBumps
        <5>1. FeeBumps \subseteq Nat
          BY ChainAssumption
        <5> QED
          BY <4>1, <5>1
      <4>2. CASE fb = 0
        BY <4>2
      <4> QED
        BY <4>1, <4>2
    <3>2. u \in 0..MAX_MONEY
      BY <2>2, ChainAssumption DEF DUST_LIMIT
    <3>3. CASE IsCancel(tx, d, fb)
      BY <2>1, <2>2, <2>4, <3>1, <3>2, <3>3 DEF IsCancel, CancelTx, RevocationTx
    <3>4. CASE IsEmergency(tx, d, fb)
      BY <2>1, <2>2, <2>4, <3>1, <3>4 DEF IsEmergency, EmergencyTx, RevocationTx
    <3>5. CASE IsUnvaultEmergency(tx, d, fb)
      BY <2>1, <2>2, <2>4, <3>1, <3>2, <3>5
         DEF IsUnvaultEmergency, UnvaultEmergencyTx, RevocationTx
    <3> QED
      BY <2>5, <3>3, <3>4, <3>5
  <2>6. BuiltOn(tx, d)
    BY DEF BuiltInv, d
  <2> QED
    BY <2>3, <2>5, <2>6 DEF BuiltOn
<1> QED
  BY <1>1, ChainInvariance, PTL

\* The constructors subtract no more than there is.
LEMMA BuiltType ==
  ASSUME NEW d \in 0..MAX_MONEY, NEW tx, BuiltOn(tx, d)
  PROVE  tx \in PresignedTx
<1>1. d \in Nat /\ FeeBumps \cup {0} \subseteq Nat
  BY ChainAssumption
<1>2. UnvaultError(d) = "None" => UnvaultValue(d) \in Nat
  BY <1>1, FeesType DEF UnvaultError, UnvaultValue, UNVAULT_CPFP_VALUE, DUST_LIMIT
<1>3. CASE IsUnvault(tx, d)
  BY <1>1, <1>2, <1>3 DEF IsUnvault, UnvaultTx, PresignedTx, TxTypes, UNVAULT_CPFP_VALUE
<1>4. ASSUME NEW type \in TxTypes, NEW v \in Nat, NEW fees \in Nat, NEW fb \in Nat, fees <= v
      PROVE  RevocationTx(type, v, fees, fb) \in PresignedTx
  BY <1>4 DEF RevocationTx, PresignedTx
<1>5. ASSUME NEW fb \in FeeBumps \cup {0}, IsCancel(tx, d, fb)
      PROVE  tx \in PresignedTx
  <2>1. UnvaultValue(d) \in Nat /\ CancelFees <= UnvaultValue(d)
    BY <1>2, <1>5, FeesType DEF IsCancel, CancelError
  <2> QED
    BY <1>1, <1>4, <1>5, <2>1, FeesType DEF IsCancel, CancelTx, TxTypes
<1>6. ASSUME NEW fb \in FeeBumps \cup {0}, IsEmergency(tx, d, fb)
      PROVE  tx \in PresignedTx
  <2>1. EmergencyFees <= d
    BY <1>1, <1>6, FeesType DEF IsEmergency, EmergencyError
  <2> QED
    BY <1>1, <1>4, <1>6, <2>1, FeesType DEF IsEmergency, EmergencyTx, TxTypes
<1>7. ASSUME NEW fb \in FeeBumps \cup {0}, IsUnvaultEmergency(tx, d, fb)
      PROVE  tx \in PresignedTx
  <2>1. UnvaultValue(d) \in Nat /\ UnvaultEmergencyFees <= UnvaultValue(d)
    BY <1>2, <1>7, FeesType DEF IsUnvaultEmergency, UnvaultEmergencyError
  <2> QED
    BY <1>1, <1>4, <1>7, <2>1, FeesType DEF IsUnvaultEmergency, UnvaultEmergencyTx, TxTypes
<1> QED
  BY <1>3, <1>5, <1>6, <1>7 DEF BuiltOn

LEMMA CpfpValueType ==
  ASSUME NEW n \in Nat, NEW m \in Nat
  PROVE  SpendCpfpValue(n, m) \in Nat
<1>1. n * UnvaultSat \in Nat
  BY ChainAssumption
<1>2. Weight(n, m + 1) \in Nat
  BY DEF Weight
<1> QED
  BY <1>1, <1>2 DEF SpendCpfpValue, SpendWeight

LEMMA ErrorTypes ==
  /\ \A d : UnvaultError(d) \in Results
  /\ \A d, fb : /\ CancelError(d, fb) \in Results /\ EmergencyError(d, fb) \in Results
                /\ UnvaultEmergencyError(d, fb) \in Results
  /\ \A us, dup, outs, insane : SpendError(us, dup, outs, insane) \in Results
<1>1. \A d : UnvaultError(d) \in Results
  BY DEF UnvaultError, Results
<1>2. \A d, fb : CancelError(d, fb) \in Results
  BY DEF CancelError, Results
<1>3. \A d, fb : EmergencyError(d, fb) \in Results
  BY DEF EmergencyError, Results
<1>4. \A d, fb : UnvaultEmergencyError(d, fb) \in Results
  BY DEF UnvaultEmergencyError, Results
<1>5. \A us, dup, outs, insane : SpendError(us, dup, outs, insane) \in Results
  BY DEF SpendError, Results
<1> QED
  BY <1>1, <1>2, <1>3, <1>4, <1>5

\* A Spend is returned only if the Unvault of each deposit is.
LEMMA SpendStep ==
  ASSUME BuiltInv, NEW vs \in BoundedSeq(Vaults, 2), NEW outs \in BoundedSeq(SpendValues, 2),
         NEW insane, SpendTxFromDeposits(vs, outs, insane), spend \subseteq Spends
  PROVE  spend' \subseteq Spends /\ ret' \in Results
<1> DEFINE us == [i \in DOMAIN vs |-> UnvaultValue(deposit[vs[i]])]
           dup == \E i, j \in DOMAIN vs : i # j /\ vs[i] = vs[j]
           unvaults == [i \in DOMAIN vs |-> UnvaultError(deposit[vs[i]])]
           last == SpendError(us, dup, outs, insane)
           errs == unvaults \o <<last>>
<1>1. PICK n \in 0..2 : vs \in [1..n -> Vaults]
  BY SMT DEF BoundedSeq, SeqOf
<1>2. outs \in Seq(Nat)
  <2>1. PICK m \in 0..2 : outs \in [1..m -> SpendValues]
    BY SMT DEF BoundedSeq, SeqOf
  <2>2. SpendValues \subseteq Nat
    BY ChainAssumption
  <2>3. m \in Nat
    OBVIOUS
  <2>4. outs \in [1..m -> Nat]
    BY <2>1, <2>2
  <2> QED
    BY <2>3, <2>4
<1>3. unvaults \in Seq(Results) /\ Len(unvaults) = n
  <2>1. unvaults \in [1..n -> Results]
    BY <1>1, ErrorTypes
  <2> QED
    BY <1>1, <2>1
<1>4. last \in Results
  BY ErrorTypes
<1>5. /\ \/ spend' = {SpendTx(us, outs)} /\ FirstError(errs) = "None"
         \/ spend' = spend
      /\ ret' = FirstError(errs)
  BY DEF SpendTxFromDeposits
<1>6. /\ \A i \in 1..n : unvaults[i] = UnvaultError(deposit[vs[i]])
      /\ DOMAIN us = 1..n /\ \A i \in 1..n : us[i] = UnvaultValue(deposit[vs[i]])
      /\ us = [i \in 1..n |-> us[i]]
  BY <1>1
<1> HIDE DEF us, unvaults, last
<1>7. /\ errs \in Seq(Results) /\ DOMAIN errs = 1..(n + 1)
      /\ \A i \in 1..n : errs[i] = unvaults[i]
  BY <1>1, <1>3, <1>4
<1> HIDE DEF errs
<1>8. /\ FirstError(errs) \in Results
      /\ FirstError(errs) = "None" => \A i \in 1..n : unvaults[i] = "None"
  <2>1. "None" \in Results /\ \A i \in 1..n : i \in 1..(n + 1)
    BY <1>1 DEF Results
  <2> QED
    BY <1>7, <2>1, FirstOfSeq
<1>9. ASSUME FirstError(errs) = "None"
      PROVE  SpendTx(us, outs) \in Spends
  <2>1. ASSUME NEW i \in 1..n PROVE us[i] \in Nat
    <3>1. deposit[vs[i]] \in 0..MAX_MONEY /\ UnvaultError(deposit[vs[i]]) = "None"
      BY <1>1, <1>6, <1>8, <1>9 DEF BuiltInv
    <3>2. UnvaultValue(deposit[vs[i]]) \in Nat
      BY <3>1, FeesType, ChainAssumption
         DEF UnvaultError, UnvaultValue, UNVAULT_CPFP_VALUE, DUST_LIMIT
    <3> QED
      BY <1>6, <3>2
  <2>2. us \in Seq(Nat)
    <3>1. us \in [1..n -> Nat]
      BY <1>6, <2>1
    <3> QED
      BY <1>1, <3>1
  <2>3. Len(us) \in Nat /\ Len(outs) \in Nat
    BY <1>2, <2>2
  <2> QED
    BY <1>2, <2>2, <2>3, CpfpValueType DEF SpendTx, Spends
<1> QED
  BY <1>5, <1>8, <1>9

\* No amount of a transaction that is built is below zero, and the calls return
\* the errors of error.rs, for any weights.
THEOREM ChainTyped == Spec => []TypeOK
<1> DEFINE Inv == spend \subseteq Spends /\ ret \in Results
<1>1. Init => Inv
  BY DEF Init, Results
<1>2. BuiltInv /\ Inv /\ [Next]_vars => Inv'
  <2> SUFFICES ASSUME BuiltInv, Inv, [Next]_vars
               PROVE  Inv'
    OBVIOUS
  <2>1. ASSUME NEW v \in Vaults, NEW err \in Results, NEW txs, Build(v, err, txs)
        PROVE  Inv'
    BY <2>1 DEF Build
  <2>2. \A d : ManagerChainError(d) \in Results
    BY ErrorTypes, FirstOfTwo DEF ManagerChainError
  <2>3. \A d : ChainError(d) \in Results
    BY <2>2, ErrorTypes, FirstOfThree DEF ChainError
  <2>4. ASSUME NEW v \in Vaults, TransactionChainManager(v) \/ TransactionChainAll(v)
        PROVE  Inv'
    BY <2>1, <2>2, <2>3, <2>4 DEF TransactionChainManager, TransactionChainAll
  <2>5. ASSUME NEW v \in Vaults, NEW fb,
               NewCancel(v, fb) \/ NewUnvaultEmergency(v, fb) \/ NewEmergency(v, fb)
        PROVE  Inv'
    BY <2>1, <2>5, ErrorTypes DEF NewCancel, NewUnvaultEmergency, NewEmergency
  <2>6. ASSUME NEW v \in Vaults, Revault(v)
        PROVE  Inv'
    BY <2>6 DEF Revault, Results
  <2>7. ASSUME NEW vs \in BoundedSeq(Vaults, 2), NEW outs \in BoundedSeq(SpendValues, 2),
               NEW insane, SpendTxFromDeposits(vs, outs, insane)
        PROVE  Inv'
    BY <2>7, SpendStep
  <2>8. CASE UNCHANGED vars
    BY <2>8 DEF vars
  <2> HIDE DEF Inv
  <2> QED
    BY <2>4, <2>5, <2>6, <2>7, <2>8 DEF Next
<1>3. BuiltInv /\ Inv => TypeOK
  <2> SUFFICES ASSUME BuiltInv, Inv
               PROVE  TypeOK
    OBVIOUS
  <2>1. deposit \in [Vaults -> Nat]
    BY ChainAssumption DEF BuiltInv
  <2>2. \A v \in Vaults : built[v] \subseteq PresignedTx
    BY BuiltType DEF BuiltInv
  <2> QED
    BY <2>1, <2>2 DEF TypeOK, BuiltInv
<1> HIDE DEF Inv
<1> QED
  BY <1>1, <1>2, <1>3, ChainInvariance, PTL DEF Spec
=============================================================================
