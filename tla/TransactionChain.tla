--------------------------- MODULE TransactionChain ---------------------------
(***************************************************************************)
(* The functions that chain the transactions of a vault, and the deposits     *)
(* that Cancel transactions create and that are vaulted again: the amounts.   *)
(***************************************************************************)
EXTENDS Constructors

CONSTANTS
  Vaults,         \* deposits of the wallet, one vault each
  Amounts,        \* what a funder may send to a deposit descriptor
  FeeBumps,       \* values of the fee-bumping inputs
  SpendValues     \* values of the external outputs of a Spend

ASSUME ChainAssumption ==
  /\ MAX_MONEY \in Nat /\ Amounts \subseteq 0..MAX_MONEY
  /\ FeeBumps \subseteq Nat /\ SpendValues \subseteq Nat
  /\ DepositSat \in Nat /\ UnvaultSat \in Nat /\ U64 \in Nat \ {0}

VARIABLES
  deposit,   \* vault -> value of its deposit txo
  built,     \* vault -> transactions built on top of this deposit
  spend,     \* the Spend last built, as a set of at most one
  ret        \* result of the last call

vars == <<deposit, built, spend, ret>>
-----------------------------------------------------------------------------
\* transaction_chain_manager() and transaction_chain() return at the first error.
ManagerChainError(d) ==
  FirstError(<<UnvaultError(d), CancelError(UnvaultValue(d), 0)>>)

ChainError(d) ==
  FirstError(<<ManagerChainError(d), EmergencyError(d, 0),
               UnvaultEmergencyError(UnvaultValue(d), 0)>>)

ManagerChain(d) == {UnvaultTx(d), CancelTx(UnvaultValue(d), 0)}

Chain(d) ==
  ManagerChain(d) \cup {EmergencyTx(d, 0), UnvaultEmergencyTx(UnvaultValue(d), 0)}

\* The amount checks of the parser on a presigned transaction.
AmountsParse(tx) ==
  /\ tx.in <= MAX_MONEY /\ tx.feebump <= MAX_MONEY
  /\ OutputParses(tx.out)
  /\ tx.type = "Unvault" => OutputParses(tx.cpfp)
  /\ FeesParse(tx.in + tx.feebump, tx.out + tx.cpfp)

-----------------------------------------------------------------------------
Init ==
  /\ deposit \in [Vaults -> Amounts]
  /\ built = [v \in Vaults |-> {}]
  /\ spend = {}
  /\ ret = "None"

\* The result of a call that builds txs for v, or fails with err and returns none.
Build(v, err, txs) ==
  /\ \/ err = "None" /\ built' = [built EXCEPT ![v] = @ \cup txs]
     \/ err # "None" /\ UNCHANGED built
  /\ ret' = err
  /\ UNCHANGED <<deposit, spend>>

TransactionChainManager(v) ==
  Build(v, ManagerChainError(deposit[v]), ManagerChain(deposit[v]))

TransactionChainAll(v) == Build(v, ChainError(deposit[v]), Chain(deposit[v]))

\* The value of the Unvault txo, once there is an Unvault transaction for v.
UnvaultTxos(v) == {tx.out : tx \in {t \in built[v] : t.type = "Unvault"}}

\* A revocation transaction is built anew, with a fee-bumping input or without.
NewCancel(v, fb) ==
  \E u \in UnvaultTxos(v) : Build(v, CancelError(u, fb), {CancelTx(u, fb)})

NewUnvaultEmergency(v, fb) ==
  \E u \in UnvaultTxos(v) :
    Build(v, UnvaultEmergencyError(u, fb), {UnvaultEmergencyTx(u, fb)})

NewEmergency(v, fb) ==
  Build(v, EmergencyError(deposit[v], fb), {EmergencyTx(deposit[v], fb)})

\* A Cancel confirmed: its deposit_txin() is the deposit of the vault.
Revault(v) ==
  \E tx \in built[v] :
    /\ tx.type = "Cancel"
    /\ deposit' = [deposit EXCEPT ![v] = tx.out]
    /\ built' = [built EXCEPT ![v] = {}]
    /\ ret' = "None"
    /\ UNCHANGED spend

\* spend_tx_from_deposits(): the Unvault of each deposit is built again.  vs may
\* list a deposit twice.  outs are the external outputs and the change.
SpendTxFromDeposits(vs, outs, checkInsane) ==
  LET us  == [i \in DOMAIN vs |-> UnvaultValue(deposit[vs[i]])]
      dup == \E i, j \in DOMAIN vs : i # j /\ vs[i] = vs[j]
      err == FirstError([i \in DOMAIN vs |-> UnvaultError(deposit[vs[i]])]
                        \o <<SpendError(us, dup, outs, checkInsane)>>)
  IN
  /\ \/ err = "None" /\ spend' = {SpendTx(us, outs)}
     \/ err # "None" /\ UNCHANGED spend
  /\ ret' = err
  /\ UNCHANGED <<deposit, built>>

Next ==
  \/ \E v \in Vaults : TransactionChainManager(v)
  \/ \E v \in Vaults : TransactionChainAll(v)
  \/ \E v \in Vaults, fb \in FeeBumps \cup {0} : NewCancel(v, fb)
  \/ \E v \in Vaults, fb \in FeeBumps \cup {0} : NewUnvaultEmergency(v, fb)
  \/ \E v \in Vaults, fb \in FeeBumps \cup {0} : NewEmergency(v, fb)
  \/ \E v \in Vaults : Revault(v)
  \/ \E vs \in BoundedSeq(Vaults, 2) \ {<<>>}, outs \in BoundedSeq(SpendValues, 2),
        checkInsane \in BOOLEAN : SpendTxFromDeposits(vs, outs, checkInsane)

Spec == Init /\ [][Next]_vars
-----------------------------------------------------------------------------
TxTypes == {"Unvault", "Cancel", "Emergency", "UnvaultEmergency"}
PresignedTx == [type : TxTypes, in : Nat, feebump : Nat, out : Nat, cpfp : Nat]
Spends == [ins : Seq(Nat), cpfp : Nat, outs : Seq(Nat)]
Results ==
  {"None", "Panic", "Dust", "InsaneFees", "InsaneAmounts", "DuplicatedInput",
   "TooLarge", "NegativeFees"}

\* No amount of a built transaction is below zero.
TypeOK ==
  /\ deposit \in [Vaults -> Nat]
  /\ DOMAIN built = Vaults
  /\ \A v \in Vaults : built[v] \subseteq PresignedTx
  /\ spend \subseteq Spends
  /\ ret \in Results

\* No call panics: once Unvault::new() accepted a deposit, the "dust" expects
\* and the MAX_MONEY asserts of the transactions on top of it hold, also after
\* any number of Cancels.
NoPanic == ret # "Panic"

\* A deposit whose Unvault exists can be revaulted, and can be sent to the
\* Emergency address before and after it is unvaulted.
EscapesOpen ==
  \A v \in Vaults : \A u \in UnvaultTxos(v) :
    /\ CancelError(u, 0) = "None"
    /\ UnvaultEmergencyError(u, 0) = "None"
    /\ EmergencyError(deposit[v], 0) = "None"

\* All the transactions built for a deposit that has an Unvault pass the amount
\* checks that the parser makes on their serialization, unless they spend more
\* coins than there are; their fees are defined.
PresignedParse ==
  \A v \in Vaults : UnvaultTxos(v) # {} =>
    \A tx \in built[v] : tx.in + tx.feebump <= MAX_MONEY => AmountsParse(tx)

\* Adding a fee-bumping input changes no output: the ALL | ANYONECANPAY
\* signatures given for the transaction without it stay valid.
BumpKeepsOutputs ==
  \A v \in Vaults : \A a, b \in built[v] :
    a.type = b.type => a.in = b.in /\ a.out = b.out /\ a.cpfp = b.cpfp

\* Revaulting costs the same whatever the fee-bumping and the history: the fees
\* of the Unvault and the Cancel at their feerates, and the CPFP output.
RevaultCost ==
  [][\A v \in Vaults : deposit'[v] # deposit[v] =>
       deposit[v] - deposit'[v] = UnvaultFees + UNVAULT_CPFP_VALUE + CancelFees
    ]_vars

\* The deposit that a Cancel creates can be sent to the Emergency address, even
\* when it became too small to be unvaulted again.
RevaultedEscapes ==
  [][\A v \in Vaults :
       deposit'[v] # deposit[v] => EmergencyError(deposit'[v], 0) = "None"]_vars

\* What the code takes for granted about the scripts, so that an Unvault output
\* of DUST_LIMIT pays for the transactions on top of it: weights are below the
\* standard limit and a Cancel, an Emergency or an UnvaultEmergency of it leaves
\* more than dust.  No check of the code implies it.
Affordable ==
  /\ RevocationAsserts(CancelFees, UnvaultSat)
  /\ RevocationAsserts(UnvaultEmergencyFees, UnvaultSat)
  /\ RevocationAsserts(EmergencyFees, DepositSat)
  /\ UnvaultWeight <= MAX_STANDARD_TX_WEIGHT
  /\ UnvaultEmergencyFees + DUST_VALUE <= DUST_LIMIT
  /\ CancelFees + EmergencyFees + DUST_VALUE <= DUST_LIMIT

\* The error NegativeFees, "Sends more than it spends": no Spend that is returned
\* has outputs worth more than its inputs, so that fees() is defined.
SpendFeesDefined ==
  \A tx \in spend : Total(tx.outs) + tx.cpfp <= Total(tx.ins)
=============================================================================
