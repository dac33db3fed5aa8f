-------------------------------- MODULE Vault --------------------------------
(***************************************************************************)
(* The transactions of a vault by what ties them together: outpoints, txids,  *)
(* sequences, lock times, derivation indexes and scripts.  Stakeholders and   *)
(* managers build and sign them with the library; the chain confirms those    *)
(* that its rules accept, in any order.  Amounts are those of                 *)
(* TransactionChain and do not appear.                                       *)
(*                                                                          *)
(* A txid is the transaction itself without its witnesses: two transactions   *)
(* have the same txid only if all that is hashed is the same.  Input and      *)
(* output number i + 1 of a sequence here is index i of the code.             *)
(***************************************************************************)
EXTENDS Integers, Sequences, FiniteSets

CONSTANTS
  Coins,       \* the funding transactions, one deposit each
  Index,       \* funding transaction -> derivation index of the deposit paid
  FeeBumps,    \* outputs of the external fee-bumping wallet
  LockTimes,   \* what callers pass as lock_time
  Csv,         \* csv_value() of the Unvault descriptor
  MaxHeight,   \* bound: height of the last block
  MaxVaults,   \* bound: deposits for which the transactions are built
  MaxSpends,   \* bound: Spends that are built
  MaxBumps     \* bound: vaults whose revocation transactions are fee-bumped

ASSUME VaultAssumption ==
  /\ Index \in [Coins -> Nat] /\ LockTimes \subseteq Nat
  /\ Csv \in Nat \ {0} /\ {MaxHeight, MaxVaults, MaxSpends, MaxBumps} \subseteq Nat

VARIABLES
  built,    \* what the constructors returned: [type, tx]
  signed,   \* signatures: who saw which transaction and signed which input of it
  utxo,     \* unspent outpoint -> height of its confirmation
  height,   \* of the chain
  coin      \* coin -> the outpoint that holds it now

vars == <<built, signed, utxo, height, coin>>
-----------------------------------------------------------------------------
(***************************************************************************)
(* Outputs.  A descriptor derived at an index pays to a script of its kind.   *)
(* Funding transactions and the fee-bumping wallet's are not made here.       *)
(***************************************************************************)
Script(kind, index) == [kind |-> kind, index |-> index]

EmergencyScript == Script("Emergency", 0)
ExternalScript == Script("External", 0)
FeeBumpScript == Script("FeeBump", 0)

Funding(c) == [ins |-> <<>>, outs |-> <<Script("Deposit", Index[c])>>, lock |-> 0, from |-> c]
Wallet(b) == [ins |-> <<>>, outs |-> <<FeeBumpScript>>, lock |-> 0, from |-> b]

OutPoint(tx, vout) == [txid |-> tx, vout |-> vout]
Txo(op) == op.txid.outs[op.vout + 1]
Outpoints(tx) == {OutPoint(tx, k - 1) : k \in DOMAIN tx.outs}

(***************************************************************************)
(* txins.rs: RBF_SEQUENCE has the disable bit of BIP 68, csv_value() has not. *)
(***************************************************************************)
RBF_SEQUENCE == "RBF"
CSV_SEQUENCE == "CSV"

DepositTxIn(op) == [previous_output |-> op, sequence |-> RBF_SEQUENCE]
FeeBumpTxIn(op) == [previous_output |-> op, sequence |-> RBF_SEQUENCE]
UnvaultTxIn(op, sequence) == [previous_output |-> op, sequence |-> sequence]
CpfpTxIn(op) == [previous_output |-> op, sequence |-> RBF_SEQUENCE]

(***************************************************************************)
(* The transactions the constructors make.                                   *)
(***************************************************************************)
Tx(ins, outs, lock) == [ins |-> ins, outs |-> outs, lock |-> lock]

\* Mutant: the Unvault is created with no lock time.
UnvaultTxNoLock(txin, index, lock) ==
  Tx(<<txin>>, <<Script("Unvault", index), Script("Cpfp", index)>>, 0)

UnvaultTx(txin, index, lock) ==
  Tx(<<txin>>, <<Script("Unvault", index), Script("Cpfp", index)>>, lock)

\* feebump: a sequence of at most one outpoint.
FeeBumpTxIns(feebump) == [i \in DOMAIN feebump |-> FeeBumpTxIn(feebump[i])]

\* Mutant: the Cancel pays to the script it spends.
CancelTxToUnvault(txin, feebump, index, lock) ==
  Tx(<<txin>> \o FeeBumpTxIns(feebump), <<Script("Unvault", index)>>, lock)

CancelTx(txin, feebump, index, lock) ==
  Tx(<<txin>> \o FeeBumpTxIns(feebump), <<Script("Deposit", index)>>, lock)

EmergencyTx(txin, feebump, lock) ==
  Tx(<<txin>> \o FeeBumpTxIns(feebump), <<EmergencyScript>>, lock)

UnvaultEmergencyTx(txin, feebump, lock) ==
  Tx(<<txin>> \o FeeBumpTxIns(feebump), <<EmergencyScript>>, lock)

\* The output to be CPFPed, an external output, and the change if any.
SpendTx(txins, change, index, lock) ==
  Tx(txins, <<Script("Cpfp", index), ExternalScript>> \o change, lock)

(***************************************************************************)
(* The references to the output of one transaction in another.               *)
(***************************************************************************)
Position(tx, spk) ==
  CHOOSE k \in DOMAIN tx.outs : tx.outs[k] = spk /\ \A j \in 1..(k - 1) : tx.outs[j] # spk

UnvaultTxinOf(tx, index, sequence) ==
  UnvaultTxIn(OutPoint(tx, Position(tx, Script("Unvault", index)) - 1), sequence)

\* Mutants: each takes the sequence of the other.
RevaultUnvaultTxinCsv(tx, index) == UnvaultTxinOf(tx, index, CSV_SEQUENCE)
SpendUnvaultTxinRbf(tx, index) == UnvaultTxinOf(tx, index, RBF_SEQUENCE)

SpendUnvaultTxin(tx, index) == UnvaultTxinOf(tx, index, CSV_SEQUENCE)
RevaultUnvaultTxin(tx, index) == UnvaultTxinOf(tx, index, RBF_SEQUENCE)

\* Mutant: the outpoint that the Cancel spends, instead of the one it creates.
CancelDepositSpent(tx) == DepositTxIn(tx.ins[1].previous_output)

\* deposit_txin() of a Cancel.
CancelDeposit(tx) == DepositTxIn(OutPoint(tx, 0))

\* Outputs with derivation paths in their PSBT output.
Internal(spk) == spk.kind \in {"Deposit", "Unvault", "Cpfp"}

\* Mutant: the first output with derivation paths is taken for the CPFP output.
CpfpOutputsInternal(tx) == {k \in DOMAIN tx.outs : Internal(tx.outs[k])}

\* Where the CPFP descriptor, derived at the index of the output, gives its script.
CpfpOutputs(tx) ==
  {k \in DOMAIN tx.outs :
     Internal(tx.outs[k]) /\ tx.outs[k] = Script("Cpfp", tx.outs[k].index)}

\* cpfp_txin(): the first of them, None is the empty set.
CpfpTxins(tx) ==
  {CpfpTxIn(OutPoint(tx, k - 1)) :
     k \in {j \in CpfpOutputs(tx) : \A l \in CpfpOutputs(tx) : j <= l}}

(***************************************************************************)
(* What transaction_chain() and the bumping wallets make of a vault: a        *)
(* deposit outpoint, its derivation index and a lock time.                    *)
(***************************************************************************)
Psbt(type, tx) == [type |-> type, tx |-> tx]

UnvaultOf(v) == UnvaultTx(DepositTxIn(v.deposit), v.index, v.lock)

UnvaultTxin(v) == RevaultUnvaultTxin(UnvaultOf(v), v.index)

Revocations(v, feebump) ==
  {Psbt("Cancel", CancelTx(UnvaultTxin(v), feebump, v.index, v.lock)),
   Psbt("Emergency", EmergencyTx(DepositTxIn(v.deposit), feebump, v.lock)),
   Psbt("UnvaultEmergency", UnvaultEmergencyTx(UnvaultTxin(v), feebump, v.lock))}

TransactionChain(v) == {Psbt("Unvault", UnvaultOf(v))} \cup Revocations(v, <<>>)

MaxIndex(vs) ==
  CHOOSE n \in {vs[i].index : i \in DOMAIN vs} : \A i \in DOMAIN vs : vs[i].index <= n

\* spend_tx_from_deposits(): the Unvault of each deposit is built again, with
\* the lock time of the Spend.
SpendOf(vs, change, lock) ==
  SpendTx([i \in DOMAIN vs |->
             SpendUnvaultTxin(UnvaultTx(DepositTxIn(vs[i].deposit), vs[i].index, lock), vs[i].index)],
          change, MaxIndex(vs), lock)
-----------------------------------------------------------------------------
(***************************************************************************)
(* Signatures and the rules of the chain.                                    *)
(***************************************************************************)
RevocationTypes == {"Cancel", "Emergency", "UnvaultEmergency"}

\* Mutant: revocation transactions are to be signed without their outputs.
ExpectedTypeNone(p) ==
  IF p.type \in RevocationTypes THEN "NonePlusAnyoneCanPay" ELSE "All"

ExpectedType(p) ==
  IF p.type \in RevocationTypes THEN "AllPlusAnyoneCanPay" ELSE "All"

\* What a signature with each sighash type commits to.
Digest(tx, i, type) ==
  CASE type = "All" -> [type |-> type, commits |-> <<tx, i>>]
    [] type = "AllPlusAnyoneCanPay" ->
         [type |-> type, commits |-> <<tx.ins[i], tx.outs, tx.lock>>]
    [] type = "NonePlusAnyoneCanPay" ->
         [type |-> type, commits |-> <<tx.ins[i], tx.lock>>]

Signature(by, p, i) == [by |-> by, psbt |-> p, input |-> i]

\* A group's signatures, made for some transaction, serve for input i of tx.
Authorized(by, tx, i) ==
  \E s \in signed :
    /\ s.by = by
    /\ Digest(s.psbt.tx, s.input, ExpectedType(s.psbt)) = Digest(tx, i, ExpectedType(s.psbt))

Age(op) == height - utxo[op]

\* BIP 68: a sequence without the disable bit is a relative lock of the input.
SequenceLock(txin) ==
  txin.sequence = CSV_SEQUENCE => Age(txin.previous_output) >= Csv

\* The scripts.  The managers' branch of an Unvault output has an OP_CSV, which
\* fails on a sequence with the disable bit.  The external wallet signs the
\* fee-bumping inputs that it is asked to sign.
Satisfied(tx, i) ==
  LET spk == Txo(tx.ins[i].previous_output) IN
  \/ spk.kind \in {"Deposit", "Unvault"} /\ Authorized("stakeholders", tx, i)
  \/ /\ spk.kind = "Unvault"
     /\ Authorized("managers", tx, i)
     /\ tx.ins[i].sequence = CSV_SEQUENCE
  \/ spk.kind = "FeeBump"

Confirmable(tx) ==
  /\ tx.lock <= height
  /\ \A i \in DOMAIN tx.ins :
       /\ tx.ins[i].previous_output \in DOMAIN utxo
       /\ SequenceLock(tx.ins[i])
       /\ Satisfied(tx, i)

SpentBy(tx) == {tx.ins[i].previous_output : i \in DOMAIN tx.ins}

\* The output that carries the coins: the second of a Spend, else the first.
Carrier(p) == OutPoint(p.tx, IF p.type = "Spend" THEN 1 ELSE 0)
-----------------------------------------------------------------------------
Funded == {OutPoint(Funding(c), 0) : c \in Coins} \cup {OutPoint(Wallet(b), 0) : b \in FeeBumps}

Init ==
  /\ built = {}
  /\ signed = {}
  /\ utxo = [op \in Funded |-> 0]
  /\ height = 0
  /\ coin = [c \in Coins |-> OutPoint(Funding(c), 0)]

\* The vaults whose chain was built, read back from the Unvaults.
Vaults ==
  {[deposit |-> p.tx.ins[1].previous_output, index |-> p.tx.outs[1].index, lock |-> p.tx.lock] :
     p \in {q \in built : q.type = "Unvault"}}

\* The deposits that a wallet knows: funded, or an output of a Cancel, which may
\* not be confirmed, nor ever be.
Deposits ==
  {OutPoint(Funding(c), 0) : c \in Coins}
  \cup {CancelDeposit(p.tx).previous_output : p \in {q \in built : q.type = "Cancel"}}

BuildChain(op, lock) ==
  LET v == [deposit |-> op, index |-> Txo(op).index, lock |-> lock] IN
  /\ Cardinality({p \in built : p.type = "Unvault"}) < MaxVaults
  /\ built' = built \cup TransactionChain(v)
  /\ UNCHANGED <<signed, utxo, height, coin>>

\* The presigned revocation transactions of a vault are built anew, with a
\* fee-bumping input.
Bump(v, b) ==
  /\ \A p \in Revocations(v, <<>>) : Signature("stakeholders", p, 1) \in signed
  /\ Cardinality({p \in built : p.type = "Cancel" /\ Len(p.tx.ins) = 2}) < MaxBumps
  /\ built' = built \cup Revocations(v, <<OutPoint(Wallet(b), 0)>>)
  /\ UNCHANGED <<signed, utxo, height, coin>>

\* Lists of deposits that a Spend is asked for.
Batches == LET V == Vaults IN {<<v>> : v \in V} \cup {<<v, w>> : v, w \in V}

\* spend_tx_from_deposits() for some of the vaults; it refuses to spend the same
\* Unvault output twice.
BuildSpend ==
  /\ Cardinality({p \in built : p.type = "Spend"}) < MaxSpends
  /\ \E vs \in Batches, lock \in LockTimes :
       /\ \A i, j \in DOMAIN vs : vs[i].deposit = vs[j].deposit => i = j
       /\ built' = built \cup
            {Psbt("Spend", SpendOf(vs, <<Script("Deposit", vs[1].index + 1)>>, lock))}
  /\ UNCHANGED <<signed, utxo, height, coin>>

\* The stakeholders sign, on their first input, the transactions of a vault that
\* transaction_chain() returned: those that revoke, and the Unvault, in any order.
Presign(ps) ==
  /\ signed' = signed \cup {Signature("stakeholders", p, 1) : p \in ps}
  /\ UNCHANGED <<built, utxo, height, coin>>

\* The managers sign the inputs of a Spend.
SignSpend(p) ==
  /\ p.type = "Spend"
  /\ signed' = signed \cup {Signature("managers", p, i) : i \in DOMAIN p.tx.ins}
  /\ UNCHANGED <<built, utxo, height, coin>>

Confirm(p) ==
  /\ Confirmable(p.tx)
  /\ utxo' = [op \in (DOMAIN utxo \ SpentBy(p.tx)) \cup Outpoints(p.tx) |->
                IF op \in Outpoints(p.tx) THEN height ELSE utxo[op]]
  /\ coin' = [c \in Coins |-> IF coin[c] \in SpentBy(p.tx) THEN Carrier(p) ELSE coin[c]]
  /\ UNCHANGED <<built, signed, height>>

Mine ==
  /\ height < MaxHeight
  /\ height' = height + 1
  /\ UNCHANGED <<built, signed, utxo, coin>>

Next ==
  \/ \E op \in Deposits, lock \in LockTimes : BuildChain(op, lock)
  \/ BuildSpend
  \/ \E v \in Vaults :
       \/ Presign(Revocations(v, <<>>))
       \/ Presign({Psbt("Unvault", UnvaultOf(v))})
       \/ \E b \in FeeBumps : Bump(v, b)
  \/ \E p \in built : SignSpend(p) \/ Confirm(p)
  \/ Mine

Spec == Init /\ [][Next]_vars
-----------------------------------------------------------------------------
(***************************************************************************)
(* Properties.                                                               *)
(***************************************************************************)
Types == {"Unvault", "Cancel", "Emergency", "UnvaultEmergency", "Spend"}

\* Coins are in unspent outputs, each its own; what was signed was built.
TypeOK ==
  /\ \A p \in built : p.type \in Types
  /\ \A s \in signed : s.psbt \in built /\ s.by \in {"stakeholders", "managers"}
  /\ height \in 0..MaxHeight
  /\ \A op \in DOMAIN utxo : utxo[op] \in 0..height
  /\ \A c \in Coins : coin[c] \in DOMAIN utxo
  /\ \A c, d \in Coins : coin[c] = coin[d] => c = d \/ Txo(coin[c]) = ExternalScript

\* The coins only move as the wallet promises, whatever is signed and in which
\* order transactions are confirmed: in particular unvaulted coins rest for Csv
\* blocks before they are spent.
Place == [c \in Coins |-> Txo(coin[c]).kind]
Rest == [c \in Coins |-> IF Age(coin[c]) < Csv THEN Age(coin[c]) ELSE Csv]
Promise == INSTANCE VaultPromise WITH place <- Place, rest <- Rest
KeepsPromise == Promise!Spec

\* Coins leave an output only in a transaction that its owners saw: in a Spend
\* the managers signed, or in one with the outputs, the vault input and the lock
\* time of one the stakeholders signed.  A signature for one revocation
\* transaction, which leaves room for a fee-bumping input, serves for no other.
Seen(p) ==
  \/ p.type = "Spend" /\ Signature("managers", p, 1) \in signed
  \/ \E s \in signed :
       /\ s.by = "stakeholders" /\ s.psbt.type = p.type
       /\ s.psbt.tx.ins[1] = p.tx.ins[1]
       /\ s.psbt.tx.outs = p.tx.outs /\ s.psbt.tx.lock = p.tx.lock

ExitsSeen ==
  [][\A c \in Coins : coin'[c] # coin[c] =>
       \E p \in built : coin'[c] = Carrier(p) /\ Seen(p)]_vars

\* A revocation transaction whose signatures were given for the transaction
\* without fee-bumping can be confirmed as soon as the output it spends is there:
\* it waits for no delay, so that a Spend is never ahead of it, and it can be
\* confirmed with a fee-bumping input as well.
EscapesOpen ==
  \A p \in built :
    /\ p.type \in RevocationTypes
    /\ p.tx.lock <= height
    /\ SpentBy(p.tx) \subseteq DOMAIN utxo
    /\ Seen(p)
    => Confirmable(p.tx)

\* A Spend signed by the managers can be confirmed once the outputs it spends
\* have rested for Csv blocks.
SpendOpens ==
  \A p \in built :
    /\ p.type = "Spend"
    /\ Signature("managers", p, 1) \in signed
    /\ \A i \in DOMAIN p.tx.ins :
         LET op == p.tx.ins[i].previous_output IN op \in DOMAIN utxo /\ Age(op) >= Csv
    /\ p.tx.lock <= height
    => Confirmable(p.tx)

\* spend_tx_from_deposits() is given deposits and no Unvault.  It refers to the
\* Unvault built for a deposit exactly if it is given the same lock time.
SpendFindsUnvault ==
  \A p \in {q \in built : q.type = "Spend"}, v \in Vaults :
    (\E i \in DOMAIN p.tx.ins :
       p.tx.ins[i].previous_output.txid.ins[1].previous_output = v.deposit)
    => (UnvaultTxin(v).previous_output \in SpentBy(p.tx) <=> p.tx.lock = v.lock)

\* cpfp_txin() of an Unvault or of a Spend, whatever the indexes of what it
\* spends and of its change, is the CPFP output of this transaction.
CpfpFound ==
  \A p \in {q \in built : q.type \in {"Unvault", "Spend"}} :
    \E txin \in CpfpTxins(p.tx) :
      /\ CpfpTxins(p.tx) = {txin}
      /\ txin.previous_output \in Outpoints(p.tx)
      /\ Txo(txin.previous_output).kind = "Cpfp"

\* Wherever coins came back to a deposit, by whichever of the Cancels, with a
\* fee-bumping input or without, the wallet finds them and can vault them again.
RevaultFindsDeposit ==
  \A c \in Coins : Txo(coin[c]).kind = "Deposit" => coin[c] \in Deposits
=============================================================================
