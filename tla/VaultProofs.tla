----------------------------- MODULE VaultProofs -----------------------------
(***************************************************************************)
(* The safety of Vault and its refinement of VaultPromise, for any deposits,  *)
(* indexes, lock times, delay and bounds.  Nothing here rests on txids being  *)
(* well-founded: that the outputs of a transaction are new when it is         *)
(* confirmed follows from what the chain has recorded as spent (Ledger).      *)
(***************************************************************************)
EXTENDS Vault, TLAPS

(***************************************************************************)
(* The shape of what is built.                                               *)
(***************************************************************************)
IsDeposit(op) == Txo(op).kind = "Deposit"

\* An Unvault of the deposit it spends, at the index of that deposit.
IsUnvault(tx) ==
  LET op == tx.ins[1].previous_output IN
  IsDeposit(op) /\ tx = UnvaultTx(DepositTxIn(op), Txo(op).index, tx.lock)

SpendsDeposit(txin) ==
  IsDeposit(txin.previous_output) /\ txin = DepositTxIn(txin.previous_output)

SpendsUnvault(txin, sequence) ==
  LET u == txin.previous_output.txid IN
  IsUnvault(u) /\ txin = UnvaultTxIn(OutPoint(u, 0), sequence)

\* A transaction with one output whose inputs after the first bump its fees.
Revokes(tx, out) ==
  /\ tx = Tx(tx.ins, <<out>>, tx.lock)
  /\ 1 \in DOMAIN tx.ins
  /\ \A i \in DOMAIN tx.ins \ {1} :
       \E b \in FeeBumps : tx.ins[i] = FeeBumpTxIn(OutPoint(Wallet(b), 0))

IsCancel(tx) ==
  /\ SpendsUnvault(tx.ins[1], RBF_SEQUENCE)
  /\ \E index : Revokes(tx, Script("Deposit", index))

IsEmergency(tx) == SpendsDeposit(tx.ins[1]) /\ Revokes(tx, EmergencyScript)

IsUnvaultEmergency(tx) ==
  SpendsUnvault(tx.ins[1], RBF_SEQUENCE) /\ Revokes(tx, EmergencyScript)

IsSpend(tx) ==
  /\ tx = Tx(tx.ins, tx.outs, tx.lock) /\ DOMAIN tx.outs = 1..3
  /\ \E m, n : tx.outs[1] = Script("Cpfp", m) /\ tx.outs[3] = Script("Deposit", n)
  /\ tx.outs[2] = ExternalScript
  /\ 1 \in DOMAIN tx.ins
  /\ \A i \in DOMAIN tx.ins :
       /\ SpendsUnvault(tx.ins[i], CSV_SEQUENCE)
       /\ tx.ins[i].previous_output.txid.lock = tx.lock

Shape(p) ==
  /\ p = Psbt(p.type, p.tx)
  /\ \/ p.type = "Unvault" /\ IsUnvault(p.tx)
     \/ p.type = "Cancel" /\ IsCancel(p.tx)
     \/ p.type = "Emergency" /\ IsEmergency(p.tx)
     \/ p.type = "UnvaultEmergency" /\ IsUnvaultEmergency(p.tx)
     \/ p.type = "Spend" /\ IsSpend(p.tx)

(***************************************************************************)
(* The inductive invariant.                                                  *)
(***************************************************************************)
ShapeInv == \A p \in built : Shape(p)

\* transaction_chain() returns all of a chain.
ChainInv == \A v \in Vaults : TransactionChain(v) \subseteq built

SignedInv ==
  \A s \in signed :
    /\ s = Signature(s.by, s.psbt, s.input)
    /\ s.psbt \in built
    /\ \/ s.by = "stakeholders" /\ s.psbt.type # "Spend" /\ s.input = 1
       \/ /\ s.by = "managers" /\ s.psbt.type = "Spend"
          /\ \A i \in DOMAIN s.psbt.tx.ins : Signature("managers", s.psbt, i) \in signed

\* There is a set of confirmed transactions whose outputs, with the funded ones,
\* are all that was ever spent or can be.
OutputsOf(C) == UNION {Outpoints(tx) : tx \in C}
SpentOf(C) == UNION {SpentBy(tx) : tx \in C}

Ledger(C) ==
  /\ DOMAIN utxo \subseteq Funded \cup OutputsOf(C)
  /\ SpentOf(C) \subseteq Funded \cup OutputsOf(C)
  /\ SpentOf(C) \cap DOMAIN utxo = {}

HeightInv ==
  /\ height \in 0..MaxHeight
  /\ \A op \in DOMAIN utxo : utxo[op] \in 0..height

\* Coins are in their funding output or in the carrier of a transaction.
Origin(op) ==
  \/ op \in {OutPoint(Funding(c), 0) : c \in Coins}
  \/ op \in {Carrier(p) : p \in built}

CoinInv ==
  /\ \A c \in Coins : coin[c] \in DOMAIN utxo /\ Origin(coin[c])
  /\ \A c, d \in Coins : coin[c] = coin[d] => c = d \/ Txo(coin[c]) = ExternalScript

IInv ==
  /\ ShapeInv /\ ChainInv /\ SignedInv
  /\ (\E C : Ledger(C)) /\ HeightInv /\ CoinInv
-----------------------------------------------------------------------------
(***************************************************************************)
(* What the constructors make has the right shape.                           *)
(***************************************************************************)
LEMMA UnvaultPosition ==
  ASSUME NEW txin, NEW index, NEW lock
  PROVE  Position(UnvaultTx(txin, index, lock), Script("Unvault", index)) = 1
<1>1. Script("Unvault", index) # Script("Cpfp", index)
  BY DEF Script
<1> DEFINE outs == <<Script("Unvault", index), Script("Cpfp", index)>>
<1>2. outs[1] = Script("Unvault", index) /\ outs[2] # Script("Unvault", index) /\ DOMAIN outs = 1..2
  BY <1>1
<1>3. UnvaultTx(txin, index, lock).outs = outs
  BY DEF UnvaultTx, Tx
<1> HIDE DEF outs
<1> QED
  BY <1>2, <1>3 DEF Position

\* The references to an Unvault are to its first output.
LEMMA UnvaultReference ==
  ASSUME NEW op, NEW lock, NEW sequence, IsDeposit(op)
  PROVE  LET u == UnvaultTx(DepositTxIn(op), Txo(op).index, lock)
             txin == UnvaultTxinOf(u, Txo(op).index, sequence)
         IN  /\ IsUnvault(u) /\ u.lock = lock
             /\ SpendsUnvault(txin, sequence) /\ txin.previous_output = OutPoint(u, 0)
<1> DEFINE u == UnvaultTx(DepositTxIn(op), Txo(op).index, lock)
<1>1. u.ins[1].previous_output = op /\ u.lock = lock
  BY DEF UnvaultTx, Tx, DepositTxIn
<1>2. IsUnvault(u)
  BY <1>1 DEF IsUnvault
<1>3. UnvaultTxinOf(u, Txo(op).index, sequence) = UnvaultTxIn(OutPoint(u, 0), sequence)
  BY UnvaultPosition DEF UnvaultTxinOf
<1>4. UnvaultTxIn(OutPoint(u, 0), sequence).previous_output = OutPoint(u, 0)
      /\ OutPoint(u, 0).txid = u
  BY DEF UnvaultTxIn, OutPoint
<1> QED
  BY <1>1, <1>2, <1>3, <1>4 DEF SpendsUnvault

FeeBumpSeqs == {<<>>} \cup {<<OutPoint(Wallet(b), 0)>> : b \in FeeBumps}

LEMMA BumpedShape ==
  ASSUME NEW txin, NEW feebump \in FeeBumpSeqs, NEW out, NEW lock
  PROVE  LET tx == Tx(<<txin>> \o FeeBumpTxIns(feebump), <<out>>, lock) IN
         Revokes(tx, out) /\ tx.ins[1] = txin
<1> DEFINE ins == <<txin>> \o FeeBumpTxIns(feebump)
           tx == Tx(ins, <<out>>, lock)
<1>1. /\ ins[1] = txin /\ 1 \in DOMAIN ins
      /\ \A i \in DOMAIN ins \ {1} :
           \E b \in FeeBumps : ins[i] = FeeBumpTxIn(OutPoint(Wallet(b), 0))
  <2>1. CASE feebump = <<>>
    <3>1. FeeBumpTxIns(feebump) = <<>>
      BY <2>1 DEF FeeBumpTxIns
    <3> QED
      BY <3>1
  <2>2. CASE \E b \in FeeBumps : feebump = <<OutPoint(Wallet(b), 0)>>
    <3>1. PICK b \in FeeBumps : feebump = <<OutPoint(Wallet(b), 0)>>
      BY <2>2
    <3> DEFINE bump == FeeBumpTxIn(OutPoint(Wallet(b), 0))
    <3>2. FeeBumpTxIns(feebump) = <<bump>>
      BY <3>1 DEF FeeBumpTxIns
    <3> HIDE DEF bump
    <3>3. ins[1] = txin /\ ins[2] = bump /\ DOMAIN ins = 1..2
      BY <3>2
    <3> QED
      BY <3>3 DEF bump
  <2> QED
    BY <2>1, <2>2 DEF FeeBumpSeqs
<1>2. tx.ins = ins /\ tx = Tx(tx.ins, <<out>>, tx.lock)
  BY DEF Tx
<1> QED
  BY <1>1, <1>2 DEF Revokes

\* What is built on a deposit, or on the Unvault of one.
LEMMA RevocationShapes ==
  ASSUME NEW v, IsDeposit(v.deposit), v.index = Txo(v.deposit).index,
         NEW feebump \in FeeBumpSeqs, NEW p \in Revocations(v, feebump)
  PROVE  Shape(p) /\ p.type \in RevocationTypes
<1>1. SpendsUnvault(UnvaultTxin(v), RBF_SEQUENCE)
  BY UnvaultReference DEF UnvaultTxin, RevaultUnvaultTxin, UnvaultOf
<1>2. SpendsDeposit(DepositTxIn(v.deposit))
  BY DEF SpendsDeposit, DepositTxIn
<1>3. CASE p = Psbt("Cancel", CancelTx(UnvaultTxin(v), feebump, v.index, v.lock))
  <2>1. p.type = "Cancel" /\ p.tx = CancelTx(UnvaultTxin(v), feebump, v.index, v.lock)
    BY <1>3 DEF Psbt
  <2>2. Revokes(p.tx, Script("Deposit", v.index)) /\ p.tx.ins[1] = UnvaultTxin(v)
    BY <2>1, BumpedShape DEF CancelTx
  <2> QED
    BY <1>1, <1>3, <2>1, <2>2 DEF Shape, IsCancel, RevocationTypes
<1>4. CASE p = Psbt("Emergency", EmergencyTx(DepositTxIn(v.deposit), feebump, v.lock))
  <2>1. p.type = "Emergency" /\ p.tx = EmergencyTx(DepositTxIn(v.deposit), feebump, v.lock)
    BY <1>4 DEF Psbt
  <2>2. Revokes(p.tx, EmergencyScript) /\ p.tx.ins[1] = DepositTxIn(v.deposit)
    BY <2>1, BumpedShape DEF EmergencyTx
  <2> QED
    BY <1>2, <1>4, <2>1, <2>2 DEF Shape, IsEmergency, RevocationTypes
<1>5. CASE p = Psbt("UnvaultEmergency", UnvaultEmergencyTx(UnvaultTxin(v), feebump, v.lock))
  <2>1. p.type = "UnvaultEmergency" /\ p.tx = UnvaultEmergencyTx(UnvaultTxin(v), feebump, v.lock)
    BY <1>5 DEF Psbt
  <2>2. Revokes(p.tx, EmergencyScript) /\ p.tx.ins[1] = UnvaultTxin(v)
    BY <2>1, BumpedShape DEF UnvaultEmergencyTx
  <2> QED
    BY <1>1, <1>5, <2>1, <2>2 DEF Shape, IsUnvaultEmergency, RevocationTypes
<1> QED
  BY <1>3, <1>4, <1>5 DEF Revocations

LEMMA UnvaultShape ==
  ASSUME NEW v, IsDeposit(v.deposit), v.index = Txo(v.deposit).index
  PROVE  Shape(Psbt("Unvault", UnvaultOf(v)))
<1>1. IsUnvault(UnvaultOf(v))
  BY UnvaultReference DEF UnvaultOf
<1> QED
  BY <1>1 DEF Shape, Psbt

\* The vaults are those of the deposits whose Unvault was built.
LEMMA VaultOfUnvault ==
  ASSUME ShapeInv, NEW v \in Vaults
  PROVE  /\ IsDeposit(v.deposit) /\ v.index = Txo(v.deposit).index
         /\ Psbt("Unvault", UnvaultOf(v)) \in built
<1>1. PICK p \in built :
        /\ p.type = "Unvault"
        /\ v = [deposit |-> p.tx.ins[1].previous_output, index |-> p.tx.outs[1].index,
                lock |-> p.tx.lock]
  BY DEF Vaults
<1>2. p = Psbt("Unvault", p.tx) /\ IsUnvault(p.tx)
  BY <1>1 DEF ShapeInv, Shape
<1>3. p.tx.outs[1].index = Txo(v.deposit).index
  <2>1. p.tx.outs[1] = Script("Unvault", Txo(v.deposit).index)
    BY <1>1, <1>2 DEF IsUnvault, UnvaultTx, Tx
  <2> QED
    BY <2>1 DEF Script
<1>4. UnvaultOf(v) = p.tx
  BY <1>1, <1>2, <1>3 DEF UnvaultOf, IsUnvault
<1> QED
  BY <1>1, <1>2, <1>3, <1>4 DEF IsUnvault

LEMMA VaultBuilt ==
  ASSUME NEW op, NEW lock, IsDeposit(op)
  PROVE  LET v == [deposit |-> op, index |-> Txo(op).index, lock |-> lock]
             tx == UnvaultOf(v)
         IN v = [deposit |-> tx.ins[1].previous_output, index |-> tx.outs[1].index,
                 lock |-> tx.lock]
BY DEF UnvaultOf, UnvaultTx, Tx, DepositTxIn, Script

\* spend_tx_from_deposits(): each Unvault is built again with the Spend's lock time.
LEMMA SpendShape ==
  ASSUME ShapeInv, NEW vs \in Batches, NEW n, NEW lock
  PROVE  Shape(Psbt("Spend", SpendOf(vs, <<Script("Deposit", n)>>, lock)))
<1> DEFINE ins == [i \in DOMAIN vs |->
             SpendUnvaultTxin(UnvaultTx(DepositTxIn(vs[i].deposit), vs[i].index, lock), vs[i].index)]
           outs == <<Script("Cpfp", MaxIndex(vs)), ExternalScript>> \o <<Script("Deposit", n)>>
           tx == Tx(ins, outs, lock)
<1>1. 1 \in DOMAIN vs /\ \A i \in DOMAIN vs : vs[i] \in Vaults
  BY DEF Batches
<1>2. SpendOf(vs, <<Script("Deposit", n)>>, lock) = tx
  BY DEF SpendOf, SpendTx
<1>3. \A i \in DOMAIN ins :
        SpendsUnvault(ins[i], CSV_SEQUENCE) /\ ins[i].previous_output.txid.lock = lock
  <2> SUFFICES ASSUME NEW i \in DOMAIN vs
               PROVE  /\ SpendsUnvault(ins[i], CSV_SEQUENCE)
                      /\ ins[i].previous_output.txid.lock = lock
    OBVIOUS
  <2>1. IsDeposit(vs[i].deposit) /\ vs[i].index = Txo(vs[i].deposit).index
    BY <1>1, VaultOfUnvault
  <2>2. ins[i] = UnvaultTxinOf(UnvaultTx(DepositTxIn(vs[i].deposit), Txo(vs[i].deposit).index, lock),
                               Txo(vs[i].deposit).index, CSV_SEQUENCE)
    BY <2>1 DEF SpendUnvaultTxin
  <2> DEFINE u == UnvaultTx(DepositTxIn(vs[i].deposit), Txo(vs[i].deposit).index, lock)
  <2>3. u.lock = lock /\ SpendsUnvault(ins[i], CSV_SEQUENCE) /\ ins[i].previous_output = OutPoint(u, 0)
    BY <2>1, <2>2, UnvaultReference
  <2> QED
    BY <2>3 DEF OutPoint
<1>4. tx.ins = ins /\ tx.outs = outs /\ tx.lock = lock
  BY DEF Tx
<1>5. 1 \in DOMAIN ins
  BY <1>1
<1>6. /\ outs[1] = Script("Cpfp", MaxIndex(vs)) /\ outs[2] = ExternalScript
      /\ outs[3] = Script("Deposit", n) /\ DOMAIN outs = 1..3
  OBVIOUS
<1> HIDE DEF ins, outs
<1>7. IsSpend(tx)
  BY <1>3, <1>4, <1>5, <1>6 DEF IsSpend
<1> QED
  BY <1>2, <1>7 DEF Shape, Psbt
-----------------------------------------------------------------------------
(***************************************************************************)
(* What a transaction of a shape spends and creates.                         *)
(***************************************************************************)
LEMMA HasInput ==
  ASSUME NEW p, Shape(p)
  PROVE  1 \in DOMAIN p.tx.ins
<1>1. CASE p.type = "Unvault"
  <2>1. PICK txin, index : p.tx = UnvaultTx(txin, index, p.tx.lock)
    BY <1>1 DEF Shape, IsUnvault
  <2>2. p.tx.ins = <<txin>>
    BY <2>1 DEF UnvaultTx, Tx
  <2> QED
    BY <2>2
<1>2. CASE p.type # "Unvault"
  BY <1>2 DEF Shape, IsCancel, IsEmergency, IsUnvaultEmergency, IsSpend, Revokes
<1> QED
  BY <1>1, <1>2

KindOf(op) == Txo(op).kind

Spends(type) == IF type \in {"Unvault", "Emergency"} THEN "Deposit" ELSE "Unvault"

Creates(type) ==
  CASE type = "Unvault" -> "Unvault"
    [] type = "Cancel" -> "Deposit"
    [] type \in {"Emergency", "UnvaultEmergency"} -> "Emergency"
    [] type = "Spend" -> "External"

\* The Unvault output is the first of an Unvault.
LEMMA UnvaultKind ==
  ASSUME NEW u, IsUnvault(u)
  PROVE  KindOf(OutPoint(u, 0)) = "Unvault"
<1>1. PICK txin, index : u = UnvaultTx(txin, index, u.lock)
  BY DEF IsUnvault
<1>2. u.outs[1] = Script("Unvault", index)
  BY <1>1 DEF UnvaultTx, Tx
<1>3. OutPoint(u, 0).txid = u /\ OutPoint(u, 0).vout + 1 = 1
  BY DEF OutPoint
<1>4. Txo(OutPoint(u, 0)) = u.outs[1]
  BY <1>3 DEF Txo
<1> QED
  BY <1>2, <1>4 DEF KindOf, Script

LEMMA SpendsUnvaultKind ==
  ASSUME NEW txin, NEW sequence, SpendsUnvault(txin, sequence)
  PROVE  KindOf(txin.previous_output) = "Unvault" /\ txin.sequence = sequence
<1> DEFINE u == txin.previous_output.txid
<1>1. IsUnvault(u) /\ txin = UnvaultTxIn(OutPoint(u, 0), sequence)
  BY DEF SpendsUnvault
<1>2. txin.previous_output = OutPoint(u, 0) /\ txin.sequence = sequence
  BY <1>1 DEF UnvaultTxIn
<1> QED
  BY <1>1, <1>2, UnvaultKind

LEMMA FeeBumpKind ==
  ASSUME NEW b, NEW txin, txin = FeeBumpTxIn(OutPoint(Wallet(b), 0))
  PROVE  KindOf(txin.previous_output) = "FeeBump" /\ txin.sequence = RBF_SEQUENCE
<1>1. txin.previous_output = OutPoint(Wallet(b), 0) /\ txin.sequence = RBF_SEQUENCE
  BY DEF FeeBumpTxIn
<1>2. Txo(OutPoint(Wallet(b), 0)) = FeeBumpScript
  BY DEF Txo, OutPoint, Wallet
<1> QED
  BY <1>1, <1>2 DEF KindOf, FeeBumpScript, Script

\* Each input of a transaction: the vault's output, or one that bumps its fees.
LEMMA InputKinds ==
  ASSUME NEW p, Shape(p), NEW i \in DOMAIN p.tx.ins
  PROVE  \/ /\ i = 1 \/ p.type = "Spend"
            /\ KindOf(p.tx.ins[i].previous_output) = Spends(p.type)
            /\ p.tx.ins[i].sequence = IF p.type = "Spend" THEN CSV_SEQUENCE ELSE RBF_SEQUENCE
         \/ /\ p.type \in RevocationTypes /\ i # 1
            /\ KindOf(p.tx.ins[i].previous_output) = "FeeBump"
            /\ p.tx.ins[i].sequence = RBF_SEQUENCE
<1>1. CASE p.type = "Unvault"
  <2> DEFINE op == p.tx.ins[1].previous_output
  <2>1. IsDeposit(op) /\ p.tx = UnvaultTx(DepositTxIn(op), Txo(op).index, p.tx.lock)
    BY <1>1 DEF Shape, IsUnvault
  <2>2. p.tx.ins = <<DepositTxIn(op)>>
    BY <2>1 DEF UnvaultTx, Tx
  <2>3. i = 1 /\ p.tx.ins[1] = DepositTxIn(op)
    BY <2>2
  <2>4. p.tx.ins[1].sequence = RBF_SEQUENCE
    BY <2>3 DEF DepositTxIn
  <2> QED
    BY <1>1, <2>1, <2>3, <2>4 DEF Spends, KindOf, IsDeposit
<1>2. CASE p.type = "Spend"
  <2>1. SpendsUnvault(p.tx.ins[i], CSV_SEQUENCE)
    BY <1>2 DEF Shape, IsSpend
  <2> QED
    BY <1>2, <2>1, SpendsUnvaultKind DEF Spends
<1>3. CASE p.type \in RevocationTypes /\ i # 1
  <2>1. PICK b \in FeeBumps : p.tx.ins[i] = FeeBumpTxIn(OutPoint(Wallet(b), 0))
    BY <1>3 DEF RevocationTypes, Shape, IsCancel, IsEmergency, IsUnvaultEmergency, Revokes
  <2> QED
    BY <1>3, <2>1, FeeBumpKind
<1>4. CASE p.type = "Emergency" /\ i = 1
  <2>1. SpendsDeposit(p.tx.ins[1])
    BY <1>4 DEF Shape, IsEmergency
  <2>2. p.tx.ins[1].sequence = RBF_SEQUENCE
    BY <2>1 DEF SpendsDeposit, DepositTxIn
  <2> QED
    BY <1>4, <2>1, <2>2 DEF SpendsDeposit, Spends, KindOf, IsDeposit
<1>5. CASE p.type \in {"Cancel", "UnvaultEmergency"} /\ i = 1
  <2>1. SpendsUnvault(p.tx.ins[1], RBF_SEQUENCE)
    BY <1>5 DEF Shape, IsCancel, IsUnvaultEmergency
  <2> QED
    BY <1>5, <2>1, SpendsUnvaultKind DEF Spends
<1> QED
  BY <1>1, <1>2, <1>3, <1>4, <1>5 DEF Shape, RevocationTypes

LEMMA CarrierShape ==
  ASSUME NEW p, Shape(p)
  PROVE  /\ Carrier(p) \in Outpoints(p.tx)
         /\ KindOf(Carrier(p)) = Creates(p.type)
         /\ p.type = "Spend" => Txo(Carrier(p)) = ExternalScript
<1>1. CASE p.type = "Spend"
  <2>1. 2 \in DOMAIN p.tx.outs /\ p.tx.outs[2] = ExternalScript
    BY <1>1 DEF Shape, IsSpend
  <2>2. Carrier(p) = OutPoint(p.tx, 1) /\ OutPoint(p.tx, 2 - 1) = OutPoint(p.tx, 1)
    BY <1>1 DEF Carrier
  <2>3. Txo(Carrier(p)) = ExternalScript
    BY <2>1, <2>2 DEF Txo, OutPoint
  <2>4. Carrier(p) \in Outpoints(p.tx)
    BY <2>1, <2>2 DEF Outpoints
  <2> QED
    BY <1>1, <2>3, <2>4 DEF KindOf, ExternalScript, Script, Creates
<1>2. CASE p.type # "Spend"
  <2>1. Carrier(p) = OutPoint(p.tx, 0) /\ OutPoint(p.tx, 1 - 1) = OutPoint(p.tx, 0)
    BY <1>2 DEF Carrier
  <2>2. Txo(Carrier(p)) = p.tx.outs[1]
    BY <2>1 DEF Txo, OutPoint
  <2>3. 1 \in DOMAIN p.tx.outs /\ p.tx.outs[1].kind = Creates(p.type)
    <3>1. CASE p.type = "Unvault"
      <4>1. PICK txin, index : p.tx = UnvaultTx(txin, index, p.tx.lock)
        BY <3>1 DEF Shape, IsUnvault
      <4>2. p.tx.outs = <<Script("Unvault", index), Script("Cpfp", index)>>
        BY <4>1 DEF UnvaultTx, Tx
      <4> QED
        BY <3>1, <4>2 DEF Creates, Script
    <3>2. CASE p.type # "Unvault"
      <4>1. PICK out : Revokes(p.tx, out) /\ out.kind = Creates(p.type)
        <5>1. CASE p.type = "Cancel"
          <6>1. PICK index : Revokes(p.tx, Script("Deposit", index))
            BY <5>1 DEF Shape, IsCancel
          <6>2. Script("Deposit", index).kind = Creates(p.type)
            BY <5>1 DEF Script, Creates
          <6> QED
            BY <6>1, <6>2
        <5>2. CASE p.type \in {"Emergency", "UnvaultEmergency"}
          <6>1. Revokes(p.tx, EmergencyScript)
            BY <5>2 DEF Shape, IsEmergency, IsUnvaultEmergency
          <6>2. EmergencyScript.kind = Creates(p.type)
            BY <5>2 DEF EmergencyScript, Script, Creates
          <6> QED
            BY <6>1, <6>2
        <5> QED
          BY <1>2, <3>2, <5>1, <5>2 DEF Shape
      <4>2. p.tx.outs = <<out>>
        BY <4>1 DEF Revokes, Tx
      <4> QED
        BY <4>1, <4>2
    <3> QED
      BY <3>1, <3>2
  <2>4. Carrier(p) \in Outpoints(p.tx)
    BY <2>1, <2>3 DEF Outpoints
  <2> QED
    BY <1>2, <2>2, <2>3, <2>4 DEF KindOf
<1> QED
  BY <1>1, <1>2
-----------------------------------------------------------------------------
(***************************************************************************)
(* The steps.                                                                *)
(***************************************************************************)
LEMMA KnownDeposits ==
  ASSUME ShapeInv, NEW op \in Deposits
  PROVE  IsDeposit(op)
<1>1. CASE op \in {OutPoint(Funding(c), 0) : c \in Coins}
  <2>1. PICK c \in Coins : op = OutPoint(Funding(c), 0)
    BY <1>1
  <2>2. Txo(op) = Script("Deposit", Index[c])
    BY <2>1 DEF Txo, OutPoint, Funding
  <2> QED
    BY <2>2 DEF IsDeposit, Script
<1>2. CASE \E p \in built : p.type = "Cancel" /\ op = CancelDeposit(p.tx).previous_output
  <2>1. PICK p \in built : p.type = "Cancel" /\ op = CancelDeposit(p.tx).previous_output
    BY <1>2
  <2>2. op = Carrier(p)
    BY <2>1 DEF CancelDeposit, DepositTxIn, Carrier
  <2>3. KindOf(op) = "Deposit"
    BY <2>1, <2>2, CarrierShape DEF ShapeInv, Creates
  <2> QED
    BY <2>3 DEF KindOf, IsDeposit
<1> QED
  BY <1>1, <1>2 DEF Deposits

\* A constructor adds to what is built and disturbs nothing else.
LEMMA BuildKeeps ==
  ASSUME IInv, built \subseteq built', UNCHANGED <<signed, utxo, height, coin>>,
         \A p \in built' \ built : Shape(p), ChainInv'
  PROVE  IInv'
<1>1. ShapeInv'
  BY DEF IInv, ShapeInv
<1>2. SignedInv'
  BY DEF IInv, SignedInv
<1>3. PICK C : Ledger(C)
  BY DEF IInv
<1>4. Ledger(C)'
  BY <1>3 DEF Ledger, OutputsOf, SpentOf
<1>5. HeightInv'
  BY DEF IInv, HeightInv
<1>6. CoinInv'
  BY DEF IInv, CoinInv, Origin
<1> QED
  BY <1>1, <1>2, <1>4, <1>5, <1>6 DEF IInv

LEMMA BuildChainStep ==
  ASSUME IInv, NEW op \in Deposits, NEW lock \in LockTimes, BuildChain(op, lock)
  PROVE  IInv'
<1> DEFINE v == [deposit |-> op, index |-> Txo(op).index, lock |-> lock]
<1>1. built' = built \cup TransactionChain(v) /\ UNCHANGED <<signed, utxo, height, coin>>
  BY DEF BuildChain
<1>2. IsDeposit(v.deposit) /\ v.index = Txo(v.deposit).index
  BY KnownDeposits DEF IInv
<1> HIDE DEF v
<1>3. \A p \in TransactionChain(v) :
        Shape(p) /\ (p.type = "Unvault" => p = Psbt("Unvault", UnvaultOf(v)))
  BY <1>2, UnvaultShape, RevocationShapes DEF TransactionChain, FeeBumpSeqs, RevocationTypes
<1>4. Vaults' \subseteq Vaults \cup {v}
  <2> SUFFICES ASSUME NEW w \in Vaults', w \notin Vaults
               PROVE  w = v
    OBVIOUS
  <2>1. PICK p \in built' :
          /\ p.type = "Unvault"
          /\ w = [deposit |-> p.tx.ins[1].previous_output, index |-> p.tx.outs[1].index,
                  lock |-> p.tx.lock]
    BY DEF Vaults
  <2>2. p \notin built
    BY <2>1 DEF Vaults
  <2>3. p.tx = UnvaultOf(v)
    BY <1>1, <1>3, <2>1, <2>2 DEF Psbt
  <2> QED
    BY <1>2, <2>1, <2>3, VaultBuilt DEF v
<1>5. ChainInv'
  BY <1>1, <1>4 DEF IInv, ChainInv
<1> QED
  BY <1>1, <1>3, <1>5, BuildKeeps

\* Nothing but transaction_chain() makes an Unvault that stays.
LEMMA OtherBuilds ==
  ASSUME IInv, NEW new, built' = built \cup new, UNCHANGED <<signed, utxo, height, coin>>,
         \A p \in new : Shape(p) /\ p.type # "Unvault"
  PROVE  IInv'
<1>1. Vaults' = Vaults
  BY DEF Vaults
<1>2. ChainInv'
  BY <1>1 DEF IInv, ChainInv
<1> QED
  BY <1>2, BuildKeeps

LEMMA BumpStep ==
  ASSUME IInv, NEW v \in Vaults, NEW b \in FeeBumps, Bump(v, b)
  PROVE  IInv'
<1>1. IsDeposit(v.deposit) /\ v.index = Txo(v.deposit).index
  BY VaultOfUnvault DEF IInv
<1>2. \A p \in Revocations(v, <<OutPoint(Wallet(b), 0)>>) : Shape(p) /\ p.type # "Unvault"
  BY <1>1, RevocationShapes DEF FeeBumpSeqs, RevocationTypes
<1> QED
  BY <1>2, OtherBuilds DEF Bump

LEMMA BuildSpendStep ==
  ASSUME IInv, BuildSpend
  PROVE  IInv'
<1>1. PICK vs \in Batches, lock \in LockTimes :
        built' = built \cup {Psbt("Spend", SpendOf(vs, <<Script("Deposit", vs[1].index + 1)>>, lock))}
  BY DEF BuildSpend
<1> DEFINE p == Psbt("Spend", SpendOf(vs, <<Script("Deposit", vs[1].index + 1)>>, lock))
<1>2. Shape(p)
  BY SpendShape DEF IInv
<1>3. p.type # "Unvault"
  BY DEF Psbt
<1> HIDE DEF p
<1>4. built' = built \cup {p}
  BY <1>1 DEF p
<1>5. UNCHANGED <<signed, utxo, height, coin>>
  BY DEF BuildSpend
<1>6. PICK new : new = {p}
  OBVIOUS
<1>7. built' = built \cup new /\ \A q \in new : Shape(q) /\ q.type # "Unvault"
  BY <1>2, <1>3, <1>4, <1>6
<1> QED
  BY <1>5, <1>7, OtherBuilds

LEMMA SignKeeps ==
  ASSUME IInv, SignedInv', UNCHANGED <<built, utxo, height, coin>>
  PROVE  IInv'
<1>1. ShapeInv' /\ ChainInv'
  BY DEF IInv, ShapeInv, ChainInv, Vaults
<1>2. PICK C : Ledger(C)
  BY DEF IInv
<1>3. Ledger(C)'
  BY <1>2 DEF Ledger, OutputsOf, SpentOf
<1>4. HeightInv' /\ CoinInv'
  BY DEF IInv, HeightInv, CoinInv, Origin
<1> QED
  BY <1>1, <1>3, <1>4 DEF IInv

LEMMA PresignStep ==
  ASSUME IInv, NEW ps, ps \subseteq built, \A p \in ps : p.type # "Spend", Presign(ps)
  PROVE  IInv'
<1>1. signed' = signed \cup {Signature("stakeholders", p, 1) : p \in ps}
      /\ UNCHANGED <<built, utxo, height, coin>>
  BY DEF Presign
<1>2. \A p \in ps : LET s == Signature("stakeholders", p, 1) IN
        s.by = "stakeholders" /\ s.psbt = p /\ s.input = 1
  BY DEF Signature
<1>3. SignedInv'
  BY <1>1, <1>2 DEF IInv, SignedInv
<1> QED
  BY <1>1, <1>3, SignKeeps

LEMMA SignSpendStep ==
  ASSUME IInv, NEW p \in built, SignSpend(p)
  PROVE  IInv'
<1>1. /\ p.type = "Spend"
      /\ signed' = signed \cup {Signature("managers", p, i) : i \in DOMAIN p.tx.ins}
      /\ UNCHANGED <<built, utxo, height, coin>>
  BY DEF SignSpend
<1>2. \A i \in DOMAIN p.tx.ins : LET s == Signature("managers", p, i) IN
        s.by = "managers" /\ s.psbt = p /\ s.input = i
  BY DEF Signature
<1>3. SignedInv'
  BY <1>1, <1>2 DEF IInv, SignedInv
<1> QED
  BY <1>1, <1>3, SignKeeps

\* The outputs of a transaction that can be confirmed are new.
LEMMA Fresh ==
  ASSUME NEW p, Shape(p), NEW C, Ledger(C), SpentBy(p.tx) \subseteq DOMAIN utxo,
         NEW op \in Outpoints(p.tx)
  PROVE  op \notin Funded \cup OutputsOf(C)
<1>1. op.txid = p.tx
  BY DEF Outpoints, OutPoint
<1>2. 1 \in DOMAIN p.tx.ins
  BY HasInput
<1>3. op \notin Funded
  <2>1. \A funded \in Funded : funded.txid.ins = <<>>
    BY DEF Funded, OutPoint, Funding, Wallet
  <2>2. 1 \notin DOMAIN <<>>
    OBVIOUS
  <2> QED
    BY <1>1, <1>2, <2>1, <2>2
<1>4. ASSUME op \in OutputsOf(C)
      PROVE  FALSE
  <2>1. PICK tx \in C : op \in Outpoints(tx)
    BY <1>4 DEF OutputsOf
  <2>2. p.tx \in C
    BY <1>1, <2>1 DEF Outpoints, OutPoint
  <2>3. p.tx.ins[1].previous_output \in SpentOf(C)
    BY <1>2, <2>2 DEF SpentOf, SpentBy
  <2>4. p.tx.ins[1].previous_output \in DOMAIN utxo
    BY <1>2 DEF SpentBy
  <2> QED
    BY <2>3, <2>4 DEF Ledger
<1> QED
  BY <1>3, <1>4

LEMMA CoinKinds ==
  ASSUME ShapeInv, CoinInv, NEW c \in Coins
  PROVE  KindOf(coin[c]) \in {"Deposit", "Unvault", "Emergency", "External"}
<1>1. CASE \E d \in Coins : coin[c] = OutPoint(Funding(d), 0)
  <2>1. PICK d \in Coins : coin[c] = OutPoint(Funding(d), 0)
    BY <1>1
  <2>2. Txo(coin[c]) = Script("Deposit", Index[d])
    BY <2>1 DEF Txo, OutPoint, Funding
  <2> QED
    BY <2>2 DEF KindOf, Script
<1>2. CASE \E p \in built : coin[c] = Carrier(p)
  <2>1. PICK p \in built : coin[c] = Carrier(p)
    BY <1>2
  <2>2. Shape(p) /\ KindOf(coin[c]) = Creates(p.type)
    BY <2>1, CarrierShape DEF ShapeInv
  <2> QED
    BY <2>2 DEF Shape, Creates
<1> QED
  BY <1>1, <1>2 DEF CoinInv, Origin

\* A transaction takes a coin by the inputs that are the vault's.
LEMMA MovedCoin ==
  ASSUME ShapeInv, CoinInv, NEW p \in built, NEW c \in Coins, coin[c] \in SpentBy(p.tx)
  PROVE  \E i \in DOMAIN p.tx.ins :
           /\ coin[c] = p.tx.ins[i].previous_output
           /\ i = 1 \/ p.type = "Spend"
           /\ KindOf(coin[c]) = Spends(p.type)
           /\ p.tx.ins[i].sequence = IF p.type = "Spend" THEN CSV_SEQUENCE ELSE RBF_SEQUENCE
<1>1. PICK i \in DOMAIN p.tx.ins : coin[c] = p.tx.ins[i].previous_output
  BY DEF SpentBy
<1>2. KindOf(coin[c]) # "FeeBump"
  BY CoinKinds
<1>3. Shape(p)
  BY DEF ShapeInv
<1> QED
  BY <1>1, <1>2, <1>3, InputKinds

LEMMA ConfirmStep ==
  ASSUME IInv, NEW p \in built, Confirm(p)
  PROVE  IInv'
<1>1. /\ SpentBy(p.tx) \subseteq DOMAIN utxo
      /\ utxo' = [op \in (DOMAIN utxo \ SpentBy(p.tx)) \cup Outpoints(p.tx) |->
                    IF op \in Outpoints(p.tx) THEN height ELSE utxo[op]]
      /\ coin' = [c \in Coins |-> IF coin[c] \in SpentBy(p.tx) THEN Carrier(p) ELSE coin[c]]
      /\ UNCHANGED <<built, signed, height>>
  BY DEF Confirm, Confirmable, SpentBy
<1>2. Shape(p) /\ ShapeInv /\ CoinInv
  BY DEF IInv, ShapeInv
<1>3. ShapeInv' /\ ChainInv' /\ SignedInv'
  BY <1>1 DEF IInv, ShapeInv, ChainInv, Vaults, SignedInv
<1>4. PICK C : Ledger(C)
  BY DEF IInv
<1>5. \A op \in Outpoints(p.tx) : op \notin Funded \cup OutputsOf(C)
  BY <1>1, <1>2, <1>4, Fresh
<1>6. Ledger(C \cup {p.tx})'
  <2>1. OutputsOf(C \cup {p.tx}) = OutputsOf(C) \cup Outpoints(p.tx)
    BY DEF OutputsOf
  <2>2. SpentOf(C \cup {p.tx}) = SpentOf(C) \cup SpentBy(p.tx)
    BY DEF SpentOf
  <2>3. DOMAIN utxo' = (DOMAIN utxo \ SpentBy(p.tx)) \cup Outpoints(p.tx)
    BY <1>1
  <2>4. /\ DOMAIN utxo \subseteq Funded \cup OutputsOf(C)
        /\ SpentOf(C) \subseteq Funded \cup OutputsOf(C)
        /\ SpentOf(C) \cap DOMAIN utxo = {}
    BY <1>4 DEF Ledger
  <2> DEFINE F == Funded  O == OutputsOf(C)  N == Outpoints(p.tx)
             S == SpentOf(C)  B == SpentBy(p.tx)  D == DOMAIN utxo
  <2> HIDE DEF F, O, N, S, B, D
  <2>5. (D \ B) \cup N \subseteq F \cup (O \cup N) /\ S \cup B \subseteq F \cup (O \cup N)
        /\ (S \cup B) \cap ((D \ B) \cup N) = {}
    <3>1. /\ D \subseteq F \cup O /\ S \subseteq F \cup O /\ S \cap D = {}
          /\ B \subseteq D /\ \A op \in N : op \notin F \cup O
      BY <1>1, <1>5, <2>4 DEF F, O, N, S, B, D
    <3> QED
      BY <3>1
  <2>6. DOMAIN utxo' = (D \ B) \cup N
    BY <2>3 DEF D, B, N
  <2>7. /\ OutputsOf(C \cup {p.tx})' = O \cup N /\ SpentOf(C \cup {p.tx})' = S \cup B
        /\ Funded' = F
    BY <2>1, <2>2 DEF OutputsOf, SpentOf, Funded, F, O, N, S, B
  <2> QED
    BY <2>5, <2>6, <2>7 DEF Ledger
<1>7. HeightInv'
  <2>1. HeightInv
    BY DEF IInv
  <2>2. height \in 0..height
    BY <2>1 DEF HeightInv
  <2> QED
    BY <1>1, <2>1, <2>2 DEF HeightInv
<1>8. \A c \in Coins : coin[c] \in DOMAIN utxo /\ coin[c] \notin Outpoints(p.tx)
  BY <1>2, <1>4, <1>5 DEF CoinInv, Ledger
<1>9. Carrier(p) \in Outpoints(p.tx)
  BY <1>2, CarrierShape
<1>10. \A c \in Coins : coin'[c] \in DOMAIN utxo' /\ Origin(coin[c])'
  BY <1>1, <1>2, <1>8, <1>9 DEF CoinInv, Origin
<1>11. ASSUME NEW c \in Coins, NEW d \in Coins, coin'[c] = coin'[d]
       PROVE  c = d \/ Txo(coin'[c]) = ExternalScript
  <2>1. CASE coin[c] \in SpentBy(p.tx) /\ coin[d] \in SpentBy(p.tx)
    <3>1. CASE p.type = "Spend"
      BY <1>1, <1>2, <2>1, <3>1, CarrierShape
    <3>2. CASE p.type # "Spend"
      <4>1. coin[c] = p.tx.ins[1].previous_output /\ KindOf(coin[c]) = Spends(p.type)
        BY <1>2, <2>1, <3>2, MovedCoin
      <4>2. coin[d] = p.tx.ins[1].previous_output
        BY <1>2, <2>1, <3>2, MovedCoin
      <4>3. Txo(coin[c]) # ExternalScript
        BY <4>1 DEF KindOf, Spends, ExternalScript, Script
      <4> QED
        BY <1>2, <4>1, <4>2, <4>3 DEF CoinInv
    <3> QED
      BY <3>1, <3>2
  <2>2. CASE coin[c] \notin SpentBy(p.tx) /\ coin[d] \notin SpentBy(p.tx)
    BY <1>1, <1>2, <1>11, <2>2 DEF CoinInv
  <2>3. CASE ~(coin[c] \in SpentBy(p.tx) <=> coin[d] \in SpentBy(p.tx))
    BY <1>1, <1>8, <1>9, <1>11, <2>3
  <2> QED
    BY <2>1, <2>2, <2>3
<1>12. CoinInv'
  BY <1>10, <1>11 DEF CoinInv, Txo, ExternalScript
<1> QED
  BY <1>3, <1>6, <1>7, <1>12 DEF IInv

LEMMA MineStep ==
  ASSUME IInv, Mine
  PROVE  IInv'
<1>1. height' = height + 1 /\ height < MaxHeight /\ UNCHANGED <<built, signed, utxo, coin>>
  BY DEF Mine
<1>2. ShapeInv' /\ ChainInv' /\ SignedInv' /\ CoinInv'
  BY <1>1 DEF IInv, ShapeInv, ChainInv, Vaults, SignedInv, CoinInv, Origin
<1>3. PICK C : Ledger(C)
  BY DEF IInv
<1>4. Ledger(C)'
  BY <1>1, <1>3 DEF Ledger, OutputsOf, SpentOf
<1>5. HeightInv'
  BY <1>1, VaultAssumption DEF IInv, HeightInv
<1> QED
  BY <1>2, <1>4, <1>5 DEF IInv

LEMMA InitInv ==
  ASSUME Init
  PROVE  IInv
<1>1. ShapeInv /\ ChainInv /\ SignedInv
  BY DEF Init, ShapeInv, ChainInv, Vaults, SignedInv
<1>2. Ledger({})
  BY DEF Init, Ledger, OutputsOf, SpentOf
<1>3. HeightInv
  BY VaultAssumption DEF Init, HeightInv
<1>4. \A c \in Coins : coin[c] \in DOMAIN utxo /\ Origin(coin[c])
  BY DEF Init, Funded, Origin
<1>5. ASSUME NEW c \in Coins, NEW d \in Coins, coin[c] = coin[d]
      PROVE  c = d
  <2>1. Funding(c) = Funding(d)
    BY <1>5 DEF Init, OutPoint
  <2> QED
    BY <2>1 DEF Funding
<1> QED
  BY <1>1, <1>2, <1>3, <1>4, <1>5 DEF IInv, CoinInv

LEMMA NextInv ==
  ASSUME IInv, [Next]_vars
  PROVE  IInv'
<1>1. CASE \E op \in Deposits, lock \in LockTimes : BuildChain(op, lock)
  BY <1>1, BuildChainStep
<1>2. CASE BuildSpend
  BY <1>2, BuildSpendStep
<1>3. CASE \E v \in Vaults : Presign(Revocations(v, <<>>))
  <2>1. PICK v \in Vaults : Presign(Revocations(v, <<>>))
    BY <1>3
  <2>2. IsDeposit(v.deposit) /\ v.index = Txo(v.deposit).index
    BY VaultOfUnvault DEF IInv
  <2>3. \A p \in Revocations(v, <<>>) : p.type # "Spend"
    BY <2>2, RevocationShapes DEF FeeBumpSeqs, RevocationTypes
  <2>4. Revocations(v, <<>>) \subseteq built
    BY DEF IInv, ChainInv, TransactionChain
  <2> QED
    BY <2>1, <2>3, <2>4, PresignStep
<1>4. CASE \E v \in Vaults : Presign({Psbt("Unvault", UnvaultOf(v))})
  <2>1. PICK v \in Vaults : Presign({Psbt("Unvault", UnvaultOf(v))})
    BY <1>4
  <2> DEFINE p == Psbt("Unvault", UnvaultOf(v))
  <2>2. p \in built
    BY VaultOfUnvault DEF IInv
  <2>3. p.type # "Spend"
    BY DEF Psbt
  <2> HIDE DEF p
  <2>4. PICK ps : ps = {p}
    OBVIOUS
  <2>5. Presign(ps) /\ ps \subseteq built /\ \A q \in ps : q.type # "Spend"
    BY <2>1, <2>2, <2>3, <2>4 DEF p
  <2> QED
    BY <2>5, PresignStep
<1>5. CASE \E v \in Vaults, b \in FeeBumps : Bump(v, b)
  BY <1>5, BumpStep
<1>6. CASE \E p \in built : SignSpend(p)
  BY <1>6, SignSpendStep
<1>7. CASE \E p \in built : Confirm(p)
  BY <1>7, ConfirmStep
<1>8. CASE Mine
  BY <1>8, MineStep
<1>9. CASE UNCHANGED vars
  <2>1. UNCHANGED <<built, signed, utxo, height, coin>>
    BY <1>9 DEF vars
  <2>2. SignedInv'
    BY <2>1 DEF IInv, SignedInv
  <2> QED
    BY <2>1, <2>2, SignKeeps
<1> QED
  BY <1>1, <1>2, <1>3, <1>4, <1>5, <1>6, <1>7, <1>8, <1>9 DEF Next

\* Everything built has the shape its constructor gives it, a chain is built as a
\* whole, what was signed was built, no output is spent twice or made twice, and
\* every coin is in the carrier of a transaction or in its funding output.
THEOREM Invariance == Spec => []IInv
<1>1. Init => IInv
  BY InitInv
<1>2. IInv /\ [Next]_vars => IInv'
  BY NextInv
<1> QED
  BY <1>1, <1>2, PTL DEF Spec
-----------------------------------------------------------------------------
(***************************************************************************)
(* What follows from the invariant.                                          *)
(***************************************************************************)

\* Every coin is in an unspent output, no two coins of different deposits meet
\* before they leave the vault, and nobody signed what was not built.
THEOREM TypeCorrect == Spec => []TypeOK
<1>1. IInv => TypeOK
  <2> SUFFICES ASSUME IInv
               PROVE  TypeOK
    OBVIOUS
  <2>1. \A p \in built : p.type \in Types
    BY DEF IInv, ShapeInv, Shape, Types
  <2>2. \A s \in signed : s.psbt \in built /\ s.by \in {"stakeholders", "managers"}
    BY DEF IInv, SignedInv
  <2> QED
    BY <2>1, <2>2 DEF TypeOK, IInv, HeightInv, CoinInv
<1> QED
  BY <1>1, Invariance, PTL

\* deposit_txin() of the Cancels finds every coin that came back to a deposit.
THEOREM DepositsFound == Spec => []RevaultFindsDeposit
<1>1. IInv => RevaultFindsDeposit
  <2> SUFFICES ASSUME IInv, NEW c \in Coins, Txo(coin[c]).kind = "Deposit"
               PROVE  coin[c] \in Deposits
    BY DEF RevaultFindsDeposit
  <2>1. CASE coin[c] \in {OutPoint(Funding(d), 0) : d \in Coins}
    BY <2>1 DEF Deposits
  <2>2. CASE \E p \in built : coin[c] = Carrier(p)
    <3>1. PICK p \in built : coin[c] = Carrier(p)
      BY <2>2
    <3>2. Shape(p) /\ Creates(p.type) = "Deposit"
      BY <3>1, CarrierShape DEF IInv, ShapeInv, KindOf
    <3>3. p.type = "Cancel"
      BY <3>2 DEF Shape, Creates
    <3>4. coin[c] = CancelDeposit(p.tx).previous_output
      BY <3>1, <3>3 DEF Carrier, CancelDeposit, DepositTxIn
    <3> QED
      BY <3>3, <3>4 DEF Deposits
  <2> QED
    BY <2>1, <2>2 DEF IInv, CoinInv, Origin
<1> QED
  BY <1>1, Invariance, PTL

LEMMA CpfpOutputOf ==
  ASSUME NEW p, Shape(p), p.type \in {"Unvault", "Spend"}
  PROVE  \E k \in DOMAIN p.tx.outs :
           /\ CpfpOutputs(p.tx) = {k} /\ k \in Int
           /\ p.tx.outs[k].kind = "Cpfp"
<1>1. CASE p.type = "Unvault"
  <2>1. PICK txin, index : p.tx = UnvaultTx(txin, index, p.tx.lock)
    BY <1>1 DEF Shape, IsUnvault
  <2>2. p.tx.outs = <<Script("Unvault", index), Script("Cpfp", index)>>
    BY <2>1 DEF UnvaultTx, Tx
  <2> DEFINE outs == p.tx.outs
  <2>3. /\ DOMAIN outs = {1, 2} /\ outs[1] = Script("Unvault", index)
        /\ outs[2] = Script("Cpfp", index)
    BY <2>2
  <2>4. outs[1].kind = "Unvault" /\ outs[2].kind = "Cpfp" /\ outs[2].index = index
    BY <2>3 DEF Script
  <2>5. outs[1] # Script("Cpfp", outs[1].index) /\ outs[2] = Script("Cpfp", outs[2].index)
    BY <2>3, <2>4 DEF Script
  <2>6. CpfpOutputs(p.tx) = {2}
    BY <2>3, <2>4, <2>5 DEF CpfpOutputs, Internal
  <2> QED
    BY <2>3, <2>4, <2>6
<1>2. CASE p.type = "Spend"
  <2> DEFINE outs == p.tx.outs
  <2>1. PICK m, n : /\ DOMAIN outs = 1..3 /\ outs[1] = Script("Cpfp", m)
                    /\ outs[2] = ExternalScript /\ outs[3] = Script("Deposit", n)
    BY <1>2 DEF Shape, IsSpend
  <2>2. /\ outs[1].kind = "Cpfp" /\ outs[1].index = m
        /\ outs[2].kind = "External" /\ outs[3].kind = "Deposit"
    BY <2>1 DEF Script, ExternalScript
  <2>3. outs[3] # Script("Cpfp", outs[3].index) /\ outs[1] = Script("Cpfp", outs[1].index)
    BY <2>1, <2>2 DEF Script
  <2>4. ~Internal(outs[2]) /\ Internal(outs[1])
    BY <2>2 DEF Internal
  <2>5. DOMAIN outs = {1, 2, 3}
    BY <2>1
  <2>6. CpfpOutputs(p.tx) = {1}
    BY <2>3, <2>4, <2>5 DEF CpfpOutputs
  <2> QED
    BY <2>2, <2>5, <2>6
<1> QED
  BY <1>1, <1>2

\* cpfp_txin() of an Unvault or a Spend never misses the output to be CPFPed and
\* never takes the vault's or the change for it.
THEOREM CpfpOutputFound == Spec => []CpfpFound
<1>1. IInv => CpfpFound
  <2> SUFFICES ASSUME IInv, NEW p \in built, p.type \in {"Unvault", "Spend"}
               PROVE  \E txin \in CpfpTxins(p.tx) :
                        /\ CpfpTxins(p.tx) = {txin}
                        /\ txin.previous_output \in Outpoints(p.tx)
                        /\ Txo(txin.previous_output).kind = "Cpfp"
    BY DEF CpfpFound
  <2>1. PICK k \in DOMAIN p.tx.outs :
          CpfpOutputs(p.tx) = {k} /\ k \in Int /\ p.tx.outs[k].kind = "Cpfp"
    BY CpfpOutputOf DEF IInv, ShapeInv
  <2> DEFINE txin == CpfpTxIn(OutPoint(p.tx, k - 1))
  <2>2. {j \in CpfpOutputs(p.tx) : \A l \in CpfpOutputs(p.tx) : j <= l} = {k}
    BY <2>1
  <2>3. CpfpTxins(p.tx) = {txin}
    BY <2>2 DEF CpfpTxins
  <2>4. txin.previous_output = OutPoint(p.tx, k - 1)
    BY DEF CpfpTxIn
  <2>5. Txo(txin.previous_output) = p.tx.outs[k]
    <3>1. OutPoint(p.tx, k - 1).txid = p.tx /\ OutPoint(p.tx, k - 1).vout + 1 = k
      BY <2>1 DEF OutPoint
    <3> QED
      BY <2>4, <3>1 DEF Txo
  <2> HIDE DEF txin
  <2> QED
    BY <2>1, <2>3, <2>4, <2>5 DEF Outpoints
<1> QED
  BY <1>1, Invariance, PTL

\* The Unvault that spend_tx_from_deposits() builds again for a deposit is the
\* one of transaction_chain() exactly if both were given the same lock time.
THEOREM SpendUnvaultFound == Spec => []SpendFindsUnvault
<1>1. IInv => SpendFindsUnvault
  <2> SUFFICES ASSUME IInv, NEW p \in built, p.type = "Spend", NEW v \in Vaults,
                      NEW i \in DOMAIN p.tx.ins,
                      p.tx.ins[i].previous_output.txid.ins[1].previous_output = v.deposit
               PROVE  UnvaultTxin(v).previous_output \in SpentBy(p.tx) <=> p.tx.lock = v.lock
    BY DEF SpendFindsUnvault
  <2> DEFINE u == p.tx.ins[i].previous_output.txid
  <2>1. \A j \in DOMAIN p.tx.ins :
          /\ SpendsUnvault(p.tx.ins[j], CSV_SEQUENCE)
          /\ p.tx.ins[j].previous_output.txid.lock = p.tx.lock
    BY DEF IInv, ShapeInv, Shape, IsSpend
  <2>2. u = UnvaultTx(DepositTxIn(v.deposit), Txo(v.deposit).index, p.tx.lock)
    BY <2>1 DEF SpendsUnvault, IsUnvault
  <2>3. p.tx.ins[i].previous_output = OutPoint(u, 0)
    <3>1. p.tx.ins[i] = UnvaultTxIn(OutPoint(u, 0), CSV_SEQUENCE)
      BY <2>1 DEF SpendsUnvault
    <3> QED
      BY <3>1 DEF UnvaultTxIn
  <2>4. IsDeposit(v.deposit) /\ v.index = Txo(v.deposit).index
    BY VaultOfUnvault DEF IInv
  <2>5. /\ UnvaultOf(v) = UnvaultTx(DepositTxIn(v.deposit), Txo(v.deposit).index, v.lock)
        /\ UnvaultOf(v).lock = v.lock
    BY <2>4, UnvaultReference DEF UnvaultOf
  <2>6. UnvaultTxin(v).previous_output = OutPoint(UnvaultOf(v), 0)
    BY <2>4, UnvaultReference DEF UnvaultTxin, RevaultUnvaultTxin, UnvaultOf
  <2>7. ASSUME p.tx.lock = v.lock
        PROVE  UnvaultTxin(v).previous_output \in SpentBy(p.tx)
    BY <2>2, <2>3, <2>5, <2>6, <2>7 DEF SpentBy
  <2>8. ASSUME UnvaultTxin(v).previous_output \in SpentBy(p.tx)
        PROVE  p.tx.lock = v.lock
    <3>1. PICK j \in DOMAIN p.tx.ins : p.tx.ins[j].previous_output = OutPoint(UnvaultOf(v), 0)
      BY <2>6, <2>8 DEF SpentBy
    <3>2. p.tx.ins[j].previous_output.txid = UnvaultOf(v)
      BY <3>1 DEF OutPoint
    <3> QED
      BY <2>1, <2>5, <3>2
  <2> QED
    BY <2>7, <2>8
<1> QED
  BY <1>1, Invariance, PTL
-----------------------------------------------------------------------------
\* Signatures given for a revocation transaction serve for it with fee-bumping
\* inputs too, and it waits for nothing but its lock time.
THEOREM EscapesAreOpen == Spec => []EscapesOpen
<1>1. IInv => EscapesOpen
  <2> SUFFICES ASSUME IInv, NEW p \in built, p.type \in RevocationTypes,
                      SpentBy(p.tx) \subseteq DOMAIN utxo, Seen(p),
                      NEW i \in DOMAIN p.tx.ins
               PROVE  SequenceLock(p.tx.ins[i]) /\ Satisfied(p.tx, i)
    BY DEF EscapesOpen, Confirmable, SpentBy
  <2>1. Shape(p) /\ p.type # "Spend"
    BY DEF IInv, ShapeInv, RevocationTypes
  <2>2. SequenceLock(p.tx.ins[i])
    BY <2>1, InputKinds DEF SequenceLock, RBF_SEQUENCE, CSV_SEQUENCE
  <2>3. CASE KindOf(p.tx.ins[i].previous_output) = "FeeBump"
    BY <2>2, <2>3 DEF Satisfied, KindOf
  <2>4. CASE i = 1 /\ KindOf(p.tx.ins[i].previous_output) = Spends(p.type)
    <3>1. PICK s \in signed :
            /\ s.by = "stakeholders" /\ s.psbt.type = p.type
            /\ s.psbt.tx.ins[1] = p.tx.ins[1]
            /\ s.psbt.tx.outs = p.tx.outs /\ s.psbt.tx.lock = p.tx.lock
      BY <2>1 DEF Seen
    <3>2. s.input = 1
      BY <3>1 DEF IInv, SignedInv
    <3>3. ExpectedType(s.psbt) = "AllPlusAnyoneCanPay"
      BY <3>1 DEF ExpectedType
    <3>4. Authorized("stakeholders", p.tx, 1)
      BY <3>1, <3>2, <3>3 DEF Authorized, Digest
    <3> QED
      BY <2>2, <2>4, <3>4 DEF Satisfied, KindOf, Spends
  <2> QED
    BY <2>1, <2>2, <2>3, <2>4, InputKinds
<1> QED
  BY <1>1, Invariance, PTL

\* A Spend that the managers signed needs nothing more than the delay.
THEOREM SpendsAreOpen == Spec => []SpendOpens
<1>1. IInv => SpendOpens
  <2> SUFFICES ASSUME IInv, NEW p \in built, p.type = "Spend",
                      Signature("managers", p, 1) \in signed,
                      NEW i \in DOMAIN p.tx.ins, Age(p.tx.ins[i].previous_output) >= Csv
               PROVE  SequenceLock(p.tx.ins[i]) /\ Satisfied(p.tx, i)
    BY DEF SpendOpens, Confirmable
  <2>1. /\ KindOf(p.tx.ins[i].previous_output) = "Unvault"
        /\ p.tx.ins[i].sequence = CSV_SEQUENCE
    BY InputKinds DEF IInv, ShapeInv, Spends, RevocationTypes
  <2>2. \A j, q : LET s == Signature("managers", q, j) IN
          s.by = "managers" /\ s.psbt = q /\ s.input = j
    BY DEF Signature
  <2>3. Signature("managers", p, i) \in signed
    BY <2>2 DEF IInv, SignedInv
  <2>4. Authorized("managers", p.tx, i)
    BY <2>2, <2>3 DEF Authorized
  <2> QED
    BY <2>1, <2>4 DEF Satisfied, SequenceLock, KindOf
<1> QED
  BY <1>1, Invariance, PTL

\* Only a Spend has other inputs than its first that are the vault's, and what a
\* transaction spends and creates tells its type.
LEMMA TypeOfShape ==
  ASSUME NEW p, NEW q, Shape(p), Shape(q), p.type # "Spend", q.type # "Spend",
         p.tx.ins[1] = q.tx.ins[1], p.tx.outs = q.tx.outs
  PROVE  p.type = q.type
<1>1. ASSUME NEW r, Shape(r), r.type # "Spend"
      PROVE  /\ KindOf(r.tx.ins[1].previous_output) = Spends(r.type)
             /\ r.tx.outs[1].kind = Creates(r.type)
  <2>1. KindOf(r.tx.ins[1].previous_output) = Spends(r.type)
    BY <1>1, HasInput, InputKinds
  <2>2. KindOf(Carrier(r)) = Creates(r.type)
    BY <1>1, CarrierShape
  <2>3. KindOf(Carrier(r)) = r.tx.outs[1].kind
    BY <1>1 DEF Carrier, KindOf, Txo, OutPoint
  <2> QED
    BY <2>1, <2>2, <2>3
<1>2. Spends(p.type) = Spends(q.type) /\ Creates(p.type) = Creates(q.type)
  BY <1>1
<1> QED
  BY <1>2 DEF Shape, Spends, Creates

\* What moves a coin was seen by its owners, if its scripts are satisfied.
LEMMA SatisfiedSeen ==
  ASSUME IInv, NEW p \in built, NEW i \in DOMAIN p.tx.ins, Satisfied(p.tx, i),
         i = 1 \/ p.type = "Spend",
         KindOf(p.tx.ins[i].previous_output) = Spends(p.type),
         p.tx.ins[i].sequence = IF p.type = "Spend" THEN CSV_SEQUENCE ELSE RBF_SEQUENCE
  PROVE  Seen(p)
<1>1. /\ Shape(p)
      /\ \A s \in signed : s = Signature(s.by, s.psbt, s.input) /\ Shape(s.psbt)
  BY DEF IInv, ShapeInv, SignedInv
<1>2. \/ Authorized("stakeholders", p.tx, i)
      \/ p.tx.ins[i].sequence = CSV_SEQUENCE /\ Authorized("managers", p.tx, i)
  BY DEF Satisfied, KindOf, Spends
<1>3. CASE Authorized("stakeholders", p.tx, i)
  <2>1. PICK s \in signed :
          /\ s.by = "stakeholders"
          /\ Digest(s.psbt.tx, s.input, ExpectedType(s.psbt)) = Digest(p.tx, i, ExpectedType(s.psbt))
    BY <1>3 DEF Authorized
  <2>2. s.psbt.type # "Spend" /\ s.input = 1 /\ Shape(s.psbt)
    BY <1>1, <2>1 DEF IInv, SignedInv
  <2>3. s.psbt.tx.ins[1] = p.tx.ins[i] /\ s.psbt.tx.outs = p.tx.outs /\ s.psbt.tx.lock = p.tx.lock
    <3>1. CASE s.psbt.type \in RevocationTypes
      BY <2>1, <2>2, <3>1 DEF ExpectedType, Digest
    <3>2. CASE s.psbt.type \notin RevocationTypes
      BY <2>1, <2>2, <3>2 DEF ExpectedType, Digest
    <3> QED
      BY <3>1, <3>2
  <2>4. p.tx.ins[i].sequence = RBF_SEQUENCE
    BY <2>2, <2>3, HasInput, InputKinds
  <2>5. p.type # "Spend" /\ i = 1
    BY <2>4 DEF RBF_SEQUENCE, CSV_SEQUENCE
  <2>6. s.psbt.type = p.type
    BY <1>1, <2>2, <2>3, <2>5, TypeOfShape
  <2> QED
    BY <2>1, <2>3, <2>5, <2>6 DEF Seen
<1>4. CASE p.tx.ins[i].sequence = CSV_SEQUENCE /\ Authorized("managers", p.tx, i)
  <2>1. p.type = "Spend"
    BY <1>4 DEF RBF_SEQUENCE, CSV_SEQUENCE
  <2>2. PICK s \in signed :
          /\ s.by = "managers"
          /\ Digest(s.psbt.tx, s.input, ExpectedType(s.psbt)) = Digest(p.tx, i, ExpectedType(s.psbt))
    BY <1>4 DEF Authorized
  <2>3. /\ s.psbt.type = "Spend"
        /\ \A j \in DOMAIN s.psbt.tx.ins : Signature("managers", s.psbt, j) \in signed
    BY <2>2 DEF IInv, SignedInv
  <2>4. s.psbt.tx = p.tx
    BY <2>2, <2>3 DEF ExpectedType, Digest, RevocationTypes
  <2>5. s.psbt = p
    BY <1>1, <2>1, <2>3, <2>4 DEF Shape
  <2> QED
    BY <1>1, <2>1, <2>3, <2>5, HasInput DEF Seen
<1> QED
  BY <1>2, <1>3, <1>4

\* Only a confirmation moves coins.
LEMMA NextCases ==
  ASSUME [Next]_vars
  PROVE  (\E p \in built : Confirm(p)) \/ Mine \/ UNCHANGED <<utxo, height, coin>>
BY DEF Next, vars, BuildChain, BuildSpend, Presign, Bump, SignSpend

\* No signature serves for another transaction than the one it was given for,
\* but for the fee-bumping inputs of a revocation transaction.
THEOREM ExitsAreSeen == Spec => ExitsSeen
<1> DEFINE Exits ==
      \A c \in Coins : coin'[c] # coin[c] =>
        \E p \in built : coin'[c] = Carrier(p) /\ Seen(p)
<1>1. IInv /\ [Next]_vars => [Exits]_vars
  <2> SUFFICES ASSUME IInv, [Next]_vars, NEW c \in Coins, coin'[c] # coin[c]
               PROVE  \E p \in built : coin'[c] = Carrier(p) /\ Seen(p)
    OBVIOUS
  <2>1. PICK p \in built : Confirm(p)
    BY NextCases DEF Mine
  <2>2. coin[c] \in SpentBy(p.tx) /\ coin'[c] = Carrier(p)
    BY <2>1 DEF Confirm
  <2>3. PICK i \in DOMAIN p.tx.ins :
          /\ coin[c] = p.tx.ins[i].previous_output
          /\ i = 1 \/ p.type = "Spend"
          /\ KindOf(coin[c]) = Spends(p.type)
          /\ p.tx.ins[i].sequence = IF p.type = "Spend" THEN CSV_SEQUENCE ELSE RBF_SEQUENCE
    BY <2>2, MovedCoin DEF IInv
  <2>4. Satisfied(p.tx, i)
    BY <2>1 DEF Confirm, Confirmable
  <2>5. Seen(p)
    BY <2>3, <2>4, SatisfiedSeen
  <2> QED
    BY <2>2, <2>5
<1> QED
  BY <1>1, Invariance, PTL DEF Spec, ExitsSeen
-----------------------------------------------------------------------------
(***************************************************************************)
(* Refinement.                                                               *)
(***************************************************************************)
LEMMA AgeType ==
  ASSUME IInv, NEW c \in Coins
  PROVE  coin[c] \in DOMAIN utxo /\ Age(coin[c]) \in Nat
BY DEF IInv, CoinInv, HeightInv, Age

\* A confirmation moves the coins it spends, together, to a new output.
LEMMA ConfirmMoves ==
  ASSUME IInv, NEW p \in built, Confirm(p)
  PROVE  Promise!Move({c \in Coins : coin[c] \in SpentBy(p.tx)}, Creates(p.type))
<1> DEFINE M == {c \in Coins : coin[c] \in SpentBy(p.tx)}
<1>1. /\ SpentBy(p.tx) \subseteq DOMAIN utxo
      /\ utxo' = [op \in (DOMAIN utxo \ SpentBy(p.tx)) \cup Outpoints(p.tx) |->
                    IF op \in Outpoints(p.tx) THEN height ELSE utxo[op]]
      /\ coin' = [c \in Coins |-> IF coin[c] \in SpentBy(p.tx) THEN Carrier(p) ELSE coin[c]]
      /\ UNCHANGED <<built, signed, height>>
  BY DEF Confirm, Confirmable, SpentBy
<1>2. Shape(p)
  BY DEF IInv, ShapeInv
<1>3. PICK C : Ledger(C)
  BY DEF IInv
<1>4. \A c \in Coins : coin[c] \in DOMAIN utxo /\ coin[c] \notin Outpoints(p.tx)
  BY <1>1, <1>2, <1>3, Fresh, AgeType DEF Ledger
<1>5. Carrier(p) \in Outpoints(p.tx) /\ Txo(Carrier(p)).kind = Creates(p.type)
  BY <1>2, CarrierShape DEF KindOf
<1>6. ASSUME NEW c \in M
      PROVE  /\ Txo(coin'[c]).kind = Creates(p.type)
             /\ (IF Age(coin[c])' < Csv THEN Age(coin[c])' ELSE Csv) = 0
  <2>1. coin'[c] = Carrier(p)
    BY <1>1
  <2>2. utxo'[coin'[c]] = height
    BY <1>1, <1>5, <2>1
  <2>3. Age(coin[c])' = 0
    BY <1>1, <2>2 DEF Age, IInv, HeightInv
  <2> QED
    BY <1>5, <2>1, <2>3, VaultAssumption
<1>7. ASSUME NEW c \in Coins, c \notin M
      PROVE  /\ Txo(coin'[c]).kind = Txo(coin[c]).kind
             /\ Age(coin[c])' = Age(coin[c])
  <2>1. coin'[c] = coin[c]
    BY <1>1, <1>7
  <2>2. utxo'[coin[c]] = utxo[coin[c]]
    BY <1>1, <1>4, <1>7
  <2> QED
    BY <1>1, <2>1, <2>2 DEF Age
<1>8. Place' = [c \in Coins |-> IF c \in M THEN Creates(p.type) ELSE Place[c]]
  BY <1>6, <1>7 DEF Place, Txo
<1>9. Rest' = [c \in Coins |-> IF c \in M THEN 0 ELSE Rest[c]]
  BY <1>6, <1>7 DEF Rest
<1> QED
  BY <1>8, <1>9 DEF Promise!Move

LEMMA ConfirmPromised ==
  ASSUME IInv, NEW p \in built, Confirm(p)
  PROVE  [Promise!Next]_(Promise!vars)
<1> DEFINE M == {c \in Coins : coin[c] \in SpentBy(p.tx)}
<1>1. Promise!Move(M, Creates(p.type))
  BY ConfirmMoves
<1>2. Shape(p) /\ ShapeInv /\ CoinInv
  BY DEF IInv, ShapeInv
<1>3. \A c \in M : Place[c] = Spends(p.type)
  BY <1>2, MovedCoin DEF Place, KindOf
<1>4. CASE M = {}
  <2>1. Place' = Place /\ Rest' = Rest
    BY <1>1, <1>4 DEF Promise!Move, Place, Rest
  <2> QED
    BY <2>1 DEF Promise!vars
<1>5. CASE p.type = "Spend"
  <2>1. ASSUME NEW c \in M
        PROVE  Place[c] = "Unvault" /\ Rest[c] >= Csv
    <3>1. PICK i \in DOMAIN p.tx.ins :
            coin[c] = p.tx.ins[i].previous_output /\ p.tx.ins[i].sequence = CSV_SEQUENCE
      BY <1>2, <1>5, MovedCoin
    <3>2. Age(coin[c]) >= Csv
      BY <3>1 DEF Confirm, Confirmable, SequenceLock
    <3>3. Rest[c] = Csv
      BY <3>2, AgeType, VaultAssumption DEF Rest
    <3> QED
      BY <1>3, <1>5, <3>3, VaultAssumption DEF Spends
  <2>2. Promise!Spend(M)
    BY <1>1, <1>5, <2>1 DEF Promise!Spend, Creates
  <2> QED
    BY <2>2 DEF Promise!Next
<1>6. CASE p.type # "Spend" /\ M # {}
  <2>1. PICK c : c \in M
    BY <1>6
  <2>2. M = {c}
    <3> SUFFICES ASSUME NEW d \in M
                 PROVE  c = d
      BY <2>1
    <3>1. coin[c] = coin[d]
      BY <1>2, <1>6, <2>1, MovedCoin
    <3>2. Txo(coin[c]) # ExternalScript
      BY <1>3, <2>1 DEF Place, Spends, ExternalScript, Script
    <3> QED
      BY <1>2, <2>1, <3>1, <3>2 DEF CoinInv
  <2>3. Promise!Move({c}, Creates(p.type)) /\ Place[c] = Spends(p.type) /\ c \in Coins
    BY <1>1, <1>3, <2>1, <2>2
  <2>4. Promise!Unvault(c) \/ Promise!Revault(c) \/ Promise!Emergency(c)
    BY <1>2, <1>6, <2>3
       DEF Shape, Spends, Creates, Promise!Unvault, Promise!Revault, Promise!Emergency
  <2> QED
    BY <2>3, <2>4 DEF Promise!Next
<1> QED
  BY <1>4, <1>5, <1>6

LEMMA MinePromised ==
  ASSUME IInv, Mine
  PROVE  Promise!Block
<1>1. height' = height + 1 /\ UNCHANGED <<utxo, coin>>
  BY DEF Mine
<1>2. Place' = Place
  BY <1>1 DEF Place, Txo
<1>3. ASSUME NEW c \in Coins
      PROVE  (IF Age(coin[c])' < Csv THEN Age(coin[c])' ELSE Csv)
             = IF Rest[c] < Csv THEN Rest[c] + 1 ELSE Csv
  <2>1. Age(coin[c])' = Age(coin[c]) + 1
    BY <1>1 DEF Age, IInv, HeightInv, CoinInv
  <2> QED
    BY <2>1, AgeType, VaultAssumption DEF Rest
<1>4. Rest' = [c \in Coins |-> IF Rest[c] < Csv THEN Rest[c] + 1 ELSE Csv]
  BY <1>3 DEF Rest
<1> QED
  BY <1>2, <1>4 DEF Promise!Block

\* Whatever is built, signed and confirmed, in whatever order, the coins move as
\* the wallet promises: never out of the vault before the delay, but to the
\* Emergency address.
THEOREM Refinement == Spec => KeepsPromise
<1>1. Init => Promise!Init
  <2> SUFFICES ASSUME Init
               PROVE  Promise!Init
    OBVIOUS
  <2>1. ASSUME NEW c \in Coins
        PROVE  Txo(coin[c]).kind = "Deposit" /\ Age(coin[c]) = 0
    <3>1. coin[c] = OutPoint(Funding(c), 0) /\ coin[c] \in Funded
      BY DEF Init, Funded
    <3>2. Txo(coin[c]) = Script("Deposit", Index[c])
      BY <3>1 DEF Txo, OutPoint, Funding
    <3> QED
      BY <3>1, <3>2 DEF Script, Age, Init
  <2> QED
    BY <2>1, VaultAssumption DEF Promise!Init, Place, Rest
<1>2. IInv /\ [Next]_vars => [Promise!Next]_(Promise!vars)
  <2> SUFFICES ASSUME IInv, [Next]_vars
               PROVE  [Promise!Next]_(Promise!vars)
    OBVIOUS
  <2>1. CASE \E p \in built : Confirm(p)
    BY <2>1, ConfirmPromised
  <2>2. CASE Mine
    BY <2>2, MinePromised DEF Promise!Next
  <2>3. CASE UNCHANGED <<utxo, height, coin>>
    BY <2>3 DEF Promise!vars, Place, Rest, Age, Txo
  <2> QED
    BY <2>1, <2>2, <2>3, NextCases
<1> QED
  BY <1>1, <1>2, Invariance, PTL DEF Spec, KeepsPromise, Promise!Spec
=============================================================================
