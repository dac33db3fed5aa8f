-------------------------- MODULE PsbtParsingProofs --------------------------
(***************************************************************************)
(* What the parsers guarantee of every file, whatever other software did to   *)
(* it: any number of edits, any deposits, fees and weights.  And what they     *)
(* accept of the files that the constructors made and nobody edited.          *)
(***************************************************************************)
EXTENDS PsbtParsing, ConstructorsProofs, SumProofs, FiniteSetTheorems, TLAPS

Files ==
  [version : {"TX_VERSION", "other"}, ins : Seq(Inputs), prevouts : Seq(Nat),
   outs : Seq(Outputs)]

FileOK(p) == p \in Files /\ Len(p.prevouts) = Len(p.ins)

\* The results of parsing are those of the file as it is.
IInv ==
  /\ made \in TxTypes /\ FileOK(file) /\ edits \in 0..MaxEdits
  /\ ret = NotRead \/ ret = [t \in TxTypes |-> Driver(t, file)]
-----------------------------------------------------------------------------
(***************************************************************************)
(* Checks made in turn.                                                      *)
(***************************************************************************)
Refusals == Outcomes \ {"NotRead", "None", "Panic"}
Checks == Refusals \cup {"None"}

LEMMA ErrorIn ==
  ASSUME NEW cond, NEW err \in Refusals
  PROVE  Error(cond, err) \in Checks /\ (Error(cond, err) = "None" => ~cond)
BY DEF Error, Checks, Refusals

LEMMA RefusalNames ==
  {"InvalidTransactionVersion", "DuplicatedInput", "MissingWitnessUtxo",
   "InvalidInputField", "PartiallyFinalized", "InvalidInWitnessScript",
   "MissingInWitnessScript", "InsaneAmounts", "InvalidInputCount",
   "InvalidOutputCount", "MissingFeeBumpingInput", "MissingRevocationInput",
   "InvalidSighashType", "InvalidOutputField", "InvalidCountOuputWithDerivations",
   "TransactionTooLarge"} \subseteq Refusals
BY DEF Refusals, Outcomes

LEMMA FirstCheck ==
  ASSUME NEW errs \in Seq(Checks)
  PROVE  /\ FirstError(errs) \in Checks
         /\ FirstError(errs) = "None" => \A i \in DOMAIN errs : errs[i] = "None"
BY FirstOfSeq DEF Checks

LEMMA FirstOf3 ==
  ASSUME NEW a \in Checks, NEW b \in Checks, NEW c \in Checks
  PROVE  /\ FirstError(<<a, b, c>>) \in Checks
         /\ FirstError(<<a, b, c>>) = "None" => a = "None" /\ b = "None" /\ c = "None"
BY FirstOfThree

LEMMA FirstOf2 ==
  ASSUME NEW a \in Checks, NEW b \in Checks
  PROVE  /\ FirstError(<<a, b>>) \in Checks
         /\ FirstError(<<a, b>>) = "None" => a = "None" /\ b = "None"
BY FirstOfTwo

LEMMA FirstOf4 ==
  ASSUME NEW a \in Checks, NEW b \in Checks, NEW c \in Checks, NEW d \in Checks
  PROVE  /\ FirstError(<<a, b, c, d>>) \in Checks
         /\ FirstError(<<a, b, c, d>>) = "None" =>
              a = "None" /\ b = "None" /\ c = "None" /\ d = "None"
<1> DEFINE errs == <<a, b, c, d>>
<1>1. errs \in Seq(Checks) /\ DOMAIN errs = 1..4
  OBVIOUS
<1>2. errs[1] = a /\ errs[2] = b /\ errs[3] = c /\ errs[4] = d
  OBVIOUS
<1> HIDE DEF errs
<1>3. FirstError(errs) \in Checks /\ (FirstError(errs) = "None" => \A i \in 1..4 : errs[i] = "None")
  BY <1>1, FirstCheck
<1> QED
  BY <1>2, <1>3 DEF errs

LEMMA FirstOf8 ==
  ASSUME NEW errs, DOMAIN errs = 1..8, errs \in Seq(Checks)
  PROVE  /\ FirstError(errs) \in Checks
         /\ FirstError(errs) = "None" =>
              /\ errs[1] = "None" /\ errs[2] = "None" /\ errs[3] = "None" /\ errs[4] = "None"
              /\ errs[5] = "None" /\ errs[6] = "None" /\ errs[7] = "None" /\ errs[8] = "None"
BY FirstCheck

\* Checks before, on each of the inputs, and after.
LEMMA FirstAround ==
  ASSUME NEW a \in Seq(Checks), NEW n \in Nat, NEW b \in [1..n -> Checks],
         NEW c \in Seq(Checks)
  PROVE  /\ FirstError(a \o b \o c) \in Checks
         /\ FirstError(a \o b \o c) = "None" =>
              /\ \A i \in DOMAIN a : a[i] = "None"
              /\ \A i \in 1..n : b[i] = "None"
              /\ \A i \in DOMAIN c : c[i] = "None"
<1> DEFINE errs == a \o b \o c
<1>1. b \in Seq(Checks) /\ Len(b) = n
  OBVIOUS
<1>2. a \o b \in Seq(Checks) /\ Len(a \o b) = Len(a) + n
  BY <1>1
<1>3. errs \in Seq(Checks) /\ Len(errs) = Len(a) + n + Len(c)
  BY <1>1, <1>2
<1>4. /\ \A i \in DOMAIN a : errs[i] = a[i]
      /\ \A i \in 1..n : errs[Len(a) + i] = b[i]
      /\ \A i \in DOMAIN c : errs[Len(a) + n + i] = c[i]
  BY <1>1, <1>2
<1>5. DOMAIN errs = 1..(Len(a) + n + Len(c)) /\ DOMAIN a = 1..Len(a) /\ DOMAIN c = 1..Len(c)
  BY <1>3
<1> HIDE DEF errs
<1>6. FirstError(errs) \in Checks /\ (FirstError(errs) = "None" => \A i \in DOMAIN errs : errs[i] = "None")
  BY <1>3, FirstCheck
<1>7. ASSUME \A i \in DOMAIN errs : errs[i] = "None"
      PROVE  /\ \A i \in DOMAIN a : a[i] = "None"
             /\ \A i \in 1..n : b[i] = "None"
             /\ \A i \in DOMAIN c : c[i] = "None"
  <2>1. Len(a) \in Nat /\ Len(c) \in Nat
    OBVIOUS
  <2>2. ASSUME NEW i \in DOMAIN a PROVE a[i] = "None"
    BY <1>4, <1>5, <1>7, <2>1
  <2>3. ASSUME NEW i \in 1..n PROVE b[i] = "None"
    <3>1. Len(a) + i \in DOMAIN errs
      BY <1>5, <2>1
    <3> QED
      BY <1>4, <1>7, <3>1
  <2>4. ASSUME NEW i \in DOMAIN c PROVE c[i] = "None"
    <3>1. Len(a) + n + i \in DOMAIN errs
      BY <1>5, <2>1
    <3> QED
      BY <1>4, <1>7, <3>1
  <2> QED
    BY <2>2, <2>3, <2>4
<1> QED
  BY <1>6, <1>7 DEF errs
-----------------------------------------------------------------------------
(***************************************************************************)
(* What an accepted file looks like.                                         *)
(***************************************************************************)

\* psbt_common_sanity_checks() on one input.
LEMMA InputChecked ==
  ASSUME NEW p, FileOK(p), NEW i \in DOMAIN p.ins
  PROVE  /\ InputError(p, i) \in Checks
         /\ InputError(p, i) = "None" =>
              /\ p.ins[i].kind # "None" /\ p.ins[i].kind # "Other"
              /\ ~p.ins[i].non_witness_utxo /\ ~p.ins[i].redeem_script
              /\ ~PartiallyFinalized(p, i)
              /\ p.ins[i].kind = "P2wsh" /\ ~p.ins[i].final => Matches(p.ins[i])
<1> DEFINE in == p.ins[i]
           c1 == in.kind = "None"
           c2 == in.non_witness_utxo \/ in.redeem_script
           c3 == PartiallyFinalized(p, i)
           c4 == in.witness_script = "Insane"
           c5 == in.value > MAX_MONEY \/ Total(SubSeq(Values(p.ins), 1, i)) >= U64
           c6 == in.kind = "P2wsh" /\ ~in.final /\ in.witness_script = "None"
           c7 == in.kind = "P2wsh" /\ ~in.final /\ ~Matches(in)
           c8 == in.kind = "Other"
           errs == <<Error(c1, "MissingWitnessUtxo"), Error(c2, "InvalidInputField"),
                     Error(c3, "PartiallyFinalized"), Error(c4, "InvalidInWitnessScript"),
                     Error(c5, "InsaneAmounts"), Error(c6, "MissingInWitnessScript"),
                     Error(c7, "InvalidInWitnessScript"), Error(c8, "InvalidInputField")>>
<1>1. InputError(p, i) = FirstError(errs)
  BY DEF InputError
<1> HIDE DEF c1, c2, c3, c4, c5, c6, c7, c8
<1>2. /\ Error(c1, "MissingWitnessUtxo") \in Checks /\ Error(c2, "InvalidInputField") \in Checks
      /\ Error(c3, "PartiallyFinalized") \in Checks
      /\ Error(c4, "InvalidInWitnessScript") \in Checks
      /\ Error(c5, "InsaneAmounts") \in Checks /\ Error(c6, "MissingInWitnessScript") \in Checks
      /\ Error(c7, "InvalidInWitnessScript") \in Checks /\ Error(c8, "InvalidInputField") \in Checks
  BY ErrorIn, RefusalNames
<1>3. DOMAIN errs = 1..8 /\ errs \in Seq(Checks)
  BY <1>2
<1>4. FirstError(errs) \in Checks
  BY <1>3, FirstOf8
<1>5. ASSUME FirstError(errs) = "None"
      PROVE  ~c1 /\ ~c2 /\ ~c3 /\ ~c7 /\ ~c8
  <2>1. /\ errs[1] = "None" /\ errs[2] = "None" /\ errs[3] = "None"
        /\ errs[7] = "None" /\ errs[8] = "None"
    BY <1>3, <1>5, FirstOf8
  <2>2. /\ Error(c1, "MissingWitnessUtxo") = "None" /\ Error(c2, "InvalidInputField") = "None"
        /\ Error(c3, "PartiallyFinalized") = "None" /\ Error(c7, "InvalidInWitnessScript") = "None"
        /\ Error(c8, "InvalidInputField") = "None"
    BY <2>1
  <2> QED
    BY <2>2, ErrorIn, RefusalNames
<1> QED
  BY <1>1, <1>4, <1>5 DEF c1, c2, c3, c7, c8

LEMMA FileFacts ==
  ASSUME NEW p, FileOK(p)
  PROVE  /\ Len(p.ins) \in Nat /\ Len(p.outs) \in Nat
         /\ DOMAIN p.ins = 1..Len(p.ins) /\ DOMAIN p.outs = 1..Len(p.outs)
         /\ \A i \in DOMAIN p.ins : p.ins[i] \in Inputs
         /\ \A j \in DOMAIN p.outs : p.outs[j] \in Outputs
<1>1. p.ins \in Seq(Inputs) /\ p.outs \in Seq(Outputs)
  BY DEF FileOK, Files
<1> QED
  BY <1>1

\* psbt_common_sanity_checks() on the whole file.
LEMMA CommonChecked ==
  ASSUME NEW p, FileOK(p)
  PROVE  /\ CommonError(p) \in Checks
         /\ CommonError(p) = "None" =>
              /\ \A i \in DOMAIN p.ins : InputError(p, i) = "None"
              /\ AmountsError(p) = "None"
<1> DEFINE a == <<Error(p.version # "TX_VERSION", "InvalidTransactionVersion"),
                  Error(~IsInjective(p.prevouts), "DuplicatedInput")>>
           b == [i \in DOMAIN p.ins |-> InputError(p, i)]
           c == <<AmountsError(p)>>
           n == Len(p.ins)
<1>1. a \in Seq(Checks)
  <2>1. /\ Error(p.version # "TX_VERSION", "InvalidTransactionVersion") \in Checks
        /\ Error(~IsInjective(p.prevouts), "DuplicatedInput") \in Checks
    BY ErrorIn, RefusalNames
  <2> QED
    BY <2>1
<1>2. n \in Nat /\ b \in [1..n -> Checks]
  BY FileFacts, InputChecked
<1>3. c \in Seq(Checks) /\ DOMAIN c = 1..1 /\ c[1] = AmountsError(p)
  <2>1. AmountsError(p) \in Checks
    BY ErrorIn, RefusalNames DEF AmountsError
  <2> QED
    BY <2>1
<1>4. \A i \in DOMAIN p.ins : b[i] = InputError(p, i)
  OBVIOUS
<1>5. CommonError(p) = FirstError(a \o b \o c)
  BY DEF CommonError
<1>6. DOMAIN p.ins = 1..n
  BY FileFacts
<1> HIDE DEF a, b, c, n
<1>7. /\ FirstError(a \o b \o c) \in Checks
      /\ FirstError(a \o b \o c) = "None" =>
           (\A i \in 1..n : b[i] = "None") /\ (\A i \in DOMAIN c : c[i] = "None")
  BY <1>1, <1>2, <1>3, FirstAround
<1> QED
  BY <1>3, <1>4, <1>5, <1>6, <1>7

\* Signed inputs follow signed inputs: either all are final or none is.
LEMMA NotMixed ==
  ASSUME NEW p, FileOK(p), CommonError(p) = "None", IsFinalized(p),
         NEW i \in DOMAIN p.ins
  PROVE  p.ins[i].final /\ p.ins[i].witness_script = "None"
<1>1. /\ DOMAIN p.ins = 1..Len(p.ins) /\ Len(p.ins) \in Nat
      /\ \A j \in DOMAIN p.ins : p.ins[j] \in Inputs
  BY FileFacts
<1>2. \A j \in DOMAIN p.ins : ~PartiallyFinalized(p, j)
  BY CommonChecked, InputChecked
<1> DEFINE others == {j \in DOMAIN p.ins : p.ins[j].final # p.ins[1].final}
<1>3. others = {}
  <2> SUFFICES ASSUME others # {}
               PROVE  FALSE
    OBVIOUS
  <2>1. others \subseteq Nat
    BY <1>1
  <2> HIDE DEF others
  <2>2. PICK k \in others : \A j \in others : k <= j
    BY <2>1, Least
  <2>3. k \in 1..Len(p.ins) /\ k # 1 /\ p.ins[k].final # p.ins[1].final
    BY <1>1, <2>2 DEF others
  <2>4. k - 1 \in 1..Len(p.ins) /\ k > 1 /\ ~(k <= k - 1)
    BY <1>1, <2>3
  <2>5. k - 1 \notin others
    BY <2>2, <2>4
  <2>6. p.ins[k - 1].final = p.ins[1].final
    BY <1>1, <2>4, <2>5 DEF others
  <2>7. p.ins[k - 1].final = p.ins[k].final
    BY <1>1, <1>2, <2>3, <2>4 DEF PartiallyFinalized
  <2> QED
    BY <2>3, <2>6, <2>7
<1>4. PICK j \in DOMAIN p.ins : p.ins[j].final
  BY DEF IsFinalized
<1>5. p.ins[j].final = p.ins[1].final /\ p.ins[i].final = p.ins[1].final
  BY <1>3
<1>6. p.ins[i].final
  BY <1>4, <1>5
<1> QED
  BY <1>2, <1>6 DEF PartiallyFinalized
-----------------------------------------------------------------------------
(***************************************************************************)
(* What the parser of each type adds.                                        *)
(***************************************************************************)
LEMMA RevocationInputChecked ==
  ASSUME NEW in \in Inputs
  PROVE  /\ RevocationInputError(in) \in Checks
         /\ RevocationInputError(in) = "None" /\ ~in.final =>
              in.sighash_type = "AllPlusAnyoneCanPay" /\ in.paths
<1> DEFINE a == Error(in.sighash_type # "AllPlusAnyoneCanPay", "InvalidSighashType")
           b == Error(~in.paths, "InvalidInputField")
<1>1. /\ a \in Checks /\ (a = "None" => in.sighash_type = "AllPlusAnyoneCanPay")
      /\ b \in Checks /\ (b = "None" => in.paths)
  BY ErrorIn, RefusalNames
<1>2. RevocationInputError(in) = IF in.final THEN "None" ELSE FirstError(<<a, b>>)
  BY DEF RevocationInputError
<1> HIDE DEF a, b
<1> QED
  BY <1>1, <1>2, FirstOf2 DEF Checks

LEMMA FeeBumpInputChecked ==
  ASSUME NEW in \in Inputs
  PROVE  /\ FeeBumpInputError(in) \in Checks
         /\ FeeBumpInputError(in) = "None" /\ ~in.final =>
              in.sighash_type = "All" /\ in.witness_script = "None"
<1> DEFINE a == Error(in.sighash_type # "All", "InvalidSighashType")
           b == Error(in.witness_script # "None", "InvalidInputField")
<1>1. /\ a \in Checks /\ (a = "None" => in.sighash_type = "All")
      /\ b \in Checks /\ (b = "None" => in.witness_script = "None")
  BY ErrorIn, RefusalNames
<1>2. FeeBumpInputError(in) = IF in.final THEN "None" ELSE FirstError(<<a, b>>)
  BY DEF FeeBumpInputError
<1> HIDE DEF a, b
<1> QED
  BY <1>1, <1>2, FirstOf2 DEF Checks

LEMMA UnvaultInputChecked ==
  ASSUME NEW in \in Inputs
  PROVE  /\ UnvaultInputError(in) \in Checks
         /\ UnvaultInputError(in) = "None" /\ ~in.final =>
              in.sighash_type = "All" /\ in.paths /\ Matches(in)
<1> DEFINE a == Error(in.sighash_type # "All", "InvalidSighashType")
           b == Error(~in.paths, "InvalidInputField")
           c == Error(in.witness_script = "None", "MissingInWitnessScript")
           d == Error(~Matches(in), "InvalidInWitnessScript")
<1>1. /\ a \in Checks /\ (a = "None" => in.sighash_type = "All")
      /\ b \in Checks /\ (b = "None" => in.paths)
      /\ c \in Checks
      /\ d \in Checks /\ (d = "None" => Matches(in))
  BY ErrorIn, RefusalNames
<1>2. UnvaultInputError(in) = IF in.final THEN "None" ELSE FirstError(<<a, b, c, d>>)
  BY DEF UnvaultInputError
<1> HIDE DEF a, b, c, d
<1> QED
  BY <1>1, <1>2, FirstOf4 DEF Checks

LEMMA SpendInputChecked ==
  ASSUME NEW in \in Inputs
  PROVE  /\ SpendInputError(in) \in Checks
         /\ SpendInputError(in) = "None" =>
              /\ in.kind = "P2wsh"
              /\ ~in.final => in.sighash_type = "All" /\ in.paths /\ Matches(in)
<1> DEFINE a == Error(in.sighash_type # "All", "InvalidSighashType")
           b == Error(in.witness_script = "None", "MissingInWitnessScript")
           c == Error(~Matches(in), "InvalidInWitnessScript")
           d == Error(~in.paths, "InvalidInputField")
<1>1. /\ a \in Checks /\ (a = "None" => in.sighash_type = "All")
      /\ b \in Checks
      /\ c \in Checks /\ (c = "None" => Matches(in))
      /\ d \in Checks /\ (d = "None" => in.paths)
  BY ErrorIn, RefusalNames
<1>2. SpendInputError(in) =
        IF in.kind # "P2wsh" THEN "InvalidInputField"
        ELSE IF in.final THEN "None" ELSE FirstError(<<a, b, c, d>>)
  BY DEF SpendInputError
<1>3. "InvalidInputField" \in Checks /\ "InvalidInputField" # "None"
  BY RefusalNames DEF Checks
<1> HIDE DEF a, b, c, d
<1> QED
  BY <1>1, <1>2, <1>3, FirstOf4 DEF Checks

OnlyVaultKinds(p) ==
  \A i \in DOMAIN p.ins : p.ins[i].kind \in {"P2wsh", "P2wpkh"}

\* A revocation transaction that is accepted spends one output of the vault, and
\* possibly one that bumps the fees.
LEMMA RevocationChecked ==
  ASSUME NEW p, FileOK(p)
  PROVE  /\ RevocationInputsError(p) \in Checks
         /\ RevocationInputsError(p) = "None" /\ OnlyVaultKinds(p) =>
              /\ Len(p.ins) \in 1..2
              /\ \E f \in DOMAIN p.ins :
                   /\ OfKind(p, "P2wsh") = {f} /\ Find(p, "P2wsh") = f
                   /\ RevocationInputError(p.ins[f]) = "None"
              /\ Len(p.ins) = 2 =>
                   \E g \in DOMAIN p.ins :
                     /\ OfKind(p, "P2wpkh") = {g} /\ Find(p, "P2wpkh") = g
                     /\ FeeBumpInputError(p.ins[g]) = "None"
<1>1. /\ DOMAIN p.ins = 1..Len(p.ins) /\ Len(p.ins) \in Nat
      /\ \A j \in DOMAIN p.ins : p.ins[j] \in Inputs
  BY FileFacts
<1> DEFINE wsh == OfKind(p, "P2wsh")
           wpkh == OfKind(p, "P2wpkh")
<1>2. OnlyVaultKinds(p) => wsh \cup wpkh = DOMAIN p.ins /\ wsh \cap wpkh = {}
  BY DEF OfKind, OnlyVaultKinds
<1>3. ASSUME NEW kind, OfKind(p, kind) # {}
      PROVE  Find(p, kind) \in OfKind(p, kind)
  <2>1. OfKind(p, kind) \subseteq Nat
    BY <1>1 DEF OfKind
  <2>2. \E i \in OfKind(p, kind) : \A j \in OfKind(p, kind) : i <= j
    BY <1>3, <2>1, Least
  <2> QED
    BY <2>2 DEF Find
<1> DEFINE a == Error(Len(p.ins) > 2, "InvalidInputCount")
           b == IF Len(p.ins) <= 1 THEN "None"
                ELSE IF wpkh = {} THEN "MissingFeeBumpingInput"
                ELSE FeeBumpInputError(p.ins[Find(p, "P2wpkh")])
           c == IF wsh = {} THEN "MissingRevocationInput"
                ELSE RevocationInputError(p.ins[Find(p, "P2wsh")])
<1>4. RevocationInputsError(p) = FirstError(<<a, b, c>>)
  BY DEF RevocationInputsError
<1>5. a \in Checks /\ (a = "None" => Len(p.ins) <= 2)
  <2>1. a \in Checks /\ (a = "None" => ~(Len(p.ins) > 2))
    BY ErrorIn, RefusalNames
  <2> HIDE DEF a
  <2> QED
    BY <1>1, <2>1
<1>6. wsh \subseteq DOMAIN p.ins /\ wpkh \subseteq DOMAIN p.ins
  BY DEF OfKind
<1>7. /\ "MissingFeeBumpingInput" \in Checks /\ "MissingRevocationInput" \in Checks
      /\ "None" \in Checks
  BY RefusalNames DEF Checks
<1>8. b \in Checks
  <2>1. CASE Len(p.ins) <= 1 \/ wpkh = {}
    BY <1>7, <2>1
  <2>2. CASE ~(Len(p.ins) <= 1) /\ wpkh # {}
    BY <1>1, <1>3, <1>6, <2>2, FeeBumpInputChecked
  <2> QED
    BY <2>1, <2>2
<1>9. c \in Checks
  <2>1. CASE wsh = {}
    BY <1>7, <2>1
  <2>2. CASE wsh # {}
    BY <1>1, <1>3, <1>6, <2>2, RevocationInputChecked
  <2> QED
    BY <2>1, <2>2
<1>10. ASSUME a = "None", b = "None", c = "None", OnlyVaultKinds(p)
       PROVE  /\ Len(p.ins) \in 1..2
              /\ \E f \in DOMAIN p.ins :
                   /\ OfKind(p, "P2wsh") = {f} /\ Find(p, "P2wsh") = f
                   /\ RevocationInputError(p.ins[f]) = "None"
              /\ Len(p.ins) = 2 =>
                   \E g \in DOMAIN p.ins :
                     /\ OfKind(p, "P2wpkh") = {g} /\ Find(p, "P2wpkh") = g
                     /\ FeeBumpInputError(p.ins[g]) = "None"
  <2>1. wsh # {} /\ RevocationInputError(p.ins[Find(p, "P2wsh")]) = "None"
    BY <1>10
  <2>2. Find(p, "P2wsh") \in wsh
    BY <1>3, <2>1
  <2>3. Len(p.ins) \in 1..2
    <3>1. Len(p.ins) <= 2
      BY <1>5, <1>10
    <3> DEFINE n == Len(p.ins)
               f == Find(p, "P2wsh")
    <3>2. n \in Nat /\ n <= 2 /\ f \in 1..n
      BY <1>1, <1>6, <2>2, <3>1
    <3> HIDE DEF n, f
    <3>3. n \in 1..2
      BY <3>2
    <3> QED
      BY <3>3 DEF n
  <2>4. CASE Len(p.ins) = 1
    <3>1. DOMAIN p.ins = {1}
      BY <1>1, <2>4
    <3>2. wsh = {1} /\ Find(p, "P2wsh") = 1
      BY <1>6, <2>2, <3>1
    <3> QED
      BY <2>1, <2>3, <2>4, <3>1, <3>2
  <2>5. CASE Len(p.ins) = 2
    <3>1. wpkh # {} /\ FeeBumpInputError(p.ins[Find(p, "P2wpkh")]) = "None"
      BY <1>10, <2>5
    <3>2. Find(p, "P2wpkh") \in wpkh
      BY <1>3, <3>1
    <3>3. DOMAIN p.ins = {1, 2}
      BY <1>1, <2>5
    <3> DEFINE f == Find(p, "P2wsh")
               g == Find(p, "P2wpkh")
    <3> HIDE DEF f, g, wsh, wpkh
    <3>4. f \in wsh /\ g \in wpkh
      BY <2>2, <3>2 DEF f, g
    <3>5. wsh = {f} /\ wpkh = {g} /\ f \in DOMAIN p.ins /\ g \in DOMAIN p.ins
      BY <1>2, <1>6, <1>10, <3>3, <3>4
    <3> QED
      BY <2>1, <2>3, <3>1, <3>5 DEF f, g, wsh, wpkh
  <2> QED
    BY <2>3, <2>4, <2>5
<1> HIDE DEF a, b, c
<1> QED
  BY <1>4, <1>5, <1>8, <1>9, <1>10, FirstOf3

LEMMA AcceptedKinds ==
  ASSUME NEW p, FileOK(p), CommonError(p) = "None"
  PROVE  OnlyVaultKinds(p)
BY CommonChecked, InputChecked, FileFacts DEF OnlyVaultKinds, Inputs, OutputKinds

LEMMA RevocationTypeChecked ==
  ASSUME NEW p, FileOK(p), NEW type \in RevocationTypes
  PROVE  /\ RevocationError(type, p) \in Checks
         /\ RevocationError(type, p) = "None" =>
              /\ Len(p.outs) = 1 /\ RevocationInputsError(p) = "None"
              /\ type = "Cancel" => p.outs[1].paths
<1> DEFINE a == IF type = "Cancel" THEN CancelOutputError(p) ELSE "None"
           b == RevocationInputsError(p)
<1>1. a \in Checks /\ (a = "None" /\ type = "Cancel" => p.outs[1].paths)
  <2>1. /\ CancelOutputError(p) \in Checks
        /\ CancelOutputError(p) = "None" => ~(~p.outs[1].paths \/ p.outs[1].redeem_script)
    BY ErrorIn, RefusalNames DEF CancelOutputError
  <2> QED
    BY <2>1 DEF Checks
<1>2. b \in Checks
  BY RevocationChecked
<1>3. RevocationError(type, p) =
        IF Len(p.outs) # 1 THEN "InvalidOutputCount" ELSE FirstError(<<a, b>>)
  BY DEF RevocationError
<1>4. "InvalidOutputCount" \in Checks /\ "InvalidOutputCount" # "None"
  BY RefusalNames DEF Checks
<1>5. b = RevocationInputsError(p)
  OBVIOUS
<1> HIDE DEF a, b
<1> QED
  BY <1>1, <1>2, <1>3, <1>4, <1>5, FirstOf2

LEMMA UnvaultChecked ==
  ASSUME NEW p, FileOK(p)
  PROVE  /\ UnvaultParseError(p) \in Checks
         /\ UnvaultParseError(p) = "None" =>
              /\ Len(p.outs) = 2 /\ \A j \in DOMAIN p.outs : p.outs[j].paths
              /\ Len(p.ins) = 1 /\ UnvaultInputError(p.ins[1]) = "None"
<1> DEFINE a == Error(Len(p.outs) # 2, "InvalidOutputCount")
           b == Error(\E j \in DOMAIN p.outs : ~p.outs[j].paths, "InvalidOutputField")
           c == IF Len(p.ins) # 1 THEN "InvalidInputCount" ELSE UnvaultInputError(p.ins[1])
<1>1. /\ a \in Checks /\ (a = "None" => ~(Len(p.outs) # 2))
      /\ b \in Checks /\ (b = "None" => ~(\E j \in DOMAIN p.outs : ~p.outs[j].paths))
  BY ErrorIn, RefusalNames
<1>2. "InvalidInputCount" \in Checks /\ "InvalidInputCount" # "None"
  BY RefusalNames DEF Checks
<1>3. Len(p.ins) = 1 => UnvaultInputError(p.ins[1]) \in Checks
  BY FileFacts, UnvaultInputChecked
<1>4. c \in Checks /\ (c = "None" => Len(p.ins) = 1 /\ UnvaultInputError(p.ins[1]) = "None")
  BY <1>2, <1>3
<1>5. UnvaultParseError(p) = FirstError(<<a, b, c>>)
  BY DEF UnvaultParseError
<1> HIDE DEF a, b, c
<1> QED
  BY <1>1, <1>4, <1>5, FirstOf3

LEMMA SpendChecked ==
  ASSUME NEW p, FileOK(p)
  PROVE  /\ SpendParseError(p) \in Checks
         /\ SpendParseError(p) = "None" =>
              p.ins # <<>> /\ \A i \in DOMAIN p.ins : SpendInputError(p.ins[i]) = "None"
<1> DEFINE a == <<Error(p.ins = <<>>, "InvalidInputCount")>>
           b == [i \in DOMAIN p.ins |-> SpendInputError(p.ins[i])]
           c1 == Cardinality({j \in DOMAIN p.outs : p.outs[j].paths}) \notin 1..2
           c2 == TotalWeight(p) > MAX_STANDARD_TX_WEIGHT
           c == <<Error(c1, "InvalidCountOuputWithDerivations"), Error(c2, "TransactionTooLarge")>>
           n == Len(p.ins)
<1>1. a \in Seq(Checks) /\ DOMAIN a = 1..1 /\ (a[1] = "None" => p.ins # <<>>)
  <2>1. /\ Error(p.ins = <<>>, "InvalidInputCount") \in Checks
        /\ Error(p.ins = <<>>, "InvalidInputCount") = "None" => ~(p.ins = <<>>)
    BY ErrorIn, RefusalNames
  <2> QED
    BY <2>1
<1>2. n \in Nat /\ b \in [1..n -> Checks]
  BY FileFacts, SpendInputChecked
<1>3. c \in Seq(Checks)
  <2> HIDE DEF c1, c2
  <2>1. /\ Error(c1, "InvalidCountOuputWithDerivations") \in Checks
        /\ Error(c2, "TransactionTooLarge") \in Checks
    BY ErrorIn, RefusalNames
  <2> QED
    BY <2>1
<1>4. \A i \in DOMAIN p.ins : b[i] = SpendInputError(p.ins[i])
  OBVIOUS
<1>5. SpendParseError(p) = FirstError(a \o b \o c)
  BY DEF SpendParseError
<1>6. DOMAIN p.ins = 1..n
  BY FileFacts
<1> HIDE DEF a, b, c, n
<1>7. /\ FirstError(a \o b \o c) \in Checks
      /\ FirstError(a \o b \o c) = "None" =>
           (\A i \in DOMAIN a : a[i] = "None") /\ (\A i \in 1..n : b[i] = "None")
  BY <1>1, <1>2, <1>3, FirstAround
<1>8. 1 \in DOMAIN a
  BY <1>1
<1> QED
  BY <1>1, <1>4, <1>5, <1>6, <1>7, <1>8

\* from_raw_psbt() refuses with an error of error.rs, or every check held.
LEMMA ParseChecked ==
  ASSUME NEW p, FileOK(p), NEW t \in TxTypes
  PROVE  /\ ParseError(t, p) \in Checks
         /\ ParseError(t, p) = "None" =>
              /\ CommonError(p) = "None"
              /\ t \in RevocationTypes => RevocationError(t, p) = "None"
              /\ t = "Unvault" => UnvaultParseError(p) = "None"
              /\ t = "Spend" => SpendParseError(p) = "None"
<1> DEFINE a == CommonError(p)
           b == CASE t \in RevocationTypes -> RevocationError(t, p)
                  [] t = "Unvault" -> UnvaultParseError(p)
                  [] t = "Spend" -> SpendParseError(p)
<1>1. "Unvault" \notin RevocationTypes /\ "Spend" \notin RevocationTypes
  BY DEF RevocationTypes
<1>2. t \in RevocationTypes \/ t = "Unvault" \/ t = "Spend"
  BY DEF TxTypes
<1>3. /\ t \in RevocationTypes => b = RevocationError(t, p)
      /\ t = "Unvault" => b = UnvaultParseError(p)
      /\ t = "Spend" => b = SpendParseError(p)
  BY <1>1
<1>4. ParseError(t, p) = FirstError(<<a, b>>)
  BY DEF ParseError
<1>5. a \in Checks /\ a = CommonError(p)
  BY CommonChecked
<1> HIDE DEF a, b
<1>6. b \in Checks
  BY <1>2, <1>3, RevocationTypeChecked, UnvaultChecked, SpendChecked
<1> QED
  BY <1>3, <1>4, <1>5, <1>6, FirstOf2

LEMMA DriverOutcome ==
  ASSUME NEW p, FileOK(p), NEW t \in TxTypes
  PROVE  /\ Driver(t, p) \in Outcomes \ {"NotRead"}
         /\ Driver(t, p) \in {"None", "Panic"} => ParseError(t, p) = "None"
         /\ Driver(t, p) = "Panic" => ~DriverHolds(t, p)
<1>1. ParseError(t, p) \in Checks
  BY ParseChecked
<1> QED
  BY <1>1 DEF Driver, Error, Checks, Refusals, Outcomes
-----------------------------------------------------------------------------
(***************************************************************************)
(* The calls on what was accepted.                                           *)
(***************************************************************************)

\* On an input that the parser left with a script that matches, or with none
\* where none is due.
LEMMA UnsignedInputSigns ==
  ASSUME NEW p, FileOK(p), CommonError(p) = "None", NEW i \in DOMAIN p.ins,
         ~p.ins[i].final, p.ins[i].sighash_type # "None",
         p.ins[i].kind = "P2wpkh" => p.ins[i].witness_script = "None"
  PROVE  SignatureHash(p, i) = "None" /\ AddInvalidSignature(p, i) = "InvalidSignature"
<1>1. /\ p.ins[i].kind \in {"P2wsh", "P2wpkh"} /\ p.ins[i].kind # "None"
      /\ ~p.ins[i].non_witness_utxo /\ ~p.ins[i].redeem_script
      /\ p.ins[i].kind = "P2wsh" => Matches(p.ins[i])
  BY AcceptedKinds, CommonChecked, InputChecked DEF OnlyVaultKinds
<1>2. SignatureHash(p, i) = "None"
  BY <1>1 DEF SignatureHash, Matches, Error
<1>3. InputAsserts(p.ins[i])
  BY <1>1 DEF InputAsserts, Matches
<1>4. FirstError(<<"None", "InvalidSignature">>) = "InvalidSignature"
  BY FirstOfTwo
<1> QED
  BY <1>2, <1>3, <1>4 DEF AddInvalidSignature

LEMMA FinalInputRefuses ==
  ASSUME NEW p, FileOK(p), CommonError(p) = "None", IsFinalized(p),
         NEW i \in DOMAIN p.ins
  PROVE  /\ AddInvalidSignature(p, i) = "AlreadyFinalized"
         /\ p.ins[i].kind = "P2wsh" => SignatureHash(p, i) = "MissingWitnessScript"
BY NotMixed DEF AddInvalidSignature, SignatureHash, Error

\* fuzz_targets/parse_cancel.rs, parse_emergency.rs and parse_unvault_emergency.rs.
LEMMA RevocationHolds ==
  ASSUME NEW p, FileOK(p), NEW t \in RevocationTypes, ParseError(t, p) = "None"
  PROVE  DriverHolds(t, p)
<1>1. /\ CommonError(p) = "None" /\ OnlyVaultKinds(p)
      /\ RevocationError(t, p) = "None" /\ RevocationInputsError(p) = "None"
      /\ t = "Cancel" => p.outs[1].paths
  BY ParseChecked, AcceptedKinds, RevocationTypeChecked DEF TxTypes
<1>2. /\ DOMAIN p.ins = 1..Len(p.ins) /\ Len(p.ins) \in 1..2
      /\ \A i \in DOMAIN p.ins : p.ins[i] \in Inputs
  BY <1>1, FileFacts, RevocationChecked
<1>3. PICK f \in DOMAIN p.ins :
        /\ OfKind(p, "P2wsh") = {f} /\ Find(p, "P2wsh") = f
        /\ RevocationInputError(p.ins[f]) = "None"
  BY <1>1, RevocationChecked
<1>4. p.ins[f].kind = "P2wsh"
  BY <1>3 DEF OfKind
<1>5. SignsAsExpected(p, f)
  <2>1. CASE IsFinalized(p)
    BY <1>1, <1>4, <2>1, FinalInputRefuses DEF SignsAsExpected
  <2>2. CASE ~IsFinalized(p)
    <3>1. ~p.ins[f].final
      BY <2>2 DEF IsFinalized
    <3>2. p.ins[f].sighash_type = "AllPlusAnyoneCanPay" /\ p.ins[f].paths
      BY <1>2, <1>3, <3>1, RevocationInputChecked
    <3> QED
      BY <1>1, <1>4, <2>2, <3>1, <3>2, UnsignedInputSigns DEF SignsAsExpected
  <2> QED
    BY <2>1, <2>2
<1>6. BumpSignsAsExpected(p)
  <2>1. CASE Len(p.ins) = 1
    <3>1. 2 \notin DOMAIN p.ins /\ Len(p.ins) <= 1
      BY <1>2, <2>1
    <3> QED
      BY <3>1 DEF BumpSignsAsExpected, AddInvalidSignature
  <2>2. CASE Len(p.ins) = 2
    <3>1. PICK g \in DOMAIN p.ins :
            /\ OfKind(p, "P2wpkh") = {g} /\ Find(p, "P2wpkh") = g
            /\ FeeBumpInputError(p.ins[g]) = "None"
      BY <1>1, <2>2, RevocationChecked
    <3>2. AddInvalidSignature(p, g)
            = IF IsFinalized(p) THEN "AlreadyFinalized" ELSE "InvalidSignature"
      <4>1. CASE IsFinalized(p)
        BY <1>1, <4>1, FinalInputRefuses
      <4>2. CASE ~IsFinalized(p)
        <5>1. ~p.ins[g].final
          BY <4>2 DEF IsFinalized
        <5>2. p.ins[g].sighash_type = "All" /\ p.ins[g].witness_script = "None"
          BY <1>2, <3>1, <5>1, FeeBumpInputChecked
        <5> QED
          BY <1>1, <4>2, <5>1, <5>2, UnsignedInputSigns
      <4> QED
        BY <4>1, <4>2
    <3>3. ~(Len(p.ins) <= 1) /\ OfKind(p, "P2wpkh") # {}
      BY <2>2, <3>1
    <3> QED
      BY <3>1, <3>2, <3>3 DEF BumpSignsAsExpected
  <2>3. Len(p.ins) = 1 \/ Len(p.ins) = 2
    <3> DEFINE n == Len(p.ins)
    <3>1. n \in 1..2
      BY <1>2
    <3> HIDE DEF n
    <3>2. n = 1 \/ n = 2
      BY <3>1
    <3> QED
      BY <3>2 DEF n
  <2> QED
    BY <2>1, <2>2, <2>3
<1>7. RevocationDriver(t, p)
  BY <1>1, <1>3, <1>5, <1>6 DEF RevocationDriver
<1>8. "Unvault" \notin RevocationTypes /\ "Spend" \notin RevocationTypes
  BY DEF RevocationTypes
<1> QED
  BY <1>7, <1>8 DEF DriverHolds

\* fuzz_targets/parse_spend.rs: max_feerate() too.
LEMMA SpendHolds ==
  ASSUME NEW p, FileOK(p), ParseError("Spend", p) = "None"
  PROVE  DriverHolds("Spend", p)
<1>1. /\ CommonError(p) = "None" /\ SpendParseError(p) = "None"
      /\ AmountsError(p) = "None"
  BY ParseChecked, CommonChecked DEF TxTypes
<1>2. ASSUME NEW i \in DOMAIN p.ins
      PROVE  /\ p.ins[i].kind = "P2wsh" /\ p.ins[i] \in Inputs
             /\ ~p.ins[i].final =>
                  p.ins[i].sighash_type = "All" /\ p.ins[i].paths /\ Matches(p.ins[i])
  BY <1>1, FileFacts, SpendChecked, SpendInputChecked
<1>3. ASSUME NEW i \in DOMAIN p.ins PROVE SignsAsExpected(p, i)
  <2>1. CASE IsFinalized(p)
    BY <1>1, <1>2, <2>1, FinalInputRefuses DEF SignsAsExpected
  <2>2. CASE ~IsFinalized(p)
    <3>1. ~p.ins[i].final
      BY <2>2 DEF IsFinalized
    <3> QED
      BY <1>1, <1>2, <2>2, <3>1, UnsignedInputSigns DEF SignsAsExpected
  <2> QED
    BY <2>1, <2>2
<1>4. Sent(p) <= Spent(p)
  BY <1>1 DEF AmountsError, Error, FeesParse
<1>5. ~MaxFeeratePanics(p)
  <2>1. ASSUME NEW i \in DOMAIN p.ins
        PROVE  ~(p.ins[i].kind = "None")
    BY <1>2
  <2>2. ASSUME NEW i \in DOMAIN p.ins
        PROVE  ~(IF IsFinalized(p) THEN ~p.ins[i].final
                 ELSE p.ins[i].witness_script \in {"None", "Insane"})
    <3>1. CASE IsFinalized(p)
      BY <1>1, <3>1, NotMixed
    <3>2. CASE ~IsFinalized(p)
      <4>1. Matches(p.ins[i])
        BY <1>2, <3>2 DEF IsFinalized
      <4> QED
        BY <3>2, <4>1 DEF Matches
    <3> QED
      BY <3>1, <3>2
  <2> QED
    BY <1>4, <2>1, <2>2 DEF MaxFeeratePanics
<1>6. SpendDriver(p)
  BY <1>3, <1>5 DEF SpendDriver
<1> QED
  BY <1>6 DEF DriverHolds, RevocationTypes
-----------------------------------------------------------------------------
(***************************************************************************)
(* What constructors and other software put in a file.                       *)
(***************************************************************************)
LEMMA FileParts ==
  ASSUME NEW p \in Files,
         NEW ins \in Seq(Inputs), NEW prevouts \in Seq(Nat), NEW outs \in Seq(Outputs),
         Len(prevouts) = Len(ins)
  PROVE  FileOK([p EXCEPT !.ins = ins, !.prevouts = prevouts, !.outs = outs])
BY DEF FileOK, Files

LEMMA Numbered ==
  ASSUME NEW ins \in Seq(Inputs), NEW outs \in Seq(Outputs)
  PROVE  FileOK(Psbt(ins, outs))
<1>1. /\ [i \in DOMAIN ins |-> i] \in Seq(Nat)
      /\ Len([i \in DOMAIN ins |-> i]) = Len(ins)
  OBVIOUS
<1> QED
  BY <1>1 DEF Psbt, FileOK, Files

LEMMA Listed ==
  ASSUME NEW S
  PROVE  /\ \A x \in S : <<x>> \in Seq(S)
         /\ \A x, y \in S : <<x, y>> \in Seq(S)
OBVIOUS

LEMMA Mapped ==
  ASSUME NEW S, NEW T, NEW s \in Seq(S), NEW g,
         g = [i \in DOMAIN g |-> g[i]], DOMAIN g = DOMAIN s,
         \A i \in DOMAIN s : g[i] \in T
  PROVE  g \in Seq(T)
<1>1. PICK n \in Nat : DOMAIN s = 1..n
  OBVIOUS
<1>2. g \in [1..n -> T]
  BY <1>1
<1> QED
  BY <1>2

LEMMA BuiltInput ==
  ASSUME NEW v \in Nat
  PROVE  /\ \A t \in SigHashTypes : WshInput(v, t) \in Inputs
         /\ FeeBumpInput(v) \in Inputs
BY DEF WshInput, FeeBumpInput, Inputs, OutputKinds, SigHashTypes, Scripts

LEMMA BuiltOutput ==
  \A v \in Nat, b \in BOOLEAN : Output(v, b) \in Outputs
BY DEF Output, Outputs

LEMMA Fees ==
  /\ UnvaultFees \in Nat /\ CancelFees \in Nat
  /\ EmergencyFees \in Nat /\ UnvaultEmergencyFees \in Nat
BY ConstructorsAssumption
   DEF UnvaultFees, CancelFees, EmergencyFees, UnvaultEmergencyFees, UnvaultWeight,
       RevocationWeight, Weight, UNVAULT_TX_FEERATE, CANCEL_TX_FEERATE, EMER_TX_FEERATE

\* No constructor subtracts more than there is.
LEMMA UnvaultBuilt ==
  ASSUME NEW d \in Nat, UnvaultError(d) = "None"
  PROVE  UnvaultValue(d) \in Nat /\ FileOK(UnvaultPsbt(d))
<1>1. UnvaultFees + UNVAULT_CPFP_VALUE + DUST_LIMIT <= d
  BY Fees DEF UnvaultError, UNVAULT_CPFP_VALUE, DUST_LIMIT
<1>2. UnvaultValue(d) \in Nat /\ UNVAULT_CPFP_VALUE \in Nat
  BY <1>1, Fees DEF UnvaultValue, UNVAULT_CPFP_VALUE, DUST_LIMIT
<1>3. WshInput(d, "All") \in Inputs
  BY BuiltInput DEF SigHashTypes
<1>4. Output(UnvaultValue(d), TRUE) \in Outputs /\ Output(UNVAULT_CPFP_VALUE, TRUE) \in Outputs
  BY <1>2, BuiltOutput
<1>5. <<WshInput(d, "All")>> \in Seq(Inputs)
  BY <1>3, Listed, Zenon
<1>6. <<Output(UnvaultValue(d), TRUE), Output(UNVAULT_CPFP_VALUE, TRUE)>> \in Seq(Outputs)
  BY <1>4, Listed, Zenon
<1> QED
  BY <1>2, <1>5, <1>6, Numbered, Zenon DEF UnvaultPsbt

LEMMA RevocationBuilt ==
  ASSUME NEW type \in RevocationTypes, NEW v \in Nat, NEW fees \in Nat, NEW fb \in Nat,
         fees <= v
  PROVE  FileOK(RevocationPsbt(RevocationTx(type, v, fees, fb)))
<1> DEFINE tx == RevocationTx(type, v, fees, fb)
           first == <<WshInput(v, "AllPlusAnyoneCanPay")>>
           bump == IF fb = 0 THEN <<>> ELSE <<FeeBumpInput(fb)>>
           outs == <<Output(v - fees, type = "Cancel")>>
<1>1. tx.in = v /\ tx.feebump = fb /\ tx.out = v - fees /\ tx.type = type
  BY DEF RevocationTx
<1>2. RevocationPsbt(tx) = Psbt(first \o bump, outs)
  BY <1>1 DEF RevocationPsbt
<1>3. first \in Seq(Inputs)
  BY BuiltInput DEF SigHashTypes
<1>4. bump \in Seq(Inputs)
  BY BuiltInput
<1>5. outs \in Seq(Outputs)
  <2>1. v - fees \in Nat /\ (type = "Cancel") \in BOOLEAN
    OBVIOUS
  <2>2. Output(v - fees, type = "Cancel") \in Outputs
    BY <2>1, BuiltOutput, Zenon
  <2> QED
    BY <2>2, Listed, Zenon
<1> HIDE DEF tx, first, bump, outs
<1>6. first \o bump \in Seq(Inputs)
  BY <1>3, <1>4
<1> QED
  BY <1>2, <1>5, <1>6, Numbered DEF tx

LEMMA SpendBuilt ==
  ASSUME NEW us \in Seq(Nat), NEW outs \in Seq(Nat), NEW change \in Seq(Nat)
  PROVE  FileOK(SpendPsbt(us, outs, change))
<1> DEFINE cpfp == SpendCpfpValue(Len(us), Len(outs \o change))
           ins == [i \in DOMAIN us |-> WshInput(us[i], "All")]
           first == <<Output(cpfp, TRUE)>>
           b == [i \in DOMAIN outs |-> Output(outs[i], FALSE)]
           c == [i \in DOMAIN change |-> Output(change[i], TRUE)]
<1>1. cpfp \in Nat
  <2>1. ASSUME NEW n \in Nat, NEW m \in Nat PROVE SpendCpfpValue(n, m) \in Nat
    <3>1. n * UnvaultSat \in Nat
      BY ConstructorsAssumption
    <3>2. Weight(n, m + 1) \in Nat
      BY DEF Weight
    <3> QED
      BY <3>1, <3>2 DEF SpendCpfpValue, SpendWeight
  <2>2. Len(us) \in Nat /\ Len(outs \o change) \in Nat
    OBVIOUS
  <2> QED
    BY <2>1, <2>2
<1>2. SpendPsbt(us, outs, change) = Psbt(ins, first \o b \o c)
  BY DEF SpendPsbt, SpendTx
<1>3. /\ DOMAIN ins = DOMAIN us /\ \A i \in DOMAIN us : ins[i] = WshInput(us[i], "All")
      /\ DOMAIN b = DOMAIN outs /\ \A i \in DOMAIN outs : b[i] = Output(outs[i], FALSE)
      /\ DOMAIN c = DOMAIN change /\ \A i \in DOMAIN change : c[i] = Output(change[i], TRUE)
      /\ ins = [i \in DOMAIN ins |-> ins[i]] /\ b = [i \in DOMAIN b |-> b[i]]
      /\ c = [i \in DOMAIN c |-> c[i]]
  OBVIOUS
<1>4. ASSUME NEW seq \in Seq(Nat), NEW i \in DOMAIN seq PROVE seq[i] \in Nat
  OBVIOUS
<1> HIDE DEF cpfp, ins, b, c
<1>5. first \in Seq(Outputs)
  <2>1. Output(cpfp, TRUE) \in Outputs
    BY <1>1, BuiltOutput
  <2> QED
    BY <2>1, Listed, Zenon
<1>6. ins \in Seq(Inputs)
  <2>1. \A i \in DOMAIN us : ins[i] \in Inputs
    BY <1>3, <1>4, BuiltInput DEF SigHashTypes
  <2> QED
    BY <1>3, <2>1, Mapped
<1>7. b \in Seq(Outputs)
  <2>1. \A i \in DOMAIN outs : b[i] \in Outputs
    BY <1>3, <1>4, BuiltOutput
  <2> QED
    BY <1>3, <2>1, Mapped
<1>8. c \in Seq(Outputs)
  <2>1. \A i \in DOMAIN change : c[i] \in Outputs
    BY <1>3, <1>4, BuiltOutput
  <2> QED
    BY <1>3, <2>1, Mapped
<1> HIDE DEF first
<1>9. first \o b \o c \in Seq(Outputs)
  BY <1>5, <1>7, <1>8
<1> QED
  BY <1>2, <1>6, <1>9, Numbered

LEMMA MadeOK ==
  ASSUME NEW f \in MadeFiles
  PROVE  f.made \in TxTypes /\ FileOK(f.file)
<1>1. \A d \in Deposits : d \in Nat
  BY ParsingAssumption
<1>2. \A u \in UnvaultValues : u \in Nat
  BY <1>1, UnvaultBuilt DEF UnvaultValues
<1>3. \A fb \in FeeBumps : fb \in Nat
  BY ParsingAssumption
<1>4. CASE \E d \in Deposits : UnvaultError(d) = "None" /\ f = Made("Unvault", UnvaultPsbt(d))
  BY <1>1, <1>4, UnvaultBuilt DEF Made, TxTypes
<1>5. CASE \E u \in UnvaultValues, fb \in FeeBumps :
             /\ CancelError(u, fb) = "None" /\ f = Made("Cancel", RevocationPsbt(CancelTx(u, fb)))
  <2>1. PICK u \in UnvaultValues, fb \in FeeBumps :
          /\ CancelError(u, fb) = "None" /\ f = Made("Cancel", RevocationPsbt(CancelTx(u, fb)))
    BY <1>5
  <2>2. u \in Nat /\ fb \in Nat /\ CancelFees <= u
    BY <1>2, <1>3, <2>1, Fees DEF CancelError
  <2> QED
    BY <2>1, <2>2, Fees, RevocationBuilt DEF CancelTx, Made, TxTypes, RevocationTypes
<1>6. CASE \E d \in Deposits, fb \in FeeBumps :
             /\ EmergencyError(d, fb) = "None"
             /\ f = Made("Emergency", RevocationPsbt(EmergencyTx(d, fb)))
  <2>1. PICK d \in Deposits, fb \in FeeBumps :
          /\ EmergencyError(d, fb) = "None"
          /\ f = Made("Emergency", RevocationPsbt(EmergencyTx(d, fb)))
    BY <1>6
  <2>2. d \in Nat /\ fb \in Nat /\ EmergencyFees <= d
    BY <1>1, <1>3, <2>1, Fees DEF EmergencyError
  <2> QED
    BY <2>1, <2>2, Fees, RevocationBuilt DEF EmergencyTx, Made, TxTypes, RevocationTypes
<1>7. CASE \E u \in UnvaultValues, fb \in FeeBumps :
             /\ UnvaultEmergencyError(u, fb) = "None"
             /\ f = Made("UnvaultEmergency", RevocationPsbt(UnvaultEmergencyTx(u, fb)))
  <2>1. PICK u \in UnvaultValues, fb \in FeeBumps :
          /\ UnvaultEmergencyError(u, fb) = "None"
          /\ f = Made("UnvaultEmergency", RevocationPsbt(UnvaultEmergencyTx(u, fb)))
    BY <1>7
  <2>2. u \in Nat /\ fb \in Nat /\ UnvaultEmergencyFees <= u
    BY <1>2, <1>3, <2>1, Fees DEF UnvaultEmergencyError
  <2> QED
    BY <2>1, <2>2, Fees, RevocationBuilt DEF UnvaultEmergencyTx, Made, TxTypes, RevocationTypes
<1>8. CASE \E us \in BoundedSeq(UnvaultValues, MaxSpent), outs \in SpendOuts,
              change \in Changes : f = Made("Spend", SpendPsbt(us, outs, change))
  <2>1. PICK us \in BoundedSeq(UnvaultValues, MaxSpent), outs \in SpendOuts,
             change \in Changes : f = Made("Spend", SpendPsbt(us, outs, change))
    BY <1>8
  <2>2. us \in Seq(Nat)
    <3>1. PICK n \in 0..MaxSpent : us \in [1..n -> UnvaultValues]
      BY DEF BoundedSeq, SeqOf
    <3>2. n \in Nat /\ us \in [1..n -> Nat]
      BY <1>2, <3>1, ParsingAssumption
    <3> QED
      BY <3>2
  <2>3. outs \in Seq(Nat) /\ change \in Seq(Nat)
    BY ParsingAssumption
  <2> QED
    BY <2>1, <2>2, <2>3, SpendBuilt DEF Made, TxTypes
<1> QED
  BY <1>4, <1>5, <1>6, <1>7, <1>8 DEF MadeFiles
-----------------------------------------------------------------------------
(***************************************************************************)
(* Other software rewrites fields and lists, never into something that is not *)
(* a PSBT.                                                                   *)
(***************************************************************************)
LEMMA Shortened ==
  ASSUME NEW S, NEW s \in Seq(S), NEW i \in DOMAIN s
  PROVE  RemoveAt(s, i) \in Seq(S) /\ Len(RemoveAt(s, i)) = Len(s) - 1
<1> DEFINE n == Len(s)
           a == SubSeq(s, 1, i - 1)
           b == SubSeq(s, i + 1, n)
<1>1. n \in Nat /\ i \in 1..n /\ \A j \in 1..n : s[j] \in S
  OBVIOUS
<1>2. a \in Seq(S) /\ Len(a) = i - 1
  BY <1>1
<1>3. b \in Seq(S) /\ Len(b) = n - i
  BY <1>1
<1>4. RemoveAt(s, i) = a \o b
  BY DEF RemoveAt
<1> HIDE DEF n, a, b
<1>5. a \o b \in Seq(S) /\ Len(a \o b) = (i - 1) + (n - i)
  BY <1>2, <1>3
<1>6. (i - 1) + (n - i) = n - 1
  BY <1>1
<1> QED
  BY <1>4, <1>5, <1>6 DEF n

LEMMA Reversed ==
  ASSUME NEW S, NEW s \in Seq(S)
  PROVE  Reverse(s) \in Seq(S) /\ Len(Reverse(s)) = Len(s)
<1>1. Len(s) \in Nat /\ \A j \in 1..Len(s) : s[j] \in S
  OBVIOUS
<1>2. \A i \in 1..Len(s) : (Len(s) - i) + 1 \in 1..Len(s)
  BY <1>1
<1>3. Reverse(s) \in [1..Len(s) -> S]
  BY <1>1, <1>2 DEF Reverse
<1> QED
  BY <1>1, <1>3

LEMMA Appended ==
  ASSUME NEW S, NEW s \in Seq(S), NEW x \in S
  PROVE  Append(s, x) \in Seq(S) /\ Len(Append(s, x)) = Len(s) + 1
OBVIOUS

LEMMA Replaced ==
  ASSUME NEW S, NEW s \in Seq(S), NEW i \in DOMAIN s, NEW x \in S
  PROVE  [s EXCEPT ![i] = x] \in Seq(S) /\ Len([s EXCEPT ![i] = x]) = Len(s)
OBVIOUS

LEMMA InputEdited ==
  ASSUME NEW in \in Inputs, NEW new \in InputEdits(in)
  PROVE  new \in Inputs
<1>1. MAX_MONEY + 1 \in Nat
  BY ConstructorsAssumption
<1>2. CASE \/ \E k \in OutputKinds : new = [in EXCEPT !.kind = k]
           \/ \E s \in Scripts : new = [in EXCEPT !.witness_script = s]
           \/ \E s \in SigHashTypes : new = [in EXCEPT !.sighash_type = s]
  BY <1>2 DEF Inputs
<1>3. CASE \/ \E b \in BOOLEAN : new = [in EXCEPT !.final = b]
           \/ \E b \in BOOLEAN : new = [in EXCEPT !.paths = b]
  BY <1>3 DEF Inputs
<1>4. CASE \/ new = [in EXCEPT !.non_witness_utxo = TRUE]
           \/ new = [in EXCEPT !.redeem_script = TRUE]
           \/ new = [in EXCEPT !.value = MAX_MONEY + 1]
  BY <1>1, <1>4 DEF Inputs
<1> QED
  BY <1>2, <1>3, <1>4, Zenon DEF InputEdits

LEMMA OutputEdited ==
  ASSUME NEW out \in Outputs, NEW new \in OutputEdits(out)
  PROVE  new \in Outputs
<1>1. MAX_MONEY + 1 \in Nat /\ DUST_VALUE - 1 \in Nat
  BY ConstructorsAssumption DEF DUST_VALUE
<1> QED
  BY <1>1 DEF OutputEdits, Outputs

LEMMA EditsKeepFile ==
  ASSUME FileOK(file),
         \/ EditVersion \/ EditInput \/ EditPrevout \/ EditOutput \/ AddInput
         \/ SwapInputs \/ DropInput \/ AddOutput \/ DropOutput \/ Finalize
  PROVE  FileOK(file')
<1>1. /\ file \in Files /\ Len(file.prevouts) = Len(file.ins)
      /\ file.ins \in Seq(Inputs) /\ file.prevouts \in Seq(Nat) /\ file.outs \in Seq(Outputs)
      /\ DOMAIN file.prevouts = DOMAIN file.ins
  BY DEF FileOK, Files
<1>2. /\ \A i \in DOMAIN file.ins : file.ins[i] \in Inputs
      /\ \A j \in DOMAIN file.outs : file.outs[j] \in Outputs
      /\ \A i \in DOMAIN file.prevouts : file.prevouts[i] \in Nat
  BY <1>1
<1>3. ASSUME NEW ins \in Seq(Inputs), Len(ins) = Len(file.ins),
             file' = [file EXCEPT !.ins = ins]
      PROVE  FileOK(file')
  BY <1>1, <1>3 DEF FileOK, Files
<1>4. ASSUME NEW outs \in Seq(Outputs), file' = [file EXCEPT !.outs = outs]
      PROVE  FileOK(file')
  BY <1>1, <1>4 DEF FileOK, Files
<1>5. ASSUME NEW ins \in Seq(Inputs), NEW prevouts \in Seq(Nat), Len(prevouts) = Len(ins),
             file' = [file EXCEPT !.ins = ins, !.prevouts = prevouts]
      PROVE  FileOK(file')
  BY <1>1, <1>5 DEF FileOK, Files
<1>6. CASE EditVersion
  BY <1>1, <1>6 DEF EditVersion, Edit, Rewrite, FileOK, Files
<1>7. CASE EditInput
  <2>0. PICK i \in DOMAIN file.ins : \E in \in InputEdits(file.ins[i]) :
          file' = [file EXCEPT !.ins[i] = in]
    BY <1>7 DEF EditInput, Edit, Rewrite
  <2>1. PICK in \in InputEdits(file.ins[i]) : file' = [file EXCEPT !.ins[i] = in]
    BY <2>0
  <2>2. in \in Inputs
    BY <1>2, InputEdited
  <2>3. file' = [file EXCEPT !.ins = [file.ins EXCEPT ![i] = in]]
    BY <1>1, <2>1 DEF Files
  <2> QED
    BY <1>1, <1>3, <2>2, <2>3, Replaced
<1>8. CASE EditPrevout
  <2>1. PICK i \in DOMAIN file.ins, j \in DOMAIN file.ins :
          file' = [file EXCEPT !.prevouts[i] = file.prevouts[j]]
    BY <1>8 DEF EditPrevout, Edit, Rewrite
  <2> DEFINE prevouts == [file.prevouts EXCEPT ![i] = file.prevouts[j]]
  <2>2. file' = [file EXCEPT !.prevouts = prevouts]
    BY <1>1, <2>1 DEF Files
  <2>3. prevouts \in Seq(Nat) /\ Len(prevouts) = Len(file.prevouts)
    BY <1>1, <1>2, Replaced
  <2> HIDE DEF prevouts
  <2> QED
    BY <1>1, <2>2, <2>3 DEF FileOK, Files
<1>9. CASE EditOutput
  <2>0. PICK j \in DOMAIN file.outs : \E out \in OutputEdits(file.outs[j]) :
          file' = [file EXCEPT !.outs[j] = out]
    BY <1>9 DEF EditOutput, Edit, Rewrite
  <2>1. PICK out \in OutputEdits(file.outs[j]) : file' = [file EXCEPT !.outs[j] = out]
    BY <2>0
  <2>2. out \in Outputs
    BY <1>2, OutputEdited
  <2>3. file' = [file EXCEPT !.outs = [file.outs EXCEPT ![j] = out]]
    BY <1>1, <2>1 DEF Files
  <2> QED
    BY <1>1, <1>4, <2>2, <2>3, Replaced
<1>10. CASE AddInput
  <2>1. PICK in \in Inputs :
          file' = [file EXCEPT !.ins = Append(file.ins, in),
                               !.prevouts = Append(file.prevouts, Len(file.ins) + 1)]
    <3>1. PICK in \in {FeeBumpInput(fb) : fb \in FeeBumps}
                        \cup {WshInput(d, "All") : d \in Deposits} :
            file' = [file EXCEPT !.ins = Append(@, in),
                                 !.prevouts = Append(@, Len(file.ins) + 1)]
      BY <1>10 DEF AddInput, Edit, Rewrite
    <3>2. in \in Inputs
      BY BuiltInput, ParsingAssumption DEF SigHashTypes
    <3> QED
      BY <3>1, <3>2
  <2>2. Len(file.ins) + 1 \in Nat
    BY <1>1
  <2>3. /\ Append(file.ins, in) \in Seq(Inputs)
        /\ Append(file.prevouts, Len(file.ins) + 1) \in Seq(Nat)
        /\ Len(Append(file.prevouts, Len(file.ins) + 1)) = Len(Append(file.ins, in))
    BY <1>1, <2>2, Appended
  <2> QED
    BY <1>5, <2>1, <2>3
<1>11. CASE SwapInputs
  <2>1. file' = [file EXCEPT !.ins = Reverse(file.ins), !.prevouts = Reverse(file.prevouts)]
    BY <1>11 DEF SwapInputs, Edit, Rewrite
  <2> QED
    BY <1>1, <1>5, <2>1, Reversed
<1>12. CASE DropInput
  <2>1. PICK i \in DOMAIN file.ins :
          file' = [file EXCEPT !.ins = RemoveAt(file.ins, i),
                               !.prevouts = RemoveAt(file.prevouts, i)]
    BY <1>12 DEF DropInput, Edit, Rewrite
  <2>2. /\ RemoveAt(file.ins, i) \in Seq(Inputs) /\ RemoveAt(file.prevouts, i) \in Seq(Nat)
        /\ Len(RemoveAt(file.prevouts, i)) = Len(RemoveAt(file.ins, i))
    BY <1>1, Shortened
  <2> QED
    BY <1>5, <2>1, <2>2
<1>13. CASE AddOutput
  <2>1. PICK paths \in BOOLEAN :
          file' = [file EXCEPT !.outs = Append(file.outs, Output(DUST_VALUE, paths))]
    BY <1>13 DEF AddOutput, Edit, Rewrite
  <2>2. Output(DUST_VALUE, paths) \in Outputs
    BY BuiltOutput DEF DUST_VALUE
  <2> QED
    BY <1>1, <1>4, <2>1, <2>2, Appended
<1>14. CASE DropOutput
  <2>1. PICK j \in DOMAIN file.outs : file' = [file EXCEPT !.outs = RemoveAt(file.outs, j)]
    BY <1>14 DEF DropOutput, Edit, Rewrite
  <2> QED
    BY <1>1, <1>4, <2>1, Shortened
<1>15. CASE Finalize
  <2> DEFINE ins == [i \in DOMAIN file.ins |-> FinalInput(file.ins[i])]
  <2>1. file' = [file EXCEPT !.ins = ins]
    BY <1>15 DEF Finalize, Rewrite
  <2>2. \A i \in DOMAIN file.ins : ins[i] \in Inputs
    BY <1>2 DEF FinalInput, Inputs, Scripts, SigHashTypes
  <2>3. DOMAIN ins = DOMAIN file.ins /\ ins = [i \in DOMAIN ins |-> ins[i]]
    OBVIOUS
  <2> HIDE DEF ins
  <2>4. ins \in Seq(Inputs)
    BY <1>1, <2>2, <2>3, Mapped
  <2>5. Len(ins) = Len(file.ins)
    BY <1>1, <2>3, <2>4
  <2> QED
    BY <1>3, <2>1, <2>4, <2>5
<1> QED
  BY <1>6, <1>7, <1>8, <1>9, <1>10, <1>11, <1>12, <1>13, <1>14, <1>15
-----------------------------------------------------------------------------
THEOREM Invariance == Spec => []IInv
<1>1. MaxEdits \in Nat
  BY ParsingAssumption
<1>2. Init => IInv
  <2> SUFFICES ASSUME Init
               PROVE  IInv
    OBVIOUS
  <2>1. PICK f \in MadeFiles : made = f.made /\ file = f.file
    BY DEF Init
  <2>2. made \in TxTypes /\ FileOK(file)
    BY <2>1, MadeOK
  <2> QED
    BY <1>1, <2>2 DEF Init, IInv
<1>3. IInv /\ [Next]_vars => IInv'
  <2> SUFFICES ASSUME IInv, [Next]_vars
               PROVE  IInv'
    OBVIOUS
  <2>1. CASE \/ EditVersion \/ EditInput \/ EditPrevout \/ EditOutput \/ AddInput
             \/ SwapInputs \/ DropInput \/ AddOutput \/ DropOutput \/ Finalize
    <3>1. FileOK(file')
      BY <2>1, EditsKeepFile DEF IInv
    <3> DEFINE Effect == /\ made' = made /\ ret' = NotRead
                         /\ edits' = edits \/ (edits < MaxEdits /\ edits' = edits + 1)
    <3>2. Effect
      <4>1. ASSUME NEW p, Edit(p) PROVE Effect
        BY <4>1 DEF Edit, Rewrite
      <4>2. CASE Finalize
        BY <4>2 DEF Finalize, Rewrite
      <4> HIDE DEF Effect
      <4>3. CASE EditVersion \/ EditInput \/ EditPrevout \/ EditOutput
        BY <4>1, <4>3 DEF EditVersion, EditInput, EditPrevout, EditOutput
      <4>4. CASE AddInput \/ SwapInputs \/ DropInput
        BY <4>1, <4>4 DEF AddInput, SwapInputs, DropInput
      <4>5. CASE AddOutput \/ DropOutput
        BY <4>1, <4>5 DEF AddOutput, DropOutput
      <4> QED
        BY <2>1, <4>2, <4>3, <4>4, <4>5
    <3>3. edits' \in 0..MaxEdits
      BY <1>1, <3>2 DEF IInv
    <3> QED
      BY <3>1, <3>2, <3>3 DEF IInv
  <2>2. CASE Fuzz
    BY <2>2 DEF Fuzz, IInv
  <2>3. CASE UNCHANGED vars
    BY <2>3 DEF vars, IInv
  <2> QED
    BY <2>1, <2>2, <2>3 DEF Next
<1> QED
  BY <1>2, <1>3, PTL DEF Spec

\* Whatever files are made and edited, they are PSBTs, no amount is below zero,
\* and each parser returns an error of error.rs or the result of its calls
\* (the from_raw_psbt() of the five types).
THEOREM FilesTyped == Spec => []TypeOK
<1>1. IInv => TypeOK
  <2> SUFFICES ASSUME IInv
               PROVE  TypeOK
    OBVIOUS
  <2>1. Range(file.ins) \subseteq Inputs /\ Range(file.outs) \subseteq Outputs
    BY FileFacts DEF IInv, Range
  <2>2. DOMAIN file.prevouts = DOMAIN file.ins
    BY DEF IInv, FileOK, Files
  <2>3. ret \in [TxTypes -> Outcomes]
    <3>1. "NotRead" \in Outcomes
      BY DEF Outcomes
    <3>2. \A t \in TxTypes : Driver(t, file) \in Outcomes
      BY DriverOutcome DEF IInv
    <3> QED
      BY <3>1, <3>2 DEF IInv, NotRead
  <2> QED
    BY <2>1, <2>2, <2>3 DEF IInv, TypeOK
<1> QED
  BY <1>1, Invariance, PTL

LEMMA AcceptedParses ==
  ASSUME IInv, NEW t \in Accepted
  PROVE  /\ t \in TxTypes /\ FileOK(file)
         /\ ret = [u \in TxTypes |-> Driver(u, file)] /\ ParseError(t, file) = "None"
BY DriverOutcome DEF Accepted, Read, IInv

\* A file that the parser of a Cancel, an Emergency, an UnvaultEmergency or a
\* Spend accepted breaks no expect or assert of the API, nor one of the fuzz
\* targets: whatever edits it went through.
THEOREM AcceptedFilesHold == Spec => []DriversHold
<1>1. IInv => DriversHold
  <2> SUFFICES ASSUME IInv, NEW t \in TxTypes \ {"Unvault"}, ret[t] = "Panic"
               PROVE  FALSE
    BY DEF DriversHold
  <2>1. ret # NotRead
    BY DEF NotRead
  <2>2. t \in Accepted
    BY <2>1 DEF Accepted, Read
  <2>3. Driver(t, file) = "Panic" /\ ParseError(t, file) = "None" /\ FileOK(file)
    BY <2>2, AcceptedParses
  <2>4. ~DriverHolds(t, file)
    BY <2>3, DriverOutcome
  <2> QED
    BY <2>3, <2>4, RevocationHolds, SpendHolds DEF TxTypes
<1> QED
  BY <1>1, Invariance, PTL

LEMMA IsWshInput ==
  ASSUME NEW in \in Inputs, NEW type, in.kind = "P2wsh", in.sighash_type = type,
         in.witness_script = "Own", in.paths, ~in.final, ~in.non_witness_utxo,
         ~in.redeem_script
  PROVE  in = WshInput(in.value, type)
BY DEF Inputs, WshInput

LEMMA IsFeeBumpInput ==
  ASSUME NEW in \in Inputs, in.kind = "P2wpkh", in.sighash_type = "All",
         in.witness_script = "None", ~in.final, ~in.non_witness_utxo, ~in.redeem_script
  PROVE  [in EXCEPT !.paths = FALSE] = FeeBumpInput(in.value)
<1> DEFINE x == [in EXCEPT !.paths = FALSE]
           y == FeeBumpInput(in.value)
<1>1. x \in Inputs /\ y \in Inputs
  BY BuiltInput DEF Inputs
<1>2. /\ x.kind = "P2wpkh" /\ x.value = in.value /\ x.sighash_type = "All"
      /\ x.witness_script = "None" /\ x.paths = FALSE /\ x.final = FALSE
      /\ x.non_witness_utxo = FALSE /\ x.redeem_script = FALSE
  BY DEF Inputs
<1>3. /\ y.kind = "P2wpkh" /\ y.value = in.value /\ y.sighash_type = "All"
      /\ y.witness_script = "None" /\ y.paths = FALSE /\ y.final = FALSE
      /\ y.non_witness_utxo = FALSE /\ y.redeem_script = FALSE
  BY DEF FeeBumpInput, WshInput
<1> HIDE DEF x, y
<1>4. x = y
  BY <1>1, <1>2, <1>3 DEF Inputs
<1> QED
  BY <1>4 DEF x, y

LEMMA RevocationAsBuilt ==
  ASSUME NEW p, FileOK(p), ~IsFinalized(p), NEW t \in RevocationTypes,
         ParseError(t, p) = "None"
  PROVE  /\ Len(p.ins) \in 1..2
         /\ \E f \in DOMAIN p.ins :
              /\ OfKind(p, "P2wsh") = {f}
              /\ p.ins[f] = WshInput(p.ins[f].value, "AllPlusAnyoneCanPay")
              /\ \A i \in DOMAIN p.ins \ {f} :
                   [p.ins[i] EXCEPT !.paths = FALSE] = FeeBumpInput(p.ins[i].value)
<1>1. /\ CommonError(p) = "None" /\ OnlyVaultKinds(p) /\ RevocationInputsError(p) = "None"
  BY ParseChecked, AcceptedKinds, RevocationTypeChecked DEF TxTypes
<1>2. ASSUME NEW i \in DOMAIN p.ins
      PROVE  /\ p.ins[i] \in Inputs /\ ~p.ins[i].final
             /\ ~p.ins[i].non_witness_utxo /\ ~p.ins[i].redeem_script
             /\ p.ins[i].kind = "P2wsh" => p.ins[i].witness_script = "Own"
  BY <1>1, FileFacts, CommonChecked, InputChecked DEF IsFinalized, Matches
<1>3. DOMAIN p.ins = 1..Len(p.ins) /\ Len(p.ins) \in 1..2
  BY <1>1, FileFacts, RevocationChecked
<1>4. PICK f \in DOMAIN p.ins :
        OfKind(p, "P2wsh") = {f} /\ RevocationInputError(p.ins[f]) = "None"
  BY <1>1, RevocationChecked
<1>5. p.ins[f] = WshInput(p.ins[f].value, "AllPlusAnyoneCanPay")
  <2>1. p.ins[f].kind = "P2wsh"
    BY <1>4 DEF OfKind
  <2>2. p.ins[f].sighash_type = "AllPlusAnyoneCanPay" /\ p.ins[f].paths
    BY <1>2, <1>4, RevocationInputChecked
  <2> QED
    BY <1>2, <2>1, <2>2, IsWshInput
<1>6. ASSUME NEW i \in DOMAIN p.ins \ {f}
      PROVE  [p.ins[i] EXCEPT !.paths = FALSE] = FeeBumpInput(p.ins[i].value)
  <2>1. Len(p.ins) = 2
    <3> DEFINE n == Len(p.ins)
    <3>1. n \in 1..2 /\ f \in 1..n /\ i \in 1..n /\ i # f
      BY <1>3
    <3> HIDE DEF n
    <3>2. n = 2
      BY <3>1
    <3> QED
      BY <3>2 DEF n
  <2>2. PICK g \in DOMAIN p.ins :
          OfKind(p, "P2wpkh") = {g} /\ FeeBumpInputError(p.ins[g]) = "None"
    BY <1>1, <2>1, RevocationChecked
  <2>3. i = g
    <3>1. p.ins[i].kind \in {"P2wsh", "P2wpkh"} /\ p.ins[i].kind # "P2wsh"
      BY <1>1, <1>4 DEF OnlyVaultKinds, OfKind
    <3> QED
      BY <2>2, <3>1 DEF OfKind
  <2>4. p.ins[i].kind = "P2wpkh"
    BY <2>2, <2>3 DEF OfKind
  <2>5. p.ins[i].sighash_type = "All" /\ p.ins[i].witness_script = "None"
    BY <1>2, <2>2, <2>3, FeeBumpInputChecked
  <2> QED
    BY <1>2, <2>4, <2>5, IsFeeBumpInput
<1> QED
  BY <1>3, <1>4, <1>5, <1>6

LEMMA PayingAsBuilt ==
  ASSUME NEW p, FileOK(p), ~IsFinalized(p), NEW t \in {"Unvault", "Spend"},
         ParseError(t, p) = "None"
  PROVE  /\ 1 \in DOMAIN p.ins
         /\ \A i \in DOMAIN p.ins : p.ins[i] = WshInput(p.ins[i].value, "All")
<1>1. CommonError(p) = "None" /\ OnlyVaultKinds(p)
  BY ParseChecked, AcceptedKinds DEF TxTypes
<1>2. ASSUME NEW i \in DOMAIN p.ins
      PROVE  /\ p.ins[i] \in Inputs /\ ~p.ins[i].final
             /\ ~p.ins[i].non_witness_utxo /\ ~p.ins[i].redeem_script
  BY <1>1, FileFacts, CommonChecked, InputChecked DEF IsFinalized
<1>3. /\ 1 \in DOMAIN p.ins
      /\ \A i \in DOMAIN p.ins :
           p.ins[i].sighash_type = "All" /\ p.ins[i].paths /\ Matches(p.ins[i])
  <2>1. CASE t = "Unvault"
    <3>1. Len(p.ins) = 1 /\ UnvaultInputError(p.ins[1]) = "None"
      BY <2>1, ParseChecked, UnvaultChecked DEF TxTypes
    <3>2. DOMAIN p.ins = {1}
      BY <3>1, FileFacts
    <3> QED
      BY <1>2, <3>1, <3>2, UnvaultInputChecked
  <2>2. CASE t = "Spend"
    <3>1. p.ins # <<>> /\ \A i \in DOMAIN p.ins : SpendInputError(p.ins[i]) = "None"
      BY <2>2, ParseChecked, SpendChecked DEF TxTypes
    <3>2. 1 \in DOMAIN p.ins
      <4>1. p.ins \in Seq(Inputs)
        BY DEF FileOK, Files
      <4> QED
        BY <3>1, <4>1
    <3> QED
      BY <1>2, <3>1, <3>2, SpendInputChecked
  <2> QED
    BY <2>1, <2>2
<1> QED
  BY <1>2, <1>3, IsWshInput DEF Matches

\* Every input still to be signed of an accepted file is one of those that the
\* constructors of its type write; the number of inputs that can sign over the
\* vault of a revocation transaction is one.
THEOREM FilesAcceptedAsBuilt == Spec => []AcceptedAsBuilt
<1>1. IInv => AcceptedAsBuilt
  <2> SUFFICES ASSUME IInv, ~IsFinalized(file), NEW t \in Accepted
               PROVE  LET type == IF t \in RevocationTypes THEN "AllPlusAnyoneCanPay" ELSE "All"
                          Vault == {i \in DOMAIN file.ins :
                                      file.ins[i] = WshInput(file.ins[i].value, type)}
                          Bump == {i \in DOMAIN file.ins :
                                     [file.ins[i] EXCEPT !.paths = FALSE]
                                       = FeeBumpInput(file.ins[i].value)}
                      IN
                      IF t \in RevocationTypes
                      THEN /\ Vault \cup Bump = DOMAIN file.ins
                           /\ Cardinality(Vault) = 1 /\ Cardinality(Bump) <= 1
                      ELSE Vault = DOMAIN file.ins /\ Vault # {}
    BY DEF AcceptedAsBuilt
  <2> DEFINE type == IF t \in RevocationTypes THEN "AllPlusAnyoneCanPay" ELSE "All"
             Vault == {i \in DOMAIN file.ins :
                         file.ins[i] = WshInput(file.ins[i].value, type)}
             Bump == {i \in DOMAIN file.ins :
                        [file.ins[i] EXCEPT !.paths = FALSE] = FeeBumpInput(file.ins[i].value)}
  <2>1. t \in TxTypes /\ FileOK(file) /\ ParseError(t, file) = "None"
    BY AcceptedParses
  <2>2. CASE t \in RevocationTypes
    <3>1. PICK f \in DOMAIN file.ins :
            /\ OfKind(file, "P2wsh") = {f}
            /\ file.ins[f] = WshInput(file.ins[f].value, "AllPlusAnyoneCanPay")
            /\ \A i \in DOMAIN file.ins \ {f} :
                 [file.ins[i] EXCEPT !.paths = FALSE] = FeeBumpInput(file.ins[i].value)
      BY <2>1, <2>2, RevocationAsBuilt
    <3>2. Vault = {f}
      <4>1. ASSUME NEW i \in Vault PROVE i = f
        <5>1. file.ins[i].kind = "P2wsh"
          BY <4>1 DEF WshInput
        <5> QED
          BY <3>1, <4>1, <5>1 DEF OfKind
      <4>2. f \in Vault
        BY <2>2, <3>1
      <4> QED
        BY <4>1, <4>2
    <3>3. Bump = DOMAIN file.ins \ {f}
      <4>1. f \notin Bump
        <5>1. file.ins[f] \in Inputs /\ file.ins[f].kind = "P2wsh"
          BY <2>1, <3>1, FileFacts DEF OfKind
        <5>2. [file.ins[f] EXCEPT !.paths = FALSE].kind = "P2wsh"
          BY <5>1 DEF Inputs
        <5>3. FeeBumpInput(file.ins[f].value).kind = "P2wpkh"
          BY DEF FeeBumpInput, WshInput
        <5> QED
          BY <5>2, <5>3
      <4> QED
        BY <3>1, <4>1
    <3>4. Cardinality(Vault) = 1
      BY <3>2, FS_Singleton
    <3>5. Cardinality(Bump) <= 1
      <4>1. DOMAIN file.ins = 1..Len(file.ins) /\ Len(file.ins) \in 1..2
        BY <2>1, <2>2, FileFacts, RevocationAsBuilt
      <4>2. DOMAIN file.ins \subseteq {1, 2}
        <5> DEFINE n == Len(file.ins)
        <5>1. n \in 1..2 /\ DOMAIN file.ins = 1..n
          BY <4>1
        <5> HIDE DEF n
        <5> QED
          BY <5>1
      <4>3. Bump \subseteq {1, 2} \ {f} /\ f \in {1, 2}
        BY <3>1, <3>3, <4>2
      <4> HIDE DEF Bump
      <4>4. Bump = {} \/ \E g : Bump = {g}
        BY <4>3
      <4>5. Cardinality(Bump) = 0 \/ Cardinality(Bump) = 1
        BY <4>4, FS_EmptySet, FS_Singleton
      <4> QED
        BY <4>5
    <3>6. Vault \cup Bump = DOMAIN file.ins
      BY <3>1, <3>2, <3>3
    <3> QED
      BY <2>2, <3>4, <3>5, <3>6
  <2>3. CASE t \notin RevocationTypes
    <3>1. t \in {"Unvault", "Spend"}
      BY <2>1, <2>3 DEF TxTypes
    <3>2. /\ 1 \in DOMAIN file.ins
          /\ \A i \in DOMAIN file.ins : file.ins[i] = WshInput(file.ins[i].value, "All")
      BY <2>1, <3>1, PayingAsBuilt
    <3>3. Vault = DOMAIN file.ins /\ Vault # {}
      BY <2>3, <3>2
    <3> QED
      BY <2>3, <3>3
  <2> QED
    BY <2>2, <2>3
<1> QED
  BY <1>1, Invariance, PTL

\* A file still to be signed that passes for a Cancel or an Emergency somewhere
\* passes nowhere for an Unvault or a Spend.
THEOREM NoConfusion == Spec => []TypesApart
<1>1. IInv => TypesApart
  <2> SUFFICES ASSUME IInv, ~IsFinalized(file), NEW r \in Accepted, NEW q \in Accepted,
                      r \in RevocationTypes, q \notin RevocationTypes
               PROVE  FALSE
    <3>1. Accepted \subseteq TxTypes
      BY DEF Accepted
    <3> QED
      BY <3>1 DEF TypesApart, TxTypes
  <2>1. /\ FileOK(file) /\ ParseError(r, file) = "None" /\ ParseError(q, file) = "None"
        /\ q \in {"Unvault", "Spend"}
    BY AcceptedParses DEF TxTypes
  <2>2. PICK f \in DOMAIN file.ins :
          file.ins[f] = WshInput(file.ins[f].value, "AllPlusAnyoneCanPay")
    BY <2>1, RevocationAsBuilt
  <2>3. file.ins[f] = WshInput(file.ins[f].value, "All")
    BY <2>1, PayingAsBuilt
  <2>4. file.ins[f].sighash_type = "AllPlusAnyoneCanPay" /\ file.ins[f].sighash_type = "All"
    BY <2>2, <2>3 DEF WshInput
  <2> QED
    BY <2>4
<1> QED
  BY <1>1, Invariance, PTL
-----------------------------------------------------------------------------
(***************************************************************************)
(* What the constructors return parses back.                                 *)
(***************************************************************************)

\* The amounts of the code: the deposits are outputs of a transaction, and the
\* inputs of a standard transaction, 2439 at most, cannot spend 2^64 satoshis.
CodeAmounts ==
  /\ INSANE_FEES <= MAX_MONEY /\ 2439 * MAX_MONEY < U64
  /\ Deposits \subseteq 0..MAX_MONEY

\* The smallest output of an Unvault pays for a Cancel and an UnvaultEmergency
\* and leaves more than dust.
SmallFees ==
  /\ CancelFees + DUST_VALUE <= DUST_LIMIT
  /\ UnvaultEmergencyFees + DUST_VALUE <= DUST_LIMIT

\* Both hold of Bitcoin's 21 million coins and of a 64-bit integer, and of the
\* satisfactions of an Unvault script of at most 2286 weight units.
LEMMA CodeConstants ==
  /\ MAX_MONEY = 2100000000000000 /\ U64 = 18446744073709551616 =>
       INSANE_FEES <= MAX_MONEY /\ 2439 * MAX_MONEY < U64
  /\ UnvaultSat <= 2286 => SmallFees
BY ConstructorsAssumption, SMT
   DEF INSANE_FEES, SmallFees, CancelFees, UnvaultEmergencyFees, RevocationWeight, Weight,
       CANCEL_TX_FEERATE, EMER_TX_FEERATE, DUST_LIMIT, DUST_VALUE

\* What OwnParse excuses.
Excused(type, p) ==
  \/ type = "Emergency" /\ p.outs[1].value < DUST_VALUE
  \/ type = "Spend" /\ (p.ins = <<>> \/ Sent(p) > Spent(p))
  \/ type \in RevocationTypes /\ Spent(p) > MAX_MONEY

\* An input as the constructors write it, or as the finalizer leaves it.
VaultSigHash(type) == IF type \in RevocationTypes THEN "AllPlusAnyoneCanPay" ELSE "All"

InputAsMade(type, in) ==
  /\ in.kind \in {"P2wsh", "P2wpkh"} /\ ~in.non_witness_utxo /\ ~in.redeem_script
  /\ in.witness_script = IF in.final \/ in.kind = "P2wpkh" THEN "None" ELSE "Own"
  /\ ~in.final /\ in.kind = "P2wsh" => in.sighash_type = VaultSigHash(type) /\ in.paths
  /\ ~in.final /\ in.kind = "P2wpkh" => in.sighash_type = "All"

RevocationAsMade(type, p) ==
  /\ Len(p.ins) \in 1..2 /\ Len(p.outs) = 1
  /\ p.ins[1].kind = "P2wsh"
  /\ Len(p.ins) = 2 => p.ins[2].kind = "P2wpkh"
  /\ type = "Cancel" => p.outs[1].paths /\ ~p.outs[1].redeem_script

UnvaultAsMade(p) ==
  /\ Len(p.ins) = 1 /\ p.ins[1].kind = "P2wsh"
  /\ Len(p.outs) = 2 /\ \A j \in DOMAIN p.outs : p.outs[j].paths

SpendAsMade(p) ==
  /\ \A i \in DOMAIN p.ins : p.ins[i].kind = "P2wsh"
  /\ Cardinality({j \in DOMAIN p.outs : p.outs[j].paths}) \in 1..2
  /\ Weight(Len(p.ins), Len(p.outs)) + UnvaultSat * Len(p.ins) <= MAX_STANDARD_TX_WEIGHT

AsMade(type, p) ==
  /\ p.version = "TX_VERSION" /\ IsInjective(p.prevouts)
  /\ \A i \in DOMAIN p.ins : InputAsMade(type, p.ins[i])
  /\ \A i, j \in DOMAIN p.ins : p.ins[i].final = p.ins[j].final
  /\ type \in RevocationTypes => RevocationAsMade(type, p)
  /\ type = "Unvault" => UnvaultAsMade(p)
  /\ type = "Spend" => SpendAsMade(p)

AmountsAsMade(p) ==
  /\ \A i \in DOMAIN p.ins : p.ins[i].value <= MAX_MONEY
  /\ \A j \in DOMAIN p.outs : OutputParses(p.outs[j].value)
  /\ Spent(p) < U64 /\ Sent(p) < U64 /\ FeesParse(Spent(p), Sent(p))

\* The inductive invariant: until other software edits it, a file is one that a
\* constructor made, and its amounts are those that the parsers take.
OwnInv ==
  edits = 0 => AsMade(made, file) /\ (Excused(made, file) \/ AmountsAsMade(file))

LEMMA NoneFails ==
  ASSUME NEW errs \in Seq({"None"})
  PROVE  FirstError(errs) = "None"
BY DEF FirstError

LEMMA NoneOf ==
  /\ FirstError(<<"None", "None">>) = "None"
  /\ FirstError(<<"None", "None", "None">>) = "None"
  /\ FirstError(<<"None", "None", "None", "None">>) = "None"
  /\ FirstError(<<"None", "None", "None", "None", "None", "None", "None", "None">>) = "None"
<1>1. /\ <<"None", "None">> \in Seq({"None"})
      /\ <<"None", "None", "None">> \in Seq({"None"})
      /\ <<"None", "None", "None", "None">> \in Seq({"None"})
      /\ <<"None", "None", "None", "None", "None", "None", "None", "None">> \in Seq({"None"})
  OBVIOUS
<1> QED
  BY <1>1, NoneFails, Zenon

LEMMA NoneAround ==
  ASSUME NEW a \in Seq({"None"}), NEW n \in Nat, NEW b \in [1..n -> {"None"}],
         NEW c \in Seq({"None"})
  PROVE  FirstError(a \o b \o c) = "None"
<1>1. b \in Seq({"None"})
  OBVIOUS
<1>2. a \o b \o c \in Seq({"None"})
  BY <1>1
<1> QED
  BY <1>2, NoneFails

LEMMA FileValues ==
  ASSUME NEW p, FileOK(p)
  PROVE  /\ Values(p.ins) \in Seq(Nat) /\ Len(Values(p.ins)) = Len(p.ins)
         /\ \A i \in DOMAIN p.ins : Values(p.ins)[i] = p.ins[i].value
         /\ Values(p.outs) \in Seq(Nat) /\ Len(Values(p.outs)) = Len(p.outs)
         /\ \A j \in DOMAIN p.outs : Values(p.outs)[j] = p.outs[j].value
         /\ Spent(p) = Whole(Values(p.ins)) /\ Sent(p) = Whole(Values(p.outs))
         /\ Spent(p) \in Nat /\ Sent(p) \in Nat
<1>1. p.ins \in Seq(Inputs) /\ p.outs \in Seq(Outputs)
  BY DEF FileOK, Files
<1>2. /\ \A i \in DOMAIN p.ins : p.ins[i].value \in Nat
      /\ \A j \in DOMAIN p.outs : p.outs[j].value \in Nat
  BY FileFacts DEF Inputs, Outputs
<1>3. Values(p.ins) \in Seq(Nat) /\ Len(Values(p.ins)) = Len(p.ins)
  BY <1>1, <1>2 DEF Values
<1>4. Values(p.outs) \in Seq(Nat) /\ Len(Values(p.outs)) = Len(p.outs)
  BY <1>1, <1>2 DEF Values
<1>5. Spent(p) = Whole(Values(p.ins)) /\ Sent(p) = Whole(Values(p.outs))
  BY DEF Spent, Sent, Total, Whole
<1>6. Whole(Values(p.ins)) \in Nat /\ Whole(Values(p.outs)) \in Nat
  BY <1>3, <1>4, TotalNat, Zenon DEF Whole
<1> QED
  BY <1>3, <1>4, <1>5, <1>6 DEF Values

LEMMA InputAccepted ==
  ASSUME NEW p, FileOK(p), NEW type, AsMade(type, p), AmountsAsMade(p),
         NEW i \in DOMAIN p.ins
  PROVE  InputError(p, i) = "None"
<1> DEFINE in == p.ins[i]
           c5 == in.value > MAX_MONEY \/ Total(SubSeq(Values(p.ins), 1, i)) >= U64
<1>1. in \in Inputs /\ i \in 1..Len(p.ins) /\ Len(p.ins) \in Nat
  BY FileFacts
<1>2. InputAsMade(type, in)
  BY DEF AsMade
<1>3. ~PartiallyFinalized(p, i)
  <2>1. ~(in.final /\ in.witness_script # "None")
    BY <1>2 DEF InputAsMade
  <2>2. i > 1 => i - 1 \in DOMAIN p.ins
    BY <1>1, FileFacts
  <2>3. i > 1 => p.ins[i - 1].final = p.ins[i].final
    BY <2>2 DEF AsMade
  <2> QED
    BY <2>1, <2>3 DEF PartiallyFinalized
<1>4. ~c5
  <2>1. Whole(SubSeq(Values(p.ins), 1, i)) <= Whole(Values(p.ins))
    <3>1. Values(p.ins) \in Seq(Nat) /\ i \in DOMAIN Values(p.ins)
      BY <1>1, FileValues
    <3> QED
      BY <3>1, TotalPart
  <2>2. Whole(SubSeq(Values(p.ins), 1, i)) \in Nat
    <3>1. SubSeq(Values(p.ins), 1, i) \in Seq(Nat)
      <4>1. Values(p.ins) \in Seq(Nat) /\ i \in 1..Len(Values(p.ins))
        BY <1>1, FileValues
      <4> QED
        BY <4>1
    <3> QED
      BY <3>1, TotalNat, Zenon DEF Whole
  <2>3. Total(SubSeq(Values(p.ins), 1, i)) = Whole(SubSeq(Values(p.ins), 1, i))
    BY DEF Total, Whole
  <2>4. /\ Spent(p) = Whole(Values(p.ins)) /\ Spent(p) \in Nat /\ Spent(p) < U64
        /\ in.value <= MAX_MONEY /\ in.value \in Nat
    BY <1>1, FileValues DEF AmountsAsMade, Inputs
  <2> DEFINE part == Whole(SubSeq(Values(p.ins), 1, i))
             spent == Spent(p)
  <2>5. part \in Nat /\ spent \in Nat /\ part <= spent /\ spent < U64
    BY <2>1, <2>2, <2>4
  <2> HIDE DEF part, spent
  <2>6. ~(part >= U64)
    BY <2>5, ConstructorsAssumption
  <2> QED
    BY <2>3, <2>4, <2>6, ConstructorsAssumption DEF part
<1>5. /\ in.kind # "None" /\ in.kind # "Other" /\ ~(in.non_witness_utxo \/ in.redeem_script)
      /\ in.witness_script # "Insane"
      /\ ~(in.kind = "P2wsh" /\ ~in.final /\ in.witness_script = "None")
      /\ ~(in.kind = "P2wsh" /\ ~in.final /\ ~Matches(in))
  BY <1>2 DEF InputAsMade, Matches
<1> HIDE DEF c5
<1>6. InputError(p, i) = FirstError(<<
        Error(in.kind = "None", "MissingWitnessUtxo"),
        Error(in.non_witness_utxo \/ in.redeem_script, "InvalidInputField"),
        Error(PartiallyFinalized(p, i), "PartiallyFinalized"),
        Error(in.witness_script = "Insane", "InvalidInWitnessScript"),
        Error(c5, "InsaneAmounts"),
        Error(in.kind = "P2wsh" /\ ~in.final /\ in.witness_script = "None", "MissingInWitnessScript"),
        Error(in.kind = "P2wsh" /\ ~in.final /\ ~Matches(in), "InvalidInWitnessScript"),
        Error(in.kind = "Other", "InvalidInputField")>>)
  BY DEF InputError, c5
<1>7. /\ Error(in.kind = "None", "MissingWitnessUtxo") = "None"
      /\ Error(in.non_witness_utxo \/ in.redeem_script, "InvalidInputField") = "None"
      /\ Error(PartiallyFinalized(p, i), "PartiallyFinalized") = "None"
      /\ Error(in.witness_script = "Insane", "InvalidInWitnessScript") = "None"
      /\ Error(c5, "InsaneAmounts") = "None"
      /\ Error(in.kind = "P2wsh" /\ ~in.final /\ in.witness_script = "None",
               "MissingInWitnessScript") = "None"
      /\ Error(in.kind = "P2wsh" /\ ~in.final /\ ~Matches(in), "InvalidInWitnessScript") = "None"
      /\ Error(in.kind = "Other", "InvalidInputField") = "None"
  BY <1>3, <1>4, <1>5 DEF Error
<1> QED
  BY <1>6, <1>7, NoneOf, Zenon

LEMMA CommonAccepts ==
  ASSUME NEW p, FileOK(p), NEW type, AsMade(type, p), AmountsAsMade(p)
  PROVE  CommonError(p) = "None"
<1> DEFINE a == <<Error(p.version # "TX_VERSION", "InvalidTransactionVersion"),
                  Error(~IsInjective(p.prevouts), "DuplicatedInput")>>
           b == [i \in DOMAIN p.ins |-> InputError(p, i)]
           c == <<AmountsError(p)>>
           n == Len(p.ins)
<1>1. a \in Seq({"None"})
  <2>1. /\ Error(p.version # "TX_VERSION", "InvalidTransactionVersion") = "None"
        /\ Error(~IsInjective(p.prevouts), "DuplicatedInput") = "None"
    BY DEF AsMade, Error
  <2> QED
    BY <2>1
<1>2. n \in Nat /\ b \in [1..n -> {"None"}]
  BY FileFacts, InputAccepted
<1>3. c \in Seq({"None"})
  <2>1. Sent(p) \in Nat
    BY FileValues
  <2>2. ~(\E j \in DOMAIN p.outs : ~OutputParses(p.outs[j].value)) /\ ~(Sent(p) >= U64)
        /\ FeesParse(Spent(p), Sent(p))
    BY <2>1, ConstructorsAssumption DEF AmountsAsMade
  <2>3. AmountsError(p) = "None"
    BY <2>2 DEF AmountsError, Error
  <2> QED
    BY <2>3
<1>4. CommonError(p) = FirstError(a \o b \o c)
  BY DEF CommonError
<1> HIDE DEF a, b, c, n
<1> QED
  BY <1>1, <1>2, <1>3, <1>4, NoneAround

LEMMA FindIn ==
  ASSUME NEW p, FileOK(p), NEW kind, OfKind(p, kind) # {}
  PROVE  Find(p, kind) \in DOMAIN p.ins /\ p.ins[Find(p, kind)].kind = kind
<1>1. OfKind(p, kind) \subseteq Nat
  BY FileFacts DEF OfKind
<1>2. \E i \in OfKind(p, kind) : \A j \in OfKind(p, kind) : i <= j
  BY <1>1, Least
<1>3. Find(p, kind) \in OfKind(p, kind)
  BY <1>2 DEF Find
<1> QED
  BY <1>3 DEF OfKind

LEMMA RevocationAccepts ==
  ASSUME NEW p, FileOK(p), NEW type \in RevocationTypes, AsMade(type, p)
  PROVE  RevocationError(type, p) = "None"
<1>1. RevocationAsMade(type, p) /\ VaultSigHash(type) = "AllPlusAnyoneCanPay"
  BY DEF AsMade, VaultSigHash
<1>2. DOMAIN p.ins = 1..Len(p.ins) /\ Len(p.ins) \in 1..2
  BY <1>1, FileFacts DEF RevocationAsMade
<1> DEFINE f == Find(p, "P2wsh")
           g == Find(p, "P2wpkh")
<1>3. OfKind(p, "P2wsh") # {} /\ RevocationInputError(p.ins[f]) = "None"
  <2>1. 1 \in OfKind(p, "P2wsh")
    BY <1>1, <1>2 DEF OfKind, RevocationAsMade
  <2>2. f \in DOMAIN p.ins /\ p.ins[f].kind = "P2wsh"
    BY <2>1, FindIn
  <2> HIDE DEF f
  <2>3. p.ins[f].final \/ (p.ins[f].sighash_type = "AllPlusAnyoneCanPay" /\ p.ins[f].paths)
    BY <1>1, <2>2 DEF AsMade, InputAsMade
  <2> QED
    BY <2>1, <2>3, NoneOf DEF RevocationInputError, Error
<1>4. Len(p.ins) = 2 =>
        OfKind(p, "P2wpkh") # {} /\ FeeBumpInputError(p.ins[g]) = "None"
  <2> SUFFICES ASSUME Len(p.ins) = 2
               PROVE  OfKind(p, "P2wpkh") # {} /\ FeeBumpInputError(p.ins[g]) = "None"
    OBVIOUS
  <2>1. 2 \in OfKind(p, "P2wpkh")
    BY <1>1, <1>2 DEF OfKind, RevocationAsMade
  <2>2. g \in DOMAIN p.ins /\ p.ins[g].kind = "P2wpkh"
    BY <2>1, FindIn
  <2> HIDE DEF g
  <2>3. p.ins[g].final \/ (p.ins[g].sighash_type = "All" /\ p.ins[g].witness_script = "None")
    BY <2>2 DEF AsMade, InputAsMade
  <2> QED
    BY <2>1, <2>3, NoneOf DEF FeeBumpInputError, Error
<1>5. RevocationInputsError(p) = "None"
  <2>1. Error(Len(p.ins) > 2, "InvalidInputCount") = "None"
    <3> DEFINE n == Len(p.ins)
    <3>1. n \in 1..2
      BY <1>2
    <3> HIDE DEF n
    <3>2. ~(n > 2)
      BY <3>1
    <3> QED
      BY <3>2 DEF n, Error
  <2>2. Len(p.ins) <= 1 \/ Len(p.ins) = 2
    <3> DEFINE n == Len(p.ins)
    <3>1. n \in 1..2
      BY <1>2
    <3> HIDE DEF n
    <3>2. n <= 1 \/ n = 2
      BY <3>1
    <3> QED
      BY <3>2 DEF n
  <2>3. (IF Len(p.ins) <= 1 THEN "None"
         ELSE IF OfKind(p, "P2wpkh") = {} THEN "MissingFeeBumpingInput"
         ELSE FeeBumpInputError(p.ins[g])) = "None"
    BY <1>4, <2>2
  <2>4. (IF OfKind(p, "P2wsh") = {} THEN "MissingRevocationInput"
         ELSE RevocationInputError(p.ins[f])) = "None"
    BY <1>3
  <2> QED
    BY <2>1, <2>3, <2>4, NoneOf, Zenon DEF RevocationInputsError
<1>6. (IF type = "Cancel" THEN CancelOutputError(p) ELSE "None") = "None"
  BY <1>1 DEF CancelOutputError, Error, RevocationAsMade
<1>7. Len(p.outs) = 1
  BY <1>1 DEF RevocationAsMade
<1> QED
  BY <1>5, <1>6, <1>7, NoneOf, Zenon DEF RevocationError

LEMMA UnvaultAccepts ==
  ASSUME NEW p, FileOK(p), AsMade("Unvault", p)
  PROVE  UnvaultParseError(p) = "None"
<1>1. UnvaultAsMade(p) /\ VaultSigHash("Unvault") = "All"
  BY DEF AsMade, VaultSigHash, RevocationTypes
<1> DEFINE in == p.ins[1]
<1>2. Len(p.ins) = 1 /\ Len(p.outs) = 2 /\ ~(\E j \in DOMAIN p.outs : ~p.outs[j].paths)
  BY <1>1 DEF UnvaultAsMade
<1>3. InputAsMade("Unvault", in) /\ in.kind = "P2wsh"
  <2>1. 1 \in DOMAIN p.ins
    BY <1>2, FileFacts
  <2> QED
    BY <1>1, <2>1 DEF AsMade, UnvaultAsMade
<1> HIDE DEF in
<1>4. UnvaultInputError(in) = "None"
  <2>1. CASE in.final
    BY <2>1 DEF UnvaultInputError
  <2>2. CASE ~in.final
    <3>1. in.sighash_type = "All" /\ in.paths /\ in.witness_script = "Own" /\ Matches(in)
      BY <1>1, <1>3, <2>2 DEF InputAsMade, Matches
    <3>2. /\ Error(in.sighash_type # "All", "InvalidSighashType") = "None"
          /\ Error(~in.paths, "InvalidInputField") = "None"
          /\ Error(in.witness_script = "None", "MissingInWitnessScript") = "None"
          /\ Error(~Matches(in), "InvalidInWitnessScript") = "None"
      BY <3>1 DEF Error
    <3> QED
      BY <2>2, <3>2, NoneOf, Zenon DEF UnvaultInputError
  <2> QED
    BY <2>1, <2>2
<1>5. /\ Error(Len(p.outs) # 2, "InvalidOutputCount") = "None"
      /\ Error(\E j \in DOMAIN p.outs : ~p.outs[j].paths, "InvalidOutputField") = "None"
      /\ (IF Len(p.ins) # 1 THEN "InvalidInputCount" ELSE UnvaultInputError(p.ins[1])) = "None"
  BY <1>2, <1>4 DEF Error, in
<1> QED
  BY <1>5, NoneOf, Zenon DEF UnvaultParseError

LEMMA SpendAccepts ==
  ASSUME NEW p, FileOK(p), AsMade("Spend", p), p.ins # <<>>
  PROVE  SpendParseError(p) = "None"
<1> DEFINE a == <<Error(p.ins = <<>>, "InvalidInputCount")>>
           b == [i \in DOMAIN p.ins |-> SpendInputError(p.ins[i])]
           c1 == Cardinality({j \in DOMAIN p.outs : p.outs[j].paths}) \notin 1..2
           c2 == TotalWeight(p) > MAX_STANDARD_TX_WEIGHT
           c == <<Error(c1, "InvalidCountOuputWithDerivations"), Error(c2, "TransactionTooLarge")>>
           n == Len(p.ins)
<1>1. SpendAsMade(p) /\ VaultSigHash("Spend") = "All"
  BY DEF AsMade, VaultSigHash, RevocationTypes
<1>2. a \in Seq({"None"})
  BY DEF Error
<1>3. n \in Nat /\ DOMAIN p.ins = 1..n
  BY FileFacts
<1>4. b \in [1..n -> {"None"}]
  <2>1. ASSUME NEW i \in DOMAIN p.ins PROVE SpendInputError(p.ins[i]) = "None"
    <3> DEFINE in == p.ins[i]
    <3>1. InputAsMade("Spend", in) /\ in.kind = "P2wsh"
      BY <1>1 DEF AsMade, SpendAsMade
    <3> HIDE DEF in
    <3>2. CASE in.final
      BY <3>1, <3>2 DEF SpendInputError, in
    <3>3. CASE ~in.final
      <4>1. in.sighash_type = "All" /\ in.paths /\ in.witness_script = "Own" /\ Matches(in)
        BY <1>1, <3>1, <3>3 DEF InputAsMade, Matches
      <4>2. /\ Error(in.sighash_type # "All", "InvalidSighashType") = "None"
            /\ Error(in.witness_script = "None", "MissingInWitnessScript") = "None"
            /\ Error(~Matches(in), "InvalidInWitnessScript") = "None"
            /\ Error(~in.paths, "InvalidInputField") = "None"
        BY <4>1 DEF Error
      <4>3. SpendInputError(in) = "None"
        BY <3>1, <3>3, <4>2, NoneOf, Zenon DEF SpendInputError
      <4> QED
        BY <4>3 DEF in
    <3> QED
      BY <3>2, <3>3
  <2> HIDE DEF n
  <2> QED
    BY <1>3, <2>1
<1>5. ~c1
  BY <1>1 DEF SpendAsMade
<1>6. ~c2
  <2> DEFINE left == Cardinality({i \in DOMAIN p.ins : ~p.ins[i].final})
             w == Weight(n, Len(p.outs))
  <2>1. left \in Nat /\ left <= n
    <3>1. IsFiniteSet(DOMAIN p.ins) /\ Cardinality(DOMAIN p.ins) = n
      BY <1>3, FS_Interval
    <3>2. {i \in DOMAIN p.ins : ~p.ins[i].final} \subseteq DOMAIN p.ins
      OBVIOUS
    <3> HIDE DEF n
    <3> QED
      BY <3>1, <3>2, FS_Subset, FS_CardinalityType
  <2>2. w \in Nat /\ w + UnvaultSat * n <= MAX_STANDARD_TX_WEIGHT
    <3>1. \A k, m \in Nat : Weight(k, m) \in Nat
      BY DEF Weight
    <3>2. w \in Nat
      <4>1. n \in Nat /\ Len(p.outs) \in Nat
        BY FileFacts
      <4> QED
        BY <3>1, <4>1, Zenon
    <3>3. w + UnvaultSat * n <= MAX_STANDARD_TX_WEIGHT
      BY <1>1 DEF SpendAsMade
    <3> QED
      BY <3>2, <3>3
  <2>3. TotalWeight(p) = w + UnvaultSat * left
    BY DEF TotalWeight
  <2> HIDE DEF left, w, n
  <2>4. UnvaultSat * left <= UnvaultSat * n /\ UnvaultSat * left \in Nat /\ UnvaultSat * n \in Nat
    BY <1>3, <2>1, ConstructorsAssumption, MultMonotone
  <2> QED
    BY <2>2, <2>3, <2>4, SMT DEF MAX_STANDARD_TX_WEIGHT
<1>7. c \in Seq({"None"})
  <2> HIDE DEF c1, c2
  <2>1. /\ Error(c1, "InvalidCountOuputWithDerivations") = "None"
        /\ Error(c2, "TransactionTooLarge") = "None"
    BY <1>5, <1>6 DEF Error
  <2> QED
    BY <2>1
<1>8. SpendParseError(p) = FirstError(a \o b \o c)
  BY DEF SpendParseError
<1> HIDE DEF a, b, c, n
<1> QED
  BY <1>2, <1>3, <1>4, <1>7, <1>8, NoneAround

\* A file as made, with amounts that parse, is accepted by the parser of its type.
LEMMA AsMadeAccepted ==
  ASSUME NEW p, FileOK(p), NEW type \in TxTypes, AsMade(type, p), AmountsAsMade(p),
         type = "Spend" => p.ins # <<>>
  PROVE  ParseError(type, p) = "None"
<1> DEFINE a == CommonError(p)
           b == CASE type \in RevocationTypes -> RevocationError(type, p)
                  [] type = "Unvault" -> UnvaultParseError(p)
                  [] type = "Spend" -> SpendParseError(p)
<1>1. "Unvault" \notin RevocationTypes /\ "Spend" \notin RevocationTypes
  BY DEF RevocationTypes
<1>2. type \in RevocationTypes \/ type = "Unvault" \/ type = "Spend"
  BY DEF TxTypes
<1>3. /\ type \in RevocationTypes => b = RevocationError(type, p)
      /\ type = "Unvault" => b = UnvaultParseError(p)
      /\ type = "Spend" => b = SpendParseError(p)
  BY <1>1
<1>4. ParseError(type, p) = FirstError(<<a, b>>)
  BY DEF ParseError
<1>5. a = "None"
  BY CommonAccepts
<1> HIDE DEF a, b
<1>6. b = "None"
  BY <1>2, <1>3, RevocationAccepts, UnvaultAccepts, SpendAccepts
<1> QED
  BY <1>4, <1>5, <1>6, NoneOf
-----------------------------------------------------------------------------
(***************************************************************************)
(* The constructors make such files, and the finalizer leaves them such.      *)
(***************************************************************************)
Finalized(p) == [p EXCEPT !.ins = [i \in DOMAIN p.ins |-> FinalInput(p.ins[i])]]

LEMMA FinalizedFile ==
  ASSUME NEW p, FileOK(p), NEW q, q = Finalized(p)
  PROVE  /\ FileOK(q) /\ q.outs = p.outs /\ q.version = p.version /\ q.prevouts = p.prevouts
         /\ Len(q.ins) = Len(p.ins) /\ DOMAIN q.ins = DOMAIN p.ins
         /\ \A i \in DOMAIN p.ins : q.ins[i] = FinalInput(p.ins[i])
         /\ Spent(q) = Spent(p) /\ Sent(q) = Sent(p)
<1> DEFINE ins == [i \in DOMAIN p.ins |-> FinalInput(p.ins[i])]
<1>1. p \in Files /\ Len(p.prevouts) = Len(p.ins) /\ p.ins \in Seq(Inputs)
  BY DEF FileOK, Files
<1>2. \A i \in DOMAIN p.ins : p.ins[i] \in Inputs
  BY FileFacts
<1>3. \A i \in DOMAIN p.ins : ins[i] \in Inputs /\ ins[i].value = p.ins[i].value
  BY <1>2 DEF FinalInput, Inputs, Scripts, SigHashTypes
<1>4. /\ DOMAIN ins = DOMAIN p.ins /\ ins = [i \in DOMAIN ins |-> ins[i]]
      /\ \A i \in DOMAIN p.ins : ins[i] = FinalInput(p.ins[i])
  OBVIOUS
<1>5. q = [p EXCEPT !.ins = ins]
  BY DEF Finalized
<1> HIDE DEF ins
<1>6. ins \in Seq(Inputs)
  BY <1>1, <1>3, <1>4, Mapped
<1>7. Len(ins) = Len(p.ins)
  BY <1>1, <1>4, <1>6
<1>8. /\ q.ins = ins /\ q.outs = p.outs /\ q.version = p.version /\ q.prevouts = p.prevouts
      /\ FileOK(q)
  BY <1>1, <1>5, <1>6, <1>7 DEF FileOK, Files
<1>9. Values(ins) = Values(p.ins)
  BY <1>3, <1>4 DEF Values
<1>10. Spent(q) = Spent(p) /\ Sent(q) = Sent(p)
  BY <1>8, <1>9, Zenon DEF Spent, Sent
<1> QED
  BY <1>4, <1>7, <1>8, <1>10

LEMMA FinalizedAsMade ==
  ASSUME NEW p, FileOK(p), NEW type \in TxTypes, AsMade(type, p), NEW q, q = Finalized(p)
  PROVE  /\ AsMade(type, q)
         /\ Excused(type, p) => Excused(type, q)
         /\ AmountsAsMade(p) => AmountsAsMade(q)
<1>1. /\ FileOK(q) /\ q.outs = p.outs /\ q.version = p.version /\ q.prevouts = p.prevouts
      /\ Len(q.ins) = Len(p.ins) /\ DOMAIN q.ins = DOMAIN p.ins
      /\ \A i \in DOMAIN p.ins : q.ins[i] = FinalInput(p.ins[i])
      /\ Spent(q) = Spent(p) /\ Sent(q) = Sent(p)
  BY FinalizedFile
<1>2. ASSUME NEW i \in DOMAIN p.ins
      PROVE  /\ q.ins[i].kind = p.ins[i].kind /\ q.ins[i].value = p.ins[i].value
             /\ q.ins[i].final /\ q.ins[i].final = TRUE /\ InputAsMade(type, q.ins[i])
  <2>1. p.ins[i] \in Inputs /\ InputAsMade(type, p.ins[i])
    BY FileFacts DEF AsMade
  <2>2. q.ins[i] = FinalInput(p.ins[i])
    BY <1>1
  <2> DEFINE in == p.ins[i]
             out == q.ins[i]
  <2> HIDE DEF in, out
  <2>3. in \in Inputs /\ InputAsMade(type, in) /\ out = FinalInput(in)
    BY <2>1, <2>2 DEF in, out
  <2>4. /\ out.kind = in.kind /\ out.value = in.value /\ out.final = TRUE
        /\ out.witness_script = "None" /\ out.redeem_script = FALSE
        /\ out.non_witness_utxo = in.non_witness_utxo
    BY <2>3 DEF FinalInput, Inputs
  <2>5. InputAsMade(type, out)
    BY <2>3, <2>4 DEF InputAsMade
  <2> QED
    BY <2>4, <2>5 DEF in, out
<1>3. type \in RevocationTypes => RevocationAsMade(type, q)
  <2> SUFFICES ASSUME type \in RevocationTypes PROVE RevocationAsMade(type, q)
    OBVIOUS
  <2>1. RevocationAsMade(type, p)
    BY DEF AsMade
  <2>2. 1 \in DOMAIN p.ins /\ (Len(p.ins) = 2 => 2 \in DOMAIN p.ins)
    <3>1. DOMAIN p.ins = 1..Len(p.ins) /\ Len(p.ins) \in 1..2
      BY <2>1, FileFacts DEF RevocationAsMade
    <3> DEFINE n == Len(p.ins)
    <3>2. DOMAIN p.ins = 1..n /\ n \in 1..2
      BY <3>1
    <3> HIDE DEF n
    <3>3. 1 \in DOMAIN p.ins /\ (n = 2 => 2 \in DOMAIN p.ins)
      BY <3>2
    <3> QED
      BY <3>3 DEF n
  <2> QED
    BY <1>1, <1>2, <2>1, <2>2 DEF RevocationAsMade
<1>4. type = "Unvault" => UnvaultAsMade(q)
  <2> SUFFICES ASSUME type = "Unvault" PROVE UnvaultAsMade(q)
    OBVIOUS
  <2>1. UnvaultAsMade(p)
    BY DEF AsMade
  <2>2. 1 \in DOMAIN p.ins
    BY <2>1, FileFacts DEF UnvaultAsMade
  <2> QED
    BY <1>1, <1>2, <2>1, <2>2 DEF UnvaultAsMade
<1>5. type = "Spend" => SpendAsMade(q)
  BY <1>1, <1>2 DEF AsMade, SpendAsMade
<1>6. AsMade(type, q)
  <2>1. \A i \in DOMAIN q.ins : InputAsMade(type, q.ins[i])
    BY <1>1, <1>2
  <2>2. \A i, j \in DOMAIN q.ins : q.ins[i].final = q.ins[j].final
    BY <1>1, <1>2
  <2>3. q.version = "TX_VERSION" /\ IsInjective(q.prevouts)
    BY <1>1 DEF AsMade
  <2> QED
    BY <1>3, <1>4, <1>5, <2>1, <2>2, <2>3 DEF AsMade
<1>7. p.ins = <<>> => q.ins = <<>>
  <2>1. q.ins \in Seq(Inputs) /\ Len(q.ins) = Len(p.ins)
    BY <1>1 DEF FileOK, Files
  <2> QED
    BY <2>1
<1> QED
  BY <1>1, <1>2, <1>6, <1>7 DEF Excused, AmountsAsMade

LEMMA FewCoins ==
  ASSUME CodeAmounts
  PROVE  MAX_MONEY \in Nat /\ U64 \in Nat /\ MAX_MONEY < U64 /\ INSANE_FEES <= MAX_MONEY
BY ConstructorsAssumption DEF CodeAmounts

LEMMA UnvaultMade ==
  ASSUME CodeAmounts, NEW d \in Deposits, UnvaultError(d) = "None"
  PROVE  /\ UnvaultValue(d) \in DUST_LIMIT..MAX_MONEY
         /\ AsMade("Unvault", UnvaultPsbt(d)) /\ AmountsAsMade(UnvaultPsbt(d))
<1> DEFINE u == UnvaultValue(d)
           p == UnvaultPsbt(d)
<1>1. d \in 0..MAX_MONEY /\ MAX_MONEY \in Nat /\ MAX_MONEY < U64 /\ U64 \in Nat
  BY FewCoins DEF CodeAmounts
<1>2. /\ UnvaultFees \in Nat /\ UnvaultFees <= INSANE_FEES /\ INSANE_FEES <= MAX_MONEY
      /\ UnvaultFees + UNVAULT_CPFP_VALUE + DUST_LIMIT <= d /\ u <= MAX_MONEY
  BY <1>1, Fees, SMT DEF UnvaultError, CodeAmounts, INSANE_FEES, UNVAULT_CPFP_VALUE, DUST_LIMIT,
                    UnvaultValue
<1>3. u = d - UnvaultFees - UNVAULT_CPFP_VALUE
  BY DEF UnvaultValue
<1> DEFINE ins == <<WshInput(d, "All")>>
           outs == <<Output(u, TRUE), Output(UNVAULT_CPFP_VALUE, TRUE)>>
<1>4. p.ins = ins /\ p.outs = outs /\ p.version = "TX_VERSION"
      /\ p.prevouts = [i \in DOMAIN ins |-> i]
  BY DEF UnvaultPsbt, Psbt
<1> HIDE DEF u, p
<1>5. u \in DUST_LIMIT..MAX_MONEY
  BY <1>1, <1>2, <1>3 DEF UNVAULT_CPFP_VALUE, DUST_LIMIT
<1>6. Values(ins) = <<d>> /\ Values(outs) = <<u, UNVAULT_CPFP_VALUE>>
  BY DEF Values, WshInput, Output
<1>7. Spent(p) = d /\ Sent(p) = u + UNVAULT_CPFP_VALUE
  <2>1. d \in Nat /\ u \in Nat /\ UNVAULT_CPFP_VALUE \in Nat
    BY <1>1, <1>5 DEF UNVAULT_CPFP_VALUE, DUST_LIMIT
  <2>2. Whole(<<d>>) = d /\ Whole(<<u, UNVAULT_CPFP_VALUE>>) = u + UNVAULT_CPFP_VALUE
    BY <2>1, TotalFew
  <2>3. Spent(p) = Whole(<<d>>) /\ Sent(p) = Whole(<<u, UNVAULT_CPFP_VALUE>>)
    BY <1>4, <1>6, Zenon DEF Spent, Sent, Total, Whole
  <2> QED
    BY <2>2, <2>3
<1>8. AmountsAsMade(p)
  <2>1. \A i \in DOMAIN p.ins : p.ins[i].value <= MAX_MONEY
    BY <1>1, <1>4 DEF WshInput
  <2>2. \A j \in DOMAIN p.outs : OutputParses(p.outs[j].value)
    <3>1. UNVAULT_CPFP_VALUE \in DUST_VALUE..MAX_MONEY /\ u \in DUST_VALUE..MAX_MONEY
      BY <1>1, <1>2, <1>5, SMT DEF UNVAULT_CPFP_VALUE, DUST_VALUE, INSANE_FEES, DUST_LIMIT
    <3> QED
      BY <1>4, <3>1 DEF Output, OutputParses
  <2>3. /\ u + UNVAULT_CPFP_VALUE <= d /\ d - (u + UNVAULT_CPFP_VALUE) <= MAX_MONEY
        /\ d < U64 /\ u + UNVAULT_CPFP_VALUE < U64
    BY <1>1, <1>2, <1>3, <1>5, SMT DEF UNVAULT_CPFP_VALUE, INSANE_FEES, DUST_LIMIT
  <2>4. FeesParse(Spent(p), Sent(p)) /\ Spent(p) < U64 /\ Sent(p) < U64
    BY <1>7, <2>3 DEF FeesParse
  <2> QED
    BY <2>1, <2>2, <2>4 DEF AmountsAsMade
<1>9. AsMade("Unvault", p)
  <2>1. VaultSigHash("Unvault") = "All" /\ "Unvault" \notin RevocationTypes
    BY DEF VaultSigHash, RevocationTypes
  <2>2. InputAsMade("Unvault", WshInput(d, "All")) /\ WshInput(d, "All").kind = "P2wsh"
    BY <2>1 DEF InputAsMade, WshInput
  <2>3. UnvaultAsMade(p)
    BY <1>4, <2>2 DEF UnvaultAsMade, Output
  <2>4. IsInjective(p.prevouts)
    BY <1>4 DEF IsInjective
  <2>5. DOMAIN p.ins = {1} /\ p.ins[1] = WshInput(d, "All")
    BY <1>4
  <2> QED
    BY <1>4, <2>1, <2>2, <2>3, <2>4, <2>5 DEF AsMade
<1> QED
  BY <1>5, <1>8, <1>9 DEF u, p

LEMMA RevocationMade ==
  ASSUME CodeAmounts, NEW type \in RevocationTypes, NEW v \in Nat, NEW fees \in Nat,
         NEW fb \in Nat, fees <= v, v - fees <= MAX_MONEY,
         NEW p, p = RevocationPsbt(RevocationTx(type, v, fees, fb))
  PROVE  /\ AsMade(type, p) /\ p.outs[1].value = v - fees
         /\ v - fees >= DUST_VALUE => Spent(p) > MAX_MONEY \/ AmountsAsMade(p)
<1> DEFINE vault == WshInput(v, "AllPlusAnyoneCanPay")
           bump == FeeBumpInput(fb)
           ins == IF fb = 0 THEN <<vault>> ELSE <<vault, bump>>
           outs == <<Output(v - fees, type = "Cancel")>>
<1>1. p.ins = ins /\ p.outs = outs /\ p.version = "TX_VERSION"
      /\ p.prevouts = [i \in DOMAIN ins |-> i]
  <2>1. ins = <<vault>> \o (IF fb = 0 THEN <<>> ELSE <<bump>>)
    <3> HIDE DEF vault, bump
    <3>1. <<vault>> \o <<>> = <<vault>> /\ <<vault>> \o <<bump>> = <<vault, bump>>
      BY Joined
    <3> QED
      BY <3>1
  <2> QED
    BY <2>1 DEF RevocationPsbt, RevocationTx, Psbt
<1>2. MAX_MONEY \in Nat /\ U64 \in Nat /\ MAX_MONEY < U64
  BY FewCoins
<1>3. /\ vault.value = v /\ vault.kind = "P2wsh" /\ bump.value = fb /\ bump.kind = "P2wpkh"
      /\ InputAsMade(type, vault) /\ InputAsMade(type, bump)
      /\ vault.final = FALSE /\ bump.final = FALSE
  BY DEF WshInput, FeeBumpInput, InputAsMade, VaultSigHash
<1>4. Spent(p) = v + fb /\ Sent(p) = v - fees
  <2>1. Values(ins) = IF fb = 0 THEN <<v>> ELSE <<v, fb>>
    BY <1>3 DEF Values
  <2>2. Values(outs) = <<v - fees>>
    BY DEF Values, Output
  <2>3. v - fees \in Nat
    OBVIOUS
  <2>4. Whole(<<v>>) = v /\ Whole(<<v, fb>>) = v + fb /\ Whole(<<v - fees>>) = v - fees
    BY <2>3, TotalFew
  <2>5. Spent(p) = Whole(Values(ins)) /\ Sent(p) = Whole(Values(outs))
    BY <1>1, Zenon DEF Spent, Sent, Total, Whole
  <2> HIDE DEF ins, outs
  <2> QED
    BY <2>1, <2>2, <2>4, <2>5
<1> HIDE DEF vault, bump
<1>5. p.outs[1].value = v - fees /\ DOMAIN p.outs = {1} /\ Len(p.outs) = 1
      /\ p.outs[1].paths = (type = "Cancel") /\ ~p.outs[1].redeem_script
  BY <1>1 DEF Output
<1>6. /\ Len(p.ins) \in 1..2 /\ p.ins[1] = vault /\ (Len(p.ins) = 2 => p.ins[2] = bump)
      /\ \A i \in DOMAIN p.ins : p.ins[i] \in {vault, bump}
  <2>1. CASE fb = 0
    BY <1>1, <2>1
  <2>2. CASE fb # 0
    BY <1>1, <2>2
  <2> QED
    BY <2>1, <2>2
<1>7. AsMade(type, p)
  <2>1. RevocationAsMade(type, p)
    BY <1>3, <1>5, <1>6 DEF RevocationAsMade
  <2>2. IsInjective(p.prevouts)
    BY <1>1 DEF IsInjective
  <2>3. type # "Unvault" /\ type # "Spend"
    BY DEF RevocationTypes
  <2>4. \A i \in DOMAIN p.ins : InputAsMade(type, p.ins[i]) /\ p.ins[i].final = FALSE
    <3> SUFFICES ASSUME NEW i \in DOMAIN p.ins
                 PROVE  InputAsMade(type, p.ins[i]) /\ p.ins[i].final = FALSE
      OBVIOUS
    <3>1. p.ins[i] = vault \/ p.ins[i] = bump
      BY <1>6
    <3> QED
      BY <1>3, <3>1, Zenon
  <2> QED
    BY <1>1, <2>1, <2>2, <2>3, <2>4 DEF AsMade
<1>8. ASSUME v - fees >= DUST_VALUE, ~(Spent(p) > MAX_MONEY)
      PROVE  AmountsAsMade(p)
  <2>1. v + fb <= MAX_MONEY
    BY <1>2, <1>4, <1>8
  <2>2. \A i \in DOMAIN p.ins : p.ins[i].value <= MAX_MONEY
    BY <1>2, <1>3, <1>6, <2>1
  <2>3. v - fees \in DUST_VALUE..MAX_MONEY
    BY <1>2, <1>8 DEF DUST_VALUE
  <2>4. \A j \in DOMAIN p.outs : OutputParses(p.outs[j].value)
    BY <1>5, <2>3 DEF OutputParses
  <2>5. FeesParse(Spent(p), Sent(p)) /\ Spent(p) < U64 /\ Sent(p) < U64
    BY <1>2, <1>4, <2>1 DEF FeesParse
  <2> QED
    BY <2>2, <2>4, <2>5 DEF AmountsAsMade
<1> QED
  BY <1>5, <1>7, <1>8

LEMMA SmallRemainder ==
  \A x \in Nat, b \in Nat \ {0} : x < b => x % b = x
<1> SUFFICES ASSUME NEW x \in Nat, NEW b \in Nat \ {0}, x < b PROVE x % b = x
  OBVIOUS
<1> DEFINE q == x \div b
           r == x % b
<1>1. q \in Nat /\ r \in 0..(b - 1) /\ x = b * q + r
  BY Z3
<1>2. CASE q = 0
  BY <1>1, <1>2
<1>3. CASE q >= 1
  <2>1. b * q >= b * 1
    BY <1>1, <1>3, MultMonotone
  <2> HIDE DEF q, r
  <2> QED
    BY <1>1, <2>1
<1> QED
  BY <1>1, <1>2, <1>3

\* What SpendTransaction::new() checked of n inputs and m outputs.
LEMMA SpendChecks ==
  ASSUME CodeAmounts, NEW us \in Seq(Nat), \A i \in DOMAIN us : us[i] <= MAX_MONEY,
         NEW all \in Seq(Nat), SpendError(us, FALSE, all, TRUE) = "None",
         NEW n, n = Len(us), NEW m, m = Len(all)
  PROVE  LET cpfp == SpendCpfpValue(n, m) IN
         /\ n \in Nat /\ m \in Nat
         /\ Weight(n, m + 1) + UnvaultSat * n <= MAX_STANDARD_TX_WEIGHT
         /\ cpfp \in DUST_VALUE..MAX_MONEY
         /\ \A i \in DOMAIN all : all[i] >= DUST_VALUE
         /\ Whole(us) \in Nat /\ Whole(us) < U64
         /\ Whole(all) \in Nat
         /\ Whole(all) < U64 =>
              /\ \A i \in DOMAIN all : all[i] <= MAX_MONEY
              /\ Whole(us) - Whole(all) <= INSANE_FEES
<1> DEFINE cpfp == SpendCpfpValue(n, m)
           spent == Whole(us)
           sent == Whole(all)
<1>1. n \in Nat /\ m \in Nat
  OBVIOUS
<1>2. MAX_MONEY \in Nat /\ U64 \in Nat /\ MAX_MONEY < U64 /\ INSANE_FEES <= MAX_MONEY
  BY FewCoins
<1>3. spent \in Nat /\ sent \in Nat /\ Total(us) = spent /\ Total(all) = sent
  BY TotalNat, Zenon DEF Whole, Total
<1>4. /\ \A i \in DOMAIN all : ~(all[i] < DUST_VALUE)
      /\ ~(SpendWeight(n, m) > MAX_STANDARD_TX_WEIGHT)
      /\ ~(ValueOut(all) > MAX_MONEY) /\ ~(ValueIn(us) < ValueOut(all))
      /\ ~(ValueIn(us) - ValueOut(all) > INSANE_FEES)
  BY DEF SpendError
<1>5. /\ UnvaultSat * n \in Nat /\ n * UnvaultSat = UnvaultSat * n
      /\ SpendWeight(n, m) = Weight(n, m + 1) + UnvaultSat * n
      /\ Weight(n, m + 1) = 40 + 164 * n + 172 * (m + 1)
      /\ cpfp = 16 * SpendWeight(n, m)
  BY <1>1, ConstructorsAssumption DEF SpendWeight, Weight, SpendCpfpValue
<1>6. /\ SpendWeight(n, m) \in Nat /\ SpendWeight(n, m) <= MAX_STANDARD_TX_WEIGHT
      /\ SpendWeight(n, m) >= 212 + 164 * n
  <2> DEFINE sat == UnvaultSat * n
  <2>1. sat \in Nat /\ SpendWeight(n, m) = (40 + 164 * n + 172 * (m + 1)) + sat
    BY <1>5
  <2> HIDE DEF sat
  <2>2. SpendWeight(n, m) \in Nat /\ SpendWeight(n, m) >= 212 + 164 * n
    BY <1>1, <2>1
  <2> QED
    BY <1>4, <2>2, SMT DEF MAX_STANDARD_TX_WEIGHT
<1>7. n <= 2439
  BY <1>1, <1>6, SMT DEF MAX_STANDARD_TX_WEIGHT
<1>8. Weight(n, m + 1) + UnvaultSat * n <= MAX_STANDARD_TX_WEIGHT
  BY <1>5, <1>6
<1>9. cpfp \in DUST_VALUE..MAX_MONEY
  BY <1>1, <1>2, <1>5, <1>6, SMT DEF DUST_VALUE, INSANE_FEES, MAX_STANDARD_TX_WEIGHT
<1>10. \A i \in DOMAIN all : all[i] \in Nat
  OBVIOUS
<1>11. spent < U64
  <2>1. spent <= n * MAX_MONEY
    BY <1>2, TotalBound
  <2>2. n * MAX_MONEY <= 2439 * MAX_MONEY /\ n * MAX_MONEY \in Nat /\ 2439 * MAX_MONEY \in Nat
    BY <1>1, <1>2, <1>7, MultMonotone
  <2>3. 2439 * MAX_MONEY < U64
    BY DEF CodeAmounts
  <2> DEFINE x == n * MAX_MONEY
             y == 2439 * MAX_MONEY
  <2>4. spent <= x /\ x <= y /\ y < U64 /\ x \in Nat /\ y \in Nat
    BY <2>1, <2>2, <2>3
  <2> HIDE DEF x, y, spent
  <2> QED
    BY <1>2, <1>3, <2>4
<1> HIDE DEF spent, sent, cpfp
<1>12. ASSUME NEW x \in Nat, x < U64 PROVE x % U64 = x
  <2>1. U64 \in Nat \ {0}
    BY ConstructorsAssumption
  <2> QED
    BY <1>12, <2>1, SmallRemainder
<1>13. ValueIn(us) = spent
  BY <1>3, <1>11, <1>12 DEF ValueIn
<1>14. ASSUME sent < U64
       PROVE  (\A i \in DOMAIN all : all[i] <= MAX_MONEY) /\ spent - sent <= INSANE_FEES
  <2>1. ValueOut(all) = sent
    BY <1>3, <1>12, <1>14 DEF ValueOut
  <2>2. sent <= MAX_MONEY /\ spent - sent <= INSANE_FEES
    BY <1>2, <1>3, <1>4, <1>13, <2>1, SMT DEF INSANE_FEES
  <2>3. \A i \in DOMAIN all : all[i] <= sent
    BY TotalPart DEF sent
  <2> QED
    BY <1>2, <1>3, <1>10, <2>2, <2>3
<1>15. \A i \in DOMAIN all : all[i] >= DUST_VALUE
  BY <1>4, <1>10 DEF DUST_VALUE
<1> QED
  BY <1>1, <1>3, <1>8, <1>9, <1>11, <1>14, <1>15 DEF spent, sent, cpfp

LEMMA PairSize ==
  ASSUME NEW x, NEW y
  PROVE  Cardinality({x, y}) \in 1..2
<1>1. IsFiniteSet({x}) /\ Cardinality({x}) = 1
  BY FS_Singleton
<1>2. CASE x = y
  <2>1. {x, y} = {x}
    BY <1>2
  <2>2. Cardinality({x, y}) = 1
    BY <1>1, <2>1, Zenon
  <2> QED
    BY <2>2
<1>3. CASE x # y
  <2>1. {x, y} = {x} \cup {y} /\ y \notin {x}
    BY <1>3
  <2>2. Cardinality({x} \cup {y}) = Cardinality({x}) + 1
    BY <1>1, <2>1, FS_AddElement
  <2>3. Cardinality({x, y}) = 1 + 1
    BY <1>1, <2>1, <2>2, Zenon
  <2> QED
    BY <2>3
<1> QED
  BY <1>2, <1>3

LEMMA TwoParts ==
  ASSUME NEW S, NEW a \in Seq(S), NEW b \in Seq(S)
  PROVE  /\ a \o b \in Seq(S) /\ Len(a \o b) = Len(a) + Len(b)
         /\ \A i \in 1..Len(a) : (a \o b)[i] = a[i]
         /\ \A i \in 1..Len(b) : (a \o b)[Len(a) + i] = b[i]
OBVIOUS

LEMMA ThreeParts ==
  ASSUME NEW S, NEW a \in Seq(S), NEW b \in Seq(S), NEW c \in Seq(S)
  PROVE  /\ a \o b \o c \in Seq(S) /\ Len(a \o b \o c) = Len(a) + Len(b) + Len(c)
         /\ \A i \in 1..Len(a) : (a \o b \o c)[i] = a[i]
         /\ \A i \in 1..Len(b) : (a \o b \o c)[Len(a) + i] = b[i]
         /\ \A i \in 1..Len(c) : (a \o b \o c)[Len(a) + Len(b) + i] = c[i]
<1> DEFINE d == a \o b
<1>1. /\ d \in Seq(S) /\ Len(d) = Len(a) + Len(b)
      /\ \A i \in 1..Len(a) : d[i] = a[i]
      /\ \A i \in 1..Len(b) : d[Len(a) + i] = b[i]
  BY TwoParts
<1>2. \A i \in 1..Len(a) : i \in 1..(Len(a) + Len(b))
  OBVIOUS
<1>3. \A i \in 1..Len(b) : Len(a) + i \in 1..(Len(a) + Len(b))
  OBVIOUS
<1> HIDE DEF d
<1>4. /\ d \o c \in Seq(S) /\ Len(d \o c) = Len(d) + Len(c)
      /\ \A i \in 1..Len(d) : (d \o c)[i] = d[i]
      /\ \A i \in 1..Len(c) : (d \o c)[Len(d) + i] = c[i]
  <2>1. d \in Seq(S) /\ c \in Seq(S)
    BY <1>1
  <2> QED
    BY <2>1, TwoParts
<1> DEFINE e == d \o c
           x == Len(a) + Len(b)
<1>5. /\ e \in Seq(S) /\ Len(e) = x + Len(c)
      /\ \A i \in 1..x : e[i] = d[i]
      /\ \A i \in 1..Len(c) : e[x + i] = c[i]
  BY <1>1, <1>4
<1>6. /\ \A i \in 1..Len(a) : i \in 1..x /\ d[i] = a[i]
      /\ \A i \in 1..Len(b) : Len(a) + i \in 1..x /\ d[Len(a) + i] = b[i]
  BY <1>1, <1>2, <1>3
<1> HIDE DEF e
<1>7. /\ \A i \in 1..Len(a) : e[i] = a[i]
      /\ \A i \in 1..Len(b) : e[Len(a) + i] = b[i]
  BY <1>5, <1>6, Zenon
<1> QED
  BY <1>5, <1>7 DEF e, d

LEMMA OutputValues ==
  ASSUME NEW o \in Seq(Outputs)
  PROVE  /\ Values(o) \in Seq(Nat) /\ Len(Values(o)) = Len(o)
         /\ \A j \in DOMAIN o : Values(o)[j] = o[j].value
<1>1. \A j \in DOMAIN o : o[j] \in Outputs
  OBVIOUS
<1>2. \A x \in Outputs : x.value \in Nat
  BY DEF Outputs
<1>3. \A j \in DOMAIN o : o[j].value \in Nat
  BY <1>1, <1>2, Zenon
<1> QED
  BY <1>3 DEF Values

\* The outputs of a Spend: that to be CPFPed, n others without derivation paths,
\* and k outputs of change.
OutputList(o, cpfp, all, n, k) ==
  /\ n \in Nat /\ k \in Nat /\ all \in Seq(Nat) /\ Len(all) = n + k
  /\ o \in Seq(Outputs) /\ Len(o) = 1 + n + k
  /\ o[1].value = cpfp /\ o[1].paths
  /\ \A i \in 1..n : o[1 + i].value = all[i] /\ ~o[1 + i].paths
  /\ \A i \in 1..k : o[1 + n + i].value = all[n + i]

OutputTotals(o, cpfp, all) ==
  /\ o \in Seq(Outputs) /\ Len(o) = Len(all) + 1
  /\ o[1].value = cpfp /\ \A i \in 1..Len(all) : o[i + 1].value = all[i]
  /\ Whole(Values(o)) = cpfp + Whole(all)
  /\ Cardinality({j \in DOMAIN o : o[j].paths}) \in 1..2

LEMMA SpendOutputs ==
  ASSUME NEW cpfp \in Nat, NEW n, NEW k, k <= 1, NEW all, NEW o,
         OutputList(o, cpfp, all, n, k)
  PROVE  OutputTotals(o, cpfp, all)
<1>0. /\ n \in Nat /\ k \in 0..1 /\ all \in Seq(Nat) /\ Len(all) = n + k
      /\ o \in Seq(Outputs) /\ Len(o) = 1 + n + k
      /\ o[1].value = cpfp /\ o[1].paths
      /\ \A i \in 1..n : o[1 + i].value = all[i] /\ ~o[1 + i].paths
      /\ \A i \in 1..k : o[1 + n + i].value = all[n + i]
  <2>1. k \in Nat
    BY Zenon DEF OutputList
  <2>2. k \in 0..1
    BY <2>1
  <2> QED
    BY <2>2, Zenon DEF OutputList
<1> DEFINE m == n + k
           t == Values(o)
<1>1. m \in Nat /\ Len(all) = m /\ Len(o) = m + 1 /\ DOMAIN o = 1..(m + 1)
  BY <1>0
<1>2. ASSUME NEW i \in 1..m PROVE o[i + 1].value = all[i]
  <2>1. i \in 1..n \/ (i - n \in 1..k /\ i = n + (i - n) /\ i + 1 = 1 + n + (i - n))
    BY <1>0
  <2>2. CASE i \in 1..n
    <3>1. i + 1 = 1 + i
      OBVIOUS
    <3> QED
      BY <1>0, <2>2, <3>1
  <2>3. CASE i - n \in 1..k /\ i = n + (i - n) /\ i + 1 = 1 + n + (i - n)
    <3> DEFINE h == i - n
    <3>1. h \in 1..k /\ i = n + h /\ i + 1 = 1 + n + h
      BY <2>3
    <3> HIDE DEF h
    <3> QED
      BY <1>0, <3>1
  <2> QED
    BY <2>1, <2>2, <2>3
<1> HIDE DEF m
<1>3. t \in Seq(Nat) /\ Len(t) = Len(o) /\ \A j \in DOMAIN o : t[j] = o[j].value
  BY <1>0, OutputValues, Zenon
<1>4. t \in Seq(Nat) /\ Len(t) = m + 1 /\ \A j \in 1..(m + 1) : t[j] = o[j].value
  BY <1>1, <1>3, Zenon
<1>5. \A i \in 1..m : all[i] \in Nat
  BY <1>0, <1>1
<1> HIDE DEF t
<1>6. t[1] = cpfp /\ \A i \in 1..m : all[i] \in Nat /\ t[i + 1] = all[i]
  <2>1. 1 \in 1..(m + 1) /\ \A i \in 1..m : i + 1 \in 1..(m + 1)
    BY <1>1
  <2> QED
    BY <1>0, <1>2, <1>4, <1>5, <2>1
<1>7. Whole(t) = cpfp + Whole(all)
  <2>1. Whole(t) = SumFunctionOnSet(t, 1..(m + 1)) /\ Whole(all) = SumFunctionOnSet(all, 1..m)
    BY <1>0, <1>1, <1>4, TotalIs
  <2>2. SumFunctionOnSet(t, 1..(m + 1)) = cpfp + SumFunctionOnSet(all, 1..m)
    BY <1>1, <1>6, SumShift
  <2> QED
    BY <2>1, <2>2
<1>8. Cardinality({j \in DOMAIN o : o[j].paths}) \in 1..2
  <2> DEFINE paths == {j \in DOMAIN o : o[j].paths}
             last == 1 + n + k
  <2>1. 1 \in paths
    BY <1>0, <1>1
  <2>2. ASSUME NEW j \in paths PROVE j = 1 \/ j = last
    <3>1. j \in 1..(1 + n + k) /\ o[j].paths
      BY <1>0
    <3>2. CASE j - 1 \in 1..n
      <4>1. PICK i \in 1..n : j = 1 + i
        BY <3>1, <3>2
      <4>2. ~o[1 + i].paths
        BY <1>0, Zenon
      <4> QED
        BY <3>1, <4>1, <4>2, Zenon
    <3>3. CASE j - 1 \notin 1..n
      <4>1. n \in Nat /\ k \in 0..1
        BY <1>0, Zenon
      <4>2. j \in 1..(1 + n + k) /\ j - 1 \notin 1..n
        BY <3>1, <3>3, Zenon
      <4> QED
        BY <4>1, <4>2
    <3> QED
      BY <3>2, <3>3
  <2> HIDE DEF paths, last
  <2>3. paths = {1, last} \/ paths = {1, 1}
    BY <2>1, <2>2
  <2>4. Cardinality(paths) \in 1..2
    BY <2>3, PairSize, Zenon
  <2> QED
    BY <2>4 DEF paths
<1> QED
  BY <1>0, <1>1, <1>2, <1>7, <1>8 DEF t, OutputTotals

\* Those outputs in the order that SpendTransaction::new() puts them.
OutputsOf(cpfp, outs, change) ==
  <<Output(cpfp, TRUE)>>
    \o [i \in DOMAIN outs |-> Output(outs[i], FALSE)]
    \o [i \in DOMAIN change |-> Output(change[i], TRUE)]

LEMMA SpendParts ==
  ASSUME NEW cpfp \in Nat, NEW outs \in Seq(Nat), NEW change \in Seq(Nat)
  PROVE  OutputList(OutputsOf(cpfp, outs, change), cpfp, outs \o change,
                    Len(outs), Len(change))
<1> DEFINE n == Len(outs)
           k == Len(change)
           a == <<Output(cpfp, TRUE)>>
           b == [i \in DOMAIN outs |-> Output(outs[i], FALSE)]
           c == [i \in DOMAIN change |-> Output(change[i], TRUE)]
           w == a \o b \o c
           x == outs \o change
<1>1. /\ DOMAIN b = DOMAIN outs /\ b = [i \in DOMAIN b |-> b[i]]
      /\ \A i \in DOMAIN outs : b[i] = Output(outs[i], FALSE)
      /\ DOMAIN c = DOMAIN change /\ c = [i \in DOMAIN c |-> c[i]]
      /\ \A i \in DOMAIN change : c[i] = Output(change[i], TRUE)
  BY Zenon
<1>2. /\ a[1] = Output(cpfp, TRUE) /\ Len(a) = 1 /\ Output(cpfp, TRUE) \in Outputs
      /\ Output(cpfp, TRUE).value = cpfp /\ Output(cpfp, TRUE).paths
  BY DEF Output, Outputs
<1>3. a \in Seq(Outputs)
  BY <1>2, Listed, Zenon
<1>4. OutputsOf(cpfp, outs, change) = w /\ outs \o change = x
  BY DEF OutputsOf
<1> HIDE DEF n, k, a, b, c, w, x
<1>5. /\ n \in Nat /\ DOMAIN outs = 1..n /\ \A i \in 1..n : outs[i] \in Nat
      /\ k \in Nat /\ DOMAIN change = 1..k /\ \A i \in 1..k : change[i] \in Nat
  BY DEF n, k
<1>6. /\ \A v \in Nat, q \in BOOLEAN :
           Output(v, q) \in Outputs /\ Output(v, q).value = v /\ Output(v, q).paths = q
  BY DEF Output, Outputs
<1>7. /\ \A i \in 1..n : b[i] \in Outputs /\ b[i].value = outs[i] /\ ~b[i].paths
      /\ \A i \in 1..k : c[i] \in Outputs /\ c[i].value = change[i]
  <2>1. TRUE \in BOOLEAN /\ FALSE \in BOOLEAN
    OBVIOUS
  <2> QED
    <3>1. ASSUME NEW i \in 1..n PROVE b[i] \in Outputs /\ b[i].value = outs[i] /\ ~b[i].paths
      <4>1. b[i] = Output(outs[i], FALSE) /\ outs[i] \in Nat
        BY <1>1, <1>5
      <4> QED
        BY <1>6, <2>1, <4>1, Zenon
    <3>2. ASSUME NEW i \in 1..k PROVE c[i] \in Outputs /\ c[i].value = change[i]
      <4>1. c[i] = Output(change[i], TRUE) /\ change[i] \in Nat
        BY <1>1, <1>5
      <4> QED
        BY <1>6, <2>1, <4>1, Zenon
    <3> QED
      BY <3>1, <3>2
<1>8. b \in Seq(Outputs) /\ c \in Seq(Outputs)
  <2>1. \A i \in DOMAIN outs : b[i] \in Outputs
    BY <1>5, <1>7, Zenon
  <2>2. \A i \in DOMAIN change : c[i] \in Outputs
    BY <1>5, <1>7, Zenon
  <2>3. b \in Seq(Outputs)
    BY <1>1, <2>1, Mapped
  <2>4. c \in Seq(Outputs)
    BY <1>1, <2>2, Mapped
  <2> QED
    BY <2>3, <2>4
<1>9. Len(b) = n /\ Len(c) = k
  BY <1>1, <1>5, <1>8
<1>10. /\ w \in Seq(Outputs) /\ Len(w) = Len(a) + Len(b) + Len(c)
       /\ \A i \in 1..Len(a) : w[i] = a[i]
       /\ \A i \in 1..Len(b) : w[Len(a) + i] = b[i]
       /\ \A i \in 1..Len(c) : w[Len(a) + Len(b) + i] = c[i]
  BY <1>3, <1>8, ThreeParts DEF w
<1>11. /\ w \in Seq(Outputs) /\ Len(w) = 1 + n + k /\ w[1] = a[1]
       /\ \A i \in 1..n : w[1 + i] = b[i]
       /\ \A i \in 1..k : w[1 + n + i] = c[i]
  <2>1. 1 \in 1..1
    OBVIOUS
  <2> QED
    BY <1>2, <1>9, <1>10, <2>1, Zenon
<1>12. /\ x \in Seq(Nat) /\ Len(x) = n + k
       /\ \A i \in 1..n : x[i] = outs[i]
       /\ \A i \in 1..k : x[n + i] = change[i]
  BY TwoParts DEF x, n, k
<1>13. /\ w[1].value = cpfp /\ w[1].paths
       /\ \A i \in 1..n : w[1 + i].value = x[i] /\ ~w[1 + i].paths
       /\ \A i \in 1..k : w[1 + n + i].value = x[n + i]
  BY <1>2, <1>7, <1>11, <1>12, Zenon
<1>14. OutputList(w, cpfp, x, n, k)
  BY <1>5, <1>11, <1>12, <1>13, Zenon DEF OutputList
<1> QED
  BY <1>4, <1>14, Zenon DEF n, k

LEMMA SpendMade ==
  ASSUME CodeAmounts, NEW us \in Seq(Nat), \A i \in DOMAIN us : us[i] <= MAX_MONEY,
         NEW outs \in Seq(Nat), NEW change \in Seq(Nat), Len(change) <= 1,
         SpendError(us, FALSE, outs \o change, TRUE) = "None",
         NEW p, p = SpendPsbt(us, outs, change)
  PROVE  AsMade("Spend", p) /\ (Sent(p) > Spent(p) \/ AmountsAsMade(p))
<1> DEFINE all == outs \o change
           n == Len(us)
           m == Len(all)
           cpfp == SpendCpfpValue(n, m)
           ins == [i \in DOMAIN us |-> WshInput(us[i], "All")]
           o == OutputsOf(cpfp, outs, change)
<1>1. p.ins = ins /\ p.outs = o /\ p.version = "TX_VERSION"
      /\ p.prevouts = [i \in DOMAIN ins |-> i]
  BY DEF SpendPsbt, SpendTx, Psbt, OutputsOf
<1>2. all \in Seq(Nat) /\ SpendError(us, FALSE, all, TRUE) = "None"
  <2>1. all \in Seq(Nat)
    OBVIOUS
  <2>2. SpendError(us, FALSE, all, TRUE) = "None"
    BY Zenon
  <2> QED
    BY <2>1, <2>2
<1>4. /\ DOMAIN ins = DOMAIN us /\ \A i \in DOMAIN us : ins[i] = WshInput(us[i], "All")
      /\ Len(ins) = n
  OBVIOUS
<1>5. Values(ins) = us
  <2>1. Values(ins) = [i \in DOMAIN us |-> us[i]]
    BY DEF Values, WshInput
  <2> QED
    BY <2>1
<1> HIDE DEF all, ins
<1>6. /\ n \in Nat /\ m \in Nat
      /\ Weight(n, m + 1) + UnvaultSat * n <= MAX_STANDARD_TX_WEIGHT
      /\ cpfp \in DUST_VALUE..MAX_MONEY
      /\ \A i \in DOMAIN all : all[i] >= DUST_VALUE
      /\ Whole(us) \in Nat /\ Whole(us) < U64
      /\ Whole(all) \in Nat
      /\ Whole(all) < U64 =>
           /\ \A i \in DOMAIN all : all[i] <= MAX_MONEY
           /\ Whole(us) - Whole(all) <= INSANE_FEES
  BY <1>2, SpendChecks
<1>7. cpfp \in Nat
  BY <1>6, FewCoins DEF DUST_VALUE
<1> HIDE DEF cpfp, n
<1> DEFINE h == Len(outs)
           k == Len(change)
<1>8. OutputList(o, cpfp, all, h, k) /\ k <= 1
  <2>1. OutputList(o, cpfp, all, h, k)
    BY <1>7, SpendParts DEF all
  <2>2. k <= 1
    OBVIOUS
  <2> QED
    BY <2>1, <2>2
<1> HIDE DEF o, m, h, k
<1>9. /\ o \in Seq(Outputs) /\ Len(o) = Len(all) + 1
      /\ o[1].value = cpfp /\ \A i \in 1..Len(all) : o[i + 1].value = all[i]
      /\ Whole(Values(o)) = cpfp + Whole(all)
      /\ Cardinality({j \in DOMAIN o : o[j].paths}) \in 1..2
  <2>1. OutputTotals(o, cpfp, all)
    BY <1>7, <1>8, SpendOutputs, Zenon
  <2> QED
    BY <2>1 DEF OutputTotals
<1>10. /\ m = Len(all) /\ Len(o) = m + 1 /\ o[1].value = cpfp
       /\ \A i \in 1..m : o[i + 1].value = all[i]
  BY <1>9, Zenon DEF m
<1>11. DOMAIN o = 1..(m + 1) /\ DOMAIN all = 1..m
  BY <1>2, <1>9, <1>10
<1>12. Spent(p) = Whole(us) /\ Sent(p) = cpfp + Whole(all)
  BY <1>1, <1>5, <1>9, Zenon DEF Spent, Sent, Total, Whole
<1>13. \A i \in DOMAIN p.ins : p.ins[i] = WshInput(us[i], "All")
  BY <1>1, <1>4
<1>14. VaultSigHash("Spend") = "All" /\ "Spend" \notin RevocationTypes
  BY DEF VaultSigHash, RevocationTypes
<1>15. AsMade("Spend", p)
  <2>1. \A v : /\ InputAsMade("Spend", WshInput(v, "All")) /\ WshInput(v, "All").kind = "P2wsh"
               /\ WshInput(v, "All").final = FALSE
    BY <1>14 DEF InputAsMade, WshInput
  <2>2. \A i \in DOMAIN p.ins :
          /\ InputAsMade("Spend", p.ins[i]) /\ p.ins[i].kind = "P2wsh"
          /\ p.ins[i].final = FALSE
    BY <1>13, <2>1, Zenon
  <2>3. SpendAsMade(p)
    <3>1. Len(p.ins) = n /\ Len(p.outs) = m + 1
      BY <1>1, <1>4, <1>10, Zenon
    <3>2. Cardinality({j \in DOMAIN p.outs : p.outs[j].paths}) \in 1..2
      BY <1>1, <1>9, Zenon
    <3>3. Weight(Len(p.ins), Len(p.outs)) + UnvaultSat * Len(p.ins) <= MAX_STANDARD_TX_WEIGHT
      BY <1>6, <3>1, Zenon
    <3> QED
      BY <2>2, <3>2, <3>3, Zenon DEF SpendAsMade
  <2>4. IsInjective(p.prevouts)
    BY <1>1 DEF IsInjective
  <2>5. \A i, j \in DOMAIN p.ins : p.ins[i].final = p.ins[j].final
    BY <2>2
  <2> QED
    BY <1>1, <1>14, <2>2, <2>3, <2>4, <2>5, Zenon DEF AsMade
<1>16. ASSUME ~(Sent(p) > Spent(p))
       PROVE  AmountsAsMade(p)
  <2>1. MAX_MONEY \in Nat /\ U64 \in Nat /\ INSANE_FEES <= MAX_MONEY /\ INSANE_FEES \in Nat
    BY FewCoins, SMT DEF CodeAmounts, INSANE_FEES
  <2>2. cpfp + Whole(all) <= Whole(us)
    BY <1>6, <1>7, <1>12, <1>16
  <2>3. Whole(all) < U64
    BY <1>6, <1>7, <2>1, <2>2
  <2>4. \A i \in DOMAIN all : all[i] \in DUST_VALUE..MAX_MONEY
    <3>1. \A i \in DOMAIN all : all[i] \in Nat
      BY <1>2
    <3> QED
      BY <1>6, <2>1, <2>3, <3>1 DEF DUST_VALUE
  <2>5. \A j \in DOMAIN p.outs : OutputParses(p.outs[j].value)
    <3> SUFFICES ASSUME NEW j \in DOMAIN o PROVE o[j].value \in DUST_VALUE..MAX_MONEY
      BY <1>1, Zenon DEF OutputParses
    <3>1. j \in 1..(m + 1)
      BY <1>11
    <3>2. CASE j = 1
      BY <1>6, <1>10, <3>2, Zenon
    <3>3. CASE j # 1
      <4> DEFINE i == j - 1
      <4>1. i \in 1..m /\ j = i + 1
        BY <1>6, <3>1, <3>3
      <4> HIDE DEF i
      <4>2. o[j].value = all[i]
        BY <1>10, <1>11, <4>1
      <4> QED
        BY <2>4, <1>11, <4>1, <4>2
    <3> QED
      BY <3>2, <3>3
  <2>6. \A i \in DOMAIN p.ins : p.ins[i].value <= MAX_MONEY
    <3>1. \A i \in DOMAIN p.ins : p.ins[i].value = us[i] /\ i \in DOMAIN us
      BY <1>1, <1>4, <1>13 DEF WshInput
    <3> QED
      BY <3>1
  <2>7. FeesParse(Spent(p), Sent(p)) /\ Spent(p) < U64 /\ Sent(p) < U64
    <3> DEFINE x == Whole(us)
               y == Whole(all)
    <3>1. /\ x \in Nat /\ y \in Nat /\ x < U64 /\ cpfp + y <= x /\ x - y <= INSANE_FEES
          /\ Spent(p) = x /\ Sent(p) = cpfp + y
      BY <1>6, <1>12, <2>2, <2>3
    <3> HIDE DEF x, y
    <3> QED
      BY <1>7, <2>1, <3>1 DEF FeesParse
  <2> QED
    BY <2>5, <2>6, <2>7, Zenon DEF AmountsAsMade
<1> QED
  BY <1>15, <1>16

\* A revocation transaction that pays its fees out of enough coins.
LEMMA PaidRevocation ==
  ASSUME CodeAmounts, NEW type \in {"Cancel", "UnvaultEmergency"}, NEW u \in DUST_LIMIT..MAX_MONEY,
         NEW fees \in Nat, fees + DUST_VALUE <= DUST_LIMIT, NEW fb \in Nat,
         NEW p, p = RevocationPsbt(RevocationTx(type, u, fees, fb))
  PROVE  AsMade(type, p) /\ (Excused(type, p) \/ AmountsAsMade(p))
<1>1. MAX_MONEY \in Nat
  BY FewCoins
<1>2. /\ u \in Nat /\ fees <= u /\ u - fees <= MAX_MONEY /\ u - fees >= DUST_VALUE
  BY <1>1, SMT DEF DUST_LIMIT, DUST_VALUE
<1>3. type \in RevocationTypes
  BY DEF RevocationTypes
<1>4. /\ AsMade(type, p)
      /\ u - fees >= DUST_VALUE => Spent(p) > MAX_MONEY \/ AmountsAsMade(p)
  BY <1>2, <1>3, RevocationMade
<1> QED
  BY <1>2, <1>3, <1>4 DEF Excused

LEMMA MadeAsMade ==
  ASSUME CodeAmounts, SmallFees, NEW f \in MadeFiles
  PROVE  AsMade(f.made, f.file) /\ (Excused(f.made, f.file) \/ AmountsAsMade(f.file))
<1>1. ASSUME NEW u \in UnvaultValues PROVE u \in DUST_LIMIT..MAX_MONEY
  <2>1. PICK d \in Deposits : UnvaultError(d) = "None" /\ u = UnvaultValue(d)
    BY DEF UnvaultValues
  <2> QED
    BY <2>1, UnvaultMade
<1>2. \A fb \in FeeBumps : fb \in Nat
  BY ParsingAssumption
<1>3. \A type, p : Made(type, p).made = type /\ Made(type, p).file = p
  BY DEF Made
<1>4. CASE \E d \in Deposits : UnvaultError(d) = "None" /\ f = Made("Unvault", UnvaultPsbt(d))
  BY <1>3, <1>4, UnvaultMade
<1>5. CASE \E u \in UnvaultValues, fb \in FeeBumps :
             f = Made("Cancel", RevocationPsbt(CancelTx(u, fb)))
  <2>1. PICK u \in UnvaultValues, fb \in FeeBumps :
          f = Made("Cancel", RevocationPsbt(CancelTx(u, fb)))
    BY <1>5
  <2>2. f.made = "Cancel" /\ f.file = RevocationPsbt(RevocationTx("Cancel", u, CancelFees, fb))
    BY <1>3, <2>1 DEF CancelTx
  <2> QED
    BY <1>1, <1>2, <2>2, Fees, PaidRevocation DEF SmallFees
<1>6. CASE \E u \in UnvaultValues, fb \in FeeBumps :
             f = Made("UnvaultEmergency", RevocationPsbt(UnvaultEmergencyTx(u, fb)))
  <2>1. PICK u \in UnvaultValues, fb \in FeeBumps :
          f = Made("UnvaultEmergency", RevocationPsbt(UnvaultEmergencyTx(u, fb)))
    BY <1>6
  <2>2. /\ f.made = "UnvaultEmergency"
        /\ f.file = RevocationPsbt(RevocationTx("UnvaultEmergency", u, UnvaultEmergencyFees, fb))
    BY <1>3, <2>1 DEF UnvaultEmergencyTx
  <2> QED
    BY <1>1, <1>2, <2>2, Fees, PaidRevocation DEF SmallFees
<1>7. CASE \E d \in Deposits, fb \in FeeBumps :
             /\ EmergencyError(d, fb) = "None"
             /\ f = Made("Emergency", RevocationPsbt(EmergencyTx(d, fb)))
  <2>1. PICK d \in Deposits, fb \in FeeBumps :
          /\ EmergencyError(d, fb) = "None"
          /\ f = Made("Emergency", RevocationPsbt(EmergencyTx(d, fb)))
    BY <1>7
  <2> DEFINE p == f.file
  <2>2. f.made = "Emergency" /\ p = RevocationPsbt(RevocationTx("Emergency", d, EmergencyFees, fb))
    BY <1>3, <2>1 DEF EmergencyTx
  <2> HIDE DEF p
  <2>3. d \in Nat /\ fb \in Nat /\ EmergencyFees \in Nat /\ MAX_MONEY \in Nat
    BY <1>2, ParsingAssumption, Fees, FewCoins
  <2>4. EmergencyFees <= d /\ d - EmergencyFees <= MAX_MONEY
    BY <2>1, <2>3 DEF EmergencyError
  <2>5. "Emergency" \in RevocationTypes
    BY DEF RevocationTypes
  <2>6. /\ AsMade("Emergency", p) /\ p.outs[1].value = d - EmergencyFees
        /\ d - EmergencyFees >= DUST_VALUE => Spent(p) > MAX_MONEY \/ AmountsAsMade(p)
    BY <2>2, <2>3, <2>4, <2>5, RevocationMade
  <2>7. d - EmergencyFees >= DUST_VALUE \/ d - EmergencyFees < DUST_VALUE
    BY <2>3 DEF DUST_VALUE
  <2>8. Excused("Emergency", p) \/ AmountsAsMade(p)
    BY <2>5, <2>6, <2>7 DEF Excused
  <2> QED
    BY <2>2, <2>6, <2>8 DEF p
<1>8. CASE \E us \in BoundedSeq(UnvaultValues, MaxSpent), outs \in SpendOuts, change \in Changes :
             /\ SpendError(us, FALSE, outs \o change, TRUE) = "None"
             /\ f = Made("Spend", SpendPsbt(us, outs, change))
  <2>1. PICK us \in BoundedSeq(UnvaultValues, MaxSpent), outs \in SpendOuts, change \in Changes :
          /\ SpendError(us, FALSE, outs \o change, TRUE) = "None"
          /\ f = Made("Spend", SpendPsbt(us, outs, change))
    BY <1>8
  <2> DEFINE p == f.file
  <2>2. f.made = "Spend" /\ p = SpendPsbt(us, outs, change)
    BY <1>3, <2>1
  <2> HIDE DEF p
  <2>3. us \in Seq(Nat) /\ \A i \in DOMAIN us : us[i] <= MAX_MONEY
    <3>1. PICK n \in 0..MaxSpent : us \in [1..n -> UnvaultValues]
      BY DEF BoundedSeq, SeqOf
    <3>2. \A i \in 1..n : us[i] \in Nat /\ us[i] <= MAX_MONEY
      <4>1. \A i \in 1..n : us[i] \in DUST_LIMIT..MAX_MONEY
        BY <1>1, <3>1
      <4> QED
        BY <4>1, FewCoins, SMT DEF DUST_LIMIT
    <3>3. n \in Nat /\ us \in [1..n -> Nat]
      BY <3>1, <3>2, ParsingAssumption
    <3> QED
      BY <3>2, <3>3
  <2>4. outs \in Seq(Nat) /\ change \in Seq(Nat) /\ Len(change) <= 1
    BY ParsingAssumption
  <2>5. AsMade("Spend", p) /\ (Sent(p) > Spent(p) \/ AmountsAsMade(p))
    BY <2>1, <2>2, <2>3, <2>4, SpendMade
  <2>6. Excused("Spend", p) \/ AmountsAsMade(p)
    BY <2>5 DEF Excused
  <2> QED
    BY <2>2, <2>5, <2>6 DEF p
<1> QED
  BY <1>4, <1>5, <1>6, <1>7, <1>8 DEF MadeFiles

\* What the constructors return parses back as its type, whether the finalizer
\* went over it or not, but for the files that OwnParse names: with the amounts
\* of the code, whatever the scripts, the deposits, the fee bumps and the outputs
\* (new() and from_raw_psbt() of the five types, and finalize()).
THEOREM OwnFilesParse ==
  ASSUME CodeAmounts, SmallFees
  PROVE  Spec => []OwnParse
<1>1. Init => OwnInv
  <2> SUFFICES ASSUME Init PROVE OwnInv
    OBVIOUS
  <2>1. PICK f \in MadeFiles : made = f.made /\ file = f.file
    BY DEF Init
  <2> QED
    BY <2>1, MadeAsMade DEF OwnInv
<1>2. IInv /\ OwnInv /\ [Next]_vars => OwnInv'
  <2> SUFFICES ASSUME IInv, OwnInv, [Next]_vars
               PROVE  OwnInv'
    OBVIOUS
  <2>1. ASSUME NEW p, Edit(p) PROVE edits' # 0
    <3>1. edits' = edits + 1 /\ edits \in 0..MaxEdits /\ MaxEdits \in Nat
      BY <2>1, ParsingAssumption DEF Edit, IInv
    <3> QED
      BY <3>1
  <2>2. CASE EditVersion \/ EditInput \/ EditPrevout \/ EditOutput
    BY <2>1, <2>2 DEF EditVersion, EditInput, EditPrevout, EditOutput, OwnInv
  <2>3. CASE AddInput \/ SwapInputs \/ DropInput
    BY <2>1, <2>3 DEF AddInput, SwapInputs, DropInput, OwnInv
  <2>4. CASE AddOutput \/ DropOutput
    BY <2>1, <2>4 DEF AddOutput, DropOutput, OwnInv
  <2>5. CASE Finalize
    <3>1. file' = Finalized(file) /\ made' = made /\ edits' = edits
      BY <2>5 DEF Finalize, Rewrite, Finalized
    <3>2. FileOK(file) /\ made \in TxTypes
      BY DEF IInv
    <3> SUFFICES ASSUME edits = 0
                 PROVE  AsMade(made, file') /\ (Excused(made, file') \/ AmountsAsMade(file'))
      BY <3>1 DEF OwnInv
    <3>3. AsMade(made, file) /\ (Excused(made, file) \/ AmountsAsMade(file))
      BY DEF OwnInv
    <3>4. /\ AsMade(made, file')
          /\ Excused(made, file) => Excused(made, file')
          /\ AmountsAsMade(file) => AmountsAsMade(file')
      BY <3>1, <3>2, <3>3, FinalizedAsMade
    <3> QED
      BY <3>3, <3>4
  <2>6. CASE Fuzz \/ UNCHANGED vars
    <3>1. file' = file /\ made' = made /\ edits' = edits
      BY <2>6 DEF Fuzz, vars
    <3> QED
      BY <3>1 DEF OwnInv
  <2> QED
    BY <2>2, <2>3, <2>4, <2>5, <2>6 DEF Next
<1>3. IInv /\ OwnInv => OwnParse
  <2> SUFFICES ASSUME IInv, OwnInv, Read, edits = 0, ~Excused(made, file)
               PROVE  made \in Accepted
    BY DEF OwnParse, Excused
  <2>1. AsMade(made, file) /\ AmountsAsMade(file)
    BY DEF OwnInv
  <2>2. made \in TxTypes /\ FileOK(file) /\ ret[made] = Driver(made, file)
    BY DEF IInv, Read
  <2>3. made = "Spend" => file.ins # <<>>
    BY DEF Excused
  <2>4. ParseError(made, file) = "None"
    BY <2>1, <2>2, <2>3, AsMadeAccepted
  <2>5. Driver(made, file) \in {"None", "Panic"}
    BY <2>4 DEF Driver, Error
  <2> QED
    BY <2>2, <2>5 DEF Accepted
<1> QED
  BY <1>1, <1>2, <1>3, Invariance, PTL DEF Spec
=============================================================================
