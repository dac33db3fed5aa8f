----------------------------- MODULE PsbtParsing -----------------------------
(***************************************************************************)
(* The parsers of the five transaction types.  A PSBT that a constructor      *)
(* returned goes to other software, which may finalize it, rewrite fields,    *)
(* add and drop inputs and outputs; then each type parses it, and the caller  *)
(* makes on what was accepted the calls that the fuzz targets make.           *)
(*                                                                          *)
(* A PSBT is its version, inputs and outputs.  A script is known by what it    *)
(* is to the parsers: the witness script of the output spent ("Own"), a sane  *)
(* Miniscript for another output ("Foreign"), or no sane Miniscript.          *)
(* Input and output number i + 1 of a sequence is index i of the code.        *)
(***************************************************************************)
EXTENDS Constructors

CONSTANTS
  Deposits,     \* values of deposits
  FeeBumps,     \* values of the fee-bumping inputs
  SpendOuts,    \* external outputs of a Spend, as sequences of values
  Changes,      \* its change, as sequences of at most one value
  MaxSpent,     \* bound: Unvault outputs that a Spend spends
  MaxEdits      \* bound: edits by other software

ASSUME ParsingAssumption ==
  /\ {MaxSpent, MaxEdits} \subseteq Nat /\ Deposits \subseteq Nat
  /\ FeeBumps \subseteq Nat /\ SpendOuts \cup Changes \subseteq Seq(Nat)
  /\ \A change \in Changes : Len(change) <= 1

VARIABLES
  made,    \* the constructor that made the file
  file,    \* the PSBT
  edits,   \* how many times other software edited it
  ret      \* type -> what came of parsing the file as it and using the result

vars == <<made, file, edits, ret>>

RevocationTypes == {"Cancel", "Emergency", "UnvaultEmergency"}
TxTypes == RevocationTypes \cup {"Unvault", "Spend"}
-----------------------------------------------------------------------------
(***************************************************************************)
(* What the constructors put in a PSBT.                                      *)
(***************************************************************************)
Scripts == {"None", "Own", "Foreign", "Insane"}
OutputKinds == {"None", "P2wsh", "P2wpkh", "Other"}
SigHashTypes == {"None", "All", "AllPlusAnyoneCanPay", "Single"}

\* kind: of the output spent, "None" without a witness_utxo.  paths: is
\* bip32_derivation there?
WshInput(value, type) ==
  [kind |-> "P2wsh", value |-> value, sighash_type |-> type,
   witness_script |-> "Own", paths |-> TRUE, final |-> FALSE,
   non_witness_utxo |-> FALSE, redeem_script |-> FALSE]

FeeBumpInput(value) ==
  [WshInput(value, "All") EXCEPT
     !.kind = "P2wpkh", !.witness_script = "None", !.paths = FALSE]

Output(value, paths) == [value |-> value, paths |-> paths, redeem_script |-> FALSE]

\* Input i spends outpoint prevouts[i].
Psbt(ins, outs) ==
  [version |-> "TX_VERSION", ins |-> ins, prevouts |-> [i \in DOMAIN ins |-> i],
   outs |-> outs]

UnvaultPsbt(d) ==
  Psbt(<<WshInput(d, "All")>>,
       <<Output(UnvaultValue(d), TRUE), Output(UNVAULT_CPFP_VALUE, TRUE)>>)

\* A feebump of 0 stands for none.
RevocationPsbt(tx) ==
  Psbt(<<WshInput(tx.in, "AllPlusAnyoneCanPay")>>
         \o (IF tx.feebump = 0 THEN <<>> ELSE <<FeeBumpInput(tx.feebump)>>),
       <<Output(tx.out, tx.type = "Cancel")>>)

SpendPsbt(us, outs, change) ==
  LET tx == SpendTx(us, outs \o change) IN
  Psbt([i \in DOMAIN us |-> WshInput(us[i], "All")],
       <<Output(tx.cpfp, TRUE)>>
         \o [i \in DOMAIN outs |-> Output(outs[i], FALSE)]
         \o [i \in DOMAIN change |-> Output(change[i], TRUE)])

UnvaultValues == {UnvaultValue(d) : d \in {e \in Deposits : UnvaultError(e) = "None"}}

Made(type, psbt) == [made |-> type, file |-> psbt]

\* All that the constructors return.
MadeFiles ==
  {Made("Unvault", UnvaultPsbt(d)) : d \in {e \in Deposits : UnvaultError(e) = "None"}}
  \cup {Made("Cancel", RevocationPsbt(CancelTx(a[1], a[2]))) :
          a \in {b \in UnvaultValues \X FeeBumps : CancelError(b[1], b[2]) = "None"}}
  \cup {Made("Emergency", RevocationPsbt(EmergencyTx(a[1], a[2]))) :
          a \in {b \in Deposits \X FeeBumps : EmergencyError(b[1], b[2]) = "None"}}
  \cup {Made("UnvaultEmergency", RevocationPsbt(UnvaultEmergencyTx(a[1], a[2]))) :
          a \in {b \in UnvaultValues \X FeeBumps :
                   UnvaultEmergencyError(b[1], b[2]) = "None"}}
  \cup {Made("Spend", SpendPsbt(a[1], a[2], a[3])) :
          a \in {b \in BoundedSeq(UnvaultValues, MaxSpent) \X SpendOuts \X Changes :
                   SpendError(b[1], FALSE, b[2] \o b[3], TRUE) = "None"}}
-----------------------------------------------------------------------------
(***************************************************************************)
(* psbt_common_sanity_checks().                                              *)
(***************************************************************************)
Error(cond, err) == IF cond THEN err ELSE "None"

\* to_v0_p2wsh() of the witness script is the scriptPubKey of the output spent.
Matches(in) == in.witness_script = "Own" /\ in.kind = "P2wsh"

Values(txos) == [i \in DOMAIN txos |-> txos[i].value]
Spent(p) == Total(Values(p.ins))
Sent(p) == Total(Values(p.outs))

\* Mutant: a final input may follow others.
PartiallyFinalizedAlone(p, i) == p.ins[i].final /\ p.ins[i].witness_script # "None"

\* The file mixes final inputs or scripts with others.  is_final is that of the
\* input before.
PartiallyFinalized(p, i) ==
  \/ p.ins[i].final /\ p.ins[i].witness_script # "None"
  \/ i > 1 /\ p.ins[i - 1].final # p.ins[i].final

InputError(p, i) ==
  LET in == p.ins[i] IN
  FirstError(<<
    Error(in.kind = "None", "MissingWitnessUtxo"),
    Error(in.non_witness_utxo \/ in.redeem_script, "InvalidInputField"),
    Error(PartiallyFinalized(p, i), "PartiallyFinalized"),
    Error(in.witness_script = "Insane", "InvalidInWitnessScript"),
    Error(in.value > MAX_MONEY \/ Total(SubSeq(Values(p.ins), 1, i)) >= U64, "InsaneAmounts"),
    Error(in.kind = "P2wsh" /\ ~in.final /\ in.witness_script = "None", "MissingInWitnessScript"),
    Error(in.kind = "P2wsh" /\ ~in.final /\ ~Matches(in), "InvalidInWitnessScript"),
    Error(in.kind = "Other", "InvalidInputField")>>)

\* All the errors on the outputs are InsaneAmounts, also that of a sum beyond u64.
AmountsError(p) ==
  Error(\/ \E j \in DOMAIN p.outs : ~OutputParses(p.outs[j].value)
        \/ Sent(p) >= U64
        \/ ~FeesParse(Spent(p), Sent(p)), "InsaneAmounts")

\* The counts of the inputs and of the outputs agree in all that is decoded.
CommonError(p) ==
  FirstError(<<
    Error(p.version # "TX_VERSION", "InvalidTransactionVersion"),
    Error(~IsInjective(p.prevouts), "DuplicatedInput")>>
    \o [i \in DOMAIN p.ins |-> InputError(p, i)]
    \o <<AmountsError(p)>>)
-----------------------------------------------------------------------------
(***************************************************************************)
(* What from_raw_psbt() of each type checks after that.                      *)
(***************************************************************************)
OfKind(p, kind) == {i \in DOMAIN p.ins : p.ins[i].kind = kind}
Find(p, kind) == CHOOSE i \in OfKind(p, kind) : \A j \in OfKind(p, kind) : i <= j

\* Mutant: the sighash type is not asked for.
RevocationInputErrorAnyType(in) ==
  IF in.final THEN "None" ELSE Error(~in.paths, "InvalidInputField")

RevocationInputError(in) ==
  IF in.final THEN "None"
  ELSE FirstError(<<
         Error(in.sighash_type # "AllPlusAnyoneCanPay", "InvalidSighashType"),
         Error(~in.paths, "InvalidInputField")>>)

\* Mutant: a witness script is let through.
FeeBumpInputErrorScript(in) ==
  IF in.final THEN "None" ELSE Error(in.sighash_type # "All", "InvalidSighashType")

\* Only for an input that is P2WPKH.
FeeBumpInputError(in) ==
  IF in.final THEN "None"
  ELSE FirstError(<<
         Error(in.sighash_type # "All", "InvalidSighashType"),
         Error(in.witness_script # "None", "InvalidInputField")>>)

RevocationInputsError(p) ==
  FirstError(<<
    Error(Len(p.ins) > 2, "InvalidInputCount"),
    IF Len(p.ins) <= 1 THEN "None"
    ELSE IF OfKind(p, "P2wpkh") = {} THEN "MissingFeeBumpingInput"
    ELSE FeeBumpInputError(p.ins[Find(p, "P2wpkh")]),
    IF OfKind(p, "P2wsh") = {} THEN "MissingRevocationInput"
    ELSE RevocationInputError(p.ins[Find(p, "P2wsh")])>>)

CancelOutputError(p) ==
  Error(~p.outs[1].paths \/ p.outs[1].redeem_script, "InvalidOutputField")

UnvaultInputError(in) ==
  IF in.final THEN "None"
  ELSE FirstError(<<
         Error(in.sighash_type # "All", "InvalidSighashType"),
         Error(~in.paths, "InvalidInputField"),
         Error(in.witness_script = "None", "MissingInWitnessScript"),
         Error(~Matches(in), "InvalidInWitnessScript")>>)

SpendInputError(in) ==
  IF in.kind # "P2wsh" THEN "InvalidInputField"
  ELSE IF in.final THEN "None"
  ELSE FirstError(<<
         Error(in.sighash_type # "All", "InvalidSighashType"),
         Error(in.witness_script = "None", "MissingInWitnessScript"),
         Error(~Matches(in), "InvalidInWitnessScript"),
         Error(~in.paths, "InvalidInputField")>>)

\* get_weight() and the satisfaction of the inputs that have none yet.
TotalWeight(p) ==
  Weight(Len(p.ins), Len(p.outs))
    + UnvaultSat * Cardinality({i \in DOMAIN p.ins : ~p.ins[i].final})

RevocationError(type, p) ==
  IF Len(p.outs) # 1 THEN "InvalidOutputCount"
  ELSE FirstError(<<
         IF type = "Cancel" THEN CancelOutputError(p) ELSE "None",
         RevocationInputsError(p)>>)

UnvaultParseError(p) ==
  FirstError(<<
    Error(Len(p.outs) # 2, "InvalidOutputCount"),
    Error(\E j \in DOMAIN p.outs : ~p.outs[j].paths, "InvalidOutputField"),
    IF Len(p.ins) # 1 THEN "InvalidInputCount" ELSE UnvaultInputError(p.ins[1])>>)

SpendParseError(p) ==
  FirstError(<<Error(p.ins = <<>>, "InvalidInputCount")>>
    \o [i \in DOMAIN p.ins |-> SpendInputError(p.ins[i])]
    \o <<Error(Cardinality({j \in DOMAIN p.outs : p.outs[j].paths}) \notin 1..2,
               "InvalidCountOuputWithDerivations"),
         Error(TotalWeight(p) > MAX_STANDARD_TX_WEIGHT, "TransactionTooLarge")>>)

ParseError(type, p) ==
  FirstError(<<
    CommonError(p),
    CASE type \in RevocationTypes -> RevocationError(type, p)
      [] type = "Unvault" -> UnvaultParseError(p)
      [] type = "Spend" -> SpendParseError(p)>>)
-----------------------------------------------------------------------------
(***************************************************************************)
(* The calls of the fuzz targets on what a parser returned: signature_hash(), *)
(* add_signature() with a signature that is not valid, max_feerate().         *)
(***************************************************************************)
IsFinalized(p) == \E i \in DOMAIN p.ins : p.ins[i].final

SignatureHash(p, i) ==
  IF i \notin DOMAIN p.ins THEN "OutOfBounds"
  ELSE IF p.ins[i].kind = "P2wsh"
  THEN Error(p.ins[i].witness_script = "None", "MissingWitnessScript")
  ELSE Error(p.ins[i].kind # "P2wpkh", "Panic")

\* The expects and asserts of add_signature() on the fields of the input.
InputAsserts(in) ==
  /\ in.kind # "None" /\ ~in.non_witness_utxo /\ ~in.redeem_script
  /\ IF in.witness_script = "None" THEN in.kind = "P2wpkh" ELSE Matches(in)
  /\ in.sighash_type # "None"

AddInvalidSignature(p, i) ==
  IF i \notin DOMAIN p.ins THEN "OutOfBounds"
  ELSE IF p.ins[i].final THEN "AlreadyFinalized"
  ELSE IF ~InputAsserts(p.ins[i]) THEN "Panic"
  ELSE FirstError(<<SignatureHash(p, i), "InvalidSignature">>)

\* fees() and max_weight() of a Spend.
MaxFeeratePanics(p) ==
  \/ \E i \in DOMAIN p.ins : p.ins[i].kind = "None"
  \/ ~(Sent(p) <= Spent(p))
  \/ \E i \in DOMAIN p.ins :
       IF IsFinalized(p) THEN ~p.ins[i].final
       ELSE p.ins[i].witness_script \in {"None", "Insane"}

\* What the targets assert of an input: nothing can be signed once it is final.
SignsAsExpected(p, i) ==
  IF IsFinalized(p)
  THEN SignatureHash(p, i) = "MissingWitnessScript" /\ AddInvalidSignature(p, i) = "AlreadyFinalized"
  ELSE /\ p.ins[i].paths
       /\ SignatureHash(p, i) = "None" /\ AddInvalidSignature(p, i) = "InvalidSignature"

BumpSignsAsExpected(p) ==
  IF Len(p.ins) <= 1 THEN AddInvalidSignature(p, 2) = "OutOfBounds"
  ELSE /\ OfKind(p, "P2wpkh") # {}
       /\ AddInvalidSignature(p, Find(p, "P2wpkh"))
            = IF IsFinalized(p) THEN "AlreadyFinalized" ELSE "InvalidSignature"

RevocationDriver(type, p) ==
  /\ OfKind(p, "P2wsh") # {} /\ SignsAsExpected(p, Find(p, "P2wsh"))
  /\ type = "Cancel" /\ ~IsFinalized(p) => p.outs[1].paths
  /\ BumpSignsAsExpected(p)

UnvaultDriver(p) ==
  SignsAsExpected(p, 1) /\ (~IsFinalized(p) => p.outs[1].paths /\ p.outs[2].paths)

SpendDriver(p) ==
  ~MaxFeeratePanics(p) /\ \A i \in DOMAIN p.ins : SignsAsExpected(p, i)

DriverHolds(type, p) ==
  CASE type \in RevocationTypes -> RevocationDriver(type, p)
    [] type = "Unvault" -> UnvaultDriver(p)
    [] type = "Spend" -> SpendDriver(p)

\* A fuzz target: nothing more when the file is refused.
Driver(type, p) ==
  LET err == ParseError(type, p) IN
  IF err # "None" THEN err ELSE Error(~DriverHolds(type, p), "Panic")
-----------------------------------------------------------------------------
(***************************************************************************)
(* Other software: one field rewritten to anything, inputs and outputs added  *)
(* and dropped; the finalizer wipes what a signer needs.                      *)
(***************************************************************************)
NotRead == [t \in TxTypes |-> "NotRead"]

Rewrite(p) == file' = p /\ ret' = NotRead /\ UNCHANGED made

Edit(p) == edits < MaxEdits /\ edits' = edits + 1 /\ Rewrite(p)

InputEdits(in) ==
  {[in EXCEPT !.kind = k] : k \in OutputKinds}
  \cup {[in EXCEPT !.witness_script = s] : s \in Scripts}
  \cup {[in EXCEPT !.sighash_type = s] : s \in SigHashTypes}
  \cup {[in EXCEPT !.final = b] : b \in BOOLEAN}
  \cup {[in EXCEPT !.paths = b] : b \in BOOLEAN}
  \cup {[in EXCEPT !.non_witness_utxo = TRUE], [in EXCEPT !.redeem_script = TRUE],
        [in EXCEPT !.value = MAX_MONEY + 1]}

OutputEdits(out) ==
  {[out EXCEPT !.paths = b] : b \in BOOLEAN}
  \cup {[out EXCEPT !.value = v] : v \in {DUST_VALUE - 1, MAX_MONEY + 1}}
  \cup {[out EXCEPT !.redeem_script = TRUE]}

EditVersion == Edit([file EXCEPT !.version = "other"])

EditInput ==
  \E i \in DOMAIN file.ins : \E in \in InputEdits(file.ins[i]) :
    Edit([file EXCEPT !.ins[i] = in])

EditPrevout ==
  \E i, j \in DOMAIN file.ins : Edit([file EXCEPT !.prevouts[i] = file.prevouts[j]])

EditOutput ==
  \E j \in DOMAIN file.outs : \E out \in OutputEdits(file.outs[j]) :
    Edit([file EXCEPT !.outs[j] = out])

AddInput ==
  \E in \in {FeeBumpInput(fb) : fb \in FeeBumps} \cup {WshInput(d, "All") : d \in Deposits} :
    Edit([file EXCEPT !.ins = Append(@, in), !.prevouts = Append(@, Len(file.ins) + 1)])

SwapInputs ==
  Edit([file EXCEPT !.ins = Reverse(@), !.prevouts = Reverse(@)])

DropInput ==
  \E i \in DOMAIN file.ins :
    Edit([file EXCEPT !.ins = RemoveAt(@, i), !.prevouts = RemoveAt(@, i)])

AddOutput ==
  \E paths \in BOOLEAN : Edit([file EXCEPT !.outs = Append(@, Output(DUST_VALUE, paths))])

DropOutput ==
  \E j \in DOMAIN file.outs : Edit([file EXCEPT !.outs = RemoveAt(@, j)])

FinalInput(in) ==
  [in EXCEPT !.final = TRUE, !.witness_script = "None", !.sighash_type = "None",
             !.paths = FALSE, !.redeem_script = FALSE]

Finalize ==
  /\ \A in \in Range(file.ins) : ~in.final /\ (Matches(in) \/ in.kind = "P2wpkh")
  /\ Rewrite([file EXCEPT !.ins = [i \in DOMAIN @ |-> FinalInput(@[i])]])
  /\ UNCHANGED edits

\* The file is handed to all the fuzz targets.
Fuzz ==
  /\ ret = NotRead
  /\ ret' = [t \in TxTypes |-> Driver(t, file)]
  /\ UNCHANGED <<made, file, edits>>

Init ==
  /\ \E f \in MadeFiles : made = f.made /\ file = f.file
  /\ edits = 0
  /\ ret = NotRead

Next ==
  \/ EditVersion \/ EditInput \/ EditPrevout \/ EditOutput
  \/ AddInput \/ SwapInputs \/ DropInput \/ AddOutput \/ DropOutput
  \/ Finalize
  \/ Fuzz

Spec == Init /\ [][Next]_vars
-----------------------------------------------------------------------------
Inputs ==
  [kind : OutputKinds, value : Nat, sighash_type : SigHashTypes, witness_script : Scripts,
   paths : BOOLEAN, final : BOOLEAN, non_witness_utxo : BOOLEAN, redeem_script : BOOLEAN]
Outputs == [value : Nat, paths : BOOLEAN, redeem_script : BOOLEAN]

\* Errors that some file meets, "None" for a file that is accepted.
Outcomes ==
  {"NotRead", "None", "Panic", "InvalidTransactionVersion", "DuplicatedInput",
   "MissingWitnessUtxo", "InvalidInputField", "PartiallyFinalized",
   "InvalidInWitnessScript", "MissingInWitnessScript", "InsaneAmounts",
   "InvalidInputCount", "InvalidOutputCount", "MissingFeeBumpingInput",
   "MissingRevocationInput", "InvalidSighashType", "InvalidOutputField",
   "InvalidCountOuputWithDerivations", "TransactionTooLarge"}

\* No constructor puts an amount below zero in a PSBT, and the parsers return the
\* errors of error.rs.
TypeOK ==
  /\ made \in TxTypes
  /\ Range(file.ins) \subseteq Inputs /\ Range(file.outs) \subseteq Outputs
  /\ DOMAIN file.prevouts = DOMAIN file.ins
  /\ edits \in 0..MaxEdits
  /\ ret \in [TxTypes -> Outcomes]

Read == ret # NotRead
Accepted == {t \in TxTypes : Read /\ ret[t] \in {"None", "Panic"}}

\* What a constructor returned, finalized or not, parses back as its type, but
\* for an Emergency of a deposit that leaves dust, a Spend of nothing, a Spend
\* that sends more than it spends, and a fee-bumping input worth all the coins.
OwnParse ==
  Read /\ edits = 0 =>
    \/ made \in Accepted
    \/ made = "Emergency" /\ file.outs[1].value < DUST_VALUE
    \/ made = "Spend" /\ (file.ins = <<>> \/ Sent(file) > Spent(file))
    \/ made \in RevocationTypes /\ Spent(file) > MAX_MONEY

\* Whatever file the parsers of the Cancel, the Emergency, the UnvaultEmergency
\* and the Spend accept, no later call on it panics and the asserts of the fuzz
\* targets hold: what the parser let through is what the API takes for granted.
DriversHold == \A t \in TxTypes \ {"Unvault"} : ret[t] # "Panic"

\* The same for the Unvault, as fuzz_targets/parse_unvault.rs asserts.
UnvaultDriverHolds == ret["Unvault"] # "Panic"

\* No file that is still to be signed passes for a revocation transaction in one
\* place and for one that sends the coins out of the vault in another.
TypesApart ==
  ~IsFinalized(file) =>
    Accepted \subseteq RevocationTypes \/ Accepted \subseteq {"Unvault", "Spend"}

\* Every input of an accepted file that is still to be signed is one that a
\* constructor of that type writes; a revocation transaction has one vault input
\* and at most one fee-bumping input.
AcceptedAsBuilt ==
  ~IsFinalized(file) => \A t \in Accepted :
    LET type == IF t \in RevocationTypes THEN "AllPlusAnyoneCanPay" ELSE "All"
        Vault == {i \in DOMAIN file.ins :
                    file.ins[i] = WshInput(file.ins[i].value, type)}
        Bump == {i \in DOMAIN file.ins :
                   [file.ins[i] EXCEPT !.paths = FALSE] = FeeBumpInput(file.ins[i].value)}
    IN
    IF t \in RevocationTypes
    THEN /\ Vault \cup Bump = DOMAIN file.ins
         /\ Cardinality(Vault) = 1 /\ Cardinality(Bump) <= 1
    ELSE Vault = DOMAIN file.ins /\ Vault # {}
=============================================================================
