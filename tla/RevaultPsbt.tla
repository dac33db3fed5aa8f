----------------------------- MODULE RevaultPsbt -----------------------------
(***************************************************************************)
(* The life of a Revault transaction between its constructor and its        *)
(* broadcast: the PSBT newtypes of src/transactions and the methods of the   *)
(* RevaultTransaction trait that read and change them.                       *)
(*                                                                          *)
(* The library gives each participant values it owns; the participants       *)
(* exchange signatures and serialized PSBTs in any order.  A copy is one      *)
(* such value, an action is one call of the API on one copy (&mut self: a     *)
(* call is atomic), and a signature, once made, can be handed to any copy at  *)
(* any time.                                                                *)
(*                                                                          *)
(* Input number i + 1 of a sequence here is index i of the code.             *)
(***************************************************************************)
EXTENDS Naturals, Sequences, FiniteSets

CONSTANTS
  Copies,         \* the values of transaction types the participants hold
  Keys,           \* public keys
  Prevouts,       \* outputs that the transactions spend
  Wsh,            \* those that are P2WSH; the others are P2WPKH
  Branches,       \* prevout -> its spending branches [keys, csv]
  Txs,            \* the unsigned transactions built by the constructors
  Kind,           \* transaction -> its Revault type
  Vin,            \* transaction -> the sequence of the outputs it spends
  Vout,           \* transaction -> its outputs
  Requests,       \* what the owners of the keys may be asked to sign
  LaxOlder,       \* does miniscript take a disabled sequence for a met CSV?
  ForeignPsbts,   \* do participants parse PSBTs filled by other software?
  CallersCheck    \* do callers test is_finalizable() before finalize()?

RevocationKinds == {"Cancel", "Emergency", "UnvaultEmergency"}
CpfpableKinds == {"Unvault", "Spend"}
Kinds == RevocationKinds \cup CpfpableKinds
SigHashTypes == {"All", "AllPlusAnyoneCanPay"}

(***************************************************************************)
(* A signature is the record of what was signed: who, which input of which   *)
(* transaction, with which sighash type.                                     *)
(***************************************************************************)
Signature ==
  {s \in [key : Keys, tx : Txs, input : Nat, type : SigHashTypes] :
     s.input \in DOMAIN Vin[s.tx]}

ASSUME PrevoutAssumption ==
  /\ Wsh \subseteq Prevouts
  /\ Branches \in [Prevouts -> SUBSET [keys : SUBSET Keys, csv : BOOLEAN]]

ASSUME TxAssumption ==
  /\ Kind \in [Txs -> Kinds]
  /\ Vin \in [Txs -> Seq(Prevouts) \ {<<>>}]
  /\ DOMAIN Vout = Txs
  /\ \A t \in Txs : Kind[t] \in CpfpableKinds =>
       \A i \in DOMAIN Vin[t] : Vin[t][i] \in Wsh

ASSUME RequestAssumption ==
  /\ Requests \subseteq Signature
  /\ {LaxOlder, ForeignPsbts, CallersCheck} \subseteq BOOLEAN

VARIABLES
  psbt,   \* copy -> [tx, inputs], the inner PSBT
  pool,   \* the signatures made so far, available to every participant
  ret     \* the last call: [op, copy, res]

vars == <<psbt, pool, ret>>
-----------------------------------------------------------------------------
(***************************************************************************)
(* What the constructors put in a PSBT.                                      *)
(***************************************************************************)

\* The inputs that spend a Deposit or an Unvault txo in a revocation
\* transaction are to be signed with ALL | ANYONECANPAY so that a fee-bumping
\* input can be added afterwards; every other input with ALL.
ExpectedType(t, i) ==
  IF Kind[t] \in RevocationKinds /\ Vin[t][i] \in Wsh
  THEN "AllPlusAnyoneCanPay"
  ELSE "All"

\* Mutant: the Updater leaves out the witness script.
FreshInputNoScript(t, i) ==
  [witness_script |-> FALSE, sighash_type |-> ExpectedType(t, i),
   partial_sigs |-> {}, final |-> FALSE, witness |-> {}]

FreshInput(t, i) ==
  [witness_script |-> Vin[t][i] \in Wsh,
   sighash_type   |-> ExpectedType(t, i),
   partial_sigs   |-> {},
   final          |-> FALSE,
   witness        |-> {}]

\* Mutant: the PSBT input of the fee-bumping input is forgotten.
FreshPsbtOneInput(t) == [tx |-> t, inputs |-> [i \in {1} |-> FreshInput(t, i)]]

FreshPsbt(t) == [tx |-> t, inputs |-> [i \in DOMAIN Vin[t] |-> FreshInput(t, i)]]

\* Mutant: the revocation transactions too have the sequence of the Spend.
SequenceMeetsCsvAlways(t) == TRUE

\* A Spend spends the Unvault txo with a sequence of csv_value; all the other
\* transactions use RBF_SEQUENCE, whose disable bit makes OP_CSV fail.
SequenceMeetsCsv(t) == Kind[t] = "Spend"

\* What a signature commits to.  ALL: the whole transaction and the input.
\* ALL | ANYONECANPAY: the output this input spends and all the outputs.
Digest(t, i, type) ==
  IF type = "All"
  THEN [type |-> type, commits |-> <<t, i>>]
  ELSE [type |-> type, commits |-> <<Vout[t], Vin[t][i]>>]

\* secp.verify of a signature against the sighash of input i of t.
Verifies(s, t, i, type) == Digest(s.tx, s.input, s.type) = Digest(t, i, type)
-----------------------------------------------------------------------------
(***************************************************************************)
(* The read-only methods.                                                    *)
(***************************************************************************)
SomeFinal(p) == \E i \in DOMAIN p.inputs : p.inputs[i].final
AllFinal(p) == \A i \in DOMAIN p.inputs : p.inputs[i].final
Mixed(p) == SomeFinal(p) /\ ~AllFinal(p)

\* is_finalized() is true as soon as one input is final.
IsFinalized(p) == SomeFinal(p)

KeysOf(sigs) == {s.key : s \in sigs}

\* Script evaluation of a final witness, with or without the laxism about CSV.
ScriptAccepts(p, i, csvMet) ==
  LET w == p.inputs[i].witness IN
  /\ p.inputs[i].final
  /\ \A s \in w : Verifies(s, p.tx, i, s.type)
  /\ \E b \in Branches[Vin[p.tx][i]] : b.keys = KeysOf(w) /\ (b.csv => csvMet)

\* miniscript's interpreter_check, and libbitcoinconsensus in verify_inputs().
MiniscriptCsv(t) == SequenceMeetsCsv(t) \/ LaxOlder
InterpreterCheck(p) ==
  \A i \in DOMAIN p.inputs : ScriptAccepts(p, i, MiniscriptCsv(p.tx))
VerifyInputs(p) ==
  \A i \in DOMAIN p.inputs : ScriptAccepts(p, i, SequenceMeetsCsv(p.tx))

IsValid(p) == IsFinalized(p) /\ VerifyInputs(p) /\ InterpreterCheck(p)

\* signature_hash() fails on a P2WSH input whose witness script is gone.
SignatureHashOk(p, i) ==
  /\ i \in DOMAIN p.inputs
  /\ Vin[p.tx][i] \in Wsh => p.inputs[i].witness_script

(***************************************************************************)
(* miniscript::psbt::finalize: for each input in turn, derive the descriptor *)
(* from the fields of the input (which fails on an input that was finalized, *)
(* since they were wiped), take the cheapest satisfaction out of             *)
(* partial_sigs without verifying them, write the witness and wipe the other *)
(* fields.  The first input without a satisfaction stops it, and what was     *)
(* written before stays.  The interpreter runs last, on the result.          *)
(***************************************************************************)
Satisfactions(p, i) ==
  {b \in Branches[Vin[p.tx][i]] :
     /\ ~p.inputs[i].final
     /\ Vin[p.tx][i] \in Wsh => p.inputs[i].witness_script
     /\ b.keys \subseteq KeysOf(p.inputs[i].partial_sigs)
     /\ b.csv => MiniscriptCsv(p.tx)}

Cheapest(bs) ==
  CHOOSE b \in bs : \A c \in bs : Cardinality(b.keys) <= Cardinality(c.keys)

FinalInput(p, i) ==
  [witness_script |-> FALSE,
   sighash_type   |-> "None",
   partial_sigs   |-> {},
   final          |-> TRUE,
   witness        |-> {s \in p.inputs[i].partial_sigs :
                         s.key \in Cheapest(Satisfactions(p, i)).keys}]

MiniscriptFinalize(p) ==
  [tx |-> p.tx,
   inputs |-> [i \in DOMAIN p.inputs |->
                 IF \A j \in 1..i : Satisfactions(p, j) # {}
                 THEN FinalInput(p, i)
                 ELSE p.inputs[i]]]

MiniscriptOk(p) ==
  /\ \A i \in DOMAIN p.inputs : Satisfactions(p, i) # {}
  /\ InterpreterCheck(MiniscriptFinalize(p))

\* Mutant: inputs that are final already count as satisfied.
IsFinalizableLax(p) ==
  \A i \in DOMAIN p.inputs : p.inputs[i].final \/ Satisfactions(p, i) # {}

\* is_finalizable() runs it on a clone.
IsFinalizable(p) == MiniscriptOk(p)

\* Does the type's from_raw_psbt() accept the serialization of this PSBT?
InputParses(p, i) ==
  LET in == p.inputs[i] IN
  IF in.final
  THEN ~in.witness_script
  ELSE /\ in.witness_script = (Vin[p.tx][i] \in Wsh)
       /\ in.sighash_type = ExpectedType(p.tx, i)

Parses(p) == ~Mixed(p) /\ \A i \in DOMAIN p.inputs : InputParses(p, i)
-----------------------------------------------------------------------------
Return(o, c, r) == ret' = [op |-> o, copy |-> c, res |-> r]

Init ==
  /\ psbt \in [Copies -> {FreshPsbt(t) : t \in Txs}]
  /\ pool = {}
  /\ ret \in [op : {"new"}, copy : Copies, res : {"Ok"}]

\* A constructor builds the transaction anew.
New(c, t) ==
  /\ psbt' = [psbt EXCEPT ![c] = FreshPsbt(t)]
  /\ Return("new", c, "Ok")
  /\ UNCHANGED pool

\* The owner of a key takes the sighash of an input, of the type it passes to
\* signature_hash(), and signs it.
Sign(c, s) ==
  /\ s \in Requests \ pool
  /\ s.tx = psbt[c].tx
  /\ SignatureHashOk(psbt[c], s.input)
  /\ pool' = pool \cup {s}
  /\ Return("signature_hash", c, "Ok")
  /\ UNCHANGED psbt

\* The expects and asserts of add_signature() on a non-final input.
SignerChecks(p, i) ==
  LET in == p.inputs[i] IN
  /\ in.witness_script = (Vin[p.tx][i] \in Wsh)
  /\ in.sighash_type \in SigHashTypes

\* Mutants: the check for a final input is dropped; the signature is not verified.
AddSignatureErrorOnFinal(p, i, s) ==
  IF i \notin DOMAIN p.inputs THEN "OutOfBounds"
  ELSE IF ~SignerChecks(p, i) THEN "Panic"
  ELSE IF ~Verifies(s, p.tx, i, p.inputs[i].sighash_type)
  THEN "InvalidSignature"
  ELSE "None"

AddSignatureErrorUnverified(p, i, s) ==
  IF i \notin DOMAIN p.inputs THEN "OutOfBounds"
  ELSE IF p.inputs[i].final THEN "AlreadyFinalized"
  ELSE IF ~SignerChecks(p, i) THEN "Panic"
  ELSE "None"

\* The errors of add_signature(), in the order of its early returns.
AddSignatureError(p, i, s) ==
  IF i \notin DOMAIN p.inputs THEN "OutOfBounds"
  ELSE IF p.inputs[i].final THEN "AlreadyFinalized"
  ELSE IF ~SignerChecks(p, i) THEN "Panic"
  ELSE IF ~Verifies(s, p.tx, i, p.inputs[i].sighash_type)
  THEN "InvalidSignature"
  ELSE "None"

\* partial_sigs is a map from public keys: a new signature replaces the old one.
InsertSig(sigs, s) == {o \in sigs : o.key # s.key} \cup {s}

AddSignature(c, i, s) ==
  LET err == AddSignatureError(psbt[c], i, s) IN
  /\ s \in pool
  /\ \/ /\ err = "None"
        /\ psbt' = [psbt EXCEPT ![c].inputs[i].partial_sigs = InsertSig(@, s)]
        /\ Return("add_signature", c, "Ok")
     \/ /\ err # "None"
        /\ Return("add_signature", c, err)
        /\ UNCHANGED psbt
  /\ UNCHANGED pool

\* Mutant: libbitcoinconsensus is not asked.
FinalizeResultUnchecked(p) == IF MiniscriptOk(p) THEN "Ok" ELSE "Err"

\* finalize(): miniscript's, in place, then libbitcoinconsensus.
FinalizeResult(p) ==
  IF MiniscriptOk(p) /\ VerifyInputs(MiniscriptFinalize(p)) THEN "Ok" ELSE "Err"

Finalize(c) ==
  /\ CallersCheck => IsFinalizable(psbt[c])
  /\ psbt' = [psbt EXCEPT ![c] = MiniscriptFinalize(@)]
  /\ Return("finalize", c, FinalizeResult(psbt[c]))
  /\ UNCHANGED pool

\* d is cloned into c.
Clone(c, d) ==
  /\ psbt' = [psbt EXCEPT ![c] = psbt[d]]
  /\ Return("clone", c, "Ok")
  /\ UNCHANGED pool

\* The holder of c parses the serialization of d; on error it keeps what it had.
Load(c, d) ==
  /\ \/ /\ Parses(psbt[d])
        /\ psbt' = [psbt EXCEPT ![c] = psbt[d]]
        /\ Return("from_psbt", c, "Ok")
     \/ /\ ~Parses(psbt[d])
        /\ Return("from_psbt", c, "Err")
        /\ UNCHANGED psbt
  /\ UNCHANGED pool

\* The holder of c parses a PSBT in which other software put a signature, of
\* the input's sighash type, on an input.  Parsing does not verify it.
LoadForeign(c, t, i, s) ==
  /\ ForeignPsbts
  /\ s \in pool
  /\ s.type = ExpectedType(t, i)
  /\ psbt' = [psbt EXCEPT ![c] = [FreshPsbt(t) EXCEPT !.inputs[i].partial_sigs = {s}]]
  /\ Return("from_psbt", c, "Ok")
  /\ UNCHANGED pool

\* Mutant: the weight of the witness script is taken in every state.
MaxWeightPanicsOnFinal(p) == \E i \in DOMAIN p.inputs : ~p.inputs[i].witness_script

\* max_weight() of the transactions that can be CPFPed: it trusts
\* is_finalized() to tell which field of every input is set.
MaxWeightPanics(p) ==
  IF IsFinalized(p)
  THEN ~AllFinal(p)
  ELSE \E i \in DOMAIN p.inputs : ~p.inputs[i].witness_script

MaxWeight(c) ==
  /\ Kind[psbt[c].tx] \in CpfpableKinds
  /\ Return("max_weight", c, IF MaxWeightPanics(psbt[c]) THEN "Panic" ELSE "Ok")
  /\ UNCHANGED <<psbt, pool>>

Next ==
  \/ \E c \in Copies, t \in Txs : New(c, t)
  \/ \E c \in Copies, s \in Requests : Sign(c, s)
  \/ \E c \in Copies, s \in Requests :
       \E i \in 1..(Len(Vin[psbt[c].tx]) + 1) : AddSignature(c, i, s)
  \/ \E c \in Copies : Finalize(c)
  \/ \E c \in Copies : \E d \in Copies : Clone(c, d)
  \/ \E c \in Copies : \E d \in Copies : Load(c, d)
  \/ \E c \in Copies, t \in Txs, s \in Requests :
       \E i \in DOMAIN Vin[t] : LoadForeign(c, t, i, s)
  \/ \E c \in Copies : MaxWeight(c)

Spec == Init /\ [][Next]_vars
-----------------------------------------------------------------------------
(***************************************************************************)
(* Properties.                                                               *)
(***************************************************************************)
Input ==
  [witness_script : BOOLEAN,
   sighash_type   : SigHashTypes \cup {"None"},
   partial_sigs   : SUBSET Requests,
   final          : BOOLEAN,
   witness        : SUBSET Requests]

PsbtOf(t) == [tx : {t}, inputs : [DOMAIN Vin[t] -> Input]]
IsPsbt(p) == p.tx \in Txs /\ p \in PsbtOf(p.tx)

\* Every copy is a PSBT with one record per input of its transaction, which
\* carries only signatures that were really made.
TypeOK ==
  /\ DOMAIN psbt = Copies
  /\ \A c \in Copies : IsPsbt(psbt[c])
  /\ pool \subseteq Requests
  /\ \A c \in Copies : \A i \in DOMAIN psbt[c].inputs :
       psbt[c].inputs[i].partial_sigs \cup psbt[c].inputs[i].witness \subseteq pool
  /\ ret.copy \in Copies

\* The invariant the proofs use: in a final input every other field was wiped,
\* in a non-final one the fields are those the constructor set, and the final
\* inputs are the first ones.
InputInv(p, i, made) ==
  LET in == p.inputs[i] IN
  /\ InputParses(p, i)
  /\ in.final => in.partial_sigs = {}
  /\ in.partial_sigs \cup in.witness \subseteq made

FinalPrefix(p) ==
  \A i, j \in DOMAIN p.inputs : j < i /\ p.inputs[i].final => p.inputs[j].final

CopyInv(p, made) ==
  /\ IsPsbt(p)
  /\ \A i \in DOMAIN p.inputs : InputInv(p, i, made)
  /\ FinalPrefix(p)

IInv ==
  /\ DOMAIN psbt = Copies
  /\ \A c \in Copies : CopyInv(psbt[c], pool)
  /\ pool \subseteq Requests
  /\ ret.copy \in Copies

\* No sequence of calls makes one of the expects and asserts of add_signature()
\* and max_weight() fail.
NoPanic == ret.res # "Panic"

\* When finalize() returns Ok the network accepts the transaction: all inputs
\* are final and is_valid() holds, even if a signature came unverified from a
\* parsed PSBT or miniscript misjudged the CSV.
FinalizeOkIsValid ==
  ret.op = "finalize" /\ ret.res = "Ok" =>
    AllFinal(psbt[ret.copy]) /\ IsValid(psbt[ret.copy])

\* A signature on these very outputs by the owner of the key: with ALL on the
\* transaction itself, with ACP on any variant that spends the same output.
Consented(k, t, i) ==
  \E s \in pool :
    /\ s.key = k
    /\ Vin[s.tx][s.input] = Vin[t][i]
    /\ Vout[s.tx] = Vout[t]
    /\ s.type = "All" => s.tx = t

\* A copy that passes is_valid() was agreed to, input by input, by all the keys
\* of one branch of the script; in a transaction other than a Spend it is never
\* the managers' CSV branch, so that every stakeholder agreed.
OwnersConsented ==
  \A c \in Copies : IsValid(psbt[c]) =>
    LET t == psbt[c].tx IN
    \A i \in DOMAIN Vin[t] : \E b \in Branches[Vin[t][i]] :
      /\ \A k \in b.keys : Consented(k, t, i)
      /\ b.csv => Kind[t] = "Spend"

\* finalize() answers what is_finalizable() announced; the one difference is
\* libbitcoinconsensus rejecting what miniscript accepted.
FinalizeFollowsIsFinalizable ==
  [][\A c \in Copies : ret'.op = "finalize" /\ ret'.copy = c =>
       /\ ret'.res = "Ok" => IsFinalizable(psbt[c])
       /\ ret'.res = "Err" =>
            ~IsFinalizable(psbt[c]) \/ (AllFinal(psbt'[c]) /\ ~IsValid(psbt'[c]))
    ]_vars

Replaced(c) == ret'.copy = c /\ ret'.op \in {"new", "clone", "from_psbt"}

\* An input that finalize() made final stays so with the same witness, and a
\* copy on which finalize() failed midway is lost: no signature added later and
\* no other call to finalize() makes it valid; it has to be replaced.
FailedFinalizeIsPermanent ==
  [][\A c \in Copies : SomeFinal(psbt[c]) /\ ~Replaced(c) =>
       /\ \A i \in DOMAIN psbt[c].inputs : psbt[c].inputs[i].final =>
            psbt'[c].inputs[i] = psbt[c].inputs[i]
       /\ AllFinal(psbt'[c]) = AllFinal(psbt[c])
       /\ ~IsFinalizable(psbt'[c])
    ]_vars

\* The comment of is_finalized(): finalized and non-finalized inputs are never
\* mixed in a transaction.
NeverMixed == \A c \in Copies : ~Mixed(psbt[c])

\* Every transaction the API hands out parses back from its serialization as
\* the same type, at every stage of its life.
RoundTrips == \A c \in Copies : Parses(psbt[c])

\* Signatures taken by add_signature() suffice: once a whole branch, with its
\* CSV met if it has one, has signed each input of a copy that was not finalized
\* yet, finalize() succeeds, whatever other signatures are there.
EnoughSignaturesFinalize ==
  \A c \in Copies :
    LET p == psbt[c] IN
    /\ ~SomeFinal(p)
    /\ \A i \in DOMAIN p.inputs : \E b \in Branches[Vin[p.tx][i]] :
         /\ b.keys \subseteq KeysOf(p.inputs[i].partial_sigs)
         /\ b.csv => SequenceMeetsCsv(p.tx)
    => FinalizeResult(p) = "Ok"
=============================================================================
