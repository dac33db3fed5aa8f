-------------------------- MODULE RevaultPsbtProofs --------------------------
(***************************************************************************)
(* Proofs about RevaultPsbt, for any set of transactions, scripts, keys and   *)
(* copies.  The inductive invariant is IInv: the state of an input is a       *)
(* function of its final witness, and signatures come from the pool.          *)
(***************************************************************************)
EXTENDS RevaultPsbt, FiniteSetTheorems, WellFoundedInduction, TLAPS

\* What the constructors return satisfies the invariant of a copy, also when a
\* parsed PSBT carries one signature in addition.
LEMMA FreshCopyInv ==
  ASSUME NEW t \in Txs, NEW made
  PROVE  /\ FreshPsbt(t) \in PsbtOf(t)
         /\ CopyInv(FreshPsbt(t), made)
<1>1. Kind[t] \in Kinds /\ DOMAIN Vin[t] = 1..Len(Vin[t])
  BY TxAssumption
<1>2. \A i \in DOMAIN Vin[t] : FreshInput(t, i) \in Input
  BY DEF FreshInput, Input, ExpectedType, SigHashTypes
<1>3. FreshPsbt(t) \in PsbtOf(t)
  BY <1>2 DEF FreshPsbt, PsbtOf
<1>4. \A i \in DOMAIN Vin[t] : InputInv(FreshPsbt(t), i, made)
  BY DEF FreshPsbt, FreshInput, InputInv, InputParses
<1>5. FinalPrefix(FreshPsbt(t))
  BY DEF FreshPsbt, FreshInput, FinalPrefix
<1> QED
  BY <1>3, <1>4, <1>5 DEF CopyInv, IsPsbt, FreshPsbt

\* A PSBT has one input record per output its transaction spends.
LEMMA PsbtShape ==
  ASSUME NEW p, IsPsbt(p)
  PROVE  /\ p.tx \in Txs
         /\ p = [tx |-> p.tx, inputs |-> p.inputs]
         /\ DOMAIN p.inputs = DOMAIN Vin[p.tx]
         /\ DOMAIN p.inputs = 1..Len(Vin[p.tx])
         /\ Len(Vin[p.tx]) \in Nat
         /\ \A i \in DOMAIN p.inputs : p.inputs[i] \in Input
<1>1. p.tx \in Txs /\ p \in PsbtOf(p.tx)
  BY DEF IsPsbt
<1>2. Vin[p.tx] \in Seq(Prevouts)
  BY <1>1, TxAssumption
<1> QED
  BY <1>1, <1>2 DEF PsbtOf

\* miniscript's finalize, successful or not, preserves the invariant of a copy.
LEMMA FinalizeCopyInv ==
  ASSUME NEW p, NEW made, CopyInv(p, made)
  PROVE  /\ CopyInv(MiniscriptFinalize(p), made)
         /\ MiniscriptFinalize(p).tx = p.tx
         /\ DOMAIN MiniscriptFinalize(p).inputs = DOMAIN p.inputs
<1> DEFINE q == MiniscriptFinalize(p)
<1>1. IsPsbt(p) /\ \A i \in DOMAIN p.inputs : InputInv(p, i, made)
  BY DEF CopyInv
<1>2. /\ p.tx \in Txs
      /\ DOMAIN p.inputs = DOMAIN Vin[p.tx]
      /\ DOMAIN p.inputs = 1..Len(Vin[p.tx])
      /\ Len(Vin[p.tx]) \in Nat
      /\ \A i \in DOMAIN p.inputs : p.inputs[i] \in Input
  BY <1>1, PsbtShape
<1>3. /\ q.tx = p.tx
      /\ DOMAIN q.inputs = DOMAIN p.inputs
      /\ \A i \in DOMAIN p.inputs :
           q.inputs[i] = p.inputs[i] \/ q.inputs[i] = FinalInput(p, i)
  BY <1>2 DEF MiniscriptFinalize, PsbtOf
<1>4. \A i \in DOMAIN p.inputs : FinalInput(p, i) \in Input
  BY <1>2 DEF FinalInput, Input
<1>5. q \in PsbtOf(p.tx)
  BY <1>2, <1>3, <1>4 DEF MiniscriptFinalize, PsbtOf
<1>6. ASSUME NEW i \in DOMAIN p.inputs
      PROVE  InputInv(q, i, made)
  <2>1. CASE q.inputs[i] = p.inputs[i]
    BY <2>1, <1>1, <1>3 DEF InputInv, InputParses
  <2>2. CASE q.inputs[i] = FinalInput(p, i)
    BY <2>2, <1>1, <1>3 DEF InputInv, InputParses, FinalInput
  <2> QED
    BY <2>1, <2>2, <1>3
<1>7. FinalPrefix(q)
  <2> SUFFICES ASSUME NEW i \in DOMAIN p.inputs, NEW j \in DOMAIN p.inputs,
                      j < i, q.inputs[i].final
               PROVE  q.inputs[j].final
    BY <1>3 DEF FinalPrefix
  <2>1. CASE p.inputs[i].final
    <3>1. p.inputs[j].final
      BY <1>1, <2>1 DEF CopyInv, FinalPrefix
    <3>2. FinalInput(p, j).final
      BY DEF FinalInput
    <3>3. q.inputs[j] = p.inputs[j] \/ q.inputs[j] = FinalInput(p, j)
      BY <1>3
    <3> QED
      BY <3>1, <3>2, <3>3
  <2>2. CASE ~p.inputs[i].final
    <3>1. \A k \in 1..i : Satisfactions(p, k) # {}
      BY <2>2 DEF MiniscriptFinalize
    <3>2. \A k \in 1..j : Satisfactions(p, k) # {}
      BY <3>1, <1>2
    <3> QED
      BY <3>2 DEF MiniscriptFinalize, FinalInput
  <2> QED
    BY <2>1, <2>2
<1> QED
  BY <1>2, <1>3, <1>5, <1>6, <1>7 DEF CopyInv, IsPsbt

\* Replacing the signatures of an input that is not final by others of the pool.
LEMMA SetSigsCopyInv ==
  ASSUME NEW p, NEW made, CopyInv(p, made), made \subseteq Requests,
         NEW i \in DOMAIN p.inputs, ~p.inputs[i].final,
         NEW sigs \in SUBSET made
  PROVE  CopyInv([p EXCEPT !.inputs[i].partial_sigs = sigs], made)
<1> DEFINE in == [p.inputs[i] EXCEPT !.partial_sigs = sigs]
           q == [tx |-> p.tx, inputs |-> [p.inputs EXCEPT ![i] = in]]
<1>1. IsPsbt(p) /\ \A j \in DOMAIN p.inputs : InputInv(p, j, made)
  BY DEF CopyInv
<1>2. /\ p.tx \in Txs
      /\ p = [tx |-> p.tx, inputs |-> p.inputs]
      /\ DOMAIN p.inputs = DOMAIN Vin[p.tx]
      /\ \A j \in DOMAIN p.inputs : p.inputs[j] \in Input
      /\ p.inputs \in [DOMAIN Vin[p.tx] -> Input]
  BY <1>1, PsbtShape DEF IsPsbt, PsbtOf
<1>3. [p EXCEPT !.inputs[i].partial_sigs = sigs] = q
  BY <1>2
<1>4. in \in Input
  BY <1>2 DEF Input
<1>5. q.inputs \in [DOMAIN Vin[p.tx] -> Input]
  BY <1>2, <1>4
<1>6. IsPsbt(q)
  BY <1>2, <1>5 DEF IsPsbt, PsbtOf
<1>7. /\ in.final = p.inputs[i].final
      /\ in.witness_script = p.inputs[i].witness_script
      /\ in.sighash_type = p.inputs[i].sighash_type
      /\ in.witness = p.inputs[i].witness
      /\ in.partial_sigs = sigs
  BY <1>2 DEF Input
<1>8. ASSUME NEW j \in DOMAIN p.inputs
      PROVE  InputInv(q, j, made)
  <2>1. CASE j = i
    <3>1. InputInv(p, i, made) /\ q.inputs[i] = in
      BY <1>1, <1>2
    <3>2. InputParses(q, i)
      BY <3>1, <1>7 DEF InputInv, InputParses
    <3>3. /\ in.final => in.partial_sigs = {}
          /\ in.partial_sigs \cup in.witness \subseteq made
      BY <3>1, <1>7 DEF InputInv
    <3> QED
      BY <3>1, <3>2, <3>3, <2>1 DEF InputInv
  <2>2. CASE j # i
    <3>1. InputInv(p, j, made) /\ q.inputs[j] = p.inputs[j]
      BY <1>1, <1>2, <2>2
    <3> QED
      BY <3>1 DEF InputInv, InputParses
  <2> QED
    BY <2>1, <2>2
<1>9. FinalPrefix(q)
  <2>1. \A j \in DOMAIN p.inputs : q.inputs[j].final = p.inputs[j].final
    BY <1>2, <1>7
  <2> QED
    BY <2>1, <1>2 DEF FinalPrefix, CopyInv
<1> QED
  BY <1>2, <1>3, <1>6, <1>8, <1>9 DEF CopyInv

\* The pool only grows.
LEMMA CopyInvMonotone ==
  ASSUME NEW p, NEW made, NEW more, CopyInv(p, made), made \subseteq more
  PROVE  CopyInv(p, more)
BY DEF CopyInv, InputInv

-----------------------------------------------------------------------------
LEMMA InitIInv == Init => IInv
<1> SUFFICES ASSUME Init PROVE IInv
  OBVIOUS
<1>1. \A t \in Txs : CopyInv(FreshPsbt(t), pool)
  BY FreshCopyInv
<1> QED
  BY <1>1 DEF Init, IInv

LEMMA StepIInv == IInv /\ [Next]_vars => IInv'
<1> SUFFICES ASSUME IInv, [Next]_vars PROVE IInv'
  OBVIOUS
<1> USE DEF IInv
<1>1. CASE UNCHANGED vars
  BY <1>1 DEF vars
<1>2. ASSUME NEW c \in Copies, NEW t \in Txs, New(c, t)
      PROVE  IInv'
  BY <1>2, FreshCopyInv DEF New, Return
<1>3. ASSUME NEW c \in Copies, NEW s \in Requests, Sign(c, s)
      PROVE  IInv'
  BY <1>3, CopyInvMonotone DEF Sign, Return
<1>4. ASSUME NEW c \in Copies, NEW s \in Requests, NEW i, AddSignature(c, i, s)
      PROVE  IInv'
  <2>1. CASE AddSignatureError(psbt[c], i, s) = "None"
    <3> DEFINE sigs == InsertSig(psbt[c].inputs[i].partial_sigs, s)
    <3>1. i \in DOMAIN psbt[c].inputs /\ ~psbt[c].inputs[i].final
      BY <2>1 DEF AddSignatureError
    <3>2. CopyInv(psbt[c], pool)
      OBVIOUS
    <3>3. sigs \subseteq pool
      BY <1>4, <3>1, <3>2 DEF AddSignature, InsertSig, CopyInv, InputInv
    <3>4. CopyInv([psbt[c] EXCEPT !.inputs[i].partial_sigs = sigs], pool)
      BY <3>1, <3>2, <3>3, SetSigsCopyInv
    <3>5. psbt' = [psbt EXCEPT ![c] =
                     [psbt[c] EXCEPT !.inputs[i].partial_sigs = sigs]]
      BY <1>4, <2>1 DEF AddSignature
    <3> QED
      BY <1>4, <3>4, <3>5 DEF AddSignature, Return
  <2>2. CASE AddSignatureError(psbt[c], i, s) # "None"
    BY <1>4, <2>2 DEF AddSignature, Return
  <2> QED
    BY <2>1, <2>2
<1>5. ASSUME NEW c \in Copies, Finalize(c)
      PROVE  IInv'
  BY <1>5, FinalizeCopyInv DEF Finalize, Return
<1>6. ASSUME NEW c \in Copies, NEW d \in Copies, Clone(c, d) \/ Load(c, d)
      PROVE  IInv'
  BY <1>6 DEF Clone, Load, Return
<1>7. ASSUME NEW c \in Copies, NEW t \in Txs, NEW s \in Requests,
             NEW i \in DOMAIN Vin[t], LoadForeign(c, t, i, s)
      PROVE  IInv'
  <2>1. /\ CopyInv(FreshPsbt(t), pool)
        /\ i \in DOMAIN FreshPsbt(t).inputs
        /\ ~FreshPsbt(t).inputs[i].final
        /\ {s} \subseteq pool
    BY <1>7, FreshCopyInv DEF FreshPsbt, FreshInput, LoadForeign
  <2>2. CopyInv([FreshPsbt(t) EXCEPT !.inputs[i].partial_sigs = {s}], pool)
    BY <2>1, SetSigsCopyInv
  <2> QED
    BY <1>7, <2>2 DEF LoadForeign, Return
<1>8. ASSUME NEW c \in Copies, MaxWeight(c)
      PROVE  IInv'
  BY <1>8 DEF MaxWeight, Return
<1> QED
  BY <1>1, <1>2, <1>3, <1>4, <1>5, <1>6, <1>7, <1>8 DEF Next

\* The invariant of the copies, whatever the callers do and whatever PSBTs they
\* parse.
THEOREM Invariance == Spec => []IInv
BY InitIInv, StepIInv, PTL DEF Spec

\* Every copy stays a PSBT of its transaction and only carries signatures that
\* the owners of the keys made.
THEOREM TypeCorrect == Spec => []TypeOK
<1>1. IInv => TypeOK
  BY DEF IInv, TypeOK, CopyInv, InputInv
<1> QED
  BY <1>1, Invariance, PTL

-----------------------------------------------------------------------------
\* When finalize() returns Ok the network accepts the transaction.
THEOREM FinalizeOk == Spec => []FinalizeOkIsValid
<1>1. Init => FinalizeOkIsValid
  BY DEF Init, FinalizeOkIsValid
<1>2. IInv /\ FinalizeOkIsValid /\ [Next]_vars => FinalizeOkIsValid'
  <2> SUFFICES ASSUME IInv, FinalizeOkIsValid, [Next]_vars,
                      ret'.op = "finalize", ret'.res = "Ok"
               PROVE  AllFinal(psbt'[ret'.copy]) /\ IsValid(psbt'[ret'.copy])
    BY DEF FinalizeOkIsValid
  <2>1. CASE UNCHANGED vars
    BY <2>1 DEF vars, FinalizeOkIsValid
  <2>2. ASSUME NEW c \in Copies, Finalize(c)
        PROVE  AllFinal(psbt'[ret'.copy]) /\ IsValid(psbt'[ret'.copy])
    <3> DEFINE p == psbt[c]
               q == MiniscriptFinalize(p)
    <3>1. psbt'[c] = q /\ ret'.copy = c /\ FinalizeResult(p) = "Ok"
      BY <2>2 DEF Finalize, Return, IInv
    <3>2. /\ \A i \in DOMAIN p.inputs : Satisfactions(p, i) # {}
          /\ InterpreterCheck(q)
          /\ VerifyInputs(q)
      BY <3>1 DEF FinalizeResult, MiniscriptOk
    <3>3. IsPsbt(p)
      BY DEF IInv, CopyInv
    <3>4. DOMAIN p.inputs = 1..Len(Vin[p.tx]) /\ Len(Vin[p.tx]) \in Nat /\ p.tx \in Txs
      BY <3>3, PsbtShape
    <3>5. Len(Vin[p.tx]) # 0
      BY <3>4, TxAssumption
    <3>6. \A i \in DOMAIN p.inputs : q.inputs[i].final
      <4> SUFFICES ASSUME NEW i \in DOMAIN p.inputs PROVE q.inputs[i].final
        OBVIOUS
      <4>1. \A j \in 1..i : Satisfactions(p, j) # {}
        BY <3>2, <3>4
      <4> QED
        BY <4>1 DEF MiniscriptFinalize, FinalInput
    <3>7. DOMAIN q.inputs = DOMAIN p.inputs
      BY DEF MiniscriptFinalize
    <3>8. 1 \in DOMAIN p.inputs
      BY <3>4, <3>5
    <3>9. AllFinal(q) /\ SomeFinal(q)
      BY <3>6, <3>7, <3>8 DEF AllFinal, SomeFinal
    <3> QED
      BY <3>1, <3>2, <3>9 DEF IsValid, IsFinalized
  <2>3. ASSUME \A c \in Copies : ~Finalize(c)
        PROVE  UNCHANGED vars \/ ret'.op # "finalize"
    BY <2>3 DEF Next, New, Sign, AddSignature, Clone, Load, LoadForeign,
                MaxWeight, Return
  <2> QED
    BY <2>1, <2>2, <2>3
<1> QED
  BY <1>1, <1>2, Invariance, PTL DEF Spec

\* A valid copy was agreed to by the owners of a whole branch of each script:
\* whoever holds the keys, no one can broadcast a transaction they did not sign.
THEOREM Consent == Spec => []OwnersConsented
<1>1. IInv => OwnersConsented
  <2> SUFFICES ASSUME IInv, NEW c \in Copies, IsValid(psbt[c]),
                      NEW i \in DOMAIN Vin[psbt[c].tx]
               PROVE  \E b \in Branches[Vin[psbt[c].tx][i]] :
                        /\ \A k \in b.keys : Consented(k, psbt[c].tx, i)
                        /\ b.csv => Kind[psbt[c].tx] = "Spend"
    BY DEF OwnersConsented
  <2> DEFINE p == psbt[c]
             t == p.tx
             w == p.inputs[i].witness
  <2>1. CopyInv(p, pool)
    BY DEF IInv
  <2>2. IsPsbt(p)
    BY <2>1 DEF CopyInv
  <2>3. DOMAIN p.inputs = DOMAIN Vin[t]
    BY <2>2, PsbtShape
  <2>4. w \subseteq pool
    BY <2>1, <2>3 DEF CopyInv, InputInv
  <2>5. ScriptAccepts(p, i, SequenceMeetsCsv(t))
    BY <2>3 DEF IsValid, VerifyInputs
  <2>6. PICK b \in Branches[Vin[t][i]] :
          b.keys = KeysOf(w) /\ (b.csv => SequenceMeetsCsv(t))
    BY <2>5 DEF ScriptAccepts
  <2>7. ASSUME NEW k \in b.keys
        PROVE  Consented(k, t, i)
    <3>1. PICK s \in w : s.key = k
      BY <2>6 DEF KeysOf
    <3>2. Digest(s.tx, s.input, s.type) = Digest(t, i, s.type)
      BY <2>5 DEF ScriptAccepts, Verifies
    <3>3. CASE s.type = "All"
      <4>1. s.tx = t /\ s.input = i
        BY <3>2, <3>3 DEF Digest
      <4> QED
        BY <3>1, <4>1, <2>4 DEF Consented
    <3>4. CASE s.type # "All"
      <4>1. Vout[s.tx] = Vout[t] /\ Vin[s.tx][s.input] = Vin[t][i]
        BY <3>2, <3>4 DEF Digest
      <4> QED
        BY <3>1, <3>4, <4>1, <2>4 DEF Consented
    <3> QED
      BY <3>3, <3>4
  <2> QED
    BY <2>6, <2>7 DEF SequenceMeetsCsv
<1> QED
  BY <1>1, Invariance, PTL

-----------------------------------------------------------------------------
\* A final input has no satisfaction left: its fields were wiped.
LEMMA FinalNotFinalizable ==
  ASSUME NEW p, SomeFinal(p)
  PROVE  ~IsFinalizable(p)
<1>1. PICK i \in DOMAIN p.inputs : p.inputs[i].final
  BY DEF SomeFinal
<1>2. Satisfactions(p, i) = {}
  BY <1>1 DEF Satisfactions
<1> QED
  BY <1>2 DEF IsFinalizable, MiniscriptOk

\* miniscript's finalize leaves a copy with a final input as it is: the first
\* input is final, so that it stops there.
LEMMA FinalizeKeepsFinal ==
  ASSUME NEW p, NEW made, CopyInv(p, made), SomeFinal(p)
  PROVE  MiniscriptFinalize(p) = p
<1>1. /\ p = [tx |-> p.tx, inputs |-> p.inputs]
      /\ DOMAIN p.inputs = 1..Len(Vin[p.tx])
      /\ Len(Vin[p.tx]) \in Nat
      /\ p.inputs \in [DOMAIN p.inputs -> Input]
  BY PsbtShape DEF CopyInv, IsPsbt, PsbtOf
<1>2. PICK i \in DOMAIN p.inputs : p.inputs[i].final
  BY DEF SomeFinal
<1>3. 1 \in DOMAIN p.inputs /\ 1 <= i
  BY <1>1
<1>4. p.inputs[1].final
  <2>1. CASE i = 1
    BY <2>1, <1>2
  <2>2. CASE i # 1
    <3>1. 1 < i
      BY <2>2, <1>1, <1>3
    <3> QED
      BY <3>1, <1>2, <1>3 DEF CopyInv, FinalPrefix
  <2> QED
    BY <2>1, <2>2
<1>5. Satisfactions(p, 1) = {}
  BY <1>4 DEF Satisfactions
<1>6. \A j \in DOMAIN p.inputs : ~(\A k \in 1..j : Satisfactions(p, k) # {})
  BY <1>1, <1>5
<1>7. [j \in DOMAIN p.inputs |->
         IF \A k \in 1..j : Satisfactions(p, k) # {}
         THEN FinalInput(p, j) ELSE p.inputs[j]] = p.inputs
  BY <1>1, <1>6
<1> QED
  BY <1>1, <1>7 DEF MiniscriptFinalize

\* What finalize() wrote is never undone, and a copy on which it failed midway
\* can only be replaced.
THEOREM FailedFinalize == Spec => FailedFinalizeIsPermanent
<1> DEFINE Kept(c) ==
      /\ \A i \in DOMAIN psbt[c].inputs : psbt[c].inputs[i].final =>
           psbt'[c].inputs[i] = psbt[c].inputs[i]
      /\ AllFinal(psbt'[c]) = AllFinal(psbt[c])
      /\ ~IsFinalizable(psbt'[c])
<1>1. ASSUME IInv, [Next]_vars, NEW c \in Copies, SomeFinal(psbt[c]), ~Replaced(c)
      PROVE  Kept(c)
  <2>1. CASE psbt'[c] = psbt[c]
    BY <2>1, <1>1, FinalNotFinalizable
  <2>2. CASE UNCHANGED vars
    BY <2>1, <2>2 DEF vars
  <2>3. ASSUME NEW d \in Copies, NEW t \in Txs, New(d, t)
        PROVE  psbt'[c] = psbt[c]
    BY <2>3, <1>1 DEF New, Return, Replaced, IInv
  <2>4. ASSUME NEW d \in Copies, NEW s \in Requests, NEW i, AddSignature(d, i, s)
        PROVE  Kept(c)
    <3>1. CASE d # c \/ AddSignatureError(psbt[d], i, s) # "None"
      BY <2>1, <2>4, <3>1, <1>1 DEF AddSignature, IInv
    <3>2. CASE d = c /\ AddSignatureError(psbt[d], i, s) = "None"
      <4> DEFINE p == psbt[c]
                 sigs == InsertSig(p.inputs[i].partial_sigs, s)
                 q == [p EXCEPT !.inputs[i].partial_sigs = sigs]
      <4>1. i \in DOMAIN p.inputs /\ ~p.inputs[i].final
        BY <3>2 DEF AddSignatureError
      <4>2. psbt'[c] = q
        BY <2>4, <3>2, <1>1 DEF AddSignature, IInv
      <4>3. /\ IsPsbt(p)
            /\ p = [tx |-> p.tx, inputs |-> p.inputs]
            /\ \A j \in DOMAIN p.inputs : p.inputs[j] \in Input
        BY <1>1, PsbtShape DEF IInv, CopyInv
      <4>4. /\ DOMAIN q.inputs = DOMAIN p.inputs
            /\ \A j \in DOMAIN p.inputs : j # i => q.inputs[j] = p.inputs[j]
            /\ q.inputs[i].final = p.inputs[i].final
        BY <4>1, <4>3 DEF Input
      <4>5. \A j \in DOMAIN p.inputs : q.inputs[j].final = p.inputs[j].final
        BY <4>4
      <4>6. SomeFinal(q) /\ AllFinal(q) = AllFinal(p)
        BY <4>4, <4>5, <1>1 DEF SomeFinal, AllFinal
      <4>7. ~IsFinalizable(q)
        BY <4>6, FinalNotFinalizable
      <4> QED
        BY <4>1, <4>2, <4>4, <4>6, <4>7
    <3> QED
      BY <3>1, <3>2
  <2>5. ASSUME NEW d \in Copies, Finalize(d)
        PROVE  psbt'[c] = psbt[c]
    <3>1. CASE d = c
      BY <2>5, <3>1, <1>1, FinalizeKeepsFinal DEF Finalize, IInv
    <3>2. CASE d # c
      BY <2>5, <3>2, <1>1 DEF Finalize, IInv
    <3> QED
      BY <3>1, <3>2
  <2>6. ASSUME NEW d \in Copies, NEW e \in Copies, Clone(d, e) \/ Load(d, e)
        PROVE  psbt'[c] = psbt[c]
    BY <2>6, <1>1 DEF Clone, Load, Return, Replaced, IInv
  <2>7. ASSUME NEW d \in Copies, NEW t \in Txs, NEW s \in Requests,
               NEW i \in DOMAIN Vin[t], LoadForeign(d, t, i, s)
        PROVE  psbt'[c] = psbt[c]
    BY <2>7, <1>1 DEF LoadForeign, Return, Replaced, IInv
  <2>8. ASSUME NEW d \in Copies, NEW s \in Requests, Sign(d, s)
        PROVE  psbt'[c] = psbt[c]
    BY <2>8 DEF Sign
  <2>9. ASSUME NEW d \in Copies, MaxWeight(d)
        PROVE  psbt'[c] = psbt[c]
    BY <2>9 DEF MaxWeight
  <2> HIDE DEF Kept
  <2> QED
    BY <1>1, <2>1, <2>2, <2>3, <2>4, <2>5, <2>6, <2>7, <2>8, <2>9 DEF Next
<1>2. IInv /\ [Next]_vars =>
        [\A c \in Copies : SomeFinal(psbt[c]) /\ ~Replaced(c) => Kept(c)]_vars
  BY <1>1
<1> QED
  BY <1>2, Invariance, PTL DEF Spec, FailedFinalizeIsPermanent

-----------------------------------------------------------------------------
\* Callers that test is_finalizable() before finalize() never mix finalized and
\* non-finalized inputs in a copy.
LEMMA CheckedNeverMixed == CallersCheck => (Spec => []NeverMixed)
<1> SUFFICES ASSUME CallersCheck PROVE Spec => []NeverMixed
  OBVIOUS
<1>1. Init => NeverMixed
  BY DEF Init, NeverMixed, Mixed, SomeFinal, FreshPsbt, FreshInput
<1>2. IInv /\ NeverMixed /\ [Next]_vars => NeverMixed'
  <2> SUFFICES ASSUME IInv, NeverMixed, [Next]_vars, NEW c \in Copies
               PROVE  ~Mixed(psbt'[c])
    BY DEF NeverMixed
  <2>1. CASE psbt'[c] = psbt[c]
    BY <2>1 DEF NeverMixed
  <2>2. CASE UNCHANGED vars
    BY <2>1, <2>2 DEF vars
  <2>3. ASSUME NEW t \in Txs PROVE ~Mixed(FreshPsbt(t))
    BY DEF Mixed, SomeFinal, FreshPsbt, FreshInput
  <2>4. ASSUME NEW p, NEW i \in DOMAIN p.inputs, NEW sigs, IsPsbt(p), ~Mixed(p)
        PROVE  ~Mixed([p EXCEPT !.inputs[i].partial_sigs = sigs])
    <3> DEFINE q == [p EXCEPT !.inputs[i].partial_sigs = sigs]
    <3>1. /\ p = [tx |-> p.tx, inputs |-> p.inputs]
          /\ \A j \in DOMAIN p.inputs : p.inputs[j] \in Input
      BY <2>4, PsbtShape
    <3>2. /\ DOMAIN q.inputs = DOMAIN p.inputs
          /\ \A j \in DOMAIN p.inputs : j # i => q.inputs[j] = p.inputs[j]
          /\ q.inputs[i].final = p.inputs[i].final
      BY <3>1 DEF Input
    <3>3. \A j \in DOMAIN p.inputs : q.inputs[j].final = p.inputs[j].final
      BY <3>2
    <3> QED
      BY <2>4, <3>2, <3>3 DEF Mixed, SomeFinal, AllFinal
  <2>5. ASSUME NEW d \in Copies, NEW t \in Txs, New(d, t)
        PROVE  ~Mixed(psbt'[c])
    BY <2>1, <2>3, <2>5 DEF New, IInv
  <2>6. ASSUME NEW d \in Copies, NEW s \in Requests, NEW i, AddSignature(d, i, s)
        PROVE  ~Mixed(psbt'[c])
    <3>1. CASE d # c \/ AddSignatureError(psbt[d], i, s) # "None"
      BY <2>1, <2>6, <3>1 DEF AddSignature, IInv
    <3>2. CASE d = c /\ AddSignatureError(psbt[d], i, s) = "None"
      <4> DEFINE sigs == InsertSig(psbt[c].inputs[i].partial_sigs, s)
      <4>1. i \in DOMAIN psbt[c].inputs /\ IsPsbt(psbt[c]) /\ ~Mixed(psbt[c])
        BY <3>2 DEF AddSignatureError, IInv, CopyInv, NeverMixed
      <4>2. psbt'[c] = [psbt[c] EXCEPT !.inputs[i].partial_sigs = sigs]
        BY <2>6, <3>2 DEF AddSignature, IInv
      <4> HIDE DEF sigs
      <4> QED
        BY <4>1, <4>2, <2>4
    <3> QED
      BY <3>1, <3>2
  <2>7. ASSUME NEW d \in Copies, Finalize(d)
        PROVE  ~Mixed(psbt'[c])
    <3>1. CASE d # c
      BY <2>1, <2>7, <3>1 DEF Finalize, IInv
    <3>2. CASE d = c
      <4> DEFINE p == psbt[c]
                 q == MiniscriptFinalize(p)
      <4>1. \A i \in DOMAIN p.inputs : Satisfactions(p, i) # {}
        BY <2>7, <3>2 DEF Finalize, IsFinalizable, MiniscriptOk
      <4>2. /\ DOMAIN p.inputs = 1..Len(Vin[p.tx])
            /\ Len(Vin[p.tx]) \in Nat
        BY PsbtShape DEF IInv, CopyInv
      <4>3. AllFinal(q)
        <5> SUFFICES ASSUME NEW i \in DOMAIN p.inputs PROVE q.inputs[i].final
          BY DEF AllFinal, MiniscriptFinalize
        <5>1. \A j \in 1..i : Satisfactions(p, j) # {}
          BY <4>1, <4>2
        <5> QED
          BY <5>1 DEF MiniscriptFinalize, FinalInput
      <4> QED
        BY <2>7, <3>2, <4>3 DEF Finalize, IInv, Mixed
    <3> QED
      BY <3>1, <3>2
  <2>8. ASSUME NEW d \in Copies, NEW e \in Copies, Clone(d, e) \/ Load(d, e)
        PROVE  ~Mixed(psbt'[c])
    BY <2>8 DEF Clone, Load, IInv, NeverMixed
  <2>9. ASSUME NEW d \in Copies, NEW t \in Txs, NEW s \in Requests,
               NEW i \in DOMAIN Vin[t], LoadForeign(d, t, i, s)
        PROVE  ~Mixed(psbt'[c])
    <3>1. i \in DOMAIN FreshPsbt(t).inputs /\ IsPsbt(FreshPsbt(t))
      BY FreshCopyInv DEF FreshPsbt, CopyInv
    <3>2. ~Mixed([FreshPsbt(t) EXCEPT !.inputs[i].partial_sigs = {s}])
      BY <3>1, <2>3, <2>4
    <3> QED
      BY <2>1, <2>9, <3>2 DEF LoadForeign, IInv
  <2>10. ASSUME NEW d \in Copies, NEW s \in Requests, Sign(d, s)
         PROVE  ~Mixed(psbt'[c])
    BY <2>1, <2>10 DEF Sign
  <2>11. ASSUME NEW d \in Copies, MaxWeight(d)
         PROVE  ~Mixed(psbt'[c])
    BY <2>1, <2>11 DEF MaxWeight
  <2> QED
    BY <2>2, <2>5, <2>6, <2>7, <2>8, <2>9, <2>10, <2>11 DEF Next
<1> QED
  BY <1>1, <1>2, Invariance, PTL DEF Spec

\* For such callers every copy parses back from its serialization, always.
THEOREM CheckedRoundTrips == CallersCheck => (Spec => []RoundTrips)
<1> SUFFICES ASSUME CallersCheck PROVE Spec => []RoundTrips
  OBVIOUS
<1>1. Spec => []NeverMixed
  BY CheckedNeverMixed
<1>2. IInv /\ NeverMixed => RoundTrips
  BY DEF IInv, CopyInv, InputInv, NeverMixed, RoundTrips, Parses
<1> QED
  BY <1>1, <1>2, Invariance, PTL

\* For such callers no call ends in a panic: add_signature() finds the fields it
\* expects, max_weight() finds a witness in every input or a script in every one.
THEOREM CheckedNoPanic == CallersCheck => (Spec => []NoPanic)
<1> SUFFICES ASSUME CallersCheck PROVE Spec => []NoPanic
  OBVIOUS
<1>1. Spec => []NeverMixed
  BY CheckedNeverMixed
<1>2. Init => NoPanic
  BY DEF Init, NoPanic
<1>3. IInv /\ NeverMixed /\ NoPanic /\ [Next]_vars => NoPanic'
  <2> SUFFICES ASSUME IInv, NeverMixed, NoPanic, [Next]_vars PROVE NoPanic'
    OBVIOUS
  <2> USE DEF NoPanic, Return
  <2>1. ASSUME NEW c \in Copies, NEW s \in Requests, NEW i, AddSignature(c, i, s)
        PROVE  NoPanic'
    <3>1. AddSignatureError(psbt[c], i, s) # "Panic"
      <4> SUFFICES ASSUME i \in DOMAIN psbt[c].inputs, ~psbt[c].inputs[i].final
                   PROVE  SignerChecks(psbt[c], i)
        BY DEF AddSignatureError
      <4>1. InputParses(psbt[c], i)
        BY DEF IInv, CopyInv, InputInv
      <4> QED
        BY <4>1 DEF InputParses, SignerChecks, ExpectedType, SigHashTypes
    <3> QED
      BY <2>1, <3>1 DEF AddSignature
  <2>2. ASSUME NEW c \in Copies, MaxWeight(c)
        PROVE  NoPanic'
    <3> DEFINE p == psbt[c]
    <3>1. Kind[p.tx] \in CpfpableKinds
      BY <2>2 DEF MaxWeight
    <3>2. p.tx \in Txs /\ DOMAIN p.inputs = DOMAIN Vin[p.tx]
      BY PsbtShape DEF IInv, CopyInv
    <3>3. \A i \in DOMAIN p.inputs : InputParses(p, i) /\ Vin[p.tx][i] \in Wsh
      BY <3>1, <3>2, TxAssumption DEF IInv, CopyInv, InputInv
    <3>4. ~Mixed(p)
      BY DEF NeverMixed
    <3>5. ~MaxWeightPanics(p)
      BY <3>3, <3>4 DEF MaxWeightPanics, IsFinalized, Mixed, SomeFinal, InputParses
    <3> QED
      BY <2>2, <3>5 DEF MaxWeight
  <2>3. ASSUME NEW c \in Copies, Finalize(c)
        PROVE  NoPanic'
    BY <2>3 DEF Finalize, FinalizeResult
  <2>4. CASE UNCHANGED vars
    BY <2>4 DEF vars
  <2> QED
    BY <2>1, <2>2, <2>3, <2>4 DEF Next, New, Sign, Clone, Load, LoadForeign
<1> QED
  BY <1>1, <1>2, <1>3, Invariance, PTL DEF Spec
-----------------------------------------------------------------------------
\* is_finalizable() is no less and no more than finalize() without the last word
\* of libbitcoinconsensus, although one works on a clone and the other in place.
THEOREM FinalizeAnnounced == Spec => FinalizeFollowsIsFinalizable
<1> DEFINE Announced ==
      \A c \in Copies : ret'.op = "finalize" /\ ret'.copy = c =>
        /\ ret'.res = "Ok" => IsFinalizable(psbt[c])
        /\ ret'.res = "Err" =>
             ~IsFinalizable(psbt[c]) \/ (AllFinal(psbt'[c]) /\ ~IsValid(psbt'[c]))
<1>1. IInv /\ [Next]_vars => [Announced]_vars
  <2> SUFFICES ASSUME IInv, Next, NEW c \in Copies, ret'.op = "finalize", ret'.copy = c
               PROVE  /\ ret'.res = "Ok" => IsFinalizable(psbt[c])
                      /\ ret'.res = "Err" =>
                           ~IsFinalizable(psbt[c]) \/ (AllFinal(psbt'[c]) /\ ~IsValid(psbt'[c]))
    OBVIOUS
  <2> DEFINE p == psbt[c]
             q == MiniscriptFinalize(p)
  <2>1. Finalize(c)
    BY DEF Next, New, Sign, AddSignature, Finalize, Clone, Load, LoadForeign, MaxWeight, Return
  <2>2. psbt'[c] = q /\ ret'.res = FinalizeResult(p)
    BY <2>1 DEF Finalize, Return, IInv
  <2>3. CASE ~MiniscriptOk(p)
    BY <2>2, <2>3 DEF FinalizeResult, IsFinalizable
  <2>4. CASE MiniscriptOk(p)
    <3>1. DOMAIN p.inputs = 1..Len(Vin[p.tx]) /\ Len(Vin[p.tx]) \in Nat
      BY PsbtShape DEF IInv, CopyInv
    <3>2. \A i \in DOMAIN p.inputs : \A j \in 1..i : Satisfactions(p, j) # {}
      BY <2>4, <3>1 DEF MiniscriptOk
    <3>3. AllFinal(q)
      BY <3>2 DEF AllFinal, MiniscriptFinalize, FinalInput
    <3>4. ret'.res = "Err" => ~IsValid(q)
      BY <2>2, <2>4 DEF FinalizeResult, IsValid
    <3> QED
      BY <2>2, <2>4, <3>3, <3>4 DEF IsFinalizable
  <2> QED
    BY <2>3, <2>4
<1> QED
  BY <1>1, Invariance, PTL DEF Spec, FinalizeFollowsIsFinalizable

\* A digest tells its sighash type.
LEMMA VerifiesOwnType ==
  ASSUME NEW s, NEW t, NEW i, NEW type \in SigHashTypes, s.type \in SigHashTypes,
         Verifies(s, t, i, type)
  PROVE  s.type = type
BY DEF Verifies, Digest, SigHashTypes

\* What add_signature() lets in verifies.  Only parsing can bring in what does not.
Verified(p) ==
  \A i \in DOMAIN p.inputs : \A s \in p.inputs[i].partial_sigs : Verifies(s, p.tx, i, s.type)

LEMMA AllVerified == ~ForeignPsbts => (Spec => [](\A c \in Copies : Verified(psbt[c])))
<1> DEFINE Inv == \A c \in Copies : Verified(psbt[c])
<1> SUFFICES ASSUME ~ForeignPsbts PROVE Spec => []Inv
  OBVIOUS
<1>1. \A t \in Txs : Verified(FreshPsbt(t))
  BY DEF Verified, FreshPsbt, FreshInput
<1>2. Init => Inv
  BY <1>1 DEF Init
<1>3. IInv /\ Inv /\ [Next]_vars => Inv'
  <2> SUFFICES ASSUME IInv, Inv, [Next]_vars, NEW c \in Copies
               PROVE  Verified(psbt'[c])
    BY DEF Verified, Verifies, Digest
  <2>1. CASE psbt'[c] = psbt[c]
    BY <2>1
  <2>2. ASSUME NEW d \in Copies, NEW t \in Txs, New(d, t)
        PROVE  Verified(psbt'[c])
    BY <1>1, <2>1, <2>2 DEF New, IInv
  <2>3. ASSUME NEW d \in Copies, NEW s \in Requests, NEW i, AddSignature(d, i, s)
        PROVE  Verified(psbt'[c])
    <3>1. CASE d # c \/ AddSignatureError(psbt[d], i, s) # "None"
      BY <2>1, <2>3, <3>1 DEF AddSignature, IInv
    <3>2. CASE d = c /\ AddSignatureError(psbt[d], i, s) = "None"
      <4> DEFINE p == psbt[c]
                 sigs == InsertSig(p.inputs[i].partial_sigs, s)
                 q == [p EXCEPT !.inputs[i].partial_sigs = sigs]
      <4>1. /\ i \in DOMAIN p.inputs /\ SignerChecks(p, i)
            /\ Verifies(s, p.tx, i, p.inputs[i].sighash_type)
        BY <3>2 DEF AddSignatureError
      <4>2. s.type \in SigHashTypes
        BY RequestAssumption DEF Signature
      <4>3. Verifies(s, p.tx, i, s.type)
        BY <4>1, <4>2, VerifiesOwnType DEF SignerChecks
      <4>4. \A o \in sigs : Verifies(o, p.tx, i, o.type)
        BY <4>1, <4>3 DEF InsertSig, Verified
      <4>5. psbt'[c] = q
        BY <2>3, <3>2 DEF AddSignature, IInv
      <4> HIDE DEF sigs
      <4>6. /\ p = [tx |-> p.tx, inputs |-> p.inputs]
            /\ \A j \in DOMAIN p.inputs : p.inputs[j] \in Input
        BY PsbtShape DEF IInv, CopyInv
      <4>7. /\ q.tx = p.tx /\ DOMAIN q.inputs = DOMAIN p.inputs
            /\ \A j \in DOMAIN p.inputs : j # i => q.inputs[j] = p.inputs[j]
            /\ q.inputs[i].partial_sigs = sigs
        BY <4>1, <4>6 DEF Input
      <4>8. Verified(q)
        BY <4>4, <4>7 DEF Verified
      <4> QED
        BY <4>5, <4>8
    <3> QED
      BY <3>1, <3>2
  <2>4. ASSUME NEW d \in Copies, Finalize(d)
        PROVE  Verified(psbt'[c])
    <3>1. CASE d # c
      BY <2>1, <2>4, <3>1 DEF Finalize, IInv
    <3>2. CASE d = c
      <4>1. psbt'[c] = MiniscriptFinalize(psbt[c])
        BY <2>4, <3>2 DEF Finalize, IInv
      <4>2. Verified(psbt[c])
        OBVIOUS
      <4>3. Verified(MiniscriptFinalize(psbt[c]))
        BY <4>2 DEF Verified, MiniscriptFinalize, FinalInput
      <4> QED
        BY <4>1, <4>3
    <3> QED
      BY <3>1, <3>2
  <2>5. ASSUME NEW d \in Copies, NEW e \in Copies, Clone(d, e) \/ Load(d, e)
        PROVE  Verified(psbt'[c])
    BY <2>5 DEF Clone, Load, IInv
  <2>6. ASSUME NEW d \in Copies, NEW s \in Requests, Sign(d, s) \/ MaxWeight(d)
        PROVE  Verified(psbt'[c])
    BY <2>1, <2>6 DEF Sign, MaxWeight
  <2>7. CASE \E d \in Copies : MaxWeight(d)
    BY <2>1, <2>7 DEF MaxWeight
  <2>8. CASE UNCHANGED vars
    BY <2>1, <2>8 DEF vars
  <2> QED
    BY <2>2, <2>3, <2>4, <2>5, <2>6, <2>7, <2>8 DEF Next, LoadForeign
<1> QED
  BY <1>2, <1>3, Invariance, PTL DEF Spec

LEMMA LeastSize ==
  ASSUME NEW sizes, sizes \subseteq Nat, sizes # {}
  PROVE  \E n \in sizes : \A m \in sizes : n <= m
<1> DEFINE less == {mn \in Nat \X Nat : mn[1] < mn[2]}
<1>1. IsWellFoundedOn(less, Nat)
  BY NatLessThanWellFounded DEF OpToRel
<1>2. PICK n \in sizes : \A m \in sizes : ~(<<m, n>> \in less)
  BY <1>1, WFMin
<1>3. ASSUME NEW m \in sizes PROVE n <= m
  <2>1. m < n => <<m, n>> \in less
    OBVIOUS
  <2> QED
    BY <1>2, <2>1
<1> QED
  BY <1>3

LEMMA CheapestIn ==
  ASSUME IsFiniteSet(Keys), NEW bs, bs # {}, \A b \in bs : b.keys \subseteq Keys
  PROVE  Cheapest(bs) \in bs
<1> DEFINE sizes == {Cardinality(b.keys) : b \in bs}
<1>1. sizes \in SUBSET Nat /\ sizes # {}
  BY FS_Subset, FS_CardinalityType
<1> HIDE DEF sizes
<1>2. PICK n \in sizes : \A m \in sizes : n <= m
  BY <1>1, LeastSize
<1>3. PICK b \in bs : Cardinality(b.keys) = n
  BY <1>2 DEF sizes
<1>4. \A c \in bs : Cardinality(b.keys) <= Cardinality(c.keys)
  BY <1>2, <1>3 DEF sizes
<1> QED
  BY <1>4 DEF Cheapest

\* Where every signature came through add_signature() and miniscript judges the
\* CSV like the network, a branch that signed is enough: the choice among the
\* satisfactions never takes one that the network refuses.
THEOREM SignaturesSuffice ==
  IsFiniteSet(Keys) /\ ~LaxOlder /\ ~ForeignPsbts => (Spec => []EnoughSignaturesFinalize)
<1> SUFFICES ASSUME IsFiniteSet(Keys), ~LaxOlder, ~ForeignPsbts
             PROVE  Spec => []EnoughSignaturesFinalize
  OBVIOUS
<1>1. Spec => [](\A c \in Copies : Verified(psbt[c]))
  BY AllVerified
<1>2. IInv /\ (\A c \in Copies : Verified(psbt[c])) => EnoughSignaturesFinalize
  <2> SUFFICES ASSUME IInv, NEW c \in Copies, Verified(psbt[c]), ~SomeFinal(psbt[c]),
                      \A i \in DOMAIN psbt[c].inputs :
                        \E b \in Branches[Vin[psbt[c].tx][i]] :
                          /\ b.keys \subseteq KeysOf(psbt[c].inputs[i].partial_sigs)
                          /\ b.csv => SequenceMeetsCsv(psbt[c].tx)
               PROVE  FinalizeResult(psbt[c]) = "Ok"
    BY DEF EnoughSignaturesFinalize
  <2> DEFINE p == psbt[c]
             q == MiniscriptFinalize(p)
  <2>1. /\ p.tx \in Txs /\ DOMAIN p.inputs = DOMAIN Vin[p.tx]
        /\ DOMAIN p.inputs = 1..Len(Vin[p.tx]) /\ Len(Vin[p.tx]) \in Nat
        /\ \A i \in DOMAIN p.inputs : InputParses(p, i)
    BY PsbtShape DEF IInv, CopyInv, InputInv
  <2>2. \A i \in DOMAIN p.inputs : Satisfactions(p, i) # {}
    BY <2>1 DEF Satisfactions, SomeFinal, InputParses, MiniscriptCsv
  <2>3. /\ q.tx = p.tx /\ DOMAIN q.inputs = DOMAIN p.inputs
        /\ \A i \in DOMAIN p.inputs : q.inputs[i] = FinalInput(p, i)
    <3>1. \A i \in DOMAIN p.inputs : \A j \in 1..i : Satisfactions(p, j) # {}
      BY <2>1, <2>2
    <3> QED
      BY <3>1 DEF MiniscriptFinalize
  <2>4. ASSUME NEW i \in DOMAIN p.inputs
        PROVE  ScriptAccepts(q, i, SequenceMeetsCsv(p.tx))
    <3> DEFINE b == Cheapest(Satisfactions(p, i))
               w == {s \in p.inputs[i].partial_sigs : s.key \in b.keys}
    <3>1. Vin[p.tx][i] \in Prevouts
      BY <2>1, TxAssumption
    <3>2. \A a \in Satisfactions(p, i) : a.keys \subseteq Keys
      BY <3>1, PrevoutAssumption DEF Satisfactions
    <3>3. b \in Satisfactions(p, i)
      BY <2>2, <3>2, CheapestIn
    <3> HIDE DEF b
    <3>4. KeysOf(w) = b.keys
      BY <3>3 DEF Satisfactions, KeysOf
    <3>5. b \in Branches[Vin[q.tx][i]] /\ (b.csv => SequenceMeetsCsv(p.tx))
      BY <2>3, <3>3 DEF Satisfactions, MiniscriptCsv
    <3>6. \A s \in w : Verifies(s, q.tx, i, s.type)
      BY <2>3 DEF Verified
    <3>7. q.inputs[i].final /\ q.inputs[i].witness = w
      <4>1. FinalInput(p, i).final /\ FinalInput(p, i).witness = w
        BY DEF FinalInput, b
      <4> HIDE DEF p, q, w
      <4> QED
        BY <2>3, <4>1
    <3> QED
      BY <3>4, <3>5, <3>6, <3>7 DEF ScriptAccepts
  <2>5. VerifyInputs(q) /\ InterpreterCheck(q)
    <3>1. MiniscriptCsv(p.tx) = SequenceMeetsCsv(p.tx)
      BY DEF MiniscriptCsv, SequenceMeetsCsv
    <3> HIDE DEF p, q
    <3> QED
      BY <2>3, <2>4, <3>1 DEF VerifyInputs, InterpreterCheck
  <2> QED
    BY <2>2, <2>5 DEF FinalizeResult, MiniscriptOk
<1> QED
  BY <1>1, <1>2, Invariance, PTL
=============================================================================
