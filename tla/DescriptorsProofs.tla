-------------------------- MODULE DescriptorsProofs --------------------------
(***************************************************************************)
(* Who can spend the outputs of the descriptors, what their strings parse as   *)
(* and what is read back from their policies, for any keys, any setups and     *)
(* any strings of other outputs.                                            *)
(***************************************************************************)
EXTENDS Descriptors, FiniteSetTheorems, TLAPS

(* Thresholds over signatures *)

\* A threshold of all the keys is met when all of them sign.
LEMMA ReachedByAll ==
  ASSUME NEW keys \in SUBSET Keys, NEW signers
  PROVE  Reached(Cardinality(keys), [k \in keys |-> k \in signers]) <=> keys \subseteq signers
<1> DEFINE signed == {k \in keys : k \in signers}
<1>1. IsFiniteSet(keys)
  BY DescriptorAssumption, FS_Subset
<1>2. signed \in SUBSET keys
  OBVIOUS
<1>3. /\ Cardinality(keys) \in Nat /\ Cardinality(signed) \in Nat
      /\ Cardinality(signed) <= Cardinality(keys)
      /\ Cardinality(signed) = Cardinality(keys) => signed = keys
  BY <1>1, <1>2, FS_Subset, FS_CardinalityType
<1>4. {i \in DOMAIN [k \in keys |-> k \in signers] : [k \in keys |-> k \in signers][i]} = signed
  OBVIOUS
<1>5. Reached(Cardinality(keys), [k \in keys |-> k \in signers])
        <=> Cardinality(signed) >= Cardinality(keys)
  BY <1>4 DEF Reached
<1>6. signed = keys <=> keys \subseteq signers
  OBVIOUS
<1> QED
  BY <1>3, <1>5, <1>6

\* A threshold above zero takes a signature.
LEMMA ReachedBySome ==
  ASSUME NEW keys \in SUBSET Keys, NEW signers, NEW n \in Nat \ {0},
         Reached(n, [k \in keys |-> k \in signers])
  PROVE  keys \cap signers # {}
<1> DEFINE signed == {k \in keys : k \in signers}
<1>1. {i \in DOMAIN [k \in keys |-> k \in signers] : [k \in keys |-> k \in signers][i]} = signed
  OBVIOUS
<1>2. Cardinality(signed) >= n
  BY <1>1 DEF Reached
<1>3. signed # {}
  BY <1>2, FS_EmptySet
<1> QED
  BY <1>3

\* The connectives of two policies.
LEMMA ReachedPair ==
  ASSUME NEW a \in BOOLEAN, NEW b \in BOOLEAN
  PROVE  /\ Reached(2, <<a, b>>) <=> a /\ b
         /\ Reached(1, <<a, b>>) <=> a \/ b
<1> DEFINE met == {i \in DOMAIN <<a, b>> : <<a, b>>[i]}
<1>1. \A n : Reached(n, <<a, b>>) <=> Cardinality(met) >= n
  BY DEF Reached
<1>2. met = {i \in {1, 2} : (i = 1 /\ a) \/ (i = 2 /\ b)}
  OBVIOUS
<1>3. /\ Cardinality({1}) = 1 /\ Cardinality({2}) = 1 /\ Cardinality({}) = 0
      /\ Cardinality({1, 2}) = 2
  <2>1. {1, 2} = {1} \cup {2} /\ 2 \notin {1}
    OBVIOUS
  <2>2. /\ IsFiniteSet({1}) /\ Cardinality({1}) = 1
        /\ Cardinality({2}) = 1 /\ Cardinality({}) = 0
    BY FS_Singleton, FS_EmptySet, Zenon
  <2>3. Cardinality({1} \cup {2}) = Cardinality({1}) + 1
    BY <2>1, <2>2, FS_AddElement, Zenon
  <2> QED
    BY <2>1, <2>2, <2>3
<1>4. CASE a /\ b
  <2>1. Cardinality(met) = 2
    BY <1>2, <1>3, <1>4
  <2>2. Reached(2, <<a, b>>) /\ Reached(1, <<a, b>>)
    BY <1>1, <2>1
  <2> QED
    BY <1>4, <2>2
<1>5. CASE a /\ ~b
  <2>1. Cardinality(met) = 1
    BY <1>2, <1>3, <1>5
  <2>2. ~Reached(2, <<a, b>>) /\ Reached(1, <<a, b>>)
    BY <1>1, <2>1
  <2> QED
    BY <1>5, <2>2
<1>6. CASE ~a /\ b
  <2>1. Cardinality(met) = 1
    BY <1>2, <1>3, <1>6
  <2>2. ~Reached(2, <<a, b>>) /\ Reached(1, <<a, b>>)
    BY <1>1, <2>1
  <2> QED
    BY <1>6, <2>2
<1>7. CASE ~a /\ ~b
  <2>1. Cardinality(met) = 0
    BY <1>2, <1>3, <1>7
  <2>2. ~Reached(2, <<a, b>>) /\ ~Reached(1, <<a, b>>)
    BY <1>1, <2>1
  <2> QED
    BY <1>7, <2>2
<1> QED
  BY <1>4, <1>5, <1>6, <1>7

\* The managers reach their threshold.
ManagersSign(p, signers) == Reached(p.threshold, [k \in p.managers |-> k \in signers])

\* What a policy asks for, once its connectives are read as signatures.
LEMMA DepositConditions ==
  ASSUME NEW d, d.setup \in Setup, d.policy = "Deposit", NEW signers, NEW age
  PROVE  CanSpend(d, signers, age) <=> d.setup.stakeholders \subseteq signers
<1>1. d.setup.stakeholders \in SUBSET Keys
  BY DEF Setup
<1> QED
  BY <1>1, ReachedByAll DEF CanSpend, Policy, All, Of, Script, Thresh, Pk

LEMMA UnvaultConditions ==
  ASSUME NEW d, d.setup \in Setup, d.policy = "Unvault", NEW signers, NEW age
  PROVE  CanSpend(d, signers, age)
           <=> \/ d.setup.stakeholders \subseteq signers
               \/ /\ ManagersSign(d.setup, signers) /\ LockMet(d.setup.csv, age)
                  /\ d.setup.cosigners \subseteq signers
<1> DEFINE p == d.setup
           all(keys) == Reached(Cardinality(keys), [k \in keys |-> k \in signers])
           stakeholders == all(p.stakeholders)
           cosigners == all(p.cosigners)
           managers == ManagersSign(p, signers)
           lock == LockMet(p.csv, age)
           branch == IF p.cosigners = {} THEN Reached(2, <<managers, lock>>)
                     ELSE Reached(2, <<managers, Reached(2, <<cosigners, lock>>)>>)
<1>1. p.stakeholders \in SUBSET Keys /\ p.cosigners \in SUBSET Keys
  BY DEF Setup
<1>2. (stakeholders <=> p.stakeholders \subseteq signers)
      /\ (cosigners <=> p.cosigners \subseteq signers)
  BY <1>1, ReachedByAll
<1>3. CanSpend(d, signers, age) <=> Reached(1, <<stakeholders, branch>>)
  BY DEF CanSpend, Policy, UnvaultPolicy, All, Of, And, Or, Script, Thresh, Pk, Older,
         ManagersSign
<1>4. /\ stakeholders \in BOOLEAN /\ cosigners \in BOOLEAN
      /\ managers \in BOOLEAN /\ lock \in BOOLEAN
  BY DEF Reached, LockMet, ManagersSign
<1>5. Reached(2, <<cosigners, lock>>) \in BOOLEAN /\ branch \in BOOLEAN
  <2>1. \A n, subs : Reached(n, subs) \in BOOLEAN
    BY DEF Reached
  <2>2. CASE p.cosigners = {}
    BY <2>1, <2>2
  <2>3. CASE p.cosigners # {}
    BY <2>1, <2>3
  <2> QED
    BY <2>2, <2>3
<1> HIDE DEF stakeholders, cosigners, managers, lock
<1>6. /\ Reached(2, <<cosigners, lock>>) <=> cosigners /\ lock
      /\ Reached(2, <<managers, lock>>) <=> managers /\ lock
      /\ Reached(2, <<managers, Reached(2, <<cosigners, lock>>)>>)
           <=> managers /\ Reached(2, <<cosigners, lock>>)
  BY <1>4, <1>5, ReachedPair
<1>7. p.cosigners = {} => p.cosigners \subseteq signers
  OBVIOUS
<1>8. branch <=> managers /\ lock /\ p.cosigners \subseteq signers
  BY <1>2, <1>6, <1>7
<1> HIDE DEF branch
<1>9. Reached(1, <<stakeholders, branch>>) <=> stakeholders \/ branch
  BY <1>4, <1>5, ReachedPair
<1> QED
  BY <1>2, <1>3, <1>8, <1>9 DEF managers, lock
-----------------------------------------------------------------------------
(* The invariant *)

\* What the constructors leave of their checks, for as long as a descriptor lives:
\* derivation makes its keys raw, and parsing keeps what it finds.
Valid(d) ==
  /\ d \in Descriptor
  /\ d.policy = "Deposit" =>
       d.setup.stakeholders # {} /\ (~d.derived => Deriveable(d.setup.stakeholders))
  /\ d.policy = "Unvault" =>
       /\ UnvaultChecks(d.setup) /\ Compiles(d.setup)
       /\ ~d.derived => Deriveable(d.setup.stakeholders \cup d.setup.managers)
  /\ d.policy = "Cpfp" =>
       d.setup.managers # {} /\ (~d.derived => Deriveable(d.setup.managers))

HeldValid == \A d \in held : Valid(d)

\* A constructor returns a valid descriptor.
LEMMA NewValid ==
  ASSUME NEW p \in Setups, NEW derived \in BOOLEAN,
         NewDeposit(p, derived) \/ NewUnvault(p, derived) \/ NewCpfp(p, derived)
  PROVE  HeldValid'
<1>1. p \in Setup
  BY DescriptorAssumption
<1>2. CASE NewDeposit(p, derived)
  <2>1. DepositError(p, derived) = "None" =>
          p.stakeholders # {} /\ (~derived => Deriveable(p.stakeholders))
    BY FS_EmptySet DEF DepositError
  <2> QED
    BY <1>1, <1>2, <2>1 DEF NewDeposit, New, HeldValid, Valid, Descriptor, Types
<1>3. CASE NewUnvault(p, derived)
  <2>1. UnvaultError(p, derived) = "None" =>
          /\ UnvaultChecks(p) /\ Compiles(p)
          /\ ~derived => Deriveable(p.stakeholders \cup p.managers)
    BY DEF UnvaultError
  <2> DEFINE d == [type |-> "Unvault", policy |-> "Unvault", derived |-> derived,
                   setup |-> p]
  <2>2. UnvaultError(p, derived) = "None" => Valid(d)
    BY <1>1, <2>1 DEF Valid, Descriptor, Types
  <2>3. held' \subseteq {d} /\ (held' # {} => UnvaultError(p, derived) = "None")
    BY <1>3 DEF NewUnvault, New
  <2> QED
    BY <2>2, <2>3 DEF HeldValid
<1>4. CASE NewCpfp(p, derived)
  <2>1. CpfpError(p, derived) = "None" =>
          p.managers # {} /\ (~derived => Deriveable(p.managers))
    BY FS_EmptySet DEF CpfpError
  <2> QED
    BY <1>1, <1>4, <2>1 DEF NewCpfp, New, HeldValid, Valid, Descriptor, Types
<1> QED
  BY <1>2, <1>3, <1>4

\* The kinds of keys that the string of a valid descriptor shows.
LEMMA ValidKinds ==
  ASSUME NEW d, Valid(d)
  PROVE  /\ d.derived => KindsRead(d) = {"single"}
         /\ ~d.derived => KindsRead(d) \cap {"wildcard", "hardened"} # {}
<1>1. d.policy \in Types /\ d.setup \in Setup /\ d.derived \in BOOLEAN
  BY DEF Valid, Descriptor
<1>2. \E k \in KeysOf(d) : ~d.derived => Kind[k] \in {"wildcard", "hardened"}
  <2>1. CASE d.policy = "Deposit"
    BY <2>1 DEF Valid, KeysOf, Deriveable
  <2>2. CASE d.policy = "Unvault"
    BY <2>2 DEF Valid, KeysOf, Deriveable, UnvaultChecks
  <2>3. CASE d.policy = "Cpfp"
    BY <2>3 DEF Valid, KeysOf, Deriveable
  <2> QED
    BY <1>1, <2>1, <2>2, <2>3 DEF Types
<1> QED
  BY <1>1, <1>2 DEF KindsRead

\* A string is never read as the other of generic and derived.
LEMMA NeverTheOther ==
  ASSUME NEW d, Valid(d), NEW type
  PROVE  ParseError(type, ~d.derived, d) # "None"
<1>1. d.derived \in BOOLEAN
  BY DEF Valid, Descriptor
<1> QED
  BY <1>1, ValidKinds DEF ParseError

\* Valid descriptors stay valid.
LEMMA StepValid == HeldValid /\ [Next]_vars => HeldValid'
<1> SUFFICES ASSUME HeldValid, [Next]_vars
             PROVE  HeldValid'
  OBVIOUS
<1>1. ASSUME NEW p \in Setups, NEW derived \in BOOLEAN,
             NewDeposit(p, derived) \/ NewUnvault(p, derived) \/ NewCpfp(p, derived)
      PROVE  HeldValid'
  BY <1>1, NewValid
<1>2. ASSUME NEW d \in held, Derive(d)
      PROVE  HeldValid'
  <2>1. Valid(d)
    BY DEF HeldValid
  <2>2. Valid([d EXCEPT !.derived = TRUE])
    BY <2>1 DEF Valid, Descriptor
  <2> QED
    BY <1>2, <2>2 DEF Derive, HeldValid
<1>3. ASSUME NEW d \in held, NEW type \in Types, NEW derived \in BOOLEAN,
             FromStr(type, derived, d)
      PROVE  HeldValid'
  <2>1. Valid(d) /\ d.derived \in BOOLEAN
    BY DEF HeldValid, Valid, Descriptor
  <2>2. CASE ParseError(type, derived, d) # "None"
    BY <1>3, <2>2 DEF FromStr, HeldValid
  <2>3. CASE ParseError(type, derived, d) = "None"
    <3>1. derived = d.derived
      BY <2>1, <2>3, NeverTheOther
    <3>2. Valid([d EXCEPT !.type = type, !.derived = derived])
      BY <2>1, <3>1 DEF Valid, Descriptor
    <3> QED
      BY <1>3, <2>3, <3>2 DEF FromStr, HeldValid
  <2> QED
    BY <2>2, <2>3
<1>4. ASSUME NEW d \in held, CsvValue(d) \/ ManagersThreshold(d)
      PROVE  HeldValid'
  BY <1>4 DEF CsvValue, ManagersThreshold, Read, HeldValid
<1>5. CASE UNCHANGED vars
  BY <1>5 DEF vars, HeldValid
<1> QED
  BY <1>1, <1>2, <1>3, <1>4, <1>5 DEF Next

THEOREM Validity == Spec => []HeldValid
<1>1. Init => HeldValid
  BY DEF Init, HeldValid
<1> QED
  BY <1>1, StepValid, PTL DEF Spec

\* What a valid descriptor asks for before it lets its output go.
LEMMA ValidCustody == HeldValid => Custody
<1> SUFFICES ASSUME HeldValid, NEW d \in held, NEW signers \in SUBSET Keys, NEW age \in Ages,
                    d.policy # "Cpfp", CanSpend(d, signers, age),
                    ~(d.setup.stakeholders \subseteq signers)
             PROVE  /\ d.policy = "Unvault"
                    /\ age.blocks >= d.setup.csv.value /\ d.setup.csv.value >= 1
                    /\ d.setup.managers \cap signers # {}
                    /\ d.setup.cosigners \subseteq signers
  <2>1. ASSUME HeldValid, NEW d \in held, NEW signers \in SUBSET Keys, NEW age \in Ages,
               d.setup.stakeholders \subseteq signers, d.policy # "Cpfp"
        PROVE  CanSpend(d, signers, age)
    <3>1. d.setup \in Setup /\ d.policy \in {"Deposit", "Unvault"}
      BY <2>1 DEF HeldValid, Valid, Descriptor, Types
    <3> QED
      BY <2>1, <3>1, DepositConditions, UnvaultConditions
  <2> QED
    BY <2>1 DEF Custody
<1>1. Valid(d) /\ d.setup \in Setup /\ d.policy \in Types
  BY DEF HeldValid, Valid, Descriptor
<1>2. d.policy = "Unvault"
  BY <1>1, DepositConditions DEF Types
<1>3. /\ ManagersSign(d.setup, signers) /\ LockMet(d.setup.csv, age)
      /\ d.setup.cosigners \subseteq signers
  BY <1>1, <1>2, UnvaultConditions
<1>4. CleanBlocks(d.setup.csv) /\ d.setup.csv.value # 0 /\ d.setup.threshold # 0
  BY <1>1, <1>2 DEF Valid, UnvaultChecks, Compiles
<1>5. d.setup.csv.value \in Nat /\ d.setup.threshold \in Nat
  BY <1>1 DEF Setup, Csv
<1>6. age.blocks >= d.setup.csv.value /\ d.setup.csv.value >= 1
  BY <1>3, <1>4, <1>5 DEF LockMet, CleanBlocks
<1>7. d.setup.managers \cap signers # {}
  <2>1. d.setup.managers \in SUBSET Keys
    BY <1>1 DEF Setup
  <2> QED
    BY <1>3, <1>4, <1>5, <2>1, ReachedBySome DEF ManagersSign
<1> QED
  BY <1>2, <1>3, <1>6, <1>7

\* A deposit moves only when every stakeholder signs; an Unvault output also with its
\* whole delay, a manager and every cosigning server: for any setup, also after
\* derivation, parsing, and parsing of a string of another output.
THEOREM CustodyHolds == Spec => []Custody
BY Validity, ValidCustody, PTL

\* A string never parses as the other of generic and derived.
THEOREM NeverConfused == Spec => []GenericOrDerived
<1>1. HeldValid => GenericOrDerived
  BY NeverTheOther DEF HeldValid, GenericOrDerived
<1> QED
  BY <1>1, Validity, PTL

\* What the constructors, derive and from_str return can be read back from its string
\* if it is derived or has no plain xpub among its keys, and only then.
LEMMA StepRoundTrips == HeldValid /\ RoundTrips /\ [Next]_vars => RoundTrips'
<1> SUFFICES ASSUME HeldValid, RoundTrips, [Next]_vars
             PROVE  RoundTrips'
  OBVIOUS
<1>1. ASSUME NEW p \in Setups, NEW derived \in BOOLEAN,
             NewDeposit(p, derived) \/ NewUnvault(p, derived) \/ NewCpfp(p, derived)
      PROVE  RoundTrips'
  <2> SUFFICES ASSUME NEW d \in held'
               PROVE  ParseError(d.type, d.derived, d) = "None"
                        <=> d.derived \/ \A k \in KeysOf(d) : Kind[k] # "xpub"
    BY DEF RoundTrips
  <2>1. Valid(d)
    BY <1>1, NewValid DEF HeldValid
  <2>2. d.type = d.policy /\ d.policy \in Types /\ d.derived \in BOOLEAN
    BY <1>1, <2>1 DEF NewDeposit, NewUnvault, NewCpfp, New, Valid, Descriptor
  <2>3. ~d.derived => ("xpub" \in KindsRead(d) <=> \E k \in KeysOf(d) : Kind[k] = "xpub")
    BY DEF KindsRead
  <2>4. ~d.derived /\ d.policy # "Unvault" => KindsRead(d) \subseteq {"wildcard", "hardened"}
    BY <2>1, <2>2 DEF Valid, KindsRead, KeysOf, Deriveable, Types
  <2>5. ~d.derived => ~(KindsRead(d) \subseteq {"single"})
    BY <2>1, ValidKinds
  <2> QED
    BY <2>2, <2>3, <2>4, <2>5 DEF ParseError
<1>2. ASSUME NEW d \in held, Derive(d)
      PROVE  RoundTrips'
  <2>1. d \in Descriptor
    BY DEF HeldValid, Valid
  <2>2. \A e \in held' : e \in held \/ e.derived
    BY <1>2, <2>1 DEF Derive, Descriptor
  <2>3. \A e : e.derived => ParseError(e.type, e.derived, e) = "None"
    BY DEF ParseError
  <2> QED
    BY <2>2, <2>3 DEF RoundTrips
<1>3. ASSUME NEW d \in held, NEW type \in Types, NEW derived \in BOOLEAN,
             FromStr(type, derived, d)
      PROVE  RoundTrips'
  <2>1. Valid(d) /\ d \in Descriptor /\ d.derived \in BOOLEAN
    BY DEF HeldValid, Valid, Descriptor
  <2>2. CASE ParseError(type, derived, d) # "None"
    BY <1>3, <2>2 DEF FromStr, RoundTrips
  <2>3. CASE ParseError(type, derived, d) = "None"
    <3> DEFINE e == [d EXCEPT !.type = type, !.derived = derived]
    <3>1. derived = d.derived
      BY <2>1, <2>3, NeverTheOther
    <3>2. /\ e.type = type /\ e.derived = derived /\ e.policy = d.policy
          /\ e.setup = d.setup
      BY <2>1 DEF Descriptor
    <3>3. KindsRead(e) = KindsRead(d)
      BY <3>1, <3>2 DEF KindsRead, KeysOf
    <3>4. ParseError(e.type, e.derived, e) = "None"
      BY <2>3, <3>1, <3>2, <3>3 DEF ParseError
    <3>5. ASSUME ~e.derived
          PROVE  \A k \in KeysOf(e) : Kind[k] # "xpub"
      <4>1. "xpub" \notin KindsRead(e)
        BY <3>4, <3>5 DEF ParseError
      <4> QED
        BY <3>5, <4>1 DEF KindsRead
    <3>6. ParseError(e.type, e.derived, e) = "None"
            <=> e.derived \/ \A k \in KeysOf(e) : Kind[k] # "xpub"
      BY <3>4, <3>5
    <3>7. held' = {e}
      BY <1>3, <2>3 DEF FromStr
    <3> HIDE DEF e
    <3> QED
      BY <3>6, <3>7 DEF RoundTrips
  <2> QED
    BY <2>2, <2>3
<1>4. ASSUME NEW d \in held, CsvValue(d) \/ ManagersThreshold(d)
      PROVE  RoundTrips'
  BY <1>4 DEF CsvValue, ManagersThreshold, Read, RoundTrips
<1>5. CASE UNCHANGED vars
  BY <1>5 DEF vars, RoundTrips
<1> QED
  BY <1>1, <1>2, <1>3, <1>4, <1>5 DEF Next

\* A generic descriptor with a plain xpub is the one that is not read back from its
\* string, for any setup.
THEOREM ReadBack == Spec => []RoundTrips
<1>1. Init => HeldValid /\ RoundTrips
  BY DEF Init, HeldValid, RoundTrips
<1>2. HeldValid /\ RoundTrips /\ [Next]_vars => (HeldValid /\ RoundTrips)'
  BY StepValid, StepRoundTrips
<1> QED
  BY <1>1, <1>2, PTL DEF Spec
-----------------------------------------------------------------------------
(* The delay *)

\* What csv_value() returned is the value in the policy of the one descriptor.
DelayRead ==
  /\ \A d, e \in held : d = e
  /\ ret.op = "CsvValue" /\ ret.err = "None" =>
       \A d \in held : d.policy = "Unvault" /\ ret.value = {d.setup.csv.value}

LEMMA StepDelayRead == DelayRead /\ [Next]_vars => DelayRead'
<1> SUFFICES ASSUME DelayRead, [Next]_vars
             PROVE  DelayRead'
  OBVIOUS
<1>1. ASSUME NEW p \in Setups, NEW derived \in BOOLEAN,
             NewDeposit(p, derived) \/ NewUnvault(p, derived) \/ NewCpfp(p, derived)
      PROVE  DelayRead'
  BY <1>1 DEF NewDeposit, NewUnvault, NewCpfp, New, DelayRead
<1>2. ASSUME NEW d \in held, Derive(d)
      PROVE  DelayRead'
  <2>1. ret'.op = "Derive"
    BY <1>2 DEF Derive
  <2>2. held' = held \/ held' = {[d EXCEPT !.derived = TRUE]}
    BY <1>2 DEF Derive
  <2> QED
    BY <2>1, <2>2 DEF DelayRead
<1>3. ASSUME NEW d \in held, NEW type \in Types, NEW derived \in BOOLEAN,
             FromStr(type, derived, d)
      PROVE  DelayRead'
  <2>1. ret'.op = "FromStr"
    BY <1>3 DEF FromStr
  <2>2. held' = held \/ held' = {[d EXCEPT !.type = type, !.derived = derived]}
    BY <1>3 DEF FromStr
  <2> QED
    BY <2>1, <2>2 DEF DelayRead
<1>4. ASSUME NEW d \in held, CsvValue(d)
      PROVE  DelayRead'
  BY <1>4 DEF CsvValue, Read, DelayRead
<1>5. ASSUME NEW d \in held, ManagersThreshold(d)
      PROVE  DelayRead'
  BY <1>5 DEF ManagersThreshold, Read, DelayRead
<1>6. CASE UNCHANGED vars
  BY <1>6 DEF vars, DelayRead
<1> QED
  BY <1>1, <1>2, <1>3, <1>4, <1>5, <1>6 DEF Next

\* Everybody but a stakeholder can spend an Unvault output once its delay is over, and
\* not one block before.
LEMMA DelayExact ==
  ASSUME NEW d, Valid(d), d.policy = "Unvault", NEW s \in d.setup.stakeholders
  PROVE  LET v == d.setup.csv.value
         IN  /\ CanSpend(d, Keys \ {s}, [blocks |-> v, time |-> 0])
             /\ ~CanSpend(d, Keys \ {s}, [blocks |-> v - 1, time |-> 0])
<1> DEFINE p == d.setup
           others == Keys \ {s}
           v == p.csv.value
<1>1. /\ p \in Setup /\ v \in Nat /\ p.managers \in SUBSET Keys
      /\ p.cosigners \in SUBSET Keys /\ p.threshold \in Nat
  BY DEF Valid, Descriptor, Setup, Csv
<1>2. UnvaultChecks(p) /\ Compiles(p)
  BY DEF Valid
<1>3. ~(p.stakeholders \subseteq others)
  OBVIOUS
<1>4. p.cosigners \subseteq others /\ p.managers \subseteq others
  BY <1>1, <1>2 DEF Compiles
<1>5. ManagersSign(p, others)
  <2>1. {i \in DOMAIN [k \in p.managers |-> k \in others] :
           [k \in p.managers |-> k \in others][i]} = p.managers
    BY <1>4
  <2>2. Cardinality(p.managers) \in Nat
    BY <1>1, DescriptorAssumption, FS_Subset, FS_CardinalityType
  <2>3. p.threshold <= Cardinality(p.managers)
    BY <1>2 DEF UnvaultChecks
  <2>4. Cardinality(p.managers) >= p.threshold
    BY <1>1, <2>2, <2>3
  <2> QED
    BY <2>1, <2>4 DEF ManagersSign, Reached
<1>6. /\ LockMet(p.csv, [blocks |-> v, time |-> 0])
      /\ ~LockMet(p.csv, [blocks |-> v - 1, time |-> 0])
  <2>1. ~p.csv.disabled /\ ~p.csv.time
    BY <1>2 DEF UnvaultChecks, CleanBlocks
  <2>2. v >= v /\ ~(v - 1 >= v)
    BY <1>1
  <2> QED
    BY <2>1, <2>2 DEF LockMet
<1>7. CanSpend(d, others, [blocks |-> v, time |-> 0])
  BY <1>1, <1>4, <1>5, <1>6, UnvaultConditions
<1>8. ~CanSpend(d, others, [blocks |-> v - 1, time |-> 0])
  BY <1>1, <1>3, <1>6, UnvaultConditions
<1> QED
  BY <1>7, <1>8

\* csv_value() is the delay of the script to the block, for any setup and also for a
\* string of another output that was parsed as an Unvault descriptor.
THEOREM DelayReadExactly == Spec => []DelayReadsBack
<1>1. Init => DelayRead
  BY DEF Init, DelayRead, NoCall
<1>2. Spec => []DelayRead
  BY <1>1, StepDelayRead, PTL DEF Spec
<1>3. HeldValid /\ DelayRead => DelayReadsBack
  <2> SUFFICES ASSUME HeldValid, DelayRead, ret.op = "CsvValue", ret.err = "None",
                      NEW d \in held, NEW v \in ret.value, NEW s \in d.setup.stakeholders
               PROVE  /\ CanSpend(d, Keys \ {s}, [blocks |-> v, time |-> 0])
                      /\ ~CanSpend(d, Keys \ {s}, [blocks |-> v - 1, time |-> 0])
    BY DEF DelayReadsBack
  <2>1. Valid(d) /\ d.policy = "Unvault" /\ v = d.setup.csv.value
    BY DEF HeldValid, DelayRead
  <2> QED
    BY <2>1, DelayExact
<1> QED
  BY <1>2, <1>3, Validity, PTL
-----------------------------------------------------------------------------
(* The lifted policies *)

\* Normalized() on the policies it is given, as a set.
Merges(n, nodes, s) ==
  /\ s.node = "thresh"
  /\ (n = Cardinality(nodes)) # (n = 1)
  /\ s.k = IF n = Cardinality(nodes) THEN Cardinality(s.subs) ELSE 1
Flat(n, nodes) == UNION {IF Merges(n, nodes, s) THEN s.subs ELSE {s} : s \in nodes}
NormalForm(n, nodes) ==
  IF Cardinality(Flat(n, nodes)) = 1
  THEN CHOOSE s \in Flat(n, nodes) : TRUE
  ELSE ThreshNode(IF n = Cardinality(nodes) THEN Cardinality(Flat(n, nodes)) ELSE n,
                  Flat(n, nodes))

LEMMA NormalizedIs ==
  ASSUME NEW n, NEW subs, NEW nodes, nodes = {subs[i] : i \in DOMAIN subs}
  PROVE  Normalized(n, subs) = NormalForm(n, nodes)
BY DEF Normalized, NormalForm, Flat, Merges

\* The policies of the keys.
KeyNodes(keys) == {KeyNode(k) : k \in keys}

LEMMA KeyNodesCount ==
  ASSUME NEW keys, IsFiniteSet(keys)
  PROVE  /\ IsFiniteSet(KeyNodes(keys)) /\ Cardinality(KeyNodes(keys)) = Cardinality(keys)
         /\ \A s \in KeyNodes(keys) : s.node = "key"
<1> DEFINE f == [k \in keys |-> KeyNode(k)]
<1>1. f \in Surjection(keys, KeyNodes(keys))
  BY DEF Surjection, KeyNodes
<1>2. f \in Injection(keys, KeyNodes(keys))
  <2>1. f \in [keys -> KeyNodes(keys)]
    BY DEF KeyNodes
  <2>2. ASSUME NEW k \in keys, NEW l \in keys, f[k] = f[l] PROVE k = l
    BY <2>2 DEF KeyNode
  <2> QED
    BY <2>1, <2>2 DEF Injection, IsInjective
<1>3. /\ IsFiniteSet(KeyNodes(keys))
      /\ Cardinality(KeyNodes(keys)) = Cardinality(keys)
  BY <1>1, <1>2, FS_Surjection
<1>4. \A s \in KeyNodes(keys) : s.node = "key"
  BY DEF KeyNodes, KeyNode
<1> QED
  BY <1>3, <1>4

\* A threshold over keys is kept, but for the threshold over one key.
LEMMA KeysLifted ==
  ASSUME NEW keys, IsFiniteSet(keys), NEW n
  PROVE  LET lifted == Of(LiftedPolicy, n, keys) IN
         /\ Cardinality(keys) # 1 => lifted = ThreshNode(n, KeyNodes(keys))
         /\ Cardinality(keys) = 1 => KeyNodes(keys) = {lifted}
<1> DEFINE nodes == KeyNodes(keys)
           subs == [k \in keys |-> KeyNode(k)]
           lifted == Of(LiftedPolicy, n, keys)
<1>1. nodes = {subs[i] : i \in DOMAIN subs}
  BY DEF KeyNodes
<1>2. lifted = Normalized(n, subs)
  BY DEF Of, Thresh, Pk, LiftedPolicy
<1>3. lifted = NormalForm(n, nodes)
  <2> HIDE DEF lifted, subs, nodes
  <2> QED
    BY <1>1, <1>2, NormalizedIs
<1>4. Flat(n, nodes) = nodes
  <2>1. \A s \in nodes : ~Merges(n, nodes, s)
    BY KeyNodesCount DEF Merges
  <2> HIDE DEF nodes
  <2> QED
    BY <2>1 DEF Flat
<1>5. IsFiniteSet(nodes) /\ Cardinality(nodes) = Cardinality(keys)
  BY KeyNodesCount
<1> HIDE DEF lifted, nodes
<1>6. ASSUME Cardinality(keys) # 1 PROVE lifted = ThreshNode(n, nodes)
  BY <1>3, <1>4, <1>5, <1>6 DEF NormalForm
<1>7. ASSUME Cardinality(keys) = 1 PROVE nodes = {lifted}
  <2>1. PICK s : nodes = {s}
    BY <1>5, <1>7, FS_Singleton
  <2>2. lifted = CHOOSE x \in nodes : TRUE
    BY <1>3, <1>4, <1>5, <1>7 DEF NormalForm
  <2> QED
    BY <2>1, <2>2
<1> QED
  BY <1>6, <1>7 DEF lifted, nodes

\* The terms of a conjunction: those of a conjunction below it are its own.
Terms(s) ==
  IF s.node = "thresh" /\ s.k = Cardinality(s.subs) THEN s.subs ELSE {s}

LEMMA PairCount ==
  ASSUME NEW a, NEW b, a # b
  PROVE  Cardinality({a, b}) = 2 /\ IsFiniteSet({a, b})
<1> DEFINE A == {a}
<1>1. IsFiniteSet(A) /\ Cardinality(A) = 1 /\ b \notin A /\ {a, b} = A \cup {b}
  BY FS_Singleton
<1> HIDE DEF A
<1>2. IsFiniteSet(A \cup {b}) /\ Cardinality(A \cup {b}) = Cardinality(A) + 1
  BY <1>1, FS_AddElement
<1> QED
  BY <1>1, <1>2

LEMMA AndLifted ==
  ASSUME NEW a, NEW b, a # b, Cardinality(Terms(a) \cup Terms(b)) # 1
  PROVE  And(LiftedPolicy, a, b)
           = ThreshNode(Cardinality(Terms(a) \cup Terms(b)), Terms(a) \cup Terms(b))
<1> DEFINE nodes == {a, b}
           subs == <<a, b>>
<1>1. nodes = {subs[i] : i \in DOMAIN subs}
  OBVIOUS
<1>2. And(LiftedPolicy, a, b) = Normalized(2, subs)
  BY DEF And, Thresh, LiftedPolicy
<1>3. And(LiftedPolicy, a, b) = NormalForm(2, nodes)
  <2> HIDE DEF nodes, subs
  <2> QED
    BY <1>1, <1>2, NormalizedIs
<1>4. Cardinality(nodes) = 2
  BY PairCount
<1>5. \A s \in nodes : Merges(2, nodes, s) <=> s.node = "thresh" /\ s.k = Cardinality(s.subs)
  <2> HIDE DEF nodes
  <2> QED
    BY <1>4 DEF Merges
<1>6. Flat(2, nodes) = Terms(a) \cup Terms(b)
  <2>1. Flat(2, nodes) = UNION {Terms(s) : s \in nodes}
    <3> HIDE DEF nodes
    <3> QED
      BY <1>5 DEF Flat, Terms
  <2> QED
    BY <2>1
<1> HIDE DEF nodes
<1> QED
  BY <1>3, <1>4, <1>6 DEF NormalForm

LEMMA OrLifted ==
  ASSUME NEW a, NEW b, a # b,
         ~(a.node = "thresh" /\ a.k = 1), ~(b.node = "thresh" /\ b.k = 1)
  PROVE  Or(LiftedPolicy, a, b) = ThreshNode(1, {a, b})
<1> DEFINE nodes == {a, b}
           subs == <<a, b>>
<1>1. nodes = {subs[i] : i \in DOMAIN subs}
  OBVIOUS
<1>2. Or(LiftedPolicy, a, b) = Normalized(1, subs)
  BY DEF Or, Thresh, LiftedPolicy
<1>3. Or(LiftedPolicy, a, b) = NormalForm(1, nodes)
  <2> HIDE DEF nodes, subs
  <2> QED
    BY <1>1, <1>2, NormalizedIs
<1>4. Cardinality(nodes) = 2
  BY PairCount
<1>5. ~Merges(1, nodes, a) /\ ~Merges(1, nodes, b)
  <2> HIDE DEF nodes
  <2> QED
    BY <1>4 DEF Merges
<1>6. Flat(1, nodes) = nodes
  BY <1>5 DEF Flat
<1> HIDE DEF nodes
<1>7. Or(LiftedPolicy, a, b) = ThreshNode(1, nodes)
  BY <1>3, <1>4, <1>6 DEF NormalForm
<1> QED
  BY <1>7 DEF nodes

\* What managers_threshold() walks through: the terms of the branch of the managers,
\* whose own policy disappears into it when all of them have to sign.
BranchTerms(p) ==
  (IF p.threshold = Cardinality(p.managers) THEN KeyNodes(p.managers)
   ELSE {ThreshNode(p.threshold, KeyNodes(p.managers))})
    \cup KeyNodes(p.cosigners) \cup {OlderNode(p.csv)}

LEMMA SetupFacts ==
  ASSUME NEW p \in Setup
  PROVE  /\ IsFiniteSet(p.stakeholders) /\ IsFiniteSet(p.managers) /\ IsFiniteSet(p.cosigners)
         /\ Cardinality(p.stakeholders) \in Nat /\ Cardinality(p.managers) \in Nat
         /\ Cardinality(p.cosigners) \in Nat /\ p.threshold \in Nat
<1>1. /\ p.stakeholders \in SUBSET Keys /\ p.managers \in SUBSET Keys
      /\ p.cosigners \in SUBSET Keys /\ p.threshold \in Nat
  BY DEF Setup
<1>2. IsFiniteSet(p.stakeholders) /\ IsFiniteSet(p.managers) /\ IsFiniteSet(p.cosigners)
  BY <1>1, DescriptorAssumption, FS_Subset
<1> QED
  BY <1>1, <1>2, FS_CardinalityType

\* The terms of a threshold over keys in a conjunction.
LEMMA KeysTerms ==
  ASSUME NEW keys, IsFiniteSet(keys), keys # {}, NEW n \in Nat \ {0}, n <= Cardinality(keys)
  PROVE  Terms(Of(LiftedPolicy, n, keys))
           = IF n = Cardinality(keys) THEN KeyNodes(keys)
             ELSE {ThreshNode(n, KeyNodes(keys))}
<1> DEFINE lifted == Of(LiftedPolicy, n, keys)
<1>1. Cardinality(keys) \in Nat /\ Cardinality(KeyNodes(keys)) = Cardinality(keys)
  BY KeyNodesCount, FS_CardinalityType
<1>2. CASE Cardinality(keys) = 1
  <2>1. KeyNodes(keys) = {lifted} /\ lifted.node = "key"
    BY <1>2, KeysLifted, KeyNodesCount
  <2>2. n = Cardinality(keys)
    BY <1>2
  <2> HIDE DEF lifted
  <2>3. Terms(lifted) = {lifted}
    BY <2>1 DEF Terms
  <2> QED
    BY <2>1, <2>2, <2>3 DEF lifted
<1>3. CASE Cardinality(keys) # 1
  <2>1. lifted = ThreshNode(n, KeyNodes(keys))
    BY <1>3, KeysLifted
  <2> HIDE DEF lifted
  <2>2. Terms(lifted) = IF n = Cardinality(keys) THEN KeyNodes(keys) ELSE {lifted}
    BY <1>1, <2>1 DEF Terms, ThreshNode
  <2> QED
    BY <2>1, <2>2 DEF lifted
<1> QED
  BY <1>2, <1>3

LEMMA AtLeastTwo ==
  ASSUME NEW S, IsFiniteSet(S), NEW a \in S, NEW b \in S, a # b
  PROVE  Cardinality(S) \in Nat /\ Cardinality(S) >= 2
<1>1. {a, b} \in SUBSET S /\ Cardinality({a, b}) = 2
  BY PairCount
<1>2. Cardinality({a, b}) <= Cardinality(S) /\ Cardinality(S) \in Nat
  <2>1. \A T \in SUBSET S : Cardinality(T) <= Cardinality(S)
    BY FS_Subset
  <2> QED
    BY <1>1, <2>1, FS_CardinalityType
<1> QED
  BY <1>1, <1>2

LEMMA BranchFacts ==
  ASSUME NEW p \in Setup, UnvaultChecks(p), Compiles(p)
  PROVE  /\ IsFiniteSet(BranchTerms(p)) /\ OlderNode(p.csv) \in BranchTerms(p)
         /\ Cardinality(BranchTerms(p)) \in Nat /\ Cardinality(BranchTerms(p)) >= 2
<1> DEFINE spenders == IF p.threshold = Cardinality(p.managers) THEN KeyNodes(p.managers)
                       ELSE {ThreshNode(p.threshold, KeyNodes(p.managers))}
           older == OlderNode(p.csv)
<1>1. BranchTerms(p) = spenders \cup KeyNodes(p.cosigners) \cup {older}
  BY DEF BranchTerms
<1>2. IsFiniteSet(KeyNodes(p.managers)) /\ IsFiniteSet(KeyNodes(p.cosigners))
  BY SetupFacts, KeyNodesCount
<1>3. IsFiniteSet(spenders)
  BY <1>2, FS_Singleton
<1>4. \E s \in spenders : s # older
  <2>1. PICK m \in p.managers : TRUE
    BY DEF UnvaultChecks
  <2>2. KeyNode(m) \in KeyNodes(p.managers)
    BY DEF KeyNodes
  <2>3. KeyNode(m).node = "key" /\ older.node = "older"
        /\ ThreshNode(p.threshold, KeyNodes(p.managers)).node = "thresh"
    BY DEF KeyNode, OlderNode, ThreshNode
  <2> QED
    BY <2>2, <2>3
<1> HIDE DEF spenders, older
<1>5. IsFiniteSet(BranchTerms(p))
  <2>1. IsFiniteSet(spenders \cup KeyNodes(p.cosigners))
    BY <1>2, <1>3, FS_Union
  <2> QED
    BY <1>1, <2>1, FS_AddElement
<1>6. older \in BranchTerms(p)
  BY <1>1
<1>7. PICK s \in BranchTerms(p) : s # older
  BY <1>1, <1>4
<1> QED
  BY <1>5, <1>6, <1>7, AtLeastTwo DEF older

\* The lifted policy of a valid setup: the stakeholders, or the branch of the managers.
LEMMA UnvaultLifted ==
  ASSUME NEW p \in Setup, UnvaultChecks(p), Compiles(p)
  PROVE  LET stakeholders == All(LiftedPolicy, p.stakeholders)
             branch == ThreshNode(Cardinality(BranchTerms(p)), BranchTerms(p))
         IN  /\ UnvaultPolicy(LiftedPolicy, p) = ThreshNode(1, {stakeholders, branch})
             /\ stakeholders # branch
             /\ ~CsvBranch(stakeholders) /\ CsvBranch(branch)
<1> DEFINE stakeholders == All(LiftedPolicy, p.stakeholders)
           branch == ThreshNode(Cardinality(BranchTerms(p)), BranchTerms(p))
           spenders == Of(LiftedPolicy, p.threshold, p.managers)
           older == OlderNode(p.csv)
           cosigners == All(LiftedPolicy, p.cosigners)
           F == BranchTerms(p)
<1>1. /\ IsFiniteSet(F) /\ older \in F /\ Cardinality(F) \in Nat /\ Cardinality(F) >= 2
  BY BranchFacts
<1>2. /\ p.stakeholders # {} /\ p.managers # {} /\ p.threshold \in Nat \ {0}
      /\ p.threshold <= Cardinality(p.managers)
      /\ IsFiniteSet(p.stakeholders) /\ IsFiniteSet(p.managers) /\ IsFiniteSet(p.cosigners)
  BY SetupFacts DEF UnvaultChecks, Compiles
<1>3. Terms(spenders) = IF p.threshold = Cardinality(p.managers) THEN KeyNodes(p.managers)
                        ELSE {ThreshNode(p.threshold, KeyNodes(p.managers))}
  BY <1>2, KeysTerms
<1>4. older.node = "older" /\ Terms(older) = {older}
  BY DEF Terms, OlderNode
<1>5. /\ spenders.node \in {"key", "thresh"}
      /\ spenders.node = "thresh" => \A s \in spenders.subs : s.node = "key"
  <2>1. CASE Cardinality(p.managers) = 1
    BY <1>2, <2>1, KeysLifted, KeyNodesCount
  <2>2. CASE Cardinality(p.managers) # 1
    BY <1>2, <2>2, KeysLifted, KeyNodesCount DEF ThreshNode
  <2> QED
    BY <2>1, <2>2
<1> DEFINE rest == IF p.cosigners = {} THEN older ELSE And(LiftedPolicy, cosigners, older)
<1>6. /\ Terms(rest) = KeyNodes(p.cosigners) \cup {older}
      /\ rest # spenders
  <2>1. CASE p.cosigners = {}
    <3>1. rest = older /\ KeyNodes(p.cosigners) = {}
      BY <2>1 DEF KeyNodes
    <3> QED
      BY <1>4, <1>5, <3>1
  <2>2. CASE p.cosigners # {}
    <3> DEFINE C == KeyNodes(p.cosigners)
    <3>1. Cardinality(p.cosigners) \in Nat \ {0}
      BY <1>2, <2>2, FS_CardinalityType, FS_EmptySet
    <3>2. Terms(cosigners) = C
      BY <1>2, <2>2, <3>1, KeysTerms DEF All
    <3>3. IsFiniteSet(C) /\ \A s \in C : s.node = "key"
      BY <1>2, KeyNodesCount
    <3>4. PICK c \in C : TRUE
      BY <2>2 DEF KeyNodes
    <3>5. c # older /\ older \notin C
      BY <1>4, <3>3
    <3> HIDE DEF C, older
    <3>6. IsFiniteSet(C \cup {older}) /\ Cardinality(C \cup {older}) >= 2
          /\ Cardinality(C \cup {older}) \in Nat
      <4>1. IsFiniteSet(C \cup {older})
        BY <3>3, FS_AddElement
      <4>2. c \in C \cup {older} /\ older \in C \cup {older}
        OBVIOUS
      <4> QED
        BY <3>5, <4>1, <4>2, AtLeastTwo
    <3>7. cosigners # older
      <4>1. cosigners = older => Terms(cosigners) = {older}
        BY <1>4
      <4> QED
        BY <3>2, <3>4, <3>5, <4>1
    <3>8. rest = ThreshNode(Cardinality(C \cup {older}), C \cup {older})
      <4> HIDE DEF cosigners
      <4>1. Terms(cosigners) \cup Terms(older) = C \cup {older}
        BY <1>4, <3>2
      <4>2. Cardinality(Terms(cosigners) \cup Terms(older)) # 1
        BY <3>6, <4>1
      <4> QED
        BY <2>2, <3>7, <4>1, <4>2, AndLifted
    <3> HIDE DEF rest, spenders
    <3>9. Terms(rest) = C \cup {older}
      BY <3>8 DEF Terms, ThreshNode
    <3>10. rest.node = "thresh" /\ rest.subs = C \cup {older}
      BY <3>8 DEF ThreshNode
    <3>11. rest # spenders
      BY <1>4, <1>5, <3>10
    <3> QED
      BY <3>9, <3>11 DEF C
  <2> QED
    BY <2>1, <2>2
<1>7. And(LiftedPolicy, spenders, rest) = branch
  <2>1. Terms(spenders) \cup Terms(rest) = F
    BY <1>3, <1>6 DEF BranchTerms
  <2> HIDE DEF spenders, rest, F
  <2>2. Cardinality(Terms(spenders) \cup Terms(rest)) # 1
    BY <1>1, <2>1
  <2>3. And(LiftedPolicy, spenders, rest) = ThreshNode(Cardinality(F), F)
    BY <1>6, <2>1, <2>2, AndLifted
  <2> QED
    BY <2>3 DEF F
<1>8. UnvaultPolicy(LiftedPolicy, p) = Or(LiftedPolicy, stakeholders, branch)
  <2>1. UnvaultPolicy(LiftedPolicy, p)
          = Or(LiftedPolicy, stakeholders, And(LiftedPolicy, spenders, rest))
    <3>1. Older(LiftedPolicy, p.csv) = older
      BY DEF Older, LiftedPolicy
    <3>2. CASE p.cosigners = {}
      BY <3>1, <3>2 DEF UnvaultPolicy
    <3>3. CASE p.cosigners # {}
      BY <3>1, <3>3 DEF UnvaultPolicy
    <3> QED
      BY <3>2, <3>3
  <2> QED
    BY <1>7, <2>1
<1>9. /\ branch.node = "thresh" /\ branch.k = Cardinality(F) /\ branch.subs = F
  BY DEF ThreshNode
<1>10. /\ stakeholders.node \in {"key", "thresh"}
       /\ stakeholders.node = "thresh" =>
            /\ stakeholders.k = Cardinality(p.stakeholders) /\ stakeholders.k # 1
            /\ \A s \in stakeholders.subs : s.node = "key"
  <2>1. CASE Cardinality(p.stakeholders) = 1
    BY <1>2, <2>1, KeysLifted, KeyNodesCount DEF All
  <2>2. CASE Cardinality(p.stakeholders) # 1
    BY <1>2, <2>2, KeysLifted, KeyNodesCount DEF All, ThreshNode
  <2> QED
    BY <2>1, <2>2
<1> HIDE DEF stakeholders, branch, older, F
<1>11. ~CsvBranch(stakeholders) /\ CsvBranch(branch)
  BY <1>1, <1>4, <1>9, <1>10 DEF CsvBranch
<1>12. stakeholders # branch
  BY <1>11
<1>13. Or(LiftedPolicy, stakeholders, branch) = ThreshNode(1, {stakeholders, branch})
  BY <1>1, <1>9, <1>10, <1>12, OrLifted
<1> QED
  BY <1>8, <1>11, <1>12, <1>13 DEF stakeholders, branch

\* What managers_threshold() should return: None when all the managers have to sign.
ThresholdOf(p) == IF p.threshold = Cardinality(p.managers) THEN {} ELSE {p.threshold}

LEMMA UnvaultThreshold ==
  ASSUME NEW d, Valid(d), d.policy = "Unvault"
  PROVE  /\ ~ManagersThresholdPanics(Lifted(d))
         /\ ThresholdIn(Lifted(d)) = ThresholdOf(d.setup)
<1> DEFINE p == d.setup
           stakeholders == All(LiftedPolicy, p.stakeholders)
           F == BranchTerms(p)
           branch == ThreshNode(Cardinality(F), F)
<1>1. p \in Setup /\ UnvaultChecks(p) /\ Compiles(p)
  BY DEF Valid, Descriptor
<1>2. /\ Lifted(d) = ThreshNode(1, {stakeholders, branch})
      /\ stakeholders # branch /\ ~CsvBranch(stakeholders) /\ CsvBranch(branch)
  <2>1. Lifted(d) = UnvaultPolicy(LiftedPolicy, p)
    BY DEF Lifted, Policy
  <2> QED
    BY <1>1, <2>1, UnvaultLifted
<1>3. branch.subs = F
  BY DEF ThreshNode
<1> HIDE DEF stakeholders, branch
<1>4. /\ Lifted(d).node = "thresh" /\ Lifted(d).k = 1
      /\ Lifted(d).subs = {stakeholders, branch}
  BY <1>2 DEF ThreshNode
<1>5. ~ManagersThresholdPanics(Lifted(d))
  <2>1. Cardinality({stakeholders, branch}) = 2
    BY <1>2, PairCount
  <2> QED
    BY <1>2, <1>4, <2>1 DEF ManagersThresholdPanics
<1>6. {s \in Lifted(d).subs : CsvBranch(s)} = {branch}
  BY <1>2, <1>4
<1>7. ThresholdIn(Lifted(d)) = {sub.k : sub \in {sub \in F : sub.node = "thresh"}}
  BY <1>3, <1>6 DEF ThresholdIn
<1>8. {sub.k : sub \in {sub \in F : sub.node = "thresh"}} = ThresholdOf(p)
  <2>1. /\ \A s \in KeyNodes(p.managers) \cup KeyNodes(p.cosigners) : s.node = "key"
        /\ OlderNode(p.csv).node = "older"
    BY <1>1, SetupFacts, KeyNodesCount DEF OlderNode
  <2>2. CASE p.threshold = Cardinality(p.managers)
    <3>1. F = KeyNodes(p.managers) \cup KeyNodes(p.cosigners) \cup {OlderNode(p.csv)}
      BY <2>2 DEF BranchTerms
    <3>2. {sub \in F : sub.node = "thresh"} = {}
      BY <2>1, <3>1
    <3> QED
      BY <2>2, <3>2 DEF ThresholdOf
  <2>3. CASE p.threshold # Cardinality(p.managers)
    <3> DEFINE spenders == ThreshNode(p.threshold, KeyNodes(p.managers))
    <3>1. F = {spenders} \cup KeyNodes(p.cosigners) \cup {OlderNode(p.csv)}
      BY <2>3 DEF BranchTerms
    <3>2. spenders.node = "thresh" /\ spenders.k = p.threshold
      BY DEF ThreshNode
    <3> HIDE DEF spenders
    <3>3. {sub \in F : sub.node = "thresh"} = {spenders}
      BY <2>1, <3>1, <3>2
    <3> QED
      BY <2>3, <3>2, <3>3 DEF ThresholdOf
  <2> QED
    BY <2>2, <2>3
<1> QED
  BY <1>5, <1>7, <1>8

\* The other policies have no branch with a delay.
LEMMA OthersPanic ==
  ASSUME NEW d, Valid(d), d.policy # "Unvault"
  PROVE  ManagersThresholdPanics(Lifted(d))
<1>1. d.setup \in Setup /\ d.policy \in {"Deposit", "Cpfp"}
  BY DEF Valid, Descriptor, Types
<1>2. PICK keys, n : IsFiniteSet(keys) /\ Lifted(d) = Of(LiftedPolicy, n, keys)
  <2>1. IsFiniteSet(d.setup.stakeholders) /\ IsFiniteSet(d.setup.managers)
    BY <1>1, SetupFacts
  <2>2. CASE d.policy = "Deposit"
    BY <2>1, <2>2 DEF Lifted, Policy, All
  <2>3. CASE d.policy = "Cpfp"
    BY <2>1, <2>3 DEF Lifted, Policy
  <2> QED
    BY <1>1, <2>2, <2>3
<1>3. \A s \in KeyNodes(keys) : s.node = "key"
  BY <1>2, KeyNodesCount
<1>4. CASE Cardinality(keys) = 1
  <2>1. KeyNodes(keys) = {Lifted(d)}
    BY <1>2, <1>4, KeysLifted
  <2> QED
    BY <1>3, <2>1 DEF ManagersThresholdPanics
<1>5. CASE Cardinality(keys) # 1
  <2>1. Lifted(d) = ThreshNode(n, KeyNodes(keys))
    BY <1>2, <1>5, KeysLifted
  <2>2. Lifted(d).subs = KeyNodes(keys)
    BY <2>1 DEF ThreshNode
  <2> QED
    BY <1>3, <2>2 DEF ManagersThresholdPanics, CsvBranch
<1> QED
  BY <1>4, <1>5

LEMMA ManagersThresholdReads ==
  ASSUME HeldValid, NEW d \in held, ManagersThreshold(d)
  PROVE  /\ ret'.op = "ManagersThreshold" /\ UNCHANGED held
         /\ \/ d.policy = "Unvault" /\ ret'.err = "None" /\ ret'.value = ThresholdOf(d.setup)
            \/ d.policy # "Unvault" /\ ret'.err = "Panic" /\ ret'.value = {}
<1>1. Valid(d)
  BY DEF HeldValid
<1>2. CASE d.policy = "Unvault"
  <2>1. /\ ~ManagersThresholdPanics(Lifted(d))
        /\ ThresholdIn(Lifted(d)) = ThresholdOf(d.setup)
    BY <1>1, <1>2, UnvaultThreshold
  <2> QED
    BY <1>2, <2>1 DEF ManagersThreshold, Read
<1>3. CASE d.policy # "Unvault"
  <2>1. ManagersThresholdPanics(Lifted(d))
    BY <1>1, <1>3, OthersPanic
  <2> QED
    BY <1>3, <2>1 DEF ManagersThreshold, Read
<1> QED
  BY <1>2, <1>3

\* What managers_threshold() returned is the threshold of the one descriptor.
ThresholdRead ==
  /\ \A d, e \in held : d = e
  /\ ret.op = "ManagersThreshold" /\ ret.err = "None" =>
       \A d \in held : d.policy = "Unvault" /\ ret.value = ThresholdOf(d.setup)

LEMMA StepThresholdRead == HeldValid /\ ThresholdRead /\ [Next]_vars => ThresholdRead'
<1> SUFFICES ASSUME HeldValid, ThresholdRead, [Next]_vars
             PROVE  ThresholdRead'
  OBVIOUS
<1>1. ASSUME NEW p \in Setups, NEW derived \in BOOLEAN,
             NewDeposit(p, derived) \/ NewUnvault(p, derived) \/ NewCpfp(p, derived)
      PROVE  ThresholdRead'
  BY <1>1 DEF NewDeposit, NewUnvault, NewCpfp, New, ThresholdRead
<1>2. ASSUME NEW d \in held, Derive(d)
      PROVE  ThresholdRead'
  <2>1. ret'.op = "Derive"
    BY <1>2 DEF Derive
  <2>2. held' = held \/ held' = {[d EXCEPT !.derived = TRUE]}
    BY <1>2 DEF Derive
  <2> QED
    BY <2>1, <2>2 DEF ThresholdRead
<1>3. ASSUME NEW d \in held, NEW type \in Types, NEW derived \in BOOLEAN,
             FromStr(type, derived, d)
      PROVE  ThresholdRead'
  <2>1. ret'.op = "FromStr"
    BY <1>3 DEF FromStr
  <2>2. held' = held \/ held' = {[d EXCEPT !.type = type, !.derived = derived]}
    BY <1>3 DEF FromStr
  <2> QED
    BY <2>1, <2>2 DEF ThresholdRead
<1>4. ASSUME NEW d \in held, CsvValue(d)
      PROVE  ThresholdRead'
  BY <1>4 DEF CsvValue, Read, ThresholdRead
<1>5. ASSUME NEW d \in held, ManagersThreshold(d)
      PROVE  ThresholdRead'
  <2>1. UNCHANGED held /\ \A e \in held : e = d
    BY <1>5, ManagersThresholdReads DEF ThresholdRead
  <2>2. \/ d.policy = "Unvault" /\ ret'.value = ThresholdOf(d.setup)
        \/ ret'.err = "Panic"
    BY <1>5, ManagersThresholdReads
  <2> QED
    BY <2>1, <2>2 DEF ThresholdRead
<1>6. CASE UNCHANGED vars
  BY <1>6 DEF vars, ThresholdRead
<1> QED
  BY <1>1, <1>2, <1>3, <1>4, <1>5, <1>6 DEF Next

\* With the cosigning servers and the delay, the output takes as many managers as the
\* threshold says.
LEMMA ThresholdExact ==
  ASSUME NEW d, Valid(d), d.policy = "Unvault", NEW signers \in SUBSET d.setup.managers
  PROVE  CanSpend(d, signers \cup d.setup.cosigners, [blocks |-> d.setup.csv.value, time |-> 0])
           <=> Cardinality(signers) >= d.setup.threshold
<1> DEFINE p == d.setup
           all == signers \cup p.cosigners
           age == [blocks |-> p.csv.value, time |-> 0]
<1>1. /\ p \in Setup /\ UnvaultChecks(p) /\ Compiles(p) /\ p.csv.value \in Nat
  BY DEF Valid, Descriptor, Setup, Csv
<1>2. ~(p.stakeholders \subseteq all)
  <2>1. PICK s \in p.stakeholders : TRUE
    BY <1>1 DEF UnvaultChecks
  <2>2. s \notin p.managers /\ s \notin p.cosigners
    BY <1>1, <2>1 DEF Compiles
  <2> QED
    BY <2>1, <2>2
<1>3. LockMet(p.csv, age)
  <2>1. ~p.csv.disabled /\ ~p.csv.time /\ age.blocks >= p.csv.value
    BY <1>1 DEF UnvaultChecks, CleanBlocks
  <2> QED
    BY <2>1 DEF LockMet
<1>4. ManagersSign(p, all) <=> Cardinality(signers) >= p.threshold
  <2>1. {i \in DOMAIN [k \in p.managers |-> k \in all] : [k \in p.managers |-> k \in all][i]}
          = signers
    BY <1>1 DEF Compiles
  <2> QED
    BY <2>1 DEF ManagersSign, Reached
<1>5. CanSpend(d, all, age)
        <=> \/ p.stakeholders \subseteq all
            \/ ManagersSign(p, all) /\ LockMet(p.csv, age) /\ p.cosigners \subseteq all
  BY <1>1, UnvaultConditions
<1> QED
  BY <1>2, <1>3, <1>4, <1>5

\* managers_threshold() is the number of managers the script asks for, for any setup
\* and however the lifted policy is normalized: the managers' keys are merged with
\* the other terms of their branch only when it returns None.
THEOREM ThresholdReadExactly == Spec => []ThresholdReadsBack
<1>1. Init => HeldValid /\ ThresholdRead
  BY DEF Init, HeldValid, ThresholdRead, NoCall
<1>2. HeldValid /\ ThresholdRead /\ [Next]_vars => (HeldValid /\ ThresholdRead)'
  BY StepValid, StepThresholdRead
<1>3. HeldValid /\ ThresholdRead => ThresholdReadsBack
  <2> SUFFICES ASSUME HeldValid, ThresholdRead, ret.op = "ManagersThreshold",
                      ret.err = "None", NEW d \in held
               PROVE  LET p == d.setup
                          all == Cardinality(p.managers)
                          asked == IF ret.value = {} THEN {all} ELSE ret.value
                          age == [blocks |-> p.csv.value, time |-> 0]
                      IN  /\ ret.value # {all}
                          /\ \A signers \in SUBSET p.managers, n \in asked :
                               CanSpend(d, signers \cup p.cosigners, age)
                                 <=> Cardinality(signers) >= n
    BY DEF ThresholdReadsBack
  <2>1. Valid(d) /\ d.policy = "Unvault" /\ ret.value = ThresholdOf(d.setup)
    BY DEF HeldValid, ThresholdRead
  <2>2. /\ ret.value # {Cardinality(d.setup.managers)}
        /\ (IF ret.value = {} THEN {Cardinality(d.setup.managers)} ELSE ret.value)
             = {d.setup.threshold}
    BY <2>1 DEF ThresholdOf
  <2>3. \A signers \in SUBSET d.setup.managers :
          CanSpend(d, signers \cup d.setup.cosigners,
                   [blocks |-> d.setup.csv.value, time |-> 0])
            <=> Cardinality(signers) >= d.setup.threshold
    BY <2>1, ThresholdExact
  <2> QED
    BY <2>2, <2>3
<1> QED
  BY <1>1, <1>2, <1>3, PTL DEF Spec
-----------------------------------------------------------------------------
(* Types, and what panics *)

\* A read returns at most one number.
ReturnTyped == ret.value \in SUBSET Nat /\ \A m, n \in ret.value : m = n

LEMMA StepReturnTyped == HeldValid /\ ReturnTyped /\ [Next]_vars => ReturnTyped'
<1> SUFFICES ASSUME HeldValid, ReturnTyped, [Next]_vars
             PROVE  ReturnTyped'
  OBVIOUS
<1>1. ASSUME NEW p \in Setups, NEW derived \in BOOLEAN,
             NewDeposit(p, derived) \/ NewUnvault(p, derived) \/ NewCpfp(p, derived)
      PROVE  ReturnTyped'
  BY <1>1 DEF NewDeposit, NewUnvault, NewCpfp, New, ReturnTyped
<1>2. ASSUME NEW d \in held, Derive(d)
      PROVE  ReturnTyped'
  <2>1. ret'.value = {}
    BY <1>2 DEF Derive
  <2> QED
    BY <2>1 DEF ReturnTyped
<1>3. ASSUME NEW d \in held, NEW type \in Types, NEW derived \in BOOLEAN,
             FromStr(type, derived, d)
      PROVE  ReturnTyped'
  <2>1. ret'.value = {}
    BY <1>3 DEF FromStr
  <2> QED
    BY <2>1 DEF ReturnTyped
<1>4. ASSUME NEW d \in held, CsvValue(d)
      PROVE  ReturnTyped'
  <2>1. ret'.value \in {{}, {d.setup.csv.value}}
    BY <1>4 DEF CsvValue, Read
  <2>2. d.setup.csv.value \in Nat
    BY DEF HeldValid, Valid, Descriptor, Setup, Csv
  <2> QED
    BY <2>1, <2>2 DEF ReturnTyped
<1>5. ASSUME NEW d \in held, ManagersThreshold(d)
      PROVE  ReturnTyped'
  <2>1. ret'.value \in {{}, {d.setup.threshold}}
    BY <1>5, ManagersThresholdReads DEF ThresholdOf
  <2>2. d.setup.threshold \in Nat
    BY DEF HeldValid, Valid, Descriptor, Setup
  <2> QED
    BY <2>1, <2>2 DEF ReturnTyped
<1>6. CASE UNCHANGED vars
  BY <1>6 DEF vars, ReturnTyped
<1> QED
  BY <1>1, <1>2, <1>3, <1>4, <1>5, <1>6 DEF Next

\* There is at most one descriptor and what is read from it is at most one number,
\* whatever the strings that were parsed.
THEOREM DescriptorsTyped == Spec => []TypeOK
<1>1. Init => HeldValid /\ ThresholdRead /\ ReturnTyped
  BY DEF Init, HeldValid, ThresholdRead, ReturnTyped, NoCall
<1>2. HeldValid /\ ThresholdRead /\ ReturnTyped /\ [Next]_vars
        => (HeldValid /\ ThresholdRead /\ ReturnTyped)'
  BY StepValid, StepThresholdRead, StepReturnTyped
<1>3. HeldValid /\ ThresholdRead /\ ReturnTyped => TypeOK
  BY DEF HeldValid, Valid, ThresholdRead, ReturnTyped, TypeOK
<1> QED
  BY <1>1, <1>2, <1>3, PTL DEF Spec

\* managers_threshold() returns exactly for the descriptors whose policy is that of an
\* Unvault, for any setups and kinds of keys and whatever strings were parsed: its
\* assertions on the shape of the normalized policy hold of all of these, and none of
\* the Deposit and CPFP policies passes them.
THEOREM ThresholdsAreUnvaults == Spec => []ThresholdOfUnvaultsOnly
<1> DEFINE Inv == HeldValid /\ ThresholdRead /\ ThresholdOfUnvaultsOnly
<1>1. Init => Inv
  BY DEF Init, HeldValid, ThresholdRead, ThresholdOfUnvaultsOnly, NoCall
<1>2. Inv /\ [Next]_vars => Inv'
  <2> SUFFICES ASSUME HeldValid, ThresholdRead, ThresholdOfUnvaultsOnly, [Next]_vars
               PROVE  ThresholdOfUnvaultsOnly'
    BY StepValid, StepThresholdRead
  <2>1. ASSUME ret'.op # "ManagersThreshold"
        PROVE  ThresholdOfUnvaultsOnly'
    BY <2>1 DEF ThresholdOfUnvaultsOnly
  <2>2. ASSUME NEW p \in Setups, NEW derived \in BOOLEAN,
               NewDeposit(p, derived) \/ NewUnvault(p, derived) \/ NewCpfp(p, derived)
        PROVE  ret'.op # "ManagersThreshold"
    BY <2>2 DEF NewDeposit, NewUnvault, NewCpfp, New
  <2>3. ASSUME NEW d \in held, Derive(d)
        PROVE  ret'.op # "ManagersThreshold"
    BY <2>3 DEF Derive
  <2>4. ASSUME NEW d \in held, NEW type \in Types, NEW derived \in BOOLEAN,
               FromStr(type, derived, d)
        PROVE  ret'.op # "ManagersThreshold"
    BY <2>4 DEF FromStr
  <2>5. ASSUME NEW d \in held, CsvValue(d)
        PROVE  ret'.op # "ManagersThreshold"
    BY <2>5 DEF CsvValue, Read
  <2>6. ASSUME NEW d \in held, ManagersThreshold(d)
        PROVE  ThresholdOfUnvaultsOnly'
    <3>1. ret'.err = "None" <=> d.policy = "Unvault"
      BY <2>6, ManagersThresholdReads
    <3>2. held' = held /\ \A e \in held : e = d
      BY <2>6, ManagersThresholdReads DEF ThresholdRead
    <3> QED
      BY <3>1, <3>2 DEF ThresholdOfUnvaultsOnly
  <2>7. CASE UNCHANGED vars
    BY <2>7 DEF vars, ThresholdOfUnvaultsOnly
  <2> QED
    BY <2>1, <2>2, <2>3, <2>4, <2>5, <2>6, <2>7 DEF Next
<1> QED
  BY <1>1, <1>2, PTL DEF Spec
=============================================================================
