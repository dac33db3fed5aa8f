----------------------------- MODULE Descriptors -----------------------------
(***************************************************************************)
(* The Deposit, Unvault and CPFP descriptors of scripts.rs: the checks of     *)
(* their constructors, the policies they stand for, derivation, parsing, and   *)
(* what csv_value() and managers_threshold() read back from a descriptor.     *)
(*                                                                          *)
(* A policy is written once and read in two ways: as a script it says which    *)
(* signatures spend the output, lifted it is the normalized policy that        *)
(* managers_threshold() walks through.                                       *)
(*                                                                          *)
(* Keys are model values and a vector of keys is a set; miniscript compiles a  *)
(* policy to a script of the same meaning.                                   *)
(***************************************************************************)
EXTENDS Integers, FiniteSets

CONSTANTS
  Keys,    \* the public keys of all participants
  Kind,    \* what they are when not derived: see Kinds
  Setups,  \* the arguments of the constructors
  Ages     \* of an output: in blocks, and in units of 512 seconds

\* An xpub with a wildcard, with a hardened one, with none, and a raw key.
Kinds == {"wildcard", "hardened", "xpub", "single"}

\* The u32 that is given to older(): its type flags, whether another bit without
\* meaning is set, and the 16 bits that consensus looks at.
Csv == [disabled : BOOLEAN, time : BOOLEAN, high : BOOLEAN, value : Nat]

Setup == [stakeholders : SUBSET Keys, managers : SUBSET Keys, threshold : Nat,
          cosigners : SUBSET Keys, csv : Csv]

ASSUME DescriptorAssumption ==
  /\ IsFiniteSet(Keys) /\ Kind \in [Keys -> Kinds]
  /\ Setups \subseteq Setup

ASSUME AgesAssumption == Ages \subseteq [blocks : Nat, time : Nat]

VARIABLES
  held,  \* the descriptor at hand, if any
  ret    \* what the last call returned

vars == <<held, ret>>

Types == {"Deposit", "Unvault", "Cpfp"}

\* type: the Rust type; policy: the policy it holds, that of "setup".
Descriptor == [type : Types, policy : Types, derived : BOOLEAN, setup : Setup]
-----------------------------------------------------------------------------
(* Policies *)

Reached(n, subs) == Cardinality({i \in DOMAIN subs : subs[i]}) >= n

\* BIP 68 and BIP 112.
LockMet(csv, age) ==
  \/ csv.disabled
  \/ csv.time /\ age.time >= csv.value
  \/ ~csv.time /\ age.blocks >= csv.value

KeyNode(k) == [node |-> "key", key |-> k]
OlderNode(csv) == [node |-> "older", csv |-> csv]
ThreshNode(n, subs) == [node |-> "thresh", k |-> n, subs |-> subs]

\* normalized(): a conjunction takes in the conjunctions below it, a disjunction
\* the disjunctions, and a threshold over one policy is that policy.
Normalized(n, subs) ==
  LET nodes == {subs[i] : i \in DOMAIN subs}
      isAnd == n = Cardinality(nodes)
      isOr == n = 1
      merged(s) ==
        /\ s.node = "thresh"
        /\ isAnd # isOr
        /\ s.k = IF isAnd THEN Cardinality(s.subs) ELSE 1
      flat == UNION {IF merged(s) THEN s.subs ELSE {s} : s \in nodes}
  IN  IF Cardinality(flat) = 1
      THEN CHOOSE s \in flat : TRUE
      ELSE ThreshNode(IF isAnd THEN Cardinality(flat) ELSE n, flat)

\* A policy is read as a script, by what its signers reach at an age of the output,
\* or as the policy lifted from it.
Script(signers, age) == [as |-> "script", signers |-> signers, age |-> age]
LiftedPolicy == [as |-> "lifted"]

Thresh(reading, n, subs) ==
  IF reading.as = "script" THEN Reached(n, subs) ELSE Normalized(n, subs)
Pk(reading, k) == IF reading.as = "script" THEN k \in reading.signers ELSE KeyNode(k)
Older(reading, csv) ==
  IF reading.as = "script" THEN LockMet(csv, reading.age) ELSE OlderNode(csv)

Of(reading, n, keys) == Thresh(reading, n, [k \in keys |-> Pk(reading, k)])
All(reading, keys) == Of(reading, Cardinality(keys), keys)
And(reading, a, b) == Thresh(reading, 2, <<a, b>>)
Or(reading, a, b) == Thresh(reading, 1, <<a, b>>)

\* Mutant: with cosigning servers the delay is forgotten.
UnvaultPolicyNoCsv(reading, p) ==
  LET spenders == Of(reading, p.threshold, p.managers) IN
  Or(reading,
     All(reading, p.stakeholders),
     And(reading, spenders,
         IF p.cosigners = {} THEN Older(reading, p.csv) ELSE All(reading, p.cosigners)))

UnvaultPolicy(reading, p) ==
  LET spenders == Of(reading, p.threshold, p.managers)
      csv == Older(reading, p.csv)
  IN  Or(reading,
         All(reading, p.stakeholders),
         IF p.cosigners = {}
         THEN And(reading, spenders, csv)
         ELSE And(reading, spenders, And(reading, All(reading, p.cosigners), csv)))

Policy(reading, d) ==
  CASE d.policy = "Deposit" -> All(reading, d.setup.stakeholders)
    [] d.policy = "Unvault" -> UnvaultPolicy(reading, d.setup)
    [] d.policy = "Cpfp" -> Of(reading, 1, d.setup.managers)

\* Do the signatures of "signers" spend the output of d at this age?
CanSpend(d, signers, age) == Policy(Script(signers, age), d)

Lifted(d) == Policy(LiftedPolicy, d)
-----------------------------------------------------------------------------
(* Calls *)

Deriveable(keys) == \A k \in keys : Kind[k] \in {"wildcard", "hardened"}

\* deposit_desc_checks!
DepositError(p, derived) ==
  IF Cardinality(p.stakeholders) < 2 THEN "BadParameters"
  ELSE IF ~derived /\ ~Deriveable(p.stakeholders) THEN "NonWildcardKeys"
  ELSE "None"

\* Mutant: the type of the lock is not looked at.
CleanBlocksAnyType(csv) == ~csv.disabled /\ ~csv.high

\* Mutant: the disable flag is not looked at.
CleanBlocksDisabled(csv) == ~csv.time /\ ~csv.high

\* A timelock that is on, in blocks, and has no other bit set.
CleanBlocks(csv) == ~csv.disabled /\ ~csv.time /\ ~csv.high

\* unvault_desc_checks!
UnvaultChecks(p) ==
  /\ p.stakeholders # {} /\ p.managers # {}
  /\ p.cosigners = {} \/ Cardinality(p.cosigners) = Cardinality(p.stakeholders)
  /\ p.threshold <= Cardinality(p.managers)
  /\ CleanBlocks(p.csv)

\* miniscript refuses a key used twice, a threshold of zero and an older(0).
Compiles(p) ==
  /\ p.stakeholders \cap p.managers = {}
  /\ p.cosigners \cap (p.stakeholders \cup p.managers) = {}
  /\ p.threshold # 0 /\ p.csv.value # 0

UnvaultError(p, derived) ==
  IF ~UnvaultChecks(p) THEN "BadParameters"
  ELSE IF ~derived /\ ~Deriveable(p.stakeholders \cup p.managers) THEN "NonWildcardKeys"
  ELSE IF ~Compiles(p) THEN "PolicyCompilation"
  ELSE "None"

\* A multi() has 1 to 20 keys.
CpfpError(p, derived) ==
  IF ~derived /\ ~Deriveable(p.managers) THEN "NonWildcardKeys"
  ELSE IF Cardinality(p.managers) \notin 1..20 THEN "PolicyCompilation"
  ELSE "None"

NoCall == [op |-> "None", err |-> "None", value |-> {}]

Init == held = {} /\ ret = NoCall

\* A behaviour is the life of one descriptor.
New(type, p, derived, err) ==
  /\ held = {}
  /\ held' = IF err = "None"
              THEN {[type |-> type, policy |-> type, derived |-> derived, setup |-> p]}
              ELSE {}
  /\ ret' = [op |-> "New", err |-> err, value |-> {}]

NewDeposit(p, derived) == New("Deposit", p, derived, DepositError(p, derived))
NewUnvault(p, derived) == New("Unvault", p, derived, UnvaultError(p, derived))
NewCpfp(p, derived) == New("Cpfp", p, derived, CpfpError(p, derived))

KeysOf(d) ==
  CASE d.policy = "Deposit" -> d.setup.stakeholders
    [] d.policy = "Unvault" ->
         d.setup.stakeholders \cup d.setup.managers \cup d.setup.cosigners
    [] d.policy = "Cpfp" -> d.setup.managers

\* Only xpubs are derived; the expect is on a hardened step of an xpub.
DerivePanics(d) == \E k \in KeysOf(d) : Kind[k] = "hardened"

Derive(d) ==
  /\ ~d.derived
  /\ IF DerivePanics(d)
     THEN held' = held /\ ret' = [op |-> "Derive", err |-> "Panic", value |-> {}]
     ELSE /\ held' = {[d EXCEPT !.derived = TRUE]}
          /\ ret' = [op |-> "Derive", err |-> "None", value |-> {}]

\* The keys in the string of d, as DescriptorPublicKey reads them: a derived key is
\* a raw key with an origin.
KindsRead(d) == {IF d.derived THEN "single" ELSE Kind[k] : k \in KeysOf(d)}

\* Mutant: raw cosigner keys are refused as in the other descriptors.
ParseErrorSingle(type, derived, d) ==
  IF derived THEN IF d.derived THEN "None" ELSE "DerivedKeyParsing"
  ELSE IF ~(KindsRead(d) \subseteq {"wildcard", "hardened"}) THEN "NonWildcardKeys"
  ELSE "None"

\* Mutant: a descriptor of raw keys only passes for a generic one.
ParseErrorNoXpub(type, derived, d) ==
  IF derived THEN IF d.derived THEN "None" ELSE "DerivedKeyParsing"
  ELSE IF type = "Unvault"
  THEN IF "xpub" \in KindsRead(d) THEN "NonWildcardKeys" ELSE "None"
  ELSE IF ~(KindsRead(d) \subseteq {"wildcard", "hardened"}) THEN "NonWildcardKeys"
  ELSE "None"

\* from_str of the string of d, whatever output that describes: it does not look at
\* the policy.  An xpub never reads as a derived key, and every generic descriptor
\* has one.
ParseError(type, derived, d) ==
  IF derived THEN IF d.derived THEN "None" ELSE "DerivedKeyParsing"
  ELSE IF type = "Unvault"
  THEN IF "xpub" \in KindsRead(d) THEN "NonWildcardKeys"
       ELSE IF KindsRead(d) \subseteq {"single"} THEN "NoXpub"
       ELSE "None"
  ELSE IF ~(KindsRead(d) \subseteq {"wildcard", "hardened"}) THEN "NonWildcardKeys"
  ELSE "None"

FromStr(type, derived, d) ==
  LET err == ParseError(type, derived, d) IN
  /\ held' = IF err = "None" THEN {[d EXCEPT !.type = type, !.derived = derived]} ELSE held
  /\ ret' = [op |-> "FromStr", err |-> err, value |-> {}]

\* A read of an Unvault descriptor; "panics" if an expect or an assertion fails.
Read(d, op, panics, value) ==
  /\ d.type = "Unvault"
  /\ ret' = [op |-> op, err |-> IF panics THEN "Panic" ELSE "None",
             value |-> IF panics THEN {} ELSE value]
  /\ UNCHANGED held

CsvValue(d) == Read(d, "CsvValue", d.policy # "Unvault", {d.setup.csv.value})

\* The branch of the managers.
CsvBranch(s) ==
  /\ s.node = "thresh" /\ s.k = Cardinality(s.subs)
  /\ \E sub \in s.subs : sub.node = "older"

ManagersThresholdPanics(policy) ==
  ~ /\ policy.node = "thresh" /\ policy.k = 1 /\ Cardinality(policy.subs) = 2
    /\ \E s \in policy.subs : CsvBranch(s)

\* Mutant: the branches themselves are taken for the threshold of the managers.
ThresholdInBranches(policy) ==
  {s.k : s \in {s \in policy.subs : s.node = "thresh"}}

\* Mutant: where the managers' keys are flattened, the keys beside the lock are counted.
ThresholdInFlattened(policy) ==
  UNION {LET threshs == {sub \in s.subs : sub.node = "thresh"} IN
         IF threshs = {} THEN {s.k - 1} ELSE {sub.k : sub \in threshs} :
           s \in {s \in policy.subs : CsvBranch(s)}}

\* Some(k) as {k}, None as {}.
ThresholdIn(policy) ==
  UNION {{sub.k : sub \in {sub \in s.subs : sub.node = "thresh"}} :
           s \in {s \in policy.subs : CsvBranch(s)}}

ManagersThreshold(d) ==
  LET policy == Lifted(d)
      panics == ManagersThresholdPanics(policy)
  IN  Read(d, "ManagersThreshold", panics, IF panics THEN {} ELSE ThresholdIn(policy))

Next ==
  \/ \E p \in Setups, derived \in BOOLEAN :
       NewDeposit(p, derived) \/ NewUnvault(p, derived) \/ NewCpfp(p, derived)
  \/ \E d \in held :
       \/ Derive(d)
       \/ \E type \in Types, derived \in BOOLEAN : FromStr(type, derived, d)
       \/ CsvValue(d)
       \/ ManagersThreshold(d)

Spec == Init /\ [][Next]_vars
-----------------------------------------------------------------------------
\* There is at most one descriptor and what is read from it is at most one number.
TypeOK ==
  /\ held \in SUBSET Descriptor
  /\ \A d, e \in held : d = e
  /\ ret.value \in SUBSET Nat
  /\ \A m, n \in ret.value : m = n

\* A deposit moves only when every stakeholder signs, and they can spend it and the
\* Unvault output at any time.  Anybody else needs the Unvault output, its whole
\* delay in blocks, a manager and every cosigning server (scripts.rs: policies and
\* checks of the constructors, also after derivation and parsing).
Custody ==
  \A d \in held, signers \in SUBSET Keys, age \in Ages :
    d.policy # "Cpfp" =>
      \/ d.setup.stakeholders \subseteq signers /\ CanSpend(d, signers, age)
      \/ ~(d.setup.stakeholders \subseteq signers) /\ ~CanSpend(d, signers, age)
      \/ /\ d.policy = "Unvault"
         /\ age.blocks >= d.setup.csv.value /\ d.setup.csv.value >= 1
         /\ d.setup.managers \cap signers # {}
         /\ d.setup.cosigners \subseteq signers

\* managers_threshold() is the number of managers that the script asks for along
\* with the delay and the cosigning servers, None when it asks for all of them
\* (scripts.rs:1666).
ThresholdReadsBack ==
  ret.op = "ManagersThreshold" /\ ret.err = "None" =>
    \A d \in held :
      LET p == d.setup
          all == Cardinality(p.managers)
          asked == IF ret.value = {} THEN {all} ELSE ret.value
          age == [blocks |-> p.csv.value, time |-> 0]
      IN  /\ ret.value # {all}
          /\ \A signers \in SUBSET p.managers, n \in asked :
               CanSpend(d, signers \cup p.cosigners, age) <=> Cardinality(signers) >= n

\* A Spend whose input has the sequence csv_value() waits for exactly the blocks
\* that the script asks for (unvault.rs:171).
DelayReadsBack ==
  ret.op = "CsvValue" /\ ret.err = "None" =>
    \A d \in held, v \in ret.value :
      \A s \in d.setup.stakeholders :
        /\ CanSpend(d, Keys \ {s}, [blocks |-> v, time |-> 0])
        /\ ~CanSpend(d, Keys \ {s}, [blocks |-> v - 1, time |-> 0])

\* The branches that managers_threshold() asserts ("The Unvault descriptor is always
\* of the form 'or(mans_branch, stks_branch)'", scripts.rs:518) are those of every
\* Unvault policy, and not of a Deposit or CPFP descriptor whose string was parsed as
\* one of the Unvault: of these it panics rather than return a number.
ThresholdOfUnvaultsOnly ==
  ret.op = "ManagersThreshold" =>
    \A d \in held : ret.err = "None" <=> d.policy = "Unvault"

\* new() takes a plain xpub as the key of a cosigning server (scripts.rs:653) and
\* from_str() refuses it (scripts.rs:691): whatever was derived, parsed or mixed up, a
\* descriptor is read back from its own string if it is derived or has no such key, and
\* only then, so not every backup (scripts.rs:13) can be restored.
RoundTrips ==
  \A d \in held :
    ParseError(d.type, d.derived, d) = "None"
      <=> d.derived \/ \A k \in KeysOf(d) : Kind[k] # "xpub"

\* No string of a derived descriptor is a generic one, or the other way around,
\* whatever the output (scripts.rs:1255).
GenericOrDerived ==
  \A d \in held, type \in Types : ParseError(type, ~d.derived, d) # "None"
=============================================================================
