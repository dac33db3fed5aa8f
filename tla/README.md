# Verification of revault_tx

`revault_tx` builds, signs, checks and serializes the transactions of a Revault
vault: coins deposited by N stakeholders, which managers may spend after a delay
through an Unvault transaction and which every stakeholder can pull back
meanwhile.  The library runs no process of its own.  What is hard about it is
that several participants hold values of it, call it in any order, exchange
signatures and serialized transactions, and rely on transactions presigned long
before: an amount, a sequence or a sighash type that is wrong is noticed on the
day coins have to be moved.

This directory models the library in TLA+, checks the models with TLC on small
instances and proves the properties that matter most with TLAPS.

## 1. Inventory

| Component | State | Operations | Interacts with |
|---|---|---|---|
| Script descriptors (`scripts.rs`) | a descriptor: keys, thresholds, CSV | `new`, `from_str`, `derive`, `csv_value`, `managers_threshold`, `EmergencyAddress::from` | gives txouts their scripts, keys and weights |
| Inputs and outputs (`txins.rs`, `txouts.rs`) | outpoint, value, script, sequence | constructors, `max_sat_weight` | arguments of the transactions |
| Unvault, Cancel, Emergency, UnvaultEmergency, Spend (`transactions/*.rs`) | a PSBT | `new`, `from_raw_psbt`, `add_*_sig`, `spend_unvault_txin`, `revault_unvault_txin`, `deposit_txin` | each is built from an output of another |
| PSBT life cycle (`RevaultTransaction`, `mod.rs`) | fields of the PSBT inputs: witness script, sighash type, partial signatures, final witness | `signature_hash`, `add_signature`, `finalize`, `is_finalizable`, `is_finalized`, `is_valid`, serialization, `fees` | miniscript's finalizer, libbitcoinconsensus, secp256k1 |
| CPFPable transactions (`mod.rs`) | — | `cpfp_txin`, `max_feerate`, `max_weight` | trusts `is_finalized` |
| Chains (`mod.rs`) | — | `transaction_chain_manager`, `transaction_chain`, `spend_tx_from_deposits` | calls the constructors on each other's results |
| CPFP (`cpfp.rs`) | the transaction being assembled, the coins left | `from_txins` | spends the CPFP outputs of Unvaults and Spends |
| Sanity checks (`utils.rs`) | — | `psbt_common_sanity_checks`, `psbt_fees`, `check_*_input` | every parser calls them; the fuzz targets (`fuzz/`) assert what they guarantee |
| Errors (`error.rs`) | — | conversions and wording | |

Behaviours that are hard to test, and that the properties aim at (all of them are
in `PROJECT.json`, at their lines):

- *partial failure*: `finalize()` works in place and may stop halfway; three
  other functions decide on one final input what holds of all;
- *interleaving*: signatures with `ALL | ANYONECANPAY` move between variants of a
  transaction; copies are cloned, parsed, signed and finalized by several
  participants in any order; on chain a Spend races with the revocation transactions
  of the same output, with and without their fee-bumping input;
- *unreliable input*: a parsed PSBT holds signatures nobody verified and fields that
  other software rewrote, and miniscript and the consensus library disagree about CSV;
- *references*: txids are computed before anything is signed, from a lock time, a
  sequence and a derivation index that are passed again and again;
- *numeric edges*: amounts subtracted with `expect`s that refer to a check made by
  another constructor; `u64` sums; thresholds that depend on script weights; the
  rounding of feerates;
- *sequences*: revaulting shrinks a deposit again and again;
- *liveness*: the coin selection loop must end.

What makes each component correct:

- life cycle: what `finalize()` accepts is valid and agreed to by the owners; no
  sequence of calls makes an assertion fail; a transaction parses back at every stage;
- constructors and chains: no panic, every escape open for a vaulted deposit,
  outputs independent of fee-bumping, amounts the parser accepts;
- parsers: they accept what the constructors return and nothing on which a later call
  fails, and no file still to be signed passes both for one that revokes and one that pays;
- the transactions together: coins move from place to place only as the wallet
  promises, and a Spend is never ahead of a revocation;
- CPFP: it ends, meets the target feerate with the fewest coins that beat it by a sat, never
  underflows;
- descriptors: coins move before the delay only with every stakeholder, after it
  only with enough managers and every cosigner; what is read back from a
  descriptor is what was put in.

## 2. Modules

| Module | Models | Kind |
|---|---|---|
| `RevaultPsbt` | PSBT life cycle of all transaction types | state machine |
| `MCRevaultPsbt` | its instances | model checking |
| `RevaultPsbtProofs` | invariants of it for every instance | proofs |
| `Constructors` | errors and amounts of the five constructors | operators |
| `ConstructorsProofs` | what a list of checks returns | proofs |
| `TransactionChain` | chains, revaulting, Spends: the amounts | state machine |
| `MCTransactionChain` | its instances | model checking |
| `TransactionChainProofs` | invariants of it for every instance | proofs |
| `PsbtParsing` | the parsers on files of other software, the fuzz targets | state machine |
| `MCPsbtParsing` | its instances | model checking |
| `PsbtParsingProofs` | what the parsers guarantee of every file, and accept of the library's own | proofs |
| `VaultPromise` | where the coins of a wallet may go, and when | abstract specification |
| `Vault` | outpoints, txids, signatures and the chain; refines `VaultPromise` | state machine |
| `MCVault` | its instance | model checking |
| `VaultProofs` | the refinement and the properties of `Vault` for every instance | proofs |
| `Descriptors` | constructors, policies, derivation and parsing of descriptors | state machine |
| `MCDescriptors` | its instances | model checking |
| `DescriptorsProofs` | custody, what is read back, parsing, and what has a threshold, for every setup | proofs |
| `CpfpFees` | weights, feerates and fees of a CPFP package | operators |
| `CpfpPromise` | what the doc of `from_txins` promises | abstract specification |
| `CpfpSelection` | the loop of `from_txins`; refines `CpfpPromise` | state machine |
| `MCCpfpSelection` | its instances | model checking |
| `SumProofs` | sums over sets and sequences of amounts | proofs |
| `CpfpSelectionProofs` | amounts, feerate, overpayment, standard size; the refinement step by step | proofs |

The system is modelled in layers that share the types of transaction and nothing else: who
signed what on which PSBT (`RevaultPsbt`), the amounts (`Constructors` and the two modules
above it), what refers to what and what the chain then accepts (`Vault`), the scripts
(`Descriptors`).  A property is stated in the layer that can break it.

### RevaultPsbt

A *copy* is one value of a transaction type that some participant holds; an action
is one call on one copy (the methods take `&mut self`, so a call is atomic).  A PSBT
is its transaction and one record per input: is the witness script there, the
sighash type, the partial signatures, is there a final witness and with which
signatures.  A signature is the record of what was signed, and `Digest` is what a
sighash commits to: with `ALL` the transaction and the input, with
`ALL | ANYONECANPAY` the output spent and the outputs created, where `Vout` stands for all
that the variants of one transaction share (outputs, version, lock time, sequence of
the input).  `pool` holds the signatures made so far: any participant may use any of
them at any time, twice, late or never, on any copy.

`Branches` gives each script's ways of being satisfied: for an Unvault, all the
stakeholders, or the managers (and cosigners) with a CSV.  `SequenceMeetsCsv` is the
sequence each constructor gives the input that spends the Unvault txo.

`AddSignatureError` follows the early returns, expects and asserts of
`add_signature()` in their order; a failed expect is the result `"Panic"`.  `finalize()`
is miniscript's function (external: it satisfies input after input out of unverified
partial signatures, wipes the other fields, stops at the first failure without
undoing anything and interprets the scripts at the end) followed by
`verify_inputs()`.  `Load` is serialization and parsing, `LoadForeign` parsing a PSBT
in which other software put a signature.  Three constants let a run choose the environment: `LaxOlder`
(does miniscript take a disabled sequence for a met CSV: its finalizer and interpreter
compare it without looking at the disable bit), `ForeignPsbts`, and `CallersCheck` (do
callers test `is_finalizable()` before `finalize()`).

Left out: the numeric content of scripts, signatures with a malformed DER, sighash
types other than the two the library sets.

### Constructors, TransactionChain

`XError` is the error of the constructor `X::new`, in the order of its early returns and
assertions (`"Panic"` when an expect or an assert fails), and `XTx` what it returns.  The
constants of the code are those of the source.  Scripts enter by `DepositSat` and
`UnvaultSat`, the weight of the satisfaction of a Deposit and of an Unvault txo.

The state of `TransactionChain` is, for each vault, the value of its deposit and the
transactions built on top of it, as amounts; the last Spend; the result of the last call.
`Revault` is a confirmed Cancel: its output becomes the deposit and everything starts
again.  `SpendTxFromDeposits` rebuilds the Unvaults like the code and adds values modulo
`U64`.  Left out: txids, lock times and derivation indexes, which `Vault` has.

### PsbtParsing

A file is a PSBT that a constructor returned: `MadeFiles` is what the constructors make of
every combination of amounts.  Other software finalizes it, rewrites any field of an input,
of its outpoint or of an output, adds, drops and swaps inputs, adds and drops outputs, at
most `MaxEdits` times; after any of this `Fuzz` hands the file to all five parsers.
`CommonError` is `psbt_common_sanity_checks()`, `ParseError` what `from_raw_psbt()` of
each type checks next, both as lists of checks in their order, of which the first that
fails is the result.  On what is accepted `Driver` makes the calls of the fuzz target of that type
(`signature_hash`, `add_signature` with a signature that is not valid, `max_feerate`) and
evaluates its asserts; one that fails, or a panic inside the library, is `"Panic"`.

A script is known by what it is to the parsers: the witness script of the output spent,
another sane Miniscript, none, or not a sane Miniscript.  Left out: Miniscripts that are
sane and have no satisfaction, so that `max_satisfaction_weight()` has no value, and files whose
counts of inputs and PSBT inputs differ, which cannot be decoded.

### Vault, VaultPromise

`Vault` is the composition: stakeholders and managers build, sign and confirm all the
transactions of several deposits.  A txid is the transaction itself without witnesses, so
two transactions have the same txid only if all that is hashed is the same: this is what
`spend_tx_from_deposits()` relies on when it builds an Unvault again.  An output has a
script of a kind and a derivation index, an input an outpoint and one of the two sequences of
`txins.rs`.  `SpendUnvaultTxin`, `RevaultUnvaultTxin`, `CancelDeposit` and `CpfpTxins` are
the methods that return a reference to an output of a transaction.

`built` is all that the constructors returned, `signed` who signed which input of which of
them, `utxo` and `height` the chain, `coin` the output that holds the coins of each
funding transaction.  `Confirm` is the chain (external, modelled from the rules the code
relies on): lock time, BIP 68, scripts, and signatures that commit to what their sighash
type says.  Nothing is lost by leaving out reorganizations and the mempool: a transaction that
may be confirmed is confirmed at any later time or never.

`VaultPromise` says the same about coins only: deposited coins are unvaulted or go
to the Emergency address, unvaulted ones go back to a deposit, to the Emergency address,
or, after `Csv` blocks, out.

Reductions: a Spend has one external output and a change output (`SpendTx` of the code
takes any, and `CpfpTxins` is tried with a change at another index); only presigned
revocation transactions are fee-bumped; callers pass the descriptor of the deposit's
own index, which is what `transaction_chain()` does.

### CpfpFees, CpfpPromise, CpfpSelection

One action is one iteration of the loop of `from_txins`: return with a change
output, return with an OP_RETURN, take the largest coin left, give up.
`CpfpPromise` says in one step what the result should be, quantifying over all the sets of
coins and all outputs; `CpfpSelection` is shown to implement it, with the loop's progress as stutters.
Both take weights and fees from `CpfpFees`, but the promise has a test of its own (`Meets`: what is paid
is no less than the target), where the loop has the code's two comparisons.  `Margin` is what
the coins have to be worth in excess of the target before a choice of them is taken.  With 0
(`DocPromise`) this is the doc of `from_txins`; the code compares with `>` (`cpfp.rs:155`) and keeps the promise
with a margin of one sat only (`Promise`), see section 5.

### Descriptors

A behaviour is the life of one descriptor: a constructor (of the generic or the
derived type) with its checks in order, then `derive`, `from_str` of its string, `csv_value`
and `managers_threshold` in any order.  `held` is the descriptor, `ret` what the last
call returned.  `UnvaultPolicy` is the policy of `unvault_desc!`, written once
and read in two ways: as a script it says which signatures spend the output at what age
(`CanSpend`), `Lifted` it is the normalized policy in which
`managers_threshold()` looks for the branch of the managers.  The properties compare the
two.  A `u32` given to `older()` is its flags and its 16 bits of value.  A vector of keys is
a set, so a key used twice is one that has two roles.

External: the compiler (its refusals are `Compiles`; the limits on the size of a script, which
the tests hit with 39 stakeholders, are left out), `normalized()`, BIP 68 and BIP 112.
Any string may be parsed as the descriptor of any output, since `from_str` does not look at
what the Miniscript is made for, and a key may have a hardened wildcard, on which `derive()` panics
(`DerivePanics`).  Two comments of the code say that neither matters; both are wrong (section 5).
`ThresholdOfUnvaultsOnly` says what is left: `managers_threshold()` returns on the
descriptors of Unvault outputs, whatever type they are held as a string of, and panics on all others.

## 3. Runs

| Run | Shows | Bounds |
|---|---|---|
| `Revocation` | `TypeOK`, `FinalizeOkIsValid`, `OwnersConsented`, `FinalizeFollowsIsFinalizable`, `FailedFinalizeIsPermanent`, `NoPanic` | one copy that changes hands, 3 transactions (Cancel, bumped Cancel, UnvaultEmergency), 4 keys, 8 signatures that may be asked for, among them wrong types, and wrong inputs |
| `BatchChecked` | `RoundTrips`, `EnoughSignaturesFinalize`, `NoPanic` when callers check first | two copies, 2 Spends of 2 Unvault txos, 6 signatures |
| `BatchMaxWeight` | finding: `NoPanic` is violated when callers do not check | as `BatchChecked` |
| `Chain` | `TypeOK`, `NoPanic`, `EscapesOpen`, `PresignedParse`, `BumpKeepsOutputs`, `RevaultedEscapes` | one vault, deposits one sat around each threshold, two revaults above and up to the maximum, fee-bumps below dust, ordinary and above MAX_MONEY; the weights of two stakeholders |
| `ChainPanic` | finding: `NoPanic` is violated for large scripts | satisfaction weights 4112 and 5055, those of about 38 stakeholders; the smallest deposit and one that pays for its Emergency |
| `SpendFees` | finding: `SpendFeesDefined` is violated | two vaults |
| `VaultRace` | `KeepsPromise` (refinement of `VaultPromise`), `ExitsSeen`, `EscapesOpen`, `SpendOpens`, `SpendFindsUnvault`, `CpfpFound`, `RevaultFindsDeposit`, `TypeOK` | two coins at indexes 1 and 2, one fee-bumping output, lock times 0 and 1, a delay of one block, three heights, two vaults, one Spend, one fee-bump |
| `Parsing` | `OwnParse`, `DriversHold`, `TypesApart`, `AcceptedAsBuilt`, `TypeOK` | every transaction of four deposits and three fee-bumps, Spends of up to two Unvaults with five lists of outputs, with or without change; finalized or not, two edits |
| `ParsingUnvault` | finding: `UnvaultDriverHolds` is violated | one deposit, one edit |
| `DescriptorCalls` | `TypeOK`, `Custody`, `ThresholdReadsBack`, `DelayReadsBack`, `ThresholdOfUnvaultsOnly`, `RoundTrips`, `GenericOrDerived` | 0 to 2 stakeholders, 0 to 3 managers, thresholds 0 to 3, no, one or two cosigners, a key in two roles, a stakeholder and a cosigner without wildcard, a manager with a hardened one, strings parsed as any type, CSV values 0 to 2 and each flag; every set of signers, ages around the delay |
| `CpfpBump` | `KeepsPromise` (refinement and termination), `FeerateAdded`, `OverpaymentBounded`, `StandardSize`, no underflow (`TypeOK`) | an Unvault, a Spend, two Unvaults; six feerates; all wallets of up to four coins of four values, among them one worth exactly the fees of a package |
| `CpfpExact` | finding: `CoversExactly` is violated | as `CpfpBump` |

Why these are enough.  Signatures are only compared by what they commit to, so two
variants of a transaction, one other transaction of the same outpoint and one
wrong signature of each kind show every case of `Verifies`; failures of
`finalize()` need one input before and one after the failing one to differ, two
inputs have both.  Amounts are compared with a handful of thresholds, and the instances
sit on each and next to it.

`VaultRace`: one Spend of two deposits needs two vaults; the lock times and indexes
each need one that matches and one that does not; a delay of one block has an age below
it, at it and, with three heights, above it.  Two vaults also suffice to vault a deposit, cancel and vault
it again, or to vault it twice with two lock times.  The run has 331 000 states and takes about
three minutes; every property of it is also proved without bounds.

`Parsing`: one edit breaks any single check; two are needed to turn the input of one
type into the input of another one and to swap it with a fee-bumping input.  The deposits
sit one sat below the fees of the Emergency, on each side of a dust Emergency, and on the
smallest that can be unvaulted; the outputs of the Spends are none, dust, the inputs' value,
and a sum that wraps around.  All its properties are also proved for any number of edits.

TLC's integers are 32 bits wide: `MAX_MONEY` and `2^64` are
scaled down, to 600 000 and 1 300 000 sats, and only compared with amounts; the proofs hold for
any value.

Deadlock is checked except for the CPFP runs, where the function returns, and the parsing runs, where
a file that was read is not read again and the edits are bounded.

Fairness is assumed in one place, `WF_vars(Next)` of `CpfpSelection`: a thread
inside the loop keeps running.  Nothing forces participants to call the library, miners to
confirm a transaction or other software to hand a file on, so the
other specifications have none, and `EscapesOpen` and `SpendOpens` say that a transaction can be
confirmed, not that it is.

## 4. Proofs

`RevaultPsbtProofs`.  `TypeOK` is not inductive with respect to what the properties
need: `IInv` adds that a final input has lost its other fields and a non-final
one has those of its constructor (`InputInv`), and that the final inputs are the first
ones (`FinalPrefix`), because miniscript goes through them in order.  From
`Invariance` (`Spec => []IInv`) follow `TypeCorrect`; `FinalizeOk`; `Consent`, from the
definition of a valid witness and the pool; `FailedFinalize`, since an input that is
final has no satisfaction any more; `FinalizeAnnounced`, because `is_finalizable()` is what
the finalizer does on a clone; and, for callers that test `is_finalizable()`
(`CallersCheck`), `CheckedRoundTrips` and `CheckedNoPanic`.  `SignaturesSuffice` needs that every
signature in a copy was verified (`Verified`), hence no PSBTs of other software, and a miniscript that does not
confuse the branches (`~LaxOlder`).  They hold for any
transactions, keys, scripts and number of copies.

`TransactionChainProofs`.  `BuiltInv` says that every transaction built for a vault is
the one its constructor makes of the present deposit and some fee-bump.
`FeeBumping`, `Cost` and, with `ConstructorsProofs` on what the first error of a list is,
`ChainTyped` follow for any weights; `Cost` (a revault costs the same whatever
the fee-bumping and the history) is not among the runs' properties.  `ChainNoPanic`, `Escapes`, `ChainParses`
and `RevaultedDepositEscapes` assume `Affordable`: that DUST_LIMIT pays for the
revocation transactions.  The code takes this for granted and checks it nowhere, and
`ChainPanic` shows what happens without it; it holds up to a satisfaction weight of about
2290 for an Unvault txo, around 15 stakeholders with their cosigners.

`DescriptorsProofs`.  `HeldValid` says that what the constructors checked remains true of a
descriptor while it is derived and parsed; parsing keeps it because a string never reads as
the other of generic and derived (`NeverTheOther`).  `UnvaultConditions` turns the
nested thresholds of the policy into signatures of all stakeholders, or of enough managers and
all cosigners after the delay.  `CustodyHolds`, `DelayReadExactly`, `ReadBack` and
`NeverConfused` follow for any keys, setups and ages, mix-ups of strings included.

`ThresholdReadExactly` compares the two readings of the policy.  `managers_threshold()` takes
the first branch of the normalized policy in which it finds a threshold of keys next to the delay;
normalizing merges conjunctions below a conjunction and disjunctions below a disjunction.
`UnvaultThreshold` goes through the shapes the policy can then have: the branch of the managers
always remains the only one with a delay, and its only threshold is the managers', or there
is none because all of them have to sign and their keys were merged into the branch (the
function returns `None`).  `ThresholdRead` carries this along the calls, and
`DescriptorsTyped` rests on it.  `ThresholdsAreUnvaults` is the same about panics: the asserts
of `managers_threshold()` hold on every descriptor of an Unvault and fail on every other, with no
hypothesis on keys or strings.

`PsbtParsingProofs`.  The invariant is that the file is a PSBT, whatever was done to
it (`FileOK`), and that the results are those of the file as it is.  One lemma per parser
says what it has checked of a file it accepts.  `NotMixed` is the induction along the
inputs that makes all of them final or none: the code compares each with the one before.  From
these follow `AcceptedFilesHold`, `FilesAcceptedAsBuilt`, `NoConfusion` and `FilesTyped`, for any
number of edits and any amounts.

`OwnFilesParse` goes the other way: what is accepted.  `OwnInv` says that a file nobody edited
has the form its constructor gave it, or the one the finalizer leaves (`AsMade`), and that its amounts
are those the parsers take (`AmountsAsMade`) unless it is one of the files `OwnParse` names.
`MadeAsMade` establishes it, constructor by constructor; `FinalizedAsMade` keeps it; `AsMadeAccepted`
goes through the parsers' checks one after the other.  The point is the amounts of a Spend.
`SpendTransaction::new()` compares sums that may have wrapped around and leaves the CPFP output out
of them, the parser computes them without wrapping.  The weight limit admits at most
2439 inputs, so what is spent fits a `u64`; if the parser's sum of the outputs is not above that, neither sum
wrapped, and what the constructor checked holds of the parser's sums (`SpendChecks`,
`SpendOutputs`).  The hypotheses are about the code's constants.  `CodeAmounts`: INSANE_FEES is no more than MAX_MONEY,
2439 times MAX_MONEY is below 2^64, a deposit is no more than MAX_MONEY.  `SmallFees`: DUST_LIMIT
pays for a Cancel and an UnvaultEmergency and leaves more than dust, which `Affordable` implies.  `CodeConstants` shows that they hold of 21 million coins and 64
bits, for satisfactions of an Unvault up to 2286 weight units.  The instance of the run scales
MAX_MONEY below INSANE_FEES and so satisfies the property without the first hypothesis.

`VaultProofs`.  The invariant has the shape of everything built (`ShapeInv`: what each
transaction spends and pays, down to the deposit), that chains are built whole, that a Spend is
signed on all its inputs, and the ledger: there is a set of confirmed transactions whose outputs and the
funded ones are all that was spent or can be (`Ledger`).  That confirming a transaction
never creates an output that was already spent follows from the ledger, since a txid
contains the outpoints it spends; no hash is assumed to be well-founded.  `Refinement`
(`Spec => KeepsPromise`) goes through what a confirmed transaction moves (`ConfirmMoves`): an
Unvault, Cancel or Emergency moves the coins of one deposit, a Spend those of all
its Unvaults, each at least `Csv` blocks old.  `ExitsAreSeen`, `EscapesAreOpen`,
`SpendsAreOpen`, `SpendUnvaultFound`, `CpfpOutputFound`, `DepositsFound` and `TypeCorrect` hold for any deposits,
indexes, lock times, delays and bounds.

`CpfpSelectionProofs`.  `NoUnderflow`: `fees_needed` is never negative, since the
feerate of the package is rounded up and its weight includes the transactions to bump; `Standard`:
`StandardSize` for every package and wallet.  `IInv` ties the result to the state in which the loop
returned (`Returned`); `AmountsTyped`, `Overpayment` and `FeerateIsAdded` follow from it, the last one with
`RoundedFeerate`, on the product of a weight and a feerate that was rounded up.

`SelectionKeepsPromise` is the safety half of the refinement: the result of the loop is one that
`CpfpPromise` allows, where the promise quantifies over all the sets of available coins.
`ChoiceInv` says that the coins taken so far are the largest ones, and that no choice of fewer
is worth enough; every iteration that does not return is a stutter.  The step that matters: when
the loop goes on with k coins, any other k are worth no more than
these (`LargestSum`), and `fees_needed` depends only on the number of coins, so no choice of k is worth
enough either.  When the loop gives up, this holds of all choices.  The promise asks for any output that
meets the target and the loop tests the cheapest one, the OP_RETURN (`SufficientIsEnough`); it is
proved with the margin of one sat, without which it is false.

`SumProofs` is the arithmetic both of these rest on.  The community modules define the sum over a
set by a fold that takes the elements in an arbitrary order, through a recursive function that is
defined by `CHOOSE`.  The module shows that such a function exists
(`IterationExists`) and is unique (`IterationsAgree`), hence that a sum can be unfolded (`SumFirst`), adds up element by
element in any order (`SumAdd`), is monotone, bounded, and largest on the largest elements.  The
provers cannot instantiate the induction theorems of the library, so
each induction is written as a minimal counterexample (`MinimalSet`, `WFMin` on the
naturals).

Only model-checked: liveness, that is the termination of the loop of `CpfpSelection` under
`WF_vars(Next)` (the other half of its `KeepsPromise`).

## 5. Findings

Five properties that a doc, a comment, an assertion or a fuzz target states and that the code does
not have: see `findings` in `PROJECT.json` and the runs with `expect` `violation`.
For callers: test `is_finalizable()` before `finalize()`, or
work on a clone (`BatchMaxWeight`); a wallet with many stakeholders
needs a larger minimum deposit than the library enforces (`ChainPanic`: with the scripts of 38
stakeholders an accepted deposit between about 337 000 and 465 000 sats has no UnvaultEmergency); a Spend has to be
funded including its CPFP output, which the constructor does not verify (`SpendFees`);
coins that cover the fees of the bump exactly do not count as enough: one more is taken, or
`InsufficientFunds` returned (`CpfpExact`); a final Unvault that was
parsed may spend a P2WPKH output (`ParsingUnvault`).

Other divergences, met while reading and without a run of their own:

- `UnvaultDescriptor::new` takes a plain xpub as the key of a cosigning server and `from_str` refuses
  it (`scripts.rs:691`), so that a wallet with one cannot be restored from the backup that
  `scripts.rs:13` recommends.  `RoundTrips` says of which descriptors this is so.
- The expect of `csv_value()` says "Unvault Miniscript always contains a CSV fragment"
  (`scripts.rs:495`), but `UnvaultDescriptor::from_str` accepts the string of a CPFP or Deposit
  output (`scripts.rs:687`): `csv_value()` and `managers_threshold()` of it panic.
  `ThresholdOfUnvaultsOnly` says so of the latter.  Callers: parse a string only as the type it was printed
  from.
- The expect of `derive()` says "All pubkeys are derived, no wildcard." (`scripts.rs:192`), but an xpub
  with a hardened wildcard passes `check_deriveable()` (`scripts.rs:361`), and `derive()` panics.
- `mod.rs:361` says that final and non-final inputs are never mixed: `BatchMaxWeight` is a
  consequence of a `finalize()` that mixes them.
- `SpendTransaction::new` sums output values with an unchecked `+=` before it compares them
  with MAX_MONEY, so a release build can wrap (`ValueOut` does); the parser refuses the result
  (`OwnParse`).
- `mod.rs:56` says of DUST_LIMIT that no presigned transaction has an output below it, but only
  the Unvault constructor tests it: the Cancel of the smallest deposit is below, and an Emergency
  may leave less than a dust output, which its own parser refuses.
- `cpfp.rs:124` adds one sat per weight unit to the feerate of the transactions to bump, where
  `max_feerate()` rounds up with `weight - 1`, so the package pays up to 1000 sats per 1000
  weight units more than was asked (`FeerateAdded` has both bounds).
- `UnvaultTransaction::max_weight()` has a `FIXME` for the same `expect` as the Spend
  (`unvault.rs:266`).
- `cpfp_txin()` asserts that the derivation path of an output has length one (`mod.rs:491`), which
  no parser checks.
- The parsers of the revocation transactions tell them apart by their outputs at most: a
  Cancel parses as an Emergency or as an UnvaultEmergency, and, once final, as a Spend;
  a Spend of one input with a change output and no other parses as an Unvault.  `TypesApart` says
  what remains true: not while it is still to be signed, between revoking and paying.

## 6. Not modelled

Key derivation and key formats, base64 and serde, the wording of errors, the helpers of the
tests: conversions and random inputs without state.  Miniscript's compiler,
libbitcoinconsensus and secp256k1 are external: the models say what the library relies on.
`derive_transactions` of the test helpers calls constructors and parsers that the models have.

An outpoint given to `from_txins` both as a transaction to bump and as an available coin
is spent twice (`cpfp.rs:93`); the loop is modelled over values, and nothing in the code
compares the lists, so there is no property to state but that callers must not.

## 7. Plan

Done: `RevaultPsbt`, the life cycle; `Constructors` and `TransactionChain`, the amounts;
`CpfpSelection` against `CpfpPromise`; `Descriptors`; `PsbtParsing`, the parsers;
`Vault` against `VaultPromise`, the composition; each with its proofs.

Every invariant and action property of the runs is now also a theorem, for every value of the
constants, under the hypotheses named in section 4; `KeepsPromise` of `CpfpSelection` is one up to its liveness.

Left:

1. Files with mismatched counts and scripts without a satisfaction, if the parsers are
   ever given PSBTs that were not decoded from bytes.
2. The limits of the Miniscript compiler on the size of a script, which would bound the
   satisfaction weights that `Affordable` and `SmallFees` are hypotheses about.
