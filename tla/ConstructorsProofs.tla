-------------------------- MODULE ConstructorsProofs --------------------------
(***************************************************************************)
(* FirstError: the calls and checks of the code that are made in turn and     *)
(* stop at the first error.                                                  *)
(***************************************************************************)
EXTENDS Constructors, TLAPS, WellFoundedInduction

\* What the first error of n results is.
IsFirst(err, errs, n) ==
  /\ err = "None" => \A i \in 1..n : errs[i] = "None"
  /\ err # "None" =>
       \E j \in 1..n : errs[j] = err /\ \A i \in 1..(j - 1) : errs[i] = "None"

\* The first error of a sequence of results is one of them, and there is none
\* only if there is none anywhere.
LEMMA FirstErrorIn ==
  ASSUME NEW S, NEW n \in Nat, NEW errs \in [1..n -> S]
  PROVE  /\ FirstError(errs) \in S \cup {"None"}
         /\ IsFirst(FirstError(errs), errs, n)
<1> DEFINE failing == {i \in DOMAIN errs : errs[i] # "None"}
           less == {jk \in Nat \X Nat : jk[1] < jk[2]}
           first == CHOOSE i \in failing : \A j \in failing : i <= j
<1>1. FirstError(errs) = IF failing = {} THEN "None" ELSE errs[first]
  BY DEF FirstError
<1>2. DOMAIN errs = 1..n /\ \A i \in DOMAIN errs : errs[i] \in S
  OBVIOUS
<1>3. CASE failing = {}
  BY <1>1, <1>2, <1>3 DEF IsFirst
<1>4. CASE failing # {}
  <2>1. \E i \in failing : \A j \in failing : ~(<<j, i>> \in less)
    <3>1. failing \subseteq Nat
      BY <1>2
    <3> QED
      <4>1. IsWellFoundedOn(less, Nat)
        BY NatLessThanWellFounded DEF OpToRel
      <4> QED
        BY <3>1, <1>4, <4>1, WFMin
  <2>2. \E i \in failing : \A j \in failing : i <= j
    <3>1. PICK i \in failing : \A j \in failing : ~(<<j, i>> \in less)
      BY <2>1
    <3>2. ASSUME NEW j \in failing PROVE i <= j
      <4>1. i \in Nat /\ j \in Nat
        BY <1>2
      <4>2. j < i => <<j, i>> \in less
        BY <4>1
      <4> QED
        BY <4>1, <4>2, <3>1
    <3> QED
      BY <3>2
  <2>3. first \in failing /\ \A j \in failing : first <= j
    BY <2>2
  <2>4. FirstError(errs) = errs[first] /\ errs[first] # "None"
    BY <1>1, <1>4, <2>3
  <2>5. first \in 1..n /\ errs[first] \in S
    BY <1>2, <2>3
  <2>6. ASSUME NEW i \in 1..(first - 1) PROVE errs[i] = "None"
    <3>1. i \in 1..n /\ ~(first <= i)
      BY <2>5
    <3> QED
      BY <3>1, <2>3, <1>2
  <2> QED
    BY <2>4, <2>5, <2>6 DEF IsFirst
<1> QED
  BY <1>3, <1>4

\* The same for a sequence whose length is not told.
LEMMA FirstOfSeq ==
  ASSUME NEW S, NEW errs \in Seq(S)
  PROVE  /\ FirstError(errs) \in S \cup {"None"}
         /\ FirstError(errs) = "None" => \A i \in DOMAIN errs : errs[i] = "None"
<1>1. PICK n \in Nat : errs \in [1..n -> S]
  OBVIOUS
<1> QED
  BY <1>1, FirstErrorIn DEF IsFirst

LEMMA Least ==
  ASSUME NEW T, T \subseteq Nat, T # {}
  PROVE  \E n \in T : \A m \in T : n <= m
<1> DEFINE less == {mn \in Nat \X Nat : mn[1] < mn[2]}
<1>1. IsWellFoundedOn(less, Nat)
  BY NatLessThanWellFounded DEF OpToRel
<1>2. PICK n \in T : \A m \in T : ~(<<m, n>> \in less)
  BY <1>1, WFMin
<1>3. ASSUME NEW m \in T PROVE n <= m
  <2>1. m < n => <<m, n>> \in less
    OBVIOUS
  <2> QED
    BY <1>2, <2>1
<1> QED
  BY <1>3

\* The same for two results in a row, as in the functions that chain calls.
LEMMA FirstOfTwo ==
  ASSUME NEW a, NEW b
  PROVE  FirstError(<<a, b>>) = IF a # "None" THEN a ELSE b
<1> DEFINE errs == <<a, b>>
           S == {a, b}
<1>1. 2 \in Nat /\ errs \in [1..2 -> S] /\ errs[1] = a /\ errs[2] = b
  OBVIOUS
<1> HIDE DEF errs, S
<1>2. IsFirst(FirstError(errs), errs, 2)
  BY <1>1, FirstErrorIn
<1> QED
  BY <1>1, <1>2 DEF errs, S, IsFirst

LEMMA FirstOfThree ==
  ASSUME NEW a, NEW b, NEW c
  PROVE  FirstError(<<a, b, c>>) =
           IF a # "None" THEN a ELSE IF b # "None" THEN b ELSE c
<1> DEFINE errs == <<a, b, c>>
           S == {a, b, c}
<1>1. 3 \in Nat /\ errs \in [1..3 -> S] /\ errs[1] = a /\ errs[2] = b /\ errs[3] = c
  OBVIOUS
<1> HIDE DEF errs, S
<1>2. IsFirst(FirstError(errs), errs, 3)
  BY <1>1, FirstErrorIn
<1> QED
  BY <1>1, <1>2 DEF errs, S, IsFirst
=============================================================================
