------------------------------ MODULE SumProofs ------------------------------
(***************************************************************************)
(* Sums of amounts over finite sets of indices.  The library's fold takes the *)
(* elements of a set in an order it does not tell: the lemmas show that the   *)
(* order is indifferent, what one element adds, and that the sum over a       *)
(* choice of the largest amounts is the largest sum.  Induction on a finite   *)
(* set is on a counterexample none of whose proper subsets is one.            *)
(***************************************************************************)
EXTENDS Integers, SequencesExt, FiniteSetTheorems, TLAPS

LEMMA MultMonotone ==
  ASSUME NEW a \in Nat, NEW b \in Nat, NEW c \in Nat, NEW d \in Nat, a <= c, b <= d
  PROVE  a * b \in Nat /\ c * d \in Nat /\ a * b <= c * d
<1>1. PICK x \in Nat : c = a + x
  <2>1. c - a \in Nat /\ c = a + (c - a)
    OBVIOUS
  <2> QED
    BY <2>1
<1>2. PICK y \in Nat : d = b + y
  <2>1. d - b \in Nat /\ d = b + (d - b)
    OBVIOUS
  <2> QED
    BY <2>1
<1>3. a * b \in Nat /\ a * y \in Nat /\ x * b \in Nat /\ x * y \in Nat
  OBVIOUS
<1>4. c * d = a * b + a * y + x * b + x * y
  BY <1>1, <1>2, Z3
<1> QED
  BY <1>3, <1>4

LEMMA MinimalSet ==
  ASSUME NEW S, IsFiniteSet(S), NEW B \in SUBSET (SUBSET S), B # {}
  PROVE  \E T \in B : \A U \in B : U \subseteq T => U = T
<1>1. IsWellFoundedOn(StrictSubsetOrdering(S), SUBSET S)
  BY FS_StrictSubsetOrderingWellFounded, FS_FiniteSubsetsOfFinite
<1>2. PICK T \in B : \A U \in B : ~(<<U, T>> \in StrictSubsetOrdering(S))
  BY <1>1, WFMin
<1> QED
  BY <1>2 DEF StrictSubsetOrdering
-----------------------------------------------------------------------------
\* The element the fold takes first, and the function it computes on the subsets
\* of S.
First(s) == CHOOSE x \in s : TRUE
Iterates(u, S, iter) ==
  iter = [s \in SUBSET S |-> IF s = {} THEN 0 ELSE u[First(s)] + iter[s \ {First(s)}]]

Iteration(u, S) == CHOOSE iter : Iterates(u, S, iter)

LEMMA SumUnfolds ==
  ASSUME NEW u, NEW S
  PROVE  SumFunctionOnSet(u, S) = Iteration(u, S)[S]
BY DEF SumFunctionOnSet, FoldFunctionOnSet, MapThenFoldSet, Iteration, Iterates, First

\* Two such functions agree where both are defined.
LEMMA IterationsAgree ==
  ASSUME NEW u, NEW S, IsFiniteSet(S), NEW T \in SUBSET S, NEW f, NEW g,
         Iterates(u, S, f), Iterates(u, T, g)
  PROVE  \A s \in SUBSET T : f[s] = g[s]
<1> DEFINE B == {s \in SUBSET T : f[s] # g[s]}
<1> SUFFICES ASSUME B # {} PROVE FALSE
  OBVIOUS
<1>1. IsFiniteSet(T)
  BY FS_Subset
<1>2. PICK s \in B : \A r \in B : r \subseteq s => r = s
  <2> HIDE DEF B
  <2>1. B \in SUBSET (SUBSET T)
    BY DEF B
  <2> QED
    BY <1>1, <2>1, MinimalSet
<1>3. f[s] = IF s = {} THEN 0 ELSE u[First(s)] + f[s \ {First(s)}]
  BY DEF Iterates
<1>4. g[s] = IF s = {} THEN 0 ELSE u[First(s)] + g[s \ {First(s)}]
  BY DEF Iterates
<1>5. CASE s # {}
  <2>1. First(s) \in s
    BY <1>5 DEF First
  <2>2. f[s \ {First(s)}] = g[s \ {First(s)}]
    BY <1>2, <2>1
  <2> QED
    BY <1>2, <1>3, <1>4, <1>5, <2>2
<1> QED
  BY <1>2, <1>3, <1>4, <1>5

\* Where the iteration exists, the sum does what its definition says.
LEMMA StepIfIterates ==
  ASSUME NEW u, NEW S, IsFiniteSet(S), S # {},
         \A T \in SUBSET S : \E iter : Iterates(u, T, iter)
  PROVE  SumFunctionOnSet(u, S)
           = u[First(S)] + SumFunctionOnSet(u, S \ {First(S)})
<1>1. ASSUME NEW R \in SUBSET S
      PROVE  Iteration(u, S)[R] = SumFunctionOnSet(u, R)
  <2>1. Iterates(u, S, Iteration(u, S)) /\ Iterates(u, R, Iteration(u, R))
    BY DEF Iteration
  <2>2. ASSUME NEW f, NEW g, Iterates(u, S, f), Iterates(u, R, g)
        PROVE  f[R] = g[R]
    BY <2>2, IterationsAgree, Z3
  <2> QED
    BY <2>1, <2>2, SumUnfolds
<1>2. Iterates(u, S, Iteration(u, S))
  BY DEF Iteration
<1>3. Iteration(u, S)[S] = u[First(S)] + Iteration(u, S)[S \ {First(S)}]
  BY <1>2 DEF Iterates
<1> QED
  BY <1>1, <1>3, SumUnfolds

LEMMA IterationExists ==
  ASSUME NEW u, NEW S, IsFiniteSet(S)
  PROVE  \E iter : Iterates(u, S, iter)
<1> DEFINE B == {T \in SUBSET S : ~ \E iter : Iterates(u, T, iter)}
<1> SUFFICES ASSUME B # {} PROVE FALSE
  OBVIOUS
<1>1. PICK T \in B : \A U \in B : U \subseteq T => U = T
  <2> HIDE DEF B
  <2>1. B \in SUBSET (SUBSET S)
    BY DEF B
  <2> QED
    BY <2>1, MinimalSet
<1>2. IsFiniteSet(T)
  BY FS_Subset
<1> DEFINE iter == [s \in SUBSET T |->
                      IF s = {} THEN 0
                      ELSE u[First(s)] + SumFunctionOnSet(u, s \ {First(s)})]
<1>3. ASSUME NEW s \in SUBSET T, s # T
      PROVE  iter[s] = SumFunctionOnSet(u, s)
  <2>1. \A r \in SUBSET s : \E f : Iterates(u, r, f)
    BY <1>1, <1>3
  <2>2. CASE s = {}
    <3>1. Iterates(u, {}, Iteration(u, {}))
      BY <2>1, <2>2 DEF Iteration
    <3> QED
      BY <2>2, <3>1, SumUnfolds DEF Iterates
  <2>3. CASE s # {}
    <3>1. IsFiniteSet(s)
      BY <1>2, FS_Subset
    <3> QED
      BY <2>1, <2>3, <3>1, StepIfIterates
  <2> QED
    BY <2>2, <2>3
<1>4. ASSUME NEW s \in SUBSET T, s # {}
      PROVE  iter[s \ {First(s)}] = SumFunctionOnSet(u, s \ {First(s)})
  <2>1. First(s) \in s
    BY <1>4 DEF First
  <2>2. s \ {First(s)} \in SUBSET T /\ s \ {First(s)} # T
    BY <2>1
  <2> HIDE DEF iter
  <2> QED
    BY <1>3, <2>2
<1>5. iter = [s \in SUBSET T |-> IF s = {} THEN 0 ELSE u[First(s)] + iter[s \ {First(s)}]]
  <2>1. iter = [s \in SUBSET T |-> iter[s]]
    OBVIOUS
  <2>2. \A s \in SUBSET T :
          iter[s] = IF s = {} THEN 0 ELSE u[First(s)] + iter[s \ {First(s)}]
    BY <1>4
  <2> HIDE DEF iter
  <2> QED
    BY <2>1, <2>2
<1> QED
  <2>1. Iterates(u, T, iter)
    BY <1>5 DEF Iterates
  <2> QED
    BY <1>1, <2>1
-----------------------------------------------------------------------------
LEMMA SumEmpty ==
  ASSUME NEW u
  PROVE  SumFunctionOnSet(u, {}) = 0
<1>1. Iterates(u, {}, Iteration(u, {}))
  BY FS_EmptySet, IterationExists DEF Iteration
<1> QED
  BY <1>1, SumUnfolds DEF Iterates

LEMMA SumFirst ==
  ASSUME NEW u, NEW S, IsFiniteSet(S), S # {}
  PROVE  /\ First(S) \in S
         /\ SumFunctionOnSet(u, S) = u[First(S)] + SumFunctionOnSet(u, S \ {First(S)})
<1>1. \A T \in SUBSET S : \E iter : Iterates(u, T, iter)
  BY FS_Subset, IterationExists
<1> QED
  BY <1>1, StepIfIterates DEF First

\* A property of the sum over any subset of S has its smallest counterexample.
LEMMA SumInt ==
  ASSUME NEW u, NEW S, IsFiniteSet(S), \A x \in S : u[x] \in Int
  PROVE  SumFunctionOnSet(u, S) \in Int
<1> DEFINE B == {T \in SUBSET S : SumFunctionOnSet(u, T) \notin Int}
<1> SUFFICES ASSUME B # {} PROVE FALSE
  OBVIOUS
<1>1. PICK T \in B : \A U \in B : U \subseteq T => U = T
  <2> HIDE DEF B
  <2>1. B \in SUBSET (SUBSET S)
    BY DEF B
  <2> QED
    BY <2>1, MinimalSet
<1>2. T \in SUBSET S /\ SumFunctionOnSet(u, T) \notin Int
  BY <1>1
<1>3. T # {} /\ IsFiniteSet(T)
  <2>1. SumFunctionOnSet(u, {}) = 0
    BY SumEmpty
  <2>2. IsFiniteSet(T)
    BY <1>2, FS_Subset
  <2> QED
    BY <1>2, <2>1, <2>2
<1>4. /\ First(T) \in T
      /\ SumFunctionOnSet(u, T) = u[First(T)] + SumFunctionOnSet(u, T \ {First(T)})
  BY <1>3, SumFirst
<1>5. SumFunctionOnSet(u, T \ {First(T)}) \in Int
  BY <1>1, <1>2, <1>4
<1> QED
  BY <1>2, <1>4, <1>5

\* The order is indifferent: any element may be added last.
LEMMA SumRemove ==
  ASSUME NEW u, NEW S, IsFiniteSet(S), \A x \in S : u[x] \in Int, NEW y \in S
  PROVE  SumFunctionOnSet(u, S) = u[y] + SumFunctionOnSet(u, S \ {y})
<1> DEFINE Splits(T, z) == SumFunctionOnSet(u, T) = u[z] + SumFunctionOnSet(u, T \ {z})
           B == {T \in SUBSET S : \E z \in T : ~Splits(T, z)}
<1> SUFFICES ASSUME B # {} PROVE FALSE
  OBVIOUS
<1>1. PICK T \in B : \A U \in B : U \subseteq T => U = T
  <2> HIDE DEF B
  <2>1. B \in SUBSET (SUBSET S)
    BY DEF B
  <2> QED
    BY <2>1, MinimalSet
<1>2. PICK z \in T : ~Splits(T, z)
  BY <1>1
<1> DEFINE x == First(T)
           rest == T \ {x, z}
<1>3. /\ T # {} /\ IsFiniteSet(T) /\ T \subseteq S
      /\ x \in T /\ Splits(T, x)
  BY <1>2, FS_Subset, SumFirst
<1>4. x # z
  BY <1>2, <1>3
<1> HIDE DEF x
<1>5. Splits(T \ {x}, z) /\ (T \ {x}) \ {z} = rest
  BY <1>1, <1>2, <1>3, <1>4
<1>6. Splits(T \ {z}, x) /\ (T \ {z}) \ {x} = rest
  BY <1>1, <1>2, <1>3, <1>4
<1>7. SumFunctionOnSet(u, rest) \in Int /\ u[x] \in Int /\ u[z] \in Int
  <2>1. IsFiniteSet(rest) /\ rest \subseteq S
    BY <1>3, FS_Subset
  <2> HIDE DEF rest
  <2> QED
    BY <1>2, <1>3, <2>1, SumInt
<1> HIDE DEF rest
<1>8. /\ SumFunctionOnSet(u, T) = u[x] + (u[z] + SumFunctionOnSet(u, rest))
      /\ SumFunctionOnSet(u, T \ {z}) = u[x] + SumFunctionOnSet(u, rest)
  BY <1>3, <1>5, <1>6
<1> QED
  BY <1>2, <1>7, <1>8

LEMMA SumNat ==
  ASSUME NEW u, NEW S, IsFiniteSet(S), \A x \in S : u[x] \in Nat
  PROVE  SumFunctionOnSet(u, S) \in Nat
<1> DEFINE B == {T \in SUBSET S : SumFunctionOnSet(u, T) \notin Nat}
<1> SUFFICES ASSUME B # {} PROVE FALSE
  OBVIOUS
<1>1. PICK T \in B : \A U \in B : U \subseteq T => U = T
  <2> HIDE DEF B
  <2>1. B \in SUBSET (SUBSET S)
    BY DEF B
  <2> QED
    BY <2>1, MinimalSet
<1>2. T \in SUBSET S /\ SumFunctionOnSet(u, T) \notin Nat
  BY <1>1
<1>3. T # {} /\ IsFiniteSet(T)
  <2>1. SumFunctionOnSet(u, {}) = 0
    BY SumEmpty
  <2>2. IsFiniteSet(T)
    BY <1>2, FS_Subset
  <2> QED
    BY <1>2, <2>1, <2>2
<1>4. /\ First(T) \in T
      /\ SumFunctionOnSet(u, T) = u[First(T)] + SumFunctionOnSet(u, T \ {First(T)})
  BY <1>3, SumFirst
<1>5. SumFunctionOnSet(u, T \ {First(T)}) \in Nat
  BY <1>1, <1>2, <1>4
<1> QED
  BY <1>2, <1>4, <1>5

\* The total of a sequence of amounts.
LEMMA TotalNat ==
  ASSUME NEW s \in Seq(Nat)
  PROVE  FoldSeq(+, 0, s) \in Nat
<1>1. FoldSeq(+, 0, s) = SumFunctionOnSet(s, DOMAIN s)
  BY DEF FoldSeq, FoldFunction, SumFunctionOnSet
<1>2. IsFiniteSet(DOMAIN s) /\ \A i \in DOMAIN s : s[i] \in Nat
  <2>1. DOMAIN s = 1..Len(s) /\ Len(s) \in Nat
    OBVIOUS
  <2>2. IsFiniteSet(1..Len(s))
    BY <2>1, FS_Interval
  <2> QED
    BY <2>1, <2>2
<1> QED
  BY <1>1, <1>2, SumNat

\* What one more index adds.
LEMMA SumAdd ==
  ASSUME NEW u, NEW S, IsFiniteSet(S), NEW y, y \notin S,
         \A x \in S \cup {y} : u[x] \in Int
  PROVE  SumFunctionOnSet(u, S \cup {y}) = SumFunctionOnSet(u, S) + u[y]
<1>1. IsFiniteSet(S \cup {y}) /\ (S \cup {y}) \ {y} = S
  BY FS_AddElement
<1>2. SumFunctionOnSet(u, S) \in Int /\ u[y] \in Int
  BY SumInt
<1> DEFINE sum == SumFunctionOnSet(u, S)
<1> DEFINE T == S \cup {y}
<1>3. y \in T /\ \A x \in T : u[x] \in Int
  OBVIOUS
<1> HIDE DEF T
<1>4. SumFunctionOnSet(u, T) = u[y] + SumFunctionOnSet(u, T \ {y})
  BY <1>1, <1>3, SumRemove DEF T
<1>5. T \ {y} = S
  BY <1>1 DEF T
<1>6. SumFunctionOnSet(u, T) = u[y] + sum
  BY <1>4, <1>5
<1>7. sum \in Int
  BY <1>2
<1> HIDE DEF sum
<1>8. SumFunctionOnSet(u, T) = sum + u[y]
  BY <1>2, <1>6, <1>7
<1> QED
  BY <1>8 DEF T, sum

\* Amounts are not negative: more of them are worth no less.
LEMMA SumMonotone ==
  ASSUME NEW u, NEW S, IsFiniteSet(S), \A x \in S : u[x] \in Nat, NEW K \in SUBSET S
  PROVE  SumFunctionOnSet(u, K) <= SumFunctionOnSet(u, S)
<1> DEFINE B == {T \in SUBSET S :
                   K \subseteq T /\ ~(SumFunctionOnSet(u, K) <= SumFunctionOnSet(u, T))}
<1> SUFFICES ASSUME B # {} PROVE FALSE
  OBVIOUS
<1>1. PICK T \in B : \A U \in B : U \subseteq T => U = T
  <2> HIDE DEF B
  <2>1. B \in SUBSET (SUBSET S)
    BY DEF B
  <2> QED
    BY <2>1, MinimalSet
<1>2. IsFiniteSet(T) /\ IsFiniteSet(K) /\ K \subseteq T /\ T \subseteq S
  BY <1>1, FS_Subset
<1>3. SumFunctionOnSet(u, K) \in Nat
  BY <1>2, SumNat
<1>4. PICK y \in T : y \notin K
  BY <1>1, <1>2, <1>3
<1>5. SumFunctionOnSet(u, T) = u[y] + SumFunctionOnSet(u, T \ {y}) /\ u[y] \in Nat
  <2>1. \A x \in T : u[x] \in Nat /\ u[x] \in Int
    BY <1>2
  <2> QED
    BY <1>2, <2>1, SumRemove
<1>6. SumFunctionOnSet(u, K) <= SumFunctionOnSet(u, T \ {y})
  BY <1>1, <1>2, <1>4
<1>7. SumFunctionOnSet(u, T \ {y}) \in Nat
  <2>1. IsFiniteSet(T \ {y})
    BY <1>2, FS_RemoveElement
  <2> QED
    BY <1>2, <2>1, SumNat
<1>8. ~(SumFunctionOnSet(u, K) <= SumFunctionOnSet(u, T))
  BY <1>1
<1> QED
  BY <1>3, <1>5, <1>6, <1>7, <1>8

\* Whatever is in K only is worth no less than what is in L only.
Dominates(u, K, L) == \A i \in K \ L, j \in L \ K : u[j] <= u[i]

\* A choice of the largest amounts is worth no less than any choice of at most as
\* many: exchange them one by one.
LEMMA LargestSum ==
  ASSUME NEW u, NEW S, IsFiniteSet(S), \A x \in S : u[x] \in Nat,
         NEW K \in SUBSET S, NEW L \in SUBSET S,
         Cardinality(L) <= Cardinality(K), Dominates(u, K, L)
  PROVE  SumFunctionOnSet(u, L) <= SumFunctionOnSet(u, K)
<1> DEFINE Larger(H, M) == /\ Cardinality(M) <= Cardinality(H) /\ Dominates(u, H, M)
                           /\ ~(SumFunctionOnSet(u, M) <= SumFunctionOnSet(u, H))
           B == {M \in SUBSET S : \E H \in SUBSET S : Larger(H, M)}
<1> SUFFICES ASSUME B # {} PROVE FALSE
  OBVIOUS
<1>1. PICK M \in B : \A U \in B : U \subseteq M => U = M
  <2> HIDE DEF B
  <2>1. B \in SUBSET (SUBSET S)
    BY DEF B
  <2> QED
    BY <2>1, MinimalSet
<1>2. PICK H \in SUBSET S : Larger(H, M)
  BY <1>1
<1>3. M \in SUBSET S
  BY <1>1
<1> HIDE DEF B
<1>4. IsFiniteSet(M) /\ IsFiniteSet(H)
  BY <1>3, FS_Subset
<1>5. /\ SumFunctionOnSet(u, M) \in Nat /\ SumFunctionOnSet(u, H) \in Nat
      /\ Cardinality(M) \in Nat /\ Cardinality(H) \in Nat
  BY <1>3, <1>4, SumNat, FS_CardinalityType
<1>6. PICK j \in M : j \notin H
  <2>1. ~(M \subseteq H)
    BY <1>2, <1>4, SumMonotone
  <2> QED
    BY <2>1
<1>7. PICK i \in H : i \notin M
  <2>1. H \subseteq M => H = M
    <3>1. ASSUME H \subseteq M PROVE Cardinality(H) <= Cardinality(M)
      BY <1>4, <3>1, FS_Subset
    <3> QED
      BY <1>2, <1>4, <1>5, <3>1, FS_Subset
  <2> QED
    BY <1>6, <2>1
<1>8. u[j] <= u[i] /\ u[i] \in Nat /\ u[j] \in Nat
  BY <1>2, <1>3, <1>6, <1>7 DEF Dominates
<1> DEFINE M1 == M \ {j}
           H1 == H \ {i}
<1>9. /\ SumFunctionOnSet(u, M) = u[j] + SumFunctionOnSet(u, M1)
      /\ SumFunctionOnSet(u, H) = u[i] + SumFunctionOnSet(u, H1)
  <2>1. \A x \in S : u[x] \in Int
    OBVIOUS
  <2> QED
    BY <1>3, <1>4, <1>6, <1>7, <2>1, SumRemove
<1>10. /\ IsFiniteSet(M1) /\ IsFiniteSet(H1)
       /\ Cardinality(M1) = Cardinality(M) - 1 /\ Cardinality(H1) = Cardinality(H) - 1
  BY <1>4, <1>6, <1>7, FS_RemoveElement
<1>11. SumFunctionOnSet(u, M1) \in Nat /\ SumFunctionOnSet(u, H1) \in Nat
  BY <1>3, <1>10, SumNat
<1>12. Dominates(u, H1, M1)
  BY <1>2, <1>6, <1>7 DEF Dominates
<1>13. M1 \in SUBSET S /\ H1 \in SUBSET S /\ M1 \subseteq M /\ M1 # M
  BY <1>3, <1>6
<1> HIDE DEF M1, H1
<1>14. Cardinality(M1) <= Cardinality(H1)
  BY <1>2, <1>5, <1>10
<1>15. ~(SumFunctionOnSet(u, M1) <= SumFunctionOnSet(u, H1))
  BY <1>2, <1>5, <1>8, <1>9, <1>11
<1>16. M1 \in B
  BY <1>12, <1>13, <1>14, <1>15 DEF B
<1> QED
  BY <1>1, <1>13, <1>16
-----------------------------------------------------------------------------
\* The sum depends on the amounts at the indices of the set only.
LEMMA SumSame ==
  ASSUME NEW u, NEW v, NEW S, IsFiniteSet(S), \A x \in S : u[x] = v[x]
  PROVE  SumFunctionOnSet(u, S) = SumFunctionOnSet(v, S)
<1> DEFINE B == {T \in SUBSET S : SumFunctionOnSet(u, T) # SumFunctionOnSet(v, T)}
<1> SUFFICES ASSUME B # {} PROVE FALSE
  OBVIOUS
<1>1. PICK T \in B : \A U \in B : U \subseteq T => U = T
  <2> HIDE DEF B
  <2>1. B \in SUBSET (SUBSET S)
    BY DEF B
  <2> QED
    BY <2>1, MinimalSet
<1>2. T \in SUBSET S /\ SumFunctionOnSet(u, T) # SumFunctionOnSet(v, T)
  BY <1>1
<1>3. T # {} /\ IsFiniteSet(T)
  <2>1. SumFunctionOnSet(u, {}) = SumFunctionOnSet(v, {})
    BY SumEmpty
  <2>2. IsFiniteSet(T)
    BY <1>2, FS_Subset
  <2> QED
    BY <1>2, <2>1, <2>2
<1>4. /\ First(T) \in T
      /\ SumFunctionOnSet(u, T) = u[First(T)] + SumFunctionOnSet(u, T \ {First(T)})
      /\ SumFunctionOnSet(v, T) = v[First(T)] + SumFunctionOnSet(v, T \ {First(T)})
  BY <1>3, SumFirst
<1>5. SumFunctionOnSet(u, T \ {First(T)}) = SumFunctionOnSet(v, T \ {First(T)})
  BY <1>1, <1>2, <1>4
<1>6. u[First(T)] = v[First(T)]
  BY <1>2, <1>4
<1> QED
  BY <1>2, <1>4, <1>5, <1>6

\* Amounts of M at most, n of them, are worth n * M at most.
LEMMA SumBound ==
  ASSUME NEW u, NEW S, IsFiniteSet(S), NEW M \in Nat, \A x \in S : u[x] \in 0..M
  PROVE  SumFunctionOnSet(u, S) <= Cardinality(S) * M
<1> DEFINE Bounded(T) == SumFunctionOnSet(u, T) <= Cardinality(T) * M
           B == {T \in SUBSET S : ~Bounded(T)}
<1> SUFFICES ASSUME B # {} PROVE FALSE
  BY DEF Bounded
<1>1. PICK T \in B : \A U \in B : U \subseteq T => U = T
  <2> HIDE DEF B
  <2>1. B \in SUBSET (SUBSET S)
    BY DEF B
  <2> QED
    BY <2>1, MinimalSet
<1>2. T \in SUBSET S /\ ~Bounded(T)
  BY <1>1
<1>3. T # {} /\ IsFiniteSet(T)
  <2>1. Bounded({})
    BY SumEmpty, FS_EmptySet
  <2>2. IsFiniteSet(T)
    BY <1>2, FS_Subset
  <2> QED
    BY <1>2, <2>1, <2>2
<1> DEFINE x == First(T)
           rest == T \ {x}
<1>4. x \in T /\ SumFunctionOnSet(u, T) = u[x] + SumFunctionOnSet(u, rest)
  BY <1>3, SumFirst
<1> HIDE DEF Bounded
<1>5. Bounded(rest)
  BY <1>1, <1>2, <1>4
<1> HIDE DEF x
<1>6. IsFiniteSet(rest) /\ Cardinality(rest) = Cardinality(T) - 1 /\ Cardinality(rest) \in Nat
  BY <1>3, <1>4, FS_RemoveElement, FS_CardinalityType
<1>7. Cardinality(T) = Cardinality(rest) + 1
  BY <1>3, <1>6, FS_CardinalityType
<1>8. SumFunctionOnSet(u, rest) \in Int /\ u[x] \in 0..M
  BY <1>2, <1>4, <1>6, SumInt
<1> DEFINE k == Cardinality(rest)
           sum == SumFunctionOnSet(u, rest)
<1>9. k \in Nat /\ sum \in Int /\ sum <= k * M
  BY <1>5, <1>6, <1>8 DEF Bounded
<1> HIDE DEF k, sum
<1>10. (k + 1) * M = k * M + M /\ k * M \in Int
  BY <1>9
<1>11. u[x] + sum <= (k + 1) * M
  BY <1>8, <1>9, <1>10
<1> QED
  BY <1>2, <1>4, <1>7, <1>11 DEF Bounded, k, sum
-----------------------------------------------------------------------------
(***************************************************************************)
(* The total of a sequence of amounts.                                      *)
(***************************************************************************)
Whole(s) == FoldSeq(+, 0, s)

LEMMA TotalIs ==
  ASSUME NEW s \in Seq(Nat)
  PROVE  /\ Len(s) \in Nat /\ DOMAIN s = 1..Len(s) /\ IsFiniteSet(1..Len(s))
         /\ Whole(s) = SumFunctionOnSet(s, 1..Len(s))
<1>1. DOMAIN s = 1..Len(s) /\ Len(s) \in Nat
  OBVIOUS
<1>2. IsFiniteSet(1..Len(s))
  BY <1>1, FS_Interval
<1>3. Whole(s) = SumFunctionOnSet(s, DOMAIN s)
  BY DEF Whole, FoldSeq, FoldFunction, SumFunctionOnSet
<1> QED
  BY <1>1, <1>2, <1>3

\* No amount and no prefix is worth more than the whole.
LEMMA TotalPart ==
  ASSUME NEW s \in Seq(Nat), NEW i \in DOMAIN s
  PROVE  /\ s[i] <= Whole(s)
         /\ Whole(SubSeq(s, 1, i)) <= Whole(s)
<1> DEFINE t == SubSeq(s, 1, i)
           n == Len(s)
           all == 1..n
<1>1. /\ n \in Nat /\ DOMAIN s = all /\ IsFiniteSet(all)
      /\ Whole(s) = SumFunctionOnSet(s, all)
      /\ \A j \in all : s[j] \in Nat
  BY TotalIs
<1>2. t \in Seq(Nat) /\ Len(t) = i /\ \A j \in 1..i : t[j] = s[j]
  OBVIOUS
<1>3. 1..i \subseteq all /\ {i} \subseteq all
  BY <1>1
<1> HIDE DEF t, n, all
<1>4. IsFiniteSet(1..i) /\ Whole(t) = SumFunctionOnSet(t, 1..i)
  BY <1>2, TotalIs
<1>5. SumFunctionOnSet(t, 1..i) = SumFunctionOnSet(s, 1..i)
  BY <1>2, <1>4, SumSame
<1>6. SumFunctionOnSet(s, 1..i) <= SumFunctionOnSet(s, all)
  BY <1>1, <1>3, SumMonotone
<1>7. SumFunctionOnSet(s, {i}) = s[i]
  <2>1. SumFunctionOnSet(s, {} \cup {i}) = SumFunctionOnSet(s, {}) + s[i]
    <3>1. \A x \in {} \cup {i} : s[x] \in Int
      BY <1>1
    <3> QED
      BY <3>1, FS_EmptySet, SumAdd
  <2>2. SumFunctionOnSet(s, {}) = 0 /\ s[i] \in Nat /\ {} \cup {i} = {i}
    BY <1>1, SumEmpty
  <2> QED
    BY <2>1, <2>2
<1>8. SumFunctionOnSet(s, {i}) <= SumFunctionOnSet(s, all)
  BY <1>1, <1>3, SumMonotone
<1> QED
  BY <1>1, <1>4, <1>5, <1>6, <1>7, <1>8 DEF t

LEMMA TotalBound ==
  ASSUME NEW s \in Seq(Nat), NEW M \in Nat, \A i \in DOMAIN s : s[i] <= M
  PROVE  Whole(s) <= Len(s) * M
<1>1. /\ DOMAIN s = 1..Len(s) /\ IsFiniteSet(1..Len(s)) /\ Len(s) \in Nat
      /\ Whole(s) = SumFunctionOnSet(s, 1..Len(s))
  BY TotalIs
<1>2. \A i \in 1..Len(s) : s[i] \in 0..M
  BY <1>1
<1>3. Cardinality(1..Len(s)) = Len(s)
  BY <1>1, FS_Interval
<1> QED
  BY <1>1, <1>2, <1>3, SumBound

LEMMA SumInterval ==
  ASSUME NEW u, NEW k \in Nat, \A i \in 1..(k + 1) : u[i] \in Int
  PROVE  /\ SumFunctionOnSet(u, 1..k) \in Int
         /\ SumFunctionOnSet(u, 1..(k + 1)) = SumFunctionOnSet(u, 1..k) + u[k + 1]
<1>1. IsFiniteSet(1..k)
  BY FS_Interval
<1>2. k + 1 \notin 1..k /\ 1..(k + 1) = (1..k) \cup {k + 1}
  OBVIOUS
<1>3. \A x \in (1..k) \cup {k + 1} : u[x] \in Int
  BY <1>2
<1> DEFINE S == 1..k
           y == k + 1
<1>4. SumFunctionOnSet(u, S) \in Int
  BY <1>1, <1>3, SumInt
<1> HIDE DEF S, y
<1>5. SumFunctionOnSet(u, S \cup {y}) = SumFunctionOnSet(u, S) + u[y]
  <2>1. IsFiniteSet(S) /\ y \notin S /\ \A x \in S \cup {y} : u[x] \in Int
    BY <1>1, <1>2, <1>3 DEF S, y
  <2> QED
    BY <2>1, SumAdd
<1> QED
  BY <1>2, <1>4, <1>5 DEF S, y

\* The amounts of t are those of s, after one of c.
LEMMA SumShift ==
  ASSUME NEW n \in Nat, NEW s, NEW t, NEW c \in Nat, t[1] = c,
         \A i \in 1..n : s[i] \in Nat /\ t[i + 1] = s[i]
  PROVE  SumFunctionOnSet(t, 1..(n + 1)) = c + SumFunctionOnSet(s, 1..n)
<1> DEFINE Equal(k) == SumFunctionOnSet(t, 1..(k + 1)) = c + SumFunctionOnSet(s, 1..k)
           B == {k \in 0..n : ~Equal(k)}
<1>1. Equal(0)
  <2>1. SumFunctionOnSet(t, 1..0) = 0 /\ SumFunctionOnSet(s, 1..0) = 0
    <3>1. 1..0 = {}
      OBVIOUS
    <3> QED
      BY <3>1, SumEmpty
  <2>2. \A i \in 1..(0 + 1) : t[i] \in Int
    OBVIOUS
  <2>3. SumFunctionOnSet(t, 1..(0 + 1)) = SumFunctionOnSet(t, 1..0) + t[0 + 1]
    BY <2>2, SumInterval
  <2>4. t[0 + 1] = c
    OBVIOUS
  <2> QED
    BY <2>1, <2>3, <2>4
<1>2. ASSUME NEW k \in 0..n, k + 1 \in 0..n, Equal(k)
      PROVE  Equal(k + 1)
  <2>1. k \in Nat /\ k + 1 \in Nat
    OBVIOUS
  <2>2. \A i \in 1..(k + 1) : s[i] \in Int
    BY <1>2
  <2>3. \A i \in 1..((k + 1) + 1) : t[i] \in Int
    <3> SUFFICES ASSUME NEW i \in 1..((k + 1) + 1) PROVE t[i] \in Int
      OBVIOUS
    <3>1. i = 1 \/ (i - 1 \in 1..n /\ (i - 1) + 1 = i)
      BY <1>2
    <3> QED
      BY <3>1
  <2>4. /\ SumFunctionOnSet(s, 1..k) \in Int
        /\ SumFunctionOnSet(s, 1..(k + 1)) = SumFunctionOnSet(s, 1..k) + s[k + 1]
    BY <2>1, <2>2, SumInterval
  <2>5. SumFunctionOnSet(t, 1..((k + 1) + 1))
          = SumFunctionOnSet(t, 1..(k + 1)) + t[(k + 1) + 1]
    BY <2>1, <2>3, SumInterval
  <2>6. t[(k + 1) + 1] = s[k + 1] /\ s[k + 1] \in Nat
    BY <1>2
  <2>7. SumFunctionOnSet(t, 1..(k + 1)) = c + SumFunctionOnSet(s, 1..k)
    BY <1>2
  <2> DEFINE x == SumFunctionOnSet(s, 1..k)
  <2>8. x \in Int /\ (c + x) + s[k + 1] = c + (x + s[k + 1])
    BY <2>4, <2>6
  <2> QED
    BY <2>4, <2>5, <2>6, <2>7, <2>8
<1> HIDE DEF Equal
<1>3. B = {}
  <2> SUFFICES ASSUME B # {} PROVE FALSE
    OBVIOUS
  <2>1. PICK k \in B : \A j \in B : ~(<<j, k>> \in OpToRel(<, Nat))
    <3>1. B \subseteq Nat
      OBVIOUS
    <3>2. IsWellFoundedOn(OpToRel(<, Nat), Nat)
      BY NatLessThanWellFounded
    <3> QED
      BY <3>1, <3>2, WFMin
  <2>2. k \in 0..n /\ ~Equal(k) /\ k # 0
    BY <1>1, <2>1
  <2>3. /\ k - 1 \in 0..n /\ (k - 1) + 1 = k /\ k - 1 \in Nat /\ k \in Nat
        /\ k - 1 < k
    BY <2>2
  <2>4. <<k - 1, k>> \in OpToRel(<, Nat)
    BY <2>3 DEF OpToRel
  <2>5. Equal(k - 1)
    BY <2>1, <2>3, <2>4
  <2> QED
    BY <1>2, <2>2, <2>3, <2>5
<1>4. Equal(n)
  BY <1>3
<1> QED
  BY <1>4 DEF Equal

\* An amount put in front.
LEMMA TotalFirst ==
  ASSUME NEW c \in Nat, NEW s \in Seq(Nat)
  PROVE  Whole(<<c>> \o s) = c + Whole(s)
<1> DEFINE t == <<c>> \o s
           n == Len(s)
<1>1. n \in Nat /\ DOMAIN s = 1..n /\ Whole(s) = SumFunctionOnSet(s, 1..n)
  BY TotalIs
<1>2. t \in Seq(Nat) /\ Len(t) = n + 1 /\ t[1] = c
  OBVIOUS
<1>3. \A i \in 1..n : s[i] \in Nat /\ t[i + 1] = s[i]
  OBVIOUS
<1> HIDE DEF t, n
<1>4. Whole(t) = SumFunctionOnSet(t, 1..(n + 1))
  BY <1>2, TotalIs
<1>5. SumFunctionOnSet(t, 1..(n + 1)) = c + SumFunctionOnSet(s, 1..n)
  BY <1>1, <1>2, <1>3, SumShift, SMTT(30)
<1> QED
  BY <1>1, <1>4, <1>5, Zenon DEF t

LEMMA TotalEmpty ==
  Whole(<<>>) = 0
<1>1. <<>> \in Seq(Nat) /\ 1..Len(<<>>) = {}
  OBVIOUS
<1> QED
  BY <1>1, TotalIs, SumEmpty

LEMMA Joined ==
  ASSUME NEW x, NEW y
  PROVE  <<x>> \o <<>> = <<x>> /\ <<x>> \o <<y>> = <<x, y>>
<1> DEFINE S == {x, y}
<1>1. <<x>> \in Seq(S) /\ <<y>> \in Seq(S) /\ <<>> \in Seq(S) /\ <<x, y>> \in Seq(S)
  OBVIOUS
<1> HIDE DEF S
<1>2. <<x>> \o <<>> = <<x>>
  BY <1>1
<1>3. <<x>> \o <<y>> = <<x, y>>
  <2> DEFINE s == <<x>> \o <<y>>
             t == <<x, y>>
  <2>1. s \in Seq(S) /\ Len(s) = 2 /\ s[1] = x /\ s[2] = y
    BY <1>1
  <2>2. t \in Seq(S) /\ Len(t) = 2 /\ t[1] = x /\ t[2] = y
    BY <1>1
  <2>3. \A i \in 1..2 : i = 1 \/ i = 2
    OBVIOUS
  <2> HIDE DEF s, t
  <2>4. \A i \in 1..2 : s[i] = t[i]
    BY <2>1, <2>2, <2>3
  <2>5. s = t
    BY <2>1, <2>2, <2>4
  <2> QED
    BY <2>5 DEF s, t
<1> QED
  BY <1>2, <1>3

LEMMA TotalFew ==
  ASSUME NEW a \in Nat, NEW b \in Nat
  PROVE  Whole(<<a>>) = a /\ Whole(<<a, b>>) = a + b
<1>1. <<b>> = <<b>> \o <<>> /\ <<a>> = <<a>> \o <<>> /\ <<a, b>> = <<a>> \o <<b>>
  BY Joined
<1>2. <<>> \in Seq(Nat) /\ <<b>> \in Seq(Nat)
  OBVIOUS
<1>3. Whole(<<a>>) = a + 0 /\ Whole(<<b>>) = b + 0
  BY <1>1, <1>2, TotalFirst, TotalEmpty
<1>4. Whole(<<a, b>>) = a + Whole(<<b>>)
  BY <1>1, <1>2, TotalFirst
<1> QED
  BY <1>3, <1>4
=============================================================================
