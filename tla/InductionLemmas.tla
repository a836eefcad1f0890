--------------------------- MODULE InductionLemmas --------------------------
(***************************************************************************)
(* Induction, recursion and finite sums in the form the other proofs need  *)
(* them: about sets and functions, never about an operator that is passed  *)
(* as a parameter.  A statement P(n) is proved for every n by taking the   *)
(* set {n \in Nat : P(n)} for T.                                           *)
(***************************************************************************)
EXTENDS FiniteSetTheorems, WellFoundedInduction, TLAPS

\* A set of naturals that is not empty has a least element.
LEMMA LeastNatural ==
    ASSUME NEW T, T \subseteq Nat, T # {}
    PROVE  \E m \in T : \A k \in T : m <= k
<1> DEFINE Less == {ss \in Nat \X Nat : ss[1] < ss[2]}
<1>1. OpToRel(<, Nat) = Less
    BY DEF OpToRel
<1>2. IsWellFoundedOn(Less, Nat)
    BY <1>1, NatLessThanWellFounded
<1> HIDE DEF Less
<1>3. PICK m \in T : \A k \in T : <<k, m>> \notin Less
    BY <1>2, WFMin
<1>4. \A k \in T : ~ (k < m)
    BY <1>3 DEF Less
<1>5. QED
    BY <1>4

\* Induction over the naturals.
LEMMA NatSetInduction ==
    ASSUME NEW T, 0 \in T, \A n \in Nat : n \in T => n + 1 \in T
    PROVE  Nat \subseteq T
<1> SUFFICES ASSUME ~ (Nat \subseteq T) PROVE FALSE
    OBVIOUS
<1> DEFINE Out == {n \in Nat : n \notin T}
<1>1. Out \subseteq Nat /\ Out # {}
    OBVIOUS
<1> HIDE DEF Out
<1>2. PICK m \in Out : \A k \in Out : m <= k
    BY <1>1, LeastNatural
<1>3. m \in Nat /\ m \notin T /\ m # 0
    BY <1>2 DEF Out
<1>4. m - 1 \in Nat /\ m - 1 \in T
    BY <1>2, <1>3 DEF Out
<1>5. QED
    BY <1>3, <1>4

\* Induction over a finite set: what the empty set has, and what one more
\* element never takes away, every finite set has.
LEMMA FiniteSetInduction ==
    ASSUME NEW S, IsFiniteSet(S), NEW T, {} \in T,
           \A A \in SUBSET S, x \in S : A \in T /\ x \notin A => A \cup {x} \in T
    PROVE  S \in T
<1> DEFINE Reached == {n \in Nat : \A A \in SUBSET S : Cardinality(A) = n => A \in T}
<1>1. \A A \in SUBSET S : IsFiniteSet(A) /\ Cardinality(A) \in Nat
    BY FS_Subset, FS_CardinalityType
<1>2. 0 \in Reached
    BY <1>1, FS_EmptySet
<1>3. ASSUME NEW n \in Nat, n \in Reached PROVE n + 1 \in Reached
    <2> SUFFICES ASSUME NEW A \in SUBSET S, Cardinality(A) = n + 1 PROVE A \in T
        OBVIOUS
    <2>1. A # {}
        <3>1. n + 1 # 0
            OBVIOUS
        <3>2. QED
            BY <3>1, FS_EmptySet, Zenon
    <2>2. PICK x \in A : TRUE
        BY <2>1
    <2>3. IsFiniteSet(A)
        BY <1>1
    <2>4. Cardinality(A \ {x}) = Cardinality(A) - 1
        BY <2>2, <2>3, FS_RemoveElement, Zenon
    <2>5. Cardinality(A \ {x}) = n
        BY <2>4
    <2>6. A \ {x} \in T
        BY <1>3, <2>5
    <2>7. (A \ {x}) \cup {x} = A
        BY <2>2
    <2>8. QED
        BY <2>2, <2>6, <2>7
<1> HIDE DEF Reached
<1>4. Nat \subseteq Reached
    BY <1>2, <1>3, NatSetInduction
<1>5. QED
    BY <1>1, <1>4 DEF Reached

\* A function has finitely many values on a finite set.
LEMMA ImageIsFinite ==
    ASSUME NEW S, IsFiniteSet(S), NEW f
    PROVE  IsFiniteSet({f[x] : x \in S})
<1> DEFINE T == {f[x] : x \in S}
           g == [x \in S |-> f[x]]
<1>1. g \in Surjection(S, T)
    BY DEF Surjection
<1>2. QED
    BY <1>1, FS_Surjection

\* f starts at base, and next takes it from each natural to the one after.
Recurs(f, base, next) ==
    /\ f[0] = base
    /\ \A n \in Nat : f[n + 1] = next[<<n, f[n]>>]

\* A function on the naturals may be defined from the value before.
LEMMA NatRecursion ==
    ASSUME NEW S, NEW base \in S, NEW next \in [Nat \X S -> S]
    PROVE  \E f \in [Nat -> S] : Recurs(f, base, next)
<1> DEFINE Runs(f, n) == /\ f[0] = base
                         /\ \A i \in 0..n : f[i + 1] = next[<<i, f[i]>>]
           Built == {n \in Nat : \E f \in [Nat -> S] : Runs(f, n)}
<1>1. 0 \in Built
    <2> DEFINE f == [i \in Nat |-> IF i = 0 THEN base ELSE next[<<0, base>>]]
    <2>1. f \in [Nat -> S] /\ Runs(f, 0)
        OBVIOUS
    <2>2. QED
        BY <2>1
<1>2. ASSUME NEW n \in Nat, n \in Built PROVE n + 1 \in Built
    <2>1. PICK f \in [Nat -> S] : Runs(f, n)
        BY <1>2
    <2> DEFINE g == [i \in Nat |-> IF i = n + 2 THEN next[<<n + 1, f[n + 1]>>] ELSE f[i]]
    <2>2. g \in [Nat -> S] /\ g[0] = base
        BY <2>1
    <2>3. ASSUME NEW i \in 0..(n + 1) PROVE g[i + 1] = next[<<i, g[i]>>]
        <3>1. i \in Nat /\ i + 1 \in Nat /\ i # n + 2 /\ g[i] = f[i]
            BY <2>3
        <3>2. CASE i = n + 1
            BY <3>1, <3>2
        <3>3. CASE i # n + 1
            <4>1. i \in 0..n /\ g[i + 1] = f[i + 1]
                BY <3>1, <3>3
            <4>2. QED
                BY <2>1, <3>1, <4>1
        <3>4. QED
            BY <3>2, <3>3
    <2>4. Runs(g, n + 1)
        BY <2>2, <2>3
    <2> HIDE DEF g, Runs
    <2>5. QED
        BY <2>2, <2>4
<1>3. Nat \subseteq Built
    <2> HIDE DEF Built
    <2>1. QED
        BY <1>1, <1>2, NatSetInduction
<1>4. ASSUME NEW f \in [Nat -> S], NEW g \in [Nat -> S], NEW n \in Nat, Runs(f, n),
             NEW m \in Nat, Runs(g, m), n <= m
      PROVE  \A i \in 0..(n + 1) : f[i] = g[i]
    <2> DEFINE Same == {i \in Nat : i <= n + 1 => f[i] = g[i]}
    <2>1. 0 \in Same
        BY <1>4
    <2>2. ASSUME NEW i \in Nat, i \in Same PROVE i + 1 \in Same
        <3>1. CASE i + 1 <= n + 1
            <4>1. i \in 0..n /\ i \in 0..m /\ f[i] = g[i]
                BY <1>4, <2>2, <3>1
            <4>2. f[i + 1] = next[<<i, f[i]>>] /\ g[i + 1] = next[<<i, g[i]>>]
                BY <1>4, <4>1
            <4>3. QED
                BY <4>1, <4>2
        <3>2. QED
            BY <3>1
    <2> HIDE DEF Same
    <2>3. Nat \subseteq Same
        BY <2>1, <2>2, NatSetInduction
    <2>4. QED
        BY <2>3 DEF Same
<1> DEFINE run == [n \in Nat |-> CHOOSE f \in [Nat -> S] : Runs(f, n)]
           f == [n \in Nat |-> run[n][n]]
<1>5. \A n \in Nat : run[n] \in [Nat -> S] /\ Runs(run[n], n)
    BY <1>3
<1>6. f[0] = base /\ f \in [Nat -> S]
    BY <1>5
<1>7. ASSUME NEW n \in Nat PROVE f[n + 1] = next[<<n, f[n]>>]
    <2> HIDE DEF run
    <2>1. run[n + 1][n + 1] = next[<<n, run[n + 1][n]>>]
        BY <1>5
    <2>2. run[n + 1][n] = run[n][n]
        <3> HIDE DEF Runs
        <3>1. /\ n + 1 \in Nat /\ n <= n + 1 /\ n \in 0..(n + 1)
              /\ run[n] \in [Nat -> S] /\ Runs(run[n], n)
              /\ run[n + 1] \in [Nat -> S] /\ Runs(run[n + 1], n + 1)
            BY <1>5
        <3>2. QED
            BY <1>4, <3>1
    <2>3. QED
        BY <2>1, <2>2
<1> HIDE DEF f
<1>8. QED
    BY <1>6, <1>7 DEF Recurs

-----------------------------------------------------------------------------
(* Sums over finite sets: SumFunctionOnSet takes the elements in the order *)
(* CHOOSE gives them, and its value does not depend on that order.         *)

\* What every set has that has it as soon as each set one smaller has it.
LEMMA RemovalInduction ==
    ASSUME NEW S, IsFiniteSet(S), NEW T, {} \in T,
           \A A \in SUBSET S : A # {} /\ (\A x \in A : A \ {x} \in T) => A \in T
    PROVE  SUBSET S \subseteq T
<1> DEFINE Reached == {n \in Nat : \A A \in SUBSET S : Cardinality(A) = n => A \in T}
<1>1. \A A \in SUBSET S : IsFiniteSet(A) /\ Cardinality(A) \in Nat
    BY FS_Subset, FS_CardinalityType
<1>2. 0 \in Reached
    BY <1>1, FS_EmptySet
<1>3. ASSUME NEW n \in Nat, n \in Reached PROVE n + 1 \in Reached
    <2> SUFFICES ASSUME NEW A \in SUBSET S, Cardinality(A) = n + 1 PROVE A \in T
        OBVIOUS
    <2>1. n + 1 # 0
        OBVIOUS
    <2>2. A # {}
        BY <2>1, FS_EmptySet, Zenon
    <2>3. ASSUME NEW x \in A PROVE A \ {x} \in T
        <3>1. Cardinality(A \ {x}) = Cardinality(A) - 1
            BY <1>1, FS_RemoveElement, Zenon
        <3>2. Cardinality(A \ {x}) = n
            BY <3>1
        <3>3. QED
            BY <1>3, <3>2
    <2>4. QED
        BY <2>2, <2>3
<1> HIDE DEF Reached
<1>4. Nat \subseteq Reached
    BY <1>2, <1>3, NatSetInduction
<1>5. QED
    BY <1>1, <1>4 DEF Reached

\* sum[s] is the sum of f over s, for every subset s of S.
IsFold(sum, f, S) ==
    sum = [s \in SUBSET S |->
             IF s = {} THEN 0
             ELSE f[CHOOSE x \in s : TRUE] + sum[s \ {CHOOSE x \in s : TRUE}]]

LEMMA FoldExists ==
    ASSUME NEW S, IsFiniteSet(S), NEW f, \A x \in S : f[x] \in Int
    PROVE  \E sum : IsFold(sum, f, S)
<1> DEFINE V == [SUBSET S -> Int]
           Pick(s) == CHOOSE x \in s : TRUE
           base == [s \in SUBSET S |-> 0]
           More(g) == [s \in SUBSET S |->
                        IF s = {} THEN 0 ELSE f[Pick(s)] + g[s \ {Pick(s)}]]
           next == [p \in Nat \X V |-> More(p[2])]
<1>1. \A s \in SUBSET S : s # {} => Pick(s) \in s /\ s \ {Pick(s)} \in SUBSET S
    OBVIOUS
<1> HIDE DEF Pick
<1>2. \A g \in V : More(g) \in V
    BY <1>1
<1>3. base \in V
    OBVIOUS
<1>4. next \in [Nat \X V -> V]
    BY <1>2
<1>5. PICK g \in [Nat -> V] : Recurs(g, base, next)
    <2> HIDE DEF V, base, next
    <2>1. QED
        BY <1>3, <1>4, NatRecursion
<1>6. g[0] = base /\ \A n \in Nat : g[n + 1] = More(g[n])
    <2>1. \A n \in Nat : <<n, g[n]>> \in Nat \X V /\ <<n, g[n]>>[2] = g[n]
        BY <1>5
    <2>2. \A n \in Nat : next[<<n, g[n]>>] = More(g[n])
        <3> HIDE DEF V, More
        <3>1. QED
            BY <2>1
    <2>3. QED
        BY <1>5, <2>2 DEF Recurs
<1> DEFINE sum == [s \in SUBSET S |-> g[Cardinality(s)][s]]
<1>7. ASSUME NEW s \in SUBSET S
      PROVE  sum[s] = IF s = {} THEN 0 ELSE f[Pick(s)] + sum[s \ {Pick(s)}]
    <2>1. IsFiniteSet(s) /\ Cardinality(s) \in Nat
        BY FS_Subset, FS_CardinalityType
    <2>2. CASE s = {}
        <3>1. Cardinality(s) = 0
            BY <2>2, FS_EmptySet
        <3>2. QED
            BY <1>6, <2>2, <3>1
    <2>3. CASE s # {}
        <3> DEFINE r == s \ {Pick(s)}
        <3>1. Pick(s) \in s /\ r \in SUBSET S
            BY <1>1, <2>3
        <3>2. Cardinality(r) = Cardinality(s) - 1
            BY <2>1, <3>1, FS_RemoveElement, Zenon
        <3>3. Cardinality(r) \in Nat /\ Cardinality(s) = Cardinality(r) + 1
            BY <3>1, <3>2, <2>1, FS_Subset, FS_CardinalityType
        <3>4. g[Cardinality(s)] = More(g[Cardinality(r)])
            BY <1>6, <3>3
        <3>5. g[Cardinality(s)][s] = f[Pick(s)] + g[Cardinality(r)][r]
            BY <2>3, <3>4
        <3>6. QED
            BY <2>3, <3>1, <3>5
    <2>4. QED
        BY <2>2, <2>3
<1> HIDE DEF sum
<1>8. sum = [s \in SUBSET S |-> IF s = {} THEN 0 ELSE f[Pick(s)] + sum[s \ {Pick(s)}]]
    <2>1. sum = [s \in SUBSET S |-> sum[s]]
        BY DEF sum
    <2>2. QED
        BY <1>7, <2>1
<1>9. QED
    BY <1>8 DEF IsFold, Pick

\* Any element may be taken out first.
Removes(sum, f, S) ==
    /\ sum[{}] = 0
    /\ \A s \in SUBSET S : sum[s] \in Int
    /\ \A s \in SUBSET S : \A x \in s : sum[s] = f[x] + sum[s \ {x}]

LEMMA FoldRemoves ==
    ASSUME NEW S, IsFiniteSet(S), NEW f, \A x \in S : f[x] \in Int,
           NEW sum, IsFold(sum, f, S)
    PROVE  Removes(sum, f, S)
<1> DEFINE Pick(s) == CHOOSE x \in s : TRUE
<1>1. \A s \in SUBSET S :
        sum[s] = IF s = {} THEN 0 ELSE f[Pick(s)] + sum[s \ {Pick(s)}]
    <2> SUFFICES ASSUME NEW s \in SUBSET S
                 PROVE  sum[s] = IF s = {} THEN 0 ELSE f[Pick(s)] + sum[s \ {Pick(s)}]
        OBVIOUS
    <2> DEFINE Body(t) == IF t = {} THEN 0 ELSE f[Pick(t)] + sum[t \ {Pick(t)}]
    <2>1. sum = [t \in SUBSET S |-> Body(t)]
        BY DEF IsFold
    <2> HIDE DEF Body
    <2>2. sum[s] = Body(s)
        BY <2>1
    <2>3. QED
        BY <2>2 DEF Body
<1>2. \A s : s # {} => Pick(s) \in s
    OBVIOUS
<1> HIDE DEF Pick
<1> DEFINE Whole == {s \in SUBSET S : sum[s] \in Int}
<1>3. sum[{}] = 0 /\ {} \in Whole
    BY <1>1
<1>4. ASSUME NEW A \in SUBSET S, A # {}, \A x \in A : A \ {x} \in Whole
      PROVE  A \in Whole
    <2>1. Pick(A) \in A /\ sum[A] = f[Pick(A)] + sum[A \ {Pick(A)}]
        BY <1>1, <1>2, <1>4
    <2>2. f[Pick(A)] \in Int /\ sum[A \ {Pick(A)}] \in Int
        BY <1>4, <2>1
    <2>3. QED
        BY <2>1, <2>2
<1> HIDE DEF Whole
<1>5. SUBSET S \subseteq Whole
    BY <1>3, <1>4, RemovalInduction
<1>6. \A s \in SUBSET S : sum[s] \in Int
    BY <1>5 DEF Whole
<1> DEFINE Good == {s \in SUBSET S : \A x \in s : sum[s] = f[x] + sum[s \ {x}]}
<1>7. {} \in Good
    OBVIOUS
<1>8. ASSUME NEW A \in SUBSET S, A # {}, \A x \in A : A \ {x} \in Good
      PROVE  A \in Good
    <2> SUFFICES ASSUME NEW x \in A PROVE sum[A] = f[x] + sum[A \ {x}]
        OBVIOUS
    <2> DEFINE y == Pick(A)
    <2>1. y \in A /\ sum[A] = f[y] + sum[A \ {y}]
        BY <1>1, <1>2, <1>8
    <2> HIDE DEF y
    <2>2. CASE x = y
        BY <2>1, <2>2
    <2>3. CASE x # y
        <3>1. (A \ {y}) \ {x} = (A \ {x}) \ {y} /\ x \in A \ {y} /\ y \in A \ {x}
            BY <2>1, <2>3
        <3>2. sum[A \ {y}] = f[x] + sum[(A \ {x}) \ {y}]
            BY <1>8, <2>1, <3>1
        <3>3. sum[A \ {x}] = f[y] + sum[(A \ {x}) \ {y}]
            BY <1>8, <3>1
        <3>4. f[x] \in Int /\ f[y] \in Int /\ sum[(A \ {x}) \ {y}] \in Int
            BY <1>6, <2>1
        <3>5. QED
            BY <2>1, <3>2, <3>3, <3>4
    <2>4. QED
        BY <2>2, <2>3
<1> HIDE DEF Good
<1>9. SUBSET S \subseteq Good
    BY <1>7, <1>8, RemovalInduction
<1>10. QED
    BY <1>3, <1>6, <1>9 DEF Good, Removes

\* The three facts every other proof about sums starts from.
LEMMA SumIsFold ==
    ASSUME NEW S, IsFiniteSet(S), NEW f, \A x \in S : f[x] \in Int
    PROVE  \E sum : IsFold(sum, f, S) /\ SumFunctionOnSet(f, S) = sum[S]
<1> DEFINE sum == CHOOSE sum : IsFold(sum, f, S)
<1>1. IsFold(sum, f, S)
    <2>1. \E g : IsFold(g, f, S)
        BY FoldExists
    <2>2. QED
        BY <2>1, Zenon
<1>2. SumFunctionOnSet(f, S) = sum[S]
    BY DEF SumFunctionOnSet, FoldFunctionOnSet, MapThenFoldSet, IsFold
<1>3. QED
    BY <1>1, <1>2

\* The sum over a set looks at nothing but the values on the set.
LEMMA FoldsAgree ==
    ASSUME NEW S, IsFiniteSet(S), NEW f, \A x \in S : f[x] \in Int,
           NEW R, IsFiniteSet(R), NEW g, \A x \in R : g[x] \in Int,
           NEW a, IsFold(a, f, S), NEW b, IsFold(b, g, R),
           NEW A \in SUBSET (S \cap R), \A x \in A : f[x] = g[x]
    PROVE  a[A] = b[A]
<1> DEFINE Same == {s \in SUBSET (S \cap R) :
                      (\A x \in s : f[x] = g[x]) => a[s] = b[s]}
<1>1. Removes(a, f, S)
    BY FoldRemoves
<1>2. Removes(b, g, R)
    BY FoldRemoves
<1>3. {} \in Same
    BY <1>1, <1>2 DEF Removes
<1>4. ASSUME NEW s \in SUBSET (S \cap R), s # {}, \A x \in s : s \ {x} \in Same
      PROVE  s \in Same
    <2> SUFFICES ASSUME \A x \in s : f[x] = g[x] PROVE a[s] = b[s]
        OBVIOUS
    <2>1. PICK x \in s : TRUE
        BY <1>4
    <2>2. a[s \ {x}] = b[s \ {x}]
        BY <1>4, <2>1
    <2>3. a[s] = f[x] + a[s \ {x}] /\ b[s] = g[x] + b[s \ {x}]
        BY <1>1, <1>2, <2>1 DEF Removes
    <2>4. QED
        BY <2>1, <2>2, <2>3
<1> HIDE DEF Same
<1>5. IsFiniteSet(S \cap R)
    BY FS_Subset
<1>6. SUBSET (S \cap R) \subseteq Same
    BY <1>3, <1>4, <1>5, RemovalInduction
<1>7. QED
    BY <1>6 DEF Same

LEMMA SumOfNone ==
    ASSUME NEW f PROVE SumFunctionOnSet(f, {}) = 0
<1>1. IsFiniteSet({}) /\ \A x \in {} : f[x] \in Int
    BY FS_EmptySet
<1>2. PICK sum : IsFold(sum, f, {}) /\ SumFunctionOnSet(f, {}) = sum[{}]
    BY <1>1, SumIsFold
<1>3. Removes(sum, f, {})
    BY <1>1, <1>2, FoldRemoves
<1>4. QED
    BY <1>2, <1>3 DEF Removes

LEMMA SumSame ==
    ASSUME NEW S, IsFiniteSet(S), NEW f, \A x \in S : f[x] \in Int,
           NEW g, \A x \in S : f[x] = g[x]
    PROVE  SumFunctionOnSet(f, S) = SumFunctionOnSet(g, S)
<1>1. PICK a : IsFold(a, f, S) /\ SumFunctionOnSet(f, S) = a[S]
    BY SumIsFold
<1>2. PICK b : IsFold(b, g, S) /\ SumFunctionOnSet(g, S) = b[S]
    BY SumIsFold
<1>3. a[S] = b[S]
    BY <1>1, <1>2, FoldsAgree
<1>4. QED
    BY <1>1, <1>2, <1>3

LEMMA SumType ==
    ASSUME NEW S, IsFiniteSet(S), NEW f, \A x \in S : f[x] \in Int
    PROVE  SumFunctionOnSet(f, S) \in Int
<1>1. PICK a : IsFold(a, f, S) /\ SumFunctionOnSet(f, S) = a[S]
    BY SumIsFold
<1>2. Removes(a, f, S)
    BY <1>1, FoldRemoves
<1>3. QED
    BY <1>1, <1>2 DEF Removes

LEMMA SumRemove ==
    ASSUME NEW S, IsFiniteSet(S), NEW f, \A x \in S : f[x] \in Int, NEW x \in S
    PROVE  SumFunctionOnSet(f, S) = f[x] + SumFunctionOnSet(f, S \ {x})
<1>1. PICK a : IsFold(a, f, S) /\ SumFunctionOnSet(f, S) = a[S]
    BY SumIsFold
<1>2. IsFiniteSet(S \ {x})
    BY FS_RemoveElement
<1>3. PICK b : IsFold(b, f, S \ {x}) /\ SumFunctionOnSet(f, S \ {x}) = b[S \ {x}]
    BY <1>2, SumIsFold
<1>4. a[S \ {x}] = b[S \ {x}]
    BY <1>1, <1>2, <1>3, FoldsAgree
<1>5. a[S] = f[x] + a[S \ {x}]
    <2>1. Removes(a, f, S)
        BY <1>1, FoldRemoves
    <2>2. QED
        BY <2>1 DEF Removes
<1>6. QED
    BY <1>1, <1>3, <1>4, <1>5

LEMMA SumNatural ==
    ASSUME NEW S, IsFiniteSet(S), NEW f, \A x \in S : f[x] \in Nat
    PROVE  /\ SumFunctionOnSet(f, S) \in Nat
           /\ \A x \in S : f[x] <= SumFunctionOnSet(f, S)
           /\ (\A x \in S : f[x] = 0) => SumFunctionOnSet(f, S) = 0
<1> DEFINE Sum(A) == SumFunctionOnSet(f, A)
           Good == {A \in SUBSET S : /\ Sum(A) \in Nat
                                     /\ \A x \in A : f[x] <= Sum(A)
                                     /\ (\A x \in A : f[x] = 0) => Sum(A) = 0}
<1>1. {} \in Good
    BY SumOfNone
<1>2. ASSUME NEW A \in SUBSET S, NEW x \in S, A \in Good, x \notin A
      PROVE  A \cup {x} \in Good
    <2>1. IsFiniteSet(A \cup {x}) /\ (A \cup {x}) \ {x} = A
        BY <1>2, FS_Subset, FS_AddElement
    <2>2. \A y \in A \cup {x} : f[y] \in Int
        OBVIOUS
    <2>3. Sum(A \cup {x}) = f[x] + Sum((A \cup {x}) \ {x})
        BY <2>1, <2>2, SumRemove
    <2>4. Sum(A \cup {x}) = f[x] + Sum(A)
        BY <2>1, <2>3
    <2> HIDE DEF Sum
    <2>5. QED
        BY <1>2, <2>4
<1> HIDE DEF Good
<1>3. S \in Good
    BY <1>1, <1>2, FiniteSetInduction
<1>4. QED
    BY <1>3 DEF Good

\* What lies outside of R adds nothing.
LEMMA SumWithin ==
    ASSUME NEW S, IsFiniteSet(S), NEW f, \A x \in S : f[x] \in Int,
           NEW R \in SUBSET S, \A x \in S \ R : f[x] = 0
    PROVE  SumFunctionOnSet(f, S) = SumFunctionOnSet(f, R)
<1> DEFINE Sum(A) == SumFunctionOnSet(f, A)
           Good == {A \in SUBSET S : Sum(A) = Sum(A \cap R)}
<1>1. {} \in Good
    BY SumOfNone
<1>2. ASSUME NEW A \in SUBSET S, NEW x \in S, A \in Good, x \notin A
      PROVE  A \cup {x} \in Good
    <2>1. /\ IsFiniteSet(A) /\ IsFiniteSet(A \cup {x}) /\ (A \cup {x}) \ {x} = A
          /\ \A y \in A \cup {x} : f[y] \in Int
        BY <1>2, FS_Subset, FS_AddElement
    <2>2. Sum(A) \in Int
        BY <2>1, SumType
    <2>3. Sum(A \cup {x}) = f[x] + Sum((A \cup {x}) \ {x})
        BY <2>1, SumRemove
    <2>4. Sum(A \cup {x}) = f[x] + Sum(A)
        BY <2>1, <2>3
    <2>5. CASE x \in R
        <3> DEFINE B == (A \cup {x}) \cap R
        <3>1. IsFiniteSet(B) /\ x \in B /\ (\A y \in B : f[y] \in Int) /\ B \ {x} = A \cap R
            BY <1>2, <2>1, <2>5, FS_Subset
        <3>2. Sum(B) = f[x] + Sum(B \ {x})
            <4> HIDE DEF B
            <4>1. QED
                BY <3>1, SumRemove
        <3>3. Sum(B) = f[x] + Sum(A \cap R)
            <4> HIDE DEF B
            <4>1. QED
                BY <3>1, <3>2
        <3> HIDE DEF Sum
        <3>4. QED
            BY <1>2, <2>4, <3>3
    <2>6. CASE x \notin R
        <3>1. (A \cup {x}) \cap R = A \cap R /\ f[x] = 0
            BY <2>6
        <3>2. Sum(A) = Sum(A \cap R)
            BY <1>2
        <3> HIDE DEF Sum
        <3>3. Sum(A \cup {x}) = Sum(A)
            BY <2>2, <2>4, <3>1
        <3>4. Sum(A \cup {x}) = Sum((A \cup {x}) \cap R)
            BY <3>1, <3>2, <3>3
        <3>5. QED
            BY <3>4
    <2>7. QED
        BY <2>5, <2>6
<1> HIDE DEF Good
<1>3. S \in Good
    BY <1>1, <1>2, FiniteSetInduction
<1>4. S \cap R = R
    OBVIOUS
<1>5. QED
    BY <1>3, <1>4 DEF Good

\* g gives the names of the elements of S, one to one, the values of f.
Renames(name, f, S, g, R) ==
    /\ \A x \in S : name[x] \in R /\ g[name[x]] = f[x]
    /\ \A x, y \in S : name[x] = name[y] => x = y
    /\ \A z \in R : \E x \in S : name[x] = z

\* Renaming the elements leaves the sum alone.
LEMMA SumRenamed ==
    ASSUME NEW S, IsFiniteSet(S), NEW f, \A x \in S : f[x] \in Int,
           NEW R, NEW g, NEW name, Renames(name, f, S, g, R)
    PROVE  SumFunctionOnSet(g, R) = SumFunctionOnSet(f, S)
<1> USE DEF Renames
<1> DEFINE Names(A) == {name[x] : x \in A}
           Good == {A \in SUBSET S : /\ IsFiniteSet(Names(A))
                                     /\ SumFunctionOnSet(g, Names(A)) = SumFunctionOnSet(f, A)}
<1>1. {} \in Good
    <2>1. Names({}) = {}
        OBVIOUS
    <2>2. SumFunctionOnSet(f, {}) = 0 /\ SumFunctionOnSet(g, {}) = 0
        BY SumOfNone
    <2> HIDE DEF Names
    <2>3. QED
        BY <2>1, <2>2, FS_EmptySet
<1>2. ASSUME NEW A \in SUBSET S, NEW x \in S, A \in Good, x \notin A
      PROVE  A \cup {x} \in Good
    <2> DEFINE B == Names(A \cup {x})
    <2>1. /\ IsFiniteSet(A \cup {x}) /\ (A \cup {x}) \ {x} = A
          /\ \A y \in A \cup {x} : f[y] \in Int
        BY <1>2, FS_Subset, FS_AddElement
    <2>2. /\ B = Names(A) \cup {name[x]} /\ name[x] \in B
          /\ B \ {name[x]} = Names(A)
        BY <1>2
    <2>3. \A z \in B : g[z] \in Int
        OBVIOUS
    <2> HIDE DEF Names
    <2>4. IsFiniteSet(B)
        <3>1. IsFiniteSet(Names(A))
            BY <1>2
        <3>2. IsFiniteSet(Names(A) \cup {name[x]})
            BY <3>1, FS_AddElement
        <3>3. QED
            BY <2>2, <3>2
    <2> HIDE DEF B
    <2>5. SumFunctionOnSet(g, B) = g[name[x]] + SumFunctionOnSet(g, B \ {name[x]})
        BY <2>2, <2>3, <2>4, SumRemove
    <2>6. SumFunctionOnSet(f, A \cup {x}) = f[x] + SumFunctionOnSet(f, (A \cup {x}) \ {x})
        BY <2>1, SumRemove
    <2>7. SumFunctionOnSet(g, B) = SumFunctionOnSet(f, A \cup {x})
        <3>1. SumFunctionOnSet(g, B) = f[x] + SumFunctionOnSet(f, A)
            BY <1>2, <2>2, <2>5
        <3>2. SumFunctionOnSet(f, A \cup {x}) = f[x] + SumFunctionOnSet(f, A)
            BY <2>1, <2>6
        <3>3. QED
            BY <3>1, <3>2
    <2>8. QED
        BY <2>4, <2>7 DEF B
<1>3. Names(S) = R
    OBVIOUS
<1> HIDE DEF Good, Names
<1>4. S \in Good
    BY <1>1, <1>2, FiniteSetInduction
<1>5. QED
    BY <1>3, <1>4 DEF Good

\* f[k] is the number of elements of S that are of class k.
CountsClasses(f, S, K, class) ==
    /\ \A x \in S : class[x] \in K
    /\ \A k \in K : f[k] = Cardinality({x \in S : class[x] = k})

\* Counting the elements class by class counts all of them.
LEMMA CountByClass ==
    ASSUME NEW S, IsFiniteSet(S), NEW K, IsFiniteSet(K),
           NEW class, NEW f, CountsClasses(f, S, K, class)
    PROVE  SumFunctionOnSet(f, K) = Cardinality(S)
<1> USE DEF CountsClasses
<1> DEFINE Part(A, k) == {x \in A : class[x] = k}
           Count(A) == [k \in K |-> Cardinality(Part(A, k))]
           Good == {A \in SUBSET S : SumFunctionOnSet(Count(A), K) = Cardinality(A)}
<1>1. ASSUME NEW A \in SUBSET S
      PROVE  /\ IsFiniteSet(A) /\ Cardinality(A) \in Nat
             /\ \A k \in K : /\ IsFiniteSet(Part(A, k))
                             /\ Count(A)[k] = Cardinality(Part(A, k))
                             /\ Count(A)[k] \in Nat /\ Count(A)[k] \in Int
    <2>1. IsFiniteSet(A) /\ Cardinality(A) \in Nat
        BY FS_Subset, FS_CardinalityType
    <2>2. ASSUME NEW k \in K PROVE IsFiniteSet(Part(A, k)) /\ Cardinality(Part(A, k)) \in Nat
        <3>1. Part(A, k) \in SUBSET S
            OBVIOUS
        <3> HIDE DEF Part
        <3>2. QED
            BY <3>1, FS_Subset, FS_CardinalityType
    <2> HIDE DEF Part
    <2>3. QED
        BY <2>1, <2>2
<1>2. {} \in Good
    <2>1. \A k \in K : Part({}, k) = {}
        OBVIOUS
    <2> HIDE DEF Part
    <2>2. \A k \in K : Count({})[k] = 0
        BY <2>1, FS_EmptySet
    <2> HIDE DEF Count
    <2>3. \A k \in K : Count({})[k] \in Nat
        BY <2>2
    <2>4. SumFunctionOnSet(Count({}), K) = 0
        BY <2>2, <2>3, SumNatural
    <2>5. QED
        BY <2>4, FS_EmptySet
<1>3. ASSUME NEW A \in SUBSET S, NEW x \in S, A \in Good, x \notin A
      PROVE  A \cup {x} \in Good
    <2> DEFINE B == A \cup {x}
               k == class[x]
    <2>1. B \in SUBSET S /\ k \in K
        OBVIOUS
    <2>2. Part(B, k) = Part(A, k) \cup {x} /\ x \notin Part(A, k)
        BY <1>3
    <2>3. \A j \in K \ {k} : Part(B, j) = Part(A, j)
        OBVIOUS
    <2>4. Cardinality(B) = Cardinality(A) + 1
        BY <1>1, <1>3, FS_AddElement
    <2> HIDE DEF Part
    <2>5. Cardinality(Part(B, k)) = Cardinality(Part(A, k)) + 1
        <3>1. IsFiniteSet(Part(A, k))
            BY <1>1, <2>1
        <3>2. QED
            BY <2>2, <3>1, FS_AddElement
    <2>6. Count(B)[k] = Count(A)[k] + 1
        BY <2>1, <2>5
    <2>7. \A j \in K \ {k} : Count(B)[j] = Count(A)[j]
        BY <2>3
    <2> HIDE DEF Count, B, k
    <2>8. SumFunctionOnSet(Count(A), K) = Count(A)[k] + SumFunctionOnSet(Count(A), K \ {k})
        BY <1>1, <2>1, SumRemove
    <2>9. SumFunctionOnSet(Count(B), K) = Count(B)[k] + SumFunctionOnSet(Count(B), K \ {k})
        BY <1>1, <2>1, SumRemove
    <2>10. /\ IsFiniteSet(K \ {k})
           /\ \A j \in K \ {k} : Count(A)[j] \in Int /\ Count(B)[j] \in Int
        BY <1>1, <2>1, FS_RemoveElement
    <2>11. SumFunctionOnSet(Count(A), K \ {k}) = SumFunctionOnSet(Count(B), K \ {k})
        BY <2>7, <2>10, SumSame
    <2>12. SumFunctionOnSet(Count(A), K \ {k}) \in Int /\ Count(A)[k] \in Int
        BY <1>1, <2>1, <2>10, SumType
    <2>13. SumFunctionOnSet(Count(A), K) = Cardinality(A)
        BY <1>3
    <2>14. SumFunctionOnSet(Count(B), K) = Cardinality(B)
        BY <2>4, <2>6, <2>8, <2>9, <2>11, <2>12, <2>13
    <2>15. QED
        BY <2>1, <2>14 DEF B
<1> HIDE DEF Good
<1>4. S \in Good
    BY <1>2, <1>3, FiniteSetInduction
<1>5. SumFunctionOnSet(Count(S), K) = Cardinality(S)
    BY <1>4 DEF Good
<1>6. \A k \in K : f[k] = Count(S)[k] /\ f[k] \in Int
    <2>1. S \in SUBSET S
        OBVIOUS
    <2>2. \A k \in K : Count(S)[k] \in Int /\ Count(S)[k] = Cardinality(Part(S, k))
        BY <1>1, <2>1
    <2>3. QED
        BY <2>2
<1> HIDE DEF Count
<1>7. SumFunctionOnSet(f, K) = SumFunctionOnSet(Count(S), K)
    BY <1>6, SumSame
<1>8. QED
    BY <1>5, <1>7

=============================================================================
