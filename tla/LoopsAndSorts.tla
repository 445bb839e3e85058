--------------------------- MODULE LoopsAndSorts ---------------------------
(***************************************************************************)
(* What the proofs about sequential code rest on: induction over the       *)
(* rounds of a loop, the values a loop computes, and what a sorted order   *)
(* of a list says about the number of smaller items.                       *)
(***************************************************************************)
EXTENDS Integers, FiniteSetTheorems, TLAPS

-----------------------------------------------------------------------------
(* Induction, with the property as a set of numbers, and what loops compute *)

\* Every set of numbers that is not empty has a least one.
LEMMA Least ==
    ASSUME NEW T \in SUBSET Nat, T # {}
    PROVE  \E x \in T : \A y \in T : x <= y
<1> DEFINE R == OpToRel(<, Nat)
<1>1. IsWellFoundedOn(R, Nat)
  BY NatLessThanWellFounded
<1>2. \A x, y \in Nat : <<y, x>> \in R <=> y < x
  BY DEF OpToRel
<1> HIDE DEF R
<1>3. PICK x \in T : \A y \in T : ~(<<y, x>> \in R)
  BY <1>1, WFMin
<1>4. ASSUME NEW y \in T PROVE x <= y
  <2>1. x \in Nat /\ y \in Nat
    OBVIOUS
  <2>2. ~(y < x)
    BY <1>2, <1>3, <2>1, Zenon
  <2> QED
    BY <2>1, <2>2
<1> QED
  BY <1>4

\* A set that holds 0 and, with each number below n, the next one holds 0..n.
LEMMA Induction ==
    ASSUME NEW n \in Nat, NEW T, 0 \in T, \A i \in 1..n : i - 1 \in T => i \in T
    PROVE  \A i \in 0..n : i \in T
<1> SUFFICES ASSUME NEW k \in 0..n, k \notin T PROVE FALSE
    OBVIOUS
<1> DEFINE Bad == {i \in 0..n : i \notin T}
<1>1. Bad \in SUBSET Nat /\ Bad # {}
  OBVIOUS
<1>2. PICK x \in Bad : \A y \in Bad : x <= y
  BY <1>1, Least
<1>3. x \in 1..n /\ x \notin T
  BY <1>2
<1>4. x - 1 \in 0..n /\ ~(x <= x - 1)
  BY <1>3
<1>5. x - 1 \in T
  BY <1>2, <1>4
<1> QED
  BY <1>3, <1>5

\* The values f of a loop over n items that starts with a0 in S and whose round i
\* makes step[i][v] of v.
Loop(f, n, S, a0, step) ==
    /\ f \in [0..n -> S] /\ f[0] = a0
    /\ \A i \in 1..n : f[i] = step[i][f[i - 1]]

\* A loop has a value after each round.
LEMMA LoopRuns ==
    ASSUME NEW n \in Nat, NEW S, NEW a0 \in S, NEW step \in [1..n -> [S -> S]]
    PROVE  \E f : Loop(f, n, S, a0, step)
<1> DEFINE Run(f, m) == /\ f \in [0..m -> S] /\ f[0] = a0
                        /\ \A i \in 1..m : f[i] = step[i][f[i - 1]]
           T == {m \in 0..n : \E f : Run(f, m)}
<1>1. 0 \in T
  <2> DEFINE base == [i \in {0} |-> a0]
  <2>1. Run(base, 0)
    <3>1. 0..0 = {0} /\ 1..0 = {}
      OBVIOUS
    <3> QED
      BY <3>1
  <2> HIDE DEF base, Run
  <2> QED
    BY <2>1
<1>2. ASSUME NEW m \in 1..n, m - 1 \in T PROVE m \in T
  <2>1. PICK f : Run(f, m - 1)
    BY <1>2
  <2> DEFINE g == [i \in 0..m |-> IF i = m THEN step[m][f[m - 1]] ELSE f[i]]
  <2>2. f[m - 1] \in S
    BY <2>1
  <2>3. step[m][f[m - 1]] \in S
    BY <2>2
  <2>4. g \in [0..m -> S]
    BY <2>1, <2>3
  <2>5. g[0] = a0
    BY <2>1
  <2>6. ASSUME NEW i \in 1..m PROVE g[i] = step[i][g[i - 1]]
    <3>1. i - 1 \in 0..(m - 1) /\ i - 1 \in 0..m /\ i - 1 # m
      OBVIOUS
    <3>2. g[i - 1] = f[i - 1]
      BY <3>1
    <3>3. CASE i = m
      <4>1. g[m] = step[m][f[m - 1]]
        OBVIOUS
      <4> HIDE DEF g
      <4> QED
        BY <3>2, <3>3, <4>1
    <3>4. CASE i # m
      BY <2>1, <3>2, <3>4
    <3> QED
      BY <3>3, <3>4
  <2> HIDE DEF g
  <2>7. Run(g, m)
    BY <2>4, <2>5, <2>6
  <2> HIDE DEF Run
  <2> QED
    BY <2>7
<1> HIDE DEF T
<1>3. n \in T
  <2>1. \A i \in 0..n : i \in T
    BY <1>1, <1>2, Induction
  <2> QED
    BY <2>1
<1> QED
  BY <1>3 DEF T, Loop

\* The values g[s] of a fold over the parts s of S, which takes out the elements
\* one by one in the order that pick gives and applies op to each.
Folding(g, S, V, base, pick, op) ==
    /\ g \in [SUBSET S -> V]
    /\ \A s \in SUBSET S :
           g[s] = IF s = {} THEN base ELSE op[pick[s]][g[s \ {pick[s]}]]

\* A fold over a finite set has a value.
LEMMA FoldRuns ==
    ASSUME NEW S, IsFiniteSet(S), NEW V, NEW base \in V, NEW pick,
           \A s \in SUBSET S : s # {} => pick[s] \in s,
           NEW op \in [S -> [V -> V]]
    PROVE  \E g : Folding(g, S, V, base, pick, op)
<1> DEFINE n == Cardinality(S)
           W == [SUBSET S -> V]
           Round(w) == [s \in SUBSET S |-> IF s = {} THEN base
                                           ELSE op[pick[s]][w[s \ {pick[s]}]]]
           step == [i \in 1..n |-> [w \in W |-> Round(w)]]
           a0 == [s \in SUBSET S |-> base]
<1>1. n \in Nat /\ \A s \in SUBSET S : IsFiniteSet(s) /\ Cardinality(s) \in 0..n
  BY FS_CardinalityType, FS_Subset
<1>2. a0 \in W /\ \A w \in W : Round(w) \in W
  <2>1. ASSUME NEW w \in W, NEW s \in SUBSET S
        PROVE  (IF s = {} THEN base ELSE op[pick[s]][w[s \ {pick[s]}]]) \in V
    <3>1. ASSUME s # {} PROVE op[pick[s]][w[s \ {pick[s]}]] \in V
      <4>1. pick[s] \in S /\ s \ {pick[s]} \in SUBSET S
        BY <3>1
      <4>2. w[s \ {pick[s]}] \in V /\ op[pick[s]] \in [V -> V]
        BY <4>1
      <4> QED
        BY <4>2
    <3> QED
      BY <3>1
  <2> QED
    BY <2>1
<1>3. \A w \in W, s \in SUBSET S :
         Round(w)[s] = IF s = {} THEN base ELSE op[pick[s]][w[s \ {pick[s]}]]
  OBVIOUS
<1> HIDE DEF n, W, Round, a0
<1>4. step \in [1..n -> [W -> W]] /\ \A i \in 1..n, w \in W : step[i][w] = Round(w)
  BY <1>2
<1> HIDE DEF step
<1>5. PICK f : Loop(f, n, W, a0, step)
  BY <1>1, <1>2, <1>4, LoopRuns
<1>6. /\ \A i \in 0..n : f[i] \in W
      /\ \A i \in 1..n : i - 1 \in 0..n /\ f[i] = Round(f[i - 1])
      /\ f[0] = a0 /\ 0 \in 0..n
  BY <1>1, <1>4, <1>5 DEF Loop
<1> DEFINE Settled(i) == \A s \in SUBSET S : Cardinality(s) <= i => Round(f[i])[s] = f[i][s]
           T == {i \in 0..n : Settled(i)}
<1>7. 0 \in T
  <2>1. ASSUME NEW s \in SUBSET S, Cardinality(s) <= 0 PROVE Round(f[0])[s] = f[0][s]
    <3>1. s = {}
      BY <1>1, <2>1, FS_EmptySet
    <3> QED
      BY <1>3, <1>6, <3>1 DEF a0
  <2> QED
    BY <1>6, <2>1
<1>8. ASSUME NEW i \in 1..n, i - 1 \in T PROVE i \in T
  <2>1. f[i] \in W /\ f[i - 1] \in W /\ f[i] = Round(f[i - 1]) /\ i \in 0..n /\ i \in Int
    BY <1>6
  <2>2. ASSUME NEW s \in SUBSET S, Cardinality(s) <= i PROVE Round(f[i])[s] = f[i][s]
    <3>1. CASE s = {}
      BY <1>3, <2>1, <3>1
    <3>2. CASE s # {}
      <4> DEFINE r == s \ {pick[s]}
      <4>1. pick[s] \in s /\ r \in SUBSET S
        BY <3>2
      <4>2. Cardinality(r) = Cardinality(s) - 1
        BY <1>1, <4>1, FS_RemoveElement
      <4>3. Cardinality(r) <= i - 1
        <5>1. Cardinality(s) \in Int
          BY <1>1
        <5> HIDE DEF r
        <5> QED
          BY <2>1, <2>2, <4>2, <5>1
      <4>4. Round(f[i - 1])[r] = f[i - 1][r]
        BY <1>8, <4>1, <4>3
      <4>5. \A w \in W : Round(w)[s] = op[pick[s]][w[r]]
        BY <1>3, <3>2
      <4>6. f[i][r] = f[i - 1][r]
        BY <2>1, <4>4
      <4> HIDE DEF r
      <4> QED
        BY <2>1, <4>5, <4>6
    <3> QED
      BY <3>1, <3>2
  <2> QED
    BY <2>1, <2>2
<1> HIDE DEF T
<1>9. n \in T
  <2>1. \A i \in 0..n : i \in T
    BY <1>1, <1>7, <1>8, Induction
  <2> QED
    BY <1>1, <2>1
<1>10. f[n] \in W /\ \A s \in SUBSET S : Round(f[n])[s] = f[n][s]
  BY <1>1, <1>6, <1>9 DEF T
<1>11. \A s \in SUBSET S :
          f[n][s] = IF s = {} THEN base ELSE op[pick[s]][f[n][s \ {pick[s]}]]
  BY <1>3, <1>10
<1> QED
  BY <1>10, <1>11 DEF W, Folding

-----------------------------------------------------------------------------
(* Sorting *)

\* Every finite list can be sorted, equal keys in the order they had: the place of
\* an index is the number of indices with a smaller key, or with the same key and
\* further left.
LEMMA CanBeSorted ==
    ASSUME NEW n \in Nat, NEW key \in [1..n -> Int]
    PROVE  \E p \in [1..n -> 1..n] :
               \A i, j \in 1..n : i < j =>
                   \/ key[p[i]] < key[p[j]]
                   \/ key[p[i]] = key[p[j]] /\ p[i] < p[j]
<1> DEFINE I == 1..n
           Left(k, j) == key[k] < key[j] \/ (key[k] = key[j] /\ k < j)
           Less(j) == {k \in I : Left(k, j)}
           place == [j \in I |-> Cardinality(Less(j)) + 1]
<1>1. IsFiniteSet(I) /\ Cardinality(I) = n
  BY FS_Interval
<1>2. /\ \A j \in I : ~Left(j, j)
      /\ \A j, k \in I : j = k \/ Left(j, k) \/ Left(k, j)
      /\ \A i, j, k \in I : Left(i, j) /\ Left(j, k) => Left(i, k)
  OBVIOUS
<1> HIDE DEF Left
<1>3. ASSUME NEW j \in I
      PROVE  /\ IsFiniteSet(Less(j)) /\ Cardinality(Less(j)) \in Nat
             /\ Cardinality(Less(j)) < n
  <2>1. Less(j) \in SUBSET I /\ Less(j) # I
    BY <1>2
  <2>2. IsFiniteSet(Less(j)) /\ Cardinality(Less(j)) <= Cardinality(I)
        /\ Cardinality(Less(j)) # Cardinality(I)
    BY <1>1, <2>1, FS_Subset
  <2> QED
    BY <1>1, <2>2, FS_CardinalityType
<1>4. ASSUME NEW j \in I, NEW k \in I, Left(j, k)
      PROVE  place[j] < place[k]
  <2>1. Less(j) \in SUBSET Less(k) /\ Less(j) # Less(k)
    BY <1>2, <1>4
  <2>2. /\ Cardinality(Less(j)) <= Cardinality(Less(k))
        /\ Cardinality(Less(j)) # Cardinality(Less(k))
    BY <1>3, <2>1, FS_Subset
  <2>3. Cardinality(Less(j)) \in Nat /\ Cardinality(Less(k)) \in Nat
    BY <1>3
  <2> HIDE DEF Less
  <2> QED
    BY <2>2, <2>3
<1> HIDE DEF Less
<1>5. place \in [I -> I]
  BY <1>3
<1> HIDE DEF place
<1>6. place \in Injection(I, I)
  <2>1. ASSUME NEW j \in I, NEW k \in I, place[j] = place[k] PROVE j = k
    <3>1. place[j] \in Int /\ place[k] \in Int
      BY <1>5
    <3>2. ~(place[j] < place[k]) /\ ~(place[k] < place[j])
      BY <2>1, <3>1
    <3> QED
      BY <1>2, <1>4, <3>2
  <2> QED
    BY <1>5, <2>1 DEF Injection, IsInjective
<1>7. \A i \in I : \E j \in I : place[j] = i
  <2>1. place \in Surjection(I, I)
    BY <1>1, <1>6, FS_Injection
  <2> QED
    BY <2>1 DEF Surjection
<1> DEFINE p == [i \in I |-> CHOOSE j \in I : place[j] = i]
<1>8. p \in [I -> I] /\ \A i \in I : place[p[i]] = i
  BY <1>7
<1> HIDE DEF p
<1>9. ASSUME NEW i \in I, NEW j \in I, i < j
      PROVE  Left(p[i], p[j])
  <2>1. p[i] \in I /\ p[j] \in I /\ place[p[i]] = i /\ place[p[j]] = j /\ i \in Int /\ j \in Int
    BY <1>8
  <2>2. p[i] # p[j]
    BY <1>9, <2>1
  <2>3. ~(place[p[j]] < place[p[i]])
    BY <1>9, <2>1
  <2> QED
    BY <1>2, <1>4, <2>1, <2>2, <2>3
<1> QED
  BY <1>8, <1>9 DEF Left

\* The p that put a list with these keys into order.
Sorts(p, n, key) ==
    /\ p \in [1..n -> 1..n]
    /\ \A i, j \in 1..n : i < j => p[i] # p[j] /\ key[p[i]] <= key[p[j]]

\* Sorting loses nothing.
LEMMA SortsOnto ==
    ASSUME NEW n \in Nat, NEW p \in [1..n -> 1..n],
           \A i, j \in 1..n : i < j => p[i] # p[j]
    PROVE  \A i \in 1..n : \E j \in 1..n : p[j] = i
<1>1. IsFiniteSet(1..n)
  BY FS_Interval
<1>2. p \in Injection(1..n, 1..n)
  BY DEF Injection, IsInjective
<1>3. p \in Surjection(1..n, 1..n)
  BY <1>1, <1>2, FS_Injection
<1> QED
  BY <1>3 DEF Surjection

\* The k-th item of a sorted list has at most k - 1 items below it and at least k
\* items not above it.
LEMMA SortedCounts ==
    ASSUME NEW n \in Nat, NEW key \in [1..n -> Int], NEW p, Sorts(p, n, key), NEW k \in 1..n
    PROVE  /\ Cardinality({i \in 1..n : key[i] < key[p[k]]}) \in 0..(k - 1)
           /\ Cardinality({i \in 1..n : key[i] <= key[p[k]]}) \in k..n
<1> DEFINE I == 1..n
           v == key[p[k]]
           below == {i \in I : key[i] < v}
           upto == {i \in I : key[i] <= v}
<1>1. IsFiniteSet(I) /\ Cardinality(I) = n
  BY FS_Interval
<1>2. /\ p \in [I -> I]
      /\ \A i, j \in I : i < j => p[i] # p[j] /\ key[p[i]] <= key[p[j]]
  BY DEF Sorts
<1>3. \A i \in I : \E j \in I : p[j] = i
  <2>1. p \in [1..n -> 1..n] /\ \A i, j \in 1..n : i < j => p[i] # p[j]
    BY <1>2
  <2> QED
    BY <2>1, SortsOnto
<1>4. \A i, j \in I : i <= j => key[p[i]] <= key[p[j]]
  BY <1>2
<1>5. /\ IsFiniteSet(below) /\ Cardinality(below) \in Nat
      /\ IsFiniteSet(upto) /\ Cardinality(upto) \in Nat /\ Cardinality(upto) <= n
  <2>1. below \in SUBSET I /\ upto \in SUBSET I
    OBVIOUS
  <2> QED
    BY <1>1, <2>1, FS_Subset, FS_CardinalityType
<1>6. Cardinality(below) <= k - 1
  <2> DEFINE at == [i \in below |-> CHOOSE j \in I : p[j] = i]
  <2>1. \A i \in below : at[i] \in I /\ p[at[i]] = i
    BY <1>3
  <2>2. at = [i \in below |-> at[i]]
    OBVIOUS
  <2> HIDE DEF at
  <2>3. \A i \in below : at[i] \in 1..(k - 1)
    <3> SUFFICES ASSUME NEW i \in below PROVE at[i] \in 1..(k - 1)
        OBVIOUS
    <3>1. at[i] \in I /\ p[at[i]] = i /\ key[i] < key[p[k]] /\ i \in I
      BY <2>1
    <3>2. ~(k <= at[i])
      BY <1>2, <1>4, <3>1, SMTT(30)
    <3> QED
      BY <3>1, <3>2
  <2>4. at \in Injection(below, 1..(k - 1))
    <3>1. at \in [below -> 1..(k - 1)]
      BY <2>2, <2>3
    <3>2. \A i, j \in below : at[i] = at[j] => i = j
      BY <2>1
    <3> HIDE DEF below
    <3> QED
      BY <3>1, <3>2 DEF Injection, IsInjective
  <2>5. IsFiniteSet(1..(k - 1)) /\ Cardinality(1..(k - 1)) = k - 1
    BY FS_Interval
  <2> QED
    BY <2>4, <2>5, FS_Injection
<1>7. Cardinality(upto) >= k
  <2> DEFINE first == [j \in 1..k |-> p[j]]
  <2>1. \A j \in 1..k : p[j] \in upto
    <3>1. k \in I /\ \A j \in 1..k : j \in I /\ j <= k
      OBVIOUS
    <3> QED
      BY <1>2, <1>4, <3>1
  <2>2. first \in Injection(1..k, upto)
    <3>1. 1..k \subseteq I
      OBVIOUS
    <3>2. \A i, j \in 1..k : first[i] = first[j] => i = j
      BY <1>2, <3>1
    <3> HIDE DEF upto
    <3>3. first \in [1..k -> upto]
      BY <2>1
    <3> HIDE DEF first
    <3> QED
      BY <3>2, <3>3 DEF Injection, IsInjective
  <2>3. IsFiniteSet(1..k) /\ Cardinality(1..k) = k
    BY FS_Interval
  <2> QED
    BY <1>5, <2>2, <2>3, FS_Injection
<1> HIDE DEF below, upto
<1>8. Cardinality(below) \in 0..(k - 1) /\ Cardinality(upto) \in k..n
  BY <1>5, <1>6, <1>7
<1> QED
  BY <1>8 DEF below, upto

=============================================================================
