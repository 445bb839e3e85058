-------------------------- MODULE StatisticsProofs --------------------------
(***************************************************************************)
(* Proofs about the two components that do arithmetic on lists of numbers. *)
(* LatencyTracker: for every window size, every log interval and any       *)
(* number of handlers and investigations.  Extractors: for every input of  *)
(* any length and every threshold.                                         *)
(***************************************************************************)
EXTENDS LatencyTracker, Extractors, LoopsAndSorts, FiniteSetTheorems, TLAPS

-----------------------------------------------------------------------------
(* The latency window *)

\* NewLatencyTracker never makes a tracker without room.
LEMMA CapacityPositive == Capacity \in Nat \ {0}
BY LatencyAssumption DEF Capacity

\* What Push gives: a window that fits, ends in the new sample and shifts the
\* others down by one exactly when it was full.
LEMMA PushFacts ==
    ASSUME NEW s \in Seq(Durations), Len(s) <= Capacity, NEW d \in Durations
    PROVE  /\ Push(s, d) \in Seq(Durations)
           /\ Len(s) < Capacity =>
                /\ Len(Push(s, d)) = Len(s) + 1
                /\ \A i \in 1..Len(s) : Push(s, d)[i] = s[i]
           /\ Len(s) = Capacity =>
                /\ Len(Push(s, d)) = Capacity
                /\ \A i \in 1..(Len(s) - 1) : Push(s, d)[i] = s[i + 1]
           /\ Push(s, d)[Len(Push(s, d))] = d
<1> DEFINE a == Append(s, d)
<1>1. /\ a \in Seq(Durations) /\ Len(a) = Len(s) + 1
      /\ \A i \in 1..Len(s) : a[i] = s[i]
      /\ a[Len(s) + 1] = d
  OBVIOUS
<1> HIDE DEF a
<1>2. CASE Len(s) < Capacity
  <2>1. Push(s, d) = a
    BY <1>2, CapacityPositive DEF Push, a
  <2> QED
    BY <1>1, <1>2, <2>1
<1>3. CASE Len(s) = Capacity
  <2>1. Push(s, d) = SubSeq(a, 2, Capacity + 1)
    BY <1>3, CapacityPositive DEF Push, a
  <2>2. /\ SubSeq(a, 2, Capacity + 1) \in Seq(Durations)
        /\ Len(SubSeq(a, 2, Capacity + 1)) = Capacity
        /\ \A i \in 1..Capacity : SubSeq(a, 2, Capacity + 1)[i] = a[i + 1]
    BY <1>1, <1>3, CapacityPositive
  <2> QED
    BY <1>1, <1>3, <2>1, <2>2, CapacityPositive
<1> QED
  BY <1>2, <1>3, CapacityPositive

\* The inductive invariant: a handler about to log saw a count that the window
\* has not fallen below since, because the window never shrinks.
LInv == TypeOK /\ WindowIsLatest /\ LabelNeverExceedsWindow

\* A new tracker is empty and nobody is about to log.
LEMMA InitLInv == Init => LInv
BY CapacityPositive DEF Init, LInv, TypeOK, WindowIsLatest, LabelNeverExceedsWindow

\* Observe, Count and the log line keep the window, whoever takes the lock next.
LEMMA StepLInv == LInv /\ [Next]_vars => LInv'
<1> SUFFICES ASSUME LInv, [Next]_vars PROVE LInv'
    OBVIOUS
<1> USE CapacityPositive, LatencyAssumption DEF LInv, TypeOK
<1>1. ASSUME NEW h \in Handlers, NEW d \in Durations, Observe(h, d)
      PROVE  LInv'
  <2>1. samples' = Push(samples, d) /\ observed' = Append(observed, d)
    BY <1>1 DEF Observe
  <2>2. /\ Len(observed') = Len(observed) + 1
        /\ observed'[Len(observed')] = d
        /\ \A i \in 1..Len(observed) : observed'[i] = observed[i]
    BY <2>1
  <2>3. /\ samples' \in Seq(Durations) /\ Len(samples') <= Capacity
        /\ Len(samples) <= Len(samples')
    BY <2>1, PushFacts
  <2>4. TypeOK'
    BY <1>1, <2>1, <2>3 DEF Observe
  <2>5. WindowIsLatest'
    <3>1. CASE Len(samples) < Capacity
      <4>1. Len(samples) = Len(observed) /\ Len(samples') = Len(observed')
        BY <2>1, <2>2, <3>1, PushFacts DEF WindowIsLatest
      <4>2. \A i \in 1..Len(samples') : samples'[i] = observed'[i]
        <5>1. \A i \in 1..Len(samples) : samples'[i] = samples[i] /\ samples[i] = observed[i]
          <6>1. \A i \in 1..Len(samples) : Len(observed) - Len(samples) + i = i
            BY <4>1
          <6>2. \A i \in 1..Len(samples) : samples[i] = observed[i]
            BY <6>1 DEF WindowIsLatest
          <6>3. \A i \in 1..Len(samples) : Push(samples, d)[i] = samples[i]
            BY <3>1, PushFacts
          <6> QED
            BY <2>1, <6>2, <6>3
        <5>2. samples'[Len(samples')] = d
          BY <2>1, PushFacts
        <5> QED
          BY <2>2, <4>1, <5>1, <5>2
      <4> QED
        BY <2>2, <2>3, <4>1, <4>2 DEF WindowIsLatest
    <3>2. CASE Len(samples) = Capacity
      <4>1. Len(samples') = Capacity /\ Len(observed) >= Capacity
        BY <2>1, <3>2, PushFacts, SMTT(30) DEF WindowIsLatest
      <4>2. ASSUME NEW i \in 1..(Capacity - 1)
            PROVE  samples'[i] = observed'[Len(observed') - Capacity + i]
        <5>1. samples'[i] = samples[i + 1]
          BY <2>1, <3>2, PushFacts
        <5>2. \A j \in 1..Capacity : samples[j] = observed[Len(observed) - Capacity + j]
          BY <3>2 DEF WindowIsLatest
        <5>3. samples[i + 1] = observed[Len(observed) - Capacity + (i + 1)]
          BY <5>2
        <5>4. /\ Len(observed') - Capacity + i = Len(observed) - Capacity + (i + 1)
              /\ Len(observed) - Capacity + (i + 1) \in 1..Len(observed)
          BY <2>2, <4>1
        <5> QED
          BY <2>2, <5>1, <5>3, <5>4
      <4>3. samples'[Capacity] = observed'[Len(observed')]
        BY <2>1, <2>2, <3>2, <4>1, PushFacts
      <4>4. \A i \in 1..Capacity : samples'[i] = observed'[Len(observed') - Capacity + i]
        <5>1. Len(observed') - Capacity + Capacity = Len(observed')
          BY <2>2
        <5>2. \A i \in 1..Capacity : i \in 1..(Capacity - 1) \/ i = Capacity
          OBVIOUS
        <5> QED
          BY <4>2, <4>3, <5>1, <5>2
      <4> QED
        BY <2>2, <4>1, <4>4 DEF WindowIsLatest
    <3> QED
      BY <3>1, <3>2
  <2>6. LabelNeverExceedsWindow'
    BY <1>1, <2>3 DEF Observe, LabelNeverExceedsWindow
  <2> QED
    BY <2>4, <2>5, <2>6
<1>2. ASSUME NEW h \in Handlers, Count(h)
      PROVE  LInv'
  <2> DEFINE due == Len(samples) >= LogEvery /\ Len(samples) % LogEvery = 0
             next == IF due THEN "log" ELSE "investigate"
  <2>1. /\ next \in {"log", "investigate"} /\ (next = "log" => due)
        /\ pc' = [pc EXCEPT ![h] = next]
    BY <1>2 DEF Count
  <2> HIDE DEF next
  <2>2. count' = [count EXCEPT ![h] = Len(samples)] /\ UNCHANGED <<samples, observed>>
    BY <1>2 DEF Count
  <2>3. TypeOK'
    BY <2>1, <2>2
  <2>4. WindowIsLatest'
    BY <2>2 DEF WindowIsLatest
  <2>5. /\ pc'[h] = "log" => Len(samples) >= LogEvery /\ Len(samples) % LogEvery = 0
        /\ count'[h] = Len(samples)
        /\ \A x \in Handlers : x # h => pc'[x] = pc[x] /\ count'[x] = count[x]
    BY <1>2, <2>1 DEF Count
  <2>6. LabelNeverExceedsWindow'
    BY <1>2, <2>5 DEF Count, LabelNeverExceedsWindow
  <2> QED
    BY <2>3, <2>4, <2>6
<1>3. ASSUME NEW h \in Handlers, LogP95(h)
      PROVE  LInv'
  BY <1>3 DEF LogP95, WindowIsLatest, LabelNeverExceedsWindow
<1>4. CASE UNCHANGED vars
  BY <1>4 DEF vars, WindowIsLatest, LabelNeverExceedsWindow
<1> QED
  BY <1>1, <1>2, <1>3, <1>4 DEF Next

\* The tracker keeps its types and its memory bound for every MaxSize, a
\* non-positive one included.
THEOREM TypeCorrect == Spec => []TypeOK
<1>1. Spec => []LInv
  BY InitLInv, StepLInv, PTL DEF Spec
<1> QED
  BY <1>1, PTL DEF LInv

\* The window is always the latest observations in the order of the Observe calls.
THEOREM WindowCorrect == Spec => []WindowIsLatest
<1>1. Spec => []LInv
  BY InitLInv, StepLInv, PTL DEF Spec
<1> QED
  BY <1>1, PTL DEF LInv

\* A logged p95 is never computed over fewer samples than the line reports.
THEOREM LabelCorrect == Spec => []LabelNeverExceedsWindow
<1>1. Spec => []LInv
  BY InitLInv, StepLInv, PTL DEF Spec
<1> QED
  BY <1>1, PTL DEF LInv

-----------------------------------------------------------------------------
(* Percentiles *)

\* What Sorted gives: its k-th sample has at most k - 1 samples below it and at
\* least k samples not above it.
LEMMA SortedFacts ==
    ASSUME NEW s \in Seq(Durations), NEW k \in 1..Len(s)
    PROVE  LET v == Sorted(s)[k] IN
           /\ \E i \in 1..Len(s) : s[i] = v
           /\ Cardinality({i \in 1..Len(s) : s[i] < v}) <= k - 1
           /\ Cardinality({i \in 1..Len(s) : s[i] <= v}) >= k
<1> DEFINE n == Len(s)
           I == 1..n
           order == CHOOSE p \in [I -> I] :
                       \A i, j \in I : i < j => p[i] # p[j] /\ s[p[i]] <= s[p[j]]
<1>1. n \in Nat /\ s \in [I -> Int]
  <2>1. n \in Nat /\ s \in [I -> Durations] /\ Durations \subseteq Int
    BY LatencyAssumption
  <2> QED
    BY <2>1
<1>2. Sorts(order, n, s)
  <2>1. PICK q \in [I -> I] : \A i, j \in I : i < j =>
            s[q[i]] < s[q[j]] \/ (s[q[i]] = s[q[j]] /\ q[i] < q[j])
    BY <1>1, CanBeSorted
  <2>2. \A i, j \in I : i < j => q[i] # q[j] /\ s[q[i]] <= s[q[j]]
    BY <1>1, <2>1
  <2> QED
    BY <2>2 DEF Sorts
<1>3. Sorted(s)[k] = s[order[k]]
  BY DEF Sorted
<1> HIDE DEF order
<1>4. order[k] \in I
  BY <1>2 DEF Sorts
<1> DEFINE below == {i \in I : s[i] < s[order[k]]}
           upto == {i \in I : s[i] <= s[order[k]]}
<1>5. Cardinality(below) \in 0..(k - 1) /\ Cardinality(upto) \in k..n
  BY <1>1, <1>2, SortedCounts
<1>6. Cardinality(below) <= k - 1 /\ Cardinality(upto) >= k
  <2> HIDE DEF below, upto
  <2> QED
    BY <1>1, <1>5
<1> QED
  BY <1>3, <1>4, <1>6

\* The rank of a percentile is an index of the window, so the corrections of an
\* index out of range never act.
LEMMA RankInRange ==
    ASSUME NEW n \in Nat \ {0}, NEW p \in {5, 50, 95}
    PROVE  /\ (p * (n - 1)) \div 100 \in 0..(n - 1)
           /\ Rank(n, p) = (p * (n - 1)) \div 100
<1>1. /\ (5 * (n - 1)) \div 100 \in 0..(n - 1)
      /\ (50 * (n - 1)) \div 100 \in 0..(n - 1)
      /\ (95 * (n - 1)) \div 100 \in 0..(n - 1)
  OBVIOUS
<1>2. (p * (n - 1)) \div 100 \in 0..(n - 1)
  BY <1>1
<1> QED
  BY <1>2 DEF Rank

\* Percentile over any window of durations is the order statistic of its rank.
LEMMA PercentileFacts ==
    ASSUME NEW s \in Seq(Durations), s # <<>>, NEW p \in {0, 5, 50, 95, 100}
    PROVE  LET v == Percentile(s, p)
               rank == (p * (Len(s) - 1)) \div 100
           IN  /\ \E i \in 1..Len(s) : s[i] = v
               /\ Cardinality({i \in 1..Len(s) : s[i] < v}) <= rank
               /\ Cardinality({i \in 1..Len(s) : s[i] <= v}) > rank
<1> DEFINE n == Len(s)
           I == 1..n
           below(x) == {i \in I : s[i] < x}
           upto(x) == {i \in I : s[i] <= x}
<1>1. n \in Nat \ {0} /\ s \in [I -> Int]
  <2>1. n \in Nat \ {0} /\ s \in [I -> Durations] /\ Durations \subseteq Int
    BY LatencyAssumption
  <2>2. \A S, T, U : T \subseteq U => [S -> T] \subseteq [S -> U]
    OBVIOUS
  <2> HIDE DEF n
  <2> QED
    BY <2>1, <2>2
<1>2. IsFiniteSet(I) /\ Cardinality(I) = n
  BY <1>1, FS_Interval
<1>3. ASSUME NEW x
      PROVE  /\ Cardinality(below(x)) \in Nat /\ Cardinality(upto(x)) \in Nat
             /\ IsFiniteSet(below(x)) /\ IsFiniteSet(upto(x))
             /\ below(x) # I => Cardinality(below(x)) <= n - 1
             /\ upto(x) # {} => Cardinality(upto(x)) > 0
  <2>1. below(x) \in SUBSET I /\ upto(x) \in SUBSET I
    OBVIOUS
  <2> HIDE DEF below, upto
  <2>2. /\ IsFiniteSet(below(x)) /\ IsFiniteSet(upto(x))
        /\ Cardinality(below(x)) <= n
        /\ Cardinality(below(x)) = n => below(x) = I
    BY <1>2, <2>1, FS_Subset
  <2>3. Cardinality(below(x)) \in Nat /\ Cardinality(upto(x)) \in Nat
    BY <2>2, FS_CardinalityType
  <2>4. upto(x) # {} => Cardinality(upto(x)) # 0
    BY <2>2, FS_EmptySet
  <2> QED
    BY <1>1, <2>2, <2>3, <2>4
<1>4. /\ \E m \in {s[i] : i \in I} : \A i \in I : m <= s[i]
      /\ \E m \in {s[i] : i \in I} : \A i \in I : m >= s[i]
  <2> DEFINE low == Sorted(s)[1]
             high == Sorted(s)[n]
  <2>1. 1 \in 1..n /\ n \in 1..n
    BY <1>1
  <2>0. ASSUME NEW k \in 1..n
        PROVE  /\ \E i \in I : s[i] = Sorted(s)[k]
               /\ Cardinality(below(Sorted(s)[k])) <= k - 1
               /\ Cardinality(upto(Sorted(s)[k])) >= k
    BY SortedFacts
  <2>2. /\ \E i \in I : s[i] = low
        /\ Cardinality(below(low)) <= 0
    <3> HIDE DEF below
    <3>1. \E i \in I : s[i] = low
      BY <2>0, <2>1
    <3>2. Cardinality(below(low)) <= 1 - 1
      BY <2>0, <2>1
    <3> QED
      BY <3>1, <3>2
  <2>3. /\ \E i \in I : s[i] = high
        /\ Cardinality(upto(high)) >= n
    <3> HIDE DEF upto
    <3> QED
      BY <2>0, <2>1
  <2> HIDE DEF low, high
  <2>4. below(low) = {}
    <3> HIDE DEF below
    <3>1. Cardinality(below(low)) = 0
      <4>1. Cardinality(below(low)) \in Nat
        BY <1>3
      <4> QED
        BY <2>2, <4>1
    <3> QED
      BY <1>3, <3>1, FS_EmptySet
  <2>5. upto(high) = I
    <3>1. upto(high) \in SUBSET I
      OBVIOUS
    <3> HIDE DEF upto
    <3>2. Cardinality(upto(high)) <= n
      BY <1>2, <3>1, FS_Subset
    <3>3. Cardinality(upto(high)) = n
      <4>1. Cardinality(upto(high)) \in Nat
        BY <1>3
      <4> QED
        BY <1>1, <2>3, <3>2, <4>1
    <3> QED
      BY <1>2, <3>1, <3>3, FS_Subset
  <2>6. \A i \in I : low <= s[i] /\ high >= s[i]
    <3>1. low \in Int /\ high \in Int
      BY <1>1, <2>2, <2>3
    <3>2. \A i \in I : i \notin below(low) /\ i \in upto(high)
      BY <2>4, <2>5
    <3> QED
      BY <1>1, <3>1, <3>2
  <2> QED
    BY <2>2, <2>3, <2>6, SMTT(30)
<1>5. CASE p = 0
  <2> DEFINE v == SampleMin(s)
  <2>1. Percentile(s, p) = v /\ (p * (n - 1)) \div 100 = 0
    BY <1>1, <1>5 DEF Percentile
  <2>2. v \in {s[i] : i \in I} /\ \A i \in I : v <= s[i]
    BY <1>4 DEF SampleMin
  <2>3. below(v) = {} /\ upto(v) # {} /\ \E i \in I : s[i] = v
    BY <1>1, <2>2
  <2>4. Cardinality(below(v)) = 0 /\ Cardinality(upto(v)) > 0
    <3> HIDE DEF below, upto, v
    <3> QED
      BY <1>3, <2>3, FS_EmptySet
  <2> QED
    BY <2>1, <2>3, <2>4
<1>6. CASE p = 100
  <2> DEFINE v == SampleMax(s)
  <2>1. Percentile(s, p) = v /\ (p * (n - 1)) \div 100 = n - 1
    <3>0. \A m \in Nat : (100 * m) \div 100 = m
      OBVIOUS
    <3>1. (100 * (n - 1)) \div 100 = n - 1
      <4>1. n - 1 \in Nat
        BY <1>1
      <4> HIDE DEF n
      <4> QED
        BY <3>0, <4>1
    <3>2. Percentile(s, 100) = v
      BY DEF Percentile
    <3> QED
      BY <1>6, <3>1, <3>2
  <2>2. v \in {s[i] : i \in I} /\ \A i \in I : v >= s[i]
    BY <1>4 DEF SampleMax
  <2>3. below(v) # I /\ upto(v) = I /\ \E i \in I : s[i] = v
    BY <1>1, <2>2
  <2>4. Cardinality(below(v)) <= n - 1 /\ Cardinality(upto(v)) > n - 1
    <3> HIDE DEF below, upto, v
    <3> QED
      BY <1>1, <1>2, <1>3, <2>3
  <2> QED
    BY <2>1, <2>3, <2>4
<1>7. CASE p \in {5, 50, 95}
  <2> DEFINE rank == (p * (n - 1)) \div 100
             v == Sorted(s)[rank + 1]
  <2>1. rank \in 0..(n - 1) /\ Rank(n, p) = rank
    <3> DEFINE P == {5, 50, 95}
               Sizes == Nat \ {0}
    <3>1. \A m \in Sizes, x \in P :
             /\ (x * (m - 1)) \div 100 \in 0..(m - 1)
             /\ Rank(m, x) = (x * (m - 1)) \div 100
      BY RankInRange
    <3>2. n \in Sizes /\ p \in P
      BY <1>1, <1>7
    <3> HIDE DEF n, P, Sizes
    <3> QED
      BY <3>1, <3>2, Zenon
  <2>2. Percentile(s, p) = Sorted(s)[Rank(n, p) + 1]
    BY <1>7 DEF Percentile
  <2> HIDE DEF rank
  <2>3. rank + 1 \in 1..n
    BY <1>1, <2>1
  <2>4. /\ \E i \in I : s[i] = v
        /\ Cardinality(below(v)) <= (rank + 1) - 1
        /\ Cardinality(upto(v)) >= rank + 1
    BY <2>3, SortedFacts
  <2>5. Cardinality(below(v)) <= rank /\ Cardinality(upto(v)) > rank
    <3> HIDE DEF v, below, upto
    <3>1. Cardinality(below(v)) \in Nat /\ Cardinality(upto(v)) \in Nat
      BY <1>3
    <3>2. rank \in Int
      BY <2>1
    <3> QED
      BY <2>4, <3>1, <3>2
  <2>6. Percentile(s, p) = v
    BY <2>1, <2>2
  <2> QED
    BY <2>4, <2>5, <2>6 DEF rank
<1> QED
  BY <1>5, <1>6, <1>7

\* What Percentile answers at any time is the order statistic of its rank among
\* the durations in the window, for every window size up to any capacity.
THEOREM PercentileCorrect == Spec => []PercentileIsOrderStatistic
<1>1. Spec => []TypeOK
  BY TypeCorrect
<1>2. TypeOK => PercentileIsOrderStatistic
  <2> SUFFICES ASSUME TypeOK, samples # <<>> PROVE PercentileIsOrderStatistic
      BY DEF PercentileIsOrderStatistic
  <2>1. samples \in Seq(Durations)
    BY DEF TypeOK
  <2> QED
    BY <2>1, PercentileFacts DEF PercentileIsOrderStatistic
<1> QED
  BY <1>1, <1>2, PTL

-----------------------------------------------------------------------------
(* Sums *)

\* A square.
LEMMA Square ==
    ASSUME NEW x \in Int
    PROVE  x * x \in Int /\ x * x >= 0 /\ (x # 0 => x * x >= 1)
<1>1. CASE x >= 0
  BY <1>1
<1>2. CASE x < 0
  BY <1>2
<1> QED
  BY <1>1, <1>2

\* A larger factor makes a larger product.
LEMMA ProductGrows ==
    ASSUME NEW c \in Nat, NEW x \in Int, NEW y \in Int, x >= y
    PROVE  c * x >= c * y
<1>1. c * (x - y) >= 0
  OBVIOUS
<1>2. c * (x - y) = c * x - c * y
  OBVIOUS
<1>3. c * x \in Int /\ c * y \in Int
  OBVIOUS
<1> QED
  BY <1>1, <1>2, <1>3

\* A larger number has a larger square.
LEMMA SquareGrows ==
    ASSUME NEW x \in Int, NEW y \in Nat, x >= y
    PROVE  x * x >= y * y
<1>1. x \in Nat
  OBVIOUS
<1>2. x * x >= x * y
  BY <1>1, ProductGrows
<1>3. y * x >= y * y
  BY ProductGrows
<1>4. x * y = y * x /\ x * y \in Int /\ x * x \in Int /\ y * y \in Int
  OBVIOUS
<1> QED
  BY <1>2, <1>3, <1>4

\* The sums p[m] of the first m items of a list of n numbers.
Partial(p, s, n) ==
    /\ p \in [0..n -> Int] /\ p[0] = 0
    /\ \A m \in 1..n : p[m] = p[m - 1] + s[m]

\* The largest number of a set that begins at 1.
LEMMA LastOf ==
    ASSUME NEW m \in Nat \ {0}
    PROVE  Max(1..m) = m
<1>1. m \in 1..m /\ \A y \in 1..m : m >= y
  OBVIOUS
<1>2. \A x \in 1..m : (\A y \in 1..m : x >= y) => x = m
  OBVIOUS
<1> QED
  BY <1>1, <1>2 DEF Max

\* A set of numbers up to n that is not empty has a largest one.
LEMMA LargestOf ==
    ASSUME NEW n \in Nat, NEW T \in SUBSET (1..n), T # {}
    PROVE  Max(T) \in T
<1> DEFINE U == {n - y : y \in T}
<1>1. U \in SUBSET Nat /\ U # {}
  <2>1. \A y \in T : n - y \in Nat
    OBVIOUS
  <2>2. PICK y : y \in T
    OBVIOUS
  <2>3. n - y \in U
    BY <2>2
  <2> QED
    BY <2>1, <2>3
<1> HIDE DEF U
<1>2. PICK u \in U : \A y \in U : u <= y
  BY <1>1, Least
<1>3. PICK x \in T : u = n - x
  BY DEF U
<1>4. \A y \in T : x >= y
  <2>1. \A y \in T : u <= n - y
    BY <1>2 DEF U
  <2> QED
    BY <1>3, <2>1
<1> QED
  BY <1>4 DEF Max

\* Sum adds the items of a list one after the other.
LEMMA SumRuns ==
    ASSUME NEW n \in Nat, NEW s \in [1..n -> Int]
    PROVE  \E p : Partial(p, s, n) /\ Sum(s) = p[n]
<1> DEFINE I == 1..n
           Round(g) == [T \in SUBSET I |->
                           IF T = {} THEN 0 ELSE g[T \ {Max(T)}] + s[Max(T)]]
           iter == CHOOSE g : g = Round(g)
           pick == [T \in SUBSET I |-> Max(T)]
           op == [i \in I |-> [v \in Int |-> v + s[i]]]
<1>1. Sum(s) = iter[I]
  <2>1. DOMAIN s = I
    OBVIOUS
  <2> QED
    BY <2>1 DEF Sum, FoldLeft, MapThenFoldSet
<1>2. IsFiniteSet(I)
  BY FS_Interval
<1>3. op \in [I -> [Int -> Int]]
  OBVIOUS
<1>4. \A T \in SUBSET I : T # {} => pick[T] \in T
  BY LargestOf
<1>5. \A i \in I, v \in Int : op[i][v] = v + s[i]
  OBVIOUS
<1> HIDE DEF op, pick, I
<1>6. PICK g : Folding(g, I, Int, 0, pick, op)
  <2>1. 0 \in Int
    OBVIOUS
  <2> QED
    BY <1>2, <1>3, <1>4, <2>1, FoldRuns, Zenon
<1>7. g = Round(g)
  <2>1. ASSUME NEW T \in SUBSET I, T # {} PROVE g[T] = g[T \ {Max(T)}] + s[Max(T)]
    <3>1. pick[T] = Max(T)
      BY DEF pick
    <3>2. Max(T) \in I /\ g[T \ {Max(T)}] \in Int
      BY <1>4, <1>6, <2>1, <3>1 DEF Folding
    <3>3. g[T] = op[Max(T)][g[T \ {Max(T)}]]
      BY <1>6, <2>1, <3>1 DEF Folding
    <3> QED
      BY <1>5, <3>2, <3>3
  <2> QED
    BY <1>6, <2>1 DEF Folding
<1>8. iter = Round(iter)
  BY <1>7
<1> HIDE DEF iter
<1>9. /\ iter[{}] = 0
      /\ \A T \in SUBSET I : T # {} => iter[T] = iter[T \ {Max(T)}] + s[Max(T)]
  BY <1>8
<1> DEFINE p == [m \in 0..n |-> iter[1..m]]
<1>10. p[0] = 0 /\ \A m \in 1..n : p[m] = p[m - 1] + s[m]
  <2>1. 1..0 = {} /\ 0 \in 0..n
    OBVIOUS
  <2>2. ASSUME NEW m \in 1..n PROVE p[m] = p[m - 1] + s[m]
    <3>1. m \in 0..n /\ m - 1 \in 0..n /\ m \in Nat \ {0}
      OBVIOUS
    <3>2. Max(1..m) = m
      BY <3>1, LastOf
    <3>3. 1..m \in SUBSET I /\ m \in 1..m
      BY DEF I
    <3>4. (1..m) \ {m} = 1..(m - 1)
      OBVIOUS
    <3> QED
      BY <1>9, <3>1, <3>2, <3>3, <3>4
  <2> QED
    BY <1>9, <2>1, <2>2
<1> HIDE DEF p
<1>11. p \in [0..n -> Int]
  <2> DEFINE M == {m \in 0..n : p[m] \in Int}
  <2>1. 0 \in M
    BY <1>10
  <2>2. \A m \in 1..n : m - 1 \in M => m \in M
    BY <1>10
  <2> HIDE DEF M
  <2>3. \A m \in 0..n : m \in M
    BY <2>1, <2>2, Induction
  <2>4. p = [m \in 0..n |-> p[m]]
    BY DEF p
  <2> QED
    BY <2>3, <2>4 DEF M
<1>12. Sum(s) = p[n]
  BY <1>1 DEF p, I
<1> QED
  BY <1>10, <1>11, <1>12 DEF Partial

\* Each item of w is a times that of s plus b times that of u.
Combines(w, n, a, s, b, u) ==
    w \in [1..n -> Int] /\ \A i \in 1..n : w[i] = a * s[i] + b * u[i]

\* Its sum is a times that of s plus b times that of u.
Combined(w, a, s, b, u) == Sum(w) = a * Sum(s) + b * Sum(u)

\* A combination of two lists is a list.
LEMMA Combination ==
    ASSUME NEW n \in Nat, NEW s \in [1..n -> Int], NEW u \in [1..n -> Int],
           NEW a \in Int, NEW b \in Int
    PROVE  \E w : Combines(w, n, a, s, b, u)
<1> DEFINE w == [i \in 1..n |-> a * s[i] + b * u[i]]
<1>1. ASSUME NEW i \in 1..n PROVE a * s[i] + b * u[i] \in Int
  <2>1. s[i] \in Int /\ u[i] \in Int
    OBVIOUS
  <2>2. a * s[i] \in Int /\ b * u[i] \in Int
    BY <2>1
  <2> QED
    BY <2>2
<1>2. Combines(w, n, a, s, b, u)
  BY <1>1 DEF Combines
<1> QED
  BY <1>2

\* The sum of a combination of two lists is that combination of their sums.
LEMMA SumLinear ==
    ASSUME NEW n \in Nat, NEW s \in [1..n -> Int], NEW u \in [1..n -> Int],
           NEW a \in Int, NEW b \in Int,
           NEW w, Combines(w, n, a, s, b, u)
    PROVE  Combined(w, a, s, b, u)
<1>1. PICK p : Partial(p, s, n) /\ Sum(s) = p[n]
  BY SumRuns
<1>2. PICK q : Partial(q, u, n) /\ Sum(u) = q[n]
  BY SumRuns
<1>3. w \in [1..n -> Int] /\ \A i \in 1..n : w[i] = a * s[i] + b * u[i]
  BY DEF Combines
<1>4. PICK r : Partial(r, w, n) /\ Sum(w) = r[n]
  BY <1>3, SumRuns
<1> DEFINE M == {m \in 0..n : r[m] = a * p[m] + b * q[m]}
<1>5. 0 \in M
  <2>1. p[0] = 0 /\ q[0] = 0 /\ r[0] = 0 /\ 0 \in 0..n
    BY <1>1, <1>2, <1>4 DEF Partial
  <2>2. 0 = a * 0 + b * 0
    OBVIOUS
  <2> QED
    BY <2>1, <2>2, Zenon
<1>6. ASSUME NEW m \in 1..n, m - 1 \in M PROVE m \in M
  <2>1. m - 1 \in 0..n /\ m \in 0..n
    OBVIOUS
  <2>2. s[m] \in Int /\ u[m] \in Int /\ w[m] = a * s[m] + b * u[m]
    BY <1>3
  <2>3. r[m - 1] = a * p[m - 1] + b * q[m - 1]
    BY <1>6
  <2> HIDE DEF M
  <2>4. p[m - 1] \in Int /\ q[m - 1] \in Int
    BY <1>1, <1>2, <2>1 DEF Partial
  <2>5. r[m] = r[m - 1] + w[m] /\ p[m] = p[m - 1] + s[m] /\ q[m] = q[m - 1] + u[m]
    BY <1>1, <1>2, <1>4 DEF Partial
  <2> DEFINE x == p[m - 1]
             y == q[m - 1]
             z == s[m]
             v == u[m]
  <2>6. /\ x \in Int /\ y \in Int /\ z \in Int /\ v \in Int
        /\ r[m] = (a * x + b * y) + (a * z + b * v)
        /\ p[m] = x + z /\ q[m] = y + v
    BY <2>2, <2>3, <2>4, <2>5
  <2> HIDE DEF x, y, z, v
  <2>7. (a * x + b * y) + (a * z + b * v) = a * (x + z) + b * (y + v)
    BY <2>6
  <2>8. r[m] = a * p[m] + b * q[m]
    BY <2>6, <2>7
  <2> QED
    BY <2>1, <2>8 DEF M
<1> HIDE DEF M
<1>7. n \in M
  <2>1. \A m \in 0..n : m \in M
    BY <1>5, <1>6, Induction
  <2> QED
    BY <2>1
<1> QED
  BY <1>1, <1>2, <1>4, <1>7 DEF M, Combined

\* A list that is nowhere above another one has no larger sum.
LEMMA SumMonotone ==
    ASSUME NEW n \in Nat, NEW s \in [1..n -> Int], NEW u \in [1..n -> Int],
           \A i \in 1..n : s[i] <= u[i]
    PROVE  Sum(s) <= Sum(u)
<1>1. PICK p : Partial(p, s, n) /\ Sum(s) = p[n]
  BY SumRuns
<1>2. PICK q : Partial(q, u, n) /\ Sum(u) = q[n]
  BY SumRuns
<1> DEFINE M == {m \in 0..n : p[m] <= q[m]}
<1>3. 0 \in M
  BY <1>1, <1>2 DEF Partial
<1>4. ASSUME NEW m \in 1..n, m - 1 \in M PROVE m \in M
  <2>1. m - 1 \in 0..n /\ s[m] \in Int /\ u[m] \in Int
    OBVIOUS
  <2>2. p[m - 1] \in Int /\ q[m - 1] \in Int /\ s[m] \in Int /\ u[m] \in Int
    BY <1>1, <1>2, <2>1 DEF Partial
  <2>3. p[m] = p[m - 1] + s[m] /\ q[m] = q[m - 1] + u[m]
    BY <1>1, <1>2 DEF Partial
  <2>4. p[m - 1] <= q[m - 1] /\ s[m] <= u[m]
    BY <1>4
  <2> QED
    BY <2>2, <2>3, <2>4
<1> HIDE DEF M
<1>5. n \in M
  <2>1. \A m \in 0..n : m \in M
    BY <1>3, <1>4, Induction
  <2> QED
    BY <2>1
<1> QED
  BY <1>1, <1>2, <1>5 DEF M

\* 1 at the indices in F, 0 elsewhere.
Marks(F, n) == [i \in 1..n |-> IF i \in F THEN 1 ELSE 0]

\* The sum of such a list counts the indices.
LEMMA SumOfMarks ==
    ASSUME NEW n \in Nat, NEW F \in SUBSET (1..n)
    PROVE  Marks(F, n) \in [1..n -> Int] /\ Sum(Marks(F, n)) = Cardinality(F)
<1> DEFINE s == Marks(F, n)
           Upto(m) == {i \in F : i <= m}
<1>1. s \in [1..n -> Int] /\ \A i \in 1..n : s[i] = IF i \in F THEN 1 ELSE 0
  BY DEF Marks
<1> HIDE DEF s
<1>2. PICK p : Partial(p, s, n) /\ Sum(s) = p[n]
  BY <1>1, SumRuns
<1>3. \A m \in 0..n : IsFiniteSet(Upto(m)) /\ Cardinality(Upto(m)) \in Nat
  <2>1. IsFiniteSet(1..n)
    BY FS_Interval
  <2>2. ASSUME NEW m \in 0..n PROVE IsFiniteSet(Upto(m))
    <3>1. Upto(m) \in SUBSET (1..n)
      OBVIOUS
    <3> QED
      BY <2>1, <3>1, FS_Subset
  <2> QED
    BY <2>2, FS_CardinalityType
<1> DEFINE M == {m \in 0..n : p[m] = Cardinality(Upto(m))}
<1>4. 0 \in M
  <2>1. Upto(0) = {}
    <3>1. \A i \in F : i \in 1..n /\ ~(i <= 0)
      OBVIOUS
    <3> QED
      BY <3>1
  <2> HIDE DEF Upto
  <2>2. Cardinality(Upto(0)) = 0 /\ p[0] = 0
    BY <1>2, <2>1, FS_EmptySet DEF Partial
  <2> QED
    BY <2>2
<1>5. ASSUME NEW m \in 1..n, m - 1 \in M PROVE m \in M
  <2>1. p[m] = p[m - 1] + s[m] /\ m - 1 \in 0..n /\ p[m - 1] = Cardinality(Upto(m - 1))
    BY <1>2, <1>5 DEF Partial
  <2>2. m \in Int /\ \A i \in F : i \in Int /\ (i <= m <=> i <= m - 1 \/ i = m)
    OBVIOUS
  <2>3. CASE m \in F
    <3>1. Upto(m) = Upto(m - 1) \cup {m}
      BY <2>2, <2>3
    <3>2. m \notin Upto(m - 1)
      BY <2>2
    <3> HIDE DEF Upto
    <3>3. Cardinality(Upto(m)) = Cardinality(Upto(m - 1)) + 1
      BY <1>3, <2>1, <3>1, <3>2, FS_AddElement
    <3> QED
      BY <1>1, <2>1, <2>3, <3>3
  <2>4. CASE m \notin F
    <3>1. Upto(m) = Upto(m - 1)
      BY <2>2, <2>4
    <3> HIDE DEF Upto
    <3> QED
      BY <1>1, <1>3, <2>1, <2>4, <3>1
  <2> QED
    BY <2>3, <2>4
<1>6. Upto(n) = F
  <2>1. \A i \in F : i \in 1..n /\ i <= n
    OBVIOUS
  <2> QED
    BY <2>1
<1> HIDE DEF M, Upto
<1>7. n \in M
  <2>1. \A m \in 0..n : m \in M
    BY <1>4, <1>5, Induction
  <2> QED
    BY <2>1
<1> QED
  BY <1>1, <1>2, <1>6, <1>7 DEF M, s

\* The sum of whole numbers is one, and n times c is the sum of n times the same c.
LEMMA SumOfSame ==
    ASSUME NEW n \in Nat, NEW s \in [1..n -> Int]
    PROVE  /\ Sum(s) \in Int
           /\ Sum(Marks(1..n, n)) = n /\ Marks(1..n, n) \in [1..n -> Int]
           /\ \A i \in 1..n : Marks(1..n, n)[i] = 1
<1>1. PICK p : Partial(p, s, n) /\ Sum(s) = p[n]
  BY SumRuns
<1>2. Sum(s) \in Int
  BY <1>1 DEF Partial
<1>3. Cardinality(1..n) = n
  BY FS_Interval
<1>4. Sum(Marks(1..n, n)) = Cardinality(1..n) /\ Marks(1..n, n) \in [1..n -> Int]
  BY SumOfMarks
<1>5. \A i \in 1..n : Marks(1..n, n)[i] = 1
  BY DEF Marks
<1> QED
  BY <1>2, <1>3, <1>4, <1>5

\* n times the distances from the mean, and their squares.
Distances(s, n) == [i \in 1..n |-> n * s[i] - Sum(s)]
Squares(d, n) == [i \in 1..n |-> d[i] * d[i]]

\* A function on 1..n is a list of n items.
LEMMA IsList ==
    ASSUME NEW n \in Nat, NEW s \in [1..n -> Int]
    PROVE  s \in Seq(Int) /\ Len(s) = n /\ DOMAIN s = 1..n
OBVIOUS

\* The distances from the mean cancel out, and Spread sums their squares.
LEMMA DistanceFacts ==
    ASSUME NEW n \in Nat, NEW s \in [1..n -> Int]
    PROVE  /\ Distances(s, n) \in [1..n -> Int]
           /\ Sum(Distances(s, n)) = 0
           /\ Spread(s) = Sum(Squares(Distances(s, n), n))
           /\ \A i \in 1..n : FromMean(s, i) = Distances(s, n)[i]
<1> DEFINE d == Distances(s, n)
           c == -Sum(s)
           ones == Marks(1..n, n)
<1>1. Sum(s) \in Int /\ c \in Int
  BY SumOfSame
<1>2. ones \in [1..n -> Int] /\ Sum(ones) = n /\ \A i \in 1..n : ones[i] = 1
  BY SumOfSame
<1>3. d \in [1..n -> Int] /\ \A i \in 1..n : d[i] = n * s[i] + c * ones[i]
  <2>1. \A i \in 1..n : s[i] \in Int /\ n * s[i] \in Int
    OBVIOUS
  <2>2. d \in [1..n -> Int] /\ \A i \in 1..n : d[i] = n * s[i] - Sum(s)
    BY <1>1, <2>1 DEF Distances
  <2>3. c * 1 = -Sum(s)
    BY <1>1
  <2>4. ASSUME NEW i \in 1..n PROVE d[i] = n * s[i] + c * ones[i]
    <3>1. ones[i] = 1 /\ d[i] = n * s[i] - Sum(s)
      BY <1>2, <2>2
    <3> HIDE DEF d, ones, c
    <3> QED
      BY <1>1, <2>1, <2>3, <3>1
  <2> QED
    BY <2>2, <2>4
<1>4. Len(s) = n /\ DOMAIN s = 1..n
  BY IsList
<1>5. \A i \in 1..n : FromMean(s, i) = d[i]
  <2>1. \A i \in 1..n : FromMean(s, i) = n * s[i] - Sum(s)
    BY <1>4 DEF FromMean
  <2> QED
    BY <2>1 DEF Distances
<1>6. Spread(s) = Sum(Squares(d, n))
  <2>1. [i \in 1..n |-> FromMean(s, i) * FromMean(s, i)] = Squares(d, n)
    BY <1>5 DEF Squares
  <2> QED
    BY <1>4, <2>1 DEF Spread
<1> HIDE DEF d, c, ones
<1>7. Combines(d, n, n, s, c, ones) /\ n \in Int
  BY <1>3 DEF Combines
<1>8. Combined(d, n, s, c, ones)
  BY <1>1, <1>2, <1>7, SumLinear, Zenon
<1>9. Sum(d) = 0
  <2>1. n * Sum(s) + c * n = 0
    BY <1>1 DEF c
  <2> QED
    BY <1>2, <1>8, <2>1 DEF Combined
<1> QED
  BY <1>3, <1>5, <1>6, <1>9 DEF d

\* Squares are not negative, so neither is their sum.
LEMMA SquareFacts ==
    ASSUME NEW n \in Nat, NEW d \in [1..n -> Int]
    PROVE  /\ Squares(d, n) \in [1..n -> Int]
           /\ \A i \in 1..n : Squares(d, n)[i] = d[i] * d[i]
           /\ Sum(Squares(d, n)) \in Nat
<1> DEFINE q == Squares(d, n)
           none == Marks({}, n)
<1>1. q \in [1..n -> Int] /\ \A i \in 1..n : q[i] = d[i] * d[i]
  <2>1. \A i \in 1..n : d[i] * d[i] \in Int
    OBVIOUS
  <2> QED
    BY <2>1 DEF Squares
<1>2. none \in [1..n -> Int] /\ Sum(none) = 0 /\ \A i \in 1..n : none[i] = 0
  <2>1. none \in [1..n -> Int] /\ Sum(none) = Cardinality({})
    BY SumOfMarks
  <2>2. \A i \in 1..n : none[i] = 0
    BY DEF Marks
  <2> QED
    BY <2>1, <2>2, FS_EmptySet
<1> HIDE DEF q, none
<1>3. \A i \in 1..n : none[i] <= q[i]
  <2>1. ASSUME NEW i \in 1..n PROVE none[i] <= q[i]
    <3>1. d[i] \in Int
      OBVIOUS
    <3>2. d[i] * d[i] >= 0
      BY <3>1
    <3> QED
      BY <1>1, <1>2, <3>2
  <2> QED
    BY <2>1
<1>4. Sum(none) <= Sum(q) /\ Sum(q) \in Int
  BY <1>1, <1>2, <1>3, SumMonotone, SumOfSame
<1> QED
  BY <1>1, <1>2, <1>4 DEF q

\* If the squares sum to zero, every number is zero.
LEMMA NoSquares ==
    ASSUME NEW n \in Nat, NEW d \in [1..n -> Int], Sum(Squares(d, n)) = 0
    PROVE  \A i \in 1..n : d[i] = 0
<1> SUFFICES ASSUME NEW i \in 1..n, d[i] # 0 PROVE FALSE
    OBVIOUS
<1> DEFINE q == Squares(d, n)
           one == Marks({i}, n)
<1>1. q \in [1..n -> Int] /\ \A j \in 1..n : q[j] = d[j] * d[j]
  BY SquareFacts
<1>2. one \in [1..n -> Int] /\ Sum(one) = 1
  <2>1. {i} \in SUBSET (1..n) /\ Cardinality({i}) = 1
    BY FS_Singleton
  <2> QED
    BY <2>1, SumOfMarks
<1>3. \A j \in 1..n : one[j] = IF j = i THEN 1 ELSE 0
  BY DEF Marks
<1>4. \A j \in 1..n : one[j] <= q[j]
  <2>1. ASSUME NEW j \in 1..n PROVE one[j] <= q[j]
    <3>1. d[j] \in Int /\ q[j] = d[j] * d[j]
      BY <1>1
    <3>2. \A x \in Int : x * x >= 0 /\ (x # 0 => x * x >= 1)
      BY Square
    <3>3. d[j] * d[j] >= 0 /\ (d[j] # 0 => d[j] * d[j] >= 1) /\ d[j] * d[j] \in Int
      BY <3>1, <3>2
    <3> QED
      BY <1>3, <3>1, <3>3
  <2> QED
    BY <2>1
<1> HIDE DEF one, q
<1>5. Sum(one) <= Sum(q)
  BY <1>1, <1>2, <1>4, SumMonotone
<1> QED
  BY <1>2, <1>5 DEF q

\* The square of c y + Q is A y^2 + B y + C.
SquareSplits(c, y, Q, A, B, C) ==
    /\ c * y + Q \in Int
    /\ (c * y + Q) * (c * y + Q) = 1 * (A * (y * y) + B * y) + C * 1

\* A, B and C are what the binomial theorem says.
LEMMA SquareOfSum ==
    ASSUME NEW c \in Int, NEW y \in Int, NEW Q \in Int
    PROVE  SquareSplits(c, y, Q, c * c, 2 * c * Q, Q * Q)
<1>1. c * y \in Int /\ c * c \in Int /\ y * y \in Int /\ c * Q \in Int /\ Q * Q \in Int
  OBVIOUS
<1> DEFINE x == c * y
<1>2. (x + Q) * (x + Q) = x * x + 2 * (x * Q) + Q * Q
  <2>1. \A z \in Int : (z + Q) * (z + Q) = z * z + 2 * (z * Q) + Q * Q
    OBVIOUS
  <2> QED
    BY <1>1, <2>1
<1>3. x * x = (c * c) * (y * y)
  OBVIOUS
<1>4. 2 * (x * Q) = (2 * c * Q) * y
  OBVIOUS
<1>5. c * y + Q \in Int
  BY <1>1
<1>6. (c * y + Q) * (c * y + Q) = (c * c) * (y * y) + (2 * c * Q) * y + Q * Q
  BY <1>2, <1>3, <1>4
<1>7. (c * c) * (y * y) \in Int /\ (2 * c * Q) * y \in Int
  BY <1>1
<1>8. \A u, v, w \in Int : 1 * (u + v) + w * 1 = u + v + w
  OBVIOUS
<1>9. 1 * ((c * c) * (y * y) + (2 * c * Q) * y) + (Q * Q) * 1
         = (c * c) * (y * y) + (2 * c * Q) * y + Q * Q
  BY <1>1, <1>7, <1>8
<1> QED
  BY <1>5, <1>6, <1>9 DEF SquareSplits

\* The squares sum to n Q P if the d cancel out and the d^2 sum to Q.
FarSum(n, Q, P, A, B, C) == 1 * (A * Q + B * 0) + C * n = n * (Q * P)

\* They do when c = n e and P = n e^2 + Q.
LEMMA SumOfFar ==
    ASSUME NEW n \in Nat, NEW e \in Nat, NEW Q \in Nat, NEW c, c = n * e,
           NEW P, P = n * (e * e) + Q
    PROVE  FarSum(n, Q, P, c * c, 2 * c * Q, Q * Q)
<1>1. c \in Nat /\ c * c \in Nat /\ Q * Q \in Nat /\ 2 * c * Q \in Nat /\ e * e \in Nat
  OBVIOUS
<1>2. c * c = n * (n * (e * e))
  OBVIOUS
<1>3. 1 * ((c * c) * Q + (2 * c * Q) * 0) + (Q * Q) * n = (c * c) * Q + (Q * Q) * n
  <2>1. \A u, v, w \in Int : 1 * (u + v * 0) + w = u + w
    OBVIOUS
  <2>2. (c * c) * Q \in Int /\ (Q * Q) * n \in Int
    BY <1>1
  <2> QED
    BY <1>1, <2>1, <2>2
<1> DEFINE y == n * (e * e)
<1>4. y \in Nat
  BY <1>1
<1> HIDE DEF y
<1>5. (n * y) * Q + (Q * Q) * n = n * (Q * (y + Q))
  BY <1>4
<1> QED
  BY <1>2, <1>3, <1>5 DEF y, FarSum

\* k is at most n Q / P.
FarBound(k, n, Q, P) == k \in Nat /\ k * (P * P) <= n * (Q * P)

\* The one-sided rule of Chebyshev and Cantelli, in whole numbers: of n distances
\* that cancel out, at most n Q / (n e^2 + Q) are e or more, if Q sums the squares.
LEMMA FewAreFar ==
    ASSUME NEW n \in Nat, NEW d \in [1..n -> Int], Sum(d) = 0,
           NEW Q \in Nat, Q = Sum(Squares(d, n)),
           NEW F \in SUBSET (1..n), NEW e \in Nat, \A i \in F : d[i] >= e,
           NEW P \in Nat, P = n * (e * e) + Q
    PROVE  FarBound(Cardinality(F), n, Q, P)
<1> DEFINE c == n * e
           A == c * c
           B == 2 * c * Q
           C == Q * Q
           D == P * P
           q == Squares(d, n)
           ones == Marks(1..n, n)
           marks == Marks(F, n)
           k == Cardinality(F)
<1>1. q \in [1..n -> Int] /\ \A i \in 1..n : q[i] = d[i] * d[i]
  BY SquareFacts
<1>2. ones \in [1..n -> Int] /\ Sum(ones) = n /\ \A i \in 1..n : ones[i] = 1
  BY SumOfSame
<1>3. marks \in [1..n -> Int] /\ Sum(marks) = k
  BY SumOfMarks
<1>4. \A i \in 1..n : marks[i] = IF i \in F THEN 1 ELSE 0
  BY DEF Marks
<1>5. k \in Nat
  <2>1. IsFiniteSet(1..n)
    BY FS_Interval
  <2>2. IsFiniteSet(F)
    BY <2>1, FS_Subset
  <2> QED
    BY <2>2, FS_CardinalityType
<1>6. c \in Nat /\ A \in Int /\ B \in Int /\ C \in Int /\ D \in Int
  OBVIOUS
<1>7. c * e = n * (e * e)
  OBVIOUS
<1>8. \A y \in Int : SquareSplits(c, y, Q, A, B, C)
  <2>1. c \in Int /\ Q \in Int
    BY <1>6
  <2> QED
    BY <2>1, SquareOfSum, Zenon
<1>9. FarSum(n, Q, P, A, B, C)
  BY SumOfFar, Zenon
<1> HIDE DEF q, ones, marks, k, c, A, B, C
<1>10. PICK part : Combines(part, n, A, q, B, d)
  BY <1>1, <1>6, Combination, Zenon
<1>11. part \in [1..n -> Int] /\ \A i \in 1..n : part[i] = A * q[i] + B * d[i]
  BY <1>10 DEF Combines
<1>12. PICK far : Combines(far, n, 1, part, C, ones)
  <2>1. 1 \in Int
    OBVIOUS
  <2> QED
    BY <1>2, <1>6, <1>11, <2>1, Combination, Zenon
<1> HIDE DEF D
<1>13. PICK low : Combines(low, n, D, marks, 0, marks)
  <2>1. 0 \in Int
    OBVIOUS
  <2> QED
    BY <1>3, <1>6, <2>1, Combination, Zenon
<1>14. far \in [1..n -> Int] /\ \A i \in 1..n : far[i] = 1 * part[i] + C * ones[i]
  BY <1>12 DEF Combines
<1>15. low \in [1..n -> Int] /\ \A i \in 1..n : low[i] = D * marks[i] + 0 * marks[i]
  BY <1>13 DEF Combines
<1>16. ASSUME NEW i \in 1..n PROVE low[i] <= far[i]
  <2>1. d[i] \in Int
    OBVIOUS
  <2> DEFINE x == c * d[i] + Q
  <2>2. x \in Int /\ x * x = 1 * (A * (d[i] * d[i]) + B * d[i]) + C * 1
    BY <1>8, <2>1 DEF SquareSplits
  <2>3. far[i] = x * x
    BY <1>1, <1>2, <1>11, <1>14, <2>2
  <2>4. c * d[i] \in Int
    BY <1>6, <2>1
  <2> HIDE DEF x
  <2>5. x * x \in Int /\ x * x >= 0
    BY <2>2, Square
  <2>6. CASE i \in F
    <3>1. marks[i] = 1 /\ d[i] >= e /\ e \in Int
      BY <1>4, <2>6
    <3>2. low[i] = D
      <4>1. D * 1 + 0 * 1 = D
        BY <1>6
      <4> QED
        BY <1>15, <3>1, <4>1
    <3>3. c * d[i] >= c * e
      BY <1>6, <2>1, <3>1, ProductGrows
    <3>4. x >= P
      BY <1>7, <2>4, <3>3 DEF x
    <3>5. x * x >= P * P
      BY <2>2, <3>4, SquareGrows
    <3> QED
      BY <2>3, <3>2, <3>5 DEF D
  <2>7. CASE i \notin F
    <3>1. marks[i] = 0
      BY <1>4, <2>7
    <3>2. D * 0 + 0 * 0 = 0
      BY <1>6
    <3>3. low[i] = 0
      BY <1>15, <3>1, <3>2
    <3> QED
      BY <2>3, <2>5, <3>3
  <2> QED
    BY <2>6, <2>7
<1>17. Sum(part) = A * Q + B * 0
  <2>1. Combined(part, A, q, B, d)
    BY <1>1, <1>6, <1>10, SumLinear, Zenon
  <2> QED
    BY <2>1 DEF q, Combined
<1>18. Sum(far) = 1 * Sum(part) + C * n
  <2>1. 1 \in Int
    OBVIOUS
  <2>2. Combined(far, 1, part, C, ones)
    BY <1>2, <1>6, <1>11, <1>12, <2>1, SumLinear, Zenon
  <2> QED
    BY <1>2, <2>2 DEF Combined
<1>19. Sum(low) = D * k + 0 * k
  <2>1. 0 \in Int
    OBVIOUS
  <2>2. Combined(low, D, marks, 0, marks)
    BY <1>3, <1>6, <1>13, <2>1, SumLinear, Zenon
  <2> QED
    BY <1>3, <2>2 DEF Combined
<1>20. Sum(low) <= Sum(far)
  BY <1>14, <1>15, <1>16, SumMonotone
<1>21. D * k + 0 * k = k * D
  BY <1>5, <1>6
<1>22. Sum(far) = n * (Q * P) /\ Sum(low) = k * D
  BY <1>9, <1>17, <1>18, <1>19, <1>21 DEF FarSum
<1> QED
  BY <1>5, <1>20, <1>22 DEF k, D, FarBound

\* A common factor that is positive can be left out.
LEMMA Cancel ==
    ASSUME NEW x \in Int, NEW y \in Int, NEW c \in Nat \ {0}, x * c <= y * c
    PROVE  x <= y
<1> SUFFICES ASSUME x >= y + 1 PROVE FALSE
    OBVIOUS
<1>1. c * x >= c * (y + 1)
  BY ProductGrows
<1>2. c * (y + 1) = y * c + c /\ c * x = x * c /\ y * c \in Int /\ x * c \in Int
  OBVIOUS
<1> QED
  BY <1>1, <1>2

\* From the rule to the threshold: t tenths of the deviation and more.
LEMMA FarEnough ==
    ASSUME NEW n \in Nat, NEW e \in Nat, NEW t \in Nat, NEW Q \in Nat \ {0}, NEW k \in Nat,
           NEW P, P = n * (e * e) + Q,
           k * (P * P) <= n * (Q * P),
           100 * e * e * n >= t * t * Q
    PROVE  k * (100 + t * t) <= 100 * n
<1>1. e * e \in Nat /\ n * (e * e) \in Nat /\ t * t \in Nat /\ P \in Nat \ {0}
  OBVIOUS
<1>2. k * P <= n * Q
  <2>1. k * P \in Int /\ n * Q \in Int
    BY <1>1
  <2>2. k * (P * P) = (k * P) * P /\ n * (Q * P) = (n * Q) * P
    BY <1>1
  <2>3. (k * P) * P <= (n * Q) * P
    BY <2>2
  <2> QED
    BY <1>1, <2>1, <2>3, Cancel
<1>3. 100 * P >= (100 + t * t) * Q
  <2>1. 100 * e * e * n = 100 * (n * (e * e))
    OBVIOUS
  <2>2. (100 + t * t) * Q = 100 * Q + t * t * Q
    BY <1>1
  <2>3. t * t * Q \in Int
    BY <1>1
  <2> QED
    BY <1>1, <2>1, <2>2, <2>3
<1>4. k * (100 * P) >= k * ((100 + t * t) * Q)
  <2>1. 100 * P \in Int /\ (100 + t * t) * Q \in Int
    BY <1>1
  <2> QED
    BY <1>3, <2>1, ProductGrows
<1>5. (k * (100 + t * t)) * Q <= (100 * n) * Q
  <2> DEFINE w == 100 + t * t
  <2>1. w \in Nat
    BY <1>1
  <2> HIDE DEF w
  <2>2. k * (100 * P) = 100 * (k * P) /\ k * (w * Q) = (k * w) * Q
        /\ (100 * n) * Q = 100 * (n * Q)
    BY <1>1, <2>1
  <2>3. k * P \in Int /\ n * Q \in Int /\ (k * w) * Q \in Int
    BY <1>1, <2>1
  <2>4. k * (100 * P) >= k * (w * Q)
    BY <1>4 DEF w
  <2>5. (k * w) * Q <= (100 * n) * Q
    BY <1>2, <2>2, <2>3, <2>4
  <2> QED
    BY <2>5 DEF w
<1>6. k * (100 + t * t) \in Int /\ 100 * n \in Int
  BY <1>1
<1> QED
  BY <1>5, <1>6, Cancel

\* A series that does not vary is flat.
LEMMA NoSpread ==
    ASSUME NEW n \in Nat, NEW s \in [1..n -> Int], Spread(s) = 0
    PROVE  Flat(s)
<1> DEFINE d == Distances(s, n)
<1>1. d \in [1..n -> Int] /\ Sum(Squares(d, n)) = 0
  BY DistanceFacts
<1>2. \A i \in 1..n : d[i] = 0
  BY <1>1, NoSquares
<1>3. Sum(s) \in Int
  BY SumOfSame
<1>4. \A i \in 1..n : n * s[i] - Sum(s) = 0
  BY <1>2 DEF Distances
<1>5. ASSUME NEW i \in 1..n, NEW j \in 1..n PROVE s[i] = s[j]
  <2>1. s[i] \in Int /\ s[j] \in Int /\ n \in Nat \ {0}
    OBVIOUS
  <2>2. n * s[i] - Sum(s) = 0 /\ n * s[j] - Sum(s) = 0
    BY <1>4
  <2> DEFINE x == s[i]
             y == s[j]
             c == Sum(s)
  <2> HIDE DEF x, y, c
  <2>3. x \in Int /\ y \in Int /\ c \in Int /\ n * x - c = 0 /\ n * y - c = 0
    BY <1>3, <2>1, <2>2 DEF x, y, c
  <2>4. x * n <= y * n /\ y * n <= x * n
    BY <2>3
  <2>5. x <= y /\ y <= x
    BY <2>1, <2>3, <2>4, Cancel
  <2>6. x = y
    BY <2>3, <2>5
  <2> QED
    BY <2>6 DEF x, y
<1>6. DOMAIN s = 1..n
  BY IsList
<1> QED
  BY <1>5, <1>6 DEF Flat

\* Of n samples at most 100 n / (100 + t^2) exceed t tenths of a deviation.
LEMMA FewExceed ==
    ASSUME NEW n \in Nat, NEW s \in [1..n -> Int], NEW t \in Nat, NEW up \in Int,
           t > 10 \/ ~Flat(s),
           NEW F \in SUBSET (1..n), \A i \in F : Exceeds(s, i, t, up)
    PROVE  Cardinality(F) \in Nat /\ Cardinality(F) * (100 + t * t) <= 100 * n
<1> DEFINE d == Distances(s, n)
           Q == Spread(s)
<1>1. d \in [1..n -> Int] /\ Sum(d) = 0 /\ Q = Sum(Squares(d, n))
      /\ \A i \in 1..n : FromMean(s, i) = d[i]
  BY DistanceFacts
<1>2. Q \in Nat
  BY <1>1, SquareFacts
<1>3. Len(s) = n
  BY IsList
<1>4. CASE F = {}
  <2>1. Cardinality(F) = 0
    BY <1>4, FS_EmptySet
  <2>2. t * t \in Nat
    OBVIOUS
  <2>3. 0 * (100 + t * t) = 0
    BY <2>2
  <2> QED
    BY <2>1, <2>3
<1>5. CASE F # {}
  <2>1. Q # 0
    <3>1. ASSUME Q = 0 PROVE FALSE
      <4>1. Flat(s)
        BY <3>1, NoSpread
      <4>2. PICK i \in F : TRUE
        BY <1>5
      <4>3. t <= 10
        BY <3>1, <4>2 DEF Exceeds
      <4> QED
        BY <4>1, <4>3
    <3> QED
      BY <3>1
  <2>2. \A i \in F : d[i] \in Int /\ d[i] > 0 /\ AtLeast(100 * d[i] * d[i] * n, t * t * Q, up)
    BY <1>1, <1>3, <2>1 DEF Exceeds
  <2> HIDE DEF d, Q
  <2> DEFINE T == {d[i] : i \in F}
  <2>3. T \in SUBSET Nat /\ T # {}
    <3>1. \A i \in F : d[i] \in Nat
      BY <2>2
    <3> QED
      BY <1>5, <3>1
  <2>4. PICK e \in T : \A y \in T : e <= y
    BY <2>3, Least
  <2>5. PICK x \in F : e = d[x]
    BY <2>4
  <2>6. e \in Nat /\ \A i \in F : d[i] >= e
    BY <2>2, <2>3, <2>4
  <2>7. 100 * e * e * n >= t * t * Q
    <3>1. 100 * e * e * n \in Int /\ t * t * Q \in Int
      BY <1>2, <2>6
    <3>2. AtLeast(100 * e * e * n, t * t * Q, up)
      BY <2>2, <2>5
    <3> HIDE DEF T
    <3> QED
      BY <3>1, <3>2 DEF AtLeast
  <2> DEFINE P == n * (e * e) + Q
  <2>8. P \in Nat
    BY <1>2, <2>6
  <2>9. Cardinality(F) \in Nat /\ Cardinality(F) * (P * P) <= n * (Q * P)
    <3> HIDE DEF T
    <3>1. P = n * (e * e) + Q
      OBVIOUS
    <3> HIDE DEF P
    <3>2. Sum(d) = 0 /\ Q = Sum(Squares(d, n)) /\ d \in [1..n -> Int]
      BY <1>1
    <3>3. /\ Q \in Nat /\ e \in Nat /\ P \in Nat
      BY <1>2, <2>6, <2>8
    <3>4. \A i \in F : d[i] >= e
      BY <2>6
    <3>5. FarBound(Cardinality(F), n, Q, P)
      BY <3>1, <3>2, <3>3, <3>4, FewAreFar, Zenon
    <3> QED
      BY <3>5 DEF FarBound
  <2>10. Q \in Nat \ {0}
    BY <1>2, <2>1
  <2> HIDE DEF T
  <2> QED
    BY <2>6, <2>7, <2>9, <2>10, FarEnough
<1> QED
  BY <1>4, <1>5

\* The median exists: the middle one of the sorted values.
LEMMA MedianFacts ==
    ASSUME NEW n \in Nat \ {0}, NEW s \in [1..n -> Int]
    PROVE  /\ Median(s) \in Int /\ \E i \in 1..n : Median(s) = s[i]
           /\ Cardinality({j \in 1..n : s[j] < Median(s)}) <= n \div 2
           /\ Cardinality({j \in 1..n : s[j] <= Median(s)}) > n \div 2
<1> DEFINE below(v) == {j \in 1..n : s[j] < v}
           upto(v) == {j \in 1..n : s[j] <= v}
           h == n \div 2
<1>1. PICK p \in [1..n -> 1..n] : \A i, j \in 1..n : i < j =>
          s[p[i]] < s[p[j]] \/ (s[p[i]] = s[p[j]] /\ p[i] < p[j])
  BY CanBeSorted
<1>2. Sorts(p, n, s)
  <2>1. ASSUME NEW i \in 1..n, NEW j \in 1..n, i < j
        PROVE  p[i] # p[j] /\ s[p[i]] <= s[p[j]]
    <3>1. p[i] \in 1..n /\ p[j] \in 1..n /\ s[p[i]] \in Int /\ s[p[j]] \in Int
      OBVIOUS
    <3>2. s[p[i]] < s[p[j]] \/ (s[p[i]] = s[p[j]] /\ p[i] < p[j])
      BY <1>1, <2>1
    <3> DEFINE x == p[i]
               y == p[j]
               u == s[x]
               v == s[y]
    <3>3. /\ x \in Int /\ y \in Int /\ u \in Int /\ v \in Int
          /\ u < v \/ (u = v /\ x < y)
          /\ x = y => u = v
      BY <3>1, <3>2
    <3> HIDE DEF x, y, u, v
    <3>4. x # y /\ u <= v
      BY <3>3
    <3> QED
      BY <3>4 DEF x, y, u, v
  <2> QED
    BY <2>1 DEF Sorts
<1>3. h \in Nat /\ h + 1 \in 1..n
  OBVIOUS
<1> HIDE DEF h
<1> DEFINE k == h + 1
           v == s[p[k]]
<1>4. p[k] \in 1..n /\ v \in Int
  BY <1>1, <1>3
<1>5. Cardinality(below(v)) \in 0..(k - 1) /\ Cardinality(upto(v)) \in k..n
  <2>1. k \in 1..n
    BY <1>3
  <2> HIDE DEF k
  <2> QED
    BY <1>2, <2>1, SortedCounts
<1>6. Len(s) = n /\ DOMAIN s = 1..n
  BY IsList
<1>7. v \in Range(s)
  BY <1>4, <1>6 DEF Range
<1> HIDE DEF below, upto, v
<1>8. Cardinality(below(v)) <= h /\ Cardinality(upto(v)) > h
  BY <1>3, <1>5
<1>9. /\ Median(s) \in Range(s)
      /\ Cardinality(below(Median(s))) <= h /\ Cardinality(upto(Median(s))) > h
  <2>1. Median(s) = CHOOSE w \in Range(s) :
            Cardinality(below(w)) <= h /\ Cardinality(upto(w)) > h
    BY <1>6 DEF Median, below, upto, h
  <2> QED
    BY <1>7, <1>8, <2>1
<1>10. \E i \in 1..n : Median(s) = s[i]
  BY <1>6, <1>9 DEF Range
<1> QED
  BY <1>9, <1>10 DEF below, upto, h

\* At most half of the values are above the median.
LEMMA FewAreHigh ==
    ASSUME NEW n \in Nat, NEW s \in [1..n -> Int],
           NEW F \in SUBSET (1..n), \A i \in F : s[i] > Median(s)
    PROVE  Cardinality(F) \in Nat /\ 2 * Cardinality(F) <= n
<1>1. IsFiniteSet(1..n) /\ Cardinality(1..n) = n
  BY FS_Interval
<1>2. CASE n = 0
  <2>1. F = {}
    BY <1>2
  <2> QED
    BY <1>2, <2>1, FS_EmptySet
<1>3. CASE n # 0
  <2> DEFINE m == Median(s)
             U == {j \in 1..n : s[j] <= m}
  <2>1. m \in Int /\ Cardinality(U) > n \div 2
    BY <1>3, MedianFacts
  <2>2. F \subseteq (1..n) \ U
    <3>1. ASSUME NEW i \in F PROVE i \notin U
      <4>1. s[i] \in Int /\ s[i] > m
        OBVIOUS
      <4> HIDE DEF m
      <4> QED
        BY <2>1, <4>1
    <3> QED
      BY <3>1
  <2>3. U \in SUBSET (1..n) /\ (1..n) \cap U = U
    OBVIOUS
  <2> HIDE DEF U, m
  <2>4. IsFiniteSet(U) /\ IsFiniteSet((1..n) \ U)
    BY <1>1, <2>3, FS_Subset, FS_Difference
  <2>5. Cardinality((1..n) \ U) = n - Cardinality(U)
    <3>1. Cardinality((1..n) \ U) = Cardinality(1..n) - Cardinality((1..n) \cap U)
      BY <1>1, FS_Difference
    <3> QED
      BY <1>1, <2>3, <3>1
  <2>6. Cardinality(F) <= Cardinality((1..n) \ U)
    BY <2>2, <2>4, FS_Subset
  <2>7. Cardinality(F) \in Nat /\ Cardinality(U) \in Nat
    BY <1>1, <2>4, FS_Subset, FS_CardinalityType
  <2> QED
    BY <2>1, <2>5, <2>6, <2>7
<1> QED
  BY <1>2, <1>3

\* The distances from the median.
Offsets(s, n, m) == [j \in 1..n |-> Abs(s[j] - m)]

\* They are numbers and not negative.
LEMMA OffsetFacts ==
    ASSUME NEW n \in Nat, NEW s \in [1..n -> Int], NEW m \in Int
    PROVE  /\ Offsets(s, n, m) \in [1..n -> Int]
           /\ \A i \in 1..n : Offsets(s, n, m)[i] = Abs(s[i] - m) /\ Abs(s[i] - m) \in Nat
           /\ Sum(Offsets(s, n, m)) \in Int
<1>1. ASSUME NEW i \in 1..n PROVE Abs(s[i] - m) \in Nat
  <2>1. s[i] - m \in Int
    OBVIOUS
  <2> QED
    BY <2>1 DEF Abs
<1>2. \A i \in 1..n : Offsets(s, n, m)[i] = Abs(s[i] - m)
  BY DEF Offsets
<1>3. Offsets(s, n, m) \in [1..n -> Int]
  BY <1>1 DEF Offsets
<1> QED
  BY <1>1, <1>2, <1>3, SumOfSame

\* At most a third of the values are three mean deviations away from the median.
LEMMA FewAreOff ==
    ASSUME NEW n \in Nat, NEW s \in [1..n -> Int], NEW up \in Int,
           NEW F \in SUBSET (1..n), \A i \in F : FarFromMedian(s, i, up)
    PROVE  Cardinality(F) \in Nat /\ 3 * Cardinality(F) <= n
<1> DEFINE m == Median(s)
           e == Offsets(s, n, m)
           off == Sum(e)
           marks == Marks(F, n)
           k == Cardinality(F)
<1>1. marks \in [1..n -> Int] /\ Sum(marks) = k
  BY SumOfMarks
<1>2. k \in Nat
  <2>1. IsFiniteSet(1..n)
    BY FS_Interval
  <2>2. IsFiniteSet(F)
    BY <2>1, FS_Subset
  <2> QED
    BY <2>2, FS_CardinalityType
<1>3. CASE F = {}
  BY <1>3, FS_EmptySet
<1>4. CASE F # {}
  <2>1. PICK x \in F : TRUE
    BY <1>4
  <2>2. n \in Nat \ {0}
    OBVIOUS
  <2>3. m \in Int
    BY <2>2, MedianFacts
  <2>4. Len(s) = n /\ DOMAIN s = 1..n
    BY IsList
  <2>5. e \in [1..n -> Int] /\ off \in Int
        /\ \A i \in 1..n : e[i] = Abs(s[i] - m) /\ e[i] \in Nat
    <3> HIDE DEF m
    <3>1. e \in [1..n -> Int]
      BY <2>3, OffsetFacts
    <3>2. off \in Int
      BY <2>3, OffsetFacts
    <3>3. \A i \in 1..n : e[i] = Abs(s[i] - m) /\ Abs(s[i] - m) \in Nat
      BY <2>3, OffsetFacts
    <3> HIDE DEF e, off
    <3> QED
      BY <3>1, <3>2, <3>3
  <2>6. \A i \in F : off > 0 /\ AtLeast(n * e[i], 3 * off, up)
    <3>1. [j \in DOMAIN s |-> Abs(s[j] - Median(s))] = e
      BY <2>4 DEF Offsets
    <3>2. \A i \in F : e[i] = Abs(s[i] - Median(s))
      BY <2>5
    <3> HIDE DEF e
    <3> QED
      BY <2>4, <3>1, <3>2 DEF FarFromMedian
  <2>7. \A i \in 1..n : marks[i] = IF i \in F THEN 1 ELSE 0
    BY DEF Marks
  <2> HIDE DEF m, e, off, marks
  <2>8. off \in Nat \ {0} /\ 3 * off \in Int /\ n \in Int /\ 0 \in Int
    BY <2>1, <2>5, <2>6
  <2>9. PICK low : Combines(low, n, 3 * off, marks, 0, marks)
    BY <1>1, <2>8, Combination, Zenon
  <2>10. PICK high : Combines(high, n, n, e, 0, e)
    BY <2>5, <2>8, Combination, Zenon
  <2>11. /\ low \in [1..n -> Int] /\ high \in [1..n -> Int]
         /\ \A i \in 1..n : /\ low[i] = 3 * off * marks[i] + 0 * marks[i]
                            /\ high[i] = n * e[i] + 0 * e[i]
    BY <2>9, <2>10 DEF Combines
  <2>12. ASSUME NEW i \in 1..n PROVE low[i] <= high[i]
    <3>1. e[i] \in Nat /\ n * e[i] \in Nat
      BY <2>5
    <3>2. high[i] = n * e[i]
      BY <2>11, <3>1
    <3>3. CASE i \in F
      <4>1. low[i] = 3 * off * 1 + 0 * 1
        BY <2>7, <2>11, <3>3
      <4>2. low[i] = 3 * off
        BY <2>8, <4>1
      <4>3. n * e[i] >= 3 * off
        BY <2>6, <2>8, <3>1, <3>3 DEF AtLeast
      <4> QED
        BY <3>2, <4>2, <4>3
    <3>4. CASE i \notin F
      <4>1. low[i] = 3 * off * 0 + 0 * 0
        BY <2>7, <2>11, <3>4
      <4>2. low[i] = 0
        BY <2>8, <4>1
      <4> QED
        BY <3>1, <3>2, <4>2
    <3> QED
      BY <3>3, <3>4
  <2>13. Sum(low) <= Sum(high)
    BY <2>11, <2>12, SumMonotone
  <2>14. Combined(low, 3 * off, marks, 0, marks)
    BY <1>1, <2>8, <2>9, SumLinear, Zenon
  <2>15. Combined(high, n, e, 0, e)
    BY <2>5, <2>8, <2>10, SumLinear, Zenon
  <2>16. Sum(low) = (3 * k) * off
    <3>1. Sum(low) = 3 * off * k + 0 * k
      BY <1>1, <2>14 DEF Combined
    <3> HIDE DEF k
    <3>2. 3 * off * k + 0 * k = (3 * k) * off
      BY <1>2, <2>8
    <3> QED
      BY <3>1, <3>2
  <2>17. Sum(high) = n * off
    <3>1. Sum(high) = n * off + 0 * off
      BY <2>15 DEF Combined, off
    <3>2. n * off + 0 * off = n * off
      BY <2>8
    <3> QED
      BY <3>1, <3>2
  <2> HIDE DEF k
  <2>18. 3 * k \in Int /\ (3 * k) * off <= n * off
    BY <1>2, <2>13, <2>16, <2>17
  <2>19. 3 * k <= n
    BY <2>8, <2>18, Cancel
  <2> QED
    BY <1>2, <2>19 DEF k
<1> QED
  BY <1>3, <1>4

\* The products of k equal spikes among k + m samples, in units g of the squared
\* height: what they add up to, and when a spike exceeds t tenths of the deviation.
LEMMA SpikeProducts ==
    ASSUME NEW k \in Nat \ {0}, NEW m \in Nat \ {0}, NEW D \in Nat \ {0}, NEW t \in Nat,
           k * (100 + t * t) < 100 * (k + m)
    PROVE  /\ (k * D) * (k * D) * (k + m) + ((m * D) * (m * D) - (k * D) * (k * D)) * k
                = (k * m * (k + m)) * (D * D)
           /\ (k * m * (k + m)) * (D * D) \in Nat \ {0}
           /\ 100 * (m * D) * (m * D) * (k + m) > t * t * ((k * m * (k + m)) * (D * D))
<1> DEFINE g == D * D
           c == m * (k + m) * g
           w == t * t
<1>1. g \in Nat \ {0} /\ w \in Nat /\ k * m \in Nat \ {0}
  OBVIOUS
<1>2. (k * D) * (k * D) = (k * k) * g /\ (m * D) * (m * D) = (m * m) * g
  OBVIOUS
<1>3. 100 * (m * D) * (m * D) = 100 * ((m * m) * g)
  OBVIOUS
<1>4. k * (100 + w) < 100 * (k + m)
  OBVIOUS
<1> HIDE DEF g, w
<1>5. m * (k + m) \in Nat \ {0} /\ k * m * (k + m) \in Nat \ {0}
  BY <1>1
<1>6. c \in Nat \ {0} /\ (k * m * (k + m)) * g \in Nat \ {0}
  BY <1>1, <1>5
<1>7. (k * k) * g * (k + m) + ((m * m) * g - (k * k) * g) * k = (k * m * (k + m)) * g
  BY <1>1
<1>8. (k * m * (k + m)) * g = k * c
  BY <1>1
<1>9. 100 * ((m * m) * g) * (k + m) = c * (100 * m)
  BY <1>1
<1> HIDE DEF c
<1>10. 100 * m >= w * k + 1
  <2>1. k * (100 + w) = 100 * k + w * k /\ w * k \in Int
    BY <1>1
  <2> QED
    BY <1>4, <2>1
<1>11. c * (100 * m) >= c * (w * k + 1)
  <2>1. w * k + 1 \in Int /\ 100 * m \in Int
    BY <1>1
  <2> QED
    BY <1>6, <1>10, <2>1, ProductGrows
<1>12. c * (w * k + 1) = w * (k * c) + c /\ w * (k * c) \in Int /\ c * (100 * m) \in Int
  BY <1>1, <1>6
<1>13. c * (100 * m) > w * (k * c)
  BY <1>6, <1>11, <1>12
<1>14. (k * D) * (k * D) * (k + m) + ((m * D) * (m * D) - (k * D) * (k * D)) * k
          = (k * m * (k + m)) * g
  BY <1>2, <1>7
<1>15. 100 * (m * D) * (m * D) * (k + m) > w * ((k * m * (k + m)) * g)
  BY <1>3, <1>8, <1>9, <1>13
<1> QED
  BY <1>6, <1>14, <1>15 DEF g, w

\* A list of two levels: high on F and low elsewhere.
TwoLevels(s, n, F, low, high) ==
    /\ s \in [1..n -> Int]
    /\ \A i \in 1..n : s[i] = IF i \in F THEN high ELSE low

\* Such a list is low everywhere and the difference more on F.
LEMMA TwoLevelSum ==
    ASSUME NEW n \in Nat, NEW F \in SUBSET (1..n), NEW low \in Int, NEW high \in Int,
           NEW s, TwoLevels(s, n, F, low, high)
    PROVE  Cardinality(F) \in Nat
           /\ Sum(s) = low * n + (high - low) * Cardinality(F)
<1> DEFINE ones == Marks(1..n, n)
           marks == Marks(F, n)
           D == high - low
           k == Cardinality(F)
<1>1. ones \in [1..n -> Int] /\ Sum(ones) = n /\ \A i \in 1..n : ones[i] = 1
  <2>1. marks \in [1..n -> Int]
    BY SumOfMarks
  <2> QED
    BY <2>1, SumOfSame
<1>2. marks \in [1..n -> Int] /\ Sum(marks) = k
  BY SumOfMarks
<1>3. \A i \in 1..n : marks[i] = IF i \in F THEN 1 ELSE 0
  BY DEF Marks
<1>4. k \in Nat
  <2>1. IsFiniteSet(1..n)
    BY FS_Interval
  <2>2. IsFiniteSet(F)
    BY <2>1, FS_Subset
  <2> QED
    BY <2>2, FS_CardinalityType
<1>5. D \in Int /\ high = low + D
  OBVIOUS
<1> HIDE DEF ones, marks, D, k
<1>6. ASSUME NEW i \in 1..n PROVE s[i] = low * ones[i] + D * marks[i]
  <2>1. low * 1 + D * 1 = high /\ low * 1 + D * 0 = low
    BY <1>5
  <2>2. CASE i \in F
    <3>1. s[i] = high /\ ones[i] = 1 /\ marks[i] = 1
      BY <1>1, <1>3, <2>2 DEF TwoLevels
    <3> QED
      BY <2>1, <3>1
  <2>3. CASE i \notin F
    <3>1. s[i] = low /\ ones[i] = 1 /\ marks[i] = 0
      BY <1>1, <1>3, <2>3 DEF TwoLevels
    <3> QED
      BY <2>1, <3>1
  <2> QED
    BY <2>2, <2>3
<1>7. Combines(s, n, low, ones, D, marks)
  BY <1>6 DEF Combines, TwoLevels
<1>8. Combined(s, low, ones, D, marks)
  BY <1>1, <1>2, <1>5, <1>7, SumLinear, Zenon
<1> QED
  BY <1>1, <1>2, <1>4, <1>8 DEF Combined, D, k

\* Equal spikes that are few enough all exceed the threshold.
LEMMA SpikesExceed ==
    ASSUME NEW n \in Nat, NEW F \in SUBSET (1..n), NEW low \in Int, NEW high \in Int, low < high,
           NEW s, TwoLevels(s, n, F, low, high), NEW t \in Nat, NEW up \in Int,
           Cardinality(F) * (100 + t * t) < 100 * n
    PROVE  \A i \in F : Exceeds(s, i, t, up)
<1> SUFFICES ASSUME NEW x \in F PROVE Exceeds(s, x, t, up)
    OBVIOUS
<1> DEFINE D == high - low
           k == Cardinality(F)
           m == n - k
           d == Distances(s, n)
           q == Squares(d, n)
           a == m * D
           b == -(k * D)
           A == a * a
           B == (k * D) * (k * D)
           Q == Spread(s)
<1>1. k \in Nat /\ Sum(s) = low * n + D * k
  BY TwoLevelSum
<1>2. D \in Nat \ {0} /\ high = low + D
  OBVIOUS
<1>3. k # 0
  <2>1. IsFiniteSet(1..n)
    BY FS_Interval
  <2>2. IsFiniteSet(F)
    BY <2>1, FS_Subset
  <2> QED
    BY <2>2, FS_EmptySet
<1>4. k * (100 + t * t) < 100 * n
  OBVIOUS
<1>5. s \in [1..n -> Int] /\ \A i \in 1..n : s[i] = IF i \in F THEN high ELSE low
  BY DEF TwoLevels
<1>6. /\ d \in [1..n -> Int] /\ Q = Sum(q) /\ \A i \in 1..n : FromMean(s, i) = d[i]
      /\ \A i \in 1..n : d[i] = n * s[i] - Sum(s)
  <2>1. /\ d \in [1..n -> Int] /\ Q = Sum(q) /\ \A i \in 1..n : FromMean(s, i) = d[i]
    BY <1>5, DistanceFacts
  <2>2. \A i \in 1..n : d[i] = n * s[i] - Sum(s)
    BY DEF Distances
  <2> QED
    BY <2>1, <2>2
<1>7. q \in [1..n -> Int] /\ \A i \in 1..n : q[i] = d[i] * d[i]
  BY <1>6, SquareFacts
<1>8. Len(s) = n
  BY <1>5, IsList
<1> HIDE DEF k, D, d, q, Q
<1>9. m \in Nat \ {0} /\ n = k + m
  <2>1. t * t \in Nat
    OBVIOUS
  <2> DEFINE w == t * t
  <2> HIDE DEF w
  <2>2. w \in Nat /\ k * (100 + w) < 100 * n
    BY <1>4, <2>1 DEF w
  <2>3. k * (100 + w) = 100 * k + k * w /\ k * w \in Nat
    BY <1>1, <2>2
  <2> QED
    BY <1>1, <2>2, <2>3
<1> HIDE DEF m
<1>10. \A i \in 1..n : d[i] = IF i \in F THEN a ELSE b
  <2>1. n * high - (low * n + D * k) = m * D
    BY <1>1, <1>2, <1>9
  <2>2. n * low - (low * n + D * k) = -(k * D)
    BY <1>1, <1>2, <1>9
  <2>3. ASSUME NEW i \in 1..n PROVE d[i] = IF i \in F THEN a ELSE b
    <3>1. d[i] = n * s[i] - (low * n + D * k)
      BY <1>1, <1>6
    <3> QED
      BY <1>5, <2>1, <2>2, <3>1
  <2> QED
    BY <2>3
<1>11. a \in Int /\ a > 0 /\ A \in Int /\ B \in Int /\ b * b = B
  BY <1>1, <1>2, <1>9
<1> DEFINE P == (k * m * (k + m)) * (D * D)
<1>12. /\ B * (k + m) + (A - B) * k = P
       /\ P \in Nat \ {0} /\ 100 * a * a * (k + m) > t * t * P
  <2>1. k \in Nat \ {0} /\ k * (100 + t * t) < 100 * (k + m)
    BY <1>1, <1>3, <1>4, <1>9
  <2> QED
    BY <1>2, <1>9, <2>1, SpikeProducts
<1> HIDE DEF P, a, b, A
<1>13. TwoLevels(q, n, F, B, A)
  <2>1. a * a = A
    BY DEF A
  <2>2. ASSUME NEW i \in 1..n PROVE q[i] = IF i \in F THEN A ELSE B
    BY <1>7, <1>10, <1>11, <2>1, <2>2
  <2> QED
    BY <1>7, <2>2 DEF TwoLevels
<1> HIDE DEF B
<1>14. Sum(q) = B * n + (A - B) * k
  BY <1>11, <1>13, TwoLevelSum DEF k
<1>15. Q = P
  BY <1>6, <1>9, <1>12, <1>14
<1>16. FromMean(s, x) = a
  BY <1>6, <1>10
<1>17. Q # 0 /\ AtLeast(100 * a * a * n, t * t * Q, up)
  BY <1>9, <1>12, <1>15 DEF AtLeast
<1> QED
  BY <1>8, <1>11, <1>16, <1>17 DEF Exceeds, Q

\* A single spike among four counts or more is far from the median.
LEMMA SpikeIsOff ==
    ASSUME NEW n \in Nat, n > 3, NEW x \in 1..n, NEW low \in Int, NEW high \in Int, low < high,
           NEW s, TwoLevels(s, n, {x}, low, high), NEW up \in Int
    PROVE  FarFromMedian(s, x, up)
<1> DEFINE D == high - low
           m == Median(s)
           e == Offsets(s, n, m)
           off == Sum(e)
<1>1. s \in [1..n -> Int] /\ \A i \in 1..n : s[i] = IF i = x THEN high ELSE low
  BY DEF TwoLevels
<1>2. D \in Nat \ {0} /\ n \in Nat \ {0}
  OBVIOUS
<1>3. m = low
  <2>1. m \in Int /\ (\E i \in 1..n : m = s[i])
        /\ Cardinality({j \in 1..n : s[j] < m}) <= n \div 2
    BY <1>1, <1>2, MedianFacts
  <2> HIDE DEF m
  <2>2. ASSUME m = high PROVE FALSE
    <3>1. {j \in 1..n : s[j] < m} = (1..n) \ {x}
      <4>1. ASSUME NEW j \in 1..n PROVE s[j] < m <=> j # x
        BY <1>1, <2>2
      <4> QED
        BY <4>1
    <3>2. IsFiniteSet(1..n) /\ Cardinality(1..n) = n
      BY FS_Interval
    <3>3. Cardinality((1..n) \ {x}) = n - 1
      BY <3>2, FS_RemoveElement
    <3> QED
      BY <2>1, <3>1, <3>3
  <2> QED
    BY <1>1, <2>1, <2>2
<1>4. Len(s) = n /\ DOMAIN s = 1..n
  BY <1>1, IsList
<1>5. /\ e \in [1..n -> Int]
      /\ \A i \in 1..n : e[i] = Abs(s[i] - m)
  <2>1. m \in Int
    BY <1>3
  <2> HIDE DEF m
  <2> QED
    BY <1>1, <2>1, OffsetFacts
<1>6. [j \in DOMAIN s |-> Abs(s[j] - Median(s))] = e
  BY <1>4 DEF Offsets
<1> HIDE DEF m, e
<1>7. \A i \in 1..n : e[i] = IF i \in {x} THEN D ELSE 0
  <2>1. Abs(low - low) = 0 /\ Abs(high - low) = D
    BY <1>2 DEF Abs
  <2> QED
    BY <1>1, <1>3, <1>5, <2>1
<1>8. off = D
  <2>1. TwoLevels(e, n, {x}, 0, D)
    BY <1>5, <1>7 DEF TwoLevels
  <2>2. Cardinality({x}) = 1
    BY FS_Singleton
  <2> HIDE DEF D
  <2>3. 0 \in Int /\ D \in Int /\ {x} \in SUBSET (1..n)
    BY <1>2
  <2>4. Sum(e) = 0 * n + (D - 0) * Cardinality({x})
    BY <2>1, <2>3, TwoLevelSum
  <2> QED
    BY <2>2, <2>3, <2>4
<1>9. Abs(s[x] - m) = D
  BY <1>5, <1>7
<1> HIDE DEF D, off
<1>10. n * D > 3 * D
  <2>1. n * D = 3 * D + (n - 3) * D
    BY <1>2
  <2>2. (n - 3) * D > 0
    BY <1>2
  <2> QED
    BY <1>2, <2>1, <2>2
<1>11. off > 0 /\ AtLeast(n * D, 3 * off, up)
  BY <1>2, <1>8, <1>10 DEF AtLeast
<1> QED
  BY <1>4, <1>6, <1>9, <1>11 DEF FarFromMedian, off, m

\* The lowest value of a list, and where it is higher.
Low(s) == CHOOSE v \in Range(s) : \A w \in Range(s) : v <= w
Spikes(s) == {i \in DOMAIN s : s[i] # Low(s)}

\* A list with two values has two levels.
LEMMA TwoValues ==
    ASSUME NEW n \in Nat, NEW s \in [1..n -> Int], Cardinality(Range(s)) = 2
    PROVE  /\ Low(s) \in Int /\ Spikes(s) \in SUBSET (1..n)
           /\ \E high \in Int : Low(s) < high /\ TwoLevels(s, n, Spikes(s), Low(s), high)
<1>1. DOMAIN s = 1..n /\ Range(s) = {s[i] : i \in 1..n}
  BY DEF Range
<1>2. Range(s) \subseteq Int /\ \A i \in 1..n : s[i] \in Range(s)
  BY <1>1
<1>3. IsFiniteSet(Range(s))
  <2>1. IsFiniteSet(1..n)
    BY FS_Interval
  <2>2. s \in Surjection(1..n, Range(s))
    BY <1>1, <1>2 DEF Surjection
  <2> QED
    BY <2>1, <2>2, FS_Surjection
<1>4. PICK v \in Range(s) : TRUE
  BY FS_EmptySet
<1>5. PICK w : Range(s) \ {v} = {w}
  <2>1. IsFiniteSet(Range(s) \ {v}) /\ Cardinality(Range(s) \ {v}) = 1
    BY <1>3, <1>4, FS_RemoveElement
  <2> QED
    BY <2>1, FS_Singleton
<1>6. Range(s) = {v, w} /\ v # w /\ v \in Int /\ w \in Int
  BY <1>2, <1>4, <1>5
<1>7. PICK l \in Int, h \in Int : l < h /\ Range(s) = {l, h}
  <2>1. CASE v < w
    BY <1>6, <2>1
  <2>2. CASE w < v
    <3>1. Range(s) = {w, v}
      BY <1>6
    <3> QED
      BY <1>6, <2>2, <3>1
  <2> QED
    BY <1>6, <2>1, <2>2
<1>8. Low(s) = l
  <2>1. \A y \in Range(s) : l <= y
    BY <1>7
  <2>2. \A x \in Range(s) : (\A y \in Range(s) : x <= y) => x = l
    BY <1>7
  <2> QED
    BY <1>7, <2>1, <2>2 DEF Low
<1>9. Spikes(s) = {i \in 1..n : s[i] # l}
  BY <1>1, <1>8 DEF Spikes
<1>10. TwoLevels(s, n, Spikes(s), l, h)
  BY <1>2, <1>7, <1>9 DEF TwoLevels
<1> QED
  BY <1>7, <1>8, <1>9, <1>10

-----------------------------------------------------------------------------
(* What a detector reports *)

\* The input is one that its detector may be given.
Given ==
    /\ \/ kind = "metrics" /\ input \in MetricInputs /\ threshold \in Thresholds
       \/ kind = "logs" /\ input \in LogInputs /\ threshold = 30
       \/ kind = "traces" /\ input \in SpanInputs /\ threshold = 20
    /\ round \in Int

\* What it reports of it.
Reported(i) ==
    CASE kind = "metrics" -> Exceeds(input, i, MetricThreshold(threshold), round)
      [] kind = "logs" ->
            \/ FarFromMedian(Counts, i, round)
            \/ input[i].error /\ input[i].count > (13 * Median(Counts)) \div 10
      [] kind = "traces" -> Exceeds(SpanDurations, i, threshold, round) \/ input[i].error

\* The inductive invariant: the input stays, and the result is what the detector
\* reports of it.
DetectInv == Given /\ (done => found = {i \in DOMAIN input : Reported(i)})

\* It holds from the start and every detector keeps it.
LEMMA DetectInvHolds == DetectSpec => []DetectInv
<1>1. DetectInit => DetectInv
  BY DEF DetectInit, DetectInv, Given
<1>2. DetectInv /\ [DetectNext]_detectVars => DetectInv'
  <2> SUFFICES ASSUME DetectInv, [DetectNext]_detectVars PROVE DetectInv'
      OBVIOUS
  <2>1. CASE DetectMetrics
    BY <2>1 DEF DetectMetrics, Report, DetectInv, Given, Reported
  <2>2. CASE DetectLogs
    BY <2>2 DEF DetectLogs, Report, DetectInv, Given, Reported, Counts
  <2>3. CASE DetectTraces
    BY <2>3 DEF DetectTraces, Report, DetectInv, Given, Reported, SpanDurations
  <2>4. CASE UNCHANGED detectVars
    BY <2>4 DEF detectVars, DetectInv, Given, Reported, Counts, SpanDurations
  <2> QED
    BY <2>1, <2>2, <2>3, <2>4 DEF DetectNext
<1> QED
  BY <1>1, <1>2, PTL DEF DetectSpec

\* A list's indices and its items.
LEMMA ItemsOf ==
    ASSUME NEW T, NEW s \in Seq(T)
    PROVE  /\ Len(s) \in Nat /\ DOMAIN s = 1..Len(s)
           /\ \A i \in 1..Len(s) : s[i] \in T
OBVIOUS

\* The numbers a detector scores are a list as long as its input.
LEMMA ValueFacts ==
    ASSUME Given
    PROVE  /\ Len(input) \in Nat /\ DOMAIN input = 1..Len(input)
           /\ Values \in [1..Len(input) -> Int] /\ DOMAIN Values = 1..Len(input)
           /\ Limit \in Nat \ {0}
           /\ kind \in {"metrics", "logs", "traces"}
           /\ kind = "metrics" => Values = input /\ Limit = MetricThreshold(threshold)
           /\ kind = "logs" => Values = Counts
           /\ kind = "traces" => Values = SpanDurations /\ Limit = threshold
<1>1. CASE kind = "metrics"
  <2>1. input \in Seq(Int) /\ threshold \in Int
    BY <1>1, ExtractorsAssumption DEF Given
  <2>2. Values = input /\ Limit = MetricThreshold(threshold)
    BY <1>1 DEF Values, Limit
  <2>3. MetricThreshold(threshold) \in Nat \ {0}
    BY <2>1 DEF MetricThreshold
  <2> QED
    BY <1>1, <2>1, <2>2, <2>3
<1>2. CASE kind = "logs"
  <2>1. input \in Seq([count : Nat, error : BOOLEAN]) /\ threshold = 30
    BY <1>2, ExtractorsAssumption DEF Given
  <2>2. Values = Counts /\ Limit = 30
    BY <1>2, <2>1 DEF Values, Limit
  <2>3. /\ Len(input) \in Nat /\ DOMAIN input = 1..Len(input)
        /\ \A i \in 1..Len(input) : input[i].count \in Int
    <3>1. /\ Len(input) \in Nat /\ DOMAIN input = 1..Len(input)
          /\ \A i \in 1..Len(input) : input[i] \in [count : Nat, error : BOOLEAN]
      BY <2>1, ItemsOf
    <3>2. \A x \in [count : Nat, error : BOOLEAN] : x.count \in Int
      OBVIOUS
    <3> QED
      BY <3>1, <3>2
  <2>4. Counts \in [1..Len(input) -> Int]
    BY <2>3 DEF Counts
  <2> QED
    BY <1>2, <2>2, <2>3, <2>4
<1>3. CASE kind = "traces"
  <2>1. input \in Seq([duration : Nat, error : BOOLEAN]) /\ threshold = 20
    BY <1>3, ExtractorsAssumption DEF Given
  <2>2. Values = SpanDurations /\ Limit = 20
    BY <1>3, <2>1 DEF Values, Limit
  <2>3. /\ Len(input) \in Nat /\ DOMAIN input = 1..Len(input)
        /\ \A i \in 1..Len(input) : input[i].duration \in Int
    <3>1. /\ Len(input) \in Nat /\ DOMAIN input = 1..Len(input)
          /\ \A i \in 1..Len(input) : input[i] \in [duration : Nat, error : BOOLEAN]
      BY <2>1, ItemsOf
    <3>2. \A x \in [duration : Nat, error : BOOLEAN] : x.duration \in Int
      OBVIOUS
    <3> QED
      BY <3>1, <3>2
  <2>4. SpanDurations \in [1..Len(input) -> Int]
    BY <2>3 DEF SpanDurations
  <2> QED
    BY <1>3, <2>1, <2>2, <2>3, <2>4
<1> QED
  BY <1>1, <1>2, <1>3 DEF Given

\* Alarms are rare whatever the series, its length and the threshold: the samples
\* and spans by Cantelli's rule, the log entries because the deviations add up.
THEOREM RarityCorrect == DetectSpec => []AlarmsAreRare
<1>1. DetectInv => AlarmsAreRare
  <2> SUFFICES ASSUME DetectInv, done PROVE AlarmsAreRare
      BY DEF AlarmsAreRare
  <2> DEFINE n == Len(input)
             F == found \ Errors
  <2>1. Given /\ found = {i \in DOMAIN input : Reported(i)}
    BY DEF DetectInv
  <2>2. /\ n \in Nat /\ DOMAIN input = 1..n
        /\ Values \in [1..n -> Int] /\ Limit \in Nat /\ round \in Int
        /\ kind \in {"metrics", "logs", "traces"}
        /\ kind = "metrics" => Values = input /\ Limit = MetricThreshold(threshold)
        /\ kind = "logs" => Values = Counts
        /\ kind = "traces" => Values = SpanDurations /\ Limit = threshold
    BY <2>1, ValueFacts DEF Given
  <2>3. F \in SUBSET (1..n) /\ found \in SUBSET (1..n)
    BY <2>1, <2>2
  <2>4. ASSUME kind # "logs", Limit > 10 \/ ~Flat(Values)
        PROVE  Cardinality(F) * (100 + Limit * Limit) <= 100 * n
    <3>1. \A i \in F : Exceeds(Values, i, Limit, round)
      <4>1. CASE kind = "metrics"
        BY <2>1, <2>2, <4>1 DEF Reported
      <4>2. CASE kind = "traces"
        BY <2>1, <2>2, <4>2 DEF Reported, Errors
      <4> QED
        BY <2>2, <2>4, <4>1, <4>2
    <3> HIDE DEF F
    <3> QED
      BY <2>2, <2>3, <2>4, <3>1, FewExceed
  <2>5. ASSUME kind = "logs" PROVE 3 * Cardinality(F) <= n
    <3>1. \A i \in F : FarFromMedian(Counts, i, round)
      BY <2>1, <2>2, <2>5 DEF Reported, Errors
    <3> HIDE DEF F
    <3>2. Counts \in [1..n -> Int]
      BY <2>2, <2>5
    <3> QED
      BY <2>2, <2>3, <3>1, <3>2, FewAreOff
  <2>6. ASSUME kind = "logs"
        PROVE  2 * Cardinality({i \in found : input[i].count > Median(Counts)}) <= n
    <3> DEFINE G == {i \in found : input[i].count > Median(Counts)}
    <3>1. \A i \in G : Counts[i] > Median(Counts)
      BY <2>2, <2>3 DEF Counts
    <3>2. Counts \in [1..n -> Int]
      BY <2>2, <2>6
    <3>3. G \in SUBSET (1..n)
      BY <2>3
    <3> HIDE DEF G
    <3>4. 2 * Cardinality(G) <= n
      BY <2>2, <3>1, <3>2, <3>3, FewAreHigh
    <3> QED
      BY <3>4 DEF G
  <2> QED
    BY <2>4, <2>5, <2>6 DEF AlarmsAreRare
<1>2. DetectSpec => []DetectInv
  BY DetectInvHolds
<1> QED
  BY <1>1, <1>2, PTL

\* Equal spikes that are few enough are all reported, however high they are.
THEOREM SpikesCorrect == DetectSpec => []SpikesAreFound
<1>1. DetectInv => SpikesAreFound
  <2> SUFFICES ASSUME DetectInv, done, Cardinality(Range(Values)) = 2 PROVE SpikesAreFound
      BY DEF SpikesAreFound
  <2> DEFINE n == Len(input)
             low == Low(Values)
             S == Spikes(Values)
             k == Cardinality(S)
  <2>1. Given /\ found = {i \in DOMAIN input : Reported(i)}
    BY DEF DetectInv
  <2>2. /\ n \in Nat /\ DOMAIN input = 1..n
        /\ Values \in [1..n -> Int] /\ Limit \in Nat /\ round \in Int
        /\ kind \in {"metrics", "logs", "traces"}
        /\ kind = "metrics" => Values = input /\ Limit = MetricThreshold(threshold)
        /\ kind = "logs" => Values = Counts
        /\ kind = "traces" => Values = SpanDurations /\ Limit = threshold
    BY <2>1, ValueFacts DEF Given
  <2>3. low \in Int /\ S \in SUBSET (1..n)
    BY <2>2, TwoValues
  <2>4. PICK high \in Int : low < high /\ TwoLevels(Values, n, S, low, high)
    BY <2>2, TwoValues
  <2> HIDE DEF low, S
  <2>5. ASSUME kind = "logs", k = 1, n > 3 PROVE S \subseteq found
    <3>1. IsFiniteSet(S)
      <4>1. IsFiniteSet(1..n)
        BY <2>2, FS_Interval
      <4> QED
        BY <2>3, <4>1, FS_Subset
    <3>2. PICK x : S = {x}
      BY <2>5, <3>1, FS_Singleton
    <3>3. x \in 1..n
      BY <2>3, <3>2
    <3>4. TwoLevels(Values, n, {x}, low, high)
      BY <2>4, <3>2
    <3>5. FarFromMedian(Values, x, round)
      BY <2>2, <2>3, <2>4, <2>5, <3>3, <3>4, SpikeIsOff
    <3>6. Reported(x)
      BY <2>2, <2>5, <3>5 DEF Reported
    <3> QED
      BY <2>1, <2>2, <3>2, <3>3, <3>6
  <2>6. ASSUME kind # "logs", k * (100 + Limit * Limit) < 100 * n PROVE S \subseteq found
    <3>1. \A i \in S : Exceeds(Values, i, Limit, round)
      BY <2>2, <2>3, <2>4, <2>6, SpikesExceed
    <3>2. \A i \in S : Reported(i)
      <4>1. CASE kind = "metrics"
        BY <2>2, <3>1, <4>1 DEF Reported
      <4>2. CASE kind = "traces"
        BY <2>2, <3>1, <4>2 DEF Reported
      <4> QED
        BY <2>2, <2>6, <4>1, <4>2
    <3> QED
      BY <2>1, <2>2, <2>3, <3>2
  <2> QED
    BY <2>5, <2>6 DEF SpikesAreFound, low, S, Low, Spikes
<1>2. DetectSpec => []DetectInv
  BY DetectInvHolds
<1> QED
  BY <1>1, <1>2, PTL

=============================================================================
