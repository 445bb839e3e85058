--------------------------- MODULE PatternsProofs ---------------------------
(***************************************************************************)
(* Proofs about Patterns, for any callers, tenants, services, selectors    *)
(* and correlations, any time to live, timeout and number of runs.         *)
(***************************************************************************)
EXTENDS Patterns, LoopsAndSorts, SequenceTheorems

-----------------------------------------------------------------------------
(* Mining *)

\* A ranking is a sequence of services without repetition, of falling count.
LEMMA RankingIsSequence ==
    ASSUME NEW stats, NEW ranking \in Rankings(stats)
    PROVE  /\ ranking \in Seq(Services)
           /\ \A i, j \in 1..Len(ranking) :
                 i < j => /\ ranking[i] # ranking[j]
                          /\ stats[ranking[i]].count >= stats[ranking[j]].count
<1> DEFINE S == {s \in Services : stats[s].count > 0}
<1>1. IsFiniteSet(S)
  BY PatternsAssumption, FS_Subset
<1>2. Cardinality(S) \in Nat
  BY <1>1, FS_CardinalityType
<1>3. ranking \in [1..Cardinality(S) -> S]
  BY DEF Rankings, SetToSeqs
<1>4. ranking \in Seq(Services) /\ Len(ranking) = Cardinality(S)
  <2> HIDE DEF S
  <2>1. ranking \in [1..Cardinality(S) -> Services]
    BY <1>3 DEF S
  <2> QED
    BY <1>2, <2>1
<1>5. \A i, j \in 1..Cardinality(S) : i # j => ranking[i] # ranking[j]
  BY DEF Rankings, SetToSeqs
<1>6. \A i, j \in 1..Cardinality(S) : i < j => stats[ranking[i]].count >= stats[ranking[j]].count
  BY <1>3 DEF Rankings
<1> QED
  BY <1>2, <1>4, <1>5, <1>6

\* The smaller of two numbers.
LEMMA MinOfTwo ==
    ASSUME NEW a \in Nat, NEW b \in Nat
    PROVE  Min({a, b}) = IF a <= b THEN a ELSE b
<1> DEFINE m == IF a <= b THEN a ELSE b
<1>1. m \in {a, b} /\ \A y \in {a, b} : m <= y
  OBVIOUS
<1>2. \A x \in {a, b} : (\A y \in {a, b} : x <= y) => x = m
  OBVIOUS
<1> QED
  BY <1>1, <1>2 DEF Min

\* topSelectors: whatever order the map and the sort give to equal counts, it
\* keeps as many selectors as fit, and none it leaves out is more frequent than
\* one it keeps.
THEOREM TopsAreMostFrequent ==
    ASSUME NEW hits \in [Selectors -> Nat], IsFiniteSet({x \in Selectors : hits[x] > 0}),
           NEW top \in Tops(hits)
    PROVE  LET used == {x \in Selectors : hits[x] > 0} IN
           /\ top \subseteq used
           /\ \A x \in top, y \in used \ top : hits[x] >= hits[y]
           /\ used \ top # {} => Cardinality(top) = TopSelectors
<1> DEFINE used == {x \in Selectors : hits[x] > 0}
           n == Cardinality(used)
           k == Min({TopSelectors, n})
<1>1. IsFiniteSet(used) /\ n \in Nat
  BY FS_CardinalityType
<1>2. PICK order \in SetToSeqs(used) :
         /\ \A i, j \in DOMAIN order : i < j => hits[order[i]] >= hits[order[j]]
         /\ top = {order[i] : i \in 1..k}
  BY DEF Tops
<1>3. order \in [1..n -> used] /\ \A i, j \in 1..n : i # j => order[i] # order[j]
  BY DEF SetToSeqs
<1> HIDE DEF used, n, k
<1>4. k \in Nat /\ k <= n /\ (k = n \/ k = TopSelectors)
  BY <1>1, MinOfTwo, PatternsAssumption DEF k
<1>5. order \in Injection(1..n, used) /\ IsFiniteSet(1..n) /\ Cardinality(1..n) = n
  BY <1>1, <1>3, FS_Interval DEF Injection, IsInjective
<1>6. \A y \in used : \E i \in 1..n : order[i] = y
  BY <1>1, <1>5, FS_Injection DEF Surjection, n
<1>7. top \subseteq used
  BY <1>2, <1>3, <1>4, <1>1
<1>8. ASSUME NEW x \in top, NEW y \in used \ top PROVE hits[x] >= hits[y]
  <2>1. PICK i \in 1..k : x = order[i]
    BY <1>2
  <2>2. PICK j \in 1..n : y = order[j]
    BY <1>6
  <2>3. j \notin 1..k
    BY <1>2, <2>2
  <2>4. i < j /\ i \in 1..n
    BY <2>1, <2>2, <2>3, <1>1, <1>4
  <2> QED
    BY <1>2, <1>3, <2>1, <2>2, <2>4
<1>9. ASSUME used \ top # {} PROVE Cardinality(top) = TopSelectors
  <2>1. k # n
    BY <1>2, <1>6, <1>9
  <2> DEFINE f == [i \in 1..k |-> order[i]]
  <2>2. f \in Surjection(1..k, top)
    BY <1>2 DEF Surjection
  <2>3. \A i, j \in 1..k : f[i] = f[j] => i = j
    BY <1>1, <1>3, <1>4
  <2>4. f \in Injection(1..k, top)
    BY <2>2, <2>3 DEF Surjection, Injection, IsInjective
  <2>5. IsFiniteSet(1..k) /\ Cardinality(1..k) = k
    BY <1>4, FS_Interval
  <2> HIDE DEF f
  <2>6. Cardinality(top) = k
    BY <2>2, <2>4, <2>5, FS_Surjection
  <2> QED
    BY <1>4, <2>1, <2>6
<1> QED
  BY <1>7, <1>8, <1>9 DEF used

\* Where a correlation, or one of several, is anchored at this service and selector.
At(o, s, x) == {i \in DOMAIN o.anchors : o.anchors[i] = <<s, x>>}
Spots(o, s, x) == {<<o, i>> : i \in At(o, s, x)}
Places(T, s, x) == UNION {Spots(o, s, x) : o \in T}

Affecting(T, s) == {o \in T : s \in o.services}

\* One correlation has finitely many anchors at a service and selector, one spot each.
LEMMA AnchorsAreSpots ==
    ASSUME NEW o \in Records, NEW s, NEW x
    PROVE  /\ Anchored(o, s, x) \in Nat
           /\ IsFiniteSet(Spots(o, s, x)) /\ Cardinality(Spots(o, s, x)) = Anchored(o, s, x)
<1> DEFINE A == At(o, s, x)
           f == [i \in A |-> <<o, i>>]
<1>1. o.anchors \in Seq(Services \X Selectors)
  BY PatternsAssumption
<1>2. DOMAIN o.anchors = 1..Len(o.anchors) /\ Len(o.anchors) \in Nat
  BY <1>1, LenProperties
<1>3. IsFiniteSet(1..Len(o.anchors)) /\ A \in SUBSET (1..Len(o.anchors))
  BY <1>2, FS_Interval DEF At
<1>4. IsFiniteSet(A) /\ Cardinality(A) \in Nat
  BY <1>3, FS_Subset, FS_CardinalityType
<1>5. f \in Surjection(A, Spots(o, s, x))
  BY DEF Surjection, Spots
<1>6. f \in Injection(A, Spots(o, s, x))
  BY <1>5 DEF Surjection, Injection, IsInjective
<1> HIDE DEF f
<1>7. IsFiniteSet(Spots(o, s, x)) /\ Cardinality(Spots(o, s, x)) = Cardinality(A)
  BY <1>4, <1>5, <1>6, FS_Surjection
<1> QED
  BY <1>4, <1>7 DEF Anchored, At

\* The larger of two numbers.
LEMMA MaxOfTwo ==
    ASSUME NEW a \in Int, NEW b \in Int
    PROVE  Max({a, b}) = IF a >= b THEN a ELSE b
<1> DEFINE m == IF a >= b THEN a ELSE b
<1>1. m \in {a, b} /\ \A y \in {a, b} : m >= y
  OBVIOUS
<1>2. \A x \in {a, b} : (\A y \in {a, b} : x >= y) => x = m
  OBVIOUS
<1> QED
  BY <1>1, <1>2 DEF Max

\* What the aggregate v of a service says once the correlations of T are counted.
Newest(m, T, s) ==
    /\ m \in Int /\ m >= -1
    /\ \A o \in T : About(o, s) => o.createdAt <= m
    /\ m = -1 \/ \E o \in T : About(o, s) /\ o.createdAt = m
Hits(h, T, s) ==
    /\ h \in [Selectors -> Nat]
    /\ \A x \in Selectors : IsFiniteSet(Places(T, s, x)) /\ h[x] = Cardinality(Places(T, s, x))
    /\ IsFiniteSet({x \in Selectors : h[x] > 0})
Seen(v, T, s) ==
    /\ v.count = Cardinality(Affecting(T, s))
    /\ Newest(v.lastSeen, T, s)
    /\ Hits(v.hits, T, s)

\* One more correlation is one more anchor count for each selector.
LEMMA HitsAdded ==
    ASSUME NEW R \in SUBSET Records, NEW o \in Records, o \notin R, NEW s \in Services,
           NEW h, Hits(h, R, s)
    PROVE  Hits([x \in Selectors |-> h[x] + Anchored(o, s, x)], R \cup {o}, s)
<1> DEFINE g == [x \in Selectors |-> h[x] + Anchored(o, s, x)]
<1>1. g \in [Selectors -> Nat] /\ \A x \in Selectors : g[x] = h[x] + Anchored(o, s, x)
  BY AnchorsAreSpots DEF Hits
<1>2. ASSUME NEW x \in Selectors
      PROVE  /\ IsFiniteSet(Places(R \cup {o}, s, x))
             /\ g[x] = Cardinality(Places(R \cup {o}, s, x))
  <2> DEFINE P == Places(R, s, x)
             Q == Spots(o, s, x)
  <2>1. Places(R \cup {o}, s, x) = P \cup Q
    BY DEF Places
  <2>2. P \cap Q = {}
    BY DEF Places, Spots
  <2>3. IsFiniteSet(P) /\ IsFiniteSet(Q) /\ h[x] = Cardinality(P) /\ Anchored(o, s, x) = Cardinality(Q)
    BY AnchorsAreSpots DEF Hits
  <2> HIDE DEF P, Q, g
  <2>4. IsFiniteSet(P \cup Q) /\ Cardinality(P \cup Q) = Cardinality(P) + Cardinality(Q)
    <3>1. /\ IsFiniteSet(P \cup Q)
          /\ Cardinality(P \cup Q) = Cardinality(P) + Cardinality(Q) - Cardinality(P \cap Q)
      BY <2>3, FS_Union, Zenon
    <3>2. Cardinality(P \cap Q) = 0
      BY <2>2, FS_EmptySet
    <3>3. Cardinality(P) \in Nat /\ Cardinality(Q) \in Nat
      BY <2>3, FS_CardinalityType, Zenon
    <3> QED
      BY <3>1, <3>2, <3>3
  <2> QED
    BY <1>1, <2>1, <2>3, <2>4
<1>3. IsFiniteSet({x \in Selectors : g[x] > 0})
  <2> DEFINE I == 1..Len(o.anchors)
             names == {o.anchors[i][2] : i \in I}
             used == {x \in Selectors : h[x] > 0}
  <2>1. o.anchors \in Seq(Services \X Selectors)
    BY PatternsAssumption
  <2>2. Len(o.anchors) \in Nat /\ DOMAIN o.anchors = I
    BY <2>1, LenProperties
  <2>3. IsFiniteSet(I)
    BY <2>2, FS_Interval
  <2>4. IsFiniteSet(names)
    <3> DEFINE f == [i \in I |-> o.anchors[i][2]]
    <3>1. f \in Surjection(I, names)
      BY DEF Surjection
    <3> HIDE DEF f, I, names
    <3> QED
      BY <2>3, <3>1, FS_Surjection
  <2>5. ASSUME NEW x \in Selectors, Anchored(o, s, x) > 0 PROVE x \in names
    <3>1. Spots(o, s, x) # {}
      BY <2>5, AnchorsAreSpots, FS_EmptySet
    <3>2. PICK i \in I : o.anchors[i] = <<s, x>>
      BY <2>2, <3>1 DEF Spots, At
    <3> QED
      BY <3>2
  <2>6. {x \in Selectors : g[x] > 0} \subseteq used \cup names
    <3> SUFFICES ASSUME NEW x \in Selectors, g[x] > 0, h[x] = 0 PROVE x \in names
        BY DEF Hits
    <3>1. Anchored(o, s, x) > 0
      BY <1>1, AnchorsAreSpots
    <3> QED
      BY <2>5, <3>1
  <2>7. IsFiniteSet(used)
    BY DEF Hits
  <2> HIDE DEF used, names
  <2>8. IsFiniteSet(used \cup names)
    BY <2>4, <2>7, FS_Union
  <2> QED
    BY <2>6, <2>8, FS_Subset
<1> HIDE DEF g
<1>4. Hits(g, R \cup {o}, s)
  BY <1>1, <1>2, <1>3 DEF Hits
<1> QED
  BY <1>4 DEF g

\* One more correlation enters the aggregate of a service.
LEMMA TallySeen ==
    ASSUME NEW R \in SUBSET Records, IsFiniteSet(R), NEW o \in Records, o \notin R,
           NEW s \in Services, NEW stats, Seen(stats[s], R, s)
    PROVE  Seen(Tally(o, stats)[s], R \cup {o}, s)
<1> DEFINE T == R \cup {o}
           v == Tally(o, stats)[s]
<1>1. /\ v.count = stats[s].count + (IF s \in o.services THEN 1 ELSE 0)
      /\ v.lastSeen = IF About(o, s) THEN Max({stats[s].lastSeen, o.createdAt})
                      ELSE stats[s].lastSeen
      /\ v.hits = [x \in Selectors |-> stats[s].hits[x] + Anchored(o, s, x)]
  BY DEF Tally
<1> HIDE DEF v
<1>2. v.count = Cardinality(Affecting(T, s))
  <2>1. Affecting(T, s) = Affecting(R, s) \cup (IF s \in o.services THEN {o} ELSE {})
        /\ o \notin Affecting(R, s)
    BY DEF Affecting
  <2>2. IsFiniteSet(Affecting(R, s))
    BY FS_Subset DEF Affecting
  <2>3. Cardinality(Affecting(R, s)) \in Nat
    BY <2>2, FS_CardinalityType
  <2>4. stats[s].count = Cardinality(Affecting(R, s))
    BY DEF Seen
  <2>5. CASE s \in o.services
    <3>1. Affecting(T, s) = Affecting(R, s) \cup {o}
      BY <2>1, <2>5
    <3>2. Cardinality(Affecting(R, s) \cup {o}) = Cardinality(Affecting(R, s)) + 1
      BY <2>1, <2>2, FS_AddElement
    <3> QED
      BY <1>1, <2>4, <2>5, <3>1, <3>2
  <2>6. CASE s \notin o.services
    <3>1. Affecting(T, s) = Affecting(R, s)
      BY <2>1, <2>6
    <3>2. v.count = stats[s].count + 0
      BY <1>1, <2>6
    <3> QED
      BY <2>3, <2>4, <3>1, <3>2
  <2> QED
    BY <2>5, <2>6
<1>3. Newest(v.lastSeen, T, s)
  <2> DEFINE m == stats[s].lastSeen
  <2>1. o.createdAt \in Nat /\ Newest(m, R, s) /\ \A r \in R : r.createdAt \in Nat
    BY PatternsAssumption DEF Seen
  <2> HIDE DEF m
  <2>2. CASE About(o, s)
    <3>1. v.lastSeen = IF m >= o.createdAt THEN m ELSE o.createdAt
      BY <1>1, <2>1, <2>2, MaxOfTwo DEF Newest, m
    <3> QED
      BY <2>1, <2>2, <3>1 DEF Newest
  <2>3. CASE ~About(o, s)
    BY <1>1, <2>1, <2>3 DEF Newest, m
  <2> QED
    BY <2>2, <2>3
<1>4. Hits(v.hits, T, s)
  BY <1>1, HitsAdded DEF Seen
<1>5. Seen(v, T, s)
  BY <1>2, <1>3, <1>4 DEF Seen
<1> QED
  BY <1>5 DEF v

\* ServiceStats goes through the correlations one by one, in some order.
Aggregates ==
    [Services -> [count : Nat, lastSeen : Int, hits : [Selectors -> Nat]]]
AnyOf(T) == CHOOSE o \in T : TRUE

LEMMA StatsRuns ==
    ASSUME NEW input \in SUBSET Records, IsFiniteSet(input)
    PROVE  \E g : /\ ServiceStats(input) = g[input]
                  /\ g[{}] = [s \in Services |-> Unseen]
                  /\ \A T \in SUBSET input : T # {} =>
                        g[T] = Tally(AnyOf(T), g[T \ {AnyOf(T)}])
<1> DEFINE base == [s \in Services |-> Unseen]
           Round(g) == [T \in SUBSET input |->
                           IF T = {} THEN base ELSE Tally(AnyOf(T), g[T \ {AnyOf(T)}])]
           iter == CHOOSE g : g = Round(g)
           pick == [T \in SUBSET input |-> AnyOf(T)]
           op == [o \in input |-> [v \in Aggregates |-> Tally(o, v)]]
<1>1. ServiceStats(input) = iter[input]
  BY DEF ServiceStats, FoldSet, MapThenFoldSet, AnyOf
<1>2. base \in Aggregates
  BY DEF Unseen, Aggregates
<1>3. ASSUME NEW o \in input, NEW v \in Aggregates PROVE Tally(o, v) \in Aggregates
  <2>1. ASSUME NEW s \in Services
        PROVE  /\ v[s].count + (IF s \in o.services THEN 1 ELSE 0) \in Nat
               /\ (IF About(o, s) THEN Max({v[s].lastSeen, o.createdAt}) ELSE v[s].lastSeen) \in Int
               /\ [x \in Selectors |-> v[s].hits[x] + Anchored(o, s, x)] \in [Selectors -> Nat]
    <3>1. v[s].count \in Nat /\ v[s].lastSeen \in Int /\ v[s].hits \in [Selectors -> Nat]
      BY DEF Aggregates
    <3>2. o.createdAt \in Int
      BY PatternsAssumption
    <3>3. Max({v[s].lastSeen, o.createdAt}) \in Int
      BY <3>1, <3>2, MaxOfTwo
    <3>4. \A x \in Selectors : Anchored(o, s, x) \in Nat
      BY AnchorsAreSpots
    <3> QED
      BY <3>1, <3>3, <3>4
  <2> QED
    BY <2>1 DEF Tally, Aggregates
<1>4. op \in [input -> [Aggregates -> Aggregates]]
  BY <1>3
<1>5. \A T \in SUBSET input : T # {} => pick[T] \in T
  BY DEF AnyOf
<1> HIDE DEF op, pick, base
<1>6. PICK g : Folding(g, input, Aggregates, base, pick, op)
  BY <1>2, <1>4, <1>5, FoldRuns
<1>7. g = Round(g)
  <2>1. ASSUME NEW T \in SUBSET input, T # {} PROVE g[T] = Tally(AnyOf(T), g[T \ {AnyOf(T)}])
    <3>1. pick[T] = AnyOf(T)
      BY DEF pick
    <3>2. AnyOf(T) \in input /\ g[T \ {AnyOf(T)}] \in Aggregates
      BY <1>5, <1>6, <2>1, <3>1 DEF Folding
    <3>3. g[T] = op[AnyOf(T)][g[T \ {AnyOf(T)}]]
      BY <1>6, <2>1, <3>1 DEF Folding
    <3> QED
      BY <3>2, <3>3 DEF op
  <2> QED
    BY <1>6, <2>1 DEF Folding
<1>8. iter = Round(iter)
  BY <1>7
<1> HIDE DEF iter
<1>9. iter[{}] = base /\ \A T \in SUBSET input : T # {} =>
         iter[T] = Tally(AnyOf(T), iter[T \ {AnyOf(T)}])
  BY <1>8
<1> QED
  BY <1>1, <1>9 DEF base

\* ServiceStats counts every correlation it is given once, in whatever order.
LEMMA StatsSeen ==
    ASSUME NEW input \in SUBSET Records, IsFiniteSet(input), NEW s \in Services
    PROVE  Seen(ServiceStats(input)[s], input, s)
<1>1. PICK g : /\ ServiceStats(input) = g[input]
               /\ g[{}] = [z \in Services |-> Unseen]
               /\ \A T \in SUBSET input : T # {} =>
                     g[T] = Tally(AnyOf(T), g[T \ {AnyOf(T)}])
  BY StatsRuns
<1> DEFINE n == Cardinality(input)
           Counted(m) == \A T \in SUBSET input : Cardinality(T) = m => Seen(g[T][s], T, s)
           M == {m \in 0..n : Counted(m)}
<1>2. n \in Nat /\ \A T \in SUBSET input : IsFiniteSet(T)
  BY FS_CardinalityType, FS_Subset
<1>3. 0 \in M
  <2>1. g[{}][s] = Unseen
    BY <1>1
  <2>2. Affecting({}, s) = {} /\ \A x \in Selectors : Places({}, s, x) = {}
    BY DEF Affecting, Places
  <2>3. Hits(Unseen.hits, {}, s)
    <3>1. {x \in Selectors : Unseen.hits[x] > 0} = {}
      BY DEF Unseen
    <3> QED
      BY <2>2, <3>1, FS_EmptySet DEF Hits, Unseen
  <2>4. Seen(Unseen, {}, s)
    BY <2>2, <2>3, FS_EmptySet DEF Seen, Unseen, Newest
  <2>5. ASSUME NEW T \in SUBSET input, Cardinality(T) = 0 PROVE Seen(g[T][s], T, s)
    <3>1. T = {}
      BY <1>2, <2>5, FS_EmptySet
    <3> QED
      BY <2>1, <2>4, <3>1
  <2> QED
    BY <1>2, <2>5
<1>4. ASSUME NEW m \in 1..n, m - 1 \in M PROVE m \in M
  <2>1. ASSUME NEW T \in SUBSET input, Cardinality(T) = m PROVE Seen(g[T][s], T, s)
    <3> DEFINE o == AnyOf(T)
               R == T \ {o}
    <3>1. T # {} /\ m \in Int /\ m >= 1
      BY <2>1, FS_EmptySet
    <3>2. o \in T
      BY <3>1 DEF AnyOf
    <3> HIDE DEF o
    <3>3. Cardinality(R) = m - 1 /\ R \in SUBSET input /\ IsFiniteSet(R)
      BY <1>2, <2>1, <3>1, <3>2, FS_RemoveElement
    <3>4. Seen(g[R][s], R, s)
      BY <1>4, <3>3
    <3>5. Seen(Tally(o, g[R])[s], R \cup {o}, s)
      BY <3>2, <3>3, <3>4, TallySeen
    <3>6. g[T] = Tally(o, g[R]) /\ T = R \cup {o}
      BY <1>1, <3>1, <3>2 DEF o
    <3> HIDE DEF R
    <3> QED
      BY <3>5, <3>6
  <2> QED
    BY <2>1
<1> HIDE DEF M
<1>5. n \in M
  <2>1. \A m \in 0..n : m \in M
    BY <1>2, <1>3, <1>4, Induction
  <2> QED
    BY <1>2, <2>1
<1>6. Seen(g[input][s], input, s)
  BY <1>5 DEF M
<1> QED
  BY <1>1, <1>6

-----------------------------------------------------------------------------
(* Mined patterns *)

\* What PrevalenceIsShare and SelectorsAreMostFrequent say of one pattern.
IsShare(p) ==
    LET affecting == {o \in p.from : p.service \in o.services}
    IN  /\ p.count = Cardinality(affecting) /\ p.count \in 1..p.of
        /\ p.of = Cardinality(p.from)
        /\ p.lastSeen = Max({o.createdAt : o \in {r \in p.from : About(r, p.service)}})
HasMostFrequent(p) ==
    LET rest == {x \in Selectors : Cardinality(Places(p.from, p.service, x)) > 0} \ p.selectors
    IN  /\ \A x \in p.selectors, y \in rest : Cardinality(Places(p.from, p.service, x))
                                              >= Cardinality(Places(p.from, p.service, y))
        /\ rest # {} => Cardinality(p.selectors) = TopSelectors

\* A pattern of a service that was counted says what it should.
LEMMA PatternFacts ==
    ASSUME NEW p, NEW v, p.from \in SUBSET Records, IsFiniteSet(p.from), p.service \in Services,
           Seen(v, p.from, p.service), v.count > 0,
           p.count = v.count, p.of = Cardinality(p.from), p.lastSeen = v.lastSeen,
           p.selectors \in Tops(v.hits)
    PROVE  IsShare(p) /\ HasMostFrequent(p)
<1> DEFINE T == p.from
           s == p.service
           A == Affecting(T, s)
<1>1. v.count = Cardinality(A) /\ Newest(v.lastSeen, T, s) /\ Hits(v.hits, T, s)
  BY DEF Seen
<1>2. A \in SUBSET T /\ IsFiniteSet(A) /\ Cardinality(A) \in Nat /\ Cardinality(T) \in Nat
      /\ Cardinality(A) <= Cardinality(T)
  BY FS_Subset, FS_CardinalityType DEF Affecting
<1>3. v.count \in 1..Cardinality(T)
  BY <1>1, <1>2
<1>4. v.lastSeen = Max({o.createdAt : o \in {r \in T : About(r, s)}})
  <2> DEFINE times == {o.createdAt : o \in {r \in T : About(r, s)}}
             m == v.lastSeen
  <2>1. PICK o \in T : s \in o.services
    <3>1. A # {}
      BY <1>1, <1>3, FS_EmptySet
    <3> QED
      BY <3>1 DEF Affecting
  <2>2. About(o, s) /\ o.createdAt \in Nat
    BY <2>1, PatternsAssumption DEF About
  <2>3. m \in Int /\ m # -1
    BY <1>1, <2>2 DEF Newest
  <2>4. m \in times /\ \A y \in times : m >= y /\ y \in Int
    BY <1>1, <2>3, PatternsAssumption DEF Newest
  <2> HIDE DEF m, times
  <2>5. \A x \in times : (\A y \in times : x >= y) => x = m
    BY <2>3, <2>4
  <2>6. Max(times) = m
    BY <2>4, <2>5 DEF Max
  <2> QED
    BY <2>6 DEF m, times
<1>5. IsShare(p)
  BY <1>1, <1>3, <1>4 DEF IsShare, Affecting
<1>6. HasMostFrequent(p)
  <2> DEFINE h == v.hits
             used == {x \in Selectors : h[x] > 0}
  <2>1. h \in [Selectors -> Nat] /\ IsFiniteSet(used)
        /\ \A x \in Selectors : h[x] = Cardinality(Places(T, s, x))
    BY <1>1 DEF Hits
  <2>2. /\ p.selectors \subseteq used
        /\ \A x \in p.selectors, y \in used \ p.selectors : h[x] >= h[y]
        /\ used \ p.selectors # {} => Cardinality(p.selectors) = TopSelectors
    BY <2>1, TopsAreMostFrequent
  <2>3. used = {x \in Selectors : Cardinality(Places(T, s, x)) > 0}
    BY <2>1
  <2>4. \A x \in used : h[x] = Cardinality(Places(T, s, x))
    BY <2>1
  <2> HIDE DEF used, h
  <2>5. \A x \in p.selectors, y \in used \ p.selectors :
            Cardinality(Places(T, s, x)) >= Cardinality(Places(T, s, y))
    BY <2>2, <2>4
  <2> QED
    BY <2>2, <2>3, <2>5 DEF HasMostFrequent
<1> QED
  BY <1>5, <1>6

-----------------------------------------------------------------------------
(* Storing *)

\* Some stored pattern of the same run is next before p in its ranking.
Follows(o, p) ==
    /\ o.tenant = p.tenant /\ o.round = p.round
    /\ o.rank = p.rank - 1 /\ o.count >= p.count
Preceded(p) == p.rank > 1 => \E o \in patterns : Follows(o, p)

\* Every mined pattern has a rank (a made-up one has none), and the queue is a
\* sequence.
Shapes ==
    /\ \A p \in Mined : "rank" \in DOMAIN p /\ p.rank \in Nat
    /\ queue \in Seq(Range(queue))

\* The queue goes through one run's ranking without a gap.
QueueIsRun == \A i \in 1..(Len(queue) - 1) : Follows(queue[i], queue[i + 1])

\* Whatever is stored, next to be stored or may be stored late comes after what
\* is stored.
InOrder ==
    /\ \A p \in patterns \cup late : Preceded(p)
    /\ queue # <<>> => Preceded(queue[1])

StoreInv == Shapes /\ QueueIsRun /\ InOrder

\* Nothing is mined at start-up.
LEMMA InitStore == Init => StoreInv
BY DEF Init, StoreInv, Shapes, QueueIsRun, InOrder, Mined, Range

\* An empty queue with nothing new stored.
LEMMA QueueDropped ==
    ASSUME StoreInv, queue' = <<>>, patterns' = patterns,
           \A p \in late' : p \in late \/ (queue # <<>> /\ p = queue[1])
    PROVE  StoreInv'
<1>1. queue # <<>> => queue[1] \in Range(queue)
  BY EmptySeq, LenProperties DEF StoreInv, Shapes, Range
<1>2. Mined' \subseteq Mined
  BY <1>1 DEF Mined, Range
<1>3. Shapes'
  BY <1>2 DEF StoreInv, Shapes, Range
<1>4. QueueIsRun' /\ InOrder'
  BY DEF StoreInv, QueueIsRun, InOrder, Preceded
<1> QED
  BY <1>3, <1>4 DEF StoreInv

\* A run of the job queues its patterns from the first rank on.
LEMMA MineStore ==
    ASSUME StoreInv, NEW t \in Tenants, NEW input, Mine(t, input)
    PROVE  StoreInv'
<1>1. CASE ~configured
  <2>1. queue' = <<>>
    BY <1>1 DEF Mine
  <2>2. patterns' = patterns /\ late' = late
    BY DEF Mine
  <2> QED
    BY <2>1, <2>2, QueueDropped
<1>2. CASE configured
  <2> DEFINE stats == ServiceStats(input)
  <2>1. PICK ranking \in Rankings(stats), top \in [Services -> SUBSET Selectors] :
           queue' = [i \in DOMAIN ranking |->
                        [tenant |-> t, service |-> ranking[i],
                         count |-> stats[ranking[i]].count, of |-> Cardinality(input),
                         lastSeen |-> stats[ranking[i]].lastSeen,
                         selectors |-> top[ranking[i]],
                         from |-> input, round |-> rounds + 1, rank |-> i]]
    BY <1>2 DEF Mine
  <2> HIDE DEF stats
  <2>2. /\ ranking \in Seq(Services) /\ Len(ranking) \in Nat /\ DOMAIN ranking = 1..Len(ranking)
        /\ \A i, j \in 1..Len(ranking) :
              i < j => stats[ranking[i]].count >= stats[ranking[j]].count
    BY RankingIsSequence, LenProperties
  <2>3. DOMAIN queue' = 1..Len(ranking)
    BY <2>1, <2>2
  <2>4. \A i \in 1..Len(ranking) :
           /\ "rank" \in DOMAIN queue'[i] /\ queue'[i].rank = i
           /\ queue'[i].tenant = t /\ queue'[i].round = rounds + 1
           /\ queue'[i].count = stats[ranking[i]].count
    BY <2>1, <2>2
  <2>5. queue' \in [1..Len(ranking) -> Range(queue')]
    BY <2>1, <2>2, <2>3 DEF Range
  <2>6. queue' \in Seq(Range(queue')) /\ Len(queue') = Len(ranking)
    BY <2>2, <2>5
  <2>7. patterns' = patterns /\ late' = late
    BY DEF Mine
  <2>8. Shapes'
    BY <2>2, <2>3, <2>4, <2>6, <2>7 DEF StoreInv, Shapes, Mined, Range
  <2>9. QueueIsRun'
    <3>1. ASSUME NEW i \in 1..(Len(ranking) - 1) PROVE Follows(queue'[i], queue'[i + 1])
      <4>1. i \in 1..Len(ranking) /\ i + 1 \in 1..Len(ranking) /\ i < i + 1 /\ i = (i + 1) - 1
        BY <2>2
      <4>2. /\ queue'[i].tenant = queue'[i + 1].tenant /\ queue'[i].round = queue'[i + 1].round
            /\ queue'[i].rank = i /\ queue'[i + 1].rank = i + 1
        BY <2>4, <4>1
      <4>3. queue'[i].count >= queue'[i + 1].count
        BY <2>2, <2>4, <4>1
      <4> QED
        BY <4>1, <4>2, <4>3 DEF Follows
    <3> QED
      BY <2>6, <3>1 DEF QueueIsRun
  <2>10. InOrder'
    <3>1. ASSUME queue' # <<>> PROVE queue'[1].rank = 1
      BY <3>1, <2>2, <2>4, <2>6, EmptySeq
    <3> QED
      BY <3>1, <2>7 DEF StoreInv, InOrder, Preceded
  <2> QED
    BY <2>8, <2>9, <2>10 DEF StoreInv
<1> QED
  BY <1>1, <1>2 DEF Mine

\* The head of the queue is stored; the next one follows it.
LEMMA PostStore ==
    ASSUME StoreInv, PostPattern
    PROVE  StoreInv'
<1> USE DEF StoreInv
<1> DEFINE S == Range(queue)
<1>1. queue \in Seq(S) /\ queue # <<>>
  BY DEF Shapes, PostPattern
<1> HIDE DEF S
<1>2. Len(queue) \in Nat \ {0} /\ DOMAIN queue = 1..Len(queue) /\ Head(queue) = queue[1]
  BY <1>1, EmptySeq, LenProperties
<1>3. /\ queue' \in Seq(S) /\ Len(queue') = Len(queue) - 1
      /\ \A i \in 1..Len(queue') : queue'[i] = queue[i + 1]
      /\ DOMAIN queue' = 1..Len(queue')
  BY <1>1, HeadTailProperties, LenProperties DEF PostPattern
<1>4. patterns' = patterns \cup {queue[1]} /\ late' = late
  BY <1>2 DEF PostPattern
<1>5. queue' \in Seq(Range(queue'))
  BY <1>3, SeqOfRange
<1>6. Mined' \subseteq Mined
  BY <1>2, <1>3, <1>4 DEF Mined, Range
<1>7. Shapes'
  BY <1>5, <1>6 DEF Shapes
<1>8. QueueIsRun'
  BY <1>2, <1>3 DEF QueueIsRun, Follows
<1>9. ASSUME NEW p, p = queue[2], queue' # <<>> PROVE Preceded(p)'
  <2>1. Len(queue) >= 2
    BY <1>2, <1>3, <1>9, EmptySeq
  <2>2. Follows(queue[1], queue[2])
    BY <1>2, <2>1 DEF QueueIsRun
  <2> QED
    BY <1>4, <1>9, <2>2 DEF Preceded, Follows
<1>10. InOrder'
  <2>1. \A p \in patterns' \cup late' : Preceded(p)'
    BY <1>1, <1>4 DEF InOrder, Preceded
  <2>2. queue' # <<>> => queue'[1] = queue[2]
    BY <1>2, <1>3, EmptySeq
  <2> QED
    BY <1>9, <2>1, <2>2 DEF InOrder, Preceded
<1> QED
  BY <1>7, <1>8, <1>10

\* A post that timed out is applied, or refused because the pattern exists.
LEMMA LateStore ==
    ASSUME StoreInv, NEW p \in late, LatePattern(p)
    PROVE  StoreInv'
<1> USE DEF StoreInv
<1>1. /\ queue' = queue /\ late' \subseteq late /\ patterns \subseteq patterns'
      /\ patterns' \subseteq patterns \cup {p}
  BY DEF LatePattern
<1>2. Shapes'
  BY <1>1 DEF Shapes, Mined
<1>3. QueueIsRun'
  BY <1>1 DEF QueueIsRun
<1>4. InOrder'
  BY <1>1 DEF InOrder, Preceded
<1> QED
  BY <1>2, <1>3, <1>4

\* Every step keeps the order.
LEMMA StepStore == StoreInv /\ [Next]_vars => StoreInv'
<1> SUFFICES ASSUME StoreInv, [Next]_vars PROVE StoreInv'
    OBVIOUS
<1>1. ASSUME NEW t \in Tenants, NEW input, Mine(t, input) PROVE StoreInv'
  BY <1>1, MineStore
<1>2. CASE PostPattern
  BY <1>2, PostStore
<1>3. CASE PostFail
  BY <1>3, QueueDropped DEF PostFail
<1>4. CASE PostTimeout
  <2>1. Head(queue) = queue[1]
    BY <1>4, LenProperties DEF PostTimeout, StoreInv, Shapes
  <2> QED
    BY <1>4, <2>1, QueueDropped DEF PostTimeout
<1>5. ASSUME NEW p \in late, LatePattern(p) PROVE StoreInv'
  BY <1>5, LateStore
<1>6. ASSUME UNCHANGED <<patterns, queue, late>> PROVE StoreInv'
  BY <1>6 DEF StoreInv, Shapes, QueueIsRun, InOrder, Preceded, Mined
<1>7. ASSUME NEW c \in Callers, Step(c) \/ \E k \in Asks : FetchStart(c, k[1], k[2])
      PROVE  UNCHANGED <<patterns, queue, late>>
  BY <1>7 DEF Step, FetchStart, FetchHit, FetchMiss, FetchAnswer, FetchRefused, FetchFail, FetchSet
<1>8. Tick \/ UNCHANGED vars => UNCHANGED <<patterns, queue, late>>
  BY DEF Tick, vars
<1> QED
  BY <1>1, <1>2, <1>3, <1>4, <1>5, <1>6, <1>7, <1>8 DEF Next

\* Whatever fails, times out or is applied late, in whatever order, and however
\* often the job runs, Weaviate holds a leading part of each mined list.
THEOREM StoredInOrder == Spec => []PatternsStoredInOrder
<1>1. StoreInv => PatternsStoredInOrder
  BY DEF StoreInv, InOrder, Preceded, Follows, PatternsStoredInOrder
<1> QED
  BY <1>1, InitStore, StepStore, PTL DEF Spec

\* Every mined pattern says what it should, wherever it has got to.
MinedInv == \A p \in Mined : IsShare(p) /\ HasMostFrequent(p)

\* A run of the job mines patterns that do.
LEMMA MineMined ==
    ASSUME MinedInv, NEW t \in Tenants, NEW input \in SUBSET Records, IsFiniteSet(input),
           Mine(t, input)
    PROVE  MinedInv'
<1> DEFINE stats == ServiceStats(input)
<1>1. UNCHANGED <<patterns, late>>
  BY DEF Mine
<1>2. ASSUME NEW p \in Range(queue') PROVE IsShare(p) /\ HasMostFrequent(p)
  <2>1. configured
    <3>1. ~configured => queue' = <<>>
      BY DEF Mine
    <3>2. Range(<<>>) = {}
      BY DEF Range
    <3> QED
      BY <1>2, <3>1, <3>2
  <2>2. PICK ranking \in Rankings(stats), top \in [Services -> SUBSET Selectors] :
           /\ \A s \in Services : top[s] \in Tops(stats[s].hits)
           /\ queue' = [i \in DOMAIN ranking |->
                          [tenant |-> t, service |-> ranking[i],
                           count |-> stats[ranking[i]].count, of |-> Cardinality(input),
                           lastSeen |-> stats[ranking[i]].lastSeen,
                           selectors |-> top[ranking[i]],
                           from |-> input, round |-> rounds + 1, rank |-> i]]
    BY <2>1 DEF Mine
  <2> HIDE DEF stats
  <2>3. PICK i \in DOMAIN ranking : p = queue'[i]
    BY <1>2, <2>2 DEF Range
  <2> DEFINE s == ranking[i]
  <2>4. s \in Services /\ stats[s].count > 0
    <3> DEFINE S == {z \in Services : stats[z].count > 0}
    <3>1. ranking \in [1..Cardinality(S) -> S]
      BY DEF Rankings, SetToSeqs
    <3>2. ranking[i] \in S
      BY <2>3, <3>1
    <3> QED
      BY <3>2
  <2> HIDE DEF s
  <2>5. /\ p.service = s /\ p.count = stats[s].count /\ p.of = Cardinality(input)
        /\ p.lastSeen = stats[s].lastSeen /\ p.selectors = top[s] /\ p.from = input
    BY <2>2, <2>3 DEF s
  <2>6. Seen(stats[s], input, s) /\ top[s] \in Tops(stats[s].hits)
    BY <2>2, <2>4, StatsSeen DEF stats
  <2> QED
    BY <2>4, <2>5, <2>6, PatternFacts
<1>3. \A p \in Mined' : p \in Mined \/ p \in Range(queue')
  BY <1>1 DEF Mined
<1> QED
  BY <1>2, <1>3 DEF MinedInv

\* Storing, dropping and delaying patterns changes none of them.
LEMMA StepMined == StoreInv /\ MinedInv /\ [Next]_vars => MinedInv'
<1> SUFFICES ASSUME StoreInv, MinedInv, [Next]_vars PROVE MinedInv'
    OBVIOUS
<1>1. ASSUME NEW t \in Tenants, NEW input \in SUBSET {o \in Records : o.tenant = t},
             IsFiniteSet(input), Mine(t, input)
      PROVE  MinedInv'
  BY <1>1, MineMined
<1>2. ASSUME \A p \in Mined' : p \in Mined PROVE MinedInv'
  BY <1>2 DEF MinedInv
<1>3. queue \in Seq(Range(queue))
  BY DEF StoreInv, Shapes
<1>4. ASSUME queue # <<>>
      PROVE  Head(queue) \in Range(queue) /\ Range(Tail(queue)) \subseteq Range(queue)
  <2>1. /\ Len(queue) \in Nat \ {0} /\ DOMAIN queue = 1..Len(queue) /\ Head(queue) = queue[1]
    BY <1>3, <1>4, EmptySeq, LenProperties
  <2>2. /\ Tail(queue) \in Seq(Range(queue)) /\ Len(Tail(queue)) = Len(queue) - 1
        /\ \A i \in 1..Len(Tail(queue)) : Tail(queue)[i] = queue[i + 1]
    BY <1>3, <1>4, HeadTailProperties
  <2>3. DOMAIN Tail(queue) = 1..Len(Tail(queue))
    BY <2>2, LenProperties
  <2>4. \A i \in 1..Len(Tail(queue)) : i + 1 \in DOMAIN queue
    BY <2>1, <2>2
  <2> QED
    BY <2>1, <2>2, <2>3, <2>4 DEF Range
<1>5. Range(<<>>) = {}
  BY DEF Range
<1>6. CASE PostPattern
  BY <1>2, <1>4, <1>6 DEF PostPattern, Mined
<1>7. CASE PostFail \/ PostTimeout
  BY <1>2, <1>4, <1>5, <1>7 DEF PostFail, PostTimeout, Mined
<1>8. ASSUME NEW p \in late, LatePattern(p) PROVE MinedInv'
  BY <1>2, <1>8 DEF LatePattern, Mined
<1>9. ASSUME UNCHANGED <<patterns, queue, late>> PROVE MinedInv'
  BY <1>2, <1>9 DEF Mined
<1>10. ASSUME NEW c \in Callers, Step(c) \/ \E k \in Asks : FetchStart(c, k[1], k[2])
       PROVE  UNCHANGED <<patterns, queue, late>>
  BY <1>10 DEF Step, FetchStart, FetchHit, FetchMiss, FetchAnswer, FetchRefused, FetchFail, FetchSet
<1>11. Tick \/ UNCHANGED vars => UNCHANGED <<patterns, queue, late>>
  BY DEF Tick, vars
<1> QED
  BY <1>1, <1>6, <1>7, <1>8, <1>9, <1>10, <1>11 DEF Next

\* What was mined holds of every behaviour.
LEMMA MinedInvHolds == Spec => []MinedInv
<1>1. Init => MinedInv
  BY DEF Init, MinedInv, Mined, Range
<1> QED
  BY <1>1, InitStore, StepStore, StepMined, PTL DEF Spec

\* However many correlations the job is given, the prevalence of a pattern is the
\* share of them that list its service, and its last sighting the newest one.
THEOREM PrevalenceCorrect == Spec => []PrevalenceIsShare
<1>1. MinedInv => PrevalenceIsShare
  BY DEF MinedInv, PrevalenceIsShare, IsShare
<1> QED
  BY <1>1, MinedInvHolds, PTL

\* Whatever order the map gives, the selectors of a pattern are the most frequent
\* ones of its service, and as many as there is room for.
THEOREM SelectorsCorrect == Spec => []SelectorsAreMostFrequent
<1>1. MinedInv => SelectorsAreMostFrequent
  BY DEF MinedInv, SelectorsAreMostFrequent, HasMostFrequent, Places, Spots, At
<1> QED
  BY <1>1, MinedInvHolds, PTL

-----------------------------------------------------------------------------
(* Fetching *)

Idle == [kind |-> "idle"]
Entries == [list : SUBSET patterns, asOf : Nat, exp : Nat]
MadeUp == {[tenant |-> t, service |-> "synthetic"] : t \in Tenants}
Calls == [kind : Working \cup {"done"}, tenant : Tenants, service : Services \cup {NoService},
          since : Nat, list : SUBSET (patterns \cup MadeUp), asOf : Nat]

FetchTypes ==
    /\ now \in Nat
    /\ cache \in [Keys -> Entries \cup {NoValue}]
    /\ rpc \in [Callers -> Calls \cup {Idle}]

\* A list that is about to be cached is Weaviate's answer to this call, given when
\* the Set began; what an answered call returns is what it asked for, or made up.
CallInv(x) ==
    /\ x.kind \in Working => now - x.since <= CallTimeout
    /\ x.kind \in {"get", "query"} => x.list = {}
    /\ x.kind = "set" => /\ x.asOf = x.since
                         /\ \A p \in x.list : p \in patterns /\ Wanted(p, x)
    /\ x.kind = "done" => \A p \in x.list : Wanted(p, x) \/ "rank" \notin DOMAIN p

\* What an entry holds belongs under its key, and its life ends at most one call
\* and one time to live after Weaviate gave it.
EntryInv(k, e) ==
    /\ \A p \in e.list : p.tenant = k[1] /\ (k[2] # NoService => p.service = k[2])
    /\ e.exp <= e.asOf + CallTimeout + PatternTTL

FetchInv ==
    /\ FetchTypes
    /\ \A c \in Callers : CallInv(rpc[c])
    /\ \A k \in Keys : cache[k] # NoValue => EntryInv(k, cache[k])

\* The cache is empty and no call has begun.
LEMMA InitFetch == Init => FetchInv
BY DEF Init, FetchInv, FetchTypes, Idle, CallInv, Working

\* A step of one call that touches neither Weaviate nor the cache.
LEMMA CallStep ==
    ASSUME FetchInv, NEW c \in Callers, NEW x \in Calls, CallInv(x),
           rpc' = [rpc EXCEPT ![c] = x], UNCHANGED <<patterns, cache, now>>
    PROVE  FetchInv'
<1> USE DEF FetchInv
<1>1. FetchTypes'
  BY DEF FetchTypes, Entries, Calls
<1>2. ASSUME NEW d \in Callers PROVE CallInv(rpc[d])'
  <2>1. CallInv(rpc'[d])
    BY DEF FetchTypes
  <2> QED
    BY <2>1 DEF CallInv
<1>3. ASSUME NEW k \in Keys, cache'[k] # NoValue PROVE EntryInv(k, cache[k])'
  BY <1>3 DEF EntryInv
<1> QED
  BY <1>1, <1>2, <1>3

\* A step of the store, or of the clock as far as the timeouts allow.
LEMMA WorldStep ==
    ASSUME FetchInv, patterns \subseteq patterns', UNCHANGED <<cache, rpc>>, now' \in Nat,
           \A c \in Callers : rpc[c].kind \in Working => now' - rpc[c].since <= CallTimeout
    PROVE  FetchInv'
<1> USE DEF FetchInv
<1>1. Entries \subseteq Entries' /\ Calls \subseteq Calls'
  BY DEF Entries, Calls
<1>2. FetchTypes'
  BY <1>1 DEF FetchTypes
<1>3. ASSUME NEW c \in Callers PROVE CallInv(rpc[c])'
  BY <1>3 DEF CallInv, Wanted
<1>4. ASSUME NEW k \in Keys, cache'[k] # NoValue PROVE EntryInv(k, cache[k])'
  BY <1>4 DEF EntryInv
<1> QED
  BY <1>2, <1>3, <1>4

\* A call that has begun has all its fields.
LEMMA BegunCall ==
    ASSUME FetchInv, NEW c \in Callers, rpc[c].kind # "idle"
    PROVE  /\ rpc[c] \in Calls /\ CallInv(rpc[c])
           /\ PatternsKey(rpc[c]) \in Keys /\ now \in Nat
BY DEF FetchInv, FetchTypes, Idle, Calls, PatternsKey, Keys

\* GetPatterns is called.
LEMMA StartFetch ==
    ASSUME FetchInv, NEW c \in Callers, NEW k \in Asks, FetchStart(c, k[1], k[2])
    PROVE  FetchInv'
<1>1. k[1] \in Tenants /\ k[2] \in Services \cup {NoService} /\ now \in Nat /\ CallTimeout \in Nat
  BY PatternsAssumption DEF Keys, FetchInv, FetchTypes
<1> DEFINE x == [kind |-> IF PatternTTL > 0 /\ configured THEN "get" ELSE "query",
                 tenant |-> k[1], service |-> k[2], since |-> now, list |-> {}, asOf |-> now]
<1>2. x \in Calls /\ CallInv(x)
  BY <1>1 DEF Calls, CallInv, Working
<1> HIDE DEF x
<1>3. rpc' = [rpc EXCEPT ![c] = x] /\ UNCHANGED <<patterns, cache, now>>
  BY DEF FetchStart, Become, x
<1> QED
  BY <1>2, <1>3, CallStep

\* A cached list is given to a caller that asked for the key it is under.
LEMMA HitFetch ==
    ASSUME FetchInv, NEW c \in Callers, FetchHit(c)
    PROVE  FetchInv'
<1> DEFINE k == PatternsKey(rpc[c])
           e == cache[k]
           x == [rpc[c] EXCEPT !.kind = "done", !.since = now, !.list = e.list, !.asOf = e.asOf]
<1>1. rpc[c] \in Calls /\ k \in Keys /\ now \in Nat /\ k = <<rpc[c].tenant, rpc[c].service>>
  BY BegunCall DEF FetchHit, PatternsKey
<1>2. e \in Entries /\ EntryInv(k, e)
  BY <1>1 DEF FetchHit, Live, FetchInv, FetchTypes
<1> HIDE DEF k, e
<1>3. x \in Calls /\ x.list = e.list /\ x.kind = "done"
      /\ x.tenant = rpc[c].tenant /\ x.service = rpc[c].service
  BY <1>1, <1>2 DEF Calls, Entries
<1>4. rpc' = [rpc EXCEPT ![c] = x] /\ UNCHANGED <<patterns, cache, now>>
  BY DEF FetchHit, Become, k, e
<1> HIDE DEF x
<1>5. k[1] = rpc[c].tenant /\ k[2] = rpc[c].service
  BY <1>1
<1>6. CallInv(x)
  BY <1>2, <1>3, <1>5 DEF CallInv, EntryInv, Wanted, Working
<1> QED
  BY <1>3, <1>4, <1>6, CallStep

\* The call goes on to its query, or ends with no list.
LEMMA GotoFetch ==
    ASSUME FetchInv, NEW c \in Callers, rpc[c].kind \in {"get", "query"},
           NEW step \in {"query", "done"}, Goto(c, step), UNCHANGED <<patterns, cache, now>>
    PROVE  FetchInv'
<1> DEFINE x == [rpc[c] EXCEPT !.kind = step, !.since = now]
<1>1. rpc[c] \in Calls /\ CallInv(rpc[c]) /\ now \in Nat /\ CallTimeout \in Nat
  BY BegunCall, PatternsAssumption
<1>2. rpc[c].list = {}
  BY <1>1 DEF CallInv
<1>3. x \in Calls /\ x.list = {} /\ x.kind = step /\ x.since = now
  BY <1>1, <1>2 DEF Calls, Working
<1>4. rpc' = [rpc EXCEPT ![c] = x]
  BY DEF Goto, Become
<1> HIDE DEF x
<1>5. CallInv(x)
  BY <1>1, <1>3 DEF CallInv
<1> QED
  BY <1>3, <1>4, <1>5, CallStep

\* Weaviate's answer is what is stored at that moment.
LEMMA AnswerFetch ==
    ASSUME FetchInv, NEW c \in Callers, FetchAnswer(c)
    PROVE  FetchInv'
<1> DEFINE list == {p \in patterns : Wanted(p, rpc[c])}
           kind == IF PatternTTL > 0 /\ list # {} THEN "set" ELSE "done"
           x == [rpc[c] EXCEPT !.kind = kind, !.since = now, !.list = list, !.asOf = now]
<1>1. rpc[c] \in Calls /\ now \in Nat /\ CallTimeout \in Nat
  BY BegunCall, PatternsAssumption DEF FetchAnswer
<1>2. list \subseteq patterns /\ (\A p \in list : Wanted(p, rpc[c])) /\ kind \in {"set", "done"}
  OBVIOUS
<1>3. rpc' = [rpc EXCEPT ![c] = x] /\ UNCHANGED <<patterns, cache, now>>
  BY DEF FetchAnswer, Become
<1> HIDE DEF list, kind
<1>4. x \in Calls /\ x.list = list /\ x.kind = kind /\ x.since = now /\ x.asOf = now
      /\ x.tenant = rpc[c].tenant /\ x.service = rpc[c].service
  BY <1>1, <1>2 DEF Calls, Working
<1> HIDE DEF x
<1>5. CallInv(x)
  BY <1>1, <1>2, <1>4 DEF CallInv, Wanted
<1> QED
  BY <1>3, <1>4, <1>5, CallStep

\* The made-up list of a failed query is returned and goes no further.
LEMMA FailFetch ==
    ASSUME FetchInv, NEW c \in Callers, FetchFail(c)
    PROVE  FetchInv'
<1> DEFINE list == SyntheticPatterns(rpc[c])
           x == [rpc[c] EXCEPT !.kind = "done", !.since = now, !.list = list]
<1>1. rpc[c] \in Calls /\ now \in Nat
  BY BegunCall DEF FetchFail
<1>2. list \subseteq MadeUp
  BY <1>1 DEF Calls, SyntheticPatterns, MadeUp
<1>3. \A p \in MadeUp : "rank" \notin DOMAIN p
  BY DEF MadeUp
<1>4. rpc' = [rpc EXCEPT ![c] = x] /\ UNCHANGED <<patterns, cache, now>>
  BY DEF FetchFail, Become
<1> HIDE DEF list
<1>5. x \in Calls /\ x.list = list /\ x.kind = "done"
  BY <1>1, <1>2 DEF Calls, Working
<1> HIDE DEF x
<1>6. CallInv(x)
  BY <1>2, <1>3, <1>5 DEF CallInv, Working
<1> QED
  BY <1>4, <1>5, <1>6, CallStep

\* The Set writes the list, or fails.
LEMMA SetFetch ==
    ASSUME FetchInv, NEW c \in Callers, NEW acts \in BOOLEAN, FetchSet(c, acts)
    PROVE  FetchInv'
<1> DEFINE k == PatternsKey(rpc[c])
           x == [rpc[c] EXCEPT !.kind = "done", !.since = now]
           e == [list |-> rpc[c].list, asOf |-> rpc[c].asOf, exp |-> now + PatternTTL]
<1>1. /\ rpc[c] \in Calls /\ CallInv(rpc[c]) /\ k \in Keys /\ now \in Nat
      /\ CallTimeout \in Nat /\ PatternTTL \in Nat /\ k = <<rpc[c].tenant, rpc[c].service>>
  BY BegunCall, PatternsAssumption DEF FetchSet, PatternsKey
<1>2. /\ rpc[c].list \subseteq patterns /\ (\A p \in rpc[c].list : Wanted(p, rpc[c]))
      /\ rpc[c].asOf = rpc[c].since /\ now - rpc[c].since <= CallTimeout
      /\ rpc[c].asOf \in Nat
  BY <1>1 DEF FetchSet, CallInv, Working, Calls
<1>3. e \in Entries /\ EntryInv(k, e)
  BY <1>1, <1>2 DEF Entries, EntryInv, Wanted
<1>4. x \in Calls /\ x.list = rpc[c].list /\ x.kind = "done"
      /\ x.tenant = rpc[c].tenant /\ x.service = rpc[c].service
  BY <1>1 DEF Calls, Working
<1>5. CallInv(x)
  BY <1>2, <1>4 DEF CallInv, Wanted, Working
<1>6. /\ rpc' = [rpc EXCEPT ![c] = x] /\ UNCHANGED <<patterns, now>>
      /\ cache' = [cache EXCEPT ![k] = IF acts THEN e ELSE @]
  BY DEF FetchSet, Goto, Become
<1> HIDE DEF x, k, e
<1>7. FetchTypes'
  BY <1>1, <1>3, <1>4, <1>6 DEF FetchInv, FetchTypes, Entries, Calls
<1>8. ASSUME NEW d \in Callers PROVE CallInv(rpc[d])'
  <2>1. CallInv(rpc'[d])
    BY <1>5, <1>6 DEF FetchInv, FetchTypes
  <2> QED
    BY <2>1, <1>6 DEF CallInv
<1>9. ASSUME NEW j \in Keys, cache'[j] # NoValue PROVE EntryInv(j, cache[j])'
  <2>1. cache'[j] = cache[j] \/ (j = k /\ cache'[j] = e)
    BY <1>1, <1>6 DEF FetchInv, FetchTypes
  <2>2. EntryInv(j, cache'[j])
    BY <1>3, <1>9, <2>1 DEF FetchInv
  <2> QED
    BY <2>2 DEF EntryInv
<1> QED
  BY <1>7, <1>8, <1>9 DEF FetchInv

\* Every step keeps what is known of calls and entries.
LEMMA StepFetch == FetchInv /\ [Next]_vars => FetchInv'
<1> SUFFICES ASSUME FetchInv, [Next]_vars PROVE FetchInv'
    OBVIOUS
<1>1. ASSUME NEW c \in Callers, Step(c) PROVE FetchInv'
  <2>1. CASE FetchHit(c)
    BY <2>1, HitFetch
  <2>2. CASE FetchMiss(c)
    BY <2>2, GotoFetch DEF FetchMiss
  <2>3. CASE FetchAnswer(c)
    BY <2>3, AnswerFetch
  <2>4. CASE FetchRefused(c)
    BY <2>4, GotoFetch DEF FetchRefused
  <2>5. CASE FetchFail(c)
    BY <2>5, FailFetch
  <2>6. ASSUME NEW acts \in BOOLEAN, FetchSet(c, acts) PROVE FetchInv'
    BY <2>6, SetFetch
  <2> QED
    BY <1>1, <2>1, <2>2, <2>3, <2>4, <2>5, <2>6 DEF Step
<1>2. ASSUME NEW c \in Callers, NEW k \in Asks, FetchStart(c, k[1], k[2]) PROVE FetchInv'
  BY <1>2, StartFetch
<1>3. now \in Nat /\ CallTimeout \in Nat /\ \A c \in Callers : CallInv(rpc[c])
  BY PatternsAssumption DEF FetchInv, FetchTypes
<1>4. ASSUME patterns \subseteq patterns', UNCHANGED <<cache, rpc, now>> PROVE FetchInv'
  BY <1>3, <1>4, WorldStep DEF CallInv
<1>5. ASSUME NEW t \in Tenants, NEW input, Mine(t, input) PROVE FetchInv'
  BY <1>4, <1>5 DEF Mine
<1>6. CASE PostPattern \/ PostFail \/ PostTimeout
  BY <1>4, <1>6 DEF PostPattern, PostFail, PostTimeout
<1>7. ASSUME NEW p \in late, LatePattern(p) PROVE FetchInv'
  BY <1>4, <1>7 DEF LatePattern
<1>8. CASE Tick
  <2>1. now' = now + 1 /\ UNCHANGED <<patterns, cache, rpc>>
    BY <1>8 DEF Tick
  <2>2. ASSUME NEW c \in Callers, rpc[c].kind \in Working PROVE now' - rpc[c].since <= CallTimeout
    <3>1. rpc[c].since \in Nat /\ now - rpc[c].since < CallTimeout
      BY <1>8, <2>2 DEF Tick, FetchInv, FetchTypes, Idle, Calls, Working
    <3> QED
      BY <1>3, <2>1, <3>1
  <2> QED
    BY <1>3, <2>1, <2>2, WorldStep
<1>9. CASE UNCHANGED vars
  BY <1>4, <1>9 DEF vars
<1> QED
  BY <1>1, <1>2, <1>5, <1>6, <1>7, <1>8, <1>9 DEF Next

\* The invariant of GetPatterns holds of every behaviour.
LEMMA FetchInvHolds == Spec => []FetchInv
BY InitFetch, StepFetch, PTL DEF Spec

\* The invariant of StorePatterns holds of every behaviour.
LEMMA StoreInvHolds == Spec => []StoreInv
BY InitStore, StepStore, PTL DEF Spec

\* For any number of callers, tenants and services, the cache holds stored patterns
\* of the tenant and the service of its key only, and no caller is given another's.
THEOREM CacheIsTrue == Spec => []CachedPatternsAreStored
<1>1. StoreInv /\ FetchInv => CachedPatternsAreStored
  <2> SUFFICES ASSUME StoreInv, FetchInv PROVE CachedPatternsAreStored
      OBVIOUS
  <2>1. ASSUME NEW k \in Keys, cache[k] # NoValue
        PROVE  cache[k].list \subseteq patterns /\ EntryInv(k, cache[k])
    BY <2>1 DEF FetchInv, FetchTypes, Entries
  <2>2. \A p \in patterns : "rank" \in DOMAIN p
    BY DEF StoreInv, Shapes, Mined
  <2>3. \A c \in Callers : CallInv(rpc[c])
    BY DEF FetchInv
  <2>4. ASSUME NEW c \in Callers, rpc[c].kind = "done", NEW p \in rpc[c].list \cap patterns
        PROVE  Wanted(p, rpc[c])
    BY <2>2, <2>3, <2>4 DEF CallInv
  <2> QED
    BY <2>1, <2>4 DEF CachedPatternsAreStored, EntryInv
<1> QED
  BY <1>1, StoreInvHolds, FetchInvHolds, PTL

\* Whichever callers fill an entry in which order, a live one is younger than one
\* time to live and one call.
THEOREM CacheIsFresh == Spec => []CachedPatternsAreFresh
<1>1. FetchInv => CachedPatternsAreFresh
  <2> SUFFICES ASSUME FetchInv, NEW k \in Keys, Live(cache[k])
               PROVE  now - cache[k].asOf < PatternTTL + CallTimeout
      BY DEF CachedPatternsAreFresh
  <2>1. /\ cache[k].exp \in Nat /\ cache[k].asOf \in Nat /\ now \in Nat /\ now < cache[k].exp
        /\ cache[k].exp <= cache[k].asOf + CallTimeout + PatternTTL
    <3>1. cache[k] # NoValue /\ now < cache[k].exp
      BY DEF Live
    <3>2. EntryInv(k, cache[k]) /\ cache[k] \in Entries \cup {NoValue} /\ now \in Nat
      BY <3>1 DEF FetchInv, FetchTypes
    <3>3. cache[k].exp \in Nat /\ cache[k].asOf \in Nat
      BY <3>1, <3>2 DEF Entries
    <3> QED
      BY <3>1, <3>2, <3>3 DEF EntryInv
  <2>2. PatternTTL \in Nat /\ CallTimeout \in Nat
    BY PatternsAssumption
  <2> DEFINE exp == cache[k].exp
             asOf == cache[k].asOf
  <2>3. now - asOf < PatternTTL + CallTimeout
    <3>1. /\ exp \in Nat /\ asOf \in Nat /\ now \in Nat /\ now < exp
          /\ exp <= asOf + CallTimeout + PatternTTL
      BY <2>1
    <3> HIDE DEF exp, asOf
    <3> QED
      BY <3>1, <2>2
  <2> QED
    BY <2>3
<1> QED
  BY <1>1, FetchInvHolds, PTL

=============================================================================
