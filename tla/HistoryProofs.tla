---------------------------- MODULE HistoryProofs ----------------------------
(***************************************************************************)
(* Proofs about History, for any callers, results and queries, any page    *)
(* sizes, any resolution of the time stamps and any number of retries.     *)
(***************************************************************************)
EXTENDS History, TLAPS, SequenceTheorems, FiniteSetTheorems

-----------------------------------------------------------------------------
(* Seconds *)

\* Multiplication by a positive number keeps a gap.
LEMMA ProductGap ==
    ASSUME NEW k \in Nat \ {0}, NEW x \in Int, NEW y \in Int, x < y
    PROVE  k * x + k <= k * y
<1>1. k * (y - x - 1) >= 0
  BY SMT
<1>2. k * (y - x - 1) = k * y - k * x - k
  BY SMT
<1> QED
  BY <1>1, <1>2, SMT

\* A time lies within its second.
LEMMA WithinSecond ==
    ASSUME NEW t \in Nat
    PROVE  /\ Second(t) \in Nat
           /\ TicksPerSecond * Second(t) <= t
           /\ t < TicksPerSecond * Second(t) + TicksPerSecond
BY HistoryAssumption DEF Second

\* The order of two seconds is the order of their times, up to a second.
LEMMA SecondsOrder ==
    ASSUME NEW a \in Nat, NEW b \in Nat
    PROVE  /\ a <= b => Second(a) <= Second(b)
           /\ Second(a) <= Second(b) => a < b + TicksPerSecond
<1> DEFINE k == TicksPerSecond
           x == Second(a)
           y == Second(b)
<1>1. /\ k \in Nat \ {0} /\ x \in Nat /\ y \in Nat
      /\ k * x <= a /\ a < k * x + k /\ k * y <= b /\ b < k * y + k
  BY HistoryAssumption, WithinSecond
<1>2. y < x => k * y + k <= k * x
  BY <1>1, ProductGap
<1>3. x < y => k * x + k <= k * y
  BY <1>1, ProductGap
<1>4. k * x \in Int /\ k * y \in Int
  BY <1>1
<1> HIDE DEF k, x, y
<1>5. a <= b => x <= y
  BY <1>1, <1>2, <1>4
<1>6. x <= y => a < b + k
  BY <1>1, <1>3, <1>4
<1> QED
  BY <1>5, <1>6 DEF k, x, y

-----------------------------------------------------------------------------
(* The order of a query *)

Objects == {Properties(r) : r \in Results}

\* An object is that of one result, by its id.
LEMMA ObjectOf ==
    /\ \A o \in Objects : o.id \in Nat /\ o.createdAt \in Nat
    /\ \A o, p \in Objects : o.id = p.id => o = p
    /\ \A r \in Results : /\ Properties(r) \in Objects /\ Properties(r).id = r.id
                          /\ Properties(r).createdAt = Second(r.at)
BY HistoryAssumption, WithinSecond DEF Objects, Properties

\* Newest first, and by id within a second, is a strict total order.
LEMMA TotalOrder ==
    /\ \A o \in Objects : ~Before(o, o)
    /\ \A o, p \in Objects : o = p \/ Before(o, p) \/ Before(p, o)
    /\ \A o, p, q \in Objects : Before(o, p) /\ Before(p, q) => Before(o, q)
BY ObjectOf DEF Before

\* The places of the objects found are the numbers from 0 up, in the query's order.
LEMMA Places ==
    ASSUME NEW found \in SUBSET Objects, IsFiniteSet(found)
    PROVE  /\ Cardinality(found) \in Nat
           /\ \A o \in found : Place(o, found) \in 0..(Cardinality(found) - 1)
           /\ \A o, p \in found : Before(o, p) => Place(o, found) < Place(p, found)
           /\ \A i \in 0..(Cardinality(found) - 1) : \E o \in found : Place(o, found) = i
<1> DEFINE n == Cardinality(found)
           Less(o) == {p \in found : Before(p, o)}
<1>1. n \in Nat
  BY FS_CardinalityType
<1>2. ASSUME NEW o \in found
      PROVE  IsFiniteSet(Less(o)) /\ Place(o, found) \in Nat /\ Place(o, found) = Cardinality(Less(o))
  BY FS_Subset, FS_CardinalityType DEF Place
<1>3. ASSUME NEW o \in found
      PROVE  Place(o, found) \in 0..(n - 1)
  <2>1. Less(o) \in SUBSET found /\ o \notin Less(o)
    BY TotalOrder
  <2>2. Cardinality(Less(o)) <= n /\ Cardinality(Less(o)) # n
    BY <2>1, FS_Subset
  <2> QED
    BY <1>1, <1>2, <2>2
<1>4. ASSUME NEW o \in found, NEW p \in found, Before(o, p)
      PROVE  Place(o, found) < Place(p, found)
  <2>1. Less(o) \in SUBSET Less(p)
    BY <1>4, TotalOrder
  <2>2. o \in Less(p) /\ o \notin Less(o)
    BY <1>4, TotalOrder
  <2>3. Cardinality(Less(o)) <= Cardinality(Less(p)) /\ Cardinality(Less(o)) # Cardinality(Less(p))
    BY <1>2, <2>1, <2>2, FS_Subset
  <2>4. /\ Place(o, found) \in Nat /\ Place(o, found) = Cardinality(Less(o))
        /\ Place(p, found) \in Nat /\ Place(p, found) = Cardinality(Less(p))
    BY <1>2
  <2> HIDE DEF Less
  <2> QED
    BY <2>3, <2>4
<1>5. ASSUME NEW i \in 0..(n - 1) PROVE \E o \in found : Place(o, found) = i
  <2> DEFINE f == [o \in found |-> Place(o, found)]
  <2>1. f \in [found -> 0..(n - 1)]
    BY <1>3
  <2>2. ASSUME NEW o \in found, NEW p \in found, f[o] = f[p] PROVE o = p
    <3>1. Place(o, found) = Place(p, found) /\ Place(o, found) \in Nat
      BY <1>2, <2>2
    <3>2. ~Before(o, p) /\ ~Before(p, o)
      BY <1>4, <3>1
    <3> QED
      BY <3>2, TotalOrder
  <2>3. f \in Injection(found, 0..(n - 1))
    BY <2>1, <2>2 DEF Injection, IsInjective
  <2>4. IsFiniteSet(0..(n - 1)) /\ Cardinality(0..(n - 1)) = n
    BY <1>1, FS_Interval
  <2>5. f \in Surjection(found, 0..(n - 1))
    BY <2>3, <2>4, FS_Injection
  <2>6. PICK o \in found : f[o] = i
    BY <2>5 DEF Surjection
  <2> QED
    BY <2>6
<1> QED
  BY <1>1, <1>3, <1>4, <1>5

\* A record that is stored meanwhile moves no other one forward.
LEMMA PlacesGrow ==
    ASSUME NEW less, NEW more, less \subseteq more, IsFiniteSet(more), NEW o
    PROVE  Place(o, less) \in Nat /\ Place(o, more) \in Nat /\ Place(o, less) <= Place(o, more)
<1> DEFINE L == {p \in less : Before(p, o)}
           M == {p \in more : Before(p, o)}
<1>1. M \in SUBSET more /\ L \in SUBSET M
  OBVIOUS
<1> HIDE DEF L, M
<1>2. IsFiniteSet(M) /\ IsFiniteSet(L) /\ Cardinality(L) <= Cardinality(M)
  BY <1>1, FS_Subset
<1>3. Cardinality(L) \in Nat /\ Cardinality(M) \in Nat
  BY <1>2, FS_CardinalityType
<1> QED
  BY <1>2, <1>3 DEF Place, L, M

Tokens == Nat \cup {NoValue, -1}

\* The page size is positive, and the offset a natural number.
LEMMA LimitsAndOffsets ==
    /\ \A q \in Queries : Limit(q.size) \in Nat \ {0}
    /\ \A token \in Tokens : Offset(token) \in Nat
BY HistoryAssumption DEF Limit, Offset, Tokens

\* The smaller of two numbers.
LEMMA SmallerOfTwo ==
    ASSUME NEW a \in Nat, NEW b \in Nat
    PROVE  Min({a, b}) = IF a <= b THEN a ELSE b
<1> DEFINE m == IF a <= b THEN a ELSE b
<1>1. m \in {a, b} /\ \A y \in {a, b} : m <= y
  OBVIOUS
<1>2. \A x \in {a, b} : (\A y \in {a, b} : x <= y) => x = m
  OBVIOUS
<1> QED
  BY <1>1, <1>2 DEF Min

\* A page holds exactly what is found at its places, in their order; one that is
\* not full is the last.
PageOf(page, found, from, limit) ==
    /\ page \in Seq(Nat)
    /\ \A i \in 1..Len(page) :
          \E o \in found : page[i] = o.id /\ Place(o, found) = from + i - 1
    /\ \A o \in found :
          from <= Place(o, found) /\ Place(o, found) < from + Len(page) => o.id \in Range(page)
    /\ Len(page) # limit => \A o \in found : Place(o, found) < from + Len(page)

\* Every page Weaviate gives is one.
LEMMA PageItems ==
    ASSUME objects \in SUBSET Objects, IsFiniteSet(objects), NEW q \in Queries, NEW token \in Tokens
    PROVE  PageOf(Page(q, token), Found(q), Offset(token), Limit(q.size))
<1> DEFINE page == Page(q, token)
           found == Found(q)
           from == Offset(token)
           n == Cardinality(found)
           limit == Limit(q.size)
           count == Min({from + limit, n}) - from
           m == IF count > 0 THEN count ELSE 0
           At(j) == CHOOSE o \in found : Place(o, found) = j
<1>1. found \in SUBSET Objects /\ IsFiniteSet(found)
  BY FS_Subset DEF Found
<1>2. n \in Nat /\ from \in Nat /\ limit \in Nat \ {0}
  BY <1>1, Places, LimitsAndOffsets
<1>3. ASSUME NEW j \in 0..(n - 1) PROVE At(j) \in found /\ Place(At(j), found) = j
  <2>1. \E o \in found : Place(o, found) = j
    BY <1>1, Places
  <2> QED
    BY <2>1
<1>4. page = [i \in 1..count |-> At(from + i - 1).id]
  BY DEF Page, Shown
<1> HIDE DEF page, found, from, n, limit, At
<1>5. count = (IF from + limit <= n THEN from + limit ELSE n) - from
  BY <1>2, SmallerOfTwo
<1> HIDE DEF count
<1>6. m \in Nat /\ 1..count = 1..m /\ (m = limit \/ from + m >= n) /\ (m > 0 => from + m <= n)
  BY <1>2, <1>5
<1> HIDE DEF m
<1>7. \A i \in 1..m : /\ At(from + i - 1) \in found
                       /\ Place(At(from + i - 1), found) = from + i - 1
                       /\ page[i] = At(from + i - 1).id
  <2> SUFFICES ASSUME NEW i \in 1..m
               PROVE  /\ At(from + i - 1) \in found
                      /\ Place(At(from + i - 1), found) = from + i - 1
                      /\ page[i] = At(from + i - 1).id
      OBVIOUS
  <2>1. from + i - 1 \in 0..(n - 1)
    BY <1>2, <1>6
  <2>2. page[i] = At(from + i - 1).id
    BY <1>4, <1>6
  <2> QED
    BY <1>3, <2>1, <2>2
<1>8. page \in [1..m -> Nat]
  <2>1. \A i \in 1..m : page[i] \in Nat
    BY <1>1, <1>7, ObjectOf
  <2>2. page = [i \in 1..m |-> page[i]]
    BY <1>4, <1>6
  <2> QED
    BY <2>1, <2>2
<1>9. page \in Seq(Nat) /\ Len(page) = m
  BY <1>6, <1>8
<1>10. \A i \in 1..Len(page) : \E o \in found : page[i] = o.id /\ Place(o, found) = from + i - 1
  BY <1>7, <1>9
<1>11. ASSUME NEW o \in found, from <= Place(o, found), Place(o, found) < from + Len(page)
       PROVE  o.id \in Range(page)
  <2> DEFINE i == Place(o, found) - from + 1
  <2>1. Place(o, found) \in Nat
    BY <1>1, Places
  <2>2. i \in 1..m
    BY <1>2, <1>6, <1>9, <1>11, <2>1
  <2>3. Place(At(from + i - 1), found) = Place(o, found) /\ At(from + i - 1) \in found
    BY <1>2, <1>7, <2>1, <2>2
  <2>4. o = At(from + i - 1)
    <3> DEFINE p == At(from + i - 1)
    <3>1. ~Before(o, p) /\ ~Before(p, o)
      BY <1>1, <2>1, <2>3, Places
    <3> QED
      BY <1>1, <2>3, <3>1, TotalOrder
  <2>5. page[i] = o.id
    BY <1>7, <2>2, <2>4
  <2> QED
    BY <1>8, <2>2, <2>5 DEF Range
<1>12. ASSUME Len(page) # limit, NEW o \in found PROVE Place(o, found) < from + Len(page)
  <2>1. Place(o, found) \in 0..(n - 1)
    BY <1>1, Places DEF n
  <2>2. from + m >= n
    BY <1>6, <1>9, <1>12
  <2> QED
    BY <1>2, <1>6, <1>9, <2>1, <2>2
<1> QED
  BY <1>9, <1>10, <1>11, <1>12 DEF PageOf, page, found, from, limit

-----------------------------------------------------------------------------
(* The invariant *)

Bare == [kind : {"idle", "invalid", "madeUp", "refused", "internal"}]
Lists == [kind : {"list", "listed"}, q : Queries, token : Tokens, listed : Seq(Nat),
          then : SUBSET Results, still : BOOLEAN, odd : BOOLEAN]
Feedbacks == [kind : {"post", "accepted", "failed"}, tries : Nat \ {0}]

Types ==
    /\ configured \in BOOLEAN
    /\ objects \in SUBSET Objects /\ IsFiniteSet(objects)
    /\ rpc \in [Callers -> Bare \cup Lists \cup Feedbacks]
    /\ fed \in [Callers -> Nat] /\ lateFed \in [Callers -> Nat]

\* What was listed was found.
ListedWasFound(x) == \A i \in 1..Len(x.listed) : \E o \in Found(x.q) : o.id = x.listed[i]

\* What was there from the beginning and comes before the next page, or before the
\* end, was listed.
NothingMissed(x) ==
    \A r \in x.then :
        /\ Properties(r) \in objects
        /\ /\ Where(x.q, Properties(r))
           /\ x.kind = "listed" \/ Place(Properties(r), Found(x.q)) < Offset(x.token)
           => r.id \in Range(x.listed)

\* While nothing was stored since the first page, the list so far is what is found
\* at its places, and the next page begins where it ends.
AtItsPlaces(x) ==
    \A i \in 1..Len(x.listed) :
        \E o \in Found(x.q) : x.listed[i] = o.id /\ Place(o, Found(x.q)) = i - 1
StillInPlace(x) ==
    x.kind = "list" /\ x.still => Offset(x.token) = Len(x.listed) /\ AtItsPlaces(x)

\* A list in the order of the query, without repetition.
InOrder(listed) ==
    \A i, j \in 1..Len(listed) : i < j =>
        \A r, s \in Results : r.id = listed[i] /\ s.id = listed[j] =>
            r # s /\ Second(r.at) >= Second(s.at)

\* The next page begins after what was listed, whole pages of what is stored.
Backed(x) ==
    x.kind = "list" =>
        /\ Offset(x.token) = Len(x.listed)
        /\ \E n \in Nat : Offset(x.token) = n * Limit(x.q.size)
        /\ x.token # 0
        /\ Offset(x.token) <= Cardinality(Found(x.q))

ListInv(x) ==
    /\ ListedWasFound(x) /\ NothingMissed(x) /\ StillInPlace(x) /\ Backed(x)
    /\ x.still => InOrder(x.listed)

\* Posts under way and applied, and the submissions they come from.
FeedInv(c) ==
    LET posts == fed[c] + lateFed[c] IN
    /\ rpc[c].kind = "accepted" /\ configured => fed[c] > 0
    /\ rpc[c].kind = "post" => posts < rpc[c].tries
    /\ rpc[c].kind \in {"accepted", "failed"} => posts <= rpc[c].tries
    /\ rpc[c].kind \notin {"post", "accepted", "failed"} => posts = 0

IInv ==
    /\ Types
    /\ \A c \in Callers : rpc[c].kind \in {"list", "listed"} => ListInv(rpc[c])
    /\ \A c \in Callers : FeedInv(c)

\* The kind of a call tells its shape.
LEMMA Shape ==
    ASSUME Types, NEW c \in Callers
    PROVE  /\ rpc[c].kind \in {"list", "listed"} <=> rpc[c] \in Lists
           /\ rpc[c].kind \in {"post", "accepted", "failed"} <=> rpc[c] \in Feedbacks
BY DEF Types, Bare, Lists, Feedbacks

\* Objects at rising places are in the order of the query.
LEMMA PlacesOrder ==
    ASSUME objects \in SUBSET Objects, IsFiniteSet(objects), NEW x, x.listed \in Seq(Nat), AtItsPlaces(x)
    PROVE  InOrder(x.listed)
<1> SUFFICES ASSUME NEW i \in 1..Len(x.listed), NEW j \in 1..Len(x.listed), i < j,
                    NEW r \in Results, NEW s \in Results,
                    r.id = x.listed[i], s.id = x.listed[j]
             PROVE  r # s /\ Second(r.at) >= Second(s.at)
    BY DEF InOrder
<1> DEFINE found == Found(x.q)
<1>1. found \in SUBSET Objects /\ IsFiniteSet(found)
  BY FS_Subset DEF Found
<1>2. PICK o \in found : x.listed[i] = o.id /\ Place(o, found) = i - 1
  BY DEF AtItsPlaces
<1>3. PICK p \in found : x.listed[j] = p.id /\ Place(p, found) = j - 1
  BY DEF AtItsPlaces
<1>4. o = Properties(r) /\ p = Properties(s)
  BY <1>1, <1>2, <1>3, ObjectOf
<1> HIDE DEF found
<1>5. Len(x.listed) \in Nat
  BY LenProperties
<1>6. o # p /\ ~Before(p, o)
  <2>1. Place(o, found) < Place(p, found)
    <3>1. i - 1 < j - 1
      BY <1>5
    <3> QED
      BY <1>2, <1>3, <3>1
  <2>2. Place(o, found) \in Nat /\ Place(p, found) \in Nat
    BY <1>2, <1>3, <1>5
  <2>3. Before(p, o) => Place(p, found) < Place(o, found)
    BY <1>1, Places, Zenon
  <2> QED
    BY <2>1, <2>2, <2>3
<1>7. Before(o, p)
  BY <1>1, <1>6, TotalOrder
<1>8. o.createdAt = Second(r.at) /\ p.createdAt = Second(s.at)
      /\ o.createdAt \in Nat /\ p.createdAt \in Nat
  BY <1>4, ObjectOf
<1> QED
  BY <1>4, <1>6, <1>7, <1>8 DEF Before

\* One more page: nothing before the new token is missed, and the list goes on in
\* its order.
LEMMA PageAdded ==
    ASSUME objects \in SUBSET Objects, IsFiniteSet(objects),
           NEW x \in Lists, x.kind = "list", ListInv(x),
           NEW page, page = Page(x.q, x.token),
           NEW next, next = NextToken(x.token, Len(page), Limit(x.q.size)),
           NEW y, y.q = x.q, y.then = x.then, y.still = x.still, y.token = next,
           y.listed = x.listed \o page, y.kind = IF next = NoValue THEN "listed" ELSE "list"
    PROVE  next \in Tokens /\ y.listed \in Seq(Nat) /\ ListInv(y)
<1> DEFINE found == Found(x.q)
           from == Offset(x.token)
           n == Len(x.listed)
           m == Len(page)
           all == x.listed \o page
<1>1. x.q \in Queries /\ x.token \in Tokens /\ x.listed \in Seq(Nat) /\ x.then \subseteq Results
  BY DEF Lists
<1>2. from \in Nat /\ Limit(x.q.size) \in Nat \ {0}
  BY <1>1, LimitsAndOffsets
<1>3. /\ page \in Seq(Nat)
      /\ \A i \in 1..m : \E o \in found : page[i] = o.id /\ Place(o, found) = from + i - 1
      /\ \A o \in found :
            from <= Place(o, found) /\ Place(o, found) < from + m => o.id \in Range(page)
      /\ m # Limit(x.q.size) => \A o \in found : Place(o, found) < from + m
  <2>1. PageOf(page, found, from, Limit(x.q.size))
    BY <1>1, PageItems
  <2> QED
    BY <2>1 DEF PageOf
<1>4. n \in Nat /\ m \in Nat
  BY <1>1, <1>3, LenProperties
<1>5. /\ m = Limit(x.q.size) => next = from + m /\ next \in Nat /\ next # NoValue
      /\ m # Limit(x.q.size) => next = NoValue
  BY <1>2, <1>4, HistoryAssumption DEF NextToken
<1>6. /\ all \in Seq(Nat) /\ Len(all) = n + m
      /\ \A i \in 1..(n + m) : all[i] = IF i <= n THEN x.listed[i] ELSE page[i - n]
      /\ Range(all) = Range(x.listed) \cup Range(page)
  <2>1. page \in Seq(Nat)
    BY <1>3
  <2>2. /\ all \in Seq(Nat) /\ Len(all) = n + m
        /\ \A i \in 1..(n + m) : all[i] = IF i <= n THEN x.listed[i] ELSE page[i - n]
    BY <1>1, <2>1, ConcatProperties, ZenonT(30)
  <2>3. Range(all) = Range(x.listed) \cup Range(page)
    BY <1>1, <2>1, RangeConcatenation
  <2> QED
    BY <2>2, <2>3
<1>7. next \in Tokens /\ y.listed = all
  BY <1>5 DEF Tokens
<1> HIDE DEF all
<1>8. Found(y.q) = found
  BY <1>7
<1> HIDE DEF found, from, n, m
<1>9. ListedWasFound(y)
  <2> SUFFICES ASSUME NEW i \in 1..(n + m) PROVE \E o \in found : o.id = y.listed[i]
      BY <1>6, <1>7, <1>8 DEF ListedWasFound
  <2>1. CASE i <= n
    <3>1. i \in 1..n /\ y.listed[i] = x.listed[i]
      BY <1>4, <1>6, <1>7, <2>1
    <3> QED
      BY <3>1 DEF ListInv, ListedWasFound, found, n
  <2>2. CASE ~(i <= n)
    <3>1. i - n \in 1..m /\ y.listed[i] = page[i - n]
      BY <1>4, <1>6, <1>7, <2>2
    <3> QED
      BY <1>3, <3>1
  <2> QED
    BY <2>1, <2>2
<1>10. NothingMissed(y)
  <2> SUFFICES ASSUME NEW r \in x.then
               PROVE  /\ Properties(r) \in objects
                      /\ /\ Where(x.q, Properties(r))
                         /\ y.kind = "listed" \/ Place(Properties(r), found) < Offset(next)
                         => r.id \in Range(y.listed)
      BY <1>7, <1>8 DEF NothingMissed
  <2>1. /\ Properties(r) \in objects
        /\ Where(x.q, Properties(r)) /\ Place(Properties(r), found) < from => r.id \in Range(x.listed)
    BY DEF ListInv, NothingMissed, found, from
  <2>2. ASSUME Where(x.q, Properties(r)),
               y.kind = "listed" \/ Place(Properties(r), found) < Offset(next)
        PROVE  r.id \in Range(y.listed)
    <3> DEFINE o == Properties(r)
    <3>1. o \in found /\ o.id = r.id
      BY <1>1, <2>1, <2>2, ObjectOf DEF Found, found
    <3>2. Place(o, found) \in Nat
      BY <3>1, Places, FS_Subset, SMTT(30) DEF Found, found
    <3>3. Place(o, found) < from + m
      <4>1. CASE m = Limit(x.q.size)
        BY <4>1, <1>5, <1>7, <2>2 DEF Offset
      <4>2. CASE m # Limit(x.q.size)
        BY <4>2, <1>3, <3>1
      <4> QED
        BY <4>1, <4>2
    <3> HIDE DEF o
    <3>4. CASE Place(o, found) < from
      BY <3>4, <1>6, <1>7, <2>1, <2>2 DEF o
    <3>5. CASE from <= Place(o, found)
      BY <3>1, <3>3, <3>5, <1>3, <1>6, <1>7
    <3> QED
      BY <3>2, <3>4, <3>5, <1>2 DEF from
  <2> QED
    BY <2>1, <2>2
<1>11. ASSUME x.still PROVE AtItsPlaces(y)
  <2>1. from = n /\ AtItsPlaces(x)
    BY <1>11 DEF ListInv, StillInPlace, from, n
  <2> SUFFICES ASSUME NEW i \in 1..(n + m)
               PROVE  \E o \in found : y.listed[i] = o.id /\ Place(o, found) = i - 1
      BY <1>6, <1>7, <1>8 DEF AtItsPlaces
  <2>2. CASE i <= n
    <3>1. i \in 1..n /\ y.listed[i] = x.listed[i]
      BY <1>4, <1>6, <1>7, <2>2
    <3> QED
      BY <2>1, <3>1 DEF AtItsPlaces, found, n
  <2>3. CASE ~(i <= n)
    <3>1. i - n \in 1..m /\ y.listed[i] = page[i - n] /\ from + (i - n) - 1 = i - 1
      <4>1. from = n
        BY <2>1
      <4>2. i - n \in 1..m /\ ~(i <= n)
        BY <1>4, <1>7, <2>3
      <4>3. y.listed[i] = page[i - n]
        BY <1>4, <1>6, <1>7, <2>3
      <4>4. from + (i - n) - 1 = i - 1
        BY <1>4, <1>7, <4>1
      <4> QED
        BY <4>2, <4>3, <4>4
    <3> QED
      BY <1>3, <3>1
  <2> QED
    BY <2>2, <2>3
<1>12. StillInPlace(y)
  <2> SUFFICES ASSUME y.kind = "list", y.still PROVE Offset(y.token) = Len(y.listed) /\ AtItsPlaces(y)
      BY DEF StillInPlace
  <2>1. x.still /\ next # NoValue
    BY <1>7
  <2>2. from = n
    BY <2>1 DEF ListInv, StillInPlace, from, n
  <2>3. next = n + m /\ next \in Nat
    BY <1>5, <2>1, <2>2
  <2> QED
    BY <1>6, <1>7, <1>11, <2>1, <2>3 DEF Offset
<1>13. ASSUME y.still PROVE InOrder(y.listed)
  BY <1>6, <1>7, <1>11, <1>13, PlacesOrder
<1>14. Backed(y)
  <2> SUFFICES ASSUME y.kind = "list"
               PROVE  /\ Offset(next) = n + m
                      /\ \E k \in Nat : Offset(next) = k * Limit(x.q.size)
                      /\ next # 0
                      /\ Offset(next) <= Cardinality(found)
      BY <1>6, <1>7, <1>8 DEF Backed
  <2>1. m = Limit(x.q.size) /\ next = from + m /\ next \in Nat
    BY <1>5, <1>7
  <2>2. from = n /\ \E k \in Nat : from = k * Limit(x.q.size)
    BY DEF ListInv, Backed, from, n
  <2>3. m \in Nat \ {0} /\ Offset(next) = from + m /\ from \in Nat
    BY <1>2, <2>1 DEF Offset, from
  <2>4. PICK k \in Nat : from = k * m
    BY <2>1, <2>2
  <2>5. from + m = (k + 1) * m /\ k + 1 \in Nat
    BY <2>3, <2>4
  <2>6. PICK o \in found : Place(o, found) = from + m - 1
    <3>1. m \in 1..m
      BY <2>3
    <3> QED
      BY <1>3, <3>1
  <2>7. Cardinality(found) \in Nat /\ Place(o, found) \in 0..(Cardinality(found) - 1)
    <3>1. found \in SUBSET Objects /\ IsFiniteSet(found)
      BY FS_Subset DEF Found, found
    <3> QED
      BY <2>6, <3>1, Places
  <2>8. from + m <= Cardinality(found)
    BY <2>3, <2>6, <2>7
  <2> QED
    BY <2>1, <2>2, <2>3, <2>5, <2>8
<1> QED
  BY <1>6, <1>7, <1>9, <1>10, <1>12, <1>13, <1>14 DEF ListInv

\* A list is judged by the stored objects alone.
LEMMA SameObjects ==
    ASSUME objects' = objects, NEW x, ListInv(x)
    PROVE  ListInv(x)'
BY DEF ListInv, ListedWasFound, NothingMissed, StillInPlace, AtItsPlaces, Backed, Found, Place

\* A record stored meanwhile takes nothing off a list and moves nothing forward.
LEMMA MoreObjects ==
    ASSUME objects' \in SUBSET Objects, IsFiniteSet(objects'), objects \subseteq objects',
           NEW x \in Lists, ListInv(x),
           NEW y, y.q = x.q, y.then = x.then, y.token = x.token, y.listed = x.listed,
           y.kind = x.kind, y.still => x.still /\ x.kind = "listed"
    PROVE  ListInv(y)'
<1> DEFINE less == Found(x.q)
           more == {o \in objects' : Where(x.q, o)}
<1>1. less \subseteq more /\ IsFiniteSet(more)
  BY FS_Subset DEF Found
<1>2. Found(y.q)' = more
  BY DEF Found
<1>3. x.token \in Tokens /\ Offset(x.token) \in Nat
  BY LimitsAndOffsets DEF Lists
<1> HIDE DEF less, more
<1>4. ListedWasFound(y)'
  BY <1>1, <1>2 DEF ListInv, ListedWasFound, less
<1>5. NothingMissed(y)'
  <2> SUFFICES ASSUME NEW r \in x.then
               PROVE  /\ Properties(r) \in objects'
                      /\ /\ Where(x.q, Properties(r))
                         /\ x.kind = "listed" \/ Place(Properties(r), more) < Offset(x.token)
                         => r.id \in Range(x.listed)
      BY <1>2 DEF NothingMissed, Place
  <2>1. /\ Properties(r) \in objects
        /\ /\ Where(x.q, Properties(r))
           /\ x.kind = "listed" \/ Place(Properties(r), less) < Offset(x.token)
           => r.id \in Range(x.listed)
    BY DEF ListInv, NothingMissed, less
  <2>2. Place(Properties(r), more) < Offset(x.token) => Place(Properties(r), less) < Offset(x.token)
    BY <1>1, <1>3, PlacesGrow
  <2> QED
    BY <2>1, <2>2
<1>6. StillInPlace(y)'
  BY DEF StillInPlace
<1>7. y.still => InOrder(y.listed)
  BY DEF ListInv
<1>8. Backed(y)'
  <2>1. /\ Cardinality(less) \in Nat /\ Cardinality(more) \in Nat
        /\ Cardinality(less) <= Cardinality(more)
    BY <1>1, FS_Subset, FS_CardinalityType
  <2>2. x.kind = "list" =>
            /\ Offset(x.token) = Len(x.listed)
            /\ \E n \in Nat : Offset(x.token) = n * Limit(x.q.size)
            /\ x.token # 0
            /\ Offset(x.token) <= Cardinality(less)
    BY DEF ListInv, Backed, less
  <2>3. x.kind = "list" => Offset(x.token) <= Cardinality(more)
    BY <1>3, <2>1, <2>2
  <2> QED
    BY <1>2, <2>2, <2>3 DEF Backed
<1> QED
  BY <1>4, <1>5, <1>6, <1>7, <1>8 DEF ListInv, InOrder

\* A step of one caller keeps the invariant if it leaves the records alone and keeps
\* the invariant for that caller.
LEMMA OneCall ==
    ASSUME IInv, NEW c \in Callers, NEW z \in Bare \cup Lists \cup Feedbacks,
           rpc' = [rpc EXCEPT ![c] = z], UNCHANGED <<configured, objects>>,
           z.kind \in {"list", "listed"} => ListInv(z),
           fed' \in [Callers -> Nat], lateFed' \in [Callers -> Nat],
           \A d \in Callers : d # c => fed'[d] = fed[d] /\ lateFed'[d] = lateFed[d],
           FeedInv(c)'
    PROVE  IInv'
<1>1. Types'
  BY DEF IInv, Types
<1>2. \A d \in Callers : rpc'[d] = IF d = c THEN z ELSE rpc[d]
  BY DEF IInv, Types
<1>3. ASSUME NEW d \in Callers, rpc'[d].kind \in {"list", "listed"} PROVE ListInv(rpc[d])'
  <2>1. ListInv(rpc'[d])
    BY <1>2, <1>3 DEF IInv
  <2>2. PICK x : x = rpc'[d]
    OBVIOUS
  <2>3. ListInv(x)'
    BY <2>1, <2>2, SameObjects
  <2> QED
    BY <2>2, <2>3
<1>4. ASSUME NEW d \in Callers PROVE FeedInv(d)'
  <2>1. CASE d = c
    BY <2>1
  <2>2. CASE d # c
    BY <1>2, <2>2 DEF IInv, FeedInv
  <2> QED
    BY <2>1, <2>2
<1> QED
  BY <1>1, <1>3, <1>4 DEF IInv

-----------------------------------------------------------------------------
(* The steps *)

\* Weaviate holds the early results, and no call has begun.
LEMMA InitIInv == Init => IInv
<1> SUFFICES ASSUME Init PROVE IInv
    OBVIOUS
<1>1. rpc \in [Callers -> Bare] /\ \A c \in Callers : rpc[c].kind = "idle"
  BY DEF Init, Bare
<1>2. objects \in SUBSET Objects /\ IsFiniteSet(objects)
  <2> DEFINE f == [r \in Early |-> Properties(r)]
  <2>1. Early \subseteq Results /\ IsFiniteSet(Early)
    BY HistoryAssumption
  <2>2. f \in Surjection(Early, {Properties(r) : r \in Early})
    BY DEF Surjection
  <2> HIDE DEF f
  <2>3. IsFiniteSet({Properties(r) : r \in Early})
    BY <2>1, <2>2, FS_Surjection
  <2> QED
    BY <2>1, <2>3, FS_EmptySet DEF Init, Objects
<1>3. Types
  BY <1>1, <1>2 DEF Init, Types
<1>4. \A c \in Callers : FeedInv(c)
  BY <1>1 DEF Init, FeedInv
<1> QED
  BY <1>1, <1>3, <1>4 DEF IInv

\* An investigation stores its record while callers are paging.
LEMMA InsertKeeps ==
    ASSUME IInv, NEW r \in Results, Insert(r)
    PROVE  IInv'
<1>1. /\ objects' \in SUBSET Objects /\ IsFiniteSet(objects') /\ objects \subseteq objects'
      /\ UNCHANGED <<configured, fed, lateFed>>
  BY FS_AddElement DEF Insert, IInv, Types, Objects
<1>2. ASSUME NEW c \in Callers
      PROVE  /\ rpc'[c] \in Bare \cup Lists \cup Feedbacks /\ rpc'[c].kind = rpc[c].kind
             /\ rpc[c].kind = "list" => rpc'[c] = [rpc[c] EXCEPT !.still = FALSE]
             /\ rpc[c].kind # "list" => rpc'[c] = rpc[c]
  <2>1. CASE rpc[c].kind = "list"
    <3>1. rpc[c] \in Lists
      BY <2>1, Shape DEF IInv
    <3>2. rpc'[c] = [rpc[c] EXCEPT !.still = FALSE]
      BY <2>1 DEF Insert
    <3> QED
      BY <2>1, <3>1, <3>2 DEF Lists
  <2>2. CASE rpc[c].kind # "list"
    BY <2>2 DEF Insert, IInv, Types
  <2> QED
    BY <2>1, <2>2
<1>3. rpc' \in [Callers -> Bare \cup Lists \cup Feedbacks]
  BY <1>2 DEF Insert
<1>4. Types'
  BY <1>1, <1>3 DEF IInv, Types
<1>5. ASSUME NEW c \in Callers, rpc'[c].kind \in {"list", "listed"} PROVE ListInv(rpc[c])'
  <2>1. rpc[c] \in Lists /\ ListInv(rpc[c]) /\ rpc'[c].kind = rpc[c].kind
    BY <1>2, <1>5, Shape DEF IInv
  <2>2. PICK x, y : x = rpc[c] /\ y = rpc'[c]
    OBVIOUS
  <2>3. /\ y.q = x.q /\ y.then = x.then /\ y.token = x.token /\ y.listed = x.listed
        /\ y.still => x.still /\ x.kind = "listed"
    <3>1. CASE rpc[c].kind = "list"
      BY <1>2, <2>1, <2>2, <3>1 DEF Lists
    <3>2. CASE rpc[c].kind # "list"
      BY <1>2, <2>1, <2>2, <3>2, <1>5
    <3> QED
      BY <3>1, <3>2
  <2>4. ListInv(y)'
    BY <1>1, <2>1, <2>2, <2>3, MoreObjects
  <2> QED
    BY <2>2, <2>4
<1>6. ASSUME NEW c \in Callers PROVE FeedInv(c)'
  <2>1. CASE rpc[c].kind = "list"
    <3>1. rpc'[c].kind = "list"
      BY <1>2, <2>1
    <3> QED
      BY <1>1, <2>1, <3>1 DEF IInv, FeedInv
  <2>2. CASE rpc[c].kind # "list"
    BY <1>1, <1>2, <2>2 DEF IInv, FeedInv
  <2> QED
    BY <2>1, <2>2
<1> QED
  BY <1>4, <1>5, <1>6 DEF IInv

\* A caller begins to list; it counts the records that are there as its due.
LEMMA StartKeeps ==
    ASSUME IInv, NEW c \in Callers, NEW q \in Queries, NEW token \in {NoValue, -1},
           ListStart(c, q, token)
    PROVE  IInv'
<1> DEFINE z == [kind |-> "list", q |-> q, token |-> token, listed |-> <<>>,
                 then |-> Stored, still |-> TRUE, odd |-> FALSE]
<1>1. z \in Lists
  BY DEF Lists, Tokens, Stored
<1>2. /\ rpc[c].kind = "idle" /\ rpc' = [rpc EXCEPT ![c] = z]
      /\ UNCHANGED <<configured, objects, fed, lateFed>>
  BY DEF ListStart, Become, world
<1>3. /\ z.kind = "list" /\ z.then = Stored /\ z.listed = <<>> /\ z.q = q /\ z.token = token
  OBVIOUS
<1> HIDE DEF z
<1>4. Offset(token) = 0 /\ Len(z.listed) = 0
  BY <1>3, HistoryAssumption DEF Offset
<1>5. \A r \in Stored : Properties(r) \in objects
  <2> SUFFICES ASSUME NEW r \in Results, NEW o \in objects, o.id = r.id PROVE Properties(r) \in objects
      BY DEF Stored
  <2>1. o \in Objects
    BY DEF IInv, Types
  <2> QED
    BY <2>1, ObjectOf
<1>6. \A r \in Stored : Place(Properties(r), Found(q)) \in Nat
  BY PlacesGrow, FS_Subset DEF IInv, Types, Found
<1>7. ListInv(z)
  <2>1. ListedWasFound(z) /\ StillInPlace(z)
    BY <1>3, <1>4 DEF ListedWasFound, StillInPlace, AtItsPlaces
  <2>2. NothingMissed(z)
    BY <1>3, <1>4, <1>5, <1>6 DEF NothingMissed
  <2>3. InOrder(z.listed)
    BY <1>4 DEF InOrder
  <2>4. Backed(z)
    <3>1. IsFiniteSet(Found(q))
      BY FS_Subset DEF IInv, Types, Found
    <3>2. Cardinality(Found(q)) \in Nat
      BY <3>1, FS_CardinalityType
    <3>3. Limit(q.size) \in Nat /\ token # 0
      BY LimitsAndOffsets, HistoryAssumption
    <3>4. 0 = 0 * Limit(q.size)
      BY <3>3
    <3> QED
      BY <1>3, <1>4, <3>2, <3>3, <3>4 DEF Backed
  <2> QED
    BY <2>1, <2>2, <2>3, <2>4 DEF ListInv
<1>8. FeedInv(c)'
  BY <1>2, <1>3 DEF IInv, Types, FeedInv
<1> QED
  BY <1>1, <1>2, <1>7, <1>8, OneCall DEF IInv, Types

\* A page is answered.
LEMMA PageKeeps ==
    ASSUME IInv, NEW c \in Callers, ListPage(c)
    PROVE  IInv'
<1>1. PICK x : x = rpc[c]
  OBVIOUS
<1>2. x \in Lists /\ x.kind = "list" /\ ListInv(x) /\ objects \in SUBSET Objects /\ IsFiniteSet(objects)
  BY <1>1, Shape DEF ListPage, IInv, Types
<1>3. PICK page, next : /\ page = Page(x.q, x.token)
                        /\ next = NextToken(x.token, Len(page), Limit(x.q.size))
  OBVIOUS
<1> DEFINE y == [x EXCEPT !.kind = IF next = NoValue THEN "listed" ELSE "list",
                          !.token = next, !.listed = x.listed \o page, !.odd = ~x.odd]
<1>4. rpc' = [rpc EXCEPT ![c] = y] /\ UNCHANGED <<configured, objects, fed, lateFed>>
  BY <1>1, <1>3 DEF ListPage, Become, world
<1>5. /\ y.q = x.q /\ y.then = x.then /\ y.still = x.still /\ y.token = next
      /\ y.listed = x.listed \o page /\ y.kind = IF next = NoValue THEN "listed" ELSE "list"
  BY <1>2 DEF Lists
<1>6. next \in Tokens /\ y.listed \in Seq(Nat) /\ ListInv(y)
  <2> HIDE DEF y
  <2> QED
    BY <1>2, <1>3, <1>5, PageAdded
<1>7. y \in Lists
  BY <1>2, <1>5, <1>6 DEF Lists
<1> HIDE DEF y
<1>8. FeedInv(c)'
  BY <1>1, <1>2, <1>4, <1>5 DEF IInv, Types, FeedInv
<1> QED
  BY <1>4, <1>6, <1>7, <1>8, OneCall DEF IInv, Types

\* A list that ends without an answer of Weaviate is dropped.
LEMMA EndKeeps ==
    ASSUME IInv, NEW c \in Callers, NEW z \in Bare, rpc[c].kind \in {"list", "idle"},
           Become(c, z), UNCHANGED world
    PROVE  IInv'
<1>1. rpc' = [rpc EXCEPT ![c] = z] /\ UNCHANGED <<configured, objects, fed, lateFed>>
  BY DEF Become, world
<1>2. z.kind \notin {"list", "listed", "post", "accepted", "failed"}
  BY DEF Bare
<1>3. FeedInv(c)'
  BY <1>1, <1>2 DEF IInv, Types, FeedInv
<1> QED
  BY <1>1, <1>2, <1>3, OneCall DEF IInv, Types

\* A feedback is submitted, stored, refused or submitted again.
LEMMA FeedbackKeeps ==
    ASSUME IInv, NEW c \in Callers,
           \/ \E named \in BOOLEAN : FeedbackStart(c, named)
           \/ FeedbackStored(c)
           \/ \E sent \in BOOLEAN : FeedbackFail(c, sent)
           \/ FeedbackRetry(c)
    PROVE  IInv'
<1>1. fed \in [Callers -> Nat] /\ lateFed \in [Callers -> Nat] /\ configured \in BOOLEAN
      /\ rpc \in [Callers -> Bare \cup Lists \cup Feedbacks] /\ FeedInv(c)
  BY DEF IInv, Types
<1>2. ASSUME NEW named \in BOOLEAN, FeedbackStart(c, named) PROVE IInv'
  <2>1. CASE ~named
    BY <1>2, <2>1, EndKeeps DEF FeedbackStart, Bare
  <2>2. CASE named
    <3> DEFINE z == [kind |-> IF configured THEN "post" ELSE "accepted", tries |-> 1]
    <3>1. rpc[c].kind = "idle" /\ rpc' = [rpc EXCEPT ![c] = z] /\ UNCHANGED <<configured, objects, fed, lateFed>>
      BY <1>2, <2>2 DEF FeedbackStart, Become, world
    <3>2. z \in Feedbacks /\ z.tries = 1 /\ z.kind = IF configured THEN "post" ELSE "accepted"
      BY DEF Feedbacks
    <3> HIDE DEF z
    <3>3. FeedInv(c)'
      BY <1>1, <3>1, <3>2 DEF FeedInv
    <3> QED
      BY <1>1, <3>1, <3>2, <3>3, OneCall
  <2> QED
    BY <2>1, <2>2
<1>3. ASSUME FeedbackStored(c) PROVE IInv'
  <2> DEFINE z == [rpc[c] EXCEPT !.kind = "accepted"]
  <2>1. rpc[c] \in Feedbacks /\ rpc[c].kind = "post"
    BY <1>3, Shape DEF FeedbackStored, IInv
  <2>2. z \in Feedbacks /\ z.kind = "accepted" /\ z.tries = rpc[c].tries /\ z.tries \in Nat
    BY <2>1 DEF Feedbacks
  <2>3. /\ rpc' = [rpc EXCEPT ![c] = z] /\ UNCHANGED <<configured, objects, lateFed>>
        /\ fed' = [fed EXCEPT ![c] = fed[c] + 1]
    BY <1>3 DEF FeedbackStored, Become
  <2> HIDE DEF z
  <2>4. FeedInv(c)'
    BY <1>1, <2>1, <2>2, <2>3 DEF FeedInv
  <2>5. fed' \in [Callers -> Nat] /\ \A d \in Callers : d # c => fed'[d] = fed[d]
    BY <1>1, <2>3
  <2> QED
    BY <1>1, <2>2, <2>3, <2>4, <2>5, OneCall
<1>4. ASSUME NEW sent \in BOOLEAN, FeedbackFail(c, sent) PROVE IInv'
  <2> DEFINE z == [rpc[c] EXCEPT !.kind = "failed"]
  <2>1. rpc[c] \in Feedbacks /\ rpc[c].kind = "post"
    BY <1>4, Shape DEF FeedbackFail, IInv
  <2>2. z \in Feedbacks /\ z.kind = "failed" /\ z.tries = rpc[c].tries /\ z.tries \in Nat
    BY <2>1 DEF Feedbacks
  <2>3. /\ rpc' = [rpc EXCEPT ![c] = z] /\ UNCHANGED <<configured, objects, fed>>
        /\ lateFed' = [lateFed EXCEPT ![c] = IF sent THEN lateFed[c] + 1 ELSE lateFed[c]]
    BY <1>4 DEF FeedbackFail, Become
  <2> HIDE DEF z
  <2>4. FeedInv(c)'
    BY <1>1, <2>1, <2>2, <2>3 DEF FeedInv
  <2>5. lateFed' \in [Callers -> Nat] /\ \A d \in Callers : d # c => lateFed'[d] = lateFed[d]
    BY <1>1, <2>3
  <2> QED
    BY <1>1, <2>2, <2>3, <2>4, <2>5, OneCall
<1>5. ASSUME FeedbackRetry(c) PROVE IInv'
  <2> DEFINE z == [rpc[c] EXCEPT !.kind = "post", !.tries = rpc[c].tries + 1]
  <2>1. rpc[c] \in Feedbacks /\ rpc[c].kind = "failed" /\ rpc[c].tries \in Nat
    BY <1>5, Shape DEF FeedbackRetry, IInv, Feedbacks
  <2>2. z \in Feedbacks /\ z.kind = "post" /\ z.tries = rpc[c].tries + 1
    <3>1. PICK n \in Nat \ {0} : n = rpc[c].tries + 1
      BY <2>1
    <3>2. z = [rpc[c] EXCEPT !.kind = "post", !.tries = n]
      BY <3>1
    <3> QED
      BY <2>1, <3>1, <3>2 DEF Feedbacks
  <2>3. rpc' = [rpc EXCEPT ![c] = z] /\ UNCHANGED <<configured, objects, fed, lateFed>>
    BY <1>5 DEF FeedbackRetry, Become, world
  <2> HIDE DEF z
  <2>4. FeedInv(c)'
    BY <1>1, <2>1, <2>2, <2>3 DEF FeedInv
  <2> QED
    BY <1>1, <2>2, <2>3, <2>4, OneCall
<1> QED
  BY <1>2, <1>3, <1>4, <1>5

\* A post the service gave up on is applied.
LEMMA LateKeeps ==
    ASSUME IInv, NEW c \in Callers, LateFeedback(c)
    PROVE  IInv'
<1>1. /\ fed \in [Callers -> Nat] /\ lateFed \in [Callers -> Nat] /\ lateFed[c] > 0
      /\ rpc \in [Callers -> Bare \cup Lists \cup Feedbacks] /\ FeedInv(c)
  BY DEF IInv, Types, LateFeedback
<1>2. /\ lateFed' = [lateFed EXCEPT ![c] = lateFed[c] - 1] /\ fed' = [fed EXCEPT ![c] = fed[c] + 1]
      /\ UNCHANGED <<configured, objects, rpc>>
  BY DEF LateFeedback
<1>3. FeedInv(c)'
  BY <1>1, <1>2 DEF FeedInv
<1>4. rpc' = [rpc EXCEPT ![c] = rpc[c]]
  BY <1>1, <1>2
<1>5. /\ fed' \in [Callers -> Nat] /\ lateFed' \in [Callers -> Nat]
      /\ \A d \in Callers : d # c => fed'[d] = fed[d] /\ lateFed'[d] = lateFed[d]
  BY <1>1, <1>2
<1>6. /\ rpc[c] \in Bare \cup Lists \cup Feedbacks
      /\ rpc[c].kind \in {"list", "listed"} => ListInv(rpc[c])
  BY <1>1 DEF IInv
<1> QED
  BY <1>2, <1>3, <1>4, <1>5, <1>6, OneCall

\* Every step keeps the invariant.
LEMMA StepIInv == IInv /\ [Next]_vars => IInv'
<1> SUFFICES ASSUME IInv, [Next]_vars PROVE IInv'
    OBVIOUS
<1>1. ASSUME NEW c \in Callers, NEW q \in Queries, NEW token \in {NoValue, -1}, ListStart(c, q, token)
      PROVE  IInv'
  BY <1>1, StartKeeps
<1>2. ASSUME NEW c \in Callers, ListPage(c) PROVE IInv'
  BY <1>2, PageKeeps
<1>3. ASSUME NEW c \in Callers, ListMadeUp(c) \/ ListRefused(c) \/ ListError(c) PROVE IInv'
  <2>1. \A k \in {"madeUp", "refused", "internal"} : [kind |-> k] \in Bare
    BY DEF Bare
  <2>2. rpc[c].kind = "list" /\ UNCHANGED world
    BY <1>3 DEF ListMadeUp, ListRefused, ListError
  <2>3. \E k \in {"madeUp", "refused", "internal"} : Become(c, [kind |-> k])
    BY <1>3 DEF ListMadeUp, ListRefused, ListError
  <2> QED
    BY <2>1, <2>2, <2>3, EndKeeps
<1>4. ASSUME NEW c \in Callers,
             \/ \E named \in BOOLEAN : FeedbackStart(c, named)
             \/ FeedbackStored(c)
             \/ \E sent \in BOOLEAN : FeedbackFail(c, sent)
             \/ FeedbackRetry(c)
      PROVE  IInv'
  BY <1>4, FeedbackKeeps
<1>5. ASSUME NEW c \in Callers, LateFeedback(c) PROVE IInv'
  BY <1>5, LateKeeps
<1>6. ASSUME NEW r \in Results, Insert(r) PROVE IInv'
  BY <1>6, InsertKeeps
<1>7. CASE UNCHANGED vars
  <2>1. ASSUME NEW c \in Callers, rpc'[c].kind \in {"list", "listed"} PROVE ListInv(rpc[c])'
    <3>1. PICK x : x = rpc[c] /\ x = rpc'[c]
      BY <1>7 DEF vars
    <3>2. ListInv(x)'
      BY <1>7, <2>1, <3>1, SameObjects DEF vars, IInv
    <3> QED
      BY <3>1, <3>2
  <2>2. Types' /\ \A c \in Callers : FeedInv(c)'
    BY <1>7 DEF vars, IInv, Types, FeedInv
  <2> QED
    BY <2>1, <2>2 DEF IInv
<1> QED
  BY <1>1, <1>2, <1>3, <1>4, <1>5, <1>6, <1>7 DEF Next, Step

\* The inductive invariant holds of every behaviour.
LEMMA IInvHolds == Spec => []IInv
BY InitIInv, StepIInv, PTL DEF Spec

-----------------------------------------------------------------------------
(* The theorems *)

\* What a caller asked for passes the query's filter, although the window and the
\* stored times lose their fractions of a second.
LEMMA AskedIsSelected ==
    ASSUME NEW q \in Queries, NEW r \in Results, Asked(q, r)
    PROVE  Where(q, Properties(r))
<1>1. r.at \in Nat /\ {q.start, q.end} \subseteq Nat \cup {NoValue}
  BY HistoryAssumption
<1>2. /\ Properties(r).tenant = r.tenant /\ Properties(r).services = r.services
      /\ Properties(r).createdAt = Second(r.at)
  BY DEF Properties
<1>3. q.start # NoValue => Second(r.at) >= Second(q.start)
  BY <1>1, SecondsOrder, WithinSecond DEF Asked
<1>4. q.end # NoValue => Second(r.at) <= Second(q.end)
  BY <1>1, SecondsOrder, WithinSecond DEF Asked
<1> QED
  BY <1>2, <1>3, <1>4 DEF Asked, Where

\* What passes the filter was asked for, up to a second.
LEMMA SelectedIsNearlyAsked ==
    ASSUME NEW q \in Queries, NEW r \in Results, Where(q, Properties(r))
    PROVE  /\ r.tenant = q.tenant
           /\ q.service # NoService => q.service \in r.services
           /\ q.start # NoValue => r.at > q.start - TicksPerSecond
           /\ q.end # NoValue => r.at < q.end + TicksPerSecond
<1>1. /\ r.at \in Nat /\ {q.start, q.end} \subseteq Nat \cup {NoValue}
      /\ TicksPerSecond \in Nat
  BY HistoryAssumption
<1>2. /\ Properties(r).tenant = r.tenant /\ Properties(r).services = r.services
      /\ Properties(r).createdAt = Second(r.at)
  BY DEF Properties
<1>3. ASSUME q.start # NoValue PROVE r.at > q.start - TicksPerSecond
  <2>1. q.start \in Nat /\ Second(q.start) <= Second(r.at)
    BY <1>1, <1>2, <1>3, WithinSecond DEF Where
  <2>2. q.start < r.at + TicksPerSecond
    BY <1>1, <2>1, SecondsOrder
  <2> QED
    BY <1>1, <2>1, <2>2
<1>4. ASSUME q.end # NoValue PROVE r.at < q.end + TicksPerSecond
  <2>1. q.end \in Nat /\ Second(r.at) <= Second(q.end)
    BY <1>1, <1>2, <1>4 DEF Where
  <2> QED
    BY <1>1, <2>1, SecondsOrder
<1> QED
  BY <1>2, <1>3, <1>4 DEF Where

\* However many records are stored while a caller follows its page tokens, and
\* whatever the page size and the resolution of the times, it misses no record
\* that was there when it began.
THEOREM NothingIsMissed == Spec => []PagingMissesNothing
<1>1. IInv => PagingMissesNothing
  <2> SUFFICES ASSUME IInv, NEW c \in Callers, rpc[c].kind = "listed",
                      NEW r \in rpc[c].then, Asked(rpc[c].q, r)
               PROVE  r \in Records(c)
      BY DEF PagingMissesNothing
  <2>1. rpc[c] \in Lists /\ NothingMissed(rpc[c])
    BY Shape DEF IInv, ListInv
  <2>2. rpc[c].q \in Queries /\ r \in Results
    BY <2>1 DEF Lists
  <2>3. r.id \in Range(rpc[c].listed)
    BY <2>1, <2>2, AskedIsSelected DEF NothingMissed
  <2> QED
    BY <2>2, <2>3 DEF Records
<1> QED
  BY <1>1, IInvHolds, PTL

\* Every listed record is stored, is of the tenant and the service asked for, and is
\* less than a second outside of the window.
THEOREM ListsWhatWasAsked == Spec => []ListedAsAsked
<1>1. IInv => ListedAsAsked
  <2> SUFFICES ASSUME IInv, NEW c \in Callers, rpc[c].kind \in {"list", "listed"},
                      NEW r \in Results, r.id \in Range(rpc[c].listed)
               PROVE  /\ r \in Stored
                      /\ r.tenant = rpc[c].q.tenant
                      /\ rpc[c].q.service # NoService => rpc[c].q.service \in r.services
                      /\ rpc[c].q.start # NoValue => r.at > rpc[c].q.start - TicksPerSecond
                      /\ rpc[c].q.end # NoValue => r.at < rpc[c].q.end + TicksPerSecond
      BY DEF ListedAsAsked, Records
  <2>1. rpc[c] \in Lists /\ ListedWasFound(rpc[c])
    BY Shape DEF IInv, ListInv
  <2>2. rpc[c].q \in Queries /\ rpc[c].listed \in Seq(Nat)
    BY <2>1 DEF Lists
  <2>3. PICK i \in 1..Len(rpc[c].listed) : r.id = rpc[c].listed[i]
    BY <2>2, RangeEquality
  <2>4. PICK o \in Found(rpc[c].q) : o.id = r.id
    BY <2>1, <2>3 DEF ListedWasFound
  <2>5. o \in objects /\ Where(rpc[c].q, o) /\ o \in Objects
    BY <2>4 DEF Found, IInv, Types
  <2>6. o = Properties(r)
    BY <2>4, <2>5, ObjectOf
  <2> QED
    BY <2>2, <2>4, <2>5, <2>6, SelectedIsNearlyAsked DEF Stored
<1> QED
  BY <1>1, IInvHolds, PTL

\* While no record is stored, the pages of every caller continue each other in the
\* query's order and repeat nothing.
THEOREM PagesAreOneList == Spec => []PagesContinue
<1>1. IInv => PagesContinue
  <2> SUFFICES ASSUME IInv, NEW c \in Callers, rpc[c].kind \in {"list", "listed"}, rpc[c].still
               PROVE  \A i, j \in DOMAIN rpc[c].listed : i < j =>
                        \A r, s \in Results : r.id = rpc[c].listed[i] /\ s.id = rpc[c].listed[j] =>
                            r # s /\ Second(r.at) >= Second(s.at)
      BY DEF PagesContinue
  <2>1. rpc[c] \in Lists /\ InOrder(rpc[c].listed)
    BY Shape DEF IInv, ListInv
  <2>2. DOMAIN rpc[c].listed = 1..Len(rpc[c].listed)
    BY <2>1, LenProperties DEF Lists
  <2> QED
    BY <2>1, <2>2 DEF InOrder
<1> QED
  BY <1>1, IInvHolds, PTL

\* Whatever the page size, and however many records are stored meanwhile, a caller is
\* given a token only after whole pages, all of which are in the store.
THEOREM PagesAreInStore == Spec => []PagesAreBacked
<1>1. IInv => PagesAreBacked
  <2> SUFFICES ASSUME IInv, NEW c \in Callers, rpc[c].kind = "list", rpc[c].token \in Nat
               PROVE  /\ rpc[c].token = Len(rpc[c].listed)
                      /\ \E n \in 1..rpc[c].token : rpc[c].token = n * Limit(rpc[c].q.size)
                      /\ rpc[c].token <= Cardinality(Found(rpc[c].q))
      BY DEF PagesAreBacked
  <2> DEFINE token == rpc[c].token
             limit == Limit(rpc[c].q.size)
  <2>1. rpc[c] \in Lists /\ Backed(rpc[c])
    BY Shape DEF IInv, ListInv
  <2>2. limit \in Nat \ {0}
    BY <2>1, LimitsAndOffsets DEF Lists
  <2>3. Offset(token) = token /\ token # 0
    BY <2>1 DEF Backed, Offset
  <2>4. PICK n \in Nat : token = n * limit
    BY <2>1, <2>3 DEF Backed
  <2> HIDE DEF token, limit
  <2>5. n # 0
    BY <2>2, <2>3, <2>4
  <2>6. n <= n * limit
    <3>1. n * (limit - 1) >= 0 /\ n * (limit - 1) = n * limit - n
      BY <2>2
    <3> QED
      BY <2>2, <3>1
  <2>7. n \in 1..token
    BY <2>2, <2>4, <2>5, <2>6
  <2> QED
    BY <2>1, <2>3, <2>4, <2>7 DEF Backed, token, limit
<1> QED
  BY <1>1, IInvHolds, PTL

\* With any number of retries and late posts, an acknowledged feedback is stored and
\* none is stored more often than it was submitted.
THEOREM FeedbackIsAccounted == Spec => []FeedbackAccounted
<1>1. IInv => FeedbackAccounted
  <2> SUFFICES ASSUME IInv, NEW c \in Callers
               PROVE  /\ rpc[c].kind = "accepted" /\ configured => fed[c] > 0
                      /\ fed[c] + lateFed[c] <= IF "tries" \in DOMAIN rpc[c] THEN rpc[c].tries ELSE 0
      BY DEF FeedbackAccounted
  <2>1. FeedInv(c) /\ fed[c] \in Nat /\ lateFed[c] \in Nat
    BY DEF IInv, Types
  <2>2. CASE rpc[c] \in Feedbacks
    <3>1. "tries" \in DOMAIN rpc[c] /\ rpc[c].tries \in Nat /\ rpc[c].kind \in {"post", "accepted", "failed"}
      BY <2>2 DEF Feedbacks
    <3> QED
      BY <2>1, <3>1 DEF FeedInv
  <2>3. CASE rpc[c] \notin Feedbacks
    <3>1. CASE rpc[c] \in Bare
      BY <3>1, <2>1 DEF Bare, FeedInv
    <3>2. CASE rpc[c] \in Lists
      BY <3>2, <2>1 DEF Lists, FeedInv
    <3> QED
      BY <2>3, <3>1, <3>2 DEF IInv, Types
  <2> QED
    BY <2>2, <2>3
<1> QED
  BY <1>1, IInvHolds, PTL

=============================================================================
