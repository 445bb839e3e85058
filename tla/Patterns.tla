------------------------------ MODULE Patterns ------------------------------
(***************************************************************************)
(* Failure patterns: the offline job that mines them                       *)
(* (internal/patterns/miner.go) and stores them, and GetPatterns with its  *)
(* cache (internal/services/rca_service.go and                             *)
(* internal/repo/weaviate_repo.go, StorePatterns and FetchPatterns).       *)
(*                                                                         *)
(* One action is one request to Weaviate or to the cache with the local    *)
(* code around it.  A pattern is its service, how often and when it was    *)
(* seen and its selectors; names, scores and texts are left out.           *)
(***************************************************************************)
EXTENDS Integers, Sequences, FiniteSets, FiniteSetsExt, SequencesExt

CONSTANTS
    Callers,       \* clients of GetPatterns
    Tenants,
    Services,      \* names of services, without the empty one
    Selectors,     \* selectors of anchors, without the empty one
    Records,       \* correlations the job may be given
    Asks,          \* tenant and service of the calls of GetPatterns
    TopSelectors,  \* anchor templates of a mined pattern (3)
    PatternTTL,    \* patternTTL of WeaviateRepo; 0 disables the cache
    CallTimeout,   \* longest time of an outgoing call, or until a Set acts
    MaxTime,       \* bound on the clock (model checking only)
    MaxRounds,     \* bound on the job's runs (model checking only)
    NoValue        \* no cache entry

NoService == ""    \* GetPatterns without a service: all of the tenant's
Keys == Tenants \X (Services \cup {NoService})

\* The affected services of a stored correlation are distinct and not empty; its
\* anchors may repeat a selector, and one without a selector is never counted.
ASSUME PatternsAssumption ==
    /\ \A o \in Records : /\ o.tenant \in Tenants /\ o.createdAt \in Nat
                          /\ o.services \subseteq Services
                          /\ o.anchors \in Seq(Services \X Selectors)
    /\ IsFiniteSet(Services)
    /\ Asks \subseteq Keys
    /\ TopSelectors \in Nat \ {0}
    /\ {PatternTTL, CallTimeout, MaxTime, MaxRounds} \subseteq Nat

VARIABLES
    configured,  \* whether WeaviateRepo has an endpoint
    patterns,    \* FailurePattern objects in Weaviate
    queue,       \* patterns StorePatterns has yet to post
    rounds,      \* how often the job has run
    late,        \* patterns posted by a call that gave up on them
    cache,       \* FetchPatterns' entries in the shared cache
    rpc,         \* rpc[c]: the call of caller c, and its answer
    now

vars == <<configured, patterns, queue, rounds, late, cache, rpc, now>>

Init ==
    /\ configured \in BOOLEAN
    /\ patterns = {}
    /\ queue = <<>>
    /\ rounds = 0
    /\ late = {}
    /\ cache = [k \in Keys |-> NoValue]
    /\ rpc = [c \in Callers |-> [kind |-> "idle"]]
    /\ now = 0

-----------------------------------------------------------------------------
(* Mine *)

\* How many anchors of a correlation are at this service and selector.
Anchored(o, s, x) == Cardinality({i \in DOMAIN o.anchors : o.anchors[i] = <<s, x>>})

\* A correlation that lists or anchors a service.
About(o, s) == s \in o.services \/ \E x \in Selectors : Anchored(o, s, x) > 0

Unseen == [count |-> 0, lastSeen |-> -1, hits |-> [x \in Selectors |-> 0]]

\* Fault: an anchor counts for its service as well.
TallyAnchors(o, stats) ==
    [s \in Services |->
       [count |-> stats[s].count + (IF s \in o.services THEN 1 ELSE 0)
                    + Cardinality({x \in Selectors : Anchored(o, s, x) > 0}),
        lastSeen |-> IF About(o, s) THEN Max({stats[s].lastSeen, o.createdAt})
                     ELSE stats[s].lastSeen,
        hits |-> [x \in Selectors |-> stats[s].hits[x] + Anchored(o, s, x)]]]

\* One correlation enters the aggregates: an affected service is counted, an
\* anchor's selector is counted for its service, and both have been seen.
Tally(o, stats) ==
    [s \in Services |->
       [count |-> stats[s].count + (IF s \in o.services THEN 1 ELSE 0),
        lastSeen |-> IF About(o, s) THEN Max({stats[s].lastSeen, o.createdAt})
                     ELSE stats[s].lastSeen,
        hits |-> [x \in Selectors |-> stats[s].hits[x] + Anchored(o, s, x)]]]

ServiceStats(input) == FoldSet(Tally, [s \in Services |-> Unseen], input)

\* Fault: the selectors are cut off before they are sorted.
TopsUnsorted(hits) ==
    LET used == {x \in Selectors : hits[x] > 0} IN
    {top \in SUBSET used : Cardinality(top) = Min({TopSelectors, Cardinality(used)})}

\* topSelectors: the first ones of any order by falling count (the map's order
\* and the sort leave the order of equal counts open).
Tops(hits) ==
    LET used == {x \in Selectors : hits[x] > 0} IN
    {{order[i] : i \in 1..Min({TopSelectors, Cardinality(used)})} :
        order \in {seq \in SetToSeqs(used) :
                      \A i, j \in DOMAIN seq : i < j => hits[seq[i]] >= hits[seq[j]]}}

\* Services with a pattern, most prevalent first; equally prevalent ones come in
\* any order.
Rankings(stats) ==
    {seq \in SetToSeqs({s \in Services : stats[s].count > 0}) :
        \A i, j \in DOMAIN seq : i < j => stats[seq[i]].count >= stats[seq[j]].count}

\* The job is given some correlations of a tenant, and StorePatterns the patterns
\* mined from them; without an endpoint it does nothing.  A pattern's id is made
\* of its service alone.  (from, round and rank are not stored: history.)
Mine(t, input) ==
    /\ queue = <<>> /\ rounds < MaxRounds
    /\ \E stats \in {ServiceStats(input)} :
       \E ranking \in Rankings(stats), top \in [Services -> SUBSET Selectors] :
          /\ \A s \in Services : top[s] \in Tops(stats[s].hits)
          /\ queue' = IF configured
                      THEN [i \in DOMAIN ranking |->
                              [tenant |-> t, service |-> ranking[i],
                               count |-> stats[ranking[i]].count, of |-> Cardinality(input),
                               lastSeen |-> stats[ranking[i]].lastSeen,
                               selectors |-> top[ranking[i]],
                               from |-> input, round |-> rounds + 1, rank |-> i]]
                      ELSE <<>>
    /\ rounds' = rounds + 1
    /\ UNCHANGED <<configured, patterns, late, cache, rpc, now>>

-----------------------------------------------------------------------------
(* StorePatterns *)

\* Weaviate refuses an object whose id the tenant already has.
Accepts(p) == ~ \E o \in patterns : o.tenant = p.tenant /\ o.service = p.service

PostPattern ==
    /\ queue # <<>>
    /\ Accepts(Head(queue))
    /\ patterns' = patterns \cup {Head(queue)}
    /\ queue' = Tail(queue)
    /\ UNCHANGED <<configured, rounds, late, cache, rpc, now>>

\* Fault: a failed post is skipped.
PostFailSkips ==
    /\ queue # <<>>
    /\ queue' = Tail(queue)
    /\ UNCHANGED <<configured, patterns, rounds, late, cache, rpc, now>>

\* The post fails or is refused: the rest is not posted, and Mine only warns.
PostFail ==
    /\ queue # <<>>
    /\ queue' = <<>>
    /\ UNCHANGED <<configured, patterns, rounds, late, cache, rpc, now>>

\* The post is not answered in time: a failure, but Weaviate may apply it yet.
PostTimeout ==
    /\ queue # <<>>
    /\ late' = late \cup {Head(queue)}
    /\ queue' = <<>>
    /\ UNCHANGED <<configured, patterns, rounds, cache, rpc, now>>

LatePattern(p) ==
    /\ p \in late
    /\ late' = late \ {p}
    /\ patterns' = IF Accepts(p) THEN patterns \cup {p} ELSE patterns
    /\ UNCHANGED <<configured, queue, rounds, cache, rpc, now>>

-----------------------------------------------------------------------------
(* GetPatterns: FetchPatterns and its cache *)

Become(c, call) == rpc' = [rpc EXCEPT ![c] = call]

\* The call goes on with its next step, or is answered ("done").
Goto(c, step) == Become(c, [rpc[c] EXCEPT !.kind = step, !.since = now])

PatternsKey(call) == <<call.tenant, call.service>>

\* Valkey drops an entry once its time to live is over.
Live(entry) == entry # NoValue /\ now < entry.exp

FetchStart(c, t, s) ==
    /\ rpc[c].kind = "idle"
    /\ Become(c, [kind |-> IF PatternTTL > 0 /\ configured THEN "get" ELSE "query",
                  tenant |-> t, service |-> s, since |-> now, list |-> {}, asOf |-> now])
    /\ UNCHANGED <<configured, patterns, queue, rounds, late, cache, now>>

FetchHit(c) ==
    /\ rpc[c].kind = "get"
    /\ LET entry == cache[PatternsKey(rpc[c])] IN
       /\ Live(entry)
       /\ Become(c, [rpc[c] EXCEPT !.kind = "done", !.since = now,
                                   !.list = entry.list, !.asOf = entry.asOf])
    /\ UNCHANGED <<configured, patterns, queue, rounds, late, cache, now>>

\* The key is absent, or the cache does not answer.
FetchMiss(c) ==
    /\ rpc[c].kind = "get"
    /\ Goto(c, "query")
    /\ UNCHANGED <<configured, patterns, queue, rounds, late, cache, now>>

\* optionalServiceOperand: an empty service asks for all of the tenant's.
Wanted(p, call) ==
    /\ p.tenant = call.tenant
    /\ call.service # NoService => call.service = p.service

\* Only a list with something in it is cached.
FetchAnswer(c) ==
    /\ rpc[c].kind = "query"
    /\ configured
    /\ \E list \in {{p \in patterns : Wanted(p, rpc[c])}} :
          Become(c, [rpc[c] EXCEPT !.kind = IF PatternTTL > 0 /\ list # {} THEN "set" ELSE "done",
                                   !.since = now, !.list = list, !.asOf = now])
    /\ UNCHANGED <<configured, patterns, queue, rounds, late, cache, now>>

\* Weaviate refuses the query in the body of its answer, which then has no list.
FetchRefused(c) ==
    /\ rpc[c].kind = "query"
    /\ configured
    /\ Goto(c, "done")
    /\ UNCHANGED <<configured, patterns, queue, rounds, late, cache, now>>

\* syntheticPatterns: the answer when the query fails or there is no endpoint.
SyntheticPatterns(call) == {[tenant |-> call.tenant, service |-> "synthetic"]}

\* Fault: the made-up list is cached as well.
FetchFailCached(c) ==
    /\ rpc[c].kind = "query"
    /\ Become(c, [rpc[c] EXCEPT !.kind = IF PatternTTL > 0 /\ configured THEN "set" ELSE "done",
                                !.since = now, !.list = SyntheticPatterns(rpc[c])])
    /\ UNCHANGED <<configured, patterns, queue, rounds, late, cache, now>>

FetchFail(c) ==
    /\ rpc[c].kind = "query"
    /\ Become(c, [rpc[c] EXCEPT !.kind = "done", !.since = now, !.list = SyntheticPatterns(rpc[c])])
    /\ UNCHANGED <<configured, patterns, queue, rounds, late, cache, now>>

\* Fault: a Set lengthens the life of the entry it replaces.
FetchSetExtends(c, acts) ==
    /\ rpc[c].kind = "set"
    /\ LET k == PatternsKey(rpc[c])
           from == IF Live(cache[k]) THEN cache[k].exp ELSE now
       IN cache' = [cache EXCEPT ![k] =
                     IF acts THEN [list |-> rpc[c].list, asOf |-> rpc[c].asOf,
                                   exp |-> from + PatternTTL] ELSE @]
    /\ Goto(c, "done")
    /\ UNCHANGED <<configured, patterns, queue, rounds, late, now>>

\* The Set may fail; its error is ignored.
FetchSet(c, acts) ==
    /\ rpc[c].kind = "set"
    /\ cache' = [cache EXCEPT ![PatternsKey(rpc[c])] =
                   IF acts THEN [list |-> rpc[c].list, asOf |-> rpc[c].asOf,
                                 exp |-> now + PatternTTL] ELSE @]
    /\ Goto(c, "done")
    /\ UNCHANGED <<configured, patterns, queue, rounds, late, now>>

Working == {"get", "query", "set"}

\* No step of a call takes longer than CallTimeout.
Tick ==
    /\ now < MaxTime
    /\ \A c \in Callers : rpc[c].kind \in Working => now - rpc[c].since < CallTimeout
    /\ now' = now + 1
    /\ UNCHANGED <<configured, patterns, queue, rounds, late, cache, rpc>>

-----------------------------------------------------------------------------

\* One step of the goroutine that serves caller c.
Step(c) ==
    \/ FetchHit(c) \/ FetchMiss(c) \/ FetchAnswer(c) \/ FetchRefused(c) \/ FetchFail(c)
    \/ \E acts \in BOOLEAN : FetchSet(c, acts)

Next ==
    \/ \E c \in Callers : Step(c) \/ \E k \in Asks : FetchStart(c, k[1], k[2])
    \/ \E t \in Tenants : \E input \in SUBSET {o \in Records : o.tenant = t} :
          input # {} /\ IsFiniteSet(input) /\ Mine(t, input)
    \/ PostPattern \/ PostFail \/ PostTimeout
    \/ \E p \in late : LatePattern(p)
    \/ Tick

Spec == Init /\ [][Next]_vars

-----------------------------------------------------------------------------
(* Properties *)

Mined == patterns \cup late \cup Range(queue)

\* StorePatterns posts the most prevalent pattern first and stops at the first
\* failure: whatever happens to its posts, and however late they are applied,
\* Weaviate holds a leading part of each mined list.
PatternsStoredInOrder ==
    \A p \in patterns : p.rank > 1 =>
        \E o \in patterns : /\ o.tenant = p.tenant /\ o.round = p.round
                            /\ o.rank = p.rank - 1 /\ o.count >= p.count

\* The prevalence of a pattern is the share of the correlations it was mined
\* from that list its service as affected, never more than all of them, and its
\* last sighting the newest one that lists or anchors the service.
PrevalenceIsShare ==
    \A p \in Mined :
        LET affecting == {o \in p.from : p.service \in o.services}
        IN /\ p.count = Cardinality(affecting) /\ p.count \in 1..p.of
           /\ p.of = Cardinality(p.from)
           /\ p.lastSeen = Max({o.createdAt : o \in {r \in p.from : About(r, p.service)}})

\* Whatever order the map gives, no selector left out of a pattern is more
\* frequent than one that is in it, and none is left out while there is room.
SelectorsAreMostFrequent ==
    \A p \in Mined :
        LET hits(x) == Cardinality(UNION {{<<o, i>> : i \in {j \in DOMAIN o.anchors :
                                              o.anchors[j] = <<p.service, x>>}} : o \in p.from})
            rest == {x \in Selectors : hits(x) > 0} \ p.selectors
        IN /\ \A x \in p.selectors, y \in rest : hits(x) >= hits(y)
           /\ rest # {} => Cardinality(p.selectors) = TopSelectors

\* What the patterns cache holds was stored for the tenant and the service of
\* its key, never the made-up pattern of a failed query; and no caller is given
\* another tenant's or another service's pattern, from the cache or not.
CachedPatternsAreStored ==
    /\ \A k \in Keys : cache[k] # NoValue =>
           \A p \in cache[k].list :
               p \in patterns /\ p.tenant = k[1] /\ (k[2] # NoService => p.service = k[2])
    /\ \A c \in Callers : rpc[c].kind = "done" =>
           \A p \in rpc[c].list \cap patterns : Wanted(p, rpc[c])

\* The job does not invalidate the cache; still, a live entry is a list that
\* Weaviate gave less than one time to live and one call ago, whichever callers
\* filled the entry in which order.
CachedPatternsAreFresh ==
    \A k \in Keys : Live(cache[k]) => now - cache[k].asOf < PatternTTL + CallTimeout

=============================================================================
