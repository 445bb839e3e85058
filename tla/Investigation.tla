---------------------------- MODULE Investigation ----------------------------
(***************************************************************************)
(* The InvestigateIncident RPC of mirador-rca, from the gRPC handler       *)
(* (internal/services/rca_service.go) through the pipeline                 *)
(* (internal/engine/pipeline.go) to its two clients: MiradorCoreClient     *)
(* (internal/repo/mirador_core.go) with the service-graph cache and        *)
(* WeaviateRepo (internal/repo/weaviate_repo.go) with the                  *)
(* similar-incidents cache.  gRPC runs every RPC in a goroutine of its     *)
(* own, so the steps of several RPCs interleave around the shared cache    *)
(* and the shared Weaviate store.                                          *)
(*                                                                         *)
(* One action is one call that leaves the process (a cache command, an     *)
(* HTTP request) together with the local code up to the next such call.    *)
(* Data is abstracted: a service graph is whether it has edges, whose it   *)
(* is and when mirador-core answered it; recommendations are where they    *)
(* came from and for which tenant they were first written.                 *)
(***************************************************************************)
EXTENDS Integers, FiniteSets

CONSTANTS
    Rpcs,          \* the RPCs that may run (goroutines of the gRPC server)
    Tenants,       \* tenant ids
    Windows,       \* (start, end) pairs of a request, in whole seconds
    Symptoms,      \* symptom lists of a request, up to their order
    Seed,          \* correlation records already in Weaviate at start-up
    GraphTTL,      \* serviceGraphTTL of MiradorCoreClient; 0 disables it
    SimilarTTL,    \* similarTTL of WeaviateRepo; 0 disables it
    CallTimeout,   \* longest time of an outgoing call, or until a cache Set acts
    MaxTime,       \* bound on the clock (model checking only)
    NoValue        \* an absent value (nil slice, error, cache miss)

Nobody == "nobody"  \* the author of a record no investigation wrote

\* Where a recommendation list was first produced.
Origins == {"none", "curated", "synthetic", "rules"}
Recs == [origin : Origins, tenant : Tenants]

Times == Nat
Requests == [tenant : Tenants, window : Windows, symptoms : Symptoms,
             valid : BOOLEAN]

\* An answer of mirador-core's service-graph endpoint.
Graphs == [tenant : Tenants, edges : BOOLEAN, at : Times]

\* A CorrelationRecord, as stored and as recalled.
Records == [by : Rpcs \cup {Nobody}, tenant : Tenants, id : Times, recs : Recs]

GraphKeys == Tenants \X Windows
SimKeys == Tenants \X Symptoms

\* A value the shared cache holds until its time to live has elapsed.
GraphEntries == [val : Graphs, exp : Times]
SimEntries == [val : Records, exp : Times]

ASSUME ConstantAssumption ==
    /\ NoValue \notin Requests \cup Graphs \cup Records \cup GraphEntries \cup SimEntries
    /\ Nobody \notin Rpcs
    /\ GraphTTL \in Nat
    /\ SimilarTTL \in Nat
    /\ CallTimeout \in Nat
    /\ MaxTime \in Nat

\* What Weaviate holds before the service writes is of its own tenant.
ASSUME SeedAssumption ==
    /\ Seed \subseteq Records
    /\ \A c \in Seed : c.by = Nobody /\ c.recs.tenant = c.tenant

Finished == {"ok", "internal", "invalid"}
Working == {"graphGet", "graphFetch", "graphSet", "metrics", "logs", "traces",
            "simGet", "simQuery", "simSet", "analyze", "persist", "observe",
            "error"}

VARIABLES
    now,         \* the clock
    pc,          \* pc[r]: the step RPC r is about to take, or how it ended
    req,         \* req[r]: the request
    since,       \* since[r]: when RPC r arrived at pc[r]
    graph,       \* graph[r]: what FetchServiceGraph gave, NoValue on error
    sim,         \* sim[r]: first incident of SimilarIncidents, NoValue if empty
    result,      \* result[r]: the CorrelationResult of Analyze
    cancelled,   \* RPCs whose context was cancelled or passed its deadline
    graphCache,  \* entries of FetchServiceGraph in the shared cache
    simCache,    \* entries of SimilarIncidents in the shared cache
    store,       \* CorrelationRecord objects in Weaviate
    inflight,    \* POSTed records the client gave up on, not yet applied
    total        \* the investigations counter, by outcome

vars == <<now, pc, req, since, graph, sim, result, cancelled, graphCache,
          simCache, store, inflight, total>>
env == <<cancelled, graphCache, simCache, store, inflight, total>>

Init ==
    /\ now = 1
    /\ pc = [r \in Rpcs |-> "idle"]
    /\ req = [r \in Rpcs |-> NoValue]
    /\ since = [r \in Rpcs |-> 1]
    /\ graph = [r \in Rpcs |-> NoValue]
    /\ sim = [r \in Rpcs |-> NoValue]
    /\ result = [r \in Rpcs |-> NoValue]
    /\ cancelled = {}
    /\ graphCache = [k \in GraphKeys |-> NoValue]
    /\ simCache = [k \in SimKeys |-> NoValue]
    /\ store = Seed
    /\ inflight = {}
    /\ total = [success |-> 0, error |-> 0]

Goto(r, label) ==
    /\ pc' = [pc EXCEPT ![r] = label]
    /\ since' = [since EXCEPT ![r] = now]

\* The handler returns: its frame is gone, only the answer's code is kept.
Return(r, code) ==
    /\ Goto(r, code)
    /\ graph' = [graph EXCEPT ![r] = NoValue]
    /\ sim' = [sim EXCEPT ![r] = NoValue]
    /\ result' = [result EXCEPT ![r] = NoValue]

\* A call with r's context reaches its peer.
Reaches(r) == r \notin cancelled

\* Valkey drops an entry once its time to live is over.
Live(entry) == entry # NoValue /\ now < entry.exp

\* Fault: the key forgets the tenant.
GraphKeyUnscoped(q) == <<CHOOSE t \in Tenants : TRUE, q.window>>

GraphKey(q) == <<q.tenant, q.window>>
SimKey(q) == <<q.tenant, q.symptoms>>

-----------------------------------------------------------------------------
(* The handler: RCAService.InvestigateIncident up to pipeline.Investigate *)

Receive(r, q) ==
    /\ pc[r] = "idle"
    /\ req' = [req EXCEPT ![r] = q]
    /\ Goto(r, IF q.valid THEN "graphGet" ELSE "invalid")
    /\ UNCHANGED <<now, graph, sim, result, env>>

-----------------------------------------------------------------------------
(* FetchSignals: the service graph, then metrics, logs and traces *)

\* cache.Get found the graph; it is returned as it is.
GraphHit(r) ==
    LET entry == graphCache[GraphKey(req[r])] IN
    /\ pc[r] = "graphGet"
    /\ GraphTTL > 0
    /\ Reaches(r)
    /\ Live(entry)
    /\ graph' = [graph EXCEPT ![r] = entry.val]
    /\ Goto(r, "metrics")
    /\ UNCHANGED <<now, req, sim, result, env>>

\* No live entry, the cache failed, or it is off: ask mirador-core.
GraphMiss(r) ==
    /\ pc[r] = "graphGet"
    /\ Goto(r, "graphFetch")
    /\ UNCHANGED <<now, req, graph, sim, result, env>>

\* mirador-core answers 200 with a list of edges, possibly empty.
GraphAnswer(r, edges) ==
    /\ pc[r] = "graphFetch"
    /\ Reaches(r)
    /\ graph' = [graph EXCEPT
                   ![r] = [tenant |-> req[r].tenant, edges |-> edges, at |-> now]]
    /\ Goto(r, "graphSet")
    /\ UNCHANGED <<now, req, sim, result, env>>

\* Fault: a failed request is tried again for ever.
GraphFailRetries(r) ==
    /\ pc[r] = "graphFetch"
    /\ Goto(r, "graphFetch")
    /\ UNCHANGED <<now, req, graph, sim, result, env>>

\* The request fails: FetchSignals warns and goes on without a graph.
GraphFail(r) ==
    /\ pc[r] = "graphFetch"
    /\ Goto(r, "metrics")
    /\ UNCHANGED <<now, req, graph, sim, result, env>>

\* Fault: the entry is set without a time to live.
GraphSetForever(r) ==
    /\ pc[r] = "graphSet"
    /\ graphCache' = [graphCache EXCEPT ![GraphKey(req[r])] =
                         [val |-> graph[r], exp |-> MaxTime + 1]]
    /\ graph' = [graph EXCEPT ![r] = IF @.edges THEN @ ELSE NoValue]
    /\ Goto(r, "metrics")
    /\ UNCHANGED <<now, req, sim, result, cancelled, simCache, store, inflight, total>>

\* Fault: the time to live is subtracted from the clock.
GraphSetBackwards(r) ==
    /\ pc[r] = "graphSet"
    /\ graphCache' = [graphCache EXCEPT ![GraphKey(req[r])] =
                         [val |-> graph[r], exp |-> now - GraphTTL]]
    /\ graph' = [graph EXCEPT ![r] = IF @.edges THEN @ ELSE NoValue]
    /\ Goto(r, "metrics")
    /\ UNCHANGED <<now, req, sim, result, cancelled, simCache, store, inflight, total>>

\* The edges are cached, an empty list too (an error of Set is ignored);
\* only then is an empty list turned into an error.
GraphSet(r) ==
    /\ pc[r] = "graphSet"
    /\ \/ /\ GraphTTL > 0
          /\ Reaches(r)
          /\ graphCache' = [graphCache EXCEPT ![GraphKey(req[r])] =
                              [val |-> graph[r], exp |-> now + GraphTTL]]
       \/ UNCHANGED graphCache
    /\ graph' = [graph EXCEPT ![r] = IF @.edges THEN @ ELSE NoValue]
    /\ Goto(r, "metrics")
    /\ UNCHANGED <<now, req, sim, result, cancelled, simCache, store, inflight, total>>

\* One of the three mandatory fetches: a non-empty answer goes on, an error,
\* a timeout, a bad status or an empty answer ends the investigation.
FetchSignal(r, step, next) ==
    /\ pc[r] = step
    /\ \/ Reaches(r) /\ Goto(r, next)
       \/ Goto(r, "error")
    /\ UNCHANGED <<now, req, graph, sim, result, env>>

FetchMetricSeries(r) == FetchSignal(r, "metrics", "logs")
FetchLogEntries(r) == FetchSignal(r, "logs", "traces")
FetchTraceSpans(r) == FetchSignal(r, "traces", "simGet")

-----------------------------------------------------------------------------
(* Analyze: SimilarIncidents, the recommendations and the result *)

SimHit(r) ==
    LET entry == simCache[SimKey(req[r])] IN
    /\ pc[r] = "simGet"
    /\ SimilarTTL > 0
    /\ Reaches(r)
    /\ Live(entry)
    /\ sim' = [sim EXCEPT ![r] = entry.val]
    /\ Goto(r, "analyze")
    /\ UNCHANGED <<now, req, graph, result, env>>

SimMiss(r) ==
    /\ pc[r] = "simGet"
    /\ Goto(r, "simQuery")
    /\ UNCHANGED <<now, req, graph, sim, result, env>>

\* The query filters on the tenant alone and asks for no order.
Recall(tenant) == {c \in store : c.tenant = tenant}

\* Weaviate answers: any of the tenant's records may come first.
SimAnswer(r) ==
    /\ pc[r] = "simQuery"
    /\ Reaches(r)
    /\ \E c \in Recall(req[r].tenant) : sim' = [sim EXCEPT ![r] = c]
    /\ Goto(r, "simSet")
    /\ UNCHANGED <<now, req, graph, result, env>>

\* Weaviate answers 200 without records: the tenant has none, or the query is
\* refused in the body, which the code does not read.  This is not cached.
SimEmpty(r) ==
    /\ pc[r] = "simQuery"
    /\ Reaches(r)
    /\ Goto(r, "analyze")
    /\ UNCHANGED <<now, req, graph, sim, result, env>>

\* syntheticSimilarIncidents: made up for the request, with advice in it.
Synthetic(q) ==
    [by |-> Nobody, tenant |-> q.tenant, id |-> 0,
     recs |-> [origin |-> "synthetic", tenant |-> q.tenant]]

\* Fault: synthetic incidents take the path of a real answer.
SimFailCached(r) ==
    /\ pc[r] = "simQuery"
    /\ sim' = [sim EXCEPT ![r] = Synthetic(req[r])]
    /\ Goto(r, "simSet")
    /\ UNCHANGED <<now, req, graph, result, env>>

\* The query fails: synthetic incidents are returned, without an error.
SimFail(r) ==
    /\ pc[r] = "simQuery"
    /\ sim' = [sim EXCEPT ![r] = Synthetic(req[r])]
    /\ Goto(r, "analyze")
    /\ UNCHANGED <<now, req, graph, result, env>>

SimSet(r) ==
    /\ pc[r] = "simSet"
    /\ \/ /\ SimilarTTL > 0
          /\ Reaches(r)
          /\ simCache' = [simCache EXCEPT ![SimKey(req[r])] =
                            [val |-> sim[r], exp |-> now + SimilarTTL]]
       \/ UNCHANGED simCache
    /\ Goto(r, "analyze")
    /\ UNCHANGED <<now, req, graph, sim, result, cancelled, graphCache, store, inflight, total>>

\* fetchRecommendations: those of the first incident if there are any, else
\* the rule engine's or the two default ones.
Recommendations(q, incident) ==
    IF incident # NoValue /\ incident.recs.origin # "none"
    THEN incident.recs
    ELSE [origin |-> "rules", tenant |-> q.tenant]

\* The result carries the clock reading as its correlation id.
Analyze(r) ==
    /\ pc[r] = "analyze"
    /\ result' = [result EXCEPT ![r] =
                    [by |-> r, tenant |-> req[r].tenant, id |-> now,
                     recs |-> Recommendations(req[r], sim[r])]]
    /\ Goto(r, "persist")
    /\ UNCHANGED <<now, req, graph, sim, env>>

-----------------------------------------------------------------------------
(* PersistResult and the handler's tail *)

\* Weaviate refuses an object whose id the tenant's class already holds.
Accepts(c) == \A d \in store : d.tenant # c.tenant \/ d.id # c.id

\* The POST is applied before StoreCorrelation returns.
Persist(r) ==
    /\ pc[r] = "persist"
    /\ Reaches(r)
    /\ Accepts(result[r])
    /\ store' = store \cup {result[r]}
    /\ Goto(r, "observe")
    /\ UNCHANGED <<now, req, graph, sim, result, cancelled, graphCache, simCache, inflight, total>>

\* Fault: the POST does not use the request's context.
PersistTimeoutDetached(r) ==
    /\ pc[r] = "persist"
    /\ inflight' = inflight \cup {result[r]}
    /\ Goto(r, "observe")
    /\ UNCHANGED <<now, req, graph, sim, result, cancelled, graphCache, simCache, store, total>>

\* Fault: a store that times out fails the investigation.
PersistTimeoutFatal(r) ==
    /\ pc[r] = "persist"
    /\ Reaches(r)
    /\ inflight' = inflight \cup {result[r]}
    /\ Goto(r, "error")
    /\ UNCHANGED <<now, req, graph, sim, result, cancelled, graphCache, simCache, store, total>>

\* The client times out while the POST is still on its way.
PersistTimeout(r) ==
    /\ pc[r] = "persist"
    /\ Reaches(r)
    /\ inflight' = inflight \cup {result[r]}
    /\ Goto(r, "observe")
    /\ UNCHANGED <<now, req, graph, sim, result, cancelled, graphCache, simCache, store, total>>

\* The POST is refused or never sent; PersistResult only warns.
PersistFail(r) ==
    /\ pc[r] = "persist"
    /\ Goto(r, "observe")
    /\ UNCHANGED <<now, req, graph, sim, result, env>>

\* latencies.Observe, ObserveInvestigation(success), the answer.
ObserveSuccess(r) ==
    /\ pc[r] = "observe"
    /\ total' = [total EXCEPT !.success = @ + 1]
    /\ Return(r, "ok")
    /\ UNCHANGED <<now, req, cancelled, graphCache, simCache, store, inflight>>

\* Fault: the error path returns without counting.
ObserveErrorUncounted(r) ==
    /\ pc[r] = "error"
    /\ Return(r, "internal")
    /\ UNCHANGED <<now, req, env>>

\* ObserveInvestigation(error) and codes.Internal.
ObserveError(r) ==
    /\ pc[r] = "error"
    /\ total' = [total EXCEPT !.error = @ + 1]
    /\ Return(r, "internal")
    /\ UNCHANGED <<now, req, cancelled, graphCache, simCache, store, inflight>>

-----------------------------------------------------------------------------
(* The environment *)

\* The caller goes away or its deadline passes.
Cancel(r) ==
    /\ pc[r] \in Working
    /\ r \notin cancelled
    /\ cancelled' = cancelled \cup {r}
    /\ UNCHANGED <<now, pc, req, since, graph, sim, result, graphCache, simCache,
                   store, inflight, total>>

\* A POST the client gave up on reaches Weaviate after all.
LateStore(c) ==
    /\ c \in inflight
    /\ inflight' = inflight \ {c}
    /\ store' = IF Accepts(c) THEN store \cup {c} ELSE store
    /\ UNCHANGED <<now, pc, req, since, graph, sim, result, cancelled, graphCache,
                   simCache, total>>

\* Time passes, but never so much that a call outlasts its timeout.
Tick ==
    /\ now < MaxTime
    /\ \A r \in Rpcs : pc[r] \in Working => now - since[r] < CallTimeout
    /\ now' = now + 1
    /\ UNCHANGED <<pc, req, since, graph, sim, result, env>>

-----------------------------------------------------------------------------

\* One step of the goroutine that serves RPC r.
Step(r) ==
    \/ GraphHit(r) \/ GraphMiss(r)
    \/ \E edges \in BOOLEAN : GraphAnswer(r, edges)
    \/ GraphFail(r) \/ GraphSet(r)
    \/ FetchMetricSeries(r) \/ FetchLogEntries(r) \/ FetchTraceSpans(r)
    \/ SimHit(r) \/ SimMiss(r) \/ SimAnswer(r) \/ SimEmpty(r) \/ SimFail(r) \/ SimSet(r)
    \/ Analyze(r)
    \/ Persist(r) \/ PersistTimeout(r) \/ PersistFail(r)
    \/ ObserveSuccess(r) \/ ObserveError(r)

Next ==
    \/ \E r \in Rpcs : Step(r)
    \/ \E r \in Rpcs : \E q \in Requests : Receive(r, q)
    \/ \E r \in Rpcs : Cancel(r)
    \/ \E c \in inflight : LateStore(c)
    \/ Tick

Spec == Init /\ [][Next]_vars

\* Every outgoing call of an RPC ends, by an answer or by its timeout, and the
\* Go scheduler runs every goroutine that can run.
FairSpec == Spec /\ \A r \in Rpcs : WF_vars(Step(r))

-----------------------------------------------------------------------------
(* Properties *)

\* Every variable has its type; an RPC that is past a step has that step's data.
TypeOK ==
    /\ now \in Times
    /\ pc \in [Rpcs -> {"idle"} \cup Working \cup Finished]
    /\ req \in [Rpcs -> Requests \cup {NoValue}]
    /\ since \in [Rpcs -> Times]
    /\ graph \in [Rpcs -> Graphs \cup {NoValue}]
    /\ sim \in [Rpcs -> Records \cup {NoValue}]
    /\ result \in [Rpcs -> Records \cup {NoValue}]
    /\ cancelled \subseteq Rpcs
    /\ graphCache \in [GraphKeys -> GraphEntries \cup {NoValue}]
    /\ simCache \in [SimKeys -> SimEntries \cup {NoValue}]
    /\ store \subseteq Records
    /\ inflight \subseteq Records
    /\ total \in [success : Nat, error : Nat]

\* What an investigation works with is its own tenant's: the graph (fetched or
\* cached by whichever RPC), the recalled incident, and the advice in it, however
\* many investigations have passed that advice on through store and cache.
TenantIsolation ==
    \A r \in Rpcs :
        /\ graph[r] # NoValue => graph[r].tenant = req[r].tenant
        /\ sim[r] # NoValue => /\ sim[r].tenant = req[r].tenant
                               /\ sim[r].recs.tenant = req[r].tenant
        /\ result[r] # NoValue => /\ result[r].tenant = req[r].tenant
                                  /\ result[r].recs.tenant = req[r].tenant

\* The similar-incidents cache only ever holds an incident Weaviate has: the
\* synthetic ones SimilarIncidents makes up when the query fails stay out of it.
CachedIncidentsAreStored ==
    \A k \in SimKeys : simCache[k] # NoValue => simCache[k].val \in store

\* However the RPCs that fill and read the cache interleave, FetchSignals starts
\* with a graph mirador-core gave less than one time to live and one call ago
\* (an entry's age counts from the answer, not from the Set that follows it).
GraphIsFresh ==
    \A r \in Rpcs : pc[r] = "metrics" /\ graph[r] # NoValue /\ GraphTTL > 0 =>
        since[r] - graph[r].at < GraphTTL + CallTimeout

AnsweredWith(code) == {r \in Rpcs : pc[r] = code}

\* The investigations counter agrees with the answers given: a refused request
\* is counted nowhere, every other one once, under its outcome.
CountersMatchAnswers ==
    /\ total.success = Cardinality(AnsweredWith("ok"))
    /\ total.error = Cardinality(AnsweredWith("internal"))

RecordsBy(r) == {c \in store \cup inflight : c.by = r}

\* Once the caller has gone, its investigation sends no record any more; one
\* that had been sent may still be stored.
CancelledSendsNothing ==
    [][\A r \in cancelled : RecordsBy(r)' \subseteq RecordsBy(r)]_vars

\* Every accepted request is answered, although mirador-core, Weaviate and the
\* cache may fail and the caller may go away at any step.
EveryRequestAnswered ==
    \A r \in Rpcs : (pc[r] \in Working) ~> (pc[r] \in Finished)

-----------------------------------------------------------------------------
(* The contract InvestigateIncident implements *)

ContractStatus ==
    [r \in Rpcs |-> IF pc[r] \in {"idle"} \cup Finished THEN pc[r]
                    ELSE IF pc[r] = "observe" THEN "closing" ELSE "running"]
ContractRecord ==
    [r \in Rpcs |-> IF \E c \in store : c.by = r THEN "kept"
                    ELSE IF \E c \in inflight : c.by = r THEN "sent" ELSE "none"]

Contract == INSTANCE RcaContract WITH status <- ContractStatus, record <- ContractRecord

\* InvestigateIncident implements its contract: one answer per request, at most
\* one record, and none from an investigation that fails.
ImplementsContract == Contract!CSpec

-----------------------------------------------------------------------------
(* What a document says and the code does not do *)

\* "if any endpoint returns empty data, the investigation is rejected": an
\* empty graph is never what FetchServiceGraph returns without an error.
EmptyGraphIsAnError ==
    \A r \in Rpcs : pc[r] = "metrics" /\ graph[r] # NoValue => graph[r].edges

=============================================================================
