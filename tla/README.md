# A TLA+ development for mirador-rca

mirador-rca is a gRPC service that investigates incidents: it fetches a service
graph, metrics, logs and traces from mirador-core, finds anomalies in them,
derives a root cause and advice, and keeps the result in Weaviate. This
directory holds TLA+ modules of its core, TLC configurations that check them on
small instances, and TLAPS proofs. `PROJECT.json` lists for every definition the
source lines it stands for, and for every property a fault that breaks it.

    tlc -workers 2 -config Investigation_isolation.cfg MCInvestigation
    tlapm InvestigationProofs.tla

## 1. The system

| Component | State | Operations | Hard about it |
|---|---|---|---|
| RCA service (`internal/services`) | latency window, outcome counters | InvestigateIncident, ListCorrelations, GetPatterns, SubmitFeedback, HealthCheck | one goroutine per RPC, cancellation, early returns |
| Pipeline (`internal/engine/pipeline.go`) | none between calls | FetchSignals, Analyze, PersistResult | up to ten outgoing calls, each may fail or hang; mandatory and optional steps |
| Causality engine (`internal/engine/causality.go`) | none | Evaluate | order of edges, zero times, case of names |
| Rule engine (`internal/engine/recommend.go`) | rules loaded once | Recommend | asked before the timeline is complete |
| Extractors (`internal/extractors`) | none | Detect | thresholds, deviation zero, rounding |
| mirador-core client (`internal/repo/mirador_core.go`) | entries in the shared cache | four fetches | cache fills that race, empty answers |
| Weaviate repository (`internal/repo/weaviate_repo.go`) | entries in the shared cache, objects in Weaviate | SimilarIncidents, StoreCorrelation, ListCorrelations, FetchPatterns, StorePatterns, StoreFeedback | synthetic fallbacks, late writes, paging while others insert |
| Valkey provider (`internal/cache/valkey.go`) | none; one connection per attempt | Get, Set, SetNX, Del | retry of what may have been done, late replies |
| Latency tracker (`internal/utils/latency.go`) | bounded window | Observe, Count, Percentile | three locked calls that are not one |
| Metrics (`internal/metrics`) | counters | ObserveInvestigation | none |
| Server and process (`internal/api/server.go`, `cmd/rca-engine`) | listener, two servers, signal context | Start, Shutdown | failures before main waits, graceful stop against its timeout |
| Pattern miner (`internal/patterns`) | patterns in Weaviate | Mine | order of maps, posts that fail half-way |
| Configuration (`internal/config`) | read once | Load | precedence of file and environment |
| Models, generated code, mock-core, charts | none | none | none |

A gRPC handler calls the pipeline, the pipeline calls the two clients, and both
clients use one cache provider. RPCs share the cache, Weaviate, the latency
window and the counters, and nothing else; they meet there only. Every outgoing
call carries the RPC's context, so it fails at once when the caller has gone,
and each client has a timeout of its own.

What makes it correct: tenants' data stay apart although cache and store are
shared; a request has one answer and at most one record, none if it failed;
cached data has a bounded age; made-up data does not spread through the cache;
the counters agree with the answers; every call and every request ends;
timeline, anchors, root cause and advice are what the anomalies justify; a
caller that pages through the history misses nothing; what is stored is a
leading part of what was mined; the process ends in order when it is told to
or when one of its servers fails.

## 2. The modules

| Module | Models | Extends |
|---|---|---|
| `Investigation` | InvestigateIncident from handler to clients, several RPCs at once | |
| `RcaContract` | what InvestigateIncident promises | |
| `InvestigationProofs` | the theorems about `Investigation` | `Investigation` |
| `LatencyTracker` | the window and its use by concurrent handlers | |
| `Analysis` | anchors, timeline, confidence, causality, rules, root cause, topology of Pipeline.Analyze | |
| `AnalysisProofs` | the theorems about `Analysis` | `Analysis`, `LoopsAndSorts` |
| `ValkeyProvider` | the cache commands over an unreliable network | |
| `ValkeyProviderProofs` | the theorems about `ValkeyProvider` | `ValkeyProvider` |
| `Extractors` | the three anomaly detectors | |
| `StatisticsProofs` | the theorems about `LatencyTracker` and `Extractors` | `LatencyTracker`, `Extractors`, `LoopsAndSorts` |
| `History` | ListCorrelations and SubmitFeedback while records are stored | |
| `HistoryProofs` | the theorems about `History` | `History` |
| `Patterns` | the mining job, StorePatterns, and GetPatterns with its cache | |
| `PatternsProofs` | the theorems about `Patterns` | `Patterns`, `LoopsAndSorts` |
| `Lifecycle` | configuration, start-up, servers, signals, shutdown | |
| `LifecycleProofs` | the theorems about `Lifecycle` | `Lifecycle` |
| `LoopsAndSorts` | lemmas on induction, loops and sorted lists, without any code | |
| `MC...` | values for TLC (`MCStatistics`: of the tracker and of the detectors) | the module named |

A definition whose comment starts with "Fault:" is a plausible bug in the
definition below it; no specification uses it.

### Investigation

One action is one call that leaves the process together with the local code up
to the next such call; RPCs interleave between actions. `pc[r]` names the next
call of RPC `r`:

    graphGet -> graphFetch -> graphSet -> metrics -> logs -> traces
      -> simGet -> simQuery -> simSet -> analyze -> persist -> observe -> ok
    (a failed mandatory fetch leads to) error -> internal

* `GraphHit`, `GraphMiss`, `GraphAnswer`, `GraphFail`, `GraphSet` are
  FetchServiceGraph and FetchSignals' treatment of its error. `GraphSet` caches
  the edges first and turns an empty list into an error afterwards, as the code
  does. `GraphMiss` is always possible: an entry may be absent or unreadable,
  the provider may fail, be the no-op one, or the time to live may be 0.
* `FetchSignal` is any of the three mandatory fetches through postJSON.
* `SimHit` to `SimSet` are SimilarIncidents. `SimFail` gives synthetic incidents
  and no error. An answer without records is not cached; Weaviate reports a
  refused query in the body of a 200 answer, which decodes to no records, so
  `SimEmpty` is possible whatever the store holds. With an empty Weaviate
  endpoint the code takes the path `SimMiss`, `SimFail`, `PersistFail` without
  sending anything.
* `Analyze` keeps of the result its author, tenant, correlation id (the clock)
  and the origin of its advice. `Analysis` has the rest.
* `Persist`, `PersistTimeout`, `PersistFail` are StoreCorrelation under
  PersistResult, which only warns. After a timeout the record is in `inflight`
  and `LateStore` may still apply it, after the answer too.
* `Cancel` ends the context at any moment; from then on no call of the RPC
  reaches its peer (`Reaches`), but its code goes on to its answer.
* `Tick` advances the clock while no call is older than `CallTimeout`.

The data is what the properties tell apart: a graph is its tenant, whether it
has edges and when it was answered; advice is where and for which tenant it was
first written, which a result inherits from the incident it recalls. This is how
advice travels from record to cache to result to record, and what
`TenantIsolation` follows. Only the first of the three recalled incidents is
kept, because the pipeline uses no other.

Assumptions about what is not under `src/`: a cache Set that acts at all acts
within `CallTimeout` of the answer it caches; Weaviate refuses a second object
with one id in one tenant; records present at start-up carry their own tenant's
advice. Tenant ids and symptoms do not contain the separators of the cache keys
(`:`, `|`); the service-graph key needs no such assumption, as its last two
fields are numbers. Nor do tenant ids, service ids and symptoms contain quotes or
backslashes: they are written into the text of a GraphQL query as they are
(`weaviate_repo.go:224`, `774-787`), and the models of `Investigation`, `History`
and `Patterns` let a query ask for what its parameters say.

### RcaContract

A request is idle, running, closing, or answered ("ok", "internal", "invalid");
its record is none, sent or kept. One attempt to keep the record is made on the
way from running to closing, so a request that fails leaves no record, not even
a late one. `Investigation` refines it with `ContractStatus` and
`ContractRecord`.

### LatencyTracker

A handler's `Observe`, `Count` and `LogP95` are three actions, because each
locks for itself. `Push` is the append with the shift by one. `observed` is a
history variable. The rank of a percentile is floor(p(n-1)/100); it equals the
floating-point expression of the code for p in {5, 50, 95} and every n up to
1024 (computed for all of them).

### Analysis

Sequential code, checked over all inputs up to a bound. Times are half seconds
(the code adds or subtracts 500 ms), 0 is Go's zero time. sort.Slice is not
stable, so `Orders` gives every result it may return and `Busiest` every choice of
edges the sort by call rate may put first; the stable sort of the anchors gives
one. The loops of Evaluate, appendUnique and Recommend are functions of the round.
`Fold` folds case: the causality engine compares names with
strings.EqualFold, topology and neighbours compare them exactly. Confidence is
counted in 6000ths, so that the weights of the code are integers; the anomalies of
an input come in the order of the code, metrics before logs before traces, and a
trace anomaly may have a negative score, because spans with an error are kept
whatever they took.

`Recommend` is fetchRecommendations: advice of a recalled incident (where it
comes from is `Investigation`'s subject), else of the rules, else the default.
The causality engine judges by the timeline that buildTimeline has cut to
`EventLimit` events. `OverrideHasEvidence` looks at the finished answer and at all
anomalies instead (`TellsAgainst`), so it says what the cut may cost: an upstream
whose anomalies are later than all of a full timeline is taken for silent.

`Matches` has the three conditions of a rule; a selector is the set of keywords
it contains, which depends on the kind of the anomaly only (`Mentions`). The
rules see the timeline as buildTimeline left it; what they say is answered with
a timeline that has the causality and topology events as well, and with more
affected services. `AdviceHasEvidence` compares the advice with the answer.

### Extractors

One detector runs on one input and gives the indices it reports. The code works
with float64; all samples here are integers and each comparison of a z-score or
of a quotient is multiplied out, so it is exact. Rounding can decide only when a
score equals its threshold and when the mean of a flat series is not exactly its
value; the variable `round` is that choice. `Median` is the middle one of the
sorted values, stated by how many are below it and not above it. `AlarmsAreRare`
is the one-sided Chebyshev (Cantelli) bound that the z-score obeys whatever the
data.

### ValkeyProvider

Every attempt of every call has a connection of its own (`Conn`). A written
command may be executed, refused or lost at any later time, even after its
connection was closed; a reply reaches an open connection only. `Again` is the
test for another attempt: timeouts are retried, error replies and broken
connections are not. `seen` and `applied` are history variables: the values the
key had during a call, and the answers the server gave to its executions.

### History

Callers of ListCorrelations go on with the tokens they are given until there is
none; every request to Weaviate is one action (`ListPage`), and `Insert` (the
effect of an investigation's StoreCorrelation) may happen between two. Weaviate
keeps a set of objects (`objects`); the query's sort clause gives each of those
found its place (`Place`, latest second first, equal seconds in an order of
its own), and a page is a range of places. Times are
in ticks of which `TicksPerSecond` make a second: `Properties` and `Where` lose
the fraction as RFC 3339 formatting does. A query that fails gives one made-up
item and no token (`ListMadeUp`), one that Weaviate refuses in the body of a 200
answer decodes to an empty last page (`ListRefused`), and an answer that is no
JSON is an error (`ListError`). Feedback is one post without an id; a post that
timed out may still be applied (`LateFeedback`), and the caller may repeat a
failed one, so one feedback may be stored more than once, never more often than
it was submitted. `then`, `still` and `odd` in a call are history.

A full page has a successor whatever the store holds beyond it, so with a page size
of one and one newer record stored before each request the offset and the list grow
together and the service gives tokens for ever. That paging ends is therefore
stated under `ArrivalsStop`; that tokens never run ahead of the store, so that
nothing but arrivals can prolong the paging, is the safety property
`PagesAreBacked`.

### Patterns

`Mine` is the miner's loop over a set of correlations of one tenant: `Tally` is
one round, `Tops` every result topSelectors may give (the map's order and the
unstable sort leave ties open), `Rankings` every order the patterns may come out
in. StorePatterns then posts them one by one (`PostPattern`), stops at a failure
(`PostFail`, `PostTimeout`), and a post it gave up on may be applied later
(`LatePattern`). Nothing in the repository calls NewMiner, so the job runs at any
time and is given any correlations; the affected services of a stored
correlation are distinct and not empty, because Analyze makes them so. `Mine`
itself does not look: given a correlation that lists a service twice it would count
it twice, and `PrevalenceIsShare` says nothing of that. `Fetch...`
are the steps of GetPatterns. `from`, `round` and `rank` of a pattern and `asOf`
of a list are history.

### Lifecycle

`main` is the next step of the main goroutine; `serve`, `metrics` and `drain` are
the other three, `timer` the deadline of the shutdown's context. `Load` merges
defaults, file and environment for the settings main branches on. A failed server
calls `stop`, which ends the context and gives the signals their default effect
back; a signal that NotifyContext handles only ends the context. gRPC,
net/http and os/signal are external and modelled as main uses them: Serve after
a stop returns an error, GracefulStop waits for the calls in progress, Stop cuts
them off, ListenAndServe returns ErrServerClosed after Shutdown even if it comes
late. Calls already on a connection may still be taken during a drain. Handlers
may take for ever.

## 3. The runs

| Run | Result | Shows |
|---|---|---|
| `investigation_isolation` | pass | `TenantIsolation`, `CachedIncidentsAreStored`, `CountersMatchAnswers`, `CancelledSendsNothing`, and that the RPC implements `RcaContract` |
| `investigation_progress` | pass | `GraphIsFresh`, `EveryRequestAnswered` |
| `empty_graph` | violation | an empty graph is an error once, then a cached success |
| `statistics` | pass | `WindowIsLatest`, `LabelNeverExceedsWindow`, `PercentileIsOrderStatistic` of the tracker, `AlarmsAreRare`, `SpikesAreFound` of the detectors |
| `latency_cadence` | violation | a full window ends the p95 log lines |
| `analysis_results` | pass | `ChronologicalTimeline`, `EarliestEventsKept`, `AnchorsAreStrongest`, `OverrideHasEvidence`, `SuggestionIsStrongest`, `CausalityRaisesConfidence`, `AdviceHasEvidence` |
| `analysis_chronology` | violation | two spellings of a name leave the timeline unsorted |
| `analysis_first_rule` | violation | every matching rule is heard, not the first one |
| `valkey` | pass | `GetIsCurrent`, `SuccessWasExecuted`, `EveryCallReturns` |
| `history` | pass | `PagingMissesNothing`, `ListedAsAsked`, `PagesContinue`, `FeedbackAccounted`, `PagesAreBacked`, `EveryCallEnds` |
| `patterns` | pass | `PatternsStoredInOrder`, `PrevalenceIsShare`, `SelectorsAreMostFrequent`, `CachedPatternsAreStored`, `CachedPatternsAreFresh` |
| `lifecycle` | pass | `GraceIsRespected`, `NothingServedAfterShutdown`, `ShutdownCompletes` |

The violations are disagreements between code and documents; `PROJECT.json`
quotes both sides under "findings".

Bounds. Two RPCs are the writer and the reader of a cache entry, or two writers;
with two tenants they also try to reach each other's data. The isolation run has
a clock of two values and a store with and without advice; advice passes through
a record, the cache and a second result. The progress run has a time to live of
1, a timeout of 1 and a clock of four values: an entry is filled late, read just
before it ends, and seen to end. In the statistics run the tracker and the
detectors share no state, so a behaviour moves one of them. The latency window of 4
with batches of 2 fills and overflows; the cadence run uses 5 and 2 for 1024 and 20, keeping that the
capacity is no multiple of the batch. Three anomalies exceed the limits of two
anchors and two events (5 and 10 in the code), and two related edges exceed the
limit of one topology event (2 in the code). The edges from one upstream differ in
call rate and in error rate, so that each comparison of the loop decides in some
input, and two anomalies of the root can push the upstream's off the timeline. The four rules ask for each
condition alone and together and repeat each other's advice. Two callers with two
attempts of one call each, or one with two calls, give every overlap of a late
Valkey command with a later one. The history has six records of two tenants, two
of them in one second and two stored while callers page, with pages of one, two
and three, the page sizes 0 and 4 being out of bounds. Two rounds of the mining
job meet a service and a selector limit that is exceeded, with two callers per
cache entry and a time to live that ends. Two calls are in progress when the
process is told to stop, or arrive while it drains. Metric series have up to nine
values, so that the default threshold of 2.5, which needs eight, can be reached.
`MaxTime`, `MaxObserved`, `MaxCalls`, `MaxRounds`, `MaxTries`, `MaxAnomalies` and
`MaxEdges` exist for TLC only; the proofs hold for all values of them.

Deadlock is not checked: a finite set of RPCs or calls is used up in every run,
the process ends, and Analyze and the detectors end. Symmetry permutes RPCs,
handlers or callers, never in a run of a liveness property.

Fairness. `FairSpec` of `Investigation` is weak fairness of each goroutine's
step: the Go scheduler runs every runnable goroutine, and each outgoing call
ends, because http.Client has a timeout and each Valkey attempt has deadlines.
The configured timeouts are assumed to be positive:
NewMiradorCoreClient does not force it (`mirador_core.go:73`), and an http.Client
with a timeout of 0 waits for ever. Nothing is assumed of the peers, of `LateStore`
or of the clock. `FairSpec` of
`ValkeyProvider` and of `History` is the same for each caller; a caller of
ListCorrelations that is given a token is assumed to use it, and its paging to end
only if records stop arriving. `FairSpec` of
`Lifecycle` is weak fairness of main, of the goroutines that enter Serve and
GracefulStop, of the latter's return when no call is in progress, and of the
grace period; nothing is assumed of the handlers, the listeners or the signals.

Observed while modelling, without a run of its own:

* FetchSignals only warns when the service graph is missing, so an investigation
  succeeds without one (`pipeline.go:127`); the repository's README.md:10 and
  indicent-analysis.md:25 say it fails.
* After a failed recall the advice is that of made-up incidents, not of the rules
  (`weaviate_repo.go:259`); indicent-analysis.md:57 names the rules.
* A rule that asks for the severity "error", as in the default pack, never matches:
  severities are low, medium, high, critical.
* A silent upstream with errors replaces the root cause too (`causality.go:53`),
  where indicent-analysis.md:52 asks for one that consistently precedes the
  symptoms. Its event has no time to start from: 500 ms before Go's zero time, in
  the year 0 (`pipeline.go:183`). With evidence of both kinds against
  different upstreams the order of the edges decides.
* A failed page of ListCorrelations ends the paging with one made-up item, and a
  refused query looks like an empty last page: the caller cannot tell either from
  the end. A record stored between two pages makes the caller see one twice.
* Without an endpoint, the default, feedback is acknowledged and not stored.
* A pattern's id is made of its service, so a second run of the job is refused at
  the first service that has a pattern, and the rest is not stored.
  buildPatternProperties writes `threshold` where FetchPatterns asks for
  `thresholds`.
* A drop in log volume is reported as a spike: the score has no sign.
* After a server has failed, `stop` has restored the signals, so that a SIGTERM
  during the drain kills the process; its exit code is 0 in the end. The health
  service answers SERVING throughout the drain.

## 4. The proofs

`InvestigationProofs` holds for all sets of RPCs, tenants, windows and symptoms,
all initial stores and all times to live and timeouts. From
`ConstantAssumption` (numbers are naturals, `NoValue` is no value) and
`SeedAssumption` it proves `Spec => []IInv`, where

* `Frames` says what a handler's frame holds at each step; without it a step
  could use a graph or an incident that is not there;
* `OwnData` is `TenantIsolation` extended to both caches, the store and the
  records in flight: the data of a hit comes from another RPC's fill, so the
  isolation of frames alone is not inductive;
* `Ages` bounds the expiry of a cached graph by its answer's time plus
  `CallTimeout` plus `GraphTTL`, and the age of a graph about to be cached, which
  the clock cannot break because `Tick` waits for calls to end;
* `Recalled` adds to `CachedIncidentsAreStored` that an incident on its way to
  the cache is in the store, which only grows;
* `OwnRecords` ties a record to an author that is past `persist`, and allows one
  record in flight per author; it is what the refinement needs.

One lemma per part goes through all actions. From `IInv` follow `TypeCorrect`,
`Isolation`, `Freshness` and `CacheProvenance`. `Accounting` adds the finiteness
of the sets of answered RPCs to count by cardinality, so it holds for infinite
sets of RPCs too. `NothingAfterCancel` is an action property. `Refinement` maps
each step to a step of `RcaContract` or to a stutter; `QuietStep` handles all
that neither begins, ends nor persists.

`StatisticsProofs` proves of the latency tracker `TypeOK`, `WindowIsLatest` and
`LabelNeverExceedsWindow` for every capacity, a non-positive argument included.
Their conjunction is inductive; `PushFacts` says what the shift does.
`PercentileCorrect` holds for windows of every length; `SortedFacts` counts the
samples below and not above the k-th of the sorted ones.

Of the detectors it proves both invariants for inputs of any length, any values
and any threshold, whichever way a tie is rounded. `SumRuns` turns the fold in `Sum`
into partial sums, so that sums can be combined (`SumLinear`) and compared
(`SumMonotone`), and the sum of a list of ones and zeros counts (`SumOfMarks`).
`RarityCorrect` rests on `FewAreFar`, Cantelli's rule in whole numbers: the squares
of n e d + Q, summed over all distances d from the mean, are at least their part
over those that are e or more. `FarEnough` goes from there to the threshold,
`NoSpread` has the flat series; `FewAreOff` and `FewAreHigh` are the two bounds for
log entries, and `MedianFacts` that there is a median. The bound for log entries is
coarse: it limits how many are reported, and leaves the factor 1.3 of the
second test and the rounding of its product free within that. `SpikesCorrect` computes mean
and variance of a series of two levels (`TwoLevelSum`, `SpikeProducts`). The
inductive invariant of both, `DetectInv`, only says that the result is what the
detector reports of its input: the difficulty is in the arithmetic.

`LoopsAndSorts` has what the sequential code needs. `Induction` is induction over
0..n with the property given as a set of numbers (from the well-foundedness of <);
`LoopRuns` derives from it that a loop over n items has a value after each round,
which makes the recursive functions of the models what they are meant to be, and
`FoldRuns` the same of a fold over a finite set.
`CanBeSorted` shows that a finite list has a stable sorted order, by counting for
each index those that belong to its left, so the sorts of the code have results;
`SortsOnto` that sorting loses nothing; `SortedCounts` how many items are below and
not above the k-th.

`AnalysisProofs` holds for any number of anomalies, edges and rules, any names and
any limits. Each part of Analyze has a lemma: `EvaluateFacts` carries `Judged`
through the causality loop (the best edge supports the verdict, it is set as soon
as one does, and it is the strongest while all of them are of one kind; a mixed
history makes no claim, as the two comparisons of the code then disagree);
`RuleAdviceFacts` carries `Heard` through the rule pack, on `AppendUniqueFacts`;
`TimelineFacts` and `AnchorFacts` count what sorting puts first; `TopologyFacts`
says that appendTopologyEvents keeps every event and sorts if it adds one;
`ConfidenceFacts` and `ScoreFacts` bound the confidence by the arithmetic of the
code. `EvidenceSurvivesCut` says that an edge which supports the verdict by the cut
timeline tells against its source by all anomalies: `TimelineSorts` and `FirstEvent`
give the earliest of a name's events on it, and for a name without one a full
timeline of anomalies that are no later than any of its own. `AnalysisInv` ties the
stages together: a verdict that replaces the root cause is one of those edges
(`SoundVerdict`) and stays so until the answer has it (`NamedRootCause`), only the event of a
suggestion is out of order (`SortedUnlessSuggested`), and advice that matched
before the answer was complete stays borne out while it grows (`MatchedAdvice`,
`BorneOutAdvice`). All seven invariants of the run follow from it.

`LifecycleProofs` holds for any set of calls and every interleaving of the four
goroutines. `GraceIsRespected` is not inductive: `Phases` says how far the
servers can have got at each step of main (nothing serves before Server.Start is
spawned, a returned Shutdown leaves a stopped server whichever case of its select
was taken), and `Quiescent` that a server which is new or stopped runs no
handler, which is what lets the process end without cutting one off.
`ShutdownIsFinal`, an action property, follows from the same invariant.

`ValkeyProviderProofs` holds for any number of callers, calls, retries and
values. A Get could be wrong only by taking a reply that is not its own or one
that was true before it began; so `Numbered` separates the connections of a
caller's latest call from older ones, `WireIsCall` says they carry its command,
`SeesPresent` that a call in progress has seen what the key holds now, and
`RepliesTrue` that every reply on its way to the call, whichever attempt asked
for it, is one the server gave during the call.

`PatternsProofs` proves of the store that every pattern in Weaviate, next in the
queue or posted by a call that gave up comes right after a stored one
(`InOrder`), which needs that the queue goes through one ranking without a gap
(`QueueIsRun`); and of GetPatterns, for any time to live and timeout, that an
entry and every call on its way to fill it hold stored patterns of their key,
with ages that the clock cannot break (`CallInv`, `EntryInv`).
`TopsAreMostFrequent` is about topSelectors alone: whatever order the map and the
unstable sort give, nothing left out is more frequent than what is kept.
`PrevalenceCorrect` and `SelectorsCorrect` compare what was mined with the
correlations themselves: `StatsSeen` shows that the tally, a fold that takes them in
an order of its own, has counted each service, anchor and selector as often as it
occurs once all are in. `MinedInv` keeps this for as long as the job holds its
result. They hold for any finite set of correlations, which is what a slice is.

`HistoryProofs` holds for any finite or growing history, any page size and any
number of callers. `Places` shows that the objects found stand at the places 0 to
n - 1, each at one; `PlacesGrow` that a record stored meanwhile moves no other one
forward. So the offset of a caller only ever falls behind: the invariant
(`NothingMissed`) is that everything found when it began and not listed yet stands
at or after its token. A page shorter than the limit then ends the list, and
`PagingMissesNothing` follows; the rounding of times to seconds is in `Where` and
`SecondsOrder`. `StillInPlace` ties the listed items to their places while nothing
is stored, for `PagesContinue`, and `Backed` says of a caller that goes on what
`PagesAreBacked` does, which a growing store cannot break.

The assumptions are those named in the modules: parameters that are numbers in
the code are numbers, the special values are no ordinary ones, only the empty name
is empty in lower case (`Analysis`), ids of results are unique, and the services of the mining job (`Patterns`) and the records present at
start (`History`) are finite in number.

Every invariant and every action property that a run checks is stated by a
theorem. Only model-checked: `EveryRequestAnswered`, `EveryCallReturns`,
`EveryCallEnds` and `ShutdownCompletes`, liveness under fairness, which is out of the
prover's reach.

## 5. What is not modelled

Generated gRPC code and the mock of mirador-core, charts and scripts carry no
logic of their own. The conversions of internal/api that neither refuse nor
default anything, the latency histogram, and the settings that are only passed on
(addresses, paths, credentials, timeouts; an environment value that does not parse
is ignored) are left out. So are formatting, JSON, URLs and logging, except where
a property depends on them: the seconds of a stored time, the separators of the
cache keys (an assumption), the case of names. Average anchor scores and the
signal type of a mined pattern reach no decision. HealthCheck answers a constant.

## 6. State

All components of the table are modelled and checked, and proved: `Investigation`
with its refinement of `RcaContract`, `LatencyTracker`, `Extractors`, `Lifecycle`,
`ValkeyProvider`, `History`, `Analysis` and `Patterns`. Hazards without a property
are in `PROJECT.json` with the reason.
