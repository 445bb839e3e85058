------------------------------ MODULE Analysis ------------------------------
(***************************************************************************)
(* Pipeline.Analyze (internal/engine/pipeline.go) with the causality       *)
(* engine (internal/engine/causality.go) and the rule engine               *)
(* (internal/engine/recommend.go): from the anomalies of the three         *)
(* extractors and the service graph to anchors, timeline, root cause and   *)
(* recommendations.                                                        *)
(* The code is sequential; the module checks it over all small inputs.     *)
(*                                                                         *)
(* Times are counted in half seconds, so that 500 ms is one unit; 0 is     *)
(* Go's zero time.  Rates are small integers: only their order and whether *)
(* they are zero matter.  Scores are integers, the base confidence and the *)
(* causality score are in 600ths and the confidence is in 6000ths, which   *)
(* makes the code's constants exact.  sort.Slice is not stable, so events  *)
(* of one time come out in any order.                                      *)
(***************************************************************************)
EXTENDS Integers, Sequences, SequencesExt, FiniteSetsExt

CONSTANTS
    Names,          \* service names, as spelled by mirador-core
    Fold,           \* Fold[n]: the name n in lower case
    Listed,         \* AffectedServices of the request, a sequence
    Symptoms,       \* Symptoms of the request, a sequence
    Anomalies,      \* [kind, time, service, score, error]; only traces have a
                    \* service and a status, which may be "error"
    Edges,          \* [source, target, calls, errors]
    Rules,          \* the rule pack, a sequence of
                    \* [service, severity, keywords, recommendations];
                    \* the code compares the middle two in lower case
    Mentions,       \* Mentions[k]: keywords in the selectors of anomalies of kind k
    Recalled,       \* recommendations of a similar incident
    MaxAnomalies,   \* bound on the number of anomalies (model checking only)
    MaxEdges,       \* bound on the number of edges (model checking only)
    AnchorLimit,    \* 5 in the code
    EventLimit,     \* 10 in the code
    TopologyLimit,  \* 2 in the code
    Now             \* time.Now() while Analyze runs

\* The service under investigation: the first one listed, else a symptom.
DetermineService(listed, symptoms) ==
    LET named == SelectSeq(listed, LAMBDA n : n # "")
    IN  IF named # <<>> THEN named[1]
        ELSE IF symptoms # <<>> /\ symptoms[1] # "" THEN symptoms[1]
        ELSE "unknown-service"

Root == DetermineService(Listed, Symptoms)

ASSUME AnalysisAssumption ==
    /\ Fold \in [Names \cup {""} -> Names \cup {""}]
    /\ \A n \in Names \cup {""} : Fold[n] = "" <=> n = ""
    /\ Root \in Names \ {""}
    /\ Listed \in Seq(Names \cup {""})
    /\ Now \in Nat
    /\ \A a \in Anomalies : a.kind \in {"metrics", "logs", "traces"}
    /\ \A a \in Anomalies : a.time \in 2..(Now - 2) /\ a.score \in Int
    /\ \A a \in Anomalies : a.kind = "traces" <=> a.service # ""
    /\ \A a \in Anomalies : a.kind = "traces" /\ a.score < 2 => a.error
    /\ Edges \subseteq [source : Names, target : Names, calls : Nat, errors : Nat]
    /\ Rules \in Seq([service : Names \cup {""}, severity : STRING,
                      keywords : SUBSET STRING, recommendations : Seq(STRING)])
    /\ Recalled # <<>>
    /\ {MaxAnomalies, MaxEdges, AnchorLimit, EventLimit, TopologyLimit} \subseteq Nat

ZeroTime == 0
NoEdge == [source |-> "", target |-> "", calls |-> 0, errors |-> 0]

VARIABLES
    stage,      \* how far Analyze is
    anomalies,  \* what the extractors found
    edges,      \* signals.ServiceGraph
    anchors,
    timeline,
    verdict,    \* CausalityResult: upstream and supporting edges, suggestion
    advice,     \* Recommendations and (history) where they are from
    affected,   \* AffectedServices
    rootCause,  \* the service RootCause names, and why
    confidence  \* the base confidence, calibrated in the end

vars == <<stage, anomalies, edges, anchors, timeline, verdict, advice, affected,
          rootCause, confidence>>

Kinds == <<"metrics", "logs", "traces">>

\* Analyze puts metric anomalies before log anomalies before trace anomalies.
InOrder(as) ==
    \A i, j \in DOMAIN as : i < j =>
        \E m, n \in DOMAIN Kinds : m <= n /\ as[i].kind = Kinds[m] /\ as[j].kind = Kinds[n]

Init ==
    /\ stage = "detected"
    /\ anomalies \in {as \in BoundedSeq(Anomalies, MaxAnomalies) : InOrder(as)}
    /\ edges \in BoundedSeq(Edges, MaxEdges)
    /\ anchors = <<>>
    /\ timeline = <<>>
    /\ verdict = [total |-> 0, supporting |-> 0, edge |-> NoEdge]
    /\ advice = [from |-> "nowhere", items |-> <<>>]
    /\ affected = {}
    /\ rootCause = [service |-> "", why |-> "unknown"]
    /\ confidence = 0

EqualFold(a, b) == Fold[a] = Fold[b]

\* The results sort.Slice may give with this order on keys.
Orders(s, Key(_)) ==
    {[i \in DOMAIN s |-> s[p[i]]] :
        p \in {f \in [DOMAIN s -> DOMAIN s] :
                  \A i, j \in DOMAIN s :
                      i < j => f[i] # f[j] /\ Key(s[f[i]]) <= Key(s[f[j]])}}

FirstN(s, n) == SubSeq(s, 1, IF Len(s) < n THEN Len(s) ELSE n)

TimeOf(event) == event.time

SeverityFromScore(score) ==
    CASE score >= 4 -> "critical" [] score = 3 -> "high" [] score = 2 -> "medium"
      [] OTHER -> "low"

\* The event of an anomaly; metric and log anomalies carry no service, and a
\* span that failed is of high severity whatever its score.
EventOf(a) ==
    [time |-> a.time, service |-> a.service,
     severity |-> IF a.error THEN "high" ELSE SeverityFromScore(a.score)]

\* Fault: the list is cut to its limit before it is sorted.
TimelinesCutFirst(as) ==
    Orders(FirstN([i \in DOMAIN as |-> EventOf(as[i])], EventLimit), TimeOf)

\* buildTimeline: the earliest EventLimit anomalies.
Timelines(as) ==
    {FirstN(t, EventLimit) : t \in Orders([i \in DOMAIN as |-> EventOf(as[i])], TimeOf)}

\* Fault: the anchors are kept in the order of detection.
StrongestUnsorted(as) == FirstN(as, AnchorLimit)

\* The anchor of an anomaly; metric and log anomalies get the service being
\* investigated.
AnchorOf(a) ==
    [service |-> IF a.service = "" THEN Root ELSE a.service,
     kind |-> a.kind, score |-> a.score]

\* buildAnchors: the AnchorLimit strongest anomalies, by a stable sort.
Strongest(as) ==
    LET order == CHOOSE p \in [DOMAIN as -> DOMAIN as] :
                    \A i, j \in DOMAIN as : i < j =>
                        \/ as[p[i]].score > as[p[j]].score
                        \/ as[p[i]].score = as[p[j]].score /\ p[i] < p[j]
    IN  FirstN([i \in DOMAIN as |-> AnchorOf(as[order[i]])], AnchorLimit)

\* deriveRootCause.
DeriveRootCause(found) ==
    IF found = <<>> THEN [service |-> Root, why |-> "no dominant anchor"]
    ELSE [service |-> found[1].service, why |-> found[1].kind]

\* What one kind of signal adds: a quarter, and its highest score in units of
\* perScore up to a limit.
Share(as, kind, perScore, limit) ==
    LET scores == {as[i].score : i \in {j \in DOMAIN as : as[j].kind = kind}}
    IN  IF scores = {} THEN 0
        ELSE 150 + Min({perScore * Max(scores \cup {0}), limit})

\* computeConfidence, in 600ths: an eighth of a metric score up to 0.25, a sixth
\* of a log or trace score up to 0.2.
ComputeConfidence(as) ==
    Min({600, Share(as, "metrics", 75, 150) + Share(as, "logs", 100, 120)
                + Share(as, "traces", 100, 120)})

\* buildAnchors, buildTimeline, computeConfidence and deriveRootCause.
Build ==
    /\ stage = "detected"
    /\ anchors' = Strongest(anomalies)
    /\ timeline' \in Timelines(anomalies)
    /\ confidence' = ComputeConfidence(anomalies)
    /\ rootCause' = DeriveRootCause(Strongest(anomalies))
    /\ stage' = "built"
    /\ UNCHANGED <<anomalies, edges, verdict, advice, affected>>

-----------------------------------------------------------------------------
(* The causality engine *)

\* rootEventTime and firstEventTime.
FirstEventTime(service, events) ==
    LET hits == {i \in DOMAIN events : EqualFold(events[i].service, service)}
    IN  IF hits = {} THEN ZeroTime ELSE events[Min(hits)].time

RootTime(events) ==
    LET t == FirstEventTime(Root, events)
    IN  IF t = ZeroTime THEN events[1].time ELSE t

\* Fault: the last edge with a failing source wins.
WeighLast(acc, edge, events) ==
    IF ~EqualFold(edge.target, Root) THEN acc
    ELSE [total |-> acc.total + 1, supporting |-> acc.supporting + 1,
          edge |-> IF FirstEventTime(edge.source, events) = ZeroTime
                   THEN (IF edge.errors > 0 THEN edge ELSE acc.edge)
                   ELSE (IF FirstEventTime(edge.source, events) < RootTime(events)
                         THEN edge ELSE acc.edge)]

\* One round of Evaluate's loop: an edge into the root supports it when its
\* source was anomalous first, or was not anomalous but has errors.  The best
\* supporting edge so far is compared by call rate or by error rate.
Weigh(acc, edge, events) ==
    LET at == FirstEventTime(edge.source, events)
        failing == at = ZeroTime /\ edge.errors > 0
        earlier == at # ZeroTime /\ at < RootTime(events)
        better == \/ acc.edge = NoEdge
                  \/ failing /\ edge.errors > acc.edge.errors
                  \/ earlier /\ edge.calls > acc.edge.calls
    IN  IF ~EqualFold(edge.target, Root) THEN acc
        ELSE [total |-> acc.total + 1,
              supporting |-> acc.supporting + (IF failing \/ earlier THEN 1 ELSE 0),
              edge |-> IF (failing \/ earlier) /\ better THEN edge ELSE acc.edge]

Nothing == [total |-> 0, supporting |-> 0, edge |-> NoEdge]

Evaluate(events, graph) ==
    LET acc[i \in 0..Len(graph)] ==
            IF i = 0 THEN Nothing ELSE Weigh(acc[i - 1], graph[i], events)
    IN  IF events = <<>> THEN Nothing ELSE acc[Len(graph)]

Judge ==
    /\ stage = "built"
    /\ verdict' = Evaluate(timeline, edges)
    /\ stage' = "judged"
    /\ UNCHANGED <<anomalies, edges, anchors, timeline, advice, affected, rootCause, confidence>>

-----------------------------------------------------------------------------
(* The rule engine *)

\* Fault: one condition that holds is enough.
MatchesAny(rule, found, events) ==
    \/ rule.service # "" /\ \E n \in Range(Listed) : EqualFold(rule.service, n)
    \/ \E i \in DOMAIN events : rule.severity = events[i].severity
    \/ \E i \in DOMAIN found : rule.keywords \cap Mentions[found[i].kind] # {}

\* serviceMatches, timelineHasSeverity and anchorsContain, each only if the rule
\* asks for it.
Matches(rule, found, events) ==
    /\ rule.service # "" =>
          \/ \E n \in Range(Listed) : EqualFold(rule.service, n)
          \/ \E i \in DOMAIN found : EqualFold(rule.service, found[i].service)
    /\ rule.severity # "" => \E i \in DOMAIN events : rule.severity = events[i].severity
    /\ rule.keywords # {} =>
          \E i \in DOMAIN found : rule.keywords \cap Mentions[found[i].kind] # {}

\* appendUnique: blanks and repetitions are left out.
AppendUnique(existing, additions) ==
    LET acc[i \in 0..Len(additions)] ==
            IF i = 0 THEN existing
            ELSE IF additions[i] \in {""} \cup Range(acc[i - 1]) THEN acc[i - 1]
            ELSE Append(acc[i - 1], additions[i])
    IN  acc[Len(additions)]

\* RuleEngine.Recommend; a pack that was not loaded is an empty one.
RuleAdvice(found, events) ==
    LET acc[i \in 0..Len(Rules)] ==
            IF i = 0 THEN <<>>
            ELSE IF Matches(Rules[i], found, events)
            THEN AppendUnique(acc[i - 1], Rules[i].recommendations)
            ELSE acc[i - 1]
    IN  acc[Len(Rules)]

DefaultRecommendations == <<"review deployments", "check dependencies">>

\* fetchRecommendations: what a similar incident recommended; the rules if there
\* is no repository, no such incident or nothing it recommends; else defaults.
Recommend(recall) ==
    /\ stage = "judged"
    /\ \E ruled \in {RuleAdvice(anchors, timeline)} :
          advice' = IF recall THEN [from |-> "recall", items |-> Recalled]
                    ELSE IF ruled # <<>> THEN [from |-> "rules", items |-> ruled]
                    ELSE [from |-> "default", items |-> DefaultRecommendations]
    /\ stage' = "advised"
    /\ UNCHANGED <<anomalies, edges, anchors, timeline, verdict, affected, rootCause, confidence>>

-----------------------------------------------------------------------------
(* Root cause, affected services and topology *)

Suggested(v) == v.edge.source

\* A suggestion other than the service itself replaces the root cause.
Overrides(v) == Suggested(v) # "" /\ ~EqualFold(Suggested(v), Root)

\* neighborServices compares names exactly.
Neighbors(graph) ==
    {graph[i].target : i \in {j \in DOMAIN graph : graph[j].source = Root}}
    \cup {graph[i].source : i \in {j \in DOMAIN graph : graph[j].target = Root}}

Suggest ==
    /\ stage = "advised"
    /\ affected' = ({Root} \cup Range(Listed) \cup Neighbors(edges)
                      \cup (IF Overrides(verdict) THEN {Suggested(verdict)} ELSE {})) \ {""}
    /\ timeline' = IF Overrides(verdict)
                   THEN Append(timeline,
                          [time |-> FirstEventTime(Suggested(verdict), timeline) - 1,
                           service |-> Suggested(verdict), severity |-> "medium"])
                   ELSE timeline
    /\ rootCause' = IF Overrides(verdict)
                    THEN [service |-> Suggested(verdict), why |-> "upstream"]
                    ELSE rootCause
    /\ stage' = "suggested"
    /\ UNCHANGED <<anomalies, edges, anchors, verdict, advice, confidence>>

\* The event added for an edge of the graph next to the service.
TopologyEvent(edge, rootTime) ==
    IF edge.target = Root
    THEN [time |-> rootTime - 1, service |-> edge.source, severity |-> "low"]
    ELSE [time |-> rootTime + 1, service |-> edge.target, severity |-> "low"]

Adjacent(edge) == edge.source = Root \/ edge.target = Root

\* The edges of the service that come first when sort.Slice orders them by calls,
\* up to TopologyLimit of them, as indices of the graph.
Busiest(graph) ==
    LET near == {i \in DOMAIN graph : Adjacent(graph[i])}
        count == Min({TopologyLimit, Cardinality(near)})
    IN  {r \in [1..count -> near] :
            /\ \A i, j \in 1..count :
                   i < j => r[i] # r[j] /\ graph[r[i]].calls >= graph[r[j]].calls
            /\ \A i \in 1..count, j \in near \ Range(r) : graph[r[i]].calls >= graph[j].calls}

\* Fault: the events are appended and left where they are.
WithTopologyUnsorted(events, graph) ==
    {events \o [i \in DOMAIN r |-> TopologyEvent(graph[r[i]], FirstEventTime(Root, events))] :
        r \in Busiest(graph)}

\* appendTopologyEvents: an event for each of the busiest edges of the service; the
\* timeline is sorted again only if there is one.
WithTopology(events, graph) ==
    LET first == FirstEventTime(Root, events)
        rootTime == IF first = ZeroTime THEN Now ELSE first
    IN  IF \A i \in DOMAIN graph : ~Adjacent(graph[i]) THEN {events}
        ELSE UNION {Orders(events \o [i \in DOMAIN r |-> TopologyEvent(graph[r[i]], rootTime)],
                           TimeOf) : r \in Busiest(graph)}

\* The causality score in 600ths: 0.4 for having upstreams, 0.6 for all of them
\* supporting the verdict.
Score(v) == IF v.total = 0 THEN 0 ELSE 240 + (360 * v.supporting) \div v.total

\* Fault: the weights do not add up to one.
CalibrateLossy(base, score) == IF score <= 0 THEN 7 * base ELSE 6 * base + score

\* calibrateConfidence, in 6000ths, without the clamps, which never act.
Calibrate(base, score) ==
    IF score <= 0 THEN 7 * base ELSE 6 * base + 4 * score

\* appendTopologyEvents, and the result with its calibrated confidence.
AppendTopology ==
    /\ stage = "suggested"
    /\ timeline' \in WithTopology(timeline, edges)
    /\ confidence' = Calibrate(confidence, Score(verdict))
    /\ stage' = "done"
    /\ UNCHANGED <<anomalies, edges, anchors, verdict, advice, affected, rootCause>>

Next ==
    \/ Build \/ Judge
    \/ \E recall \in BOOLEAN : Recommend(recall)
    \/ Suggest \/ AppendTopology

Spec == Init /\ [][Next]_vars

-----------------------------------------------------------------------------
(* Properties *)

Chronological(events) ==
    \A i, j \in DOMAIN events : i < j => events[i].time <= events[j].time

\* Names are spelled one way throughout the graph and the request.
OneSpelling == \A i \in DOMAIN edges :
    /\ EqualFold(edges[i].target, Root) => edges[i].target = Root
    /\ EqualFold(edges[i].source, Root) => edges[i].source = Root

\* With names spelled one way, the timeline of a result is chronological: the
\* event of a suggestion is appended out of order, but the edge that gave the
\* suggestion then also makes appendTopologyEvents sort.
ChronologicalTimeline == stage = "done" /\ OneSpelling => Chronological(timeline)

\* What buildTimeline drops is never earlier than what it keeps, and as much is
\* kept as fits.
EarliestEventsKept ==
    stage = "built" =>
        /\ Len(timeline) = Len(FirstN(anomalies, EventLimit))
        /\ \A i \in DOMAIN timeline :
             Cardinality({j \in DOMAIN anomalies : anomalies[j].time < timeline[i].time}) < i

\* The first anchor, which names the root cause, is a strongest anomaly, and no
\* anomaly that is left out is stronger than an anchor.
AnchorsAreStrongest ==
    stage # "detected" =>
        /\ Len(anchors) = Len(FirstN(anomalies, AnchorLimit))
        /\ \A i \in DOMAIN anchors :
             Cardinality({j \in DOMAIN anomalies : anomalies[j].score > anchors[i].score}) < i

\* The anomalies of a service, those the timeline has no room for included.
Of(service, as) == {i \in DOMAIN as : EqualFold(as[i].service, service)}

\* An edge into the service tells against its source: of all anomalies of the two,
\* one of the source comes before every one of the service, which has some; or the
\* edge has errors, and anomalies of the source are at most so late that EventLimit
\* others are no later.
TellsAgainst(edge, as) ==
    LET upstream == Of(edge.source, as)
        own == Of(Root, as)
    IN  /\ EqualFold(edge.target, Root)
        /\ \/ /\ own # {}
              /\ \E i \in upstream : \A j \in own : as[i].time < as[j].time
           \/ /\ edge.errors > 0
              /\ \A i \in upstream : EventLimit <=
                    Cardinality({j \in DOMAIN as \ upstream : as[j].time <= as[i].time})

\* The causality engine sees a timeline cut to EventLimit events, and by the end
\* other events are added to it, but what was cut does not mislead it: when an
\* answer blames an upstream, an edge from there tells against it by all that the
\* extractors found.  (An upstream whose anomalies are later than all EventLimit
\* events counts as having none.)
OverrideHasEvidence ==
    stage = "done" /\ rootCause.why = "upstream" =>
        \E i \in DOMAIN edges :
            edges[i].source = rootCause.service /\ TellsAgainst(edges[i], anomalies)

\* The edges that support the root cause having come from upstream.
Supporters ==
    {edges[i] : i \in {j \in DOMAIN edges :
        LET at == FirstEventTime(edges[j].source, timeline)
        IN  /\ EqualFold(edges[j].target, Root)
            /\ \/ at # ZeroTime /\ at < RootTime(timeline)
               \/ at = ZeroTime /\ edges[j].errors > 0}}

\* When all the evidence is of one kind the strongest upstream is suggested,
\* whatever the order of the edges: the busiest of those that were anomalous
\* first, or the one with the highest error rate.
SuggestionIsStrongest ==
    stage = "judged" /\ timeline # <<>> /\ Supporters # {} =>
        LET silent == {e \in Supporters : FirstEventTime(e.source, timeline) = ZeroTime}
        IN  /\ silent = {} => \A e \in Supporters : e.calls <= verdict.edge.calls
            /\ silent = Supporters => \A e \in Supporters : e.errors <= verdict.edge.errors

\* Knowing the upstreams never makes a result less confident than the same
\* anomalies without a service graph, and no result is more than certain, the
\* clamps of calibrateConfidence left aside.
CausalityRaisesConfidence ==
    stage = "done" =>
        LET base == ComputeConfidence(anomalies)
        IN  /\ confidence >= Calibrate(base, 0)
            /\ confidence <= 6000

\* The answer shows what a rule asks for: an affected or anchored service, an
\* event of a severity, an anchor with one of the keywords in its selector.
BearsOut(rule) ==
    /\ rule.service = "" \/ \E n \in affected \cup {anchors[i].service : i \in DOMAIN anchors} :
                               EqualFold(rule.service, n)
    /\ rule.severity \in {""} \cup {timeline[i].severity : i \in DOMAIN timeline}
    /\ rule.keywords = {} \/ \E i \in DOMAIN anchors :
                                 \E k \in rule.keywords : k \in Mentions[anchors[i].kind]

\* What a rule recommends is borne out by the answer that carries it: all of the
\* rule's conditions hold of its anchors, of its affected services, and of its
\* timeline, to which events are added after the rules were asked.
AdviceHasEvidence ==
    stage = "done" /\ advice.from = "rules" =>
        \A item \in Range(advice.items) : \E i \in DOMAIN Rules :
            item \in Range(Rules[i].recommendations) /\ BearsOut(Rules[i])

\* docs/rules.md has it that the advice is that of the first matching rule.
FirstMatchDecides ==
    stage = "advised" /\ advice.from = "rules" =>
        \E i \in DOMAIN Rules :
            /\ Matches(Rules[i], anchors, timeline)
            /\ \A j \in 1..(i - 1) : ~Matches(Rules[j], anchors, timeline)
            /\ Range(advice.items) \subseteq Range(Rules[i].recommendations)

\* The pipeline test asserts a chronological timeline of every result.
TimelineAlwaysChronological == stage = "done" => Chronological(timeline)

=============================================================================
