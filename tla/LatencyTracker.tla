--------------------------- MODULE LatencyTracker ---------------------------
(***************************************************************************)
(* internal/utils/latency.go and its use at the end of                     *)
(* RCAService.InvestigateIncident.  Observe, Count and Percentile each     *)
(* take the tracker's lock, but the handler calls them one after another:  *)
(* other handlers run in between.                                          *)
(***************************************************************************)
EXTENDS Integers, Sequences, FiniteSets, TLC

CONSTANTS
    Handlers,     \* goroutines serving InvestigateIncident
    Durations,    \* what an investigation may take
    MaxSize,      \* the argument of NewLatencyTracker (1024 in the service)
    LogEvery,     \* 20 in the service
    MaxObserved   \* bound on the investigations (model checking only)

ASSUME LatencyAssumption ==
    /\ Durations \subseteq Nat
    /\ MaxSize \in Int
    /\ LogEvery \in Nat \ {0}
    /\ MaxObserved \in Nat

\* NewLatencyTracker replaces a size that is not positive.
Capacity == IF MaxSize <= 0 THEN 512 ELSE MaxSize

VARIABLES
    samples,   \* the tracker's window, oldest sample first
    pc,        \* pc[h]: what handler h does next
    count,     \* count[h]: what Count returned to h
    observed,  \* every duration ever observed, in order (history)
    logs       \* the "investigation latency" lines written

vars == <<samples, pc, count, observed, logs>>

Init ==
    /\ samples = <<>>
    /\ pc = [h \in Handlers |-> "investigate"]
    /\ count = [h \in Handlers |-> 0]
    /\ observed = <<>>
    /\ logs = {}

\* Fault: the buffer is cut before it is shifted, so the newest is dropped.
PushDropsNewest(s, d) ==
    IF Len(s) + 1 > Capacity THEN s ELSE Append(s, d)

\* Fault: the buffer is never cut.
PushUnbounded(s, d) == Append(s, d)

\* Append, then shift by one and cut to the capacity when it is exceeded.
Push(s, d) ==
    IF Len(s) + 1 > Capacity
    THEN SubSeq(Append(s, d), 2, Capacity + 1)
    ELSE Append(s, d)

\* sort.Slice by <: the samples in an order in which none is before a smaller one.
Sorted(s) ==
    LET order == CHOOSE p \in [1..Len(s) -> 1..Len(s)] :
                    \A i, j \in 1..Len(s) : i < j => p[i] # p[j] /\ s[p[i]] <= s[p[j]]
    IN  [i \in 1..Len(s) |-> s[order[i]]]

\* Fault: the rank is taken of n where it should be of n - 1.
RankOfLength(n, p) == (p * n) \div 100

\* The index of percentile p among n sorted samples, counted from 0.
Rank(n, p) ==
    LET index == (p * (n - 1)) \div 100
    IN  IF index < 0 THEN 0 ELSE IF index >= n THEN n - 1 ELSE index

SampleMin(s) == CHOOSE m \in {s[i] : i \in 1..Len(s)} : \A i \in 1..Len(s) : m <= s[i]
SampleMax(s) == CHOOSE m \in {s[i] : i \in 1..Len(s)} : \A i \in 1..Len(s) : m >= s[i]

Percentile(s, p) ==
    IF s = <<>> THEN 0
    ELSE IF p <= 0 THEN SampleMin(s)
    ELSE IF p >= 100 THEN SampleMax(s)
    ELSE Sorted(s)[Rank(Len(s), p) + 1]

\* Fault: a full window starts again from the new sample.
ObserveRestarts(h, d) ==
    /\ pc[h] = "investigate"
    /\ Len(observed) < MaxObserved
    /\ samples' = IF Len(samples) >= Capacity THEN <<d>> ELSE Append(samples, d)
    /\ observed' = Append(observed, d)
    /\ pc' = [pc EXCEPT ![h] = "count"]
    /\ UNCHANGED <<count, logs>>

\* An investigation has succeeded after d: s.latencies.Observe(duration).
Observe(h, d) ==
    /\ pc[h] = "investigate"
    /\ Len(observed) < MaxObserved
    /\ samples' = Push(samples, d)
    /\ observed' = Append(observed, d)
    /\ pc' = [pc EXCEPT ![h] = "count"]
    /\ UNCHANGED <<count, logs>>

\* s.latencies.Count() and the test whether to log.
Count(h) ==
    /\ pc[h] = "count"
    /\ count' = [count EXCEPT ![h] = Len(samples)]
    /\ pc' = [pc EXCEPT ![h] =
                IF Len(samples) >= LogEvery /\ Len(samples) % LogEvery = 0
                THEN "log" ELSE "investigate"]
    /\ UNCHANGED <<samples, observed, logs>>

\* s.latencies.Percentile(95), logged with the count read before.
LogP95(h) ==
    /\ pc[h] = "log"
    /\ logs' = logs \cup {[samples |-> count[h], window |-> Len(samples),
                           p95 |-> Percentile(samples, 95), at |-> Len(observed)]}
    /\ pc' = [pc EXCEPT ![h] = "investigate"]
    /\ UNCHANGED <<samples, count, observed>>

Next ==
    \/ \E h \in Handlers : \E d \in Durations : Observe(h, d)
    \/ \E h \in Handlers : Count(h)
    \/ \E h \in Handlers : LogP95(h)

Spec == Init /\ [][Next]_vars

-----------------------------------------------------------------------------
(* Properties *)

\* The types, with the bound on the tracker's memory.
TypeOK ==
    /\ samples \in Seq(Durations)
    /\ Len(samples) <= Capacity
    /\ pc \in [Handlers -> {"investigate", "count", "log"}]
    /\ count \in [Handlers -> Nat]
    /\ observed \in Seq(Durations)

\* Whatever handlers interleave, the window is the most recent durations, in the
\* order of the Observe calls, and as many of them as fit.
WindowIsLatest ==
    /\ Len(samples) = IF Len(observed) <= Capacity THEN Len(observed) ELSE Capacity
    /\ \A i \in 1..Len(samples) :
           samples[i] = observed[Len(observed) - Len(samples) + i]

\* A handler that found the window due for a log line computes its p95 over at
\* least as many samples as the line says, and over a positive multiple.
LabelNeverExceedsWindow ==
    \A h \in Handlers : pc[h] = "log" =>
        count[h] \in 1..Len(samples) /\ count[h] % LogEvery = 0

\* A percentile is the order statistic of its rank: no more than that many
\* samples are below it and more than that many are not above it.
PercentileIsOrderStatistic ==
    samples # <<>> =>
        \A p \in {0, 5, 50, 95, 100} :
            LET v == Percentile(samples, p)
                rank == (p * (Len(samples) - 1)) \div 100
                Indices == 1..Len(samples)
            IN  /\ \E i \in Indices : samples[i] = v
                /\ Cardinality({i \in Indices : samples[i] < v}) <= rank
                /\ Cardinality({i \in Indices : samples[i] <= v}) > rank

\* "Every 20 samples, service logs the current p95 latency": between
\* investigations there are as many log lines as full batches of samples.
LogsEveryBatch ==
    (\A h \in Handlers : pc[h] = "investigate") =>
        Cardinality(logs) = Len(observed) \div LogEvery

=============================================================================
