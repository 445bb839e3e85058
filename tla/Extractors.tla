----------------------------- MODULE Extractors -----------------------------
(***************************************************************************)
(* The three anomaly detectors of internal/extractors: metric samples by   *)
(* z-score, log counts by their distance from the median, spans by z-score *)
(* or status.  Each gets one input and gives the indices of what it        *)
(* reports, in the order of the input.                                     *)
(*                                                                         *)
(* The code computes in float64.  Samples are integers here and every      *)
(* comparison of a quotient or of a root is a comparison of products, so   *)
(* it is exact except where the code's rounding decides: when a score      *)
(* equals its threshold, and when the mean of a flat series is not quite   *)
(* its value.  The variable round says which way that went.  Thresholds    *)
(* are in tenths.                                                          *)
(***************************************************************************)
EXTENDS Integers, FiniteSets, Sequences, SequencesExt, Functions

CONSTANTS
    MetricInputs,  \* sequences of sample values
    Thresholds,    \* AnomalyThreshold of a request, in tenths
    LogInputs,     \* sequences of [count, error]
    SpanInputs     \* sequences of [duration, error]

\* Counts and durations are never negative.
ASSUME ExtractorsAssumption ==
    /\ MetricInputs \subseteq Seq(Int)
    /\ LogInputs \subseteq Seq([count : Nat, error : BOOLEAN])
    /\ SpanInputs \subseteq Seq([duration : Nat, error : BOOLEAN])
    /\ Thresholds \subseteq Int

VARIABLES
    kind,       \* which detector runs
    input,      \* what it is given
    threshold,  \* the threshold it is given
    round,      \* 1, 0 or -1: a computed score is above, at or below the exact one
    found,      \* the indices it reports
    done

detectVars == <<kind, input, threshold, round, found, done>>

DetectInit ==
    /\ \/ kind = "metrics" /\ input \in MetricInputs /\ threshold \in Thresholds
       \/ kind = "logs" /\ input \in LogInputs /\ threshold = 30
       \/ kind = "traces" /\ input \in SpanInputs /\ threshold = 20
    /\ round \in {-1, 0, 1}
    /\ found = {}
    /\ done = FALSE

Sum(s) == FoldLeft(LAMBDA a, b : a + b, 0, s)
Abs(n) == IF n < 0 THEN -n ELSE n

\* score >= limit, where rounding decides a tie.
AtLeast(score, limit, up) == score > limit \/ (score = limit /\ up >= 0)

-----------------------------------------------------------------------------
(* Scores *)

\* A sample's distance from the mean, times the number of samples.
FromMean(s, i) == Len(s) * s[i] - Sum(s)

\* n^3 times the variance.
Spread(s) == Sum([i \in DOMAIN s |-> FromMean(s, i) * FromMean(s, i)])

\* Fault: the variance is divided by one more than the number of samples.
ExceedsOffByOne(s, i, t, up) ==
    LET d == FromMean(s, i)
    IN  d > 0 /\ 100 * d * d * (Len(s) + 1) >= t * t * Spread(s)

\* Fault: the variance is that of a sample, divided by one less.
ExceedsSample(s, i, t, up) ==
    LET d == FromMean(s, i)
    IN  d > 0 /\ 100 * d * d * (Len(s) - 1) >= t * t * Spread(s)

\* (value - mean) / stdDev >= t, for t > 0.  In a flat series the deviation is
\* zero, replaced by 0.01, and the score is zero; or the mean was rounded, and
\* every sample is exactly one such deviation above or below it.
Exceeds(s, i, t, up) ==
    LET d == FromMean(s, i)
    IN  IF Spread(s) = 0 THEN t <= 10 /\ up = 1
        ELSE d > 0 /\ AtLeast(100 * d * d * Len(s), t * t * Spread(s), up)

\* percentile(values, 0.5): the middle one of the sorted values, the upper of two:
\* at most half of them are below it, and more than half are not above it.
Median(s) ==
    CHOOSE v \in Range(s) :
        /\ Cardinality({j \in DOMAIN s : s[j] < v}) <= Len(s) \div 2
        /\ Cardinality({j \in DOMAIN s : s[j] <= v}) > Len(s) \div 2

\* |count - median| / meanAbsoluteDeviation >= 3; a deviation of zero becomes 1.
FarFromMedian(s, i, up) ==
    LET median == Median(s)
        off == Sum([j \in DOMAIN s |-> Abs(s[j] - median)])
    IN  off > 0 /\ AtLeast(Len(s) * Abs(s[i] - median), 3 * off, up)

-----------------------------------------------------------------------------
(* The detectors *)

Report(what) ==
    /\ ~done
    /\ found' = what
    /\ done' = TRUE
    /\ UNCHANGED <<kind, input, threshold, round>>

\* A threshold that is not positive means 2.5.
MetricThreshold(t) == IF t <= 0 THEN 25 ELSE t

\* MetricExtractor.Detect
DetectMetrics ==
    /\ kind = "metrics"
    /\ Report({i \in DOMAIN input :
                 Exceeds(input, i, MetricThreshold(threshold), round)})

Counts == [i \in DOMAIN input |-> input[i].count]

\* LogsExtractor.Detect: a score of 3 in either direction, or an error entry
\* with more than 1.3 times the median, rounded down.
DetectLogs ==
    /\ kind = "logs"
    /\ Report({i \in DOMAIN input :
                 \/ FarFromMedian(Counts, i, round)
                 \/ input[i].error /\ input[i].count > (13 * Median(Counts)) \div 10})

SpanDurations == [i \in DOMAIN input |-> input[i].duration]

\* TracesExtractor.Detect: a score of 2, or the status "error".
DetectTraces ==
    /\ kind = "traces"
    /\ Report({i \in DOMAIN input :
                 Exceeds(SpanDurations, i, threshold, round) \/ input[i].error})

DetectNext == DetectMetrics \/ DetectLogs \/ DetectTraces

DetectSpec == DetectInit /\ [][DetectNext]_detectVars

-----------------------------------------------------------------------------
(* Properties *)

Limit == IF kind = "metrics" THEN MetricThreshold(threshold) ELSE threshold
Values == IF kind = "metrics" THEN input ELSE IF kind = "logs" THEN Counts ELSE SpanDurations
Flat(s) == \A i, j \in DOMAIN s : s[i] = s[j]
Errors == IF kind = "metrics" THEN {} ELSE {i \in DOMAIN input : input[i].error}

\* How rare an alarm is: a sample or span that is reported for its score is one
\* of at most n / (1 + t^2), so that with the default threshold nothing can be
\* reported of fewer than eight samples, and no slow span among fewer than five;
\* of the log entries at most a third is reported for the score, and at most
\* half, error or not, for more than the median.
AlarmsAreRare ==
    done =>
      /\ kind # "logs" /\ (Limit > 10 \/ ~Flat(Values)) =>
           Cardinality(found \ Errors) * (100 + Limit * Limit) <= 100 * Len(input)
      /\ kind = "logs" =>
           /\ 3 * Cardinality(found \ Errors) <= Len(input)
           /\ 2 * Cardinality({i \in found : input[i].count > Median(Counts)}) <= Len(input)

\* Equal spikes over a flat baseline do not mask one another unless there are
\* too many of them: if k of n values are high and k (1 + t^2) < n, all k are
\* reported, however high they are; a single log spike among four is as well.
SpikesAreFound ==
    done /\ Cardinality(Range(Values)) = 2 =>
        LET low == CHOOSE v \in Range(Values) : \A w \in Range(Values) : v <= w
            spikes == {i \in DOMAIN Values : Values[i] # low}
            k == Cardinality(spikes)
        IN  IF kind = "logs"
            THEN (k = 1 /\ Len(input) > 3) => spikes \subseteq found
            ELSE (k * (100 + Limit * Limit) < 100 * Len(input)) => spikes \subseteq found

=============================================================================
