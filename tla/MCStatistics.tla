---------------------------- MODULE MCStatistics ----------------------------
(* A small instance of LatencyTracker and of Extractors for TLC.  The tracker   *)
(* and the detectors share no state, so one of them at a time moves: a detector *)
(* on one of its inputs, or the handlers that observe latencies.                *)
EXTENDS LatencyTracker, Extractors

\* Long series of two levels and short ones of four.
MCMetricInputs ==
    BoundedSeq({0, 1}, 9) \cup BoundedSeq({0, 1, 2, 5}, 4)
MCThresholds == {-5, 5, 10, 15, 25}
MCLogInputs ==
    BoundedSeq([count : {0, 1, 3, 10}, error : BOOLEAN], 4)
    \cup {s \in BoundedSeq([count : {2, 9}, error : BOOLEAN], 6) : Len(s) > 4}
MCSpanInputs ==
    BoundedSeq([duration : {0, 1, 4}, error : BOOLEAN], 4)
    \cup {s \in BoundedSeq([duration : {1, 2}, error : BOOLEAN], 6) : Len(s) > 4}

NoDetector ==
    /\ kind = "none" /\ input = <<>> /\ threshold = 0 /\ round = 0
    /\ found = {} /\ done = FALSE

StatisticsInit == Init /\ (NoDetector \/ DetectInit)

StatisticsSpec ==
    /\ StatisticsInit
    /\ [][\/ kind = "none" /\ Next /\ UNCHANGED detectVars
          \/ DetectNext /\ UNCHANGED vars]_<<vars, detectVars>>

Symmetry == Permutations(Handlers)

=============================================================================
