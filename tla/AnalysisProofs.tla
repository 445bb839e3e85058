--------------------------- MODULE AnalysisProofs ---------------------------
(***************************************************************************)
(* Proofs about Analysis for any number of anomalies, edges and rules and  *)
(* any limits.                                                             *)
(***************************************************************************)
EXTENDS Analysis, LoopsAndSorts, SequenceTheorems, FiniteSetTheorems, TLAPS

-----------------------------------------------------------------------------
(* The causality engine *)

Verdicts == [total : Nat, supporting : Nat, edge : Edges \cup {NoEdge}]

\* An edge supports the root cause having come from upstream, and its source has
\* no anomaly of its own.
Silent(e, events) == FirstEventTime(e.source, events) = ZeroTime
Earlier(e, events) == FirstEventTime(e.source, events) < RootTime(events)
Supports(e, events) ==
    /\ EqualFold(e.target, Root)
    /\ IF Silent(e, events) THEN e.errors > 0 ELSE Earlier(e, events)

\* The verdict after m rounds of Evaluate's loop: the best edge is one of those
\* that support it, and the strongest when all of them are of one kind.
Judged(v, m, events, graph) ==
    /\ v \in Verdicts
    /\ v.supporting <= v.total
    /\ v.edge # NoEdge => \E j \in 1..m : graph[j] = v.edge /\ Supports(graph[j], events)
    /\ \A j \in 1..m : Supports(graph[j], events) => v.edge # NoEdge
    /\ (\A j \in 1..m : Supports(graph[j], events) => ~Silent(graph[j], events)) =>
           \A j \in 1..m : Supports(graph[j], events) => graph[j].calls <= v.edge.calls
    /\ (\A j \in 1..m : Supports(graph[j], events) => Silent(graph[j], events)) =>
           \A j \in 1..m : Supports(graph[j], events) => graph[j].errors <= v.edge.errors

\* Edges of the graph are told apart from "no edge", which is nobody's supporter.
LEMMA EdgeFacts ==
    /\ \A e \in Edges : /\ e.source \in Names /\ e.target \in Names
                        /\ e.calls \in Nat /\ e.errors \in Nat
    /\ \A e \in Edges : EqualFold(e.target, Root) => e # NoEdge
    /\ NoEdge.calls = 0 /\ NoEdge.errors = 0 /\ NoEdge.source = ""
<1>1. \A e \in Edges : /\ e.source \in Names /\ e.target \in Names
                       /\ e.calls \in Nat /\ e.errors \in Nat
  BY AnalysisAssumption
<1>2. Fold[""] = "" /\ Fold[Root] # ""
  BY AnalysisAssumption
<1>3. \A e \in Edges : EqualFold(e.target, Root) => e.target # ""
  BY <1>2 DEF EqualFold
<1>4. NoEdge.calls = 0 /\ NoEdge.errors = 0 /\ NoEdge.source = "" /\ NoEdge.target = ""
  BY DEF NoEdge
<1>5. \A e \in Edges : EqualFold(e.target, Root) => e # NoEdge
  BY <1>3, <1>4
<1> QED
  BY <1>1, <1>4, <1>5

\* One round of the loop, by what it does with an edge.
LEMMA WeighCases ==
    ASSUME NEW v \in Verdicts, NEW e \in Edges, NEW events
    PROVE  LET w == Weigh(v, e, events)
               better == \/ v.edge = NoEdge
                         \/ Silent(e, events) /\ e.errors > v.edge.errors
                         \/ ~Silent(e, events) /\ e.calls > v.edge.calls
           IN  /\ w \in Verdicts
               /\ v.supporting <= v.total => w.supporting <= w.total
               /\ Supports(e, events) /\ better => w.edge = e
               /\ ~(Supports(e, events) /\ better) => w.edge = v.edge
<1> DEFINE at == FirstEventTime(e.source, events)
           failing == at = ZeroTime /\ e.errors > 0
           earlier == at # ZeroTime /\ at < RootTime(events)
           best == \/ v.edge = NoEdge
                   \/ failing /\ e.errors > v.edge.errors
                   \/ earlier /\ e.calls > v.edge.calls
           w == Weigh(v, e, events)
           better == \/ v.edge = NoEdge
                     \/ Silent(e, events) /\ e.errors > v.edge.errors
                     \/ ~Silent(e, events) /\ e.calls > v.edge.calls
<1>1. w = IF ~EqualFold(e.target, Root) THEN v
          ELSE [total |-> v.total + 1,
                supporting |-> v.supporting + (IF failing \/ earlier THEN 1 ELSE 0),
                edge |-> IF (failing \/ earlier) /\ best THEN e ELSE v.edge]
  BY DEF Weigh
<1>2. Supports(e, events) <=> EqualFold(e.target, Root) /\ (failing \/ earlier)
  BY DEF Supports, Silent, Earlier
<1>3. Supports(e, events) => (better <=> best)
  BY DEF Supports, Silent, Earlier
<1> HIDE DEF failing, earlier, best, better, w
<1>4. v.total \in Nat /\ v.supporting \in Nat /\ v.edge \in Edges \cup {NoEdge}
  BY DEF Verdicts
<1>5. CASE ~EqualFold(e.target, Root)
  BY <1>1, <1>2, <1>5 DEF w
<1>6. CASE EqualFold(e.target, Root)
  <2>1. /\ w.total = v.total + 1
        /\ w.supporting = v.supporting + (IF failing \/ earlier THEN 1 ELSE 0)
        /\ w.edge = IF (failing \/ earlier) /\ best THEN e ELSE v.edge
    BY <1>1, <1>6
  <2>2. w \in Verdicts
    BY <1>1, <1>4, <1>6 DEF Verdicts
  <2>3. v.supporting <= v.total => w.supporting <= w.total
    BY <1>4, <2>1
  <2>4. /\ Supports(e, events) /\ better => w.edge = e
        /\ ~(Supports(e, events) /\ better) => w.edge = v.edge
    BY <1>2, <1>3, <1>6, <2>1
  <2> QED
    BY <2>2, <2>3, <2>4 DEF w, better
<1> QED
  BY <1>5, <1>6

\* A round of the loop keeps what is known of the verdict.
LEMMA WeighStep ==
    ASSUME NEW events, NEW graph \in Seq(Edges), NEW m \in 1..Len(graph), NEW v,
           Judged(v, m - 1, events, graph)
    PROVE  Judged(Weigh(v, graph[m], events), m, events, graph)
<1> DEFINE e == graph[m]
           w == Weigh(v, e, events)
           better == \/ v.edge = NoEdge
                     \/ Silent(e, events) /\ e.errors > v.edge.errors
                     \/ ~Silent(e, events) /\ e.calls > v.edge.calls
           Past == {j \in 1..(m - 1) : Supports(graph[j], events)}
<1>1. /\ v \in Verdicts /\ v.supporting <= v.total
      /\ v.edge # NoEdge => \E j \in Past : graph[j] = v.edge
      /\ \A j \in Past : v.edge # NoEdge
      /\ (\A j \in Past : ~Silent(graph[j], events)) => \A j \in Past : graph[j].calls <= v.edge.calls
      /\ (\A j \in Past : Silent(graph[j], events)) => \A j \in Past : graph[j].errors <= v.edge.errors
  BY DEF Judged
<1>2. /\ e \in Edges /\ e.calls \in Nat /\ e.errors \in Nat
      /\ \A j \in 1..m : graph[j] \in Edges /\ graph[j].calls \in Nat /\ graph[j].errors \in Nat
      /\ \A j \in 1..m : j = m \/ j \in 1..(m - 1)
      /\ 1..(m - 1) \subseteq 1..m /\ m \in 1..m
  <2>1. \A j \in 1..m : graph[j] \in Edges
    OBVIOUS
  <2>2. \A j \in 1..m : graph[j].calls \in Nat /\ graph[j].errors \in Nat
    BY <2>1, EdgeFacts
  <2>3. /\ \A j \in 1..m : j = m \/ j \in 1..(m - 1)
        /\ 1..(m - 1) \subseteq 1..m /\ m \in 1..m
    OBVIOUS
  <2> QED
    BY <2>1, <2>2, <2>3
<1>3. /\ w \in Verdicts /\ w.supporting <= w.total
      /\ Supports(e, events) /\ better => w.edge = e
      /\ ~(Supports(e, events) /\ better) => w.edge = v.edge
  BY <1>1, <1>2, WeighCases
<1>4. Supports(e, events) => e # NoEdge
  BY <1>2, EdgeFacts DEF Supports
<1>5. v.edge.calls \in Nat /\ v.edge.errors \in Nat
  <2>1. v.edge \in Edges \cup {NoEdge}
    BY <1>1 DEF Verdicts
  <2>2. CASE v.edge \in Edges
    BY <2>2, EdgeFacts
  <2>3. CASE v.edge = NoEdge
    <3>1. NoEdge.calls = 0 /\ NoEdge.errors = 0
      BY DEF NoEdge
    <3> QED
      BY <2>3, <3>1
  <2> QED
    BY <2>1, <2>2, <2>3
<1> HIDE DEF w, e
<1> DEFINE Now1 == {j \in 1..m : Supports(graph[j], events)}
<1>6. /\ Supports(e, events) => Now1 = Past \cup {m}
      /\ ~Supports(e, events) => Now1 = Past
  BY <1>2 DEF e
<1>e. graph[m] = e
  BY DEF e
<1>s. \A j \in Now1 : graph[j].calls \in Nat /\ graph[j].errors \in Nat
  BY <1>2
<1> HIDE DEF Past, Now1
<1>7. w.edge # NoEdge => \E j \in Now1 : graph[j] = w.edge
  BY <1>1, <1>3, <1>6, <1>e
<1>8. \A j \in Now1 : w.edge # NoEdge
  <2>1. CASE Supports(e, events) /\ better
    BY <1>3, <1>4, <2>1
  <2>2. CASE ~Supports(e, events)
    BY <1>1, <1>3, <1>6, <2>2
  <2>3. CASE ~better
    BY <1>3, <2>3
  <2> QED
    BY <2>1, <2>2, <2>3
<1>9. ASSUME \A j \in Now1 : ~Silent(graph[j], events), NEW j \in Now1
      PROVE  graph[j].calls <= w.edge.calls
  <2>1. \A i \in Past : i \in Now1 /\ graph[i].calls <= v.edge.calls
    BY <1>1, <1>6, <1>9
  <2>2. CASE ~Supports(e, events)
    BY <1>3, <1>6, <2>1, <2>2
  <2>3. CASE Supports(e, events) /\ better
    <3>1. ~Silent(e, events) /\ w.edge = e
      BY <1>3, <1>6, <1>9, <1>e, <2>3
    <3>2. CASE v.edge = NoEdge
      BY <1>1, <1>2, <1>6, <1>e, <2>3, <3>1, <3>2
    <3>3. CASE e.calls > v.edge.calls
      <4>1. CASE j = m
        BY <1>2, <1>e, <3>1, <4>1
      <4>2. CASE j \in Past
        BY <1>2, <1>5, <1>s, <2>1, <3>1, <3>3, <4>2
      <4> QED
        BY <1>6, <2>3, <4>1, <4>2
    <3> QED
      BY <2>3, <3>1, <3>2, <3>3
  <2>4. CASE Supports(e, events) /\ ~better
    <3>1. ~Silent(e, events) /\ w.edge = v.edge /\ ~(e.calls > v.edge.calls)
      BY <1>3, <1>6, <1>9, <1>e, <2>4
    <3>2. CASE j = m
      BY <1>2, <1>5, <1>e, <3>1, <3>2
    <3>3. CASE j \in Past
      BY <2>1, <3>1, <3>3
    <3> QED
      BY <1>6, <2>4, <3>2, <3>3
  <2> QED
    BY <2>2, <2>3, <2>4
<1>10. ASSUME \A j \in Now1 : Silent(graph[j], events), NEW j \in Now1
       PROVE  graph[j].errors <= w.edge.errors
  <2>1. \A i \in Past : i \in Now1 /\ graph[i].errors <= v.edge.errors
    BY <1>1, <1>6, <1>10
  <2>2. CASE ~Supports(e, events)
    BY <1>3, <1>6, <2>1, <2>2
  <2>3. CASE Supports(e, events) /\ better
    <3>1. Silent(e, events) /\ w.edge = e
      BY <1>3, <1>6, <1>10, <1>e, <2>3
    <3>2. CASE v.edge = NoEdge
      BY <1>1, <1>2, <1>6, <1>e, <2>3, <3>1, <3>2
    <3>3. CASE e.errors > v.edge.errors
      <4>1. CASE j = m
        BY <1>2, <1>e, <3>1, <4>1
      <4>2. CASE j \in Past
        BY <1>2, <1>5, <1>s, <2>1, <3>1, <3>3, <4>2
      <4> QED
        BY <1>6, <2>3, <4>1, <4>2
    <3> QED
      BY <2>3, <3>1, <3>2, <3>3
  <2>4. CASE Supports(e, events) /\ ~better
    <3>1. Silent(e, events) /\ w.edge = v.edge /\ ~(e.errors > v.edge.errors)
      BY <1>3, <1>6, <1>10, <1>e, <2>4
    <3>2. CASE j = m
      BY <1>2, <1>5, <1>e, <3>1, <3>2
    <3>3. CASE j \in Past
      BY <2>1, <3>1, <3>3
    <3> QED
      BY <1>6, <2>4, <3>2, <3>3
  <2> QED
    BY <2>2, <2>3, <2>4
<1>11. Judged(w, m, events, graph)
  BY <1>3, <1>7, <1>8, <1>9, <1>10 DEF Judged, Now1
<1> QED
  BY <1>11 DEF w, e

\* Evaluate runs its loop over all edges of the graph.
LEMMA EvaluateFacts ==
    ASSUME NEW events, NEW graph \in Seq(Edges)
    PROVE  /\ events = <<>> => Evaluate(events, graph) = Nothing
           /\ events # <<>> => Judged(Evaluate(events, graph), Len(graph), events, graph)
<1> DEFINE n == Len(graph)
           Round(f) == [i \in 0..n |-> IF i = 0 THEN Nothing ELSE Weigh(f[i - 1], graph[i], events)]
           acc == CHOOSE f : f = Round(f)
           step == [i \in 1..n |-> [v \in Verdicts |-> Weigh(v, graph[i], events)]]
<1>1. n \in Nat /\ \A i \in 1..n : graph[i] \in Edges
  OBVIOUS
<1>2. Nothing \in Verdicts /\ Nothing.supporting <= Nothing.total /\ Nothing.edge = NoEdge
  BY DEF Nothing, Verdicts
<1>3. step \in [1..n -> [Verdicts -> Verdicts]]
  <2>1. \A i \in 1..n, v \in Verdicts : Weigh(v, graph[i], events) \in Verdicts
    BY <1>1, WeighCases
  <2> QED
    BY <2>1
<1>4. \A i \in 1..n, v \in Verdicts : step[i][v] = Weigh(v, graph[i], events)
  OBVIOUS
<1> HIDE DEF step
<1>5. PICK f : Loop(f, n, Verdicts, Nothing, step)
  BY <1>1, <1>2, <1>3, LoopRuns, Zenon
<1>6. f = Round(f)
  <2>1. f \in [0..n -> Verdicts] /\ f[0] = Nothing
    BY <1>5 DEF Loop
  <2>2. \A i \in 0..n : i # 0 => f[i] = Weigh(f[i - 1], graph[i], events)
    <3> SUFFICES ASSUME NEW i \in 0..n, i # 0 PROVE f[i] = Weigh(f[i - 1], graph[i], events)
        OBVIOUS
    <3>1. i \in 1..n /\ i - 1 \in 0..n
      BY <1>1
    <3>2. f[i] = step[i][f[i - 1]] /\ f[i - 1] \in Verdicts
      BY <1>5, <2>1, <3>1 DEF Loop
    <3> QED
      BY <1>4, <3>1, <3>2
  <2> QED
    BY <2>1, <2>2
<1>7. acc = Round(acc)
  BY <1>6
<1>8. Evaluate(events, graph) = IF events = <<>> THEN Nothing ELSE acc[n]
  BY DEF Evaluate
<1> HIDE DEF acc
<1>9. /\ acc[0] = Nothing
      /\ \A i \in 1..n : acc[i] = Weigh(acc[i - 1], graph[i], events)
  BY <1>1, <1>7
<1> DEFINE T == {i \in 0..n : Judged(acc[i], i, events, graph)}
<1>10. 0 \in T
  BY <1>1, <1>2, <1>9 DEF Judged
<1>11. ASSUME NEW i \in 1..n, i - 1 \in T PROVE i \in T
  BY <1>9, <1>11, WeighStep
<1> HIDE DEF T
<1>12. n \in T
  <2>1. n \in Nat
    BY <1>1
  <2> HIDE DEF n
  <2>2. \A i \in 0..n : i \in T
    BY <1>10, <1>11, <2>1, Induction
  <2> QED
    BY <2>1, <2>2
<1> QED
  BY <1>8, <1>12 DEF T

-----------------------------------------------------------------------------
(* The rule engine *)

Texts == STRING

\* One item: left out if it is blank or known, else added at the end.
LEMMA AppendOne ==
    ASSUME NEW s \in Seq(Texts), NEW x \in Texts
    PROVE  LET t == IF x \in {""} \cup Range(s) THEN s ELSE Append(s, x) IN
           /\ t \in Seq(Texts)
           /\ Range(t) = Range(s) \cup ({x} \ {""})
           /\ IsInjective(s) => IsInjective(t)
<1>1. CASE x \in {""} \cup Range(s)
  BY <1>1
<1>2. CASE x \notin {""} \cup Range(s)
  <2> DEFINE t == Append(s, x)
  <2>1. /\ t \in Seq(Texts) /\ DOMAIN t = 1..(Len(s) + 1) /\ DOMAIN s = 1..Len(s)
        /\ t[Len(s) + 1] = x /\ \A i \in 1..Len(s) : t[i] = s[i]
        /\ Len(s) \in Nat
    OBVIOUS
  <2>2. \A i \in 1..(Len(s) + 1) : i = Len(s) + 1 \/ i \in 1..Len(s)
    BY <2>1
  <2>3. Len(s) + 1 \in 1..(Len(s) + 1) /\ 1..Len(s) \subseteq 1..(Len(s) + 1)
    BY <2>1
  <2> HIDE DEF t
  <2>4. Range(t) = Range(s) \cup {x}
    BY <2>1, <2>2, <2>3 DEF Range
  <2>5. ASSUME IsInjective(s) PROVE IsInjective(t)
    <3>1. \A i \in 1..Len(s) : s[i] # x
      BY <1>2, <2>1 DEF Range
    <3> QED
      BY <2>1, <2>2, <2>5, <3>1 DEF IsInjective
  <2> QED
    BY <1>2, <2>1, <2>4, <2>5 DEF t
<1> QED
  BY <1>1, <1>2

\* appendUnique keeps what it is given, adds all new items but blanks, and
\* repeats none.
LEMMA AppendUniqueFacts ==
    ASSUME NEW existing \in Seq(Texts), NEW additions \in Seq(Texts)
    PROVE  LET t == AppendUnique(existing, additions) IN
           /\ t \in Seq(Texts)
           /\ Range(t) = Range(existing) \cup (Range(additions) \ {""})
           /\ IsInjective(existing) => IsInjective(t)
<1> DEFINE n == Len(additions)
           S == Seq(Texts)
           With(t, x) == IF x \in {""} \cup Range(t) THEN t ELSE Append(t, x)
           Round(f) == [i \in 0..n |-> IF i = 0 THEN existing ELSE With(f[i - 1], additions[i])]
           acc == CHOOSE f : f = Round(f)
           step == [i \in 1..n |-> [t \in S |-> With(t, additions[i])]]
<1>1. n \in Nat /\ \A i \in 1..n : additions[i] \in Texts
  OBVIOUS
<1>2. Range(additions) = {additions[i] : i \in 1..n}
  BY DEF Range
<1>w. ASSUME NEW t \in S, NEW x \in Texts
      PROVE  /\ With(t, x) \in S
             /\ Range(With(t, x)) = Range(t) \cup ({x} \ {""})
             /\ IsInjective(t) => IsInjective(With(t, x))
  BY AppendOne
<1>3. step \in [1..n -> [S -> S]]
  <2>1. \A i \in 1..n, t \in S : With(t, additions[i]) \in S
    BY <1>1, <1>w
  <2> HIDE DEF With, S
  <2> QED
    BY <2>1
<1>4. \A i \in 1..n, t \in S : step[i][t] = With(t, additions[i])
  <2> HIDE DEF With, S
  <2> QED
    OBVIOUS
<1> HIDE DEF step
<1>5. PICK f : Loop(f, n, S, existing, step)
  BY <1>1, <1>3, LoopRuns, Zenon
<1>6. f = Round(f)
  <2>1. f \in [0..n -> S] /\ f[0] = existing
    BY <1>5 DEF Loop
  <2>2. \A i \in 0..n : i # 0 => f[i] = With(f[i - 1], additions[i])
    <3> SUFFICES ASSUME NEW i \in 0..n, i # 0 PROVE f[i] = With(f[i - 1], additions[i])
        OBVIOUS
    <3>1. i \in 1..n /\ i - 1 \in 0..n
      BY <1>1
    <3> HIDE DEF S, With
    <3>2. f[i] = step[i][f[i - 1]] /\ f[i - 1] \in S
      BY <1>5, <2>1, <3>1 DEF Loop
    <3> QED
      BY <1>4, <3>1, <3>2
  <2> QED
    BY <2>1, <2>2
<1>7. acc = Round(acc)
  BY <1>6
<1>8. AppendUnique(existing, additions) = acc[n]
  BY DEF AppendUnique
<1> HIDE DEF acc, With
<1>9. acc[0] = existing /\ \A i \in 1..n : acc[i] = With(acc[i - 1], additions[i])
  BY <1>1, <1>7
<1> DEFINE Inv(i) == /\ acc[i] \in S
                     /\ Range(acc[i]) = Range(existing) \cup ({additions[j] : j \in 1..i} \ {""})
                     /\ IsInjective(existing) => IsInjective(acc[i])
           T == {i \in 0..n : Inv(i)}
<1>10. 0 \in T
  <2>1. {additions[j] : j \in 1..0} = {}
    OBVIOUS
  <2>2. Inv(0)
    BY <1>9, <2>1
  <2> HIDE DEF Inv
  <2> QED
    BY <1>1, <2>2
<1>11. ASSUME NEW i \in 1..n, i - 1 \in T PROVE i \in T
  <2>1. Inv(i - 1) /\ acc[i] = With(acc[i - 1], additions[i]) /\ additions[i] \in Texts
    BY <1>1, <1>9, <1>11
  <2>2. {additions[j] : j \in 1..i} = {additions[j] : j \in 1..(i - 1)} \cup {additions[i]}
    <3>1. 1..i = (1..(i - 1)) \cup {i}
      OBVIOUS
    <3> QED
      BY <3>1
  <2>3. /\ acc[i] \in S
        /\ Range(acc[i]) = Range(acc[i - 1]) \cup ({additions[i]} \ {""})
        /\ IsInjective(acc[i - 1]) => IsInjective(acc[i])
    <3>1. acc[i - 1] \in S
      BY <2>1
    <3> HIDE DEF Inv, S
    <3>2. /\ With(acc[i - 1], additions[i]) \in S
          /\ Range(With(acc[i - 1], additions[i])) = Range(acc[i - 1]) \cup ({additions[i]} \ {""})
          /\ IsInjective(acc[i - 1]) => IsInjective(With(acc[i - 1], additions[i]))
      BY <1>w, <2>1, <3>1, Zenon
    <3> QED
      BY <2>1, <3>2
  <2>4. Inv(i)
    BY <2>1, <2>2, <2>3
  <2> HIDE DEF Inv
  <2> QED
    BY <2>4
<1> HIDE DEF T
<1>12. n \in T
  <2>1. \A i \in 0..n : i \in T
    BY <1>1, <1>10, <1>11, Induction
  <2> QED
    BY <1>1, <2>1
<1> QED
  BY <1>2, <1>8, <1>12 DEF T

\* What the rules say after m of them were asked: all that the matching ones
\* recommend, nothing else, and nothing twice.
Heard(items, m, found, events) ==
    /\ items \in Seq(Texts)
    /\ IsInjective(items)
    /\ \A x \in Range(items) : \E j \in 1..m :
           Matches(Rules[j], found, events) /\ x \in Range(Rules[j].recommendations)
    /\ \A j \in 1..m : Matches(Rules[j], found, events) =>
           Range(Rules[j].recommendations) \ {""} \subseteq Range(items)

\* The parts of a rule.
LEMMA RuleFacts ==
    /\ Len(Rules) \in Nat /\ DOMAIN Rules = 1..Len(Rules)
    /\ \A i \in 1..Len(Rules) : /\ Rules[i].recommendations \in Seq(Texts)
                                /\ Rules[i].service \in Names \cup {""}
<1> DEFINE R == [service : Names \cup {""}, severity : STRING,
                 keywords : SUBSET STRING, recommendations : Seq(STRING)]
<1>1. Rules \in Seq(R)
  BY AnalysisAssumption
<1>2. \A x \in R : x.recommendations \in Seq(Texts) /\ x.service \in Names \cup {""}
  BY DEF Texts
<1> HIDE DEF R
<1>3. \A i \in 1..Len(Rules) : Rules[i] \in R
  BY <1>1
<1>4. Len(Rules) \in Nat /\ DOMAIN Rules = 1..Len(Rules)
  BY <1>1
<1> QED
  BY <1>2, <1>3, <1>4

\* RuleEngine.Recommend hears every rule.
LEMMA RuleAdviceFacts ==
    ASSUME NEW found, NEW events
    PROVE  Heard(RuleAdvice(found, events), Len(Rules), found, events)
<1> DEFINE n == Len(Rules)
           S == Seq(Texts)
           With(t, i) == IF Matches(Rules[i], found, events)
                         THEN AppendUnique(t, Rules[i].recommendations) ELSE t
           Round(f) == [i \in 0..n |-> IF i = 0 THEN <<>> ELSE With(f[i - 1], i)]
           acc == CHOOSE f : f = Round(f)
           step == [i \in 1..n |-> [t \in S |-> With(t, i)]]
<1>1. n \in Nat /\ \A i \in 1..n : Rules[i].recommendations \in S
  BY RuleFacts
<1>w. ASSUME NEW t \in S, NEW i \in 1..n
      PROVE  /\ With(t, i) \in S
             /\ ~Matches(Rules[i], found, events) => With(t, i) = t
             /\ Matches(Rules[i], found, events) =>
                    Range(With(t, i)) = Range(t) \cup (Range(Rules[i].recommendations) \ {""})
             /\ IsInjective(t) => IsInjective(With(t, i))
  <2>1. Rules[i].recommendations \in S
    BY <1>1
  <2>2. /\ AppendUnique(t, Rules[i].recommendations) \in S
        /\ Range(AppendUnique(t, Rules[i].recommendations))
             = Range(t) \cup (Range(Rules[i].recommendations) \ {""})
        /\ IsInjective(t) => IsInjective(AppendUnique(t, Rules[i].recommendations))
    BY <2>1, AppendUniqueFacts
  <2>3. CASE Matches(Rules[i], found, events)
    BY <2>2, <2>3
  <2>4. CASE ~Matches(Rules[i], found, events)
    BY <2>4
  <2> QED
    BY <2>3, <2>4
<1>3. step \in [1..n -> [S -> S]]
  <2>1. \A i \in 1..n, t \in S : With(t, i) \in S
    BY <1>w
  <2> HIDE DEF With, S
  <2> QED
    BY <2>1
<1>4. \A i \in 1..n, t \in S : step[i][t] = With(t, i)
  <2> HIDE DEF With, S
  <2> QED
    OBVIOUS
<1>2. <<>> \in S
  OBVIOUS
<1> HIDE DEF step
<1>5. PICK f : Loop(f, n, S, <<>>, step)
  BY <1>1, <1>2, <1>3, LoopRuns, Zenon
<1>6. f = Round(f)
  <2> HIDE DEF S, With
  <2>1. f \in [0..n -> S] /\ f[0] = <<>>
    BY <1>5 DEF Loop
  <2>2. \A i \in 0..n : i # 0 => f[i] = With(f[i - 1], i)
    <3> SUFFICES ASSUME NEW i \in 0..n, i # 0 PROVE f[i] = With(f[i - 1], i)
        OBVIOUS
    <3>1. i \in 1..n /\ i - 1 \in 0..n
      BY <1>1
    <3>2. f[i] = step[i][f[i - 1]] /\ f[i - 1] \in S
      BY <1>5, <2>1, <3>1 DEF Loop
    <3> QED
      BY <1>4, <3>1, <3>2
  <2> QED
    BY <2>1, <2>2
<1>7. acc = Round(acc)
  BY <1>6
<1>8. RuleAdvice(found, events) = acc[n]
  BY DEF RuleAdvice
<1> HIDE DEF acc, With
<1>9. acc[0] = <<>> /\ \A i \in 1..n : acc[i] = With(acc[i - 1], i)
  BY <1>1, <1>7
<1> DEFINE T == {i \in 0..n : Heard(acc[i], i, found, events)}
<1>10. 0 \in T
  <2>1. Range(<<>>) = {} /\ IsInjective(<<>>) /\ 1..0 = {}
    BY DEF Range, IsInjective
  <2>2. Heard(<<>>, 0, found, events)
    BY <1>2, <2>1 DEF Heard
  <2> QED
    BY <1>1, <1>9, <2>2
<1>11. ASSUME NEW i \in 1..n, i - 1 \in T PROVE i \in T
  <2> DEFINE old == acc[i - 1]
             new == acc[i]
  <2>1. Heard(old, i - 1, found, events) /\ new = With(old, i)
    BY <1>9, <1>11
  <2>2. old \in S /\ IsInjective(old)
    BY <2>1 DEF Heard
  <2>3. /\ new \in S
        /\ ~Matches(Rules[i], found, events) => new = old
        /\ Matches(Rules[i], found, events) =>
               Range(new) = Range(old) \cup (Range(Rules[i].recommendations) \ {""})
        /\ IsInjective(new)
    <3> HIDE DEF S, old, new
    <3> QED
      BY <1>w, <2>1, <2>2
  <2>4. 1..i = (1..(i - 1)) \cup {i}
    OBVIOUS
  <2> HIDE DEF old, new
  <2>5. \A x \in Range(new) : \E j \in 1..i :
            Matches(Rules[j], found, events) /\ x \in Range(Rules[j].recommendations)
    BY <2>1, <2>3, <2>4 DEF Heard
  <2>6. \A j \in 1..i : Matches(Rules[j], found, events) =>
            Range(Rules[j].recommendations) \ {""} \subseteq Range(new)
    BY <2>1, <2>3, <2>4 DEF Heard
  <2>7. Heard(new, i, found, events)
    BY <2>3, <2>5, <2>6 DEF Heard
  <2> QED
    BY <2>7 DEF new
<1> HIDE DEF T
<1>12. n \in T
  <2>1. \A i \in 0..n : i \in T
    BY <1>1, <1>10, <1>11, Induction
  <2> QED
    BY <1>1, <2>1
<1> QED
  BY <1>8, <1>12 DEF T

-----------------------------------------------------------------------------
(* Timeline and anchors *)

IsSeq(s) == s \in Seq(Range(s))

\* A function on 1..n is a list.
LEMMA ListOf ==
    ASSUME NEW n \in Nat, NEW s, s = [i \in 1..n |-> s[i]]
    PROVE  /\ IsSeq(s) /\ Len(s) = n /\ DOMAIN s = 1..n
           /\ \A i \in 1..n : s[i] \in Range(s)
<1>1. DOMAIN s = 1..n
  OBVIOUS
<1>2. \A i \in 1..n : s[i] \in Range(s)
  BY <1>1 DEF Range
<1> DEFINE R == Range(s)
<1>3. s \in [1..n -> R]
  BY <1>2
<1> HIDE DEF R
<1>4. s \in Seq(R) /\ Len(s) = n
  BY <1>3
<1> QED
  BY <1>1, <1>2, <1>4 DEF IsSeq, R

\* What a list is.
LEMMA SeqFacts ==
    ASSUME NEW s, IsSeq(s)
    PROVE  /\ Len(s) \in Nat /\ DOMAIN s = 1..Len(s)
           /\ s = [i \in 1..Len(s) |-> s[i]]
BY DEF IsSeq

\* The first m items of a list.
LEMMA FirstNFacts ==
    ASSUME NEW s, IsSeq(s), NEW m \in Nat
    PROVE  LET t == FirstN(s, m) IN
           /\ IsSeq(t)
           /\ Len(t) = IF Len(s) < m THEN Len(s) ELSE m
           /\ Len(t) <= Len(s)
           /\ \A i \in 1..Len(t) : t[i] = s[i]
<1> DEFINE k == IF Len(s) < m THEN Len(s) ELSE m
           t == FirstN(s, m)
           R == Range(s)
<1>1. s \in Seq(R) /\ Len(s) \in Nat
  BY DEF IsSeq
<1> HIDE DEF R
<1>2. k \in Nat /\ k <= Len(s)
  BY <1>1
<1>3. t = SubSeq(s, 1, k)
  BY DEF FirstN
<1> HIDE DEF k, t
<1>4. t = [i \in 1..k |-> t[i]] /\ \A i \in 1..k : t[i] = s[i]
  BY <1>1, <1>2, <1>3
<1>5. IsSeq(t) /\ Len(t) = k
  BY <1>2, <1>4, ListOf
<1> QED
  BY <1>2, <1>4, <1>5 DEF k, t

\* sort.Slice by time loses and invents nothing, and leaves the list in order.
LEMMA TimeOrders ==
    ASSUME NEW s, IsSeq(s), NEW t \in Orders(s, TimeOf)
    PROVE  /\ IsSeq(t) /\ Len(t) = Len(s) /\ Chronological(t) /\ Range(t) = Range(s)
           /\ \E p \in [1..Len(s) -> 1..Len(s)] :
                 /\ \A i, j \in 1..Len(s) :
                        i < j => p[i] # p[j] /\ s[p[i]].time <= s[p[j]].time
                 /\ \A i \in 1..Len(s) : t[i] = s[p[i]]
<1> DEFINE n == Len(s)
<1>1. n \in Nat /\ DOMAIN s = 1..n
  BY SeqFacts
<1>2. PICK p \in [1..n -> 1..n] :
          /\ \A i, j \in 1..n : i < j => p[i] # p[j] /\ s[p[i]].time <= s[p[j]].time
          /\ t = [i \in 1..n |-> s[p[i]]]
  BY <1>1 DEF Orders, TimeOf
<1> HIDE DEF n
<1>3. \A i \in 1..n : t[i] = s[p[i]] /\ p[i] \in 1..n
  BY <1>2
<1>4. t = [i \in 1..n |-> t[i]]
  BY <1>2
<1>5. IsSeq(t) /\ Len(t) = n /\ DOMAIN t = 1..n
  BY <1>1, <1>4, ListOf
<1>6. Chronological(t)
  <2>1. \A i, j \in 1..n : i < j => s[p[i]].time <= s[p[j]].time
    BY <1>2
  <2>2. ASSUME NEW i \in DOMAIN t, NEW j \in DOMAIN t, i < j PROVE t[i].time <= t[j].time
    <3>1. i \in 1..n /\ j \in 1..n
      BY <1>5
    <3>2. t[i] = s[p[i]] /\ t[j] = s[p[j]]
      BY <1>3, <3>1
    <3> QED
      BY <2>1, <2>2, <3>1, <3>2
  <2> QED
    BY <2>2 DEF Chronological
<1>7. \A i \in 1..n : \E j \in 1..n : p[j] = i
  <2>1. p \in [1..n -> 1..n] /\ \A i, j \in 1..n : i < j => p[i] # p[j]
    BY <1>2
  <2> QED
    BY <1>1, <2>1, SortsOnto
<1>8. Range(t) = Range(s)
  BY <1>1, <1>3, <1>5, <1>7 DEF Range
<1> QED
  BY <1>2, <1>3, <1>5, <1>6, <1>8 DEF n

\* Times and scores of anomalies are numbers.
LEMMA AnomalyFacts == \A a \in Anomalies : a.time \in Int /\ a.score \in Int
<1>1. \A a \in Anomalies : a.time \in 2..(Now - 2) /\ a.score \in Int
  BY AnalysisAssumption, Zenon
<1>2. Now \in Nat
  BY AnalysisAssumption, Zenon
<1> QED
  BY <1>1, <1>2

\* The timeline of an anomaly list is that list sorted by time by p, and cut.
SortedBy(p, found) ==
    LET n == Len(found) IN
    /\ p \in [1..n -> 1..n]
    /\ \A i, j \in 1..n : i < j => p[i] # p[j] /\ found[p[i]].time <= found[p[j]].time

\* buildTimeline sorts and cuts.
LEMMA TimelineSorts ==
    ASSUME NEW found \in Seq(Anomalies), NEW t \in Timelines(found)
    PROVE  /\ IsSeq(t) /\ Chronological(t)
           /\ Len(t) = IF Len(found) < EventLimit THEN Len(found) ELSE EventLimit
           /\ \E p : SortedBy(p, found) /\ \A i \in 1..Len(t) : t[i] = EventOf(found[p[i]])
<1> DEFINE n == Len(found)
           events == [i \in DOMAIN found |-> EventOf(found[i])]
<1>1. n \in Nat /\ DOMAIN found = 1..n
  OBVIOUS
<1>2. PICK u \in Orders(events, TimeOf) : t = FirstN(u, EventLimit)
  BY DEF Timelines
<1>3. /\ events = [i \in 1..n |-> events[i]]
      /\ \A i \in 1..n : events[i] = EventOf(found[i]) /\ events[i].time = found[i].time
  BY <1>1 DEF EventOf
<1> HIDE DEF events
<1>4. IsSeq(events) /\ Len(events) = n
  BY <1>1, <1>3, ListOf
<1>5. PICK p \in [1..n -> 1..n] :
          /\ \A i, j \in 1..n : i < j => p[i] # p[j] /\ events[p[i]].time <= events[p[j]].time
          /\ \A i \in 1..n : u[i] = events[p[i]]
  <2> DEFINE k == Len(events)
  <2>1. \E p \in [1..k -> 1..k] :
          /\ \A i, j \in 1..k : i < j => p[i] # p[j] /\ events[p[i]].time <= events[p[j]].time
          /\ \A i \in 1..k : u[i] = events[p[i]]
    BY <1>4, TimeOrders
  <2>2. k = n
    BY <1>4
  <2> HIDE DEF k, n
  <2> QED
    BY <2>1, <2>2
<1>6. IsSeq(u) /\ Len(u) = n /\ Chronological(u)
  BY <1>4, TimeOrders
<1>7. EventLimit \in Nat
  BY AnalysisAssumption
<1>8. /\ IsSeq(t) /\ Len(t) = (IF n < EventLimit THEN n ELSE EventLimit) /\ Len(t) <= n
      /\ \A i \in 1..Len(t) : t[i] = u[i]
  BY <1>2, <1>6, <1>7, FirstNFacts
<1>9. DOMAIN t = 1..Len(t) /\ DOMAIN u = 1..n /\ Len(t) \in Nat /\ 1..Len(t) \subseteq 1..n
  BY <1>1, <1>6, <1>8, SeqFacts
<1>10. Chronological(t)
  BY <1>6, <1>8, <1>9 DEF Chronological
<1>11. \A i \in 1..n : p[i] \in 1..n
  OBVIOUS
<1>12. SortedBy(p, found)
  BY <1>3, <1>5, <1>11 DEF SortedBy
<1>13. \A i \in 1..Len(t) : t[i] = EventOf(found[p[i]])
  BY <1>3, <1>5, <1>8, <1>9, <1>11
<1> QED
  BY <1>8, <1>10, <1>12, <1>13

\* buildTimeline: in order of time, with as many events as fit, and each of them
\* among the earliest.
LEMMA TimelineFacts ==
    ASSUME NEW found \in Seq(Anomalies), NEW t \in Timelines(found)
    PROVE  /\ IsSeq(t) /\ Chronological(t)
           /\ Len(t) = Len(FirstN(found, EventLimit))
           /\ \A i \in DOMAIN t : Cardinality({j \in DOMAIN found : found[j].time < t[i].time}) < i
<1> DEFINE n == Len(found)
           key == [i \in 1..n |-> found[i].time]
<1>1. n \in Nat /\ DOMAIN found = 1..n /\ EventLimit \in Nat
  <2>1. EventLimit \in Nat
    BY AnalysisAssumption
  <2>2. n \in Nat /\ DOMAIN found = 1..n
    OBVIOUS
  <2> QED
    BY <2>1, <2>2
<1>2. /\ key \in [1..n -> Int] /\ \A i \in 1..n : key[i] = found[i].time
  <2>1. \A i \in 1..n : found[i].time \in Int
    BY <1>1, AnomalyFacts
  <2> QED
    BY <2>1
<1>3. /\ IsSeq(t) /\ Chronological(t)
      /\ Len(t) = IF n < EventLimit THEN n ELSE EventLimit
  BY TimelineSorts
<1>4. PICK p : SortedBy(p, found) /\ \A i \in 1..Len(t) : t[i] = EventOf(found[p[i]])
  BY TimelineSorts
<1>5. DOMAIN t = 1..Len(t) /\ Len(t) \in Nat /\ 1..Len(t) \subseteq 1..n
  BY <1>1, <1>3, SeqFacts
<1>6. Len(FirstN(found, EventLimit)) = IF n < EventLimit THEN n ELSE EventLimit
  BY <1>1 DEF FirstN
<1> HIDE DEF key
<1>7. Sorts(p, n, key) /\ \A i \in 1..n : p[i] \in 1..n
  BY <1>2, <1>4 DEF Sorts, SortedBy
<1>8. ASSUME NEW i \in DOMAIN t
      PROVE  Cardinality({j \in DOMAIN found : found[j].time < t[i].time}) < i
  <2>1. i \in 1..n /\ i \in 1..Len(t) /\ i \in Nat
    BY <1>5
  <2>2. t[i].time = key[p[i]]
    <3>1. t[i] = EventOf(found[p[i]]) /\ p[i] \in 1..n
      BY <1>4, <1>7, <2>1
    <3>2. EventOf(found[p[i]]).time = found[p[i]].time
      BY DEF EventOf
    <3> QED
      BY <1>2, <3>1, <3>2
  <2>3. {j \in DOMAIN found : found[j].time < t[i].time} = {j \in 1..n : key[j] < key[p[i]]}
    BY <1>1, <1>2, <2>2
  <2>4. Cardinality({j \in 1..n : key[j] < key[p[i]]}) \in 0..(i - 1)
    BY <1>1, <1>2, <1>7, <2>1, SortedCounts
  <2> DEFINE c == Cardinality({j \in DOMAIN found : found[j].time < t[i].time})
  <2>5. c \in 0..(i - 1)
    BY <2>3, <2>4
  <2> HIDE DEF c
  <2>6. c < i
    BY <2>1, <2>5
  <2> QED
    BY <2>6 DEF c
<1> QED
  BY <1>3, <1>6, <1>8

\* buildAnchors: as many anchors as fit, each of them among the strongest
\* anomalies.
LEMMA AnchorFacts ==
    ASSUME NEW found \in Seq(Anomalies)
    PROVE  LET t == Strongest(found) IN
           /\ IsSeq(t)
           /\ Len(t) = Len(FirstN(found, AnchorLimit))
           /\ \A i \in DOMAIN t : Cardinality({j \in DOMAIN found : found[j].score > t[i].score}) < i
           /\ \A i \in DOMAIN t : t[i].kind \in {"metrics", "logs", "traces"}
<1> DEFINE n == Len(found)
           I == DOMAIN found
           key == [i \in 1..n |-> -found[i].score]
           order == CHOOSE p \in [I -> I] :
                       \A i, j \in I : i < j =>
                           \/ found[p[i]].score > found[p[j]].score
                           \/ found[p[i]].score = found[p[j]].score /\ p[i] < p[j]
           u == [i \in I |-> AnchorOf(found[order[i]])]
           t == Strongest(found)
<1>1. n \in Nat /\ I = 1..n /\ \A i \in 1..n : found[i] \in Anomalies
  OBVIOUS
<1>2. \A i \in 1..n : found[i].score \in Int
  BY <1>1, AnomalyFacts
<1>3. key \in [1..n -> Int] /\ \A i \in 1..n : key[i] = -found[i].score
  BY <1>2
<1> HIDE DEF key
<1>4. \E p \in [1..n -> 1..n] : \A i, j \in 1..n : i < j =>
          \/ key[p[i]] < key[p[j]]
          \/ key[p[i]] = key[p[j]] /\ p[i] < p[j]
  <2>1. n \in Nat
    BY <1>1
  <2> HIDE DEF n
  <2> QED
    BY <1>3, <2>1, CanBeSorted
<1>5. \E p \in [I -> I] : \A i, j \in I : i < j =>
          \/ found[p[i]].score > found[p[j]].score
          \/ found[p[i]].score = found[p[j]].score /\ p[i] < p[j]
  <2>1. PICK p \in [1..n -> 1..n] : \A i, j \in 1..n : i < j =>
            \/ key[p[i]] < key[p[j]]
            \/ key[p[i]] = key[p[j]] /\ p[i] < p[j]
    BY <1>4
  <2>2. \A i, j \in 1..n : i < j =>
            \/ found[p[i]].score > found[p[j]].score
            \/ found[p[i]].score = found[p[j]].score /\ p[i] < p[j]
    <3> SUFFICES ASSUME NEW i \in 1..n, NEW j \in 1..n, i < j
                 PROVE  \/ found[p[i]].score > found[p[j]].score
                        \/ found[p[i]].score = found[p[j]].score /\ p[i] < p[j]
        OBVIOUS
    <3>1. /\ key[p[i]] = -found[p[i]].score /\ key[p[j]] = -found[p[j]].score
          /\ found[p[i]].score \in Int /\ found[p[j]].score \in Int
      BY <1>2, <1>3
    <3> QED
      BY <2>1, <3>1
  <2> QED
    BY <1>1, <2>2
<1>6. /\ order \in [I -> I]
      /\ \A i, j \in I : i < j =>
          \/ found[order[i]].score > found[order[j]].score
          \/ found[order[i]].score = found[order[j]].score /\ order[i] < order[j]
  BY <1>5
<1>7. t = FirstN(u, AnchorLimit)
  BY DEF Strongest
<1> HIDE DEF order, t
<1>8. Sorts(order, n, key)
  <2>1. order \in [1..n -> 1..n]
    BY <1>1, <1>6
  <2>2. ASSUME NEW i \in 1..n, NEW j \in 1..n, i < j
        PROVE  order[i] # order[j] /\ key[order[i]] <= key[order[j]]
    <3>1. order[i] \in 1..n /\ order[j] \in 1..n
      BY <2>1
    <3>2. /\ key[order[i]] = -found[order[i]].score /\ key[order[j]] = -found[order[j]].score
          /\ found[order[i]].score \in Int /\ found[order[j]].score \in Int
      BY <1>2, <1>3, <3>1
    <3>3. \/ found[order[i]].score > found[order[j]].score
          \/ found[order[i]].score = found[order[j]].score /\ order[i] < order[j]
      BY <1>1, <1>6, <2>2
    <3> DEFINE x == found[order[i]].score
               y == found[order[j]].score
    <3>4. x \in Int /\ y \in Int /\ x >= y
      BY <3>2, <3>3
    <3>5. order[i] # order[j]
      BY <3>1, <3>2, <3>3
    <3>6. key[order[i]] = -x /\ key[order[j]] = -y
      BY <3>2
    <3> HIDE DEF x, y
    <3>7. -x <= -y
      BY <3>4
    <3> QED
      BY <3>5, <3>6, <3>7
  <2> QED
    BY <2>1, <2>2 DEF Sorts
<1>9. /\ u = [i \in 1..n |-> u[i]]
      /\ \A i \in 1..n : u[i].score = found[order[i]].score /\ u[i].kind = found[order[i]].kind
  BY <1>1 DEF AnchorOf
<1> HIDE DEF u
<1>10. IsSeq(u) /\ Len(u) = n
  BY <1>1, <1>9, ListOf
<1>11. AnchorLimit \in Nat
  BY AnalysisAssumption
<1>12. /\ IsSeq(t) /\ Len(t) = (IF n < AnchorLimit THEN n ELSE AnchorLimit) /\ Len(t) <= n
       /\ \A i \in 1..Len(t) : t[i] = u[i]
  BY <1>7, <1>10, <1>11, FirstNFacts
<1>13. DOMAIN t = 1..Len(t) /\ Len(t) \in Nat /\ 1..Len(t) \subseteq 1..n
  BY <1>1, <1>12, SeqFacts
<1>14. Len(FirstN(found, AnchorLimit)) = IF n < AnchorLimit THEN n ELSE AnchorLimit
  BY <1>1, <1>11 DEF FirstN
<1>15. ASSUME NEW i \in DOMAIN t
       PROVE  Cardinality({j \in DOMAIN found : found[j].score > t[i].score}) < i
  <2> DEFINE c == Cardinality({j \in DOMAIN found : found[j].score > t[i].score})
  <2>1. i \in 1..n /\ i \in 1..Len(t) /\ i \in Nat
    BY <1>13
  <2>2. t[i].score = found[order[i]].score /\ order[i] \in 1..n
    BY <1>8, <1>9, <1>12, <2>1 DEF Sorts
  <2>3. t[i].score \in Int /\ key[order[i]] = -t[i].score
    BY <1>2, <1>3, <2>2
  <2>4. \A j \in 1..n : found[j].score > t[i].score <=> key[j] < key[order[i]]
    BY <1>2, <1>3, <2>3
  <2>5. {j \in DOMAIN found : found[j].score > t[i].score} = {j \in 1..n : key[j] < key[order[i]]}
    BY <1>1, <2>4
  <2>6. Cardinality({j \in 1..n : key[j] < key[order[i]]}) \in 0..(i - 1)
    BY <1>1, <1>3, <1>8, <2>1, SortedCounts
  <2>7. c \in 0..(i - 1)
    BY <2>5, <2>6
  <2> HIDE DEF c
  <2>8. c < i
    BY <2>1, <2>7
  <2> QED
    BY <2>8 DEF c
<1>16. ASSUME NEW i \in DOMAIN t PROVE t[i].kind \in {"metrics", "logs", "traces"}
  <2>1. i \in 1..n /\ i \in 1..Len(t)
    BY <1>13
  <2>2. t[i].kind = found[order[i]].kind /\ order[i] \in 1..n
    BY <1>8, <1>9, <1>12, <2>1 DEF Sorts
  <2>3. \A a \in Anomalies : a.kind \in {"metrics", "logs", "traces"}
    BY AnalysisAssumption, Zenon
  <2> QED
    BY <1>1, <2>2, <2>3
<1> QED
  BY <1>12, <1>14, <1>15, <1>16 DEF t

-----------------------------------------------------------------------------
(* Evidence on the timeline and in the anomalies *)

\* The first event of a service is the earliest of its events.
LEMMA FirstEvent ==
    ASSUME NEW t, IsSeq(t), Chronological(t), NEW service
    PROVE  /\ FirstEventTime(service, t) = ZeroTime
              \/ \E i \in 1..Len(t) : EqualFold(t[i].service, service)
           /\ \A i \in 1..Len(t) : EqualFold(t[i].service, service) =>
                  \E k \in 1..i : /\ EqualFold(t[k].service, service)
                                  /\ FirstEventTime(service, t) = t[k].time
                                  /\ \A j \in 1..Len(t) : EqualFold(t[j].service, service) => k <= j
<1> DEFINE hits == {i \in DOMAIN t : EqualFold(t[i].service, service)}
<1>1. DOMAIN t = 1..Len(t) /\ Len(t) \in Nat
  BY SeqFacts
<1>2. FirstEventTime(service, t) = IF hits = {} THEN ZeroTime ELSE t[Min(hits)].time
  BY DEF FirstEventTime
<1>3. \A i \in hits : i \in 1..Len(t) /\ EqualFold(t[i].service, service)
  BY <1>1
<1>4. \A i \in 1..Len(t) : EqualFold(t[i].service, service) => i \in hits
  BY <1>1
<1>5. hits \in SUBSET Nat
  BY <1>1
<1> HIDE DEF hits
<1>6. ASSUME hits # {} PROVE Min(hits) \in hits /\ \A j \in hits : Min(hits) <= j
  <2>1. \E x \in hits : \A y \in hits : x <= y
    BY <1>5, <1>6, Least
  <2> QED
    BY <2>1 DEF Min
<1>7. ASSUME NEW i \in 1..Len(t), EqualFold(t[i].service, service)
      PROVE  \E k \in 1..i : /\ EqualFold(t[k].service, service)
                             /\ FirstEventTime(service, t) = t[k].time
                             /\ \A j \in 1..Len(t) : EqualFold(t[j].service, service) => k <= j
  <2> DEFINE k == Min(hits)
  <2>1. i \in hits
    BY <1>4, <1>7
  <2>2. k \in hits /\ k <= i /\ \A j \in hits : k <= j
    BY <1>6, <2>1
  <2>3. FirstEventTime(service, t) = t[k].time
    BY <1>2, <2>1
  <2> HIDE DEF k
  <2>4. k \in 1..i /\ EqualFold(t[k].service, service)
    BY <1>1, <1>3, <2>2
  <2> QED
    BY <1>4, <2>2, <2>3, <2>4
<1> QED
  BY <1>2, <1>3, <1>7

\* What the timeline says against an upstream, all anomalies say: none that was cut
\* is earlier than an event that was kept.
LEMMA EvidenceSurvivesCut ==
    ASSUME NEW found \in Seq(Anomalies), NEW t \in Timelines(found), t # <<>>,
           NEW e \in Edges, Supports(e, t)
    PROVE  TellsAgainst(e, found)
<1> DEFINE n == Len(found)
           m == Len(t)
           upstream == Of(e.source, found)
           own == Of(Root, found)
           at == FirstEventTime(e.source, t)
<1>1. /\ n \in Nat /\ DOMAIN found = 1..n /\ EventLimit \in Nat
      /\ \A i \in 1..n : found[i].time \in Int /\ found[i].time > 0
  <2>1. \A a \in Anomalies : a.time \in 2..(Now - 2)
    BY AnalysisAssumption, Zenon
  <2>2. Now \in Nat /\ EventLimit \in Nat
    BY AnalysisAssumption, Zenon
  <2>3. \A i \in 1..n : found[i] \in Anomalies
    OBVIOUS
  <2> HIDE DEF n
  <2>4. ASSUME NEW i \in 1..n PROVE found[i].time \in Int /\ found[i].time > 0
    <3>1. found[i].time \in 2..(Now - 2)
      BY <2>1, <2>3
    <3> QED
      BY <2>2, <3>1
  <2>5. n \in Nat /\ DOMAIN found = 1..n
    BY DEF n
  <2> QED
    BY <2>2, <2>4, <2>5
<1>2. /\ IsSeq(t) /\ Chronological(t) /\ m = IF n < EventLimit THEN n ELSE EventLimit
      /\ DOMAIN t = 1..m /\ m \in Nat
  BY TimelineSorts, SeqFacts
<1>3. PICK p : SortedBy(p, found) /\ \A i \in 1..m : t[i] = EventOf(found[p[i]])
  BY TimelineSorts
<1>4. /\ \A i \in 1..n : p[i] \in 1..n
      /\ \A i, j \in 1..n : i < j => p[i] # p[j] /\ found[p[i]].time <= found[p[j]].time
  BY <1>3 DEF SortedBy
<1>5. \A j \in 1..n : \E i \in 1..n : p[i] = j
  <2>1. p \in [1..n -> 1..n]
    BY <1>3 DEF SortedBy
  <2>2. n \in Nat /\ \A i, j \in 1..n : i < j => p[i] # p[j]
    BY <1>1, <1>4
  <2> HIDE DEF n
  <2> QED
    BY <2>1, <2>2, SortsOnto
<1>6. m <= n /\ \A i \in 1..m : /\ i \in 1..n /\ p[i] \in 1..n
                               /\ t[i].time = found[p[i]].time
                               /\ t[i].service = found[p[i]].service
  <2>1. m <= n /\ \A i \in 1..m : i \in 1..n
    BY <1>1, <1>2
  <2>2. ASSUME NEW i \in 1..m
        PROVE  t[i].time = found[p[i]].time /\ t[i].service = found[p[i]].service
    <3>1. t[i] = EventOf(found[p[i]])
      BY <1>3
    <3>2. /\ EventOf(found[p[i]]).time = found[p[i]].time
          /\ EventOf(found[p[i]]).service = found[p[i]].service
      BY DEF EventOf
    <3> QED
      BY <3>1, <3>2
  <2> QED
    BY <1>4, <2>1, <2>2
<1>7. /\ upstream = {i \in 1..n : EqualFold(found[i].service, e.source)}
      /\ own = {i \in 1..n : EqualFold(found[i].service, Root)}
  BY <1>1 DEF Of
<1>8. EqualFold(e.target, Root) /\ IF at = ZeroTime THEN e.errors > 0 ELSE at < RootTime(t)
  BY DEF Supports, Silent, Earlier
<1> HIDE DEF n, m, upstream, own, at
<1>9. CASE at # ZeroTime
  <2>1. PICK i \in 1..m : EqualFold(t[i].service, e.source)
    BY <1>2, <1>9, FirstEvent DEF at, m
  <2>2. PICK k \in 1..m : EqualFold(t[k].service, e.source) /\ at = t[k].time
    <3>1. PICK k \in 1..i : EqualFold(t[k].service, e.source) /\ at = t[k].time
      BY <1>2, <2>1, FirstEvent DEF at, m
    <3>2. k \in 1..m
      BY <1>2, <2>1
    <3> QED
      BY <3>1, <3>2
  <2>3. at < RootTime(t)
    BY <1>8, <1>9
  <2>4. /\ t[1].time <= at
        /\ at \in Int /\ 1 \in 1..m
    <3>1. 1 \in 1..m /\ t[k].time \in Int
      BY <1>1, <1>2, <1>6, <2>2
    <3>2. t[1].time <= t[k].time
      <4>1. CASE k = 1
        BY <3>1, <4>1
      <4>2. CASE k # 1
        BY <1>2, <2>2, <3>1, <4>2 DEF Chronological
      <4> QED
        BY <4>1, <4>2
    <3> QED
      BY <2>2, <3>1, <3>2
  <2>5. FirstEventTime(Root, t) # ZeroTime /\ RootTime(t) = FirstEventTime(Root, t)
    <3>1. RootTime(t) = IF FirstEventTime(Root, t) = ZeroTime THEN t[1].time ELSE FirstEventTime(Root, t)
      BY DEF RootTime
    <3>2. t[1].time \in Int
      BY <1>1, <1>6, <2>4
    <3> QED
      BY <2>3, <2>4, <3>1, <3>2
  <2>6. PICK h \in 1..m : EqualFold(t[h].service, Root)
    BY <1>2, <2>5, FirstEvent DEF m
  <2>7. PICK r \in 1..h : /\ EqualFold(t[r].service, Root) /\ FirstEventTime(Root, t) = t[r].time
                         /\ \A j \in 1..m : EqualFold(t[j].service, Root) => r <= j
    BY <1>2, <2>6, FirstEvent DEF m
  <2>8. r \in 1..m /\ t[k].time < t[r].time
    BY <1>2, <2>2, <2>3, <2>5, <2>7
  <2>9. p[k] \in upstream /\ p[r] \in own /\ found[p[k]].time < found[p[r]].time
    BY <1>6, <1>7, <2>2, <2>7, <2>8
  <2>10. ASSUME NEW j \in own PROVE found[p[k]].time < found[j].time
    <3>1. j \in 1..n /\ EqualFold(found[j].service, Root)
      BY <1>7
    <3>2. PICK x \in 1..n : p[x] = j
      BY <1>5, <3>1
    <3>3. r <= x
      <4>1. CASE x \in 1..m
        <5>1. EqualFold(t[x].service, Root)
          BY <1>6, <3>1, <3>2, <4>1
        <5> QED
          BY <2>7, <4>1, <5>1
      <4>2. CASE x \notin 1..m
        BY <1>1, <1>2, <2>8, <3>2, <4>2
      <4> QED
        BY <4>1, <4>2
    <3>4. found[p[r]].time <= found[p[x]].time
      <4>1. r \in 1..n /\ found[p[r]].time \in Int
        BY <1>1, <1>6, <2>8
      <4>2. CASE r = x
        BY <4>1, <4>2
      <4>3. CASE r # x
        BY <1>1, <1>4, <3>2, <3>3, <4>1, <4>3
      <4> QED
        BY <4>2, <4>3
    <3>5. /\ found[p[k]].time \in Int /\ found[p[r]].time \in Int /\ found[j].time \in Int
      BY <1>1, <1>6, <2>2, <2>8, <3>1
    <3> QED
      BY <2>9, <3>2, <3>4, <3>5
  <2> QED
    BY <1>8, <2>9, <2>10 DEF TellsAgainst, upstream, own
<1>10. CASE at = ZeroTime
  <2>1. \A i \in 1..m : ~EqualFold(t[i].service, e.source)
    <3> SUFFICES ASSUME NEW i \in 1..m, EqualFold(t[i].service, e.source) PROVE FALSE
        OBVIOUS
    <3>1. PICK k \in 1..i : at = t[k].time
      BY <1>2, FirstEvent DEF at, m
    <3>2. k \in 1..m
      BY <1>2
    <3>3. t[k].time > 0 /\ t[k].time \in Int
      BY <1>1, <1>6, <3>2
    <3> QED
      BY <1>10, <3>1, <3>3 DEF ZeroTime
  <2>2. ASSUME NEW i \in upstream
        PROVE  EventLimit <= Cardinality({j \in DOMAIN found \ upstream : found[j].time <= found[i].time})
    <3> DEFINE Kept == {p[j] : j \in 1..m}
               S == {j \in DOMAIN found \ upstream : found[j].time <= found[i].time}
    <3>1. i \in 1..n /\ EqualFold(found[i].service, e.source)
      BY <1>7
    <3>2. PICK x \in 1..n : p[x] = i
      BY <1>5, <3>1
    <3>3. x \notin 1..m
      <4> SUFFICES ASSUME x \in 1..m PROVE FALSE
          OBVIOUS
      <4>1. EqualFold(t[x].service, e.source)
        BY <1>6, <3>1, <3>2
      <4> QED
        BY <2>1, <4>1
    <3>4. m = EventLimit /\ \A j \in 1..m : j < x
      BY <1>1, <1>2, <3>2, <3>3
    <3>5. Kept \subseteq S
      <4> SUFFICES ASSUME NEW j \in 1..m PROVE p[j] \in S
          OBVIOUS
      <4>1. p[j] \in 1..n /\ j \in 1..n
        BY <1>6
      <4>2. p[j] \notin upstream
        BY <1>6, <1>7, <2>1
      <4>3. found[p[j]].time <= found[i].time
        BY <1>4, <3>2, <3>4, <4>1
      <4> QED
        BY <1>1, <4>1, <4>2, <4>3
    <3>6. IsFiniteSet(S) /\ IsFiniteSet(1..m) /\ Cardinality(1..m) = m
      <4>1. S \in SUBSET (1..n)
        BY <1>1
      <4>2. IsFiniteSet(1..n) /\ IsFiniteSet(1..m) /\ Cardinality(1..m) = m
        BY <1>1, <1>2, FS_Interval
      <4> HIDE DEF S
      <4> QED
        BY <4>1, <4>2, FS_Subset
    <3>7. Cardinality(1..m) <= Cardinality(S)
      <4> DEFINE f == [j \in 1..m |-> p[j]]
      <4>1. f \in [1..m -> S]
        BY <3>5
      <4>2. ASSUME NEW a \in 1..m, NEW b \in 1..m, f[a] = f[b] PROVE a = b
        <5>1. a \in 1..n /\ b \in 1..n /\ p[a] = p[b]
          BY <1>6, <4>2
        <5>2. ~(a < b) /\ ~(b < a)
          BY <1>4, <5>1
        <5> QED
          BY <1>1, <5>1, <5>2
      <4> HIDE DEF f, S
      <4>3. f \in Injection(1..m, S)
        BY <4>1, <4>2 DEF Injection, IsInjective
      <4> QED
        BY <3>6, <4>3, FS_Injection
    <3> QED
      BY <3>4, <3>6, <3>7
  <2> QED
    BY <1>8, <1>10, <2>2 DEF TellsAgainst, upstream
<1> QED
  BY <1>9, <1>10

-----------------------------------------------------------------------------
(* Confidence *)

\* The highest of some scores, or 0, exists.
LEMMA Highest ==
    ASSUME NEW n \in Nat, NEW K \in SUBSET (1..n), NEW f, \A i \in K : f[i] \in Int,
           NEW S, 0 \in S, \A i \in K : f[i] \in S,
           \A y \in S : y = 0 \/ \E i \in K : y = f[i]
    PROVE  Max(S) \in S /\ Max(S) \in Nat /\ \A y \in S : y <= Max(S)
<1> DEFINE A(m) == {f[i] : i \in K \cap (1..m)} \cup {0}
           T == {m \in 0..n : \E x \in A(m) : \A y \in A(m) : x >= y}
<1>1. 0 \in T
  <2>1. A(0) = {0}
    OBVIOUS
  <2> QED
    BY <2>1
<1>2. ASSUME NEW m \in 1..n, m - 1 \in T PROVE m \in T
  <2>1. PICK x \in A(m - 1) : \A y \in A(m - 1) : x >= y
    BY <1>2
  <2>2. x \in Int /\ m \in 0..n
    BY <2>1
  <2>3. CASE m \notin K
    <3>1. K \cap (1..m) = K \cap (1..(m - 1))
      BY <2>3
    <3>2. A(m) = A(m - 1)
      BY <3>1
    <3> HIDE DEF A
    <3> QED
      BY <2>1, <2>2, <3>2
  <2>4. CASE m \in K
    <3>1. K \cap (1..m) = (K \cap (1..(m - 1))) \cup {m}
      BY <2>4
    <3>2. A(m) = A(m - 1) \cup {f[m]}
      BY <3>1
    <3>3. f[m] \in Int /\ \A y \in A(m - 1) : y \in Int
      BY <2>4
    <3> HIDE DEF A
    <3>4. CASE f[m] >= x
      <4>1. f[m] \in A(m) /\ \A y \in A(m) : f[m] >= y
        BY <2>1, <2>2, <3>2, <3>3, <3>4
      <4> QED
        BY <2>2, <4>1
    <3>5. CASE ~(f[m] >= x)
      <4>1. x \in A(m) /\ \A y \in A(m) : x >= y
        BY <2>1, <2>2, <3>2, <3>3, <3>5
      <4> QED
        BY <2>2, <4>1
    <3> QED
      BY <3>4, <3>5
  <2> QED
    BY <2>3, <2>4
<1> HIDE DEF T
<1>3. n \in T
  BY <1>1, <1>2, Induction
<1>4. K \cap (1..n) = K
  OBVIOUS
<1>5. S = A(n)
  BY <1>4
<1>6. \E x \in S : \A y \in S : x >= y
  BY <1>3, <1>5 DEF T
<1>7. \A y \in S : y \in Int
  OBVIOUS
<1>8. 0 \in S
  OBVIOUS
<1>9. Max(S) \in S /\ \A y \in S : Max(S) >= y
  BY <1>6 DEF Max
<1>10. Max(S) \in Nat /\ \A y \in S : y <= Max(S)
  BY <1>7, <1>8, <1>9
<1> QED
  BY <1>9, <1>10

\* The smaller of two numbers.
LEMMA Smaller ==
    ASSUME NEW a \in Int, NEW b \in Int, NEW S, S = {a, b}
    PROVE  Min(S) \in S /\ Min(S) <= a /\ Min(S) <= b
<1>1. \E x \in S : \A y \in S : x =< y
  <2>1. CASE a <= b
    BY <2>1
  <2>2. CASE ~(a <= b)
    <3>1. b <= a
      BY <2>2
    <3> QED
      BY <3>1
  <2> QED
    BY <2>1, <2>2
<1> QED
  BY <1>1 DEF Min

\* No kind of signal takes from the confidence.
LEMMA ShareFacts ==
    ASSUME NEW found \in Seq(Anomalies), NEW kind, NEW perScore \in Nat, NEW limit \in Nat
    PROVE  Share(found, kind, perScore, limit) \in Nat
<1> DEFINE n == Len(found)
           K == {j \in DOMAIN found : found[j].kind = kind}
           f == [i \in 1..n |-> found[i].score]
           scores == {found[i].score : i \in K}
           top == Max(scores \cup {0})
<1>1. n \in Nat /\ DOMAIN found = 1..n /\ \A i \in 1..n : found[i] \in Anomalies
  OBVIOUS
<1>2. K \in SUBSET (1..n)
  BY <1>1
<1>3. (\A i \in K : f[i] = found[i].score) /\ \A i \in K : f[i] \in Int
  BY <1>1, <1>2, AnomalyFacts
<1> HIDE DEF K, f, n
<1>4. scores = {f[i] : i \in K}
  BY <1>3
<1> HIDE DEF scores
<1>5. top \in Nat
  <2>n. n \in Nat /\ (\A i \in K : f[i] \in Int)
    BY <1>1, <1>3 DEF n
  <2> DEFINE S == scores \cup {0}
  <2>1. 0 \in S /\ (\A i \in K : f[i] \in S) /\ \A y \in S : y = 0 \/ \E i \in K : y = f[i]
    BY <1>4
  <2> HIDE DEF S
  <2>2. Max(S) \in Nat
    BY <1>2, <2>n, <2>1, Highest
  <2> QED
    BY <2>2 DEF S
<1>6. Share(found, kind, perScore, limit)
        = IF scores = {} THEN 0 ELSE 150 + Min({perScore * top, limit})
  BY DEF Share, scores, K
<1> HIDE DEF top
<1>7. perScore * top \in Nat
  BY <1>5
<1>8. Min({perScore * top, limit}) \in Nat
  <2> DEFINE a == perScore * top
             S == {a, limit}
  <2>1. a \in Nat /\ a \in Int /\ limit \in Int
    BY <1>7
  <2> HIDE DEF a
  <2>2. S = {a, limit}
    OBVIOUS
  <2> HIDE DEF S
  <2>3. Min(S) \in S
    BY <2>1, <2>2, Smaller, Zenon
  <2>4. Min(S) \in Nat
    BY <2>1, <2>2, <2>3
  <2> QED
    BY <2>4 DEF a, S
<1> QED
  BY <1>6, <1>8

\* computeConfidence stays between nothing and certainty.
LEMMA ConfidenceFacts ==
    ASSUME NEW found \in Seq(Anomalies)
    PROVE  ComputeConfidence(found) \in 0..600
<1> DEFINE sum == Share(found, "metrics", 75, 150) + Share(found, "logs", 100, 120)
                    + Share(found, "traces", 100, 120)
           one == 600
           S == {one, sum}
           c == ComputeConfidence(found)
<1>1. sum \in Nat /\ sum \in Int /\ one \in Int
  BY ShareFacts
<1>2. c = Min(S)
  BY DEF ComputeConfidence
<1> HIDE DEF sum, one, c
<1>3. S = {one, sum}
  OBVIOUS
<1> HIDE DEF S
<1>4. c \in S /\ c <= one
  BY <1>1, <1>2, <1>3, Smaller, Zenon
<1>5. c = one \/ c = sum
  BY <1>3, <1>4
<1>6. c \in Nat
  BY <1>1, <1>5 DEF one
<1>7. c <= 600
  BY <1>4 DEF one
<1>8. c \in 0..600
  BY <1>6, <1>7
<1> QED
  BY <1>8 DEF c

\* The causality score is 0 or at least 0.4, and never above 1.
LEMMA ScoreFacts ==
    ASSUME NEW v \in Verdicts, v.supporting <= v.total
    PROVE  Score(v) = 0 \/ Score(v) \in 240..600
<1>1. v.total \in Nat /\ v.supporting \in Nat
  BY DEF Verdicts
<1> DEFINE s == v.supporting
           t == v.total
<1>2. CASE t = 0
  BY <1>2 DEF Score
<1>3. CASE t # 0
  <2> HIDE DEF s, t
  <2>1. s \in Nat /\ t \in Nat /\ t > 0 /\ s <= t
    BY <1>1, <1>3 DEF s, t
  <2> DEFINE q == (360 * s) \div t
  <2>2. q \in Int /\ t * q <= 360 * s /\ 360 * s < t * q + t
    BY <2>1
  <2> HIDE DEF q
  <2>3. q >= 0
    <3> SUFFICES ASSUME q <= -1 PROVE FALSE
        BY <2>2
    <3>1. t * (q + 1) <= 0
      BY <2>1, <2>2
    <3>2. t * (q + 1) = t * q + t
      BY <2>1, <2>2
    <3> QED
      BY <2>1, <2>2, <3>1, <3>2
  <2>4. q <= 360
    <3> SUFFICES ASSUME q >= 361 PROVE FALSE
        BY <2>2
    <3>1. t * (q - 361) >= 0
      BY <2>1, <2>2
    <3>2. t * (q - 361) = t * q - 361 * t
      BY <2>1, <2>2
    <3> QED
      BY <2>1, <2>2, <3>1, <3>2
  <2>5. Score(v) = 240 + q
    BY <1>3 DEF Score, q, s, t
  <2> QED
    BY <2>2, <2>3, <2>4, <2>5
<1> QED
  BY <1>2, <1>3

-----------------------------------------------------------------------------
(* The inductive invariant *)

Stages == {"detected", "built", "judged", "advised", "suggested", "done"}

\* Analyze works on the anomalies and on the graph it was given.
GivenInputs ==
    stage \in Stages /\ anomalies \in Seq(Anomalies) /\ edges \in Seq(Edges)

\* Anchors and confidence are those of the anomalies, and so is the timeline until
\* an event is added to it.
BuiltFromAnomalies ==
    /\ stage # "detected" => anchors = Strongest(anomalies)
    /\ stage \in {"built", "judged", "advised"} => timeline \in Timelines(anomalies)
    /\ stage \in {"built", "judged", "advised", "suggested"} =>
           confidence = ComputeConfidence(anomalies)
    /\ stage = "done" => confidence = Calibrate(ComputeConfidence(anomalies), Score(verdict))

\* A verdict that replaces the root cause names an edge that tells against the
\* upstream by all anomalies.
SoundVerdict ==
    /\ stage = "judged" => verdict = Evaluate(timeline, edges)
    /\ stage \in {"judged", "advised", "suggested", "done"} =>
           /\ verdict \in Verdicts /\ verdict.supporting <= verdict.total
           /\ Overrides(verdict) =>
                  \E i \in DOMAIN edges : edges[i] = verdict.edge /\ TellsAgainst(edges[i], anomalies)

\* The root cause is an upstream only if the verdict has replaced it.
NamedRootCause ==
    rootCause.why = "upstream" =>
        /\ stage \in {"suggested", "done"}
        /\ Overrides(verdict) /\ rootCause.service = Suggested(verdict)

\* Only the event of a suggestion is out of order.
SortedUnlessSuggested ==
    stage = "suggested" =>
        IsSeq(timeline) /\ (~Overrides(verdict) => Chronological(timeline))

\* Advice of rules is advice of rules that match, and stays borne out while the
\* answer grows.
MatchedAdvice ==
    stage = "advised" /\ advice.from = "rules" =>
        \A item \in Range(advice.items) : \E i \in DOMAIN Rules :
            item \in Range(Rules[i].recommendations) /\ Matches(Rules[i], anchors, timeline)
BorneOutAdvice ==
    stage \in {"suggested", "done"} /\ advice.from = "rules" =>
        \A item \in Range(advice.items) : \E i \in DOMAIN Rules :
            item \in Range(Rules[i].recommendations) /\ BearsOut(Rules[i])

AnalysisInv ==
    /\ GivenInputs
    /\ BuiltFromAnomalies
    /\ SoundVerdict
    /\ NamedRootCause
    /\ SortedUnlessSuggested
    /\ MatchedAdvice
    /\ BorneOutAdvice
    /\ ChronologicalTimeline

\* The inputs of Analyze satisfy the invariant.
LEMMA InitInv == Init => AnalysisInv
<1> SUFFICES ASSUME Init PROVE AnalysisInv
    OBVIOUS
<1>1. stage = "detected" /\ stage \in Stages
  BY DEF Init, Stages
<1>2. ASSUME NEW S, NEW n, NEW s \in BoundedSeq(S, n), n \in Nat PROVE s \in Seq(S)
  <2>1. PICK m \in 0..n : s \in [1..m -> S]
    BY <1>2 DEF BoundedSeq, SeqOf
  <2>2. m \in Nat
    BY <1>2
  <2> QED
    BY <2>1, <2>2
<1>3. MaxAnomalies \in Nat /\ MaxEdges \in Nat
  BY AnalysisAssumption
<1>4. anomalies \in BoundedSeq(Anomalies, MaxAnomalies) /\ edges \in BoundedSeq(Edges, MaxEdges)
  BY DEF Init
<1>5. GivenInputs
  BY <1>1, <1>2, <1>3, <1>4 DEF GivenInputs
<1>6. NamedRootCause
  <2>1. rootCause.why = "unknown"
    BY DEF Init
  <2> QED
    BY <2>1 DEF NamedRootCause
<1> QED
  BY <1>1, <1>5, <1>6 DEF AnalysisInv, BuiltFromAnomalies, SoundVerdict, SortedUnlessSuggested,
     MatchedAdvice, BorneOutAdvice, ChronologicalTimeline

\* What Evaluate says whatever the timeline, an empty one included.
LEMMA VerdictFacts ==
    ASSUME NEW events, NEW graph \in Seq(Edges)
    PROVE  LET v == Evaluate(events, graph) IN
           /\ v \in Verdicts /\ v.supporting <= v.total
           /\ Overrides(v) => /\ events # <<>>
                              /\ \E i \in DOMAIN graph : graph[i] = v.edge /\ Supports(graph[i], events)
<1> DEFINE v == Evaluate(events, graph)
<1>1. DOMAIN graph = 1..Len(graph)
  OBVIOUS
<1>2. CASE events = <<>>
  <2>1. v = Nothing
    BY <1>2, EvaluateFacts
  <2>2. /\ Nothing \in Verdicts /\ Nothing.supporting <= Nothing.total
        /\ Nothing.edge = NoEdge /\ NoEdge.source = ""
    BY DEF Nothing, Verdicts, NoEdge
  <2> HIDE DEF v
  <2>3. ~Overrides(v)
    BY <2>1, <2>2 DEF Overrides, Suggested
  <2> QED
    BY <2>1, <2>2, <2>3 DEF v
<1>3. CASE events # <<>>
  <2>1. Judged(v, Len(graph), events, graph)
    BY <1>3, EvaluateFacts
  <2> HIDE DEF v
  <2>2. Overrides(v) => v.edge # NoEdge
    BY EdgeFacts DEF Overrides, Suggested
  <2>3. v \in Verdicts /\ v.supporting <= v.total
    BY <2>1 DEF Judged
  <2>4. Overrides(v) => \E i \in DOMAIN graph : graph[i] = v.edge /\ Supports(graph[i], events)
    BY <1>1, <2>1, <2>2 DEF Judged
  <2> QED
    BY <1>3, <2>3, <2>4 DEF v
<1> QED
  BY <1>2, <1>3

\* Each step of Analyze keeps the invariant: anchors, timeline and confidence are
\* built.
LEMMA BuildInv == AnalysisInv /\ Build => AnalysisInv'
<1> SUFFICES ASSUME AnalysisInv, Build PROVE AnalysisInv'
    OBVIOUS
<1>1. stage' = "built" /\ stage' \in Stages
  BY DEF Build, Stages
<1>2. GivenInputs'
  BY <1>1 DEF AnalysisInv, GivenInputs, Build
<1>3. BuiltFromAnomalies'
  BY <1>1 DEF BuiltFromAnomalies, Build
<1>4. NamedRootCause'
  <2>1. anomalies \in Seq(Anomalies) /\ rootCause' = DeriveRootCause(Strongest(anomalies))
    BY DEF AnalysisInv, GivenInputs, Build
  <2>2. (rootCause').why # "upstream"
    <3> DEFINE t == Strongest(anomalies)
    <3>1. IsSeq(t) /\ \A i \in DOMAIN t : t[i].kind \in {"metrics", "logs", "traces"}
      BY <2>1, AnchorFacts
    <3>2. rootCause' = DeriveRootCause(t)
      BY <2>1
    <3> HIDE DEF t
    <3>3. CASE t = <<>>
      BY <3>2, <3>3 DEF DeriveRootCause
    <3>4. CASE t # <<>>
      <4>1. 1 \in DOMAIN t
        <5> DEFINE R == Range(t)
        <5>1. t \in Seq(R)
          BY <3>1 DEF IsSeq
        <5> HIDE DEF R
        <5> QED
          BY <3>4, <5>1
      <4>2. (rootCause').why = t[1].kind
        BY <3>2, <3>4 DEF DeriveRootCause
      <4> QED
        BY <3>1, <4>1, <4>2
    <3> QED
      BY <3>3, <3>4
  <2> QED
    BY <2>2 DEF NamedRootCause
<1> QED
  BY <1>1, <1>2, <1>3, <1>4 DEF AnalysisInv, SoundVerdict, SortedUnlessSuggested,
     MatchedAdvice, BorneOutAdvice, ChronologicalTimeline

\* The causality engine gives its verdict.
LEMMA JudgeInv == AnalysisInv /\ Judge => AnalysisInv'
<1> SUFFICES ASSUME AnalysisInv, Judge PROVE AnalysisInv'
    OBVIOUS
<1>1. /\ stage = "built" /\ stage' = "judged" /\ stage' \in Stages
      /\ anomalies' = anomalies /\ edges' = edges /\ anchors' = anchors
      /\ timeline' = timeline /\ confidence' = confidence /\ rootCause' = rootCause
      /\ verdict' = Evaluate(timeline, edges)
  BY DEF Judge, Stages
<1>2. GivenInputs'
  BY <1>1 DEF AnalysisInv, GivenInputs
<1>3. BuiltFromAnomalies'
  BY <1>1 DEF AnalysisInv, BuiltFromAnomalies
<1>4. SoundVerdict'
  <2> DEFINE v == Evaluate(timeline, edges)
  <2>1. edges \in Seq(Edges)
    BY DEF AnalysisInv, GivenInputs
  <2>2. /\ v \in Verdicts /\ v.supporting <= v.total
        /\ Overrides(v) =>
               /\ timeline # <<>>
               /\ \E i \in DOMAIN edges : edges[i] = v.edge /\ Supports(edges[i], timeline)
    BY <2>1, VerdictFacts
  <2>3. verdict' = v
    BY <1>1
  <2> HIDE DEF v
  <2>t. anomalies \in Seq(Anomalies) /\ timeline \in Timelines(anomalies)
    BY <1>1 DEF AnalysisInv, GivenInputs, BuiltFromAnomalies
  <2>e. ASSUME Overrides(v), NEW i \in DOMAIN edges, Supports(edges[i], timeline)
        PROVE  TellsAgainst(edges[i], anomalies)
    <3>1. edges[i] \in Edges
      BY <2>1
    <3> QED
      BY <2>2, <2>e, <2>t, <3>1, EvidenceSurvivesCut
  <2>4. /\ verdict' \in Verdicts /\ (verdict').supporting <= (verdict').total
        /\ Overrides(verdict') =>
               \E i \in DOMAIN edges : edges[i] = (verdict').edge /\ TellsAgainst(edges[i], anomalies)
    BY <2>2, <2>3, <2>e
  <2> QED
    BY <1>1, <2>4 DEF SoundVerdict, Overrides, Suggested
<1>5. NamedRootCause'
  BY <1>1 DEF AnalysisInv, NamedRootCause
<1> QED
  BY <1>1, <1>2, <1>3, <1>4, <1>5 DEF AnalysisInv, SortedUnlessSuggested,
     MatchedAdvice, BorneOutAdvice, ChronologicalTimeline

\* A similar incident, the rules or the defaults give advice.
LEMMA RecommendInv ==
    ASSUME NEW recall \in BOOLEAN, AnalysisInv, Recommend(recall)
    PROVE  AnalysisInv'
<1> DEFINE ruled == RuleAdvice(anchors, timeline)
<1>1. /\ stage = "judged" /\ stage' = "advised" /\ stage' \in Stages
      /\ anomalies' = anomalies /\ edges' = edges /\ anchors' = anchors
      /\ timeline' = timeline /\ confidence' = confidence /\ verdict' = verdict
      /\ rootCause' = rootCause
      /\ advice' = IF recall THEN [from |-> "recall", items |-> Recalled]
                   ELSE IF ruled # <<>> THEN [from |-> "rules", items |-> ruled]
                   ELSE [from |-> "default", items |-> DefaultRecommendations]
  BY DEF Recommend, Stages
<1>2. GivenInputs'
  BY <1>1 DEF AnalysisInv, GivenInputs
<1>3. BuiltFromAnomalies'
  BY <1>1 DEF AnalysisInv, BuiltFromAnomalies
<1>4. SoundVerdict'
  BY <1>1 DEF AnalysisInv, SoundVerdict, Overrides, Suggested
<1>5. Heard(ruled, Len(Rules), anchors, timeline)
  BY RuleAdviceFacts
<1>6. DOMAIN Rules = 1..Len(Rules)
  BY RuleFacts
<1> HIDE DEF ruled
<1>7. /\ (advice').from = "recall" => (advice').items = Recalled
      /\ (advice').from = "rules" => (advice').items = ruled /\ ruled # <<>>
      /\ (advice').from = "default" => (advice').items = DefaultRecommendations /\ ruled = <<>>
      /\ (advice').from \in {"recall", "rules", "default"}
  BY <1>1
<1>8. MatchedAdvice'
  <2>1. \A item \in Range(ruled) : \E i \in DOMAIN Rules :
            item \in Range(Rules[i].recommendations) /\ Matches(Rules[i], anchors, timeline)
    BY <1>5, <1>6 DEF Heard
  <2> QED
    BY <1>1, <1>7, <2>1 DEF MatchedAdvice
<1>9. NamedRootCause'
  BY <1>1 DEF AnalysisInv, NamedRootCause
<1> QED
  BY <1>1, <1>2, <1>3, <1>4, <1>8, <1>9 DEF AnalysisInv, SortedUnlessSuggested,
     BorneOutAdvice, ChronologicalTimeline

\* Lists that grow keep what they hold.
LEMMA Joined ==
    ASSUME NEW s, IsSeq(s), NEW t, IsSeq(t)
    PROVE  IsSeq(s \o t) /\ Range(s) \subseteq Range(s \o t)
<1> DEFINE S == Range(s) \cup Range(t)
           u == s \o t
<1>1. s \in Seq(S) /\ t \in Seq(S)
  <2> DEFINE A == Range(s)
             B == Range(t)
  <2>1. s \in Seq(A) /\ t \in Seq(B) /\ A \subseteq S /\ B \subseteq S
    BY DEF IsSeq
  <2> HIDE DEF A, B, S
  <2> QED
    BY <2>1
<1> HIDE DEF S
<1>2. /\ Len(s) \in Nat /\ Len(t) \in Nat /\ DOMAIN s = 1..Len(s)
      /\ u \in Seq(S) /\ Len(u) = Len(s) + Len(t) /\ \A i \in 1..Len(s) : u[i] = s[i]
  BY <1>1
<1> HIDE DEF u
<1>3. Len(u) \in Nat /\ u = [i \in 1..Len(u) |-> u[i]] /\ DOMAIN u = 1..Len(u)
  BY <1>2
<1>4. IsSeq(u)
  BY <1>3, ListOf
<1>5. 1..Len(s) \subseteq 1..Len(u)
  BY <1>2
<1>6. Range(s) \subseteq Range(u)
  BY <1>2, <1>3, <1>5 DEF Range
<1> QED
  BY <1>4, <1>6 DEF u

\* The same for one item.
LEMMA Appended ==
    ASSUME NEW s, IsSeq(s), NEW e
    PROVE  IsSeq(Append(s, e)) /\ Range(s) \subseteq Range(Append(s, e))
<1> DEFINE S == Range(s) \cup {e}
           u == Append(s, e)
<1>1. s \in Seq(S) /\ e \in S
  <2> DEFINE A == Range(s)
  <2>1. s \in Seq(A) /\ A \subseteq S /\ e \in S
    BY DEF IsSeq
  <2> HIDE DEF A, S
  <2> QED
    BY <2>1
<1> HIDE DEF S
<1>2. /\ Len(s) \in Nat /\ DOMAIN s = 1..Len(s)
      /\ u \in Seq(S) /\ Len(u) = Len(s) + 1 /\ \A i \in 1..Len(s) : u[i] = s[i]
  BY <1>1
<1> HIDE DEF u
<1>3. Len(u) \in Nat /\ u = [i \in 1..Len(u) |-> u[i]] /\ DOMAIN u = 1..Len(u)
  BY <1>2
<1>4. IsSeq(u)
  BY <1>3, ListOf
<1>5. 1..Len(s) \subseteq 1..Len(u)
  BY <1>2
<1>6. Range(s) \subseteq Range(u)
  BY <1>2, <1>3, <1>5 DEF Range
<1> QED
  BY <1>4, <1>6 DEF u

\* BearsOut of an answer with these anchors, affected services and timeline.
BearsOutOf(rule, found, services, events) ==
    /\ \/ rule.service = ""
       \/ \E n \in services \cup {found[j].service : j \in DOMAIN found} :
              EqualFold(rule.service, n)
    /\ rule.severity \in {""} \cup {events[j].severity : j \in DOMAIN events}
    /\ \/ rule.keywords = {}
       \/ \E j \in DOMAIN found : \E k \in rule.keywords : k \in Mentions[found[j].kind]

\* The services that are listed are names.
LEMMA ListedFacts == \A n \in Range(Listed) : n \in Names \cup {""}
<1> DEFINE N == Names \cup {""}
<1>1. Listed \in Seq(N)
  BY AnalysisAssumption, Zenon
<1> HIDE DEF N
<1>2. DOMAIN Listed = 1..Len(Listed) /\ \A j \in 1..Len(Listed) : Listed[j] \in N
  BY <1>1
<1>3. \A n \in Range(Listed) : n \in N
  BY <1>2 DEF Range
<1> QED
  BY <1>3 DEF N

\* A rule of the pack that matched is borne out by the answer, whose affected
\* services include those that are listed and whose timeline only grows.
LEMMA MatchBearsOut ==
    ASSUME NEW i \in DOMAIN Rules, NEW found, NEW events, Matches(Rules[i], found, events),
           NEW services, Range(Listed) \ {""} \subseteq services,
           NEW later, Range(events) \subseteq Range(later)
    PROVE  BearsOutOf(Rules[i], found, services, later)
<1> DEFINE rule == Rules[i]
<1>1. rule.service \in Names \cup {""}
  BY RuleFacts
<1>2. \A n \in Range(Listed) : n \in Names \cup {""}
  BY ListedFacts
<1>3. \A n \in Names \cup {""} : Fold[n] = "" <=> n = ""
  BY AnalysisAssumption, Zenon
<1> HIDE DEF rule
<1>4. /\ rule.service # "" =>
            \/ \E n \in Range(Listed) : EqualFold(rule.service, n)
            \/ \E j \in DOMAIN found : EqualFold(rule.service, found[j].service)
      /\ rule.severity # "" => \E j \in DOMAIN events : rule.severity = events[j].severity
      /\ rule.keywords # {} =>
            \E j \in DOMAIN found : rule.keywords \cap Mentions[found[j].kind] # {}
  BY DEF Matches, rule
<1>5. rule.service = "" \/ \E n \in services \cup {found[j].service : j \in DOMAIN found} :
                              EqualFold(rule.service, n)
  <2> SUFFICES ASSUME rule.service # ""
               PROVE  \E n \in services \cup {found[j].service : j \in DOMAIN found} :
                          EqualFold(rule.service, n)
      OBVIOUS
  <2>1. ASSUME NEW n \in Range(Listed), EqualFold(rule.service, n) PROVE n \in services
    <3>1. Fold[rule.service] = Fold[n]
      BY <2>1 DEF EqualFold
    <3>2. n # ""
      BY <1>1, <1>2, <1>3, <3>1
    <3> QED
      BY <3>2
  <2> QED
    BY <1>4, <2>1
<1>6. rule.severity \in {""} \cup {later[j].severity : j \in DOMAIN later}
  <2>1. \A j \in DOMAIN events : \E k \in DOMAIN later : later[k] = events[j]
    BY DEF Range
  <2> QED
    BY <1>4, <2>1
<1>7. rule.keywords = {} \/ \E j \in DOMAIN found :
                                \E k \in rule.keywords : k \in Mentions[found[j].kind]
  BY <1>4
<1> QED
  BY <1>5, <1>6, <1>7 DEF BearsOutOf, rule

\* What the answer bears out stays so when its timeline grows.
LEMMA StaysBorneOut ==
    ASSUME NEW rule, BearsOut(rule), affected' = affected, anchors' = anchors,
           Range(timeline) \subseteq Range(timeline')
    PROVE  BearsOut(rule)'
<1>1. \A j \in DOMAIN timeline : \E k \in DOMAIN timeline' : timeline'[k] = timeline[j]
  BY DEF Range
<1>2. {timeline[j].severity : j \in DOMAIN timeline}
        \subseteq {timeline'[j].severity : j \in DOMAIN timeline'}
  BY <1>1
<1> QED
  BY <1>2 DEF BearsOut

\* The suggestion adds an event and affected services, which takes no evidence away.
LEMMA SuggestInv == AnalysisInv /\ Suggest => AnalysisInv'
<1> SUFFICES ASSUME AnalysisInv, Suggest PROVE AnalysisInv'
    OBVIOUS
<1> DEFINE event == [time |-> FirstEventTime(Suggested(verdict), timeline) - 1,
                     service |-> Suggested(verdict), severity |-> "medium"]
<1>1. /\ stage = "advised" /\ stage' = "suggested" /\ stage' \in Stages
      /\ anomalies' = anomalies /\ edges' = edges /\ anchors' = anchors
      /\ confidence' = confidence /\ verdict' = verdict /\ advice' = advice
      /\ timeline' = IF Overrides(verdict) THEN Append(timeline, event) ELSE timeline
      /\ rootCause' = IF Overrides(verdict)
                      THEN [service |-> Suggested(verdict), why |-> "upstream"]
                      ELSE rootCause
  BY DEF Suggest, Stages
<1>2. Range(Listed) \ {""} \subseteq affected'
  BY DEF Suggest
<1> HIDE DEF event
<1>3. GivenInputs'
  BY <1>1 DEF AnalysisInv, GivenInputs
<1>4. BuiltFromAnomalies'
  BY <1>1 DEF AnalysisInv, BuiltFromAnomalies
<1>5. SoundVerdict'
  BY <1>1 DEF AnalysisInv, SoundVerdict, Overrides, Suggested
<1>6. IsSeq(timeline) /\ Chronological(timeline)
  BY <1>1, TimelineFacts DEF AnalysisInv, GivenInputs, BuiltFromAnomalies
<1>7. IsSeq(timeline') /\ Range(timeline) \subseteq Range(timeline')
  BY <1>1, <1>6, Appended
<1>8. SortedUnlessSuggested'
  BY <1>1, <1>6, <1>7 DEF SortedUnlessSuggested, Overrides, Suggested, Chronological
<1>9. BorneOutAdvice'
  <2> SUFFICES ASSUME advice.from = "rules", NEW item \in Range(advice.items)
               PROVE  \E i \in DOMAIN Rules : item \in Range(Rules[i].recommendations) /\ BearsOut(Rules[i])'
      BY <1>1 DEF BorneOutAdvice
  <2>1. PICK i \in DOMAIN Rules :
            item \in Range(Rules[i].recommendations) /\ Matches(Rules[i], anchors, timeline)
    BY <1>1 DEF AnalysisInv, MatchedAdvice
  <2>2. BearsOut(Rules[i])'
    <3>1. Matches(Rules[i], anchors', timeline)
      BY <1>1, <2>1
    <3> DEFINE found == anchors'
               services == affected'
               later == timeline'
    <3>2. /\ Matches(Rules[i], found, timeline) /\ Range(Listed) \ {""} \subseteq services
          /\ Range(timeline) \subseteq Range(later)
      BY <1>2, <1>7, <3>1
    <3> HIDE DEF found, services, later
    <3>3. BearsOutOf(Rules[i], found, services, later)
      BY <3>2, MatchBearsOut, Zenon
    <3> QED
      BY <3>3 DEF BearsOut, BearsOutOf, found, services, later
  <2> QED
    BY <2>1, <2>2
<1>10. NamedRootCause'
  <2>1. CASE Overrides(verdict)
    <3>1. (rootCause').service = Suggested(verdict)
      BY <1>1, <2>1
    <3> QED
      BY <1>1, <2>1, <3>1 DEF NamedRootCause, Overrides, Suggested
  <2>2. CASE ~Overrides(verdict)
    <3>1. rootCause' = rootCause /\ rootCause.why # "upstream"
      BY <1>1, <2>2 DEF AnalysisInv, NamedRootCause
    <3> QED
      BY <3>1 DEF NamedRootCause
  <2> QED
    BY <2>1, <2>2
<1> QED
  BY <1>1, <1>3, <1>4, <1>5, <1>8, <1>9, <1>10 DEF AnalysisInv, MatchedAdvice,
     ChronologicalTimeline

\* appendTopologyEvents keeps every event, and sorts if it adds one.
LEMMA TopologyFacts ==
    ASSUME NEW events, IsSeq(events), NEW graph \in Seq(Edges), NEW t \in WithTopology(events, graph)
    PROVE  /\ Range(events) \subseteq Range(t)
           /\ \/ t = events /\ \A i \in DOMAIN graph : ~Adjacent(graph[i])
              \/ Chronological(t)
<1> DEFINE first == FirstEventTime(Root, events)
           rootTime == IF first = ZeroTime THEN Now ELSE first
           Added(r) == [i \in DOMAIN r |-> TopologyEvent(graph[r[i]], rootTime)]
<1>1. WithTopology(events, graph) =
          IF \A i \in DOMAIN graph : ~Adjacent(graph[i]) THEN {events}
          ELSE UNION {Orders(events \o Added(r), TimeOf) : r \in Busiest(graph)}
  BY DEF WithTopology
<1>2. CASE \A i \in DOMAIN graph : ~Adjacent(graph[i])
  BY <1>1, <1>2
<1>3. CASE ~\A i \in DOMAIN graph : ~Adjacent(graph[i])
  <2>1. PICK r \in Busiest(graph) : t \in Orders(events \o Added(r), TimeOf)
    <3> HIDE DEF Added
    <3> QED
      BY <1>1, <1>3
  <2> DEFINE near == {i \in DOMAIN graph : Adjacent(graph[i])}
             S == {TopologyLimit, Cardinality(near)}
             count == Min(S)
  <2>2. r \in [1..count -> near]
    BY DEF Busiest
  <2>3. Cardinality(near) \in Nat
    <3>1. near \in SUBSET (1..Len(graph)) /\ Len(graph) \in Nat
      OBVIOUS
    <3>2. IsFiniteSet(1..Len(graph))
      BY <3>1, FS_Interval
    <3> HIDE DEF near
    <3>3. IsFiniteSet(near)
      BY <3>1, <3>2, FS_Subset
    <3> QED
      BY <3>3, FS_CardinalityType
  <2>4. count \in Nat
    <3> DEFINE c == Cardinality(near)
    <3>1. TopologyLimit \in Nat /\ c \in Nat
      BY <2>3, AnalysisAssumption
    <3>2. S = {TopologyLimit, c}
      OBVIOUS
    <3> HIDE DEF S, c
    <3>3. TopologyLimit \in Int /\ c \in Int
      BY <3>1
    <3>4. Min(S) \in S
      BY <3>2, <3>3, Smaller, Zenon
    <3> QED
      BY <3>1, <3>2, <3>4
  <2> HIDE DEF count, near
  <2> DEFINE extra == Added(r)
  <2>5. extra = [i \in 1..count |-> extra[i]]
    BY <2>2
  <2> HIDE DEF extra
  <2>6. IsSeq(extra)
    BY <2>4, <2>5, ListOf
  <2>7. IsSeq(events \o extra) /\ Range(events) \subseteq Range(events \o extra)
    BY <2>6, Joined
  <2>8. t \in Orders(events \o extra, TimeOf)
    BY <2>1 DEF extra
  <2>9. Chronological(t) /\ Range(t) = Range(events \o extra)
    BY <2>7, <2>8, TimeOrders
  <2> QED
    BY <2>7, <2>9
<1> QED
  BY <1>2, <1>3

\* The events of the topology are added, and the timeline sorted with them.
LEMMA AppendTopologyInv == AnalysisInv /\ AppendTopology => AnalysisInv'
<1> SUFFICES ASSUME AnalysisInv, AppendTopology PROVE AnalysisInv'
    OBVIOUS
<1>1. /\ stage = "suggested" /\ stage' = "done" /\ stage' \in Stages
      /\ anomalies' = anomalies /\ edges' = edges /\ anchors' = anchors
      /\ verdict' = verdict /\ advice' = advice /\ affected' = affected
      /\ rootCause' = rootCause
      /\ confidence' = Calibrate(confidence, Score(verdict))
      /\ timeline' \in WithTopology(timeline, edges)
  BY DEF AppendTopology, Stages
<1>2. GivenInputs'
  BY <1>1 DEF AnalysisInv, GivenInputs
<1>3. BuiltFromAnomalies'
  <2>1. confidence = ComputeConfidence(anomalies)
    BY <1>1 DEF AnalysisInv, BuiltFromAnomalies
  <2>2. anchors' = Strongest(anomalies')
    BY <1>1 DEF AnalysisInv, BuiltFromAnomalies
  <2>3. confidence' = Calibrate(ComputeConfidence(anomalies'), Score(verdict'))
    BY <1>1, <2>1
  <2> QED
    BY <1>1, <2>2, <2>3 DEF BuiltFromAnomalies
<1>4. SoundVerdict'
  BY <1>1 DEF AnalysisInv, SoundVerdict, Overrides, Suggested
<1>5. /\ Range(timeline) \subseteq Range(timeline')
      /\ \/ timeline' = timeline /\ \A i \in DOMAIN edges : ~Adjacent(edges[i])
         \/ Chronological(timeline')
  <2> DEFINE t == timeline'
  <2>1. t \in WithTopology(timeline, edges) /\ IsSeq(timeline) /\ edges \in Seq(Edges)
    BY <1>1 DEF AnalysisInv, GivenInputs, SortedUnlessSuggested
  <2> HIDE DEF t
  <2>2. /\ Range(timeline) \subseteq Range(t)
        /\ \/ t = timeline /\ \A i \in DOMAIN edges : ~Adjacent(edges[i])
           \/ Chronological(t)
    BY <2>1, TopologyFacts
  <2> QED
    BY <2>2 DEF t
<1>6. ChronologicalTimeline'
  <2> SUFFICES ASSUME OneSpelling, timeline' = timeline, \A i \in DOMAIN edges : ~Adjacent(edges[i])
               PROVE  Chronological(timeline')
      BY <1>1, <1>5 DEF ChronologicalTimeline, OneSpelling
  <2>1. ~Overrides(verdict)
    <3> SUFFICES ASSUME Overrides(verdict) PROVE FALSE
        OBVIOUS
    <3>1. PICK i \in DOMAIN edges : EqualFold(edges[i].target, Root)
      BY <1>1 DEF AnalysisInv, SoundVerdict, TellsAgainst
    <3>2. edges[i].target = Root
      BY <3>1 DEF OneSpelling
    <3> QED
      BY <3>2 DEF Adjacent
  <2>2. Chronological(timeline)
    BY <1>1, <2>1 DEF AnalysisInv, SortedUnlessSuggested
  <2> QED
    BY <2>2
<1>7. BorneOutAdvice'
  <2> SUFFICES ASSUME advice.from = "rules", NEW item \in Range(advice.items)
               PROVE  \E i \in DOMAIN Rules : item \in Range(Rules[i].recommendations) /\ BearsOut(Rules[i])'
      BY <1>1 DEF BorneOutAdvice
  <2>1. PICK i \in DOMAIN Rules : item \in Range(Rules[i].recommendations) /\ BearsOut(Rules[i])
    BY <1>1 DEF AnalysisInv, BorneOutAdvice
  <2>2. BearsOut(Rules[i])'
    BY <1>1, <1>5, <2>1, StaysBorneOut
  <2> QED
    BY <2>1, <2>2
<1>8. NamedRootCause'
  BY <1>1 DEF AnalysisInv, NamedRootCause, Overrides, Suggested
<1> QED
  BY <1>1, <1>2, <1>3, <1>4, <1>6, <1>7, <1>8 DEF AnalysisInv, MatchedAdvice,
     SortedUnlessSuggested

\* So does a step that changes nothing.
LEMMA StutterInv == AnalysisInv /\ UNCHANGED vars => AnalysisInv'
<1> SUFFICES ASSUME AnalysisInv, UNCHANGED vars PROVE AnalysisInv'
    OBVIOUS
<1> USE DEF vars
<1>1. GivenInputs'
  BY DEF AnalysisInv, GivenInputs
<1>2. BuiltFromAnomalies'
  BY DEF AnalysisInv, BuiltFromAnomalies
<1>3. SoundVerdict'
  BY DEF AnalysisInv, SoundVerdict
<1>4. SortedUnlessSuggested'
  BY DEF AnalysisInv, SortedUnlessSuggested
<1>5. MatchedAdvice'
  BY DEF AnalysisInv, MatchedAdvice
<1>6. BorneOutAdvice'
  <2>1. BorneOutAdvice
    BY DEF AnalysisInv
  <2>2. ASSUME NEW rule PROVE BearsOut(rule)' = BearsOut(rule)
    BY DEF BearsOut
  <2> QED
    BY <2>1, <2>2 DEF BorneOutAdvice
<1>7. ChronologicalTimeline'
  BY DEF AnalysisInv, ChronologicalTimeline, OneSpelling
<1>8. NamedRootCause'
  BY DEF AnalysisInv, NamedRootCause
<1> QED
  BY <1>8, <1>1, <1>2, <1>3, <1>4, <1>5, <1>6, <1>7 DEF AnalysisInv

\* The invariant holds of every behaviour.
LEMMA AnalysisInvariant == Spec => []AnalysisInv
<1>1. AnalysisInv /\ [Next]_vars => AnalysisInv'
  <2> SUFFICES ASSUME AnalysisInv, [Next]_vars PROVE AnalysisInv'
      OBVIOUS
  <2> QED
    BY BuildInv, JudgeInv, RecommendInv, SuggestInv, AppendTopologyInv, StutterInv DEF Next
<1> QED
  BY InitInv, <1>1, PTL DEF Spec

-----------------------------------------------------------------------------
(* Theorems *)

\* With names spelled one way the timeline of every result of Analyze is in order,
\* although the event of a suggestion is appended out of order.
THEOREM TimelineIsChronological == Spec => []ChronologicalTimeline
<1>1. AnalysisInv => ChronologicalTimeline
  BY DEF AnalysisInv
<1> QED
  BY <1>1, AnalysisInvariant, PTL

\* buildTimeline keeps the earliest anomalies, as many as fit.
THEOREM EarliestAreKept == Spec => []EarliestEventsKept
<1>1. AnalysisInv => EarliestEventsKept
  BY TimelineFacts DEF AnalysisInv, GivenInputs, BuiltFromAnomalies, EarliestEventsKept
<1> QED
  BY <1>1, AnalysisInvariant, PTL

\* buildAnchors keeps the strongest anomalies, the strongest one first.
THEOREM StrongestAreAnchors == Spec => []AnchorsAreStrongest
<1>1. AnalysisInv => AnchorsAreStrongest
  BY AnchorFacts DEF AnalysisInv, GivenInputs, BuiltFromAnomalies, AnchorsAreStrongest
<1> QED
  BY <1>1, AnalysisInvariant, PTL

\* Whatever the limits: when an answer blames an upstream, an edge from there tells
\* against it by all anomalies, although the causality engine saw a cut timeline.
THEOREM OverridesHaveEvidence == Spec => []OverrideHasEvidence
<1>1. AnalysisInv => OverrideHasEvidence
  <2> SUFFICES ASSUME AnalysisInv, stage = "done", rootCause.why = "upstream"
               PROVE  \E i \in DOMAIN edges :
                          edges[i].source = rootCause.service /\ TellsAgainst(edges[i], anomalies)
      BY DEF OverrideHasEvidence
  <2>1. Overrides(verdict) /\ rootCause.service = verdict.edge.source
    BY DEF AnalysisInv, NamedRootCause, Suggested
  <2>2. PICK i \in DOMAIN edges : edges[i] = verdict.edge /\ TellsAgainst(edges[i], anomalies)
    BY <2>1 DEF AnalysisInv, SoundVerdict
  <2> QED
    BY <2>1, <2>2
<1> QED
  BY <1>1, AnalysisInvariant, PTL

\* When all evidence is of one kind the causality engine suggests the strongest
\* upstream, whatever the order of the edges.
THEOREM StrongestIsSuggested == Spec => []SuggestionIsStrongest
<1>1. AnalysisInv => SuggestionIsStrongest
  <2> SUFFICES ASSUME AnalysisInv, stage = "judged", timeline # <<>>
               PROVE  LET silent == {e \in Supporters : FirstEventTime(e.source, timeline) = ZeroTime}
                      IN  /\ silent = {} => \A e \in Supporters : e.calls <= verdict.edge.calls
                          /\ silent = Supporters =>
                                 \A e \in Supporters : e.errors <= verdict.edge.errors
      BY DEF SuggestionIsStrongest
  <2> DEFINE n == Len(edges)
  <2>1. verdict = Evaluate(timeline, edges) /\ edges \in Seq(Edges) /\ DOMAIN edges = 1..n
    BY DEF AnalysisInv, GivenInputs, SoundVerdict
  <2>2. Judged(verdict, n, timeline, edges)
    BY <2>1, EvaluateFacts
  <2>3. \A j \in 1..n : Supports(edges[j], timeline) <=>
            LET at == FirstEventTime(edges[j].source, timeline)
            IN  /\ EqualFold(edges[j].target, Root)
                /\ \/ at # ZeroTime /\ at < RootTime(timeline)
                   \/ at = ZeroTime /\ edges[j].errors > 0
    BY DEF Supports, Silent, Earlier
  <2>4. Supporters = {edges[i] : i \in {j \in 1..n : Supports(edges[j], timeline)}}
    BY <2>1, <2>3 DEF Supporters
  <2>5. \A e : Silent(e, timeline) <=> FirstEventTime(e.source, timeline) = ZeroTime
    BY DEF Silent
  <2> DEFINE silent == {e \in Supporters : Silent(e, timeline)}
  <2> HIDE DEF n
  <2>6. silent = {} => \A e \in Supporters : e.calls <= verdict.edge.calls
    BY <2>2, <2>4 DEF Judged
  <2>7. silent = Supporters => \A e \in Supporters : e.errors <= verdict.edge.errors
    BY <2>2, <2>4 DEF Judged
  <2> QED
    BY <2>6, <2>7 DEF Silent
<1> QED
  BY <1>1, AnalysisInvariant, PTL

\* Knowing the upstreams never lowers the confidence of a result, and without its
\* clamps calibrateConfidence stays within certainty.
THEOREM ConfidenceIsRaised == Spec => []CausalityRaisesConfidence
<1>1. AnalysisInv => CausalityRaisesConfidence
  <2> SUFFICES ASSUME AnalysisInv, stage = "done"
               PROVE  /\ confidence >= Calibrate(ComputeConfidence(anomalies), 0)
                      /\ confidence <= 6000
      BY DEF CausalityRaisesConfidence
  <2> DEFINE base == ComputeConfidence(anomalies)
             score == Score(verdict)
  <2>1. confidence = Calibrate(base, score)
    BY DEF AnalysisInv, BuiltFromAnomalies
  <2>2. base \in 0..600
    BY ConfidenceFacts DEF AnalysisInv, GivenInputs
  <2>3. score = 0 \/ score \in 240..600
    BY ScoreFacts DEF AnalysisInv, SoundVerdict
  <2> HIDE DEF base, score
  <2>4. Calibrate(base, score) >= Calibrate(base, 0) /\ Calibrate(base, score) <= 6000
    BY <2>2, <2>3 DEF Calibrate
  <2> QED
    BY <2>1, <2>4 DEF base
<1> QED
  BY <1>1, AnalysisInvariant, PTL

\* What a rule recommends is borne out by the answer, after all that is added to it.
THEOREM AdviceIsBorneOut == Spec => []AdviceHasEvidence
<1>1. AnalysisInv => AdviceHasEvidence
  BY DEF AnalysisInv, BorneOutAdvice, AdviceHasEvidence
<1> QED
  BY <1>1, AnalysisInvariant, PTL

=============================================================================
