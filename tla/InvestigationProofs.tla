------------------------- MODULE InvestigationProofs -------------------------
(***************************************************************************)
(* Proofs about Investigation, for any number of RPCs, tenants, windows    *)
(* and symptoms, any initial store, any time to live and any timeout.      *)
(***************************************************************************)
EXTENDS Investigation, TLAPS, FiniteSetTheorems

BeforeGraph == {"idle", "graphGet", "graphFetch"} \cup Finished
BeforeSim == BeforeGraph \cup {"graphSet", "metrics", "logs", "traces",
                               "simGet", "simQuery", "error"}

\* What is in a handler's frame at each step of it.
Frames ==
    \A r \in Rpcs :
        /\ pc[r] \in Working => req[r] # NoValue
        /\ pc[r] \in BeforeGraph => graph[r] = NoValue
        /\ pc[r] = "graphSet" => graph[r] # NoValue
        /\ pc[r] \in BeforeSim => sim[r] = NoValue
        /\ pc[r] = "simSet" => sim[r] # NoValue
        /\ pc[r] \in {"persist", "observe"} <=> result[r] # NoValue
        /\ result[r] # NoValue => result[r].by = r

\* At start-up every handler is idle and its frame is empty.
LEMMA InitTyped == Init => TypeOK /\ Frames
BY ConstantAssumption, SeedAssumption
   DEF Init, TypeOK, Frames, Working, Finished, BeforeGraph, BeforeSim, Times

\* Every step keeps the types and leaves in each frame what its next call needs.
LEMMA StepTyped ==
    TypeOK /\ Frames /\ [Next]_vars => TypeOK' /\ Frames'
<1> SUFFICES ASSUME TypeOK, Frames, [Next]_vars PROVE TypeOK' /\ Frames'
    OBVIOUS
<1> USE ConstantAssumption DEF TypeOK, Working, Finished, Times, Goto
<1>1. ASSUME NEW r \in Rpcs, NEW q \in Requests, Receive(r, q)
      PROVE  TypeOK' /\ Frames'
  BY <1>1 DEF Receive, Frames, BeforeGraph, BeforeSim, env
<1>2. ASSUME NEW r \in Rpcs, GraphHit(r)
      PROVE  TypeOK' /\ Frames'
  BY <1>2 DEF GraphHit, GraphKey, GraphKeys, GraphEntries, Requests, Live, Frames, BeforeGraph, BeforeSim, env
<1>3. ASSUME NEW r \in Rpcs, GraphMiss(r)
      PROVE  TypeOK' /\ Frames'
  BY <1>3 DEF GraphMiss, Frames, BeforeGraph, BeforeSim, env
<1>4. ASSUME NEW r \in Rpcs, NEW e \in BOOLEAN, GraphAnswer(r, e)
      PROVE  TypeOK' /\ Frames'
  BY <1>4 DEF GraphAnswer, Frames, BeforeGraph, BeforeSim, env, Graphs, Requests
<1>5. ASSUME NEW r \in Rpcs, GraphFail(r)
      PROVE  TypeOK' /\ Frames'
  BY <1>5 DEF GraphFail, Frames, BeforeGraph, BeforeSim, env
<1>6. ASSUME NEW r \in Rpcs, GraphSet(r)
      PROVE  TypeOK' /\ Frames'
  <2> DEFINE g == IF graph[r].edges THEN graph[r] ELSE NoValue
  <2>1. graph[r] \in Graphs /\ req[r] \in Requests /\ pc[r] = "graphSet"
    BY <1>6 DEF GraphSet, Frames
  <2>2. graphCache' \in [GraphKeys -> GraphEntries \cup {NoValue}]
    BY <1>6, <2>1, SMTT(30) DEF GraphSet, GraphKey, GraphKeys, GraphEntries, Requests
  <2>3. graph' = [graph EXCEPT ![r] = g] /\ g \in Graphs \cup {NoValue}
    BY <1>6, <2>1 DEF GraphSet
  <2>4. TypeOK'
    BY <1>6, <2>2, <2>3 DEF GraphSet
  <2>5. Frames'
    BY <1>6, <2>3 DEF GraphSet, Frames, BeforeGraph, BeforeSim
  <2> QED
    BY <2>4, <2>5
<1>7. ASSUME NEW r \in Rpcs,
             FetchMetricSeries(r) \/ FetchLogEntries(r) \/ FetchTraceSpans(r)
      PROVE  TypeOK' /\ Frames'
  BY <1>7 DEF FetchMetricSeries, FetchLogEntries, FetchTraceSpans, FetchSignal,
              Frames, BeforeGraph, BeforeSim, env
<1>8. ASSUME NEW r \in Rpcs, SimHit(r)
      PROVE  TypeOK' /\ Frames'
  BY <1>8 DEF SimHit, SimKey, SimKeys, SimEntries, Requests, Live, Frames,
              BeforeGraph, BeforeSim, env
<1>9. ASSUME NEW r \in Rpcs, SimMiss(r) \/ SimEmpty(r)
      PROVE  TypeOK' /\ Frames'
  BY <1>9 DEF SimMiss, SimEmpty, Frames, BeforeGraph, BeforeSim, env
<1>10. ASSUME NEW r \in Rpcs, SimAnswer(r)
       PROVE  TypeOK' /\ Frames'
  BY <1>10 DEF SimAnswer, Recall, Frames, BeforeGraph, BeforeSim, env
<1>11. ASSUME NEW r \in Rpcs, SimFail(r)
       PROVE  TypeOK' /\ Frames'
  <2>1. req[r] \in Requests
    BY <1>11 DEF SimFail, Frames
  <2>2. Synthetic(req[r]) \in Records
    BY <2>1 DEF Synthetic, Records, Recs, Origins, Requests
  <2> QED
    BY <1>11, <2>2 DEF SimFail, Frames, BeforeGraph, BeforeSim, env
<1>12. ASSUME NEW r \in Rpcs, SimSet(r)
       PROVE  TypeOK' /\ Frames'
  <2>0. req[r] \in Requests /\ sim[r] \in Records
    BY <1>12 DEF SimSet, Frames
  <2>1. simCache' \in [SimKeys -> SimEntries \cup {NoValue}]
    BY <1>12, <2>0, SMTT(30) DEF SimSet, SimKey, SimKeys, SimEntries, Requests
  <2> QED
    BY <1>12, <2>1 DEF SimSet, Frames, BeforeGraph, BeforeSim
<1>13. ASSUME NEW r \in Rpcs, Analyze(r)
       PROVE  TypeOK' /\ Frames'
  <2> DEFINE c == [by |-> r, tenant |-> req[r].tenant, id |-> now,
                   recs |-> Recommendations(req[r], sim[r])]
  <2>1. req[r] \in Requests
    BY <1>13 DEF Analyze, Frames
  <2>2. Recommendations(req[r], sim[r]) \in Recs
    BY <2>1 DEF Recommendations, Recs, Origins, Requests, Records
  <2>3. c \in Records /\ c.by = r
    BY <2>1, <2>2 DEF Records, Requests
  <2> HIDE DEF c
  <2>4. result' = [result EXCEPT ![r] = c]
    BY <1>13 DEF Analyze, c
  <2> QED
    BY <1>13, <2>3, <2>4 DEF Analyze, Frames, BeforeGraph, BeforeSim, env
<1>14. ASSUME NEW r \in Rpcs, Persist(r) \/ PersistTimeout(r) \/ PersistFail(r)
       PROVE  TypeOK' /\ Frames'
  BY <1>14 DEF Persist, PersistTimeout, PersistFail, Frames, BeforeGraph, BeforeSim, env
<1>15. ASSUME NEW r \in Rpcs, ObserveSuccess(r) \/ ObserveError(r)
       PROVE  TypeOK' /\ Frames'
  BY <1>15 DEF ObserveSuccess, ObserveError, Return, Frames, BeforeGraph, BeforeSim
<1>16. ASSUME NEW r \in Rpcs, Cancel(r)
       PROVE  TypeOK' /\ Frames'
  BY <1>16 DEF Cancel, Frames
<1>17. ASSUME NEW c \in inflight, LateStore(c)
       PROVE  TypeOK' /\ Frames'
  BY <1>17 DEF LateStore, Frames
<1>18. CASE Tick
  BY <1>18 DEF Tick, Frames, env
<1>19. CASE UNCHANGED vars
  BY <1>19 DEF vars, Frames
<1> HIDE DEF TypeOK
<1>20. ASSUME NEW r \in Rpcs, Step(r)
       PROVE  TypeOK' /\ Frames'
  BY <1>2, <1>3, <1>4, <1>5, <1>6, <1>7, <1>8, <1>9, <1>10, <1>11, <1>12,
     <1>13, <1>14, <1>15, <1>20 DEF Step
<1> QED
  BY <1>1, <1>16, <1>17, <1>18, <1>19, <1>20 DEF Next

-----------------------------------------------------------------------------

\* Everything a tenant's investigations leave behind for later ones is its own.
OwnData ==
    /\ TenantIsolation
    /\ \A k \in GraphKeys :
           graphCache[k] # NoValue => graphCache[k].val.tenant = k[1]
    /\ \A k \in SimKeys :
           simCache[k] # NoValue => /\ simCache[k].val.tenant = k[1]
                                    /\ simCache[k].val.recs.tenant = k[1]
    /\ \A c \in store \cup inflight : c.recs.tenant = c.tenant

\* Fetching, caching, recalling and storing keep data with its tenant.
LEMMA StepOwnData ==
    TypeOK /\ Frames /\ OwnData /\ [Next]_vars => OwnData'
<1> SUFFICES ASSUME TypeOK, Frames, OwnData, [Next]_vars PROVE OwnData'
    OBVIOUS
<1> USE ConstantAssumption DEF TypeOK, Frames, OwnData, TenantIsolation, Goto, Working, Finished
<1>1. ASSUME NEW r \in Rpcs, NEW q \in Requests, Receive(r, q)
      PROVE  OwnData'
  BY <1>1 DEF Receive, env, BeforeGraph, BeforeSim
<1>2. ASSUME NEW r \in Rpcs, GraphHit(r)
      PROVE  OwnData'
  BY <1>2 DEF GraphHit, env, GraphKey, GraphKeys, Requests, Live
<1>3. ASSUME NEW r \in Rpcs, GraphMiss(r)
      PROVE  OwnData'
  BY <1>3 DEF GraphMiss, env
<1>4. ASSUME NEW r \in Rpcs, NEW e \in BOOLEAN, GraphAnswer(r, e)
      PROVE  OwnData'
  BY <1>4 DEF GraphAnswer, env, Graphs
<1>5. ASSUME NEW r \in Rpcs, GraphFail(r)
      PROVE  OwnData'
  BY <1>5 DEF GraphFail, env
<1>6. ASSUME NEW r \in Rpcs, GraphSet(r)
      PROVE  OwnData'
  <2>1. graph[r] # NoValue /\ graph[r].tenant = req[r].tenant /\ req[r] \in Requests
    BY <1>6 DEF GraphSet
  <2>2. ASSUME NEW k \in GraphKeys, graphCache'[k] # NoValue
        PROVE  graphCache'[k].val.tenant = k[1]
    BY <1>6, <2>1, <2>2, SMTT(30) DEF GraphSet, GraphKey, GraphKeys, Requests
  <2>3. TenantIsolation'
    BY <1>6, <2>1 DEF GraphSet
  <2> QED
    BY <1>6, <2>2, <2>3 DEF GraphSet
<1>7. ASSUME NEW r \in Rpcs,
             FetchMetricSeries(r) \/ FetchLogEntries(r) \/ FetchTraceSpans(r)
      PROVE  OwnData'
  BY <1>7 DEF FetchMetricSeries, FetchLogEntries, FetchTraceSpans, FetchSignal, env
<1>8. ASSUME NEW r \in Rpcs, SimHit(r)
      PROVE  OwnData'
  BY <1>8 DEF SimHit, env, SimKey, SimKeys, Requests, Live
<1>9. ASSUME NEW r \in Rpcs, SimMiss(r) \/ SimEmpty(r)
      PROVE  OwnData'
  BY <1>9 DEF SimMiss, SimEmpty, env
<1>10. ASSUME NEW r \in Rpcs, SimAnswer(r)
      PROVE  OwnData'
  BY <1>10 DEF SimAnswer, env, Recall
<1>11. ASSUME NEW r \in Rpcs, SimFail(r)
      PROVE  OwnData'
  BY <1>11 DEF SimFail, env, Synthetic
<1>12. ASSUME NEW r \in Rpcs, SimSet(r)
       PROVE  OwnData'
  <2>1. /\ sim[r].tenant = req[r].tenant /\ sim[r].recs.tenant = req[r].tenant
        /\ req[r] \in Requests
    BY <1>12 DEF SimSet
  <2>2. ASSUME NEW k \in SimKeys, simCache'[k] # NoValue
        PROVE  simCache'[k].val.tenant = k[1] /\ simCache'[k].val.recs.tenant = k[1]
    <3>1. CASE simCache'[k] = simCache[k]
      BY <2>2, <3>1
    <3>2. CASE k = SimKey(req[r]) /\ simCache'[k].val = sim[r]
      BY <2>1, <3>2 DEF SimKey
    <3> QED
      BY <1>12, <3>1, <3>2 DEF SimSet
  <2> QED
    BY <1>12, <2>2 DEF SimSet
<1>13. ASSUME NEW r \in Rpcs, Analyze(r)
      PROVE  OwnData'
  BY <1>13 DEF Analyze, env, Recommendations
<1>14. ASSUME NEW r \in Rpcs, Persist(r) \/ PersistTimeout(r) \/ PersistFail(r)
      PROVE  OwnData'
  BY <1>14 DEF Persist, PersistTimeout, PersistFail, env
<1>15. ASSUME NEW r \in Rpcs, ObserveSuccess(r) \/ ObserveError(r)
      PROVE  OwnData'
  BY <1>15 DEF ObserveSuccess, ObserveError, Return
<1>16. ASSUME NEW r \in Rpcs, Cancel(r)
      PROVE  OwnData'
  BY <1>16 DEF Cancel
<1>17. ASSUME NEW c \in inflight, LateStore(c)
      PROVE  OwnData'
  BY <1>17 DEF LateStore
<1>18. CASE Tick
  BY <1>18 DEF Tick, env
<1>19. CASE UNCHANGED vars
  BY <1>19 DEF vars
<1> HIDE DEF TypeOK, Frames, OwnData, TenantIsolation
<1>20. ASSUME NEW r \in Rpcs, Step(r)
       PROVE  OwnData'
  BY <1>2, <1>3, <1>4, <1>5, <1>6, <1>7, <1>8, <1>9, <1>10, <1>11, <1>12,
     <1>13, <1>14, <1>15, <1>20 DEF Step
<1> QED
  BY <1>1, <1>16, <1>17, <1>18, <1>19, <1>20 DEF Next

\* How old a graph can be in the cache, and in a handler that has just read it.
Ages ==
    /\ GraphIsFresh
    /\ \A r \in Rpcs : since[r] <= now
    /\ \A r \in Rpcs : pc[r] \in Working => now - since[r] <= CallTimeout
    /\ \A r \in Rpcs : pc[r] = "graphSet" => graph[r].at = since[r]
    /\ \A k \in GraphKeys : graphCache[k] # NoValue =>
           graphCache[k].exp <= graphCache[k].val.at + CallTimeout + GraphTTL

\* A call cannot outlast CallTimeout, so neither fetching nor caching a graph
\* makes it older than the bound, and Tick cannot either.
LEMMA StepAges ==
    TypeOK /\ Frames /\ Ages /\ [Next]_vars => Ages'
<1> SUFFICES ASSUME TypeOK, Frames, Ages, [Next]_vars PROVE Ages'
    OBVIOUS
<1> USE ConstantAssumption DEF TypeOK, Frames, Ages, GraphIsFresh, Goto, Working, Finished, Times, BeforeGraph
<1>1. ASSUME NEW r \in Rpcs, NEW q \in Requests, Receive(r, q)
      PROVE  Ages'
  BY <1>1 DEF Receive, env
<1>2. ASSUME NEW r \in Rpcs, GraphHit(r)
      PROVE  Ages'
  BY <1>2 DEF GraphHit, env, GraphKey, GraphKeys, GraphEntries, Graphs, Requests, Live
<1>3. ASSUME NEW r \in Rpcs, GraphMiss(r)
      PROVE  Ages'
  BY <1>3 DEF GraphMiss, env
<1>4. ASSUME NEW r \in Rpcs, NEW e \in BOOLEAN, GraphAnswer(r, e)
      PROVE  Ages'
  BY <1>4 DEF GraphAnswer, env, Graphs
<1>5. ASSUME NEW r \in Rpcs, GraphFail(r)
      PROVE  Ages'
  BY <1>5 DEF GraphFail, env
<1>6. ASSUME NEW r \in Rpcs, GraphSet(r)
      PROVE  Ages'
  <2>1. /\ graph[r] \in Graphs /\ req[r] \in Requests
        /\ graph[r].at = since[r] /\ now - since[r] <= CallTimeout
    BY <1>6 DEF GraphSet
  <2>2. graph[r].at \in Nat
    BY <2>1 DEF Graphs
  <2>3. ASSUME NEW k \in GraphKeys, graphCache'[k] # NoValue
        PROVE  graphCache'[k].exp <= graphCache'[k].val.at + CallTimeout + GraphTTL
    BY <1>6, <2>1, <2>2, <2>3 DEF GraphSet
  <2>4. graph'[r] # NoValue => graph'[r] = graph[r]
    BY <1>6 DEF GraphSet
  <2>5. GraphIsFresh'
    BY <1>6, <2>1, <2>2, <2>4 DEF GraphSet
  <2> QED
    BY <1>6, <2>3, <2>5 DEF GraphSet
<1>7. ASSUME NEW r \in Rpcs,
             FetchMetricSeries(r) \/ FetchLogEntries(r) \/ FetchTraceSpans(r)
      PROVE  Ages'
  BY <1>7 DEF FetchMetricSeries, FetchLogEntries, FetchTraceSpans, FetchSignal, env
<1>8. ASSUME NEW r \in Rpcs, SimHit(r)
      PROVE  Ages'
  BY <1>8 DEF SimHit, env
<1>9. ASSUME NEW r \in Rpcs, SimMiss(r) \/ SimEmpty(r)
      PROVE  Ages'
  BY <1>9 DEF SimMiss, SimEmpty, env
<1>10. ASSUME NEW r \in Rpcs, SimAnswer(r)
      PROVE  Ages'
  BY <1>10 DEF SimAnswer, env
<1>11. ASSUME NEW r \in Rpcs, SimFail(r)
      PROVE  Ages'
  BY <1>11 DEF SimFail, env
<1>12. ASSUME NEW r \in Rpcs, SimSet(r)
      PROVE  Ages'
  BY <1>12 DEF SimSet
<1>13. ASSUME NEW r \in Rpcs, Analyze(r)
      PROVE  Ages'
  BY <1>13 DEF Analyze, env
<1>14. ASSUME NEW r \in Rpcs, Persist(r) \/ PersistTimeout(r) \/ PersistFail(r)
      PROVE  Ages'
  BY <1>14 DEF Persist, PersistTimeout, PersistFail, env
<1>15. ASSUME NEW r \in Rpcs, ObserveSuccess(r) \/ ObserveError(r)
      PROVE  Ages'
  BY <1>15 DEF ObserveSuccess, ObserveError, Return
<1>16. ASSUME NEW r \in Rpcs, Cancel(r)
      PROVE  Ages'
  BY <1>16 DEF Cancel
<1>17. ASSUME NEW c \in inflight, LateStore(c)
      PROVE  Ages'
  BY <1>17 DEF LateStore
<1>18. CASE Tick
  BY <1>18 DEF Tick, env
<1>19. CASE UNCHANGED vars
  BY <1>19 DEF vars
<1> HIDE DEF TypeOK, Frames, Ages, GraphIsFresh
<1>20. ASSUME NEW r \in Rpcs, Step(r)
       PROVE  Ages'
  BY <1>2, <1>3, <1>4, <1>5, <1>6, <1>7, <1>8, <1>9, <1>10, <1>11, <1>12,
     <1>13, <1>14, <1>15, <1>20 DEF Step
<1> QED
  BY <1>1, <1>16, <1>17, <1>18, <1>19, <1>20 DEF Next

\* An incident in the cache, or about to be put there, is one Weaviate has.
Recalled ==
    /\ CachedIncidentsAreStored
    /\ \A r \in Rpcs : pc[r] = "simSet" => sim[r] \in store

\* Only an incident that Weaviate returned goes to SimSet, and records stay.
LEMMA StepRecalled ==
    TypeOK /\ Frames /\ Recalled /\ [Next]_vars => Recalled'
<1> SUFFICES ASSUME TypeOK, Frames, Recalled, [Next]_vars PROVE Recalled'
    OBVIOUS
<1> USE ConstantAssumption DEF TypeOK, Frames, Recalled, CachedIncidentsAreStored, Goto, Working, Finished
<1>1. ASSUME NEW r \in Rpcs, NEW q \in Requests, Receive(r, q)
      PROVE  Recalled'
  BY <1>1 DEF Receive, env
<1>2. ASSUME NEW r \in Rpcs, GraphHit(r)
      PROVE  Recalled'
  BY <1>2 DEF GraphHit, env
<1>3. ASSUME NEW r \in Rpcs, GraphMiss(r)
      PROVE  Recalled'
  BY <1>3 DEF GraphMiss, env
<1>4. ASSUME NEW r \in Rpcs, NEW e \in BOOLEAN, GraphAnswer(r, e)
      PROVE  Recalled'
  BY <1>4 DEF GraphAnswer, env
<1>5. ASSUME NEW r \in Rpcs, GraphFail(r)
      PROVE  Recalled'
  BY <1>5 DEF GraphFail, env
<1>6. ASSUME NEW r \in Rpcs, GraphSet(r)
      PROVE  Recalled'
  BY <1>6 DEF GraphSet
<1>7. ASSUME NEW r \in Rpcs,
             FetchMetricSeries(r) \/ FetchLogEntries(r) \/ FetchTraceSpans(r)
      PROVE  Recalled'
  BY <1>7 DEF FetchMetricSeries, FetchLogEntries, FetchTraceSpans, FetchSignal, env
<1>8. ASSUME NEW r \in Rpcs, SimHit(r)
      PROVE  Recalled'
  BY <1>8 DEF SimHit, env
<1>9. ASSUME NEW r \in Rpcs, SimMiss(r) \/ SimEmpty(r)
      PROVE  Recalled'
  BY <1>9 DEF SimMiss, SimEmpty, env
<1>10. ASSUME NEW r \in Rpcs, SimAnswer(r)
      PROVE  Recalled'
  BY <1>10 DEF SimAnswer, env, Recall
<1>11. ASSUME NEW r \in Rpcs, SimFail(r)
      PROVE  Recalled'
  BY <1>11 DEF SimFail, env
<1>12. ASSUME NEW r \in Rpcs, SimSet(r)
      PROVE  Recalled'
  BY <1>12, SMTT(30) DEF SimSet, SimKey, SimKeys, Requests
<1>13. ASSUME NEW r \in Rpcs, Analyze(r)
      PROVE  Recalled'
  BY <1>13 DEF Analyze, env
<1>14. ASSUME NEW r \in Rpcs, Persist(r) \/ PersistTimeout(r) \/ PersistFail(r)
      PROVE  Recalled'
  BY <1>14 DEF Persist, PersistTimeout, PersistFail, env
<1>15. ASSUME NEW r \in Rpcs, ObserveSuccess(r) \/ ObserveError(r)
      PROVE  Recalled'
  BY <1>15 DEF ObserveSuccess, ObserveError, Return
<1>16. ASSUME NEW r \in Rpcs, Cancel(r)
      PROVE  Recalled'
  BY <1>16 DEF Cancel
<1>17. ASSUME NEW c \in inflight, LateStore(c)
      PROVE  Recalled'
  BY <1>17 DEF LateStore
<1>18. CASE Tick
  BY <1>18 DEF Tick, env
<1>19. CASE UNCHANGED vars
  BY <1>19 DEF vars
<1> HIDE DEF TypeOK, Frames, Recalled, CachedIncidentsAreStored
<1>20. ASSUME NEW r \in Rpcs, Step(r)
       PROVE  Recalled'
  BY <1>2, <1>3, <1>4, <1>5, <1>6, <1>7, <1>8, <1>9, <1>10, <1>11, <1>12,
     <1>13, <1>14, <1>15, <1>20 DEF Step
<1> QED
  BY <1>1, <1>16, <1>17, <1>18, <1>19, <1>20 DEF Next

\* A record names an investigation that is past its one attempt to keep it.
OwnRecords ==
    /\ \A c \in inflight : c.by \in Rpcs
    /\ \A c \in store \cup inflight : c.by \in Rpcs => pc[c.by] \in {"observe", "ok"}
    /\ \A c, d \in inflight : c.by = d.by => c = d

\* Only Persist and PersistTimeout send a record, and they lead to the answer.
LEMMA StepOwnRecords ==
    TypeOK /\ Frames /\ OwnRecords /\ [Next]_vars => OwnRecords'
<1> SUFFICES ASSUME TypeOK, Frames, OwnRecords, [Next]_vars PROVE OwnRecords'
    OBVIOUS
<1> USE ConstantAssumption DEF TypeOK, Frames, OwnRecords, Goto, Working, Finished
<1>1. ASSUME NEW r \in Rpcs, NEW q \in Requests, Receive(r, q)
      PROVE  OwnRecords'
  BY <1>1 DEF Receive, env
<1>2. ASSUME NEW r \in Rpcs, GraphHit(r)
      PROVE  OwnRecords'
  BY <1>2 DEF GraphHit, env
<1>3. ASSUME NEW r \in Rpcs, GraphMiss(r)
      PROVE  OwnRecords'
  BY <1>3 DEF GraphMiss, env
<1>4. ASSUME NEW r \in Rpcs, NEW e \in BOOLEAN, GraphAnswer(r, e)
      PROVE  OwnRecords'
  BY <1>4 DEF GraphAnswer, env
<1>5. ASSUME NEW r \in Rpcs, GraphFail(r)
      PROVE  OwnRecords'
  BY <1>5 DEF GraphFail, env
<1>6. ASSUME NEW r \in Rpcs, GraphSet(r)
      PROVE  OwnRecords'
  BY <1>6 DEF GraphSet
<1>7. ASSUME NEW r \in Rpcs,
             FetchMetricSeries(r) \/ FetchLogEntries(r) \/ FetchTraceSpans(r)
      PROVE  OwnRecords'
  BY <1>7 DEF FetchMetricSeries, FetchLogEntries, FetchTraceSpans, FetchSignal, env
<1>8. ASSUME NEW r \in Rpcs, SimHit(r)
      PROVE  OwnRecords'
  BY <1>8 DEF SimHit, env
<1>9. ASSUME NEW r \in Rpcs, SimMiss(r) \/ SimEmpty(r)
      PROVE  OwnRecords'
  BY <1>9 DEF SimMiss, SimEmpty, env
<1>10. ASSUME NEW r \in Rpcs, SimAnswer(r)
      PROVE  OwnRecords'
  BY <1>10 DEF SimAnswer, env
<1>11. ASSUME NEW r \in Rpcs, SimFail(r)
      PROVE  OwnRecords'
  BY <1>11 DEF SimFail, env
<1>12. ASSUME NEW r \in Rpcs, SimSet(r)
      PROVE  OwnRecords'
  BY <1>12 DEF SimSet
<1>13. ASSUME NEW r \in Rpcs, Analyze(r)
      PROVE  OwnRecords'
  BY <1>13 DEF Analyze, env
<1>14. ASSUME NEW r \in Rpcs, Persist(r) \/ PersistTimeout(r) \/ PersistFail(r)
      PROVE  OwnRecords'
  BY <1>14 DEF Persist, PersistTimeout, PersistFail, env
<1>15. ASSUME NEW r \in Rpcs, ObserveSuccess(r) \/ ObserveError(r)
      PROVE  OwnRecords'
  BY <1>15 DEF ObserveSuccess, ObserveError, Return
<1>16. ASSUME NEW r \in Rpcs, Cancel(r)
      PROVE  OwnRecords'
  BY <1>16 DEF Cancel
<1>17. ASSUME NEW c \in inflight, LateStore(c)
      PROVE  OwnRecords'
  BY <1>17 DEF LateStore
<1>18. CASE Tick
  BY <1>18 DEF Tick, env
<1>19. CASE UNCHANGED vars
  BY <1>19 DEF vars
<1> HIDE DEF TypeOK, Frames, OwnRecords
<1>20. ASSUME NEW r \in Rpcs, Step(r)
       PROVE  OwnRecords'
  BY <1>2, <1>3, <1>4, <1>5, <1>6, <1>7, <1>8, <1>9, <1>10, <1>11, <1>12,
     <1>13, <1>14, <1>15, <1>20 DEF Step
<1> QED
  BY <1>1, <1>16, <1>17, <1>18, <1>19, <1>20 DEF Next

-----------------------------------------------------------------------------
(* The theorems *)

\* The inductive invariant.
IInv == TypeOK /\ Frames /\ OwnData /\ Ages /\ Recalled /\ OwnRecords

\* The inductive invariant holds at start-up.
LEMMA InitIInv == Init => IInv
<1> SUFFICES ASSUME Init PROVE IInv
    OBVIOUS
<1> USE ConstantAssumption, SeedAssumption DEF Init
<1>1. TypeOK /\ Frames
  BY InitTyped
<1>2. OwnData
  BY DEF OwnData, TenantIsolation
<1>3. Ages
  BY DEF Ages, GraphIsFresh, Working
<1>4. Recalled
  BY DEF Recalled, CachedIncidentsAreStored
<1>5. OwnRecords
  BY DEF OwnRecords
<1> QED
  BY <1>1, <1>2, <1>3, <1>4, <1>5 DEF IInv

\* Every reachable state satisfies the inductive invariant, whatever the RPCs,
\* the backends and the cache do.
THEOREM Invariance == Spec => []IInv
<1>1. IInv /\ [Next]_vars => IInv'
  BY StepTyped, StepOwnData, StepAges, StepRecalled, StepOwnRecords DEF IInv
<1> QED
  BY InitIInv, <1>1, PTL DEF Spec

\* The variables of InvestigateIncident keep their types.
THEOREM TypeCorrect == Spec => []TypeOK
BY Invariance, PTL DEF IInv

\* No investigation works with another tenant's graph, incident or advice.
THEOREM Isolation == Spec => []TenantIsolation
BY Invariance, PTL DEF IInv, OwnData

\* The graph FetchSignals starts with is younger than GraphTTL + CallTimeout,
\* for every time to live and every timeout.
THEOREM Freshness == Spec => []GraphIsFresh
BY Invariance, PTL DEF IInv, Ages

\* Synthetic incidents never reach the similar-incidents cache.
THEOREM CacheProvenance == Spec => []CachedIncidentsAreStored
BY Invariance, PTL DEF IInv, Recalled

\* The counters are cardinalities of sets that are finite at every moment.
Counted ==
    /\ CountersMatchAnswers
    /\ IsFiniteSet(AnsweredWith("ok"))
    /\ IsFiniteSet(AnsweredWith("internal"))

\* An answer and its counter change in the same step, one answer at a time.
LEMMA StepCounted == TypeOK /\ Counted /\ [Next]_vars => Counted'
<1> SUFFICES ASSUME TypeOK, Counted, [Next]_vars PROVE Counted'
    OBVIOUS
<1> USE DEF Counted, CountersMatchAnswers
<1>1. ASSUME NEW r \in Rpcs, ObserveSuccess(r)
      PROVE  Counted'
  <2>1. /\ r \notin AnsweredWith("ok")
        /\ AnsweredWith("ok")' = AnsweredWith("ok") \cup {r}
        /\ AnsweredWith("internal")' = AnsweredWith("internal")
    BY <1>1 DEF ObserveSuccess, Return, Goto, AnsweredWith, TypeOK
  <2>2. total'.success = total.success + 1 /\ total'.error = total.error
    BY <1>1 DEF ObserveSuccess, TypeOK
  <2> QED
    BY <2>1, <2>2, FS_AddElement
<1>2. ASSUME NEW r \in Rpcs, ObserveError(r)
      PROVE  Counted'
  <2>1. /\ r \notin AnsweredWith("internal")
        /\ AnsweredWith("internal")' = AnsweredWith("internal") \cup {r}
        /\ AnsweredWith("ok")' = AnsweredWith("ok")
    BY <1>2 DEF ObserveError, Return, Goto, AnsweredWith, TypeOK
  <2>2. total'.error = total.error + 1 /\ total'.success = total.success
    BY <1>2 DEF ObserveError, TypeOK
  <2> QED
    BY <2>1, <2>2, FS_AddElement
<1>3. ASSUME NEW r \in Rpcs, NEW l, UNCHANGED total,
             pc[r] \notin {"ok", "internal"}, l \notin {"ok", "internal"},
             pc' = [pc EXCEPT ![r] = l]
      PROVE  Counted'
  <2>1. /\ AnsweredWith("ok")' = AnsweredWith("ok")
        /\ AnsweredWith("internal")' = AnsweredWith("internal")
    BY <1>3 DEF AnsweredWith, TypeOK
  <2> QED
    BY <1>3, <2>1
<1>4. CASE UNCHANGED <<pc, total>>
  <2>1. /\ AnsweredWith("ok")' = AnsweredWith("ok")
        /\ AnsweredWith("internal")' = AnsweredWith("internal")
    BY <1>4 DEF AnsweredWith
  <2> QED
    BY <1>4, <2>1
<1>5. ASSUME NEW r \in Rpcs, NEW q \in Requests, Receive(r, q)
      PROVE  Counted'
  BY <1>3, <1>5 DEF Receive, Goto, env
<1>6. ASSUME NEW r \in Rpcs, Step(r), ~ObserveSuccess(r), ~ObserveError(r)
      PROVE  Counted'
  BY <1>3, <1>6 DEF Step, Goto, env, GraphHit, GraphMiss, GraphAnswer, GraphFail,
     GraphSet, FetchMetricSeries, FetchLogEntries, FetchTraceSpans, FetchSignal,
     SimHit, SimMiss, SimAnswer, SimEmpty, SimFail, SimSet, Analyze, Persist,
     PersistTimeout, PersistFail
<1> QED
  BY <1>1, <1>2, <1>4, <1>5, <1>6 DEF Next, vars, env, Cancel, LateStore, Tick

\* The success and error counters are the numbers of RPCs answered that way.
THEOREM Accounting == Spec => []CountersMatchAnswers
<1>1. Init => Counted
  <2> SUFFICES ASSUME Init PROVE Counted
    OBVIOUS
  <2>1. AnsweredWith("ok") = {} /\ AnsweredWith("internal") = {}
    BY DEF Init, AnsweredWith
  <2> QED
    BY <2>1, FS_EmptySet DEF Init, Counted, CountersMatchAnswers
<1> QED
  BY <1>1, StepCounted, TypeCorrect, PTL DEF Spec, Counted

\* Once its caller has gone, an investigation sends nothing to Weaviate.
THEOREM NothingAfterCancel == Spec => CancelledSendsNothing
<1>1. IInv /\ [Next]_vars => [\A r \in cancelled : RecordsBy(r)' \subseteq RecordsBy(r)]_vars
  <2> SUFFICES ASSUME IInv, [Next]_vars, NEW x \in cancelled
               PROVE  RecordsBy(x)' \subseteq RecordsBy(x)
    OBVIOUS
  <2> USE DEF RecordsBy
  <2>1. ASSUME NEW r \in Rpcs, Persist(r) \/ PersistTimeout(r)
        PROVE  RecordsBy(x)' \subseteq RecordsBy(x)
    <3>1. r # x /\ result[r].by = r
      BY <2>1 DEF Persist, PersistTimeout, Reaches, IInv, Frames
    <3> QED
      BY <2>1, <3>1 DEF Persist, PersistTimeout
  <2>2. ASSUME NEW c \in inflight, LateStore(c)
        PROVE  RecordsBy(x)' \subseteq RecordsBy(x)
    BY <2>2 DEF LateStore
  <2>3. CASE UNCHANGED <<store, inflight>>
    BY <2>3
  <2> QED
    BY <2>1, <2>2, <2>3 DEF Next, Step, vars, env, Receive, GraphHit, GraphMiss,
       GraphAnswer, GraphFail, GraphSet, FetchMetricSeries, FetchLogEntries,
       FetchTraceSpans, FetchSignal, SimHit, SimMiss, SimAnswer, SimEmpty, SimFail,
       SimSet, Analyze, PersistFail, ObserveSuccess, ObserveError, Cancel, Tick
<1> QED
  BY Invariance, <1>1, PTL DEF Spec, CancelledSendsNothing

-----------------------------------------------------------------------------
(* The refinement *)

\* At start-up no request is in progress and none has left a record.
LEMMA InitContract == Init => Contract!CInit
BY ConstantAssumption, SeedAssumption
   DEF Init, Contract!CInit, ContractStatus, ContractRecord

\* A step that neither ends, accepts nor persists is invisible in the contract.
LEMMA QuietStep ==
    ASSUME TypeOK, NEW r \in Rpcs, NEW l,
           pc[r] \in Working \ {"observe"}, l \in Working \ {"observe"},
           pc' = [pc EXCEPT ![r] = l], UNCHANGED <<store, inflight>>
    PROVE  UNCHANGED Contract!cvars
BY DEF TypeOK, Contract!cvars, ContractStatus, ContractRecord, Working, Finished

\* Every step of InvestigateIncident is a step of the contract or invisible in it.
LEMMA StepContract ==
    IInv /\ [Next]_vars => [Contract!CNext]_(Contract!cvars)
<1> SUFFICES ASSUME IInv, [Next]_vars
             PROVE  Contract!CNext \/ UNCHANGED Contract!cvars
    OBVIOUS
<1> USE ConstantAssumption DEF Goto
<1>0. TypeOK /\ Frames /\ OwnRecords
  BY DEF IInv
<1>1. ASSUME NEW r \in Rpcs, NEW q \in Requests, Receive(r, q)
      PROVE  Contract!CNext
  <2>1. UNCHANGED ContractRecord
    BY <1>1 DEF Receive, env, ContractRecord
  <2>2. CASE q.valid
    <3>1. ContractStatus' = [ContractStatus EXCEPT ![r] = "running"]
      BY <1>0, <1>1, <2>2 DEF Receive, ContractStatus, TypeOK, Finished
    <3>2. ContractStatus[r] = "idle"
      BY <1>1 DEF Receive, ContractStatus
    <3> QED
      BY <2>1, <3>1, <3>2 DEF Contract!CNext, Contract!Accept
  <2>3. CASE ~q.valid
    <3>1. ContractStatus' = [ContractStatus EXCEPT ![r] = "invalid"]
      BY <1>0, <1>1, <2>3 DEF Receive, ContractStatus, TypeOK, Finished
    <3>2. ContractStatus[r] = "idle"
      BY <1>1 DEF Receive, ContractStatus
    <3> QED
      BY <2>1, <3>1, <3>2 DEF Contract!CNext, Contract!Reject
  <2> QED
    BY <2>2, <2>3
<1>2. ASSUME NEW r \in Rpcs,
             \/ GraphHit(r) \/ GraphMiss(r) \/ (\E e \in BOOLEAN : GraphAnswer(r, e))
             \/ GraphFail(r) \/ GraphSet(r)
      PROVE  UNCHANGED Contract!cvars
  BY <1>0, <1>2, QuietStep DEF GraphHit, GraphMiss, GraphAnswer, GraphFail, GraphSet,
     env, Working
<1>3. ASSUME NEW r \in Rpcs,
             FetchMetricSeries(r) \/ FetchLogEntries(r) \/ FetchTraceSpans(r)
      PROVE  UNCHANGED Contract!cvars
  BY <1>0, <1>3, QuietStep DEF FetchMetricSeries, FetchLogEntries, FetchTraceSpans,
     FetchSignal, env, Working
<1>4. ASSUME NEW r \in Rpcs,
             \/ SimHit(r) \/ SimMiss(r) \/ SimAnswer(r) \/ SimEmpty(r)
             \/ SimFail(r) \/ SimSet(r) \/ Analyze(r)
      PROVE  UNCHANGED Contract!cvars
  BY <1>0, <1>4, QuietStep DEF SimHit, SimMiss, SimAnswer, SimEmpty, SimFail, SimSet,
     Analyze, env, Working
<1>5. ASSUME NEW r \in Rpcs, Persist(r) \/ PersistTimeout(r) \/ PersistFail(r)
      PROVE  Contract!CNext
  <2>1. /\ ContractStatus[r] = "running"
        /\ ContractStatus' = [ContractStatus EXCEPT ![r] = "closing"]
    <3>1. pc[r] = "persist" /\ pc' = [pc EXCEPT ![r] = "observe"]
      BY <1>5 DEF Persist, PersistTimeout, PersistFail
    <3> QED
      BY <1>0, <3>1 DEF ContractStatus, TypeOK, Finished
  <2>2. result[r].by = r
    BY <1>0, <1>5 DEF Persist, PersistTimeout, PersistFail, Frames
  <2>3. \A c \in store \cup inflight : c.by # r
    BY <1>0, <1>5 DEF Persist, PersistTimeout, PersistFail, OwnRecords
  <2>4. \E how \in {"none", "sent", "kept"} :
            ContractRecord' = [ContractRecord EXCEPT ![r] = how]
    <3>1. CASE Persist(r)
      <4>1. ContractRecord' = [ContractRecord EXCEPT ![r] = "kept"]
        BY <2>2, <3>1 DEF Persist, ContractRecord
      <4> QED
        BY <4>1
    <3>2. CASE PersistTimeout(r)
      <4>1. ContractRecord' = [ContractRecord EXCEPT ![r] = "sent"]
        BY <2>2, <2>3, <3>2 DEF PersistTimeout, ContractRecord
      <4> QED
        BY <4>1
    <3>3. CASE PersistFail(r)
      <4>1. ContractRecord' = [ContractRecord EXCEPT ![r] = "none"]
        BY <2>3, <3>3 DEF PersistFail, ContractRecord, env
      <4> QED
        BY <4>1
    <3> QED
      BY <1>5, <3>1, <3>2, <3>3
  <2> QED
    BY <2>1, <2>4 DEF Contract!CNext, Contract!Keep
<1>6. ASSUME NEW r \in Rpcs, ObserveSuccess(r) \/ ObserveError(r)
      PROVE  Contract!CNext
  <2>1. UNCHANGED ContractRecord
    BY <1>6 DEF ObserveSuccess, ObserveError, ContractRecord
  <2>2. CASE ObserveSuccess(r)
    <3>1. /\ ContractStatus[r] = "closing"
          /\ ContractStatus' = [ContractStatus EXCEPT ![r] = "ok"]
      BY <1>0, <2>2 DEF ObserveSuccess, Return, ContractStatus, TypeOK, Finished
    <3> QED
      BY <2>1, <3>1 DEF Contract!CNext, Contract!Succeed
  <2>3. CASE ObserveError(r)
    <3>1. /\ ContractStatus[r] = "running"
          /\ ContractStatus' = [ContractStatus EXCEPT ![r] = "internal"]
      BY <1>0, <2>3 DEF ObserveError, Return, ContractStatus, TypeOK, Finished
    <3> QED
      BY <2>1, <3>1 DEF Contract!CNext, Contract!Fail
  <2> QED
    BY <1>6, <2>2, <2>3
<1>7. ASSUME NEW c \in inflight, LateStore(c)
      PROVE  Contract!CNext \/ UNCHANGED Contract!cvars
  <2> DEFINE r == c.by
  <2>1. r \in Rpcs /\ \A d \in inflight : d.by = r => d = c
    BY <1>0 DEF OwnRecords
  <2>2. UNCHANGED ContractStatus
    BY <1>7 DEF LateStore, ContractStatus
  <2>3. \A x \in Rpcs : x # r => ContractRecord'[x] = ContractRecord[x]
    BY <1>7 DEF LateStore, ContractRecord
  <2>4. CASE \E d \in store : d.by = r
    <3>1. ContractRecord'[r] = ContractRecord[r]
      BY <1>7, <2>1, <2>4 DEF LateStore, ContractRecord
    <3>2. UNCHANGED ContractRecord
      BY <2>3, <3>1 DEF ContractRecord
    <3> QED
      BY <2>2, <3>2 DEF Contract!cvars
  <2>5. CASE \A d \in store : d.by # r
    <3>1. ContractRecord[r] = "sent" /\ ContractRecord'[r] \in {"none", "kept"}
      BY <1>7, <2>1, <2>5 DEF LateStore, ContractRecord
    <3>2. ContractRecord' = [ContractRecord EXCEPT ![r] = ContractRecord'[r]]
      <4>1. /\ ContractRecord' = [x \in Rpcs |-> ContractRecord'[x]]
            /\ ContractRecord = [x \in Rpcs |-> ContractRecord[x]]
        BY DEF ContractRecord
      <4> QED
        BY <2>1, <2>3, <4>1
    <3> QED
      BY <2>1, <2>2, <3>1, <3>2 DEF Contract!CNext, Contract!Arrive
  <2> QED
    BY <2>4, <2>5
<1>8. CASE (\E r \in Rpcs : Cancel(r)) \/ Tick \/ UNCHANGED vars
  BY <1>8 DEF Cancel, Tick, vars, env, Contract!cvars, ContractStatus, ContractRecord
<1> QED
  BY <1>1, <1>2, <1>3, <1>4, <1>5, <1>6, <1>7, <1>8 DEF Next, Step

\* InvestigateIncident implements RcaContract: one answer per request, one attempt
\* to keep a record, and no record from an investigation that fails.
THEOREM Refinement == Spec => ImplementsContract
BY InitContract, StepContract, Invariance, PTL DEF Spec, ImplementsContract, Contract!CSpec

=============================================================================
