--------------------------- MODULE LifecycleProofs ---------------------------
(***************************************************************************)
(* Proofs about Lifecycle, for any set of calls.                           *)
(***************************************************************************)
EXTENDS Lifecycle, TLAPS

\* How far the servers can have got when main is at a given step: nothing serves
\* before Server.Start is spawned, GracefulStop runs only once Shutdown has
\* spawned it, and a Shutdown that has returned leaves a stopped server, whichever
\* case of its select was taken.
Phases ==
    /\ main \in Startup => serve = "none" /\ grpc = "new"
    /\ main \in Startup \cup {"wait", "shutdown"} => drain = "none"
    /\ drain = "none" => grpc \in {"new", "serving"}
    /\ drain = "stopped" => grpc = "stopped"
    /\ main = "select" => drain # "none"
    /\ main \in {"metricsDown", "linger"} => grpc = "stopped"

\* A server that has not begun, or that has stopped, has no handler running.
Quiescent == grpc \in {"new", "stopped"} => \A r \in Rpcs : rpc[r] # "running"

IInv == TypeOK /\ Phases /\ Quiescent /\ GraceIsRespected

\* config.Load gives a configuration main can use, whatever the file and the
\* environment hold.
LEMMA LoadTyped == \A file \in Files, env \in Envs : Load(file, env) \in Configs
BY DEF Load, Configs

\* The process starts with no server running and no call taken.
LEMMA InitIInv == Init => IInv
<1> SUFFICES ASSUME Init PROVE IInv
    OBVIOUS
<1>1. cfg \in Configs
  BY DEF Init, Configs, NoConfig
<1>2. rpc \in [Rpcs -> {"none", "running", "answered", "cut"}] /\ \A r \in Rpcs : rpc[r] = "none"
  BY DEF Init
<1>3. TypeOK
  BY <1>1, <1>2 DEF Init, TypeOK, Startup, Shutdowns
<1>4. Phases /\ Quiescent /\ GraceIsRespected
  BY <1>2 DEF Init, Phases, Quiescent, GraceIsRespected, Startup
<1> QED
  BY <1>3, <1>4 DEF IInv

\* The end of the process keeps the invariant when no handler is running, when
\* the grace period is over or when a signal ends it.
LEMMA ExitKeepsIInv ==
    ASSUME IInv, NEW how \in {"ok", "fail", "killed"}, Exit(how), Alive,
           how = "killed" \/ \A r \in Rpcs : rpc[r] # "running"
    PROVE  IInv'
<1> USE DEF IInv
<1>1. TypeOK'
  BY DEF TypeOK, Exit, Startup, Shutdowns, Alive
<1>2. Phases' /\ Quiescent'
  BY DEF TypeOK, Phases, Quiescent, Exit, Startup
<1>3. GraceIsRespected'
  BY DEF TypeOK, GraceIsRespected, Exit, Alive
<1> QED
  BY <1>1, <1>2, <1>3

\* A server that ends and calls stop leaves the calls and main alone.
LEMMA StopKeepsIInv ==
    ASSUME IInv, done' = TRUE, handled' = FALSE,
           UNCHANGED <<main, code, cfg, provider, grpc, open, drain, timer, rpc>>,
           \/ serve # "none" /\ serve' = "returned" /\ metrics' = metrics
           \/ serve' = serve /\ metrics' = "failed"
    PROVE  IInv'
<1> USE DEF IInv
<1>1. TypeOK'
  BY DEF TypeOK
<1>2. Phases'
  BY DEF Phases
<1>3. Quiescent' /\ GraceIsRespected'
  BY DEF Quiescent, GraceIsRespected
<1> QED
  BY <1>1, <1>2, <1>3

\* Every step of main, of the servers and of their clients keeps the invariant.
LEMMA StepIInv == IInv /\ [Next]_vars => IInv'
<1> SUFFICES ASSUME IInv, [Next]_vars PROVE IInv'
    OBVIOUS
<1>1. CASE Serve
  <2>1. CASE grpc = "new"
    <3>1. grpc' = "serving" /\ serve = "spawned" /\ serve' = "serving"
          /\ UNCHANGED <<main, code, cfg, provider, handled, done, metrics, open, drain, timer, rpc>>
      BY <1>1, <2>1 DEF Serve
    <3>2. TypeOK'
      BY <3>1 DEF IInv, TypeOK
    <3>3. Phases'
      BY <2>1, <3>1 DEF IInv, Phases
    <3>4. Quiescent' /\ GraceIsRespected'
      BY <3>1 DEF IInv, Quiescent, GraceIsRespected
    <3> QED
      BY <3>2, <3>3, <3>4 DEF IInv
  <2>2. CASE grpc # "new"
    BY <1>1, <2>2, StopKeepsIInv DEF Serve, stop
  <2> QED
    BY <2>1, <2>2
<1>2. CASE ServeFails
  BY <1>2, StopKeepsIInv DEF ServeFails, stop
<1>3. CASE MetricsFails
  BY <1>3, StopKeepsIInv DEF MetricsFails, stop
<1> USE DEF IInv, TypeOK, Phases, Quiescent, GraceIsRespected, Startup, Shutdowns, servers
<1>4. CASE LoadFails
  BY <1>4, ExitKeepsIInv DEF LoadFails, Alive
<1>5. ASSUME NEW file \in Files, NEW env \in Envs, LoadConfig(file, env) PROVE IInv'
  BY <1>5, LoadTyped DEF LoadConfig
<1>6. CASE RegisterMetrics
  BY <1>6, ExitKeepsIInv DEF RegisterMetrics, Alive
<1>7. ASSUME NEW answers \in BOOLEAN, ChooseCache(answers) PROVE IInv'
  BY <1>7 DEF ChooseCache
<1>8. CASE LoadRules
  BY <1>8, ExitKeepsIInv DEF LoadRules, Alive
<1>9. CASE NewServer
  BY <1>9, ExitKeepsIInv DEF NewServer, Alive
<1>10. CASE NotifyContext
  BY <1>10 DEF NotifyContext
<1>11. CASE SpawnMetrics
  BY <1>11 DEF SpawnMetrics
<1>12. CASE SpawnServe
  BY <1>12 DEF SpawnServe
<1>13. CASE Wake
  BY <1>13 DEF Wake
<1>14. CASE Shutdown
  BY <1>14 DEF Shutdown
<1>15. CASE Stop
  BY <1>15 DEF Stop
<1>16. CASE Stopped
  BY <1>16 DEF Stopped
<1>17. CASE MetricsShutdown
  <2>1. /\ main = "metricsDown" /\ main' = "linger" /\ open' \in BOOLEAN
        /\ UNCHANGED <<code, cfg, provider, handled, done, serve, grpc, metrics, drain, timer, rpc>>
    BY <1>17 DEF MetricsShutdown
  <2>2. TypeOK'
    BY <2>1
  <2>3. Phases'
    BY <2>1
  <2>4. Quiescent' /\ GraceIsRespected'
    BY <2>1
  <2> QED
    BY <2>2, <2>3, <2>4
<1>18. CASE Return
  BY <1>18, ExitKeepsIInv DEF Return, Alive
<1>19. CASE ServeReturns
  BY <1>19 DEF ServeReturns
<1>20. CASE MetricsServe
  BY <1>20 DEF MetricsServe
<1>21. CASE MetricsReturns
  BY <1>21 DEF MetricsReturns
<1>22. ASSUME NEW r \in Rpcs, Arrive(r) PROVE IInv'
  BY <1>22 DEF Arrive
<1>23. ASSUME NEW r \in Rpcs, Answer(r) PROVE IInv'
  BY <1>23 DEF Answer
<1>24. CASE Signal
  <2>1. CASE handled
    BY <1>24, <2>1 DEF Signal
  <2>2. CASE ~handled
    BY <1>24, <2>2, ExitKeepsIInv DEF Signal
  <2> QED
    BY <2>1, <2>2
<1>25. CASE GracefulStop
  BY <1>25 DEF GracefulStop
<1>26. CASE GracefulStopReturns
  BY <1>26 DEF GracefulStopReturns
<1>27. CASE GraceExpires
  BY <1>27 DEF GraceExpires
<1>28. CASE UNCHANGED vars
  BY <1>28 DEF vars
<1> QED
  BY <1>1, <1>2, <1>3, <1>4, <1>5, <1>6, <1>7, <1>8, <1>9, <1>10, <1>11, <1>12, <1>13,
     <1>14, <1>15, <1>16, <1>17, <1>18, <1>19, <1>20, <1>21, <1>22, <1>23, <1>24, <1>25,
     <1>26, <1>27, <1>28 DEF Next, Main

\* The inductive invariant holds of every behaviour.
LEMMA IInvHolds == Spec => []IInv
BY InitIInv, StepIInv, PTL DEF Spec

\* Every variable keeps its type; the process has an exit code exactly when it has
\* ended, and GracefulStop never runs without a deadline.
THEOREM TypeCorrect == Spec => []TypeOK
BY IInvHolds, PTL DEF IInv

\* However many calls are in progress, in whatever order signals, failures of the
\* two servers and the shutdown happen, a call is cut off only after the grace
\* period or by a signal nobody handles.
THEOREM GraceKept == Spec => []GraceIsRespected
BY IInvHolds, PTL DEF IInv

\* No call is taken after Server.Shutdown has returned, even when the goroutine of
\* Server.Start gets to run only then.
THEOREM ShutdownIsFinal == Spec => NothingServedAfterShutdown
<1> DEFINE Refuses == (main \in {"metricsDown", "linger"}) =>
                         \A r \in Rpcs : rpc[r] = "none" => rpc'[r] = "none"
<1>1. IInv /\ [Next]_vars => [Refuses]_vars
  <2> SUFFICES ASSUME IInv, Next, main \in {"metricsDown", "linger"}
               PROVE  \A r \in Rpcs : rpc[r] = "none" => rpc'[r] = "none"
      BY DEF vars
  <2>1. grpc = "stopped" /\ rpc \in [Rpcs -> {"none", "running", "answered", "cut"}]
    BY DEF IInv, Phases, TypeOK
  <2>2. CASE Return \/ Signal
    BY <2>1, <2>2 DEF Return, Signal, Exit, servers
  <2>3. CASE MetricsShutdown
    BY <2>3 DEF MetricsShutdown
  <2>4. CASE \E r \in Rpcs : Arrive(r)
    BY <2>1, <2>4 DEF Arrive
  <2>5. ASSUME NEW r \in Rpcs, Answer(r)
        PROVE  \A s \in Rpcs : rpc[s] = "none" => rpc'[s] = "none"
    BY <2>1, <2>5 DEF Answer
  <2>6. CASE Serve \/ ServeFails \/ ServeReturns \/ MetricsFails \/ MetricsServe \/ MetricsReturns
    BY <2>6 DEF Serve, ServeFails, ServeReturns, MetricsFails, MetricsServe, MetricsReturns
  <2>7. CASE GracefulStop \/ GracefulStopReturns \/ GraceExpires
    BY <2>7 DEF GracefulStop, GracefulStopReturns, GraceExpires
  <2>8. CASE Main
    <3>1. Return \/ MetricsShutdown
      BY <2>8 DEF Main, LoadFails, LoadConfig, RegisterMetrics, ChooseCache, LoadRules,
                  NewServer, NotifyContext, SpawnMetrics, SpawnServe, Wake, Shutdown,
                  Stop, Stopped
    <3> QED
      BY <3>1, <2>2, <2>3
  <2> QED
    BY <2>2, <2>4, <2>5, <2>6, <2>7, <2>8 DEF Next
<1> QED
  BY <1>1, IInvHolds, PTL DEF Spec, NothingServedAfterShutdown

=============================================================================
