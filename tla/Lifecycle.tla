----------------------------- MODULE Lifecycle -----------------------------
(***************************************************************************)
(* The process: start-up, failure and shutdown (cmd/rca-engine/main.go,    *)
(* internal/config/config.go, internal/api/server.go).  Four goroutines    *)
(* meet here: main, the one in grpc.Server.Serve, the one in the metrics   *)
(* server's ListenAndServe and, at the end, the one in GracefulStop.       *)
(* Handlers run in goroutines of gRPC's own and may take as long as they   *)
(* like.  The behaviour of grpc-go, net/http and os/signal is external,    *)
(* modelled as far as main and Server use it.                              *)
(***************************************************************************)
EXTENDS Naturals

CONSTANT Rpcs   \* calls clients may make

VARIABLES
    main,      \* the step main is about to take
    code,      \* how the process ended: "none", "ok", "fail" or "killed"
    cfg,       \* the configuration config.Load gave
    provider,  \* the cache provider in use
    handled,   \* whether SIGINT and SIGTERM go to NotifyContext
    done,      \* NotifyContext's context is cancelled
    serve,     \* goroutine of Server.Start
    grpc,      \* the gRPC server
    metrics,   \* goroutine of the metrics server
    open,      \* whether the metrics server may still be started or serve
    drain,     \* goroutine of GracefulStop
    timer,     \* the deadline of Shutdown's context
    rpc        \* rpc[r]: "none", "running", "answered" or "cut"

vars == <<main, code, cfg, provider, handled, done, serve, grpc, metrics, open,
          drain, timer, rpc>>
servers == <<serve, grpc, metrics, open, drain, timer, rpc>>

Startup == {"load", "register", "cache", "rules", "listen", "notify", "spawnMetrics", "spawnServe"}
Shutdowns == {"shutdown", "select", "metricsDown", "linger"}

\* What main does with the configuration, no more: is there an address for the
\* metrics, is a cache asked for, is there a rule pack, is there a grace period.
Unset == "unset"
Configs == [metrics : BOOLEAN, cache : BOOLEAN, rules : BOOLEAN, grace : BOOLEAN]
NoConfig == [metrics |-> FALSE, cache |-> FALSE, rules |-> FALSE, grace |-> FALSE]

Init ==
    /\ main = "load" /\ code = "none"
    /\ cfg = NoConfig /\ provider = "noop"
    /\ handled = FALSE /\ done = FALSE
    /\ serve = "none" /\ grpc = "new"
    /\ metrics = "none" /\ open = TRUE
    /\ drain = "none" /\ timer = "off"
    /\ rpc = [r \in Rpcs |-> "none"]

\* The process ends: what its handlers were doing is cut off.
Exit(how) ==
    /\ main' = "exited"
    /\ code' = how
    /\ rpc' = [r \in Rpcs |-> IF rpc[r] = "running" THEN "cut" ELSE rpc[r]]
    /\ UNCHANGED <<cfg, provider, handled, done, serve, grpc, metrics, open, drain, timer>>

-----------------------------------------------------------------------------
(* config.Load: defaults, then the file, then the environment *)

\* defaultConfig: an address for metrics, a rule pack, ten seconds of grace and
\* no cache ("x" is some text).
Defaults == [metrics |-> "x", addr |-> "", enabled |-> "false", rules |-> "x", grace |-> "10s"]

\* A setting of the file replaces the default, even by an empty text.
FromFile(default, file) == IF file = Unset THEN default ELSE file

\* An environment variable counts only if it is not empty.
FromEnv(value, env) == IF env = "" THEN value ELSE env

\* A flag is set by "true" and, in the environment, by "1"; any other text
\* clears it.
IsTrue(flag) == flag \in {"true", "1"}

Load(file, env) ==
    [metrics |-> FromEnv(FromFile(Defaults.metrics, file.metrics), env.metrics) # "",
     cache |-> /\ IsTrue(FromEnv(FromFile(Defaults.enabled, file.enabled), env.enabled))
               /\ FromEnv(FromFile(Defaults.addr, file.addr), env.addr) # "",
     rules |-> FromEnv(FromFile(Defaults.rules, file.rules), env.rules) # "",
     grace |-> FromFile(Defaults.grace, file.grace) # "0s"]

Files == [metrics : {Unset, "", "x"}, enabled : {Unset, "true"}, addr : {Unset, "x"},
          rules : {Unset, ""}, grace : {Unset, "0s"}]
Envs == [metrics : {"", "x"}, enabled : {"", "1", "no"}, addr : {"", "x"}, rules : {"", "x"}]

\* The file is missing, unreadable or no YAML; one that is not named is not read.
LoadFails ==
    /\ main = "load"
    /\ Exit("fail")

LoadConfig(file, env) ==
    /\ main = "load"
    /\ cfg' = Load(file, env)
    /\ main' = "register"
    /\ UNCHANGED <<code, provider, handled, done, servers>>

-----------------------------------------------------------------------------
(* main up to the point where it waits *)

\* metrics.Register; a collector that is registered already is not an error.
RegisterMetrics ==
    /\ main = "register"
    /\ \/ main' = "cache" /\ UNCHANGED <<code, cfg, provider, handled, done, servers>>
       \/ Exit("fail")

\* NewValkeyProvider pings the server; without an answer the no-op provider stays.
ChooseCache(answers) ==
    /\ main = "cache"
    /\ provider' = IF cfg.cache /\ answers THEN "valkey" ELSE "noop"
    /\ main' = "rules"
    /\ UNCHANGED <<code, cfg, handled, done, servers>>

\* A rule pack that does not exist is none; one that cannot be read is fatal.
LoadRules ==
    /\ main = "rules"
    /\ \/ main' = "listen" /\ UNCHANGED <<code, cfg, provider, handled, done, servers>>
       \/ cfg.rules /\ Exit("fail")

NewServer ==
    /\ main = "listen"
    /\ \/ main' = "notify" /\ UNCHANGED <<code, cfg, provider, handled, done, servers>>
       \/ Exit("fail")

NotifyContext ==
    /\ main = "notify"
    /\ handled' = TRUE
    /\ main' = "spawnMetrics"
    /\ UNCHANGED <<code, cfg, provider, done, servers>>

SpawnMetrics ==
    /\ main = "spawnMetrics"
    /\ metrics' = IF cfg.metrics THEN "spawned" ELSE "none"
    /\ main' = "spawnServe"
    /\ UNCHANGED <<code, cfg, provider, handled, done, serve, grpc, open, drain, timer, rpc>>

SpawnServe ==
    /\ main = "spawnServe"
    /\ serve' = "spawned"
    /\ main' = "wait"
    /\ UNCHANGED <<code, cfg, provider, handled, done, grpc, metrics, open, drain, timer, rpc>>

-----------------------------------------------------------------------------
(* The two servers and their clients *)

Alive == main # "exited"

\* stop(): the context ends and the signals get their default effect again.
stop ==
    /\ done' = TRUE
    /\ handled' = FALSE

\* grpc.Server.Serve; after Stop or GracefulStop it returns an error at once.
Serve ==
    /\ Alive /\ serve = "spawned"
    /\ IF grpc = "new"
       THEN grpc' = "serving" /\ serve' = "serving" /\ UNCHANGED <<handled, done>>
       ELSE serve' = "returned" /\ stop /\ UNCHANGED grpc
    /\ UNCHANGED <<main, code, cfg, provider, metrics, open, drain, timer, rpc>>

\* The listener breaks: Start returns the error and the goroutine calls stop.
ServeFails ==
    /\ Alive /\ serve = "serving" /\ grpc = "serving"
    /\ serve' = "returned"
    /\ stop
    /\ UNCHANGED <<main, code, cfg, provider, grpc, metrics, open, drain, timer, rpc>>

\* Serve returns without an error once the server has been stopped.
ServeReturns ==
    /\ Alive /\ serve = "serving" /\ grpc = "stopped"
    /\ serve' = "returned"
    /\ UNCHANGED <<main, code, cfg, provider, handled, done, grpc, metrics, open, drain, timer, rpc>>

\* Fault: a metrics server that cannot listen is only logged.
MetricsFailsLogged ==
    /\ Alive /\ metrics = "spawned" /\ open
    /\ metrics' = "failed"
    /\ UNCHANGED <<main, code, cfg, provider, handled, done, serve, grpc, open, drain, timer, rpc>>

\* The metrics server cannot listen, or breaks later.
MetricsFails ==
    /\ Alive /\ metrics \in {"spawned", "serving"} /\ open
    /\ metrics' = "failed"
    /\ stop
    /\ UNCHANGED <<main, code, cfg, provider, serve, grpc, open, drain, timer, rpc>>

MetricsServe ==
    /\ Alive /\ metrics = "spawned" /\ open
    /\ metrics' = "serving"
    /\ UNCHANGED <<main, code, cfg, provider, handled, done, serve, grpc, open, drain, timer, rpc>>

\* After Shutdown ListenAndServe returns http.ErrServerClosed, started or not.
MetricsReturns ==
    /\ Alive /\ metrics \in {"spawned", "serving"} /\ ~open
    /\ metrics' = "closed"
    /\ UNCHANGED <<main, code, cfg, provider, handled, done, serve, grpc, open, drain, timer, rpc>>

\* A call reaches its handler: the server takes it, also one that a client sent
\* on an open connection before it learned of the drain.
Arrive(r) ==
    /\ Alive /\ grpc \in {"serving", "draining"}
    /\ rpc[r] = "none"
    /\ rpc' = [rpc EXCEPT ![r] = "running"]
    /\ UNCHANGED <<main, code, cfg, provider, handled, done, serve, grpc, metrics, open, drain, timer>>

Answer(r) ==
    /\ Alive /\ rpc[r] = "running"
    /\ rpc' = [rpc EXCEPT ![r] = "answered"]
    /\ UNCHANGED <<main, code, cfg, provider, handled, done, serve, grpc, metrics, open, drain, timer>>

\* SIGINT or SIGTERM; while nobody handles it, it ends the process.
Signal ==
    /\ Alive
    /\ IF handled
       THEN /\ done' = TRUE
            /\ UNCHANGED <<main, code, cfg, provider, handled, servers>>
       ELSE Exit("killed")

-----------------------------------------------------------------------------
(* main from <-ctx.Done() to its end, and Server.Shutdown *)

Wake ==
    /\ main = "wait" /\ done
    /\ main' = "shutdown"
    /\ UNCHANGED <<code, cfg, provider, handled, done, servers>>

\* Fault: a server that is not serving yet is left alone.
ShutdownIfServing ==
    /\ main = "shutdown"
    /\ IF grpc = "new"
       THEN main' = "metricsDown" /\ UNCHANGED <<drain, timer>>
       ELSE main' = "select" /\ drain' = "spawned" /\ timer' = IF cfg.grace THEN "running" ELSE "expired"
    /\ UNCHANGED <<code, cfg, provider, handled, done, serve, grpc, metrics, open, rpc>>

\* Fault: the context of the shutdown has no deadline.
ShutdownNoDeadline ==
    /\ main = "shutdown"
    /\ main' = "select"
    /\ drain' = "spawned"
    /\ UNCHANGED <<code, cfg, provider, handled, done, serve, grpc, metrics, open, timer, rpc>>

\* A context with the grace period, and a goroutine for GracefulStop; without a
\* grace period the context is over from the start.
Shutdown ==
    /\ main = "shutdown"
    /\ main' = "select"
    /\ drain' = "spawned"
    /\ timer' = IF cfg.grace THEN "running" ELSE "expired"
    /\ UNCHANGED <<code, cfg, provider, handled, done, serve, grpc, metrics, open, rpc>>

\* GracefulStop takes no further connection ...
GracefulStop ==
    /\ Alive /\ drain = "spawned"
    /\ drain' = "waiting"
    /\ grpc' = IF grpc = "stopped" THEN "stopped" ELSE "draining"
    /\ UNCHANGED <<main, code, cfg, provider, handled, done, serve, metrics, open, timer, rpc>>

\* ... and returns when the calls in progress have ended.
GracefulStopReturns ==
    /\ Alive /\ drain = "waiting"
    /\ \A r \in Rpcs : rpc[r] # "running"
    /\ drain' = "stopped"
    /\ grpc' = "stopped"
    /\ UNCHANGED <<main, code, cfg, provider, handled, done, serve, metrics, open, timer, rpc>>

GraceExpires ==
    /\ Alive /\ timer = "running"
    /\ timer' = "expired"
    /\ UNCHANGED <<main, code, cfg, provider, handled, done, serve, grpc, metrics, open, drain, rpc>>

\* Fault: the server is stopped whether or not the grace period is over.
StopAtOnce ==
    /\ main = "select"
    /\ grpc' = "stopped"
    /\ rpc' = [r \in Rpcs |-> IF rpc[r] = "running" THEN "cut" ELSE rpc[r]]
    /\ main' = "metricsDown"
    /\ UNCHANGED <<code, cfg, provider, handled, done, serve, metrics, open, drain, timer>>

\* select, case <-ctx.Done(): Stop cancels the calls in progress.
Stop ==
    /\ main = "select" /\ timer = "expired"
    /\ grpc' = "stopped"
    /\ rpc' = [r \in Rpcs |-> IF rpc[r] = "running" THEN "cut" ELSE rpc[r]]
    /\ main' = "metricsDown"
    /\ UNCHANGED <<code, cfg, provider, handled, done, serve, metrics, open, drain, timer>>

\* select, case <-stopped.
Stopped ==
    /\ main = "select" /\ drain = "stopped"
    /\ main' = "metricsDown"
    /\ UNCHANGED <<code, cfg, provider, handled, done, servers>>

\* metricsServer.Shutdown, five seconds at most; its error is only logged.
MetricsShutdown ==
    /\ main = "metricsDown"
    /\ open' = IF cfg.metrics THEN FALSE ELSE open
    /\ main' = "linger"
    /\ UNCHANGED <<code, cfg, provider, handled, done, serve, grpc, metrics, drain, timer, rpc>>

\* A last sleep, then main returns.
Return ==
    /\ main = "linger"
    /\ Exit("ok")

-----------------------------------------------------------------------------

Main ==
    \/ LoadFails
    \/ \E file \in Files, env \in Envs : LoadConfig(file, env)
    \/ RegisterMetrics
    \/ \E answers \in BOOLEAN : ChooseCache(answers)
    \/ LoadRules \/ NewServer \/ NotifyContext \/ SpawnMetrics \/ SpawnServe
    \/ Wake \/ Shutdown \/ Stop \/ Stopped \/ MetricsShutdown \/ Return

Next ==
    \/ Main
    \/ Serve \/ ServeFails \/ ServeReturns
    \/ MetricsFails \/ MetricsServe \/ MetricsReturns
    \/ \E r \in Rpcs : Arrive(r) \/ Answer(r)
    \/ Signal
    \/ GracefulStop \/ GracefulStopReturns \/ GraceExpires

Spec == Init /\ [][Next]_vars

\* Goroutines that can run do run and the grace period passes; no handler is
\* assumed to end.
FairSpec ==
    /\ Spec
    /\ WF_vars(Main) /\ WF_vars(Serve) /\ WF_vars(GracefulStop)
    /\ WF_vars(GracefulStopReturns) /\ WF_vars(GraceExpires)

-----------------------------------------------------------------------------
(* Properties *)

\* Every variable has its type; a process has an exit code once it has ended, and
\* a drain never goes without a deadline.
TypeOK ==
    /\ main \in Startup \cup {"wait", "exited"} \cup Shutdowns
    /\ code \in {"none", "ok", "fail", "killed"} /\ (code = "none" <=> main # "exited")
    /\ cfg \in Configs /\ provider \in {"noop", "valkey"}
    /\ handled \in BOOLEAN /\ done \in BOOLEAN /\ open \in BOOLEAN
    /\ serve \in {"none", "spawned", "serving", "returned"}
    /\ grpc \in {"new", "serving", "draining", "stopped"}
    /\ metrics \in {"none", "spawned", "serving", "failed", "closed"}
    /\ drain \in {"none", "spawned", "waiting", "stopped"}
    /\ timer \in {"off", "running", "expired"} /\ (timer = "off" <=> drain = "none")
    /\ rpc \in [Rpcs -> {"none", "running", "answered", "cut"}]

\* A call in progress is cut off only when the grace period is over, or by a
\* signal nobody handles: a failed server or an early signal starts the same
\* orderly shutdown.
GraceIsRespected ==
    \A r \in Rpcs : rpc[r] = "cut" => timer = "expired" \/ code = "killed"

\* Once Shutdown has returned no call is taken any more, even if the goroutine
\* of Server.Start gets to run only then.
NothingServedAfterShutdown ==
    [][(main \in {"metricsDown", "linger"}) =>
          \A r \in Rpcs : rpc[r] = "none" => rpc'[r] = "none"]_vars

\* When a signal arrives or one of the servers fails, the process ends, however
\* long its handlers take and whatever main was doing.
ShutdownCompletes ==
    (done \/ serve = "returned" \/ metrics = "failed") ~> (main = "exited")

=============================================================================
