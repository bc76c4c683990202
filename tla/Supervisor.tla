----------------------------- MODULE Supervisor -----------------------------
(***************************************************************************)
(* The supervisor (supervisor/supervisor.cpp), its service monitors        *)
(* (supervisor/service.cpp, supervisor/probe.cpp) and the gauges           *)
(* orchestrator/observability/supervisor_setup.cpp feeds from the bus.     *)
(*                                                                         *)
(* Time is counted in seconds, the period of the evaluator.  A monitor     *)
(* probes at most once per second (probe_interval_degraded is a second by  *)
(* default) and a bus worker and a woken evaluator are faster than that.   *)
(***************************************************************************)
EXTENDS Integers, Sequences, FiniteSets

CONSTANTS
    Services,       \* services with a health_url
    Critical,       \* those with fail_pipeline_if_down
    MaxFailures,    \* degraded_max_failures
    Grace           \* pipeline_fail_grace_seconds

ASSUME SupervisorAssumption ==
    /\ Critical \subseteq Services /\ IsFiniteSet(Services)
    /\ MaxFailures \in Nat /\ Grace \in Nat

VARIABLES
    mon,        \* the monitors: state, consecutive_failures_, thread
    down,       \* history: seconds a service has been Unhealthy, -1: it is not
    bus,        \* events on their way to the two kinds of subscriber
    wake,       \* evaluator_wake_
    eval,       \* evaluate_pipeline under way
    marker,     \* unhealthy_since_, as an age; -1: no entry
    pipeline,   \* pipeline_state_
    gauge,      \* the metrics: health of every service, state of the pipeline
    run,        \* running_ of the supervisor and how far stop() is
    fresh       \* the evaluator has run in this second

supervisorVars == <<mon, down, bus, wake, eval, marker, pipeline, gauge, run, fresh>>

ServiceStates == {"probing", "healthy", "degraded", "unhealthy"}
PipelineStates == {"ok", "failed", "no_configured_critical_services"}
Subscribers == {"evaluator", "health_gauge", "pipeline_gauge"}
Idle == [todo |-> {}, on |-> FALSE, failed |-> FALSE]

\* to_health_state
Published(state) == IF state = "probing" THEN "unknown" ELSE state

SupervisorInit ==
    /\ mon = [s \in Services |-> [state |-> "probing", failures |-> 0, at |-> "probe",
                                  prev |-> "probing"]]
    /\ down = [s \in Services |-> -1]
    /\ bus = [u \in Subscribers |-> <<>>]
    /\ wake = FALSE
    /\ eval = [todo |-> Services, on |-> TRUE, failed |-> FALSE]
    /\ marker = [s \in Services |-> -1]
    /\ pipeline = "no_configured_critical_services"
    /\ gauge = [health |-> [s \in Services |-> "unknown"],
                pipeline |-> "no_configured_critical_services"]
    /\ run = "up" /\ fresh = FALSE

-----------------------------------------------------------------------------
(* ServiceMonitor *)
\* HttpProbe::get succeeds on a 2xx only; a probe function that throws has failed.
NextState(s, ok) ==
    IF ok THEN "healthy"
    ELSE IF mon[s].failures + 1 >= MaxFailures THEN "unhealthy" ELSE "degraded"

\* apply_result under the monitor's mutex; a monitor told to stop applies nothing.
ApplyResult(s) ==
    /\ mon[s].at = "probe"
    /\ \/ /\ run \in {"up", "evaluator"}
          /\ \E ok \in BOOLEAN :
                LET next == NextState(s, ok)
                IN  /\ mon' = [mon EXCEPT ![s] =
                                [state |-> next, prev |-> mon[s].state, at |-> "publish",
                                 failures |-> IF ok THEN 0
                                              ELSE IF mon[s].failures < MaxFailures
                                                   THEN mon[s].failures + 1 ELSE mon[s].failures]]
                    /\ down' = [down EXCEPT ![s] =
                                  IF next # "unhealthy" THEN -1 ELSE IF @ = -1 THEN 0 ELSE @]
       \/ /\ run = "monitors"
          /\ mon' = [mon EXCEPT ![s].at = "gone"]
          /\ UNCHANGED down
    /\ UNCHANGED <<bus, wake, eval, marker, pipeline, gauge, run, fresh>>

Send(to, event) == [u \in Subscribers |-> IF u \in to THEN Append(bus[u], event) ELSE bus[u]]

\* publish_if_changed, then wait for the interval or for stop().
PublishIfChanged(s) ==
    /\ mon[s].at = "publish"
    /\ bus' = IF Published(mon[s].prev) = Published(mon[s].state) THEN bus
              ELSE Send(Subscribers, [service |-> s, state |-> Published(mon[s].state)])
    /\ mon' = [mon EXCEPT ![s].at = "wait", ![s].prev = mon[s].state]
    /\ UNCHANGED <<down, wake, eval, marker, pipeline, gauge, run, fresh>>

(* Mutant of MonitorEnds: the long wait of a healthy service does not see stopping_. *)
HealthyMonitorSleeps(s) ==
    /\ mon[s].at = "wait" /\ run = "monitors" /\ mon[s].state # "healthy"
    /\ mon' = [mon EXCEPT ![s].at = "gone"]
    /\ UNCHANGED <<down, bus, wake, eval, marker, pipeline, gauge, run, fresh>>

MonitorEnds(s) ==
    /\ mon[s].at = "wait" /\ run = "monitors"
    /\ mon' = [mon EXCEPT ![s].at = "gone"]
    /\ UNCHANGED <<down, bus, wake, eval, marker, pipeline, gauge, run, fresh>>

-----------------------------------------------------------------------------
(* The subscriptions: the evaluator is woken, the gauges are set. *)
(* Mutant of WakeEvaluator: nothing but the tick runs the evaluator. *)
EvaluatorSleepsOn ==
    /\ bus["evaluator"] # <<>>
    /\ bus' = [bus EXCEPT !["evaluator"] = Tail(@)]
    /\ UNCHANGED <<mon, down, wake, eval, marker, pipeline, gauge, run, fresh>>

WakeEvaluator ==
    /\ bus["evaluator"] # <<>> /\ run # "stopped"
    /\ bus' = [bus EXCEPT !["evaluator"] = Tail(@)]
    /\ wake' = TRUE
    /\ UNCHANGED <<mon, down, eval, marker, pipeline, gauge, run, fresh>>

SetHealthState ==
    /\ bus["health_gauge"] # <<>>
    /\ bus' = [bus EXCEPT !["health_gauge"] = Tail(@)]
    /\ gauge' = LET e == Head(bus["health_gauge"])
                IN  [gauge EXCEPT !.health[e.service] = e.state]
    /\ UNCHANGED <<mon, down, wake, eval, marker, pipeline, run, fresh>>

\* Reads pipeline_state() when the event is handled, whatever the event.
SetPipelineState ==
    /\ bus["pipeline_gauge"] # <<>>
    /\ bus' = [bus EXCEPT !["pipeline_gauge"] = Tail(@)]
    /\ gauge' = [gauge EXCEPT !.pipeline = pipeline]
    /\ UNCHANGED <<mon, down, wake, eval, marker, pipeline, run, fresh>>

-----------------------------------------------------------------------------
(* The evaluator, which also start() runs once on its caller's thread.     *)
(* wait_for ends on the flag, on its timeout or on stop(); the flag is     *)
(* cleared before the monitors are read.                                   *)
EvaluatorWakes ==
    /\ ~eval.on /\ run = "up" /\ (wake \/ ~fresh)
    /\ wake' = FALSE
    /\ eval' = [todo |-> Services, on |-> TRUE, failed |-> FALSE]
    /\ UNCHANGED <<mon, down, bus, marker, pipeline, gauge, run, fresh>>

\* One monitor's snapshot; other monitors go on meanwhile.
EvaluateService(s) ==
    /\ s \in eval.todo
    /\ LET unhealthy == s \in Critical /\ mon[s].state = "unhealthy"
       IN  /\ marker' = [marker EXCEPT ![s] = IF ~unhealthy THEN -1
                                              ELSE IF @ = -1 THEN 0 ELSE @]
           /\ eval' = [eval EXCEPT !.todo = @ \ {s},
                                   !.failed = @ \/ (unhealthy /\ marker'[s] >= Grace)]
    /\ UNCHANGED <<mon, down, bus, wake, pipeline, gauge, run, fresh>>

\* Only Failed is announced: ErrorEvent reaches the subscriber to all events.
EvaluatePipeline ==
    /\ eval.on /\ eval.todo = {}
    /\ pipeline' = IF Critical = {} THEN "no_configured_critical_services"
                   ELSE IF eval.failed THEN "failed" ELSE "ok"
    /\ bus' = IF pipeline' = "failed" /\ pipeline # "failed"
              THEN Send({"pipeline_gauge"}, [service |-> "supervisor", state |-> "failed"])
              ELSE bus
    /\ eval' = Idle /\ fresh' = TRUE
    /\ UNCHANGED <<mon, down, wake, marker, gauge, run>>

-----------------------------------------------------------------------------
(* stop(): join the evaluator, then the monitors, then the subscription. *)
Stop ==
    /\ run = "up"
    /\ run' = "evaluator" /\ wake' = TRUE
    /\ UNCHANGED <<mon, down, bus, eval, marker, pipeline, gauge, fresh>>

StopGoesOn ==
    /\ \/ run = "evaluator" /\ ~eval.on /\ run' = "monitors"
       \/ run = "monitors" /\ (\A s \in Services : mon[s].at = "gone") /\ run' = "stopped"
    /\ UNCHANGED <<mon, down, bus, wake, eval, marker, pipeline, gauge, fresh>>

-----------------------------------------------------------------------------
(* A second passes once what it had time for is done. *)
Quiet ==
    /\ \A u \in Subscribers : bus[u] = <<>>
    /\ \A s \in Services : mon[s].at # "publish"
    /\ ~wake /\ ~eval.on /\ fresh

Older(age, bound) == IF age = -1 \/ age > bound THEN age ELSE age + 1

Second ==
    /\ run = "up" /\ Quiet
    /\ fresh' = FALSE
    /\ mon' = [s \in Services |-> [mon[s] EXCEPT !.at = "probe"]]
    /\ down' = [s \in Services |-> Older(down[s], Grace)]
    /\ marker' = [s \in Services |-> Older(marker[s], Grace)]
    /\ UNCHANGED <<bus, wake, eval, pipeline, gauge, run>>

MonitorSteps(s) == ApplyResult(s) \/ PublishIfChanged(s) \/ MonitorEnds(s)
BusSteps == WakeEvaluator \/ SetHealthState \/ SetPipelineState
EvaluatorSteps ==
    EvaluatorWakes \/ (\E s \in Services : EvaluateService(s)) \/ EvaluatePipeline

SupervisorNext ==
    \/ \E s \in Services : MonitorSteps(s)
    \/ BusSteps \/ EvaluatorSteps \/ Stop \/ StopGoesOn \/ Second

-----------------------------------------------------------------------------
(* The variables have the shape the code gives them. *)
SupervisorTypeOK ==
    /\ \A s \in Services : mon[s].state \in ServiceStates /\ mon[s].failures \in 0 .. MaxFailures
    /\ pipeline \in PipelineStates /\ eval.todo \subseteq Services
    /\ \A s \in Services : marker[s] \in -1 .. Grace + 1 /\ (marker[s] # -1 => s \in Critical)

(* The gate the Manager asks (pipeline_state() != Failed) follows the      *)
(* services: whenever nothing is under way it is closed exactly while some *)
(* critical service has been Unhealthy, without a break, for the grace     *)
(* period.  A service that recovers and fails again starts a new period,   *)
(* although the evaluator only sees samples (evaluate_pipeline).           *)
GateFollowsServices ==
    (Quiet /\ run = "up" /\ Critical # {}) =>
        (pipeline = "failed" <=> \E s \in Critical : down[s] >= Grace)

(* A service is Unhealthy only after degraded_max_failures probes in a row *)
(* failed, and the exported health of every service is its state once the  *)
(* events are handled (publish_if_changed, set_health_state).              *)
GaugesFollow ==
    /\ \A s \in Services :
          (mon[s].state = "unhealthy" <=> (mon[s].failures >= MaxFailures
                                           /\ mon[s].state \notin {"probing", "healthy"}))
    /\ Quiet => \A s \in Services : gauge.health[s] = Published(mon[s].state)
    /\ (Quiet /\ pipeline = "failed") => gauge.pipeline = "failed"

(* The gate and the exported health follow the services, although both are *)
(* fed by events and samples (evaluate_pipeline, publish_if_changed).      *)
HealthIsFollowed == GateFollowsServices /\ GaugesFollow

(* stop() ends, whatever the monitors and the evaluator were doing. *)
SupervisorStops == (run # "up") ~> (run = "stopped")
=============================================================================
