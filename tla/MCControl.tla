----------------------------- MODULE MCControl -----------------------------
(***************************************************************************)
(* Supervisor, Watchdog, Reload, Startup, VramMonitor and FakeDriver with  *)
(* its Fsm for TLC.  They share no variable, so a behaviour follows one of *)
(* them and leaves the others in their initial state.                      *)
(***************************************************************************)
EXTENDS Supervisor, Watchdog, Reload, Startup, VramMonitor, FakeDriver

VARIABLE part

vars == <<part, supervisorVars, watchdogVars, reloadVars, startupVars, vramVars,
          fsmVars, driverVars>>

-----------------------------------------------------------------------------
(* The files an operator writes. *)
NoPersona == [k \in {} |-> 0]
Plain == [parses |-> TRUE, persona |-> NoPersona,
          top |-> [temperature |-> 0, onset |-> 3, offset |-> 2, level |-> 0, wake |-> 0,
                   model |-> "m", dbPath |-> "/data/acva.db", probeTimeout |-> 0]]
Edited(f, changes) ==
    [f EXCEPT !.top = [k \in ConfigFields |-> IF k \in DOMAIN changes THEN changes[k] ELSE @[k]]]

MCFileContents ==
    { Plain,
      \* both thresholds move past each other, and the personality sets the temperature
      [Edited(Plain, [onset |-> 6, offset |-> 5]) EXCEPT !.persona = [temperature |-> 2]],
      Edited(Plain, [offset |-> 1, wake |-> 1, probeTimeout |-> 1]),
      Edited(Plain, [level |-> 1, model |-> "n"]),
      Edited(Plain, [onset |-> 1]) }  \* parses, but is not valid

\* As shipped: memory.db_path is left empty, to be resolved.
Shipped == Edited(Plain, [dbPath |-> ""])
ShippedContents == {Shipped, Edited(Shipped, [temperature |-> 1])}

MCResolve(path) == IF path = "" THEN "/data/acva.db" ELSE path

(* The configurations of the processes: an assistant with every gate on,   *)
(* one that tolerates everything, one without the canceller, a demo.       *)
MCSettings ==
    { [aec |-> TRUE, controller |-> TRUE, strict |-> TRUE, force |-> TRUE, demo |-> FALSE],
      [aec |-> FALSE, controller |-> TRUE, strict |-> FALSE, force |-> TRUE, demo |-> FALSE],
      [aec |-> TRUE, controller |-> FALSE, strict |-> FALSE, force |-> FALSE, demo |-> TRUE] }

-----------------------------------------------------------------------------
Init ==
    /\ SupervisorInit /\ WatchdogInit /\ ReloadInit /\ StartupInit /\ VramInit
    /\ DriverInit
    /\ disk \in {Plain, Shipped}
    /\ part \in {"supervisor", "watchdog", "reload", "startup", "vram", "driver"}

Next ==
    /\ UNCHANGED part
    /\ \/ /\ part = "supervisor" /\ SupervisorNext
          /\ UNCHANGED <<watchdogVars, reloadVars, startupVars, vramVars, fsmVars, driverVars>>
       \/ /\ part = "watchdog" /\ WatchdogNext
          /\ UNCHANGED <<supervisorVars, reloadVars, startupVars, vramVars, fsmVars, driverVars>>
       \/ /\ part = "reload" /\ ReloadNext
          /\ UNCHANGED <<supervisorVars, watchdogVars, startupVars, vramVars, fsmVars, driverVars>>
       \/ /\ part = "startup" /\ StartupNext
          /\ UNCHANGED <<supervisorVars, watchdogVars, reloadVars, vramVars, fsmVars, driverVars>>
       \/ /\ part = "vram" /\ VramNext
          /\ UNCHANGED <<supervisorVars, watchdogVars, reloadVars, startupVars, fsmVars, driverVars>>
       \/ /\ part = "driver" /\ DriverNext
          /\ UNCHANGED <<supervisorVars, watchdogVars, reloadVars, startupVars, vramVars>>

\* The threads run: a probe ends at its timeout, stop() goes on once it has begun, the main
\* loop comes round, a reload that has begun goes on, and main() goes on to its return.
Fairness ==
    /\ \A s \in Services : WF_supervisorVars(part = "supervisor" /\ MonitorSteps(s))
    /\ WF_supervisorVars(part = "supervisor" /\ EvaluatorSteps)
    /\ WF_supervisorVars(part = "supervisor" /\ StopGoesOn)
    /\ WF_watchdogVars(part = "watchdog" /\ KeepAlive)
    /\ WF_watchdogVars(part = "watchdog" /\ KeepAliveStop /\ keeping = "stopping")
    /\ \A c \in Callers : WF_reloadVars(part = "reload" /\ Reloading(c))
    /\ WF_reloadVars(part = "reload" /\ MainLoop)
    /\ WF_reloadVars(part = "reload" /\ (CloseControl \/ EndProcess))
    /\ \A p \in Processes : WF_startupVars(part = "startup" /\ GoesOn(p))

Spec == Init /\ [][Next]_vars /\ Fairness

(* Whatever is told to stop stops: the supervisor with its monitors, the   *)
(* keep-alive timer, and the process at a signal.                          *)
StopsWhenTold == SupervisorStops /\ KeepAliveStops /\ SignalledEnds
=============================================================================
