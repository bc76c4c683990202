------------------------------ MODULE Startup ------------------------------
(***************************************************************************)
(* From main() to the main loop and back out (main.cpp): the echo-cancel   *)
(* module of the sound server that SystemAec loads, adopts and unloads     *)
(* (orchestrator/boot/system_aec.cpp), the hand-off to the model           *)
(* controller, the start-up gates, and the ways a life ends: every return  *)
(* of main runs ~SystemAec, execv and a crash run no destructor.           *)
(*                                                                         *)
(* The sound server outlives the processes; an operator uses it too, and   *)
(* `acva demo` runs beside the assistant.                                  *)
(***************************************************************************)
EXTENDS Integers, FiniteSets

CONSTANTS
    Processes,  \* processes of this program that may run at the same time
    Settings,   \* configurations a life may read: [aec, controller, strict, force, demo]
    Gates,      \* the back ends the start-up pass tries
    MaxLives,   \* bound: lives begun, by a start or by execv
    MaxForeign  \* bound: modules loaded by the operator

ASSUME StartupAssumption == MaxLives \in Nat /\ MaxForeign \in Nat

VARIABLES
    modules,    \* `pactl list short modules`, the module-echo-cancel lines of it
    proc,       \* each process: where main() is, its SystemAec, its environment
    told,       \* a signal has reached the handlers of the process
    issued,     \* modules loaded so far: the server does not use an index again
    lives,      \* history: lives begun
    foreign,    \* history: modules the operator loaded
    excused,    \* history: processes whose module the operator unloaded, or another process had too
    orphans     \* history: loaded modules whose owner died or failed to unload them

startupVars == <<modules, proc, told, issued, lives, foreign, excused, orphans>>

\* source_name= and sink_name= of a module: acva's, someone else's, or not given.
Names == {"acva", "other", "bare"}
NoModule == 0
NoCfg == CHOOSE s \in Settings : TRUE
Dead == [at |-> "off", cfg |-> NoCfg, active |-> FALSE, owned |-> FALSE,
         id |-> NoModule, pulse |-> "default"]

Ids == {m.id : m \in modules}
\* The list is in the order of the indices.
First == CHOOSE m \in modules : \A n \in modules : m.id <= n.id
Users(id) == {p \in Processes : proc[p].id = id}
Without(id) == {m \in modules : m.id # id}

StartupInit ==
    /\ modules = {} /\ proc = [p \in Processes |-> Dead] /\ told = [p \in Processes |-> FALSE]
    /\ issued = 0 /\ lives = 0 /\ foreign = 0 /\ excused = {} /\ orphans = {}

-----------------------------------------------------------------------------
(* The sound server, and the operator at it. *)
Load(names) ==
    /\ modules' = modules \union {[id |-> issued + 1, names |-> names]}
    /\ issued' = issued + 1

OperatorLoads ==
    /\ foreign < MaxForeign /\ foreign' = foreign + 1
    /\ \E names \in {"other", "bare"} : Load(names)
    /\ UNCHANGED <<proc, told, lives, excused, orphans>>

OperatorUnloads ==
    /\ \E id \in Ids :
           /\ modules' = Without(id)
           /\ excused' = excused \union Users(id)
           /\ orphans' = orphans \ {id}
    /\ UNCHANGED <<proc, told, issued, lives, foreign>>

-----------------------------------------------------------------------------
(* The configuration is read, then SystemAec is built: one pactl command   *)
(* to list, one to load.                                                   *)
Begin(p, cfg, pulse) ==
    /\ lives < MaxLives /\ lives' = lives + 1
    /\ proc' = [proc EXCEPT ![p] = [Dead EXCEPT !.at = IF cfg.aec THEN "find" ELSE "handoff",
                                                !.cfg = cfg, !.pulse = pulse]]
    /\ told' = [told EXCEPT ![p] = FALSE]
    /\ excused' = excused \ {p}

Launch(p) ==
    /\ proc[p].at = "off"
    /\ \E cfg \in Settings : Begin(p, cfg, "default")
    /\ UNCHANGED <<modules, issued, foreign, orphans>>

\* setenv PULSE_SINK and PULSE_SOURCE; active_.
Routed(self, id, names, owned) ==
    [self EXCEPT !.at = "handoff", !.id = id, !.pulse = names, !.owned = owned, !.active = TRUE]

(* Mutant of Adopts: a module that is found is never adopted. *)
AdoptsNothing(names) == FALSE
\* What a dead life left behind is known by its names.
Adopts(names) == names = "acva"

FindAec(p) ==
    /\ proc[p].at = "find"
    /\ IF modules = {}
       THEN proc' = [proc EXCEPT ![p].at = "load"] /\ UNCHANGED <<orphans, excused>>
       ELSE LET m == First IN
            IF m.names = "bare"
            THEN proc' = [proc EXCEPT ![p].at = "return"] /\ UNCHANGED <<orphans, excused>>
            ELSE /\ proc' = [proc EXCEPT ![p] = Routed(@, m.id, m.names, Adopts(m.names))]
                 /\ orphans' = orphans \ {m.id}
                 /\ excused' = IF Users(m.id) = {} THEN excused ELSE excused \union Users(m.id) \union {p}
    /\ UNCHANGED <<modules, told, issued, lives, foreign>>

\* A failing `pactl list` reads as no module at all.
ListFails(p) ==
    /\ proc[p].at = "find"
    /\ proc' = [proc EXCEPT ![p].at = "load"]
    /\ UNCHANGED <<modules, told, issued, lives, orphans, foreign, excused>>

LoadFailed(self) == [self EXCEPT !.at = "return"]

LoadAec(p) ==
    /\ proc[p].at = "load"
    /\ \/ /\ proc' = [proc EXCEPT ![p] = Routed(@, issued + 1, "acva", TRUE)]
          /\ Load("acva")
       \/ /\ proc' = [proc EXCEPT ![p] = LoadFailed(@)]
          /\ UNCHANGED <<modules, issued>>
    /\ UNCHANGED <<told, lives, orphans, foreign, excused>>

-----------------------------------------------------------------------------
(* The gates between SystemAec and the main loop. *)
Goes(p, at) ==
    /\ proc' = [proc EXCEPT ![p].at = at]
    /\ UNCHANGED <<modules, told, issued, lives, orphans, foreign, excused>>

\* The controller serves another model than llm.model_file and does not load it.
ControllerFails(cfg) == cfg.controller
HandOff(p) ==
    /\ proc[p].at = "handoff"
    /\ LET next == IF proc[p].cfg.demo THEN "demo" ELSE "build" IN
       \/ Goes(p, next)
       \/ ControllerFails(proc[p].cfg) /\ Goes(p, IF proc[p].cfg.strict THEN "return" ELSE next)

DemoEnds(p) == proc[p].at = "demo" /\ Goes(p, "return")

\* Database, recovery sweep, control server, dialogue stack and first session: each may fail.
\* One process has the control port.
Serving(p) == proc[p].at \in {"checks", "loop", "look", "closing", "restart"}
Build(p) ==
    /\ proc[p].at = "build"
    /\ \/ (\A q \in Processes \ {p} : ~Serving(q)) /\ Goes(p, "checks")
       \/ Goes(p, "return")

\* A gate that is configured asks its back end once, or opens the microphone: any may fail.
FailingGates == SUBSET Gates
\* startup_force_load: every gate is tried, and what failed is collected.
StartupFailures(cfg) == IF cfg.force THEN FailingGates ELSE {{}}
RunStartupPass(p) ==
    /\ proc[p].at = "checks"
    /\ \E failures \in StartupFailures(proc[p].cfg) :
           Goes(p, IF failures # {} /\ proc[p].cfg.strict THEN "closing" ELSE "loop")

-----------------------------------------------------------------------------
(* The main loop looks at the signal, then at the restart request.  The    *)
(* handlers are there from "build" on; before that a signal is a crash.    *)
Signal(p) ==
    /\ proc[p].at = "build" \/ Serving(p)
    /\ ~told[p] /\ told' = [told EXCEPT ![p] = TRUE]
    /\ UNCHANGED <<modules, proc, issued, lives, orphans, foreign, excused>>

SignalReceived(p) == told[p]

LoopTurn(p) == proc[p].at = "loop" /\ Goes(p, IF SignalReceived(p) THEN "closing" ELSE "look")
LoopLooks(p) == proc[p].at = "look" /\ \E at \in {"loop", "restart"} : Goes(p, at)
Shutdown(p) == proc[p].at = "closing" /\ Goes(p, "return")

\* The checkpoint or execv fails, or the image is replaced: the environment stays, no
\* destructor runs, and the configuration is read again.
RestartFails(p) == proc[p].at = "restart" /\ Goes(p, "return")
Abandoned(p) == IF proc[p].owned THEN {proc[p].id} \intersect Ids ELSE {}
Exec(p) ==
    /\ proc[p].at = "restart"
    /\ \E cfg \in Settings : ~cfg.demo /\ Begin(p, cfg, proc[p].pulse)
    /\ orphans' = orphans \union Abandoned(p)
    /\ UNCHANGED <<modules, issued, foreign>>

Ends(p) ==
    /\ proc' = [proc EXCEPT ![p] = Dead]
    /\ told' = [told EXCEPT ![p] = FALSE]
    /\ excused' = excused \ {p}
    /\ UNCHANGED <<issued, lives, foreign>>

\* ~SystemAec: unload what is owned; a failure is only logged.
Return(p) ==
    /\ proc[p].at = "return" /\ Ends(p)
    /\ \/ modules' = (IF proc[p].owned THEN Without(proc[p].id) ELSE modules) /\ orphans' = orphans \ Abandoned(p)
       \/ proc[p].owned /\ UNCHANGED modules /\ orphans' = orphans \union Abandoned(p)

Crash(p) ==
    /\ proc[p].at # "off" /\ Ends(p)
    /\ orphans' = orphans \union Abandoned(p)
    /\ UNCHANGED modules

GoesOn(p) ==
    \/ FindAec(p) \/ ListFails(p) \/ LoadAec(p) \/ HandOff(p) \/ DemoEnds(p) \/ Build(p) \/ RunStartupPass(p)
    \/ LoopTurn(p) \/ LoopLooks(p) \/ Shutdown(p) \/ RestartFails(p) \/ Exec(p) \/ Return(p)

StartupNext ==
    \/ OperatorLoads \/ OperatorUnloads
    \/ \E p \in Processes : Launch(p) \/ GoesOn(p) \/ Signal(p) \/ Crash(p)

-----------------------------------------------------------------------------
StartupTypeOK ==
    /\ \A m \in modules : m.id \in 1..issued /\ m.names \in Names
    /\ \A p \in Processes :
           /\ proc[p].cfg \in Settings /\ proc[p].id \in 0..issued
           /\ proc[p].owned => proc[p].active
           /\ proc[p].active => proc[p].id # NoModule /\ proc[p].pulse \in {"acva", "other"}
    /\ lives \in 0..MaxLives /\ foreign \in 0..MaxForeign

(* Nothing of acva's stays at the sound server without somebody to remove  *)
(* it: whichever return main takes, a module with acva's names is owned by *)
(* a process that is running, unless a crash, an execv or a failing        *)
(* `pactl unload-module` left it (SystemAec, main.cpp).                    *)
NoModuleIsForgotten ==
    \A m \in modules : m.names = "acva" =>
        \/ m.id \in orphans
        \/ \E p \in Processes : proc[p].owned /\ proc[p].id = m.id

(* No silent way around the canceller: a process in its main loop that is  *)
(* configured for the system's canceller is routed through a module which  *)
(* is loaded, unless the operator unloaded it or another process of the    *)
(* program had it too and has unloaded it (startup_error_).                *)
RoutedThroughModule ==
    \A p \in Processes : proc[p].at \in {"loop", "look"} /\ proc[p].cfg.aec =>
        proc[p].active /\ (proc[p].id \in Ids \/ p \in excused)

(* The module of the sound server is used by whom it is meant for, and     *)
(* removed in the end, over crashes, restarts and a second process.        *)
ModuleIsLookedAfter == NoModuleIsForgotten /\ RoutedThroughModule

(* A signal that arrives before the loop looks at it ends the process,     *)
(* while the stacks are built and the gates are tried too (main.cpp).  The *)
(* processes are interchangeable: one stands for all.                      *)
SignalledEnds ==
    LET p == CHOOSE p \in Processes : TRUE IN
    (told[p] /\ proc[p].at \in {"build", "checks", "loop"}) ~> (proc[p].at = "off")
=============================================================================
