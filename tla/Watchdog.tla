------------------------------ MODULE Watchdog ------------------------------
(***************************************************************************)
(* The watchdog (supervisor/watchdog.cpp) and the keep-alive timer         *)
(* (supervisor/keep_alive.cpp, wired in dialogue_stack.cpp): two threads   *)
(* that look at the FSM's state from outside while it moves.               *)
(*                                                                         *)
(* Time is counted in checks of the watchdog (check_interval_).            *)
(***************************************************************************)
EXTENDS Integers

CONSTANTS Threshold     \* stuck_threshold_seconds, in checks; 0: off

ASSUME WatchdogAssumption == Threshold \in Nat

VARIABLES
    fsm,        \* Fsm::state_, as the other threads move it
    idle,       \* age of last_activity_ns_
    fired,      \* fired_state_
    noting,     \* note_activity has stored the time, not yet the latch
    check,      \* run_check under way: what it has read
    checked,    \* the check of this interval is done
    since,      \* history: age of the FSM's present state
    alarms,     \* history: states reported since the FSM left them or was active
    ping,       \* the keep-alive thread: wait, tick
    keeping     \* running_ of the keep-alive timer and its join

watchdogVars == <<fsm, idle, fired, noting, check, checked, since, alarms, ping, keeping>>

FsmStates == {"idle", "listening", "user_speaking", "transcribing", "thinking",
           "speaking", "interrupted", "completed"}
ExpectsActivity == {"transcribing", "thinking", "speaking", "interrupted"}
NoCheck == [at |-> "none", state |-> "none", idle |-> 0, prev |-> "none"]

WatchdogInit ==
    /\ fsm = "idle" /\ idle = 0 /\ fired = "none" /\ noting = FALSE /\ check = NoCheck /\ checked = FALSE
    /\ since = 0 /\ alarms = [s \in FsmStates |-> 0]
    /\ ping = "wait" /\ keeping = "on"

\* Any other thread moves the FSM.
FsmMoves ==
    /\ \E s \in FsmStates \ {fsm} : fsm' = s
    /\ since' = 0 /\ alarms' = [alarms EXCEPT ![fsm] = 0, ![fsm'] = 0]
    /\ UNCHANGED <<noting, idle, fired, check, checked, ping, keeping>>

\* LlmToken, TtsAudioChunk, SpeechStarted or FinalTranscript on the
\* watchdog's own subscription, DropOldest: two stores.
NoteActivity ==
    /\ idle' = IF noting THEN idle ELSE 0
    /\ fired' = IF noting THEN "none" ELSE fired
    /\ noting' = ~noting
    /\ since' = 0 /\ alarms' = [s \in FsmStates |-> 0]
    /\ UNCHANGED <<fsm, check, checked, ping, keeping>>

-----------------------------------------------------------------------------
(* The check: the FSM's snapshot, the age of the last activity, the latch  *)
(* and the compare-exchange are four separate reads and writes.            *)
CheckState ==
    /\ check = NoCheck /\ ~checked
    /\ IF Threshold = 0 \/ fsm \notin ExpectsActivity
       THEN /\ fired' = IF Threshold = 0 THEN fired ELSE "none"
            /\ checked' = TRUE
            /\ UNCHANGED check
       ELSE /\ check' = [NoCheck EXCEPT !.at = "age", !.state = fsm]
            /\ UNCHANGED <<fired, checked>>
    /\ UNCHANGED <<noting, fsm, idle, since, alarms, ping, keeping>>

CheckAge ==
    /\ check.at = "age"
    /\ IF idle < Threshold THEN check' = NoCheck /\ checked' = TRUE
       ELSE check' = [check EXCEPT !.at = "latch"] /\ UNCHANGED checked
    /\ UNCHANGED <<noting, fsm, idle, fired, since, alarms, ping, keeping>>

(* Mutant of CheckLatch: every check of a stuck state reports it. *)
CheckLatchForgotten ==
    /\ check.at = "latch"
    /\ check' = [check EXCEPT !.at = "claim", !.prev = fired]
    /\ UNCHANGED <<noting, fsm, idle, fired, checked, since, alarms, ping, keeping>>

CheckLatch ==
    /\ check.at = "latch"
    /\ IF fired = check.state THEN check' = NoCheck /\ checked' = TRUE
       ELSE check' = [check EXCEPT !.at = "claim", !.prev = fired] /\ UNCHANGED checked
    /\ UNCHANGED <<noting, fsm, idle, fired, since, alarms, ping, keeping>>

\* Counter, log line and restart closure follow the exchange.
CheckClaim ==
    /\ check.at = "claim"
    /\ IF fired = check.prev
       THEN /\ fired' = check.state
            /\ alarms' = [alarms EXCEPT ![check.state] = @ + 1]
       ELSE UNCHANGED <<fired, alarms>>
    /\ check' = NoCheck /\ checked' = TRUE
    /\ UNCHANGED <<noting, fsm, idle, since, ping, keeping>>

Interval ==
    /\ checked
    /\ checked' = FALSE
    /\ idle' = IF idle > Threshold THEN idle ELSE idle + 1
    /\ since' = IF since > Threshold THEN since ELSE since + 1
    /\ UNCHANGED <<noting, fsm, fired, check, alarms, ping, keeping>>

-----------------------------------------------------------------------------
(* KeepAlive: after the interval, ask whether the FSM listens, then ping.  *)
(* stop() sets the flag under the mutex and joins: a ping runs to its end. *)
KeepAliveFires == ping = "wait" /\ keeping = "on" /\ fsm = "listening" /\ ping' = "tick"
KeepAlivePinged == ping = "tick" /\ ping' = "wait"
KeepAliveEnds == ping = "wait" /\ keeping = "stopping" /\ ping' = "gone"

KeepAlive ==
    /\ KeepAliveFires \/ KeepAlivePinged \/ KeepAliveEnds
    /\ UNCHANGED <<noting, fsm, idle, fired, check, checked, since, alarms, keeping>>

KeepAliveStop ==
    /\ \/ keeping = "on" /\ keeping' = "stopping"
       \/ keeping = "stopping" /\ ping = "gone" /\ keeping' = "stopped"
    /\ UNCHANGED <<noting, fsm, idle, fired, check, checked, since, alarms, ping>>

Check == CheckState \/ CheckAge \/ CheckLatch \/ CheckClaim

WatchdogNext ==
    FsmMoves \/ NoteActivity \/ Check \/ Interval \/ KeepAlive \/ KeepAliveStop

-----------------------------------------------------------------------------
(* One alarm per episode: a state is not reported again before the FSM     *)
(* left it or activity arrived, although activity, transitions and the     *)
(* check race for the latch (run_check_for_test, note_activity).           *)
OneAlarmPerEpisode == \A s \in FsmStates : alarms[s] <= 1

(* No stuck state goes unnoticed: when the FSM has been in a state that    *)
(* expects activity, and nothing has happened, for the threshold, the next *)
(* check leaves the latch on that state - now or in a check that read the  *)
(* same silence.                                                           *)
StuckIsLatched ==
    (Threshold > 0 /\ checked /\ check = NoCheck /\ fsm \in ExpectsActivity
     /\ ~noting /\ since >= Threshold /\ idle >= Threshold) => fired = fsm

(* A stuck state is reported, and once (run_check_for_test).               *)
StuckReportedOnce == OneAlarmPerEpisode /\ StuckIsLatched

(* The keep-alive timer stops although a ping may be under way. *)
KeepAliveStops == (keeping = "stopping") ~> (keeping = "stopped")
=============================================================================
