----------------------------- MODULE FakeDriver -----------------------------
(***************************************************************************)
(* The synthetic pipeline (pipeline/fake_driver.cpp): a thread that        *)
(* publishes whole turns, with their own count of turn ids, to the FSM     *)
(* through its queue (suppress_speech_events is off: no microphone).       *)
(*                                                                         *)
(* Of the events of a turn those are kept which the FSM handles.  "pause"  *)
(* is a sleep after which a stopped driver returns.                        *)
(***************************************************************************)
EXTENDS Fsm, Sequences, SequencesExt

CONSTANTS
    SentencesPerTurn,   \* sentences_per_turn
    MaxDriven           \* bound: turns the driver begins

ASSUME DriverAssumption == SentencesPerTurn \in Nat /\ MaxDriven \in Nat

VARIABLES
    script,     \* what run_one_turn has still to do
    driven,     \* `turn' of run_loop
    running,    \* running_; "ended": the thread has returned
    inbox       \* the queue of the FSM's subscription

driverVars == <<script, driven, running, inbox>>

Sentence == <<"LlmSentence", "pause", "pause", "PlaybackFinished", "pause">>
Asked == <<"SpeechStarted", "pause", "SpeechEnded", "pause", "FinalTranscript", "pause">>

(* Mutant of OneTurn: the last LlmFinished is left out. *)
OneTurnUnfinished == Asked \o FlattenSeq([i \in 1..SentencesPerTurn |-> Sentence])
OneTurn == Asked \o FlattenSeq([i \in 1..SentencesPerTurn |-> Sentence]) \o <<"LlmFinished">>

\* Its two last sleeps are not followed by a look at running_, and the cut-off stream still speaks.
OneTurnWithBargeIn ==
    Asked \o <<"LlmSentence", "PlaybackFinished", "UserInterrupted",
               "LlmSentence", "PlaybackFinished", "LlmFinished">>

DriverInit ==
    /\ FsmInit
    /\ script = <<>> /\ driven = 1 /\ running = "yes" /\ inbox = <<>>

\* The FSM listens before the dialogue stack starts the driver.
DriverBegins ==
    /\ state # "Idle" /\ script = <<>> /\ running = "yes" /\ driven <= MaxDriven
    /\ script' \in {OneTurn, OneTurnWithBargeIn}
    /\ UNCHANGED <<fsmVars, driven, running, inbox>>

\* The last publish returns, and the count goes up unless the driver was stopped.
DriverGoesOn ==
    /\ script # <<>> /\ running # "ended"
    /\ LET stops == Head(script) = "pause" /\ running = "stopping"
           rest == IF stops THEN <<>> ELSE Tail(script)
       IN  /\ script' = rest
           /\ driven' = IF rest = <<>> /\ running = "yes" THEN driven + 1 ELSE driven
           /\ running' = IF rest = <<>> /\ running = "stopping" THEN "ended" ELSE running
    /\ IF Head(script) = "pause" THEN UNCHANGED inbox
       ELSE inbox' = Append(inbox, [type |-> Head(script), turn |-> driven])
    /\ UNCHANGED fsmVars

DriverStops ==
    /\ running = "yes"
    /\ running' = IF script = <<>> THEN "ended" ELSE "stopping"
    /\ UNCHANGED <<fsmVars, script, driven, inbox>>

FsmTakes ==
    /\ inbox # <<>> /\ inbox' = Tail(inbox)
    /\ \/ Head(inbox).type = "SpeechStarted" /\ HandleSpeechStarted
       \/ Head(inbox).type = "SpeechEnded" /\ HandleSpeechEnded
       \/ Head(inbox).type = "FinalTranscript" /\ HandleFinalTranscript
       \/ Head(inbox).type = "LlmSentence" /\ HandleLlmSentence
       \/ Head(inbox).type = "LlmFinished" /\ HandleLlmFinished
       \/ Head(inbox).type = "PlaybackFinished" /\ HandlePlaybackFinished(Head(inbox).turn)
       \/ Head(inbox).type = "UserInterrupted" /\ HandleUserInterrupted
    /\ UNCHANGED <<script, driven, running>>

FsmProceeds ==
    /\ Start \/ InterruptOutcome \/ HandlerContinues
    /\ UNCHANGED driverVars

DriverNext ==
    DriverBegins \/ DriverGoesOn \/ DriverStops \/ FsmTakes \/ FsmProceeds

-----------------------------------------------------------------------------
(* The driver's count of turns and the FSM's stay in step, as run_loop     *)
(* relies on: whenever the driver has published whole turns and the FSM    *)
(* has caught up, however late, the FSM listens again, has minted the ids  *)
(* the driver used and has ended every one of them, cut off or not.        *)
DriverInStep ==
    (script = <<>> /\ running = "yes" /\ inbox = <<>> /\ step = "idle" /\ state # "Idle")
        => /\ state = "Listening" /\ active = driven - 1 /\ nextTurn = driven
           /\ completed + interrupted + discarded = driven - 1
=============================================================================
