-------------------------------- MODULE Fsm ---------------------------------
(***************************************************************************)
(* The dialogue state machine of dialogue/fsm.{hpp,cpp} and the TurnFactory *)
(* of dialogue/turn.{hpp,cpp}.                                             *)
(*                                                                         *)
(* Handlers run one at a time on the FSM's bus worker, but a handler takes *)
(* mu_ several times and other threads read snapshot() in between, so each *)
(* handler is split where a reader of the state and the active turn (the   *)
(* barge-in detector, the Manager) can tell: `step' says what the rest of  *)
(* the current handler has to do.                                          *)
(*                                                                         *)
(* The handlers are reused by TurnPipeline, where the rest of the system   *)
(* decides which events arrive.  Here, in FsmNext, any event may arrive at *)
(* any time, which is more than the system does: what holds here holds     *)
(* whatever the other components publish.                                  *)
(***************************************************************************)
EXTENDS Integers, FiniteSets

NoTurn == 0         \* event::kNoTurn
States == {"Idle", "Listening", "UserSpeaking", "Transcribing",
           "Thinking", "Speaking", "Completed", "Interrupted"}
InTurn == {"UserSpeaking", "Transcribing", "Thinking", "Speaking"}
Outcomes == {"NotStarted", "Generating", "Speaking",
             "Interrupted", "Completed", "Discarded"}

VARIABLES
    nextTurn,       \* TurnFactory::next_
    state,          \* state_
    active,         \* active_.id
    outcome,        \* outcome_
    played,         \* sentences_played_
    received,       \* sentences_received_
    llmFinished,    \* llm_finished_seen_
    completed,      \* turns_completed_
    interrupted,    \* turns_interrupted_
    discarded,      \* turns_discarded_
    cancelled,      \* turns whose token the FSM cancelled
    step,           \* the rest of the handler that is running
    mine,           \* history: the turns the FSM minted
    ended           \* history: pairs <<turn, outcome>> reported to the observer

counters == <<completed, interrupted, discarded>>
perTurn == <<outcome, played, received, llmFinished>>
fsmVars == <<nextTurn, state, active, perTurn, counters, cancelled, step, mine, ended>>

FsmInit ==
    /\ nextTurn = 1
    /\ state = "Idle" /\ step = "idle"
    /\ active = NoTurn
    /\ outcome = "NotStarted" /\ played = 0 /\ received = 0 /\ llmFinished = FALSE
    /\ completed = 0 /\ interrupted = 0 /\ discarded = 0
    /\ cancelled = {}
    /\ mine = {} /\ ended = {}

-----------------------------------------------------------------------------
(* start: the subscription exists before the transition out of Idle, which *)
(* the main thread makes.                                                  *)
Start ==
    /\ state = "Idle"
    /\ state' = "Listening"
    /\ UNCHANGED <<nextTurn, active, perTurn, counters, cancelled, step, mine, ended>>

(* TurnFactory::mint by somebody else: the dialogue manager has no active turn. *)
MintElsewhere ==
    /\ nextTurn' = nextTurn + 1
    /\ UNCHANGED <<state, active, perTurn, counters, cancelled, step, mine, ended>>

(* What the handler of an event leaves alone when it has nothing to do. *)
Ignored == UNCHANGED fsmVars

CanBegin == state \in {"Listening", "Completed", "Interrupted"}

(* handle_speech_started up to the assignment of active_. *)
BeginTurn ==
    /\ nextTurn' = nextTurn + 1
    /\ active' = nextTurn
    /\ outcome' = "NotStarted" /\ played' = 0 /\ received' = 0 /\ llmFinished' = FALSE
    /\ step' = "begin"
    /\ mine' = mine \cup {nextTurn}
    /\ UNCHANGED <<state, counters, cancelled, ended>>

HandleSpeechStarted ==
    /\ step = "idle"
    /\ \/ CanBegin /\ BeginTurn
       \/ ~CanBegin /\ Ignored

(* handle_speech_started: transition(UserSpeaking). *)
SpeechStartedReturns ==
    /\ step = "begin"
    /\ state' = "UserSpeaking" /\ step' = "idle"
    /\ UNCHANGED <<nextTurn, active, perTurn, counters, cancelled, mine, ended>>

HandleSpeechEnded ==
    /\ step = "idle"
    /\ state' = IF state = "UserSpeaking" THEN "Transcribing" ELSE state
    /\ UNCHANGED <<nextTurn, active, perTurn, counters, cancelled, step, mine, ended>>

HandleFinalTranscript ==
    /\ step = "idle"
    /\ \/ /\ state = "Transcribing"
          /\ state' = "Thinking" /\ outcome' = "Generating"
       \/ state # "Transcribing" /\ UNCHANGED <<state, outcome>>
    /\ UNCHANGED <<nextTurn, active, played, received, llmFinished, counters, cancelled,
                   step, mine, ended>>

(* handle_llm_sentence: counted in every state; its turn is not looked at. *)
HandleLlmSentence ==
    /\ step = "idle"
    /\ received' = received + 1
    /\ \/ /\ state = "Thinking"
          /\ state' = "Speaking" /\ outcome' = "Speaking"
       \/ state # "Thinking" /\ UNCHANGED <<state, outcome>>
    /\ UNCHANGED <<nextTurn, active, played, llmFinished, counters, cancelled, step,
                   mine, ended>>

(* The turn is over: the counter, the observer, transition(Completed). *)
Complete ==
    /\ outcome' = "Completed" /\ completed' = completed + 1
    /\ state' = "Completed" /\ step' = "settle"
    /\ ended' = ended \cup {<<active, "completed">>}

StaysInTurn == UNCHANGED <<outcome, completed, state, step, ended>>

(* Mutant of HandleLlmFinished: without the state tests. *)
LlmFinishedCompletesAnything ==
    /\ step = "idle"
    /\ llmFinished' = TRUE
    /\ IF received = played THEN Complete ELSE StaysInTurn
    /\ UNCHANGED <<nextTurn, active, played, received, interrupted, discarded,
                   cancelled, mine>>

(* handle_llm_finished: its turn is not looked at. *)
HandleLlmFinished ==
    /\ step = "idle"
    /\ llmFinished' = TRUE
    /\ LET done == \/ state = "Thinking" /\ received = 0
                   \/ state = "Speaking" /\ played = received
       IN  \/ done /\ Complete
           \/ ~done /\ StaysInTurn
    /\ UNCHANGED <<nextTurn, active, played, received, interrupted, discarded,
                   cancelled, mine>>

(* handle_playback_finished: the one handler that compares turns. *)
PlaybackCounts(turn) ==
    /\ turn = active
    /\ played' = played + 1
    /\ LET done == state = "Speaking" /\ llmFinished /\ played' = received
       IN  \/ done /\ Complete
           \/ ~done /\ StaysInTurn
    /\ UNCHANGED <<nextTurn, active, received, llmFinished, interrupted, discarded,
                   cancelled, mine>>

HandlePlaybackFinished(turn) ==
    /\ step = "idle"
    /\ \/ PlaybackCounts(turn)
       \/ turn # active /\ Ignored

(* handle_user_interrupted: the event's turn is only logged; whatever turn is active  *)
(* ends.  The token is cancelled and CancelGeneration published before the outcome.   *)
Interruptible == state \notin {"Listening", "Idle"}

(* Mutant of HandleUserInterrupted: the token is not cancelled. *)
InterruptLeavesToken ==
    /\ step = "idle"
    /\ \/ /\ Interruptible
          /\ step' = "interrupt"
          /\ UNCHANGED <<nextTurn, state, active, perTurn, counters, cancelled, mine, ended>>
       \/ ~Interruptible /\ Ignored

HandleUserInterrupted ==
    /\ step = "idle"
    /\ \/ /\ Interruptible
          /\ cancelled' = cancelled \cup {active}
          /\ step' = "interrupt"
          /\ UNCHANGED <<nextTurn, state, active, perTurn, counters, mine, ended>>
       \/ ~Interruptible /\ Ignored

(* Mutant of InterruptOutcome: both counters are bumped. *)
InterruptCountsTwice ==
    /\ step = "interrupt"
    /\ outcome' = "Interrupted"
    /\ interrupted' = interrupted + 1 /\ discarded' = discarded + 1
    /\ ended' = ended \cup {<<active, "interrupted">>}
    /\ state' = "Interrupted" /\ step' = "settle"
    /\ UNCHANGED <<nextTurn, active, played, received, llmFinished, completed,
                   cancelled, mine>>

(* handle_user_interrupted from the outcome decision on. *)
InterruptOutcome ==
    /\ step = "interrupt"
    /\ \/ /\ played >= 1
          /\ outcome' = "Interrupted" /\ interrupted' = interrupted + 1
          /\ ended' = ended \cup {<<active, "interrupted">>}
          /\ UNCHANGED discarded
       \/ /\ played = 0
          /\ outcome' = "Discarded" /\ discarded' = discarded + 1
          /\ ended' = ended \cup {<<active, "discarded">>}
          /\ UNCHANGED interrupted
    /\ state' = "Interrupted" /\ step' = "settle"
    /\ UNCHANGED <<nextTurn, active, played, received, llmFinished, completed,
                   cancelled, mine>>

(* transition(Listening) after Completed and Interrupted. *)
Settle ==
    /\ step = "settle"
    /\ state' = "Listening" /\ step' = "idle"
    /\ UNCHANGED <<nextTurn, active, perTurn, counters, cancelled, mine, ended>>

HandlerContinues == SpeechStartedReturns \/ Settle

(* Any event at any time. *)
AnyEvent ==
    \/ HandleSpeechStarted
    \/ HandleSpeechEnded
    \/ HandleFinalTranscript
    \/ HandleLlmSentence
    \/ HandleLlmFinished
    \/ \E t \in 0..nextTurn : HandlePlaybackFinished(t)
    \/ HandleUserInterrupted

FsmNext ==
    \/ Start
    \/ MintElsewhere
    \/ AnyEvent
    \/ InterruptOutcome
    \/ HandlerContinues

FsmSpec == FsmInit /\ [][FsmNext]_fsmVars

-----------------------------------------------------------------------------
(* The variables have the types of the members they model, and the state is a  *)
(* transient one exactly while a handler is between two transitions.            *)
FsmTypeOK ==
    /\ nextTurn \in Nat \ {0}
    /\ state \in States /\ outcome \in Outcomes
    /\ active \in Nat /\ active < nextTurn
    /\ played \in Nat /\ received \in Nat
    /\ llmFinished \in BOOLEAN
    /\ completed \in Nat /\ interrupted \in Nat /\ discarded \in Nat
    /\ step \in {"idle", "begin", "interrupt", "settle"}
    /\ state \in {"Completed", "Interrupted"} <=> step = "settle"
    /\ step = "begin" => state = "Listening"
    /\ step = "interrupt" => state \in InTurn
    /\ mine \subseteq 1..(nextTurn - 1) /\ cancelled \subseteq mine
    /\ ended \subseteq (mine \X {"completed", "interrupted", "discarded"})

(* The active turn has not been reported to the observer. *)
Open == state \in InTurn \/ step = "begin"

(* Every turn the FSM minted ends exactly once: it is the active one and still open,  *)
(* or it was reported once, as completed, interrupted or discarded.  No sequence of   *)
(* events (a second SpeechStarted, an interruption that meets a completion, a late    *)
(* LlmFinished) loses a turn or ends it twice.                                        *)
TurnsEndOnce ==
    /\ Open => active \in mine
    /\ \A t \in mine :
         /\ t = active /\ Open <=> \A o \in ended : o[1] # t
         /\ \A o1, o2 \in ended : o1[1] = t /\ o2[1] = t => o1 = o2

(* The three counters /metrics exports add up to the number of turns that ended. *)
OutcomesCounted ==
    IsFiniteSet(ended) /\ completed + interrupted + discarded = Cardinality(ended)

(* The token of a turn is cancelled exactly when the turn is interrupted: never for a *)
(* turn that completed, and always before an interrupted turn is reported as such.    *)
CancelledAreInterrupted ==
    \A t \in mine :
        t \in cancelled <=> \/ <<t, "interrupted">> \in ended
                            \/ <<t, "discarded">> \in ended
                            \/ t = active /\ step = "interrupt"
=============================================================================
