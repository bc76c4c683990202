---------------------------- MODULE TurnPipeline ----------------------------
(***************************************************************************)
(* One conversation through the whole dialogue path: microphone and STT,   *)
(* FSM, barge-in detector, Manager and LLM stream, TTS bridge and playback, *)
(* wired by main.cpp and orchestrator/stacks/ over the event bus.          *)
(*                                                                         *)
(* Each subscriber has a FIFO of events and a worker (EventBus).  A        *)
(* publish pushes into one subscriber after the other in the order of      *)
(* registration: out[t] are the pushes thread t still has to make, and the *)
(* thread does nothing else before they are made.  Only events a           *)
(* subscriber reacts to are queued for it; the queues (512 and 256 events) *)
(* do not fill.                                                            *)
(***************************************************************************)
EXTENDS Fsm, Manager, TtsBridge

CONSTANTS
    MaxUtterances,  \* bound: times the user speaks
    MaxLines,       \* bound: lines typed on stdin
    OneInput,       \* bound: a session is spoken or typed (acva --stdin), not both
    SpeaksIn,       \* FSM states in which the user may begin to speak
    Prompt,         \* the bus is quiet before the next sound or transcript
    SttMayFail,     \* an utterance may yield no transcript (error, too quiet)
    Summarizing     \* the memory summarizer makes a request of its own

ASSUME PipelineAssumption == MaxUtterances \in Nat /\ MaxLines \in Nat /\ SpeaksIn \subseteq States

(* Each utterance and each line may mint a turn, and the Manager one before the FSM does. *)
Turns == 0..(2 * MaxUtterances + MaxLines)

Subscribers == {"fsm", "bridge", "manager", "bargein"}
Publishers == {"audio", "stt", "stdin", "fsm", "bargein", "manager", "llm", "playback",
               "summarizer"}

(* Mutant of Order: the TTS stack is built before the FSM. *)
OrderBridgeFirst == <<"bridge", "fsm", "manager", "bargein">>

(* The order in which main.cpp and the stacks subscribe. *)
Order == <<"fsm", "bridge", "manager", "bargein">>

Reacts ==
    [fsm |-> {"SpeechStarted", "SpeechEnded", "FinalTranscript", "LlmSentence",
              "LlmFinished", "PlaybackFinished", "UserInterrupted"},
     bridge |-> {"LlmStarted", "LlmSentence", "LlmFinished", "UserInterrupted"},
     manager |-> {"FinalTranscript", "UserInterrupted", "CancelGeneration"},
     bargein |-> {"SpeechStarted"}]

VARIABLES
    queue,          \* queue[s]: events waiting for the worker of s
    out,            \* out[t]: pushes thread t still has to make
    talking,        \* between SpeechStarted and SpeechEnded
    utterances,     \* utterances begun
    atStt,          \* utterances being transcribed
    lines,          \* lines typed
    lastFired,      \* BargeInDetector::last_fired_turn_
    summary,        \* the summarizer's request: "none", "running", "done"
    said,           \* history: said[t]: sentences published for turn t
    finishedLlm     \* history: turns whose own LlmFinished was published

busVars == <<queue, out>>
micVars == <<talking, utterances, atStt, lines>>
historyVars == <<said, finishedLlm>>
pipelineVars == <<fsmVars, managerVars, bridgeVars, playbackVars, busVars, micVars,
                  lastFired, summary, historyVars>>

Event(type, turn, seq) == [type |-> type, turn |-> turn, seq |-> seq]

Deliveries(e) ==
    LET to(s) == IF e.type \in Reacts[s] THEN <<[to |-> s, event |-> e]>> ELSE <<>>
    IN  to(Order[1]) \o to(Order[2]) \o to(Order[3]) \o to(Order[4])

Free(t) == out[t] = <<>>
Publish(t, e) == out' = [out EXCEPT ![t] = Deliveries(e)]

(* One push of a publish. *)
Deliver(t) ==
    /\ ~Free(t)
    /\ LET d == Head(out[t])
       IN  queue' = [queue EXCEPT ![d.to] = Append(@, d.event)]
    /\ out' = [out EXCEPT ![t] = Tail(@)]
    /\ UNCHANGED <<fsmVars, managerVars, bridgeVars, playbackVars, micVars, lastFired,
                   summary, historyVars>>

(* The worker of s takes an event. *)
Next1(s) == Head(queue[s])
Receives(s) == queue[s] # <<>> /\ queue' = [queue EXCEPT ![s] = Tail(@)]

PipelineInit ==
    /\ FsmInit /\ ManagerInit /\ BridgeInit /\ PlaybackInit
    /\ queue = [s \in Subscribers |-> <<>>] /\ out = [t \in Publishers |-> <<>>]
    /\ talking = FALSE /\ utterances = 0 /\ atStt = 0 /\ lines = 0
    /\ lastFired = 0 /\ summary = "none"
    /\ said = [t \in Turns |-> 0] /\ finishedLlm = {}

-----------------------------------------------------------------------------
(* Microphone and speech recognition (AudioPipeline, SttStack). *)
(* Sounds and transcripts are tens of milliseconds apart, and a bus worker answers an   *)
(* event in microseconds: with Prompt the user and the STT server only act on a quiet    *)
(* bus, whatever the LLM stream, the synthesis and the playback are doing.               *)
CaughtUp ==
    Prompt => /\ \A s \in Subscribers : queue[s] = <<>>
              /\ \A t \in Publishers : Free(t)
              /\ step = "idle" /\ ~clearing

UserBegins ==
    /\ ~talking /\ Free("audio") /\ utterances < MaxUtterances
    /\ OneInput => lines = 0
    /\ state \in SpeaksIn /\ CaughtUp
    /\ talking' = TRUE /\ utterances' = utterances + 1
    /\ Publish("audio", Event("SpeechStarted", NoTurn, 0))
    /\ UNCHANGED <<fsmVars, managerVars, bridgeVars, playbackVars, queue, atStt, lines,
                   lastFired, summary, historyVars>>

UserEnds ==
    /\ talking /\ Free("audio") /\ CaughtUp
    /\ talking' = FALSE /\ atStt' = atStt + 1
    /\ Publish("audio", Event("SpeechEnded", NoTurn, 0))
    /\ UNCHANGED <<fsmVars, managerVars, bridgeVars, playbackVars, queue, utterances, lines,
                   lastFired, summary, historyVars>>

(* The utterance reaches the STT worker after SpeechEnded is published. *)
Transcribed ==
    /\ atStt > 0 /\ Free("audio") /\ Free("stt") /\ CaughtUp
    /\ atStt' = atStt - 1
    /\ \/ Publish("stt", Event("FinalTranscript", NoTurn, 0))
       \/ SttMayFail /\ UNCHANGED out
    /\ UNCHANGED <<fsmVars, managerVars, bridgeVars, playbackVars, queue, talking,
                   utterances, lines, lastFired, summary, historyVars>>

(* StdinReader: a line is a transcript without speech before it. *)
LineTyped ==
    /\ lines < MaxLines /\ Free("stdin") /\ CaughtUp
    /\ OneInput => utterances = 0
    /\ lines' = lines + 1
    /\ Publish("stdin", Event("FinalTranscript", NoTurn, 0))
    /\ UNCHANGED <<fsmVars, managerVars, bridgeVars, playbackVars, queue, talking,
                   utterances, atStt, lastFired, summary, historyVars>>

-----------------------------------------------------------------------------
(* The FSM's worker. *)
Dispatch(e) ==
    \/ e.type = "SpeechStarted" /\ HandleSpeechStarted
    \/ e.type = "SpeechEnded" /\ HandleSpeechEnded
    \/ e.type = "FinalTranscript" /\ HandleFinalTranscript
    \/ e.type = "LlmSentence" /\ HandleLlmSentence
    \/ e.type = "LlmFinished" /\ HandleLlmFinished
    \/ e.type = "PlaybackFinished" /\ HandlePlaybackFinished(e.turn)
    \/ e.type = "UserInterrupted" /\ HandleUserInterrupted

FsmHandles ==
    /\ Free("fsm") /\ Receives("fsm")
    /\ Dispatch(Next1("fsm"))
    /\ IF step' = "interrupt" THEN Publish("fsm", Event("CancelGeneration", active, 0))
       ELSE UNCHANGED out
    /\ UNCHANGED <<managerVars, bridgeVars, playbackVars, micVars, lastFired, summary,
                   historyVars>>

FsmGoesOn ==
    /\ Free("fsm")
    /\ Start \/ InterruptOutcome \/ HandlerContinues
    /\ UNCHANGED <<managerVars, bridgeVars, playbackVars, busVars, micVars, lastFired,
                   summary, historyVars>>

(* BargeInDetector::on_speech_started; the cool-down and the AEC test may suppress it. *)
BargeInFires ==
    /\ Free("bargein") /\ Receives("bargein")
    /\ state = "Speaking" /\ active # NoTurn /\ lastFired # active
    /\ lastFired' = active
    /\ Publish("bargein", Event("UserInterrupted", active, 0))
    /\ UNCHANGED <<fsmVars, managerVars, bridgeVars, playbackVars, micVars, summary,
                   historyVars>>

BargeInSuppressed ==
    /\ Free("bargein") /\ Receives("bargein")
    /\ UNCHANGED <<fsmVars, managerVars, bridgeVars, playbackVars, out, micVars, lastFired,
                   summary, historyVars>>

-----------------------------------------------------------------------------
(* Manager::on_event *)
ManagerHandles ==
    /\ Free("manager") /\ Receives("manager")
    /\ LET e == Next1("manager")
       IN  \/ e.type = "FinalTranscript" /\ EnqueueTurn /\ UNCHANGED out
           \/ /\ e.type = "FinalTranscript" /\ MayRefuse
              /\ Publish("manager", Event("UserInterrupted", e.turn, 0))
              /\ UNCHANGED managerVars
           \/ /\ e.type \in {"UserInterrupted", "CancelGeneration"}
              /\ CancelActive(e.turn)
              /\ UNCHANGED out
    /\ UNCHANGED <<fsmVars, bridgeVars, playbackVars, micVars, lastFired, summary,
                   historyVars>>

(* The Manager's I/O thread up to LlmStarted. *)
ManagerTakes ==
    /\ TakeTranscript
    /\ UNCHANGED <<fsmVars, bridgeVars, playbackVars, busVars, micVars, lastFired, summary,
                   historyVars>>

(* Mutant of ManagerAdopts: without an active turn the Manager makes its own the FSM's. *)
ManagerTakesOver ==
    /\ \/ active # NoTurn /\ AdoptTurn(active) /\ UNCHANGED fsmVars
       \/ /\ active = NoTurn /\ AdoptTurn(nextTurn)
          /\ nextTurn' = nextTurn + 1 /\ active' = nextTurn
          /\ UNCHANGED <<state, perTurn, counters, cancelled, step, mine, ended>>
    /\ UNCHANGED <<bridgeVars, playbackVars, busVars, micVars, lastFired, summary,
                   historyVars>>

(* run_one: active_turn_provider_, TurnFactory::adopt or mint. *)
ManagerAdopts ==
    /\ \/ active # NoTurn /\ AdoptTurn(active) /\ UNCHANGED fsmVars
       \/ active = NoTurn /\ AdoptTurn(nextTurn) /\ MintElsewhere
    /\ UNCHANGED <<bridgeVars, playbackVars, busVars, micVars, lastFired, summary,
                   historyVars>>

ManagerActivates ==
    /\ ActivateTurn
    /\ playbackTurn' = stream.turn
    /\ Publish("llm", Event("LlmStarted", stream.turn, 0))
    /\ UNCHANGED <<fsmVars, bridgeVars, queueVars, engineVars, queue, micVars, lastFired,
                   summary, said, finishedLlm>>

(* The stream. *)
LlmSays ==
    /\ Free("llm")
    /\ SentenceDone \/ LeftoverSentence
    /\ Publish("llm", Event("LlmSentence", stream.turn, stream.seq))
    /\ said' = [said EXCEPT ![stream.turn] = @ + 1]
    /\ UNCHANGED <<fsmVars, bridgeVars, playbackVars, queue, micVars, lastFired, summary,
                   finishedLlm>>

(* submit returned. *)
ManagerReturns ==
    /\ Free("llm") /\ RunOneReturns
    /\ UNCHANGED <<fsmVars, bridgeVars, playbackVars, busVars, micVars, lastFired, summary,
                   historyVars>>

(* LlmClient::submit publishes LlmFinished.  Unless it was cancelled it may be the one    *)
(* that makes the summarizer start a request (Summarizer::on_event, turn_threshold).      *)
LlmFinishes ==
    /\ Free("llm") /\ FinishStream
    /\ Publish("llm", Event("LlmFinished", stream.turn, 0))
    /\ finishedLlm' = finishedLlm \cup {stream.turn}
    /\ summary' = IF Summarizing /\ summary = "none" /\ ~streamDead THEN "running" ELSE summary
    /\ UNCHANGED <<fsmVars, bridgeVars, playbackVars, queue, micVars, lastFired, said>>

(* Summarizer::run_one_summary: its request ends like any other, with turn kNoTurn. *)
SummaryFinishes ==
    /\ summary = "running"
    /\ summary' = "done"
    /\ Publish("summarizer", Event("LlmFinished", NoTurn, 0))
    /\ UNCHANGED <<fsmVars, managerVars, bridgeVars, playbackVars, queue, micVars, lastFired,
                   historyVars>>

-----------------------------------------------------------------------------
(* TtsBridge::on_event *)
BridgeHandles ==
    /\ ~clearing /\ Receives("bridge")
    /\ LET e == Next1("bridge")
       IN  \/ e.type = "LlmStarted" /\ OnLlmStarted(e.turn)
           \/ e.type = "LlmSentence" /\ OnLlmSentence(e.turn, e.seq)
           \/ e.type = "LlmFinished" /\ OnLlmFinished(e.turn)
           \/ e.type = "UserInterrupted" /\ OnUserInterrupted(e.turn)
    /\ UNCHANGED <<fsmVars, managerVars, out, micVars, lastFired, summary, said, finishedLlm>>

BridgeOrPlayback ==
    /\ \/ BridgeClears
       \/ Synthesis
       \/ Render /\ UNCHANGED bridgeVars
    /\ UNCHANGED <<fsmVars, managerVars, busVars, micVars, lastFired, summary, historyVars>>

(* The engine's publisher thread. *)
PlaybackPublishes ==
    /\ postbox # <<>> /\ Free("playback")
    /\ postbox' = Tail(postbox)
    /\ Publish("playback", Event("PlaybackFinished", Head(postbox).turn, Head(postbox).seq))
    /\ UNCHANGED <<fsmVars, managerVars, bridgeVars, queueVars, current, primedTurn, heard,
                   playbackTurn, queue, micVars, lastFired, summary, historyVars>>

SystemStep ==
    \/ \E t \in Publishers : Deliver(t)
    \/ FsmHandles \/ FsmGoesOn
    \/ BargeInFires \/ BargeInSuppressed
    \/ ManagerHandles \/ ManagerTakes \/ ManagerAdopts \/ ManagerActivates
    \/ LlmSays \/ LlmFinishes \/ ManagerReturns
    \/ BridgeHandles \/ BridgeOrPlayback \/ PlaybackPublishes

PipelineNext ==
    \/ UserBegins \/ UserEnds \/ Transcribed \/ LineTyped
    \/ SummaryFinishes
    \/ SystemStep

PipelineSafety == PipelineInit /\ [][PipelineNext]_pipelineVars

(* Every thread keeps running: the bus workers, the I/O threads and the audio callback   *)
(* are never parked for good, the LLM and the speech servers answer or fail, the user     *)
(* stops speaking.  Nobody has to begin to speak.  Every behaviour of the bounded model   *)
(* is finite, so fairness to all of these steps together is fairness to each.             *)
PipelineFairness == WF_pipelineVars(UserEnds \/ Transcribed \/ SystemStep)

PipelineSpec == PipelineSafety /\ PipelineFairness

-----------------------------------------------------------------------------
(* Whatever travels - events, pushes still to be made, sentences to synthesise, audio,   *)
(* posts, the stream - is of a turn that exists and goes where it is reacted to; a token  *)
(* in use was made; active_ is the stream that runs; the playback queue keeps to its      *)
(* capacity, and the engine plays one chunk at a time.                                    *)
PipelineTypeOK ==
    /\ \A s \in Subscribers : \A i \in DOMAIN queue[s] :
         queue[s][i].turn \in 0..(nextTurn - 1) /\ queue[s][i].type \in Reacts[s]
    /\ \A t \in Publishers : \A i \in DOMAIN out[t] :
         /\ out[t][i].to \in Subscribers /\ out[t][i].event.turn \in 0..(nextTurn - 1)
         /\ out[t][i].event.type \in Reacts[out[t][i].to]
    /\ \A i \in DOMAIN jobs : jobs[i].turn \in 0..(nextTurn - 1) /\ jobs[i].token \in 1..lastToken
    /\ dead \subseteq 1..lastToken
    /\ \A i \in DOMAIN chunks : chunks[i].turn \in 0..(nextTurn - 1)
    /\ MaxChunks > 0 => Len(chunks) <= MaxChunks
    /\ \A i \in DOMAIN postbox : postbox[i].turn \in 0..(nextTurn - 1)
    /\ stream.turn \in 0..(nextTurn - 1) /\ activeStream \in {0, stream.turn}
    /\ Len(current) <= 1

(* What the pipeline does to the FSM is what Fsm allows: only its own handlers change   *)
(* it, except for the turn ids the Manager takes from the shared factory.  The theorems *)
(* of PipelineProofs therefore speak about the FSM inside the pipeline.                 *)
ImplementsFsm == FsmSpec

(* The FSM never counts more sentences played than received, whatever is cancelled,     *)
(* refused, interrupted or late: a PlaybackFinished is behind its LlmSentence in the     *)
(* FSM's queue.  If it could overtake, the equality test of fsm.cpp would be missed and  *)
(* the turn would never complete.                                                        *)
NeverOverplays == played <= received

\* The sentences of turn t among such pairs.
SentencesOf(pairs, t) == {p[2] : p \in {q \in pairs : q[1] = t}}

(* The user hears the sentences of a reply in the order in which the LLM produced them,  *)
(* each once, and a turn the FSM reports as completed was heard to its last sentence,    *)
(* except for sentences the speech server failed on or a full playback queue refused.    *)
HeardAsSaid ==
    /\ \A i, j \in DOMAIN heard :
         i < j /\ heard[i][1] = heard[j][1] => heard[i][2] < heard[j][2]
    /\ \A t \in Turns :
         <<t, "completed">> \in ended =>
            SentencesOf({heard[i] : i \in DOMAIN heard} \cup unsaid, t) = 0..(said[t] - 1)

(* A turn that was begun ends and the FSM listens again (fsm.cpp: the way out of        *)
(* Thinking and Speaking depends on every other component).                             *)
TurnsFinish == state \in InTurn ~> state = "Listening"

(* fsm.cpp, handle_llm_finished: "The turn completes when (LlmFinished is seen) AND     *)
(* (every received sentence has played)": the LlmFinished of that turn.                  *)
CompletedByOwnStream == \A t \in mine : <<t, "completed">> \in ended => t \in finishedLlm
=============================================================================
