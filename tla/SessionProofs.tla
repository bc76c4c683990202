--------------------------- MODULE SessionProofs ----------------------------
(***************************************************************************)
(* What the user hears is what was said: HeardAsSaid, for a user who waits *)
(* for the answer.                                                         *)
(*                                                                         *)
(* Its first half is the order of PipelineProofs (InOrder), which needs    *)
(* that the stream of a turn begins when nothing of that turn is around.   *)
(* Its second half is a matter of what the FSM knows when it completes a   *)
(* turn.  Neither is inductive.  Both follow from where the session is:    *)
(* Course lists the eight phases of a spoken session - Rest, Opening,      *)
(* Hearing, Ending, Transcript, Accepted, Refused, Streaming - and says    *)
(* for each which queues, publishers and threads may hold what.  Every     *)
(* step stays in its phase or goes to the next one.                        *)
(*                                                                         *)
(* In Streaming, Accounted says that the sentences of the active turn are  *)
(* the heard ones, the ones given up and those still on their way          *)
(* (Underway).  When the FSM completes the turn it has counted as many     *)
(* sentences played as received; PlaysBehind then leaves no load on the    *)
(* way, so nothing is Underway (NothingLeft), and the turn was heard.      *)
(*                                                                         *)
(* A session that is typed never gives the FSM a turn (Typed).             *)
(***************************************************************************)
EXTENDS PipelineProofs

-----------------------------------------------------------------------------
(* The events that carry no turn. *)
SpeechStarted == Event("SpeechStarted", NoTurn, 0)
SpeechEnded == Event("SpeechEnded", NoTurn, 0)
FinalTranscript == Event("FinalTranscript", NoTurn, 0)
Refusal == Event("UserInterrupted", NoTurn, 0)
HasOnly(q, types) == \A e \in Range(q) : e.type \in types

\* The sentences of a turn that were heard or given up.
Told(t) == SentencesOf(Range(heard) \cup unsaid, t)

\* The user is silent and was transcribed.
Silence == /\ ~talking /\ atStt = 0 /\ out["audio"] = <<>> /\ out["stt"] = <<>>
           /\ queue["bargein"] = <<>>
\* Nothing of a reply is between the bridge and the FSM.
NothingSpoken == /\ jobs = <<>> /\ synth = Resting /\ chunks = <<>> /\ current = <<>>
                 /\ postbox = <<>> /\ out["playback"] = <<>>
\* Nor is anything on its way to the bridge or to the Manager.
Still == /\ NothingSpoken /\ out["llm"] = <<>> /\ queue["bridge"] = <<>> /\ ~clearing
         /\ out["fsm"] = <<>> /\ out["manager"] = <<>>
StreamOver == ~pending /\ stream.phase \in {"idle", "return"}
\* Of the active turn there is nothing yet.
Fresh == /\ active # NoTurn /\ Told(active) = {} /\ said[active] = 0
         /\ active \notin DOMAIN tokens /\ ~llmFinished
\* What a refusal still has to tell the bridge and the Manager.
Refusing == out["manager"] \in {<<>>, <<Push("manager", Refusal)>>,
                                <<Push("bridge", Refusal), Push("manager", Refusal)>>}
Unwinding == /\ HasOnly(queue["bridge"], {"LlmStarted", "LlmFinished", "UserInterrupted"})
             /\ HasOnly(queue["manager"], {"UserInterrupted", "CancelGeneration"})
\* The FSM knows of the transcript, or it is the next event it takes.
Knows == \/ state = "Transcribing" /\ queue["fsm"] = <<FinalTranscript>>
         \/ state = "Thinking" /\ queue["fsm"] = <<>>

\* The stream has ended and the FSM has been sent all of it.
Over == /\ stream.phase \in {"idle", "return"}
        /\ out["llm"] = <<>> \/ Head(out["llm"]).to = "bridge"

(* The course of a spoken session: nothing is going on, *)
Rest ==
    /\ Silence /\ NothingSpoken /\ StreamOver /\ Over /\ Unwinding /\ Refusing
    /\ queue["fsm"] = <<>> /\ out["fsm"] = <<>>
    /\ out["llm"] = <<>> \/ Head(out["llm"]).event.type \in {"LlmStarted", "LlmFinished"}
    /\ (state \in {"Idle", "Listening"} /\ step = "idle") \/ step = "settle"

\* the user has begun to speak and the FSM does not know it yet,
Opening ==
    /\ talking /\ atStt = 0 /\ out["stt"] = <<>> /\ Still /\ StreamOver
    /\ queue["manager"] = <<>> /\ state = "Listening" /\ step = "idle" /\ nextTurn <= utterances
    /\ \/ /\ out["audio"] = <<Push("fsm", SpeechStarted), Push("bargein", SpeechStarted)>>
          /\ queue["fsm"] = <<>>
       \/ /\ out["audio"] \in {<<>>, <<Push("bargein", SpeechStarted)>>}
          /\ queue["fsm"] = <<SpeechStarted>>

\* the turn has begun,
Hearing ==
    /\ talking /\ atStt = 0 /\ out["stt"] = <<>> /\ Still /\ StreamOver
    /\ queue["manager"] = <<>> /\ Fresh
    /\ (state = "Listening" /\ step = "begin") \/ (state = "UserSpeaking" /\ step = "idle")
    /\ queue["fsm"] = <<>> /\ out["audio"] \in {<<>>, <<Push("bargein", SpeechStarted)>>}

\* the user has ended,
Ending ==
    /\ ~talking /\ queue["bargein"] = <<>> /\ out["stt"] = <<>> /\ Still /\ StreamOver
    /\ queue["manager"] = <<>> /\ Fresh /\ step = "idle"
    /\ \/ /\ atStt = 1 /\ state = "UserSpeaking"
          /\ \/ out["audio"] = <<Push("fsm", SpeechEnded)>> /\ queue["fsm"] = <<>>
             \/ out["audio"] = <<>> /\ queue["fsm"] = <<SpeechEnded>>
       \/ /\ atStt \in {0, 1} /\ state = "Transcribing"
          /\ out["audio"] = <<>> /\ queue["fsm"] = <<>>

\* the transcript is on its way to the FSM and the Manager,
Transcript ==
    /\ ~talking /\ atStt = 0 /\ out["audio"] = <<>> /\ queue["bargein"] = <<>>
    /\ Still /\ StreamOver /\ Fresh /\ step = "idle"
    /\ \/ /\ out["stt"] = <<Push("fsm", FinalTranscript), Push("manager", FinalTranscript)>>
          /\ queue["manager"] = <<>> /\ state = "Transcribing" /\ queue["fsm"] = <<>>
       \/ out["stt"] = <<Push("manager", FinalTranscript)>> /\ queue["manager"] = <<>> /\ Knows
       \/ out["stt"] = <<>> /\ queue["manager"] = <<FinalTranscript>> /\ Knows

\* the Manager has accepted it,
Accepted ==
    /\ Silence /\ Still /\ Fresh /\ step = "idle" /\ queue["manager"] = <<>> /\ Knows
    /\ \/ pending /\ stream.phase \in {"idle", "return"}
       \/ ~pending /\ stream.phase = "adopt"

\* or refused it and the FSM is to be interrupted,
Refused ==
    /\ Silence /\ NothingSpoken /\ StreamOver /\ Unwinding /\ out["llm"] = <<>>
    /\ \/ /\ step = "idle" /\ out["fsm"] = <<>> /\ Knows
          /\ out["manager"] = <<Push("fsm", Refusal), Push("bridge", Refusal), Push("manager", Refusal)>>
       \/ /\ Refusing
          /\ \/ /\ step = "idle" /\ out["fsm"] = <<>>
                /\ \/ state = "Transcribing" /\ queue["fsm"] = <<FinalTranscript, Refusal>>
                   \/ state = "Thinking" /\ queue["fsm"] = <<Refusal>>
             \/ /\ step = "interrupt" /\ queue["fsm"] = <<>>
                /\ \/ out["fsm"] = <<>>
                   \/ out["fsm"] = <<Push("manager", Event("CancelGeneration", active, 0))>>

\* or the reply is streamed, synthesised and played.
News == {"LlmSentence", "LlmFinished", "PlaybackFinished"}
Reply == {"LlmStarted", "LlmSentence", "LlmFinished"}
Underway == AudioOf(chunks) \cup WorkOf(synth) \cup Marks(Range(jobs))
              \cup SaidTo(queue["bridge"]) \cup DueTo(out["llm"])
OfActive ==
    /\ \A x \in Range(jobs) \cup Range(synth.job) \cup Range(chunks) \cup Range(current)
                \cup Range(postbox) : x.turn = active
    /\ \A e \in Range(queue["bridge"]) : e.turn = active
    /\ \A d \in Range(out["playback"]) \cup Range(out["llm"]) : d.event.turn = active
    /\ \A e \in Range(queue["fsm"]) : e.type = "PlaybackFinished" => e.turn = active
Alive ==
    /\ active \in DOMAIN tokens => tokens[active] \notin dead
    /\ \A j \in Range(jobs) \cup Range(synth.job) : j.token \notin dead
Attending ==
    /\ Silence /\ ~pending /\ out["fsm"] = <<>> /\ out["manager"] = <<>>
    /\ queue["manager"] = <<>> /\ ~clearing /\ step = "idle" /\ active # NoTurn
Replying ==
    /\ stream.phase # "adopt"
    /\ stream.phase # "idle" => stream.turn = active
    /\ stream.phase \in {"activate", "stream", "finish"} => stream.seq = said[active]
    /\ stream.phase # "activate" => playbackTurn = active
    /\ stream.phase = "activate" => NothingSpoken /\ out["llm"] = <<>> /\ queue["bridge"] = <<>>
Carrying ==
    /\ HasOnly(queue["bridge"], Reply)
    /\ \A d \in Range(out["llm"]) :
         /\ d.event.type \in Reply
         /\ d.to = "fsm" => d.event.type \in News
         /\ d.event.type = "LlmFinished" => stream.phase \in {"idle", "return"}
Accounted == SentencesOf(Range(heard) \cup unsaid \cup Underway, active) = 0 .. said[active] - 1
Marked == chunks = <<>> \/ chunks[Len(chunks)].eos \/ synth.phase \in {"tail", "marker"}
\* Behind LlmFinished there is only PlaybackFinished.
FinishedLast == {p \in Events(Nat) \X Events(Nat) :
                   p[1].type = "LlmFinished" => p[2].type = "PlaybackFinished"}
\* The FSM takes the transcript, then what becomes of the reply.
Expects(st, q) ==
    \/ st = "Transcribing" /\ q # <<>> /\ Head(q) = FinalTranscript /\ HasOnly(Tail(q), News)
    \/ st \in {"Thinking", "Speaking"} /\ HasOnly(q, News)
Informed ==
    /\ Expects(state, queue["fsm"])
    /\ Ordered(queue["fsm"], FinishedLast)
    /\ llmFinished => HasOnly(queue["fsm"], {"FinalTranscript", "PlaybackFinished"})
    /\ llmFinished \/ (\E e \in Range(queue["fsm"]) : e.type = "LlmFinished") => Over
Streaming == /\ Attending /\ Replying /\ Carrying /\ OfActive /\ Alive /\ Accounted /\ Marked
             /\ Informed

Course == Rest \/ Opening \/ Hearing \/ Ending \/ Transcript \/ Accepted \/ Refused \/ Streaming

(* What a spoken session has done so far. *)
Completed == \A t \in Turns : <<t, "completed">> \in ended => Told(t) = 0 .. said[t] - 1
Alone == /\ out["stdin"] = <<>> /\ out["bargein"] = <<>> /\ out["summarizer"] = <<>>
         /\ summary # "running"
TokensKnown == /\ \A t \in DOMAIN tokens : t \in Nat /\ t < nextTurn /\ tokens[t] <= lastToken
               /\ dead \subseteq 0 .. lastToken
Counted == /\ utterances \in 0 .. MaxUtterances /\ nextTurn <= utterances + 1
           /\ said \in [Turns -> Nat] /\ \A t \in Turns : t >= nextTurn => said[t] = 0
           /\ utterances = 0 => Rest /\ active = 0 /\ ended = {} /\ step = "idle"
Conversing == Course /\ Completed /\ Alone /\ TokensKnown /\ Counted

(* In a session that is typed the FSM never has a turn. *)
Typed ==
    /\ lines \in Nat /\ utterances = 0 /\ ~talking /\ atStt = 0
    /\ active = 0 /\ ended = {} /\ step = "idle"
    /\ state \in {"Idle", "Listening"}
    /\ \A e \in Range(queue["fsm"]) : e.type # "SpeechStarted"
    /\ \A t \in Publishers : \A d \in Range(out[t]) : d.event.type # "SpeechStarted"

Session == (lines = 0 => Conversing) /\ (lines # 0 => Typed)

-----------------------------------------------------------------------------
(* One push and one event taken, component by component. *)
LEMMA PushedOn ==
    ASSUME NEW n \in Nat, BusShape(n), NEW t \in Publishers, Deliver(t), NEW d, d = Head(out[t])
    PROVE  /\ out[t] # <<>> /\ d.to \in Subscribers /\ d.event \in Events(Turned(n))
           /\ out'[t] = Tail(out[t]) /\ \A u \in Publishers : u # t => out'[u] = out[u]
           /\ queue'[d.to] = Append(queue[d.to], d.event)
           /\ \A s \in Subscribers : s # d.to => queue'[s] = queue[s]
<1>0. QueueShape(queue, n) /\ OutShape(out, n)
  BY DEF BusShape
<1>1. /\ out[t] # <<>> /\ queue' = [queue EXCEPT ![d.to] = Append(@, d.event)]
      /\ out' = [out EXCEPT ![t] = Tail(@)]
  BY DEF Deliver, Free
<1>2. d \in Pushes(Events(Turned(n)))
  BY <1>0, <1>1, Pushed
<1>3. d.to \in Subscribers /\ d.event \in Events(Turned(n))
  BY <1>2 DEF Pushes
<1>4. DOMAIN queue = Subscribers /\ DOMAIN out = Publishers
  BY <1>0 DEF QueueShape, OutShape
<1> QED
  BY <1>1, <1>3, <1>4

(* Who is told of the events that carry no turn, and of a cancellation. *)
LEMMA WhoIsTold ==
    /\ Deliveries(SpeechStarted) = <<Push("fsm", SpeechStarted), Push("bargein", SpeechStarted)>>
    /\ Deliveries(SpeechEnded) = <<Push("fsm", SpeechEnded)>>
    /\ Deliveries(FinalTranscript) = <<Push("fsm", FinalTranscript), Push("manager", FinalTranscript)>>
    /\ Deliveries(Refusal) = <<Push("fsm", Refusal), Push("bridge", Refusal), Push("manager", Refusal)>>
    /\ \A t : Deliveries(Event("CancelGeneration", t, 0))
               = <<Push("manager", Event("CancelGeneration", t, 0))>>
<1> DEFINE to(s, e) == IF e.type \in Reacts[s] THEN <<Push(s, e)>> ELSE <<>>
<1>1. \A e : Deliveries(e) = to("fsm", e) \o to("bridge", e) \o to("manager", e) \o to("bargein", e)
  BY DEF Deliveries, Order, Push
<1>2. \A x : <<>> \o <<>> = <<>> /\ <<x>> \o <<>> = <<x>> /\ <<>> \o <<x>> = <<x>>
  BY Joined
<1>3. \A x, y : <<x>> \o <<y>> = <<x, y>> /\ <<x, y>> \o <<>> = <<x, y>>
  BY Joined
<1>4. \A x, y, z : <<x, y>> \o <<z>> = <<x, y, z>> /\ <<x, y, z>> \o <<>> = <<x, y, z>>
  BY Joined
<1>5. ASSUME NEW e, e.type = "SpeechStarted" PROVE Deliveries(e) = <<Push("fsm", e), Push("bargein", e)>>
  <2>1. to("fsm", e) = <<Push("fsm", e)>> /\ to("bridge", e) = <<>> /\ to("manager", e) = <<>>
        /\ to("bargein", e) = <<Push("bargein", e)>>
    BY <1>5 DEF Reacts
  <2> HIDE DEF to
  <2> QED
    BY <1>1, <1>2, <1>3, <2>1
<1>6. ASSUME NEW e, e.type = "SpeechEnded" PROVE Deliveries(e) = <<Push("fsm", e)>>
  <2>1. to("fsm", e) = <<Push("fsm", e)>> /\ to("bridge", e) = <<>> /\ to("manager", e) = <<>>
        /\ to("bargein", e) = <<>>
    BY <1>6 DEF Reacts
  <2> HIDE DEF to
  <2> QED
    BY <1>1, <1>2, <2>1
<1>7. ASSUME NEW e, e.type = "FinalTranscript" PROVE Deliveries(e) = <<Push("fsm", e), Push("manager", e)>>
  <2>1. to("fsm", e) = <<Push("fsm", e)>> /\ to("bridge", e) = <<>> /\ to("bargein", e) = <<>>
        /\ to("manager", e) = <<Push("manager", e)>>
    BY <1>7 DEF Reacts
  <2> HIDE DEF to
  <2> QED
    BY <1>1, <1>2, <1>3, <2>1
<1>8. ASSUME NEW e, e.type = "UserInterrupted"
      PROVE  Deliveries(e) = <<Push("fsm", e), Push("bridge", e), Push("manager", e)>>
  <2>1. to("fsm", e) = <<Push("fsm", e)>> /\ to("bridge", e) = <<Push("bridge", e)>>
        /\ to("bargein", e) = <<>> /\ to("manager", e) = <<Push("manager", e)>>
    BY <1>8 DEF Reacts
  <2> HIDE DEF to
  <2>2. PICK x, y, z : x = Push("fsm", e) /\ y = Push("bridge", e) /\ z = Push("manager", e)
    OBVIOUS
  <2>3. Deliveries(e) = <<x>> \o <<y>> \o <<z>> \o <<>>
    BY <1>1, <2>1, <2>2
  <2>4. <<x>> \o <<y>> = <<x, y>> /\ <<x, y>> \o <<z>> = <<x, y, z>>
    BY <1>3, <1>4
  <2>5. <<x, y, z>> \o <<>> = <<x, y, z>>
    BY <1>4
  <2> QED
    BY <2>2, <2>3, <2>4, <2>5, Zenon
<1>9. ASSUME NEW e, e.type = "CancelGeneration" PROVE Deliveries(e) = <<Push("manager", e)>>
  <2>1. to("fsm", e) = <<>> /\ to("bridge", e) = <<>> /\ to("manager", e) = <<Push("manager", e)>>
        /\ to("bargein", e) = <<>>
    BY <1>9 DEF Reacts
  <2> HIDE DEF to
  <2> QED
    BY <1>1, <1>2, <2>1
<1>10. /\ SpeechStarted.type = "SpeechStarted" /\ SpeechEnded.type = "SpeechEnded"
       /\ FinalTranscript.type = "FinalTranscript" /\ Refusal.type = "UserInterrupted"
       /\ \A t : Event("CancelGeneration", t, 0).type = "CancelGeneration"
  BY DEF SpeechStarted, SpeechEnded, FinalTranscript, Refusal, Event
<1> QED
  BY <1>5, <1>6, <1>7, <1>8, <1>9, <1>10

(* While nothing is spoken and no stream runs. *)
Calm == /\ NothingSpoken /\ stream.phase \in {"idle", "return", "adopt"} /\ Alone /\ ~Summarizing
        /\ HasOnly(queue["bridge"], {"LlmStarted", "LlmFinished", "UserInterrupted"})
\* What no step touches then.
Kept == UNCHANGED <<jobs, synth, chunks, current, postbox, heard, unsaid, said, summary>>
\* A step that is of no concern to the session.
Aside == UNCHANGED <<fsmVars, pending, bridgeVars, busVars, micVars, historyVars>>
\* The stream is where it was, or gone.
StreamWaits == stream' = stream \/ (stream.phase = "return" /\ stream'.phase = "idle")

LEMMA NoJobsToKeep ==
    ASSUME jobs = <<>>, NEW turn
    PROVE  JobsWithout(turn) = <<>>
<1>1. PICK s : s = JobsWithout(turn)
  OBVIOUS
<1>2. jobs \in Seq({}) /\ Ordered(jobs, {})
  BY DEF Ordered
<1>3. s \in Seq({})
  BY <1>1, <1>2, JobsWithoutOrder
<1>4. s = <<>>
  BY <1>3
<1> QED
  BY <1>1, <1>4

LEMMA CalmBridge ==
    ASSUME NEW n \in Nat, BusShape(n), BridgeShape(n), Calm, BridgeHandles
    PROVE  /\ Kept /\ UNCHANGED <<fsmVars, managerVars, out, micVars>>
           /\ queue["bridge"] # <<>> /\ queue'["bridge"] = Tail(queue["bridge"])
           /\ \A s \in Subscribers : s # "bridge" => queue'[s] = queue[s]
<1>0. /\ queue["bridge"] \in Seq(Events(Turned(n))) /\ DOMAIN queue = Subscribers
      /\ "bridge" \in Subscribers
  BY DEF BusShape, QueueShape, Subscribers
<1>1. /\ queue["bridge"] # <<>> /\ queue' = [queue EXCEPT !["bridge"] = Tail(@)]
      /\ UNCHANGED <<fsmVars, managerVars, out, micVars, summary, said>>
  BY DEF BridgeHandles, Receives
<1>2. PICK e : e = Head(queue["bridge"])
  OBVIOUS
<1>3. UNCHANGED <<synth, unsaid, playbackVars>>
  BY <1>2, SentenceTaken
<1>4. e \in Range(queue["bridge"])
  BY <1>0, <1>1, <1>2, TailElems
<1>5. e.type # "LlmSentence"
  BY <1>4 DEF Calm, HasOnly
<1>6. jobs' = jobs
  <2>1. jobs = <<>>
    BY DEF Calm, NothingSpoken
  <2>2. jobs' = jobs \/ jobs' = JobsWithout(e.turn)
    BY <1>2, <1>5, SentenceTaken
  <2> QED
    BY <2>1, <2>2, NoJobsToKeep
<1>7. UNCHANGED <<chunks, current, postbox, heard>>
  BY <1>3 DEF playbackVars, queueVars, engineVars
<1> QED
  BY <1>0, <1>1, <1>3, <1>6, <1>7 DEF Kept

(* Nothing can be synthesised, played or streamed. *)
LEMMA CalmSteps ==
    ASSUME NEW n \in Nat, BusShape(n), BridgeShape(n), Calm, [PipelineNext]_pipelineVars
    PROVE  /\ Kept
           /\ \/ ManagerTakes \/ ManagerAdopts
              \/ StreamWaits
           /\ \/ ManagerTakes \/ ManagerAdopts
              \/ UserBegins \/ UserEnds \/ Transcribed \/ LineTyped
              \/ \E t \in Publishers : Deliver(t)
              \/ FsmHandles \/ FsmGoesOn \/ BargeInFires \/ BargeInSuppressed
              \/ ManagerHandles \/ BridgeHandles
              \/ /\ UNCHANGED <<fsmVars, managerVars, busVars, micVars, tokens, lastToken, dead>>
                 /\ clearing \/ clearing' = clearing
              \/ Aside
<1>0. /\ jobs = <<>> /\ synth = Resting /\ chunks = <<>> /\ current = <<>> /\ postbox = <<>>
      /\ stream.phase \in {"idle", "return", "adopt"} /\ summary # "running"
  BY DEF Calm, NothingSpoken, Alone
<1>1. CASE UserBegins \/ UserEnds \/ Transcribed \/ LineTyped
  BY <1>0, <1>1 DEF UserBegins, UserEnds, Transcribed, LineTyped, Kept, bridgeVars, workerVars,
     playbackVars, queueVars, engineVars, historyVars, managerVars, StreamWaits
<1>2. CASE \E t \in Publishers : Deliver(t)
  BY <1>0, <1>2 DEF Deliver, Kept, bridgeVars, workerVars,
     playbackVars, queueVars, engineVars, historyVars, managerVars, StreamWaits
<1>3. CASE FsmHandles \/ FsmGoesOn \/ BargeInFires \/ BargeInSuppressed
  BY <1>0, <1>3 DEF FsmHandles, FsmGoesOn, BargeInFires, BargeInSuppressed, Kept, bridgeVars,
     workerVars, playbackVars, queueVars, engineVars, historyVars, managerVars, StreamWaits
<1>4. CASE ManagerHandles
  <2>1. UNCHANGED stream
    BY <1>4 DEF ManagerHandles, EnqueueTurn, CancelActive, managerVars
  <2>2. Kept
    BY <1>4 DEF ManagerHandles, Kept, bridgeVars, workerVars, playbackVars, queueVars, engineVars,
       historyVars
  <2> QED
    BY <1>0, <1>4, <2>1, <2>2 DEF StreamWaits
<1>5. CASE BridgeHandles
  <2>1. Kept /\ UNCHANGED managerVars
    BY <1>5, CalmBridge
  <2> QED
    BY <1>0, <1>5, <2>1 DEF managerVars, StreamWaits
<1>6. CASE BridgeOrPlayback
  <2>1. ~Synthesis
    BY <1>0 DEF Synthesis, TakeJob, JobDropped, AudioArrives, SynthesisFails, AudioQueued,
       TailDropped, TailDue, MarkerQueued, Resting
  <2>2. Kept /\ UNCHANGED <<tokens, lastToken, dead>> /\ (clearing \/ clearing' = clearing)
    BY <1>0, <1>6, <2>1 DEF BridgeOrPlayback, BridgeClears, Render, ChunkConsumed, TurnPrimed,
       NextChunk, ClearChunks, Kept, bridgeVars, workerVars, queueVars, engineVars, historyVars
  <2>3. UNCHANGED <<fsmVars, managerVars, busVars, micVars>>
    BY <1>6 DEF BridgeOrPlayback
  <2> QED
    BY <1>0, <2>2, <2>3 DEF managerVars, StreamWaits
<1>7. CASE ManagerReturns
  <2>1. stream.phase = "return" /\ stream' = NoStream /\ UNCHANGED pending
    BY <1>7 DEF ManagerReturns, RunOneReturns
  <2>2. UNCHANGED <<fsmVars, bridgeVars, busVars, micVars, historyVars, playbackVars, summary>>
    BY <1>7 DEF ManagerReturns
  <2>3. Kept
    BY <2>2 DEF Kept, bridgeVars, workerVars, playbackVars, queueVars, engineVars, historyVars
  <2> QED
    BY <2>1, <2>2, <2>3 DEF Aside, NoStream, StreamWaits
<1>8. CASE UNCHANGED pipelineVars
  <2>1. UNCHANGED <<fsmVars, managerVars, bridgeVars, busVars, micVars, historyVars, playbackVars, summary>>
    BY <1>8 DEF pipelineVars
  <2>2. Kept
    BY <2>1 DEF Kept, bridgeVars, workerVars, playbackVars, queueVars, engineVars, historyVars
  <2> QED
    BY <1>0, <2>1, <2>2 DEF Aside, managerVars, StreamWaits
<1>9. ~(SummaryFinishes \/ ManagerActivates \/ LlmSays \/ LlmFinishes \/ PlaybackPublishes)
  BY <1>0 DEF SummaryFinishes, ManagerActivates, ActivateTurn, LlmSays, SentenceDone, LeftoverSentence, LlmFinishes,
     FinishStream, PlaybackPublishes
<1>10. CASE ManagerTakes \/ ManagerAdopts
  <2>1. UNCHANGED <<bridgeVars, playbackVars, historyVars, summary>>
    BY <1>10 DEF ManagerTakes, ManagerAdopts
  <2>2. Kept
    BY <2>1 DEF Kept, bridgeVars, workerVars, playbackVars, queueVars, engineVars, historyVars
  <2> QED
    BY <1>10, <2>2
<1> QED
  BY <1>1, <1>2, <1>3, <1>4, <1>5, <1>6, <1>7, <1>8, <1>9, <1>10 DEF PipelineNext, SystemStep

(* What the steps of a spoken session change, place by place. *)
LEMMA FsmTakes ==
    ASSUME NEW n \in Nat, BusShape(n), FsmHandles, NEW e, e = Head(queue["fsm"])
    PROVE  /\ out["fsm"] = <<>> /\ queue["fsm"] # <<>> /\ Dispatch(e)
           /\ e \in Range(queue["fsm"]) /\ queue["fsm"] \in Seq(Events(Turned(n)))
           /\ queue'["fsm"] = Tail(queue["fsm"])
           /\ \A s \in Subscribers : s # "fsm" => queue'[s] = queue[s]
           /\ \A t \in Publishers : t # "fsm" => out'[t] = out[t]
           /\ out'["fsm"] = IF step' = "interrupt"
                            THEN <<Push("manager", Event("CancelGeneration", active, 0))>> ELSE <<>>
           /\ UNCHANGED <<managerVars, bridgeVars, playbackVars, micVars, summary, historyVars>>
<1>0. /\ queue["fsm"] \in Seq(Events(Turned(n))) /\ DOMAIN queue = Subscribers
      /\ DOMAIN out = Publishers /\ "fsm" \in Subscribers /\ "fsm" \in Publishers
  BY DEF BusShape, QueueShape, OutShape, Subscribers, Publishers
<1>1. /\ out["fsm"] = <<>> /\ queue["fsm"] # <<>> /\ queue' = [queue EXCEPT !["fsm"] = Tail(@)]
      /\ Dispatch(e)
      /\ UNCHANGED <<managerVars, bridgeVars, playbackVars, micVars, summary, historyVars>>
  BY DEF FsmHandles, Receives, Next1, Free
<1>2. e \in Range(queue["fsm"])
  BY <1>0, <1>1, TailElems
<1>3. /\ step' = "interrupt" =>
            out' = [out EXCEPT !["fsm"] = Deliveries(Event("CancelGeneration", active, 0))]
      /\ step' # "interrupt" => out' = out
  BY DEF FsmHandles, Publish
<1>4. /\ \A t \in Publishers : t # "fsm" => out'[t] = out[t]
      /\ out'["fsm"] = IF step' = "interrupt"
                       THEN <<Push("manager", Event("CancelGeneration", active, 0))>> ELSE <<>>
  BY <1>0, <1>1, <1>3, WhoIsTold
<1> QED
  BY <1>0, <1>1, <1>2, <1>4

\* Thread t makes its next push, d.
PushMade(t, d) ==
    /\ out[t] # <<>> /\ d = Head(out[t]) /\ d.to \in Subscribers
    /\ out'[t] = Tail(out[t]) /\ \A u \in Publishers : u # t => out'[u] = out[u]
    /\ queue'[d.to] = Append(queue[d.to], d.event)
    /\ \A s \in Subscribers : s # d.to => queue'[s] = queue[s]
    /\ UNCHANGED <<fsmVars, managerVars, bridgeVars, playbackVars, micVars, summary, historyVars>>

LEMMA PushIsMade ==
    ASSUME NEW n \in Nat, BusShape(n), NEW t \in Publishers, Deliver(t)
    PROVE  \E d : PushMade(t, d) /\ d.event \in Events(Turned(n))
<1>1. PICK d : d = Head(out[t])
  OBVIOUS
<1>2. UNCHANGED <<fsmVars, managerVars, bridgeVars, playbackVars, micVars, summary, historyVars>>
  BY DEF Deliver
<1>3. PushMade(t, d)
  <2>1. out[t] # <<>> /\ d.to \in Subscribers /\ out'[t] = Tail(out[t])
    BY <1>1, PushedOn
  <2>2. \A u \in Publishers : u # t => out'[u] = out[u]
    BY <1>1, PushedOn
  <2>3. queue'[d.to] = Append(queue[d.to], d.event)
    BY <1>1, PushedOn
  <2>4. \A s \in Subscribers : s # d.to => queue'[s] = queue[s]
    BY <1>1, PushedOn
  <2> QED
    BY <1>1, <1>2, <2>1, <2>2, <2>3, <2>4, Zenon DEF PushMade
<1>4. d.event \in Events(Turned(n))
  BY <1>1, PushedOn
<1> QED
  BY <1>3, <1>4

LEMMA ManagerTakesEvent ==
    ASSUME NEW n \in Nat, BusShape(n), ManagerHandles, NEW e, e = Head(queue["manager"])
    PROVE  /\ out["manager"] = <<>> /\ queue["manager"] # <<>>
           /\ e \in Range(queue["manager"]) /\ queue["manager"] \in Seq(Events(Turned(n)))
           /\ queue'["manager"] = Tail(queue["manager"])
           /\ \A s \in Subscribers : s # "manager" => queue'[s] = queue[s]
           /\ \A t \in Publishers : t # "manager" => out'[t] = out[t]
           /\ stream' = stream
           /\ \/ e.type = "FinalTranscript" /\ pending' = TRUE /\ out'["manager"] = <<>>
              \/ /\ e.type = "FinalTranscript" /\ pending' = pending
                 /\ out'["manager"] = Deliveries(Event("UserInterrupted", e.turn, 0))
              \/ /\ e.type \in {"UserInterrupted", "CancelGeneration"} /\ pending' = pending
                 /\ out'["manager"] = <<>>
           /\ UNCHANGED <<fsmVars, bridgeVars, playbackVars, micVars, summary, historyVars>>
<1>0. /\ queue["manager"] \in Seq(Events(Turned(n))) /\ DOMAIN queue = Subscribers
      /\ DOMAIN out = Publishers /\ "manager" \in Subscribers /\ "manager" \in Publishers
  BY DEF BusShape, QueueShape, OutShape, Subscribers, Publishers
<1>1. /\ out["manager"] = <<>> /\ queue["manager"] # <<>>
      /\ queue' = [queue EXCEPT !["manager"] = Tail(@)]
      /\ UNCHANGED <<fsmVars, bridgeVars, playbackVars, micVars, summary, historyVars>>
  BY DEF ManagerHandles, Receives, Free
<1>2. e \in Range(queue["manager"])
  BY <1>0, <1>1, TailElems
<1>3. \/ e.type = "FinalTranscript" /\ pending' = TRUE /\ stream' = stream /\ out' = out
      \/ /\ e.type = "FinalTranscript" /\ pending' = pending /\ stream' = stream
         /\ out' = [out EXCEPT !["manager"] = Deliveries(Event("UserInterrupted", e.turn, 0))]
      \/ /\ e.type \in {"UserInterrupted", "CancelGeneration"} /\ pending' = pending
         /\ stream' = stream /\ out' = out
  BY DEF ManagerHandles, Next1, EnqueueTurn, CancelActive, Publish, managerVars
<1> QED
  BY <1>0, <1>1, <1>2, <1>3

LEMMA BargeInTakes ==
    ASSUME NEW n \in Nat, BusShape(n), BargeInSuppressed
    PROVE  /\ queue["bargein"] # <<>> /\ out' = out
           /\ \A s \in Subscribers : s # "bargein" => queue'[s] = queue[s]
           /\ UNCHANGED <<fsmVars, managerVars, bridgeVars, playbackVars, micVars, summary, historyVars>>
<1>0. DOMAIN queue = Subscribers
  BY DEF BusShape, QueueShape
<1> QED
  BY <1>0 DEF BargeInSuppressed, Receives

(* The user and the STT server act on a quiet bus. *)
LEMMA OnQuietBus ==
    ASSUME NEW n \in Nat, BusShape(n), Prompt, UserBegins \/ UserEnds \/ Transcribed \/ LineTyped
    PROVE  /\ \A s \in Subscribers : queue[s] = <<>>
           /\ \A t \in Publishers : out[t] = <<>>
           /\ step = "idle" /\ ~clearing /\ queue' = queue
           /\ UNCHANGED <<fsmVars, managerVars, bridgeVars, playbackVars, summary, historyVars>>
           /\ UserBegins => /\ \A t \in Publishers : t # "audio" => out'[t] = <<>>
                            /\ out'["audio"] = <<Push("fsm", SpeechStarted), Push("bargein", SpeechStarted)>>
                            /\ ~talking /\ talking' /\ UNCHANGED <<atStt, lines>>
                            /\ utterances' = utterances + 1 /\ utterances < MaxUtterances
           /\ UserEnds => /\ \A t \in Publishers : t # "audio" => out'[t] = <<>>
                          /\ out'["audio"] = <<Push("fsm", SpeechEnded)>>
                          /\ talking /\ ~talking' /\ UNCHANGED <<utterances, lines>>
                          /\ atStt' = atStt + 1
           /\ Transcribed => /\ \A t \in Publishers : t # "stt" => out'[t] = <<>>
                             /\ \/ out'["stt"] = <<Push("fsm", FinalTranscript),
                                                   Push("manager", FinalTranscript)>>
                                \/ out'["stt"] = <<>>
                             /\ atStt > 0 /\ atStt' = atStt - 1 /\ UNCHANGED <<talking, utterances, lines>>
           /\ LineTyped => /\ \A t \in Publishers : t # "stdin" => out'[t] = <<>>
                           /\ out'["stdin"] = <<Push("fsm", FinalTranscript),
                                                Push("manager", FinalTranscript)>>
                           /\ lines' = lines + 1 /\ UNCHANGED <<talking, utterances, atStt>>
<1>0. /\ DOMAIN out = Publishers /\ "audio" \in Publishers /\ "stt" \in Publishers
      /\ "stdin" \in Publishers
  BY DEF BusShape, OutShape, Publishers
<1>1. /\ \A s \in Subscribers : queue[s] = <<>>
      /\ \A t \in Publishers : out[t] = <<>>
      /\ step = "idle" /\ ~clearing
  BY DEF UserBegins, UserEnds, Transcribed, LineTyped, CaughtUp, Free
<1>2. /\ queue' = queue
      /\ UNCHANGED <<fsmVars, managerVars, bridgeVars, playbackVars, summary, historyVars>>
  BY DEF UserBegins, UserEnds, Transcribed, LineTyped
<1>3. ASSUME UserBegins
      PROVE  /\ \A t \in Publishers : t # "audio" => out'[t] = <<>>
             /\ out'["audio"] = <<Push("fsm", SpeechStarted), Push("bargein", SpeechStarted)>>
             /\ ~talking /\ talking' /\ UNCHANGED <<atStt, lines>>
             /\ utterances' = utterances + 1 /\ utterances < MaxUtterances
  <2>1. /\ out' = [out EXCEPT !["audio"] = Deliveries(SpeechStarted)] /\ utterances < MaxUtterances
        /\ ~talking /\ talking' /\ UNCHANGED <<atStt, lines>> /\ utterances' = utterances + 1
    BY <1>3 DEF UserBegins, Publish, SpeechStarted
  <2> QED
    BY <1>0, <1>1, <2>1, WhoIsTold
<1>4. ASSUME UserEnds
      PROVE  /\ \A t \in Publishers : t # "audio" => out'[t] = <<>>
             /\ out'["audio"] = <<Push("fsm", SpeechEnded)>>
             /\ talking /\ ~talking' /\ UNCHANGED <<utterances, lines>>
             /\ atStt' = atStt + 1
  <2>1. /\ out' = [out EXCEPT !["audio"] = Deliveries(SpeechEnded)]
        /\ talking /\ ~talking' /\ UNCHANGED <<utterances, lines>> /\ atStt' = atStt + 1
    BY <1>4 DEF UserEnds, Publish, SpeechEnded
  <2> QED
    BY <1>0, <1>1, <2>1, WhoIsTold
<1>5. ASSUME Transcribed
      PROVE  /\ \A t \in Publishers : t # "stt" => out'[t] = <<>>
             /\ \/ out'["stt"] = <<Push("fsm", FinalTranscript),
                                   Push("manager", FinalTranscript)>>
                \/ out'["stt"] = <<>>
             /\ atStt > 0 /\ atStt' = atStt - 1 /\ UNCHANGED <<talking, utterances, lines>>
  <2>1. /\ out' = [out EXCEPT !["stt"] = Deliveries(FinalTranscript)] \/ out' = out
        /\ atStt > 0 /\ atStt' = atStt - 1 /\ UNCHANGED <<talking, utterances, lines>>
    BY <1>5 DEF Transcribed, Publish, FinalTranscript
  <2> QED
    BY <1>0, <1>1, <2>1, WhoIsTold
<1>6. ASSUME LineTyped
      PROVE  /\ \A t \in Publishers : t # "stdin" => out'[t] = <<>>
             /\ out'["stdin"] = <<Push("fsm", FinalTranscript),
                                  Push("manager", FinalTranscript)>>
             /\ lines' = lines + 1 /\ UNCHANGED <<talking, utterances, atStt>>
  <2>1. /\ out' = [out EXCEPT !["stdin"] = Deliveries(FinalTranscript)]
        /\ lines' = lines + 1 /\ UNCHANGED <<talking, utterances, atStt>>
    BY <1>6 DEF LineTyped, Publish, FinalTranscript
  <2> QED
    BY <1>0, <1>1, <2>1, WhoIsTold
<1> QED
  BY <1>1, <1>2, <1>3, <1>4, <1>5, <1>6

(* Of what there is nothing stays as it is. *)
LEMMA FreshKept ==
    ASSUME Fresh, UNCHANGED <<active, llmFinished, tokens, heard, unsaid, said>>
    PROVE  Fresh'
  BY DEF Fresh, Told

LEMMA SpokenKept ==
    ASSUME NothingSpoken, Kept, out'["playback"] = <<>>
    PROVE  NothingSpoken'
  BY DEF NothingSpoken, Kept

\* The variables of the session that are not in Kept, the stream's phase apart.
Unmoved == UNCHANGED <<fsmVars, pending, tokens, clearing, queue, out, micVars>>

(* Nothing is on its way between the FSM, the bridge and the Manager, either. *)
LEMMA StillSteps ==
    ASSUME NEW n \in Nat, BusShape(n), BridgeShape(n), Still, Alone, ~Summarizing,
           stream.phase \in {"idle", "return", "adopt"}, [PipelineNext]_pipelineVars
    PROVE  /\ Kept /\ ~clearing' /\ UNCHANGED tokens
           /\ \/ ManagerTakes \/ ManagerAdopts
              \/ StreamWaits
           /\ \/ ManagerTakes \/ ManagerAdopts
              \/ UserBegins \/ UserEnds \/ Transcribed \/ LineTyped
              \/ Deliver("audio") \/ Deliver("stt")
              \/ FsmHandles \/ FsmGoesOn \/ BargeInFires \/ BargeInSuppressed
              \/ ManagerHandles \/ Unmoved
<1>0. /\ NothingSpoken /\ queue["bridge"] = <<>> /\ ~clearing
      /\ \A t \in Publishers \ {"audio", "stt"} : out[t] = <<>>
  BY DEF Still, NothingSpoken, Alone, Publishers
<1>1. Calm
  <2>1. Range(queue["bridge"]) = {}
    BY <1>0 DEF Range
  <2> QED
    BY <1>0, <2>1 DEF Calm, HasOnly
<1>2. ~BridgeHandles
  BY <1>0 DEF BridgeHandles, Receives
<1>3. ASSUME NEW t \in Publishers, Deliver(t)
      PROVE  (Deliver("audio") \/ Deliver("stt")) /\ UNCHANGED <<clearing, tokens>>
  <2>1. out[t] # <<>>
    BY <1>3 DEF Deliver, Free
  <2>2. t \in {"audio", "stt"}
    BY <1>0, <2>1
  <2> QED
    BY <1>3, <2>2 DEF Deliver, bridgeVars, workerVars
<1>4. CASE UserBegins \/ UserEnds \/ Transcribed \/ LineTyped \/ FsmHandles \/ FsmGoesOn
           \/ BargeInFires \/ BargeInSuppressed \/ ManagerHandles \/ ManagerTakes \/ ManagerAdopts
  <2>1. UNCHANGED <<clearing, tokens>>
    BY <1>4 DEF ManagerTakes, ManagerAdopts, UserBegins, UserEnds, Transcribed, LineTyped, FsmHandles, FsmGoesOn, BargeInFires,
       BargeInSuppressed, ManagerHandles, bridgeVars, workerVars
  <2> QED
    BY <1>0, <1>1, <1>4, <2>1, CalmSteps
<1>5. CASE \E t \in Publishers : Deliver(t)
  BY <1>0, <1>1, <1>3, <1>5, CalmSteps
<1>6. CASE UNCHANGED <<fsmVars, managerVars, busVars, micVars, tokens, lastToken, dead>>
            /\ (clearing \/ clearing' = clearing)
  BY <1>0, <1>1, <1>6, CalmSteps DEF Unmoved, managerVars, busVars
<1>7. CASE Aside
  BY <1>0, <1>1, <1>7, CalmSteps DEF Unmoved, Aside, bridgeVars, workerVars, busVars
<1> QED
  BY <1>1, <1>2, <1>4, <1>5, <1>6, <1>7, CalmSteps

LEMMA OverSteps ==
    ASSUME NEW n \in Nat, BusShape(n), BridgeShape(n), Still, StreamOver, Alone, ~Summarizing,
           [PipelineNext]_pipelineVars
    PROVE  /\ Kept /\ stream'.phase \in {"idle", "return"} /\ ~clearing' /\ UNCHANGED tokens
           /\ \/ UserBegins \/ UserEnds \/ Transcribed \/ LineTyped
              \/ Deliver("audio") \/ Deliver("stt")
              \/ FsmHandles \/ FsmGoesOn \/ BargeInFires \/ BargeInSuppressed
              \/ ManagerHandles \/ Unmoved
<1>1. ~pending /\ stream.phase \in {"idle", "return"}
  BY DEF StreamOver
<1>2. ~ManagerTakes /\ ~ManagerAdopts
  BY <1>1 DEF ManagerTakes, TakeTranscript, ManagerAdopts, AdoptTurn
<1> QED
  BY <1>1, <1>2, StillSteps DEF StreamWaits

(* The user has begun to speak: the FSM is told, and begins the turn. *)
LEMMA OpeningStep ==
    ASSUME NEW n \in Nat, n = nextTurn, BusShape(n), BridgeShape(n), FsmTypeOK, HeardShape(n),
           TokensKnown, Counted, Prompt, Alone, ~Summarizing, Opening, [PipelineNext]_pipelineVars
    PROVE  Opening' \/ Hearing'
<1>0. /\ talking /\ atStt = 0 /\ out["stt"] = <<>> /\ Still /\ StreamOver /\ ~pending
      /\ queue["manager"] = <<>> /\ state = "Listening" /\ step = "idle" /\ nextTurn <= utterances
      /\ NothingSpoken /\ out["llm"] = <<>> /\ queue["bridge"] = <<>> /\ ~clearing
      /\ out["fsm"] = <<>> /\ out["manager"] = <<>> /\ out["playback"] = <<>>
  BY DEF Opening, Still, StreamOver, NothingSpoken
<1>1. \/ /\ out["audio"] = <<Push("fsm", SpeechStarted), Push("bargein", SpeechStarted)>>
         /\ queue["fsm"] = <<>>
      \/ /\ out["audio"] \in {<<>>, <<Push("bargein", SpeechStarted)>>}
         /\ queue["fsm"] = <<SpeechStarted>>
  BY DEF Opening
<1>2. /\ Kept /\ stream'.phase \in {"idle", "return"} /\ ~clearing' /\ UNCHANGED tokens
  BY <1>0, OverSteps
<1>3. ~(UserBegins \/ UserEnds \/ Transcribed \/ LineTyped)
  <2> SUFFICES ASSUME UserBegins \/ UserEnds \/ Transcribed \/ LineTyped PROVE FALSE
    OBVIOUS
  <2>1. queue["fsm"] = <<>> /\ out["audio"] = <<>>
    BY OnQuietBus DEF Subscribers, Publishers
  <2> QED
    BY <1>1, <2>1, Short
<1>4. CASE Deliver("audio")
  <2>0. "audio" \in Publishers
    BY DEF Publishers
  <2>1. PICK d : PushMade("audio", d)
    BY <1>4, <2>0, PushIsMade
  <2>2. /\ out["audio"] # <<>> /\ d = Head(out["audio"])
        /\ out'["audio"] = Tail(out["audio"]) /\ \A u \in Publishers : u # "audio" => out'[u] = out[u]
        /\ queue'[d.to] = Append(queue[d.to], d.event)
        /\ \A s \in Subscribers : s # d.to => queue'[s] = queue[s]
    BY <2>1 DEF PushMade
  <2>3. /\ UNCHANGED <<fsmVars, micVars, pending>>
    BY <2>1 DEF PushMade, managerVars
  <2>4. /\ out'["stt"] = <<>> /\ out'["llm"] = <<>> /\ out'["fsm"] = <<>> /\ out'["manager"] = <<>>
        /\ out'["playback"] = <<>>
    BY <1>0, <2>2 DEF Publishers
  <2>5. NothingSpoken'
    BY <1>0, <1>2, <2>4, SpokenKept
  <2>6. CASE out["audio"] = <<Push("fsm", SpeechStarted), Push("bargein", SpeechStarted)>>
    <3>1. d = Push("fsm", SpeechStarted) /\ out'["audio"] = <<Push("bargein", SpeechStarted)>>
      BY <2>2, <2>6, Short
    <3>2. d.to = "fsm" /\ d.event = SpeechStarted
      BY <3>1 DEF Push
    <3>3. queue["fsm"] = <<>>
      BY <1>1, <2>6, Short
    <3>4. /\ queue'["fsm"] = <<SpeechStarted>> /\ queue'["manager"] = <<>> /\ queue'["bridge"] = <<>>
      BY <1>0, <2>2, <3>2, <3>3, Short DEF Subscribers
    <3> QED
      BY <1>0, <1>2, <2>3, <2>4, <2>5, <3>1, <3>4 DEF Opening, Still, StreamOver, fsmVars, micVars
  <2>7. CASE out["audio"] = <<Push("bargein", SpeechStarted)>>
    <3>1. d = Push("bargein", SpeechStarted) /\ out'["audio"] = <<>>
      BY <2>2, <2>7, Short
    <3>2. d.to = "bargein"
      BY <3>1 DEF Push
    <3>3. queue["fsm"] = <<SpeechStarted>>
      BY <1>1, <2>7, Short
    <3>4. /\ queue'["fsm"] = <<SpeechStarted>> /\ queue'["manager"] = <<>> /\ queue'["bridge"] = <<>>
      BY <1>0, <2>2, <3>2, <3>3 DEF Subscribers
    <3> QED
      BY <1>0, <1>2, <2>3, <2>4, <2>5, <3>1, <3>4 DEF Opening, Still, StreamOver, fsmVars, micVars
  <2> QED
    BY <1>1, <2>2, <2>6, <2>7
<1>5. ~Deliver("stt")
  BY <1>0 DEF Deliver, Free
<1>6. CASE FsmHandles
  <2>1. PICK e : e = Head(queue["fsm"])
    OBVIOUS
  <2>2. /\ queue["fsm"] # <<>> /\ Dispatch(e) /\ queue'["fsm"] = Tail(queue["fsm"])
        /\ \A s \in Subscribers : s # "fsm" => queue'[s] = queue[s]
        /\ \A t \in Publishers : t # "fsm" => out'[t] = out[t]
        /\ out'["fsm"] = IF step' = "interrupt"
                         THEN <<Push("manager", Event("CancelGeneration", active, 0))>> ELSE <<>>
        /\ UNCHANGED <<managerVars, micVars>>
    BY <1>6, <2>1, FsmTakes
  <2>3. /\ queue["fsm"] = <<SpeechStarted>> /\ out["audio"] \in {<<>>, <<Push("bargein", SpeechStarted)>>}
    BY <1>1, <2>2
  <2>4. e.type = "SpeechStarted" /\ queue'["fsm"] = <<>>
    BY <2>1, <2>2, <2>3, Short DEF SpeechStarted, Event
  <2>5. BeginTurn
    BY <1>0, <2>2, <2>4 DEF Dispatch, HandleSpeechStarted, CanBegin
  <2>6. /\ active' = nextTurn /\ state' = "Listening" /\ step' = "begin" /\ ~llmFinished'
    BY <1>0, <2>5 DEF BeginTurn
  <2>7. /\ queue'["manager"] = <<>> /\ queue'["bridge"] = <<>>
        /\ out'["stt"] = <<>> /\ out'["llm"] = <<>> /\ out'["fsm"] = <<>> /\ out'["manager"] = <<>>
        /\ out'["playback"] = <<>> /\ out'["audio"] \in {<<>>, <<Push("bargein", SpeechStarted)>>}
    BY <1>0, <2>2, <2>3, <2>6 DEF Subscribers, Publishers
  <2>8. NothingSpoken'
    BY <1>0, <1>2, <2>7, SpokenKept
  <2>9. Fresh'
    <3>1. n \notin DOMAIN tokens /\ n # NoTurn /\ n \in Nat
      BY DEF TokensKnown, FsmTypeOK, NoTurn
    <3>2. said[n] = 0
      <4>1. n \in Turns
        BY <1>0, PipelineAssumption DEF Counted, Turns
      <4> QED
        BY <4>1 DEF Counted
    <3>3. Told(n) = {}
      <4>1. \A p \in Range(heard) \cup unsaid : p[1] # n
        <5>1. Range(heard) \subseteq Turned(n) \X Nat
          BY DEF HeardShape, Range
        <5>2. n \notin Turned(n)
          BY DEF Turned
        <5> QED
          BY <5>1, <5>2 DEF HeardShape
      <4> QED
        BY <4>1 DEF Told, SentencesOf
    <3>4. active' = n /\ UNCHANGED <<heard, unsaid, said>>
      BY <1>2, <2>6 DEF Kept
    <3> QED
      BY <1>2, <2>6, <3>1, <3>2, <3>3, <3>4 DEF Fresh, Told
  <2> QED
    BY <1>0, <1>2, <2>2, <2>4, <2>6, <2>7, <2>8, <2>9 DEF Hearing, Still, StreamOver, managerVars, micVars
<1>7. ~FsmGoesOn
  BY <1>0 DEF FsmGoesOn, Start, InterruptOutcome, HandlerContinues, SpeechStartedReturns, Settle
<1>8. ~BargeInFires
  BY <1>0 DEF BargeInFires
<1>9. CASE BargeInSuppressed
  <2>1. /\ out' = out /\ \A s \in Subscribers : s # "bargein" => queue'[s] = queue[s]
        /\ UNCHANGED <<fsmVars, managerVars, micVars>>
    BY <1>9, BargeInTakes
  <2>2. NothingSpoken'
    BY <1>0, <1>2, <2>1, SpokenKept
  <2>3. /\ queue'["fsm"] = queue["fsm"] /\ queue'["manager"] = <<>> /\ queue'["bridge"] = <<>>
    BY <1>0, <2>1 DEF Subscribers
  <2> QED
    BY <1>0, <1>1, <1>2, <2>1, <2>2, <2>3 DEF Opening, Still, StreamOver, fsmVars, micVars, managerVars
<1>10. ~ManagerHandles
  BY <1>0 DEF ManagerHandles, Receives
<1>11. CASE Unmoved
  <2>1. NothingSpoken'
    BY <1>0, <1>2, <1>11, SpokenKept DEF Unmoved
  <2> QED
    BY <1>0, <1>1, <1>2, <1>11, <2>1 DEF Opening, Still, StreamOver, fsmVars, micVars, Unmoved
<1> QED
  BY <1>0, <1>3, <1>4, <1>5, <1>6, <1>7, <1>8, <1>9, <1>10, <1>11, OverSteps

LEMMA StillKept ==
    ASSUME Still, Kept, ~clearing', queue'["bridge"] = <<>>, out'["playback"] = <<>>,
           out'["llm"] = <<>>, out'["fsm"] = <<>>, out'["manager"] = <<>>
    PROVE  Still'
  BY SpokenKept DEF Still

\* What a waiting session has in common.
LEMMA StillIs ==
    ASSUME Still
    PROVE  /\ queue["bridge"] = <<>> /\ out["playback"] = <<>> /\ ~clearing
           /\ out["llm"] = <<>> /\ out["fsm"] = <<>> /\ out["manager"] = <<>>
  BY DEF Still, NothingSpoken

LEMMA StillUnmoved ==
    ASSUME Still, Kept, Unmoved
    PROVE  Still'
<1>1. UNCHANGED <<queue, out, clearing>>
  BY DEF Unmoved
<1> QED
  BY <1>1, StillIs, StillKept

LEMMA FreshUnmoved ==
    ASSUME Fresh, Kept, UNCHANGED <<active, llmFinished, tokens>>
    PROVE  Fresh'
  BY FreshKept DEF Kept

(* The turn has begun: the user goes on until they end. *)
LEMMA HearingStep ==
    ASSUME NEW n \in Nat, BusShape(n), BridgeShape(n), FsmTypeOK,
           Prompt, Alone, ~Summarizing, Hearing, [PipelineNext]_pipelineVars, ~LineTyped
    PROVE  Hearing' \/ Ending'
<1>0. /\ talking /\ atStt = 0 /\ out["stt"] = <<>> /\ Still /\ StreamOver /\ ~pending
      /\ queue["manager"] = <<>> /\ queue["fsm"] = <<>> /\ Fresh
      /\ (state = "Listening" /\ step = "begin") \/ (state = "UserSpeaking" /\ step = "idle")
      /\ out["audio"] \in {<<>>, <<Push("bargein", SpeechStarted)>>}
  BY DEF Hearing, StreamOver
<1>1. /\ queue["bridge"] = <<>> /\ out["playback"] = <<>>
      /\ out["llm"] = <<>> /\ out["fsm"] = <<>> /\ out["manager"] = <<>>
  BY <1>0, StillIs
<1>2. /\ Kept /\ stream'.phase \in {"idle", "return"} /\ ~clearing' /\ UNCHANGED tokens
  BY <1>0, OverSteps
<1>3. ~UserBegins /\ ~Transcribed
  BY <1>0 DEF UserBegins, Transcribed
<1>4. CASE UserEnds
  <2>1. /\ \A s \in Subscribers : queue[s] = <<>>
        /\ step = "idle" /\ queue' = queue
        /\ UNCHANGED <<fsmVars, managerVars>>
        /\ \A t \in Publishers : t # "audio" => out'[t] = <<>>
        /\ out'["audio"] = <<Push("fsm", SpeechEnded)>>
        /\ ~talking' /\ atStt' = atStt + 1
    BY <1>4, OnQuietBus
  <2>2. /\ queue'["bargein"] = <<>> /\ queue'["bridge"] = <<>> /\ queue'["manager"] = <<>>
        /\ queue'["fsm"] = <<>>
        /\ out'["stt"] = <<>> /\ out'["llm"] = <<>> /\ out'["fsm"] = <<>> /\ out'["manager"] = <<>>
        /\ out'["playback"] = <<>>
    BY <2>1 DEF Subscribers, Publishers
  <2>3. UNCHANGED <<active, llmFinished, state, step, pending>>
    BY <2>1 DEF fsmVars, perTurn, managerVars
  <2>4. Still' /\ Fresh'
    BY <1>0, <1>2, <2>2, <2>3, StillKept, FreshUnmoved
  <2> QED
    BY <1>0, <1>2, <2>1, <2>2, <2>3, <2>4 DEF Ending, StreamOver
<1>5. CASE Deliver("audio")
  <2>0. "audio" \in Publishers
    BY DEF Publishers
  <2>1. PICK d : PushMade("audio", d)
    BY <1>5, <2>0, PushIsMade
  <2>2. /\ out["audio"] # <<>> /\ d = Head(out["audio"])
        /\ out'["audio"] = Tail(out["audio"]) /\ \A u \in Publishers : u # "audio" => out'[u] = out[u]
        /\ \A s \in Subscribers : s # d.to => queue'[s] = queue[s]
    BY <2>1 DEF PushMade
  <2>3. /\ UNCHANGED <<active, llmFinished, state, step, pending, talking, atStt>>
    BY <2>1 DEF PushMade, managerVars, fsmVars, perTurn, micVars
  <2>4. /\ out'["stt"] = <<>> /\ out'["llm"] = <<>> /\ out'["fsm"] = <<>> /\ out'["manager"] = <<>>
        /\ out'["playback"] = <<>>
    BY <1>0, <1>1, <2>2 DEF Publishers
  <2>5. d = Push("bargein", SpeechStarted) /\ out'["audio"] = <<>>
    BY <1>0, <2>2, Short
  <2>6. d.to = "bargein"
    BY <2>5 DEF Push
  <2>7. queue'["fsm"] = <<>> /\ queue'["manager"] = <<>> /\ queue'["bridge"] = <<>>
    BY <1>0, <1>1, <2>2, <2>6 DEF Subscribers
  <2>8. Still' /\ Fresh'
    BY <1>0, <1>2, <2>3, <2>4, <2>7, StillKept, FreshUnmoved
  <2> QED
    BY <1>0, <1>2, <2>3, <2>4, <2>5, <2>7, <2>8 DEF Hearing, StreamOver
<1>6. ~Deliver("stt") /\ ~FsmHandles /\ ~ManagerHandles
  BY <1>0 DEF Deliver, Free, FsmHandles, ManagerHandles, Receives
<1>7. CASE FsmGoesOn
  <2>1. SpeechStartedReturns
    BY <1>0, <1>7 DEF FsmGoesOn, Start, InterruptOutcome, HandlerContinues, Settle
  <2>2. /\ state' = "UserSpeaking" /\ step' = "idle" /\ UNCHANGED <<active, llmFinished>>
    BY <2>1 DEF SpeechStartedReturns, perTurn
  <2>3. UNCHANGED <<queue, out, pending, talking, atStt>>
    BY <1>7 DEF FsmGoesOn, busVars, managerVars, micVars
  <2>4. Still' /\ Fresh'
    BY <1>0, <1>1, <1>2, <2>2, <2>3, StillKept, FreshUnmoved
  <2> QED
    BY <1>0, <1>2, <2>2, <2>3, <2>4 DEF Hearing, StreamOver
<1>8. ~BargeInFires
  BY <1>0 DEF BargeInFires
<1>9. CASE BargeInSuppressed
  <2>1. /\ out' = out /\ \A s \in Subscribers : s # "bargein" => queue'[s] = queue[s]
        /\ UNCHANGED <<fsmVars, managerVars, micVars>>
    BY <1>9, BargeInTakes
  <2>2. UNCHANGED <<active, llmFinished, state, step, pending, talking, atStt>>
    BY <2>1 DEF managerVars, fsmVars, perTurn, micVars
  <2>3. queue'["fsm"] = <<>> /\ queue'["manager"] = <<>> /\ queue'["bridge"] = <<>>
    BY <1>0, <1>1, <2>1 DEF Subscribers
  <2>4. Still' /\ Fresh'
    BY <1>0, <1>1, <1>2, <2>1, <2>2, <2>3, StillKept, FreshUnmoved
  <2> QED
    BY <1>0, <1>2, <2>1, <2>2, <2>3, <2>4 DEF Hearing, StreamOver
<1>10. CASE Unmoved
  <2>1. UNCHANGED <<queue, out, active, llmFinished, state, step, pending, talking, atStt>>
    BY <1>10 DEF Unmoved, fsmVars, perTurn, micVars
  <2>2. Still' /\ Fresh'
    BY <1>0, <1>2, <1>10, <2>1, StillUnmoved, FreshUnmoved
  <2> QED
    BY <1>0, <1>2, <2>1, <2>2 DEF Hearing, StreamOver
<1> QED
  BY <1>0, <1>3, <1>4, <1>5, <1>6, <1>7, <1>8, <1>9, <1>10, OverSteps

(* The user has ended: the FSM is told, and the utterance is transcribed. *)
LEMMA EndingStep ==
    ASSUME NEW n \in Nat, BusShape(n), BridgeShape(n), FsmTypeOK, SpeaksIn \subseteq {"Listening"},
           Prompt, Alone, ~Summarizing, Ending, [PipelineNext]_pipelineVars, ~LineTyped
    PROVE  Ending' \/ Transcript'
<1>0. /\ ~talking /\ queue["bargein"] = <<>> /\ out["stt"] = <<>> /\ Still /\ StreamOver /\ ~pending
      /\ queue["manager"] = <<>> /\ Fresh /\ step = "idle"
  BY DEF Ending, StreamOver
<1>a. \/ /\ atStt = 1 /\ state = "UserSpeaking"
         /\ \/ out["audio"] = <<Push("fsm", SpeechEnded)>> /\ queue["fsm"] = <<>>
            \/ out["audio"] = <<>> /\ queue["fsm"] = <<SpeechEnded>>
      \/ /\ atStt \in {0, 1} /\ state = "Transcribing"
         /\ out["audio"] = <<>> /\ queue["fsm"] = <<>>
  BY DEF Ending
<1>1. /\ queue["bridge"] = <<>> /\ out["playback"] = <<>>
      /\ out["llm"] = <<>> /\ out["fsm"] = <<>> /\ out["manager"] = <<>>
  BY <1>0, StillIs
<1>2. /\ Kept /\ stream'.phase \in {"idle", "return"} /\ ~clearing' /\ UNCHANGED tokens
  BY <1>0, OverSteps
<1>3. ~UserBegins /\ ~UserEnds
  BY <1>0, <1>a DEF UserBegins, UserEnds
<1>4. CASE Transcribed
  <2>1. /\ queue["fsm"] = <<>> /\ out["audio"] = <<>>
        /\ queue' = queue /\ UNCHANGED <<fsmVars, managerVars>>
        /\ \A t \in Publishers : t # "stt" => out'[t] = <<>>
        /\ \/ out'["stt"] = <<Push("fsm", FinalTranscript), Push("manager", FinalTranscript)>>
           \/ out'["stt"] = <<>>
        /\ atStt > 0 /\ atStt' = atStt - 1 /\ UNCHANGED talking
    BY <1>4, OnQuietBus DEF Subscribers, Publishers
  <2>2. state = "Transcribing" /\ atStt' = 0
    BY <1>a, <2>1, Short
  <2>3. /\ out'["audio"] = <<>> /\ out'["llm"] = <<>> /\ out'["fsm"] = <<>> /\ out'["manager"] = <<>>
        /\ out'["playback"] = <<>>
    BY <2>1 DEF Publishers
  <2>4. UNCHANGED <<active, llmFinished, state, step, pending>>
    BY <2>1 DEF fsmVars, perTurn, managerVars
  <2>5. Still' /\ Fresh'
    BY <1>0, <1>1, <1>2, <2>1, <2>3, <2>4, StillKept, FreshUnmoved
  <2> QED
    BY <1>0, <1>2, <2>1, <2>2, <2>3, <2>4, <2>5 DEF Ending, Transcript, StreamOver
<1>5. CASE Deliver("audio")
  <2>0. "audio" \in Publishers
    BY DEF Publishers
  <2>1. PICK d : PushMade("audio", d)
    BY <1>5, <2>0, PushIsMade
  <2>2. /\ out["audio"] # <<>> /\ d = Head(out["audio"])
        /\ out'["audio"] = Tail(out["audio"]) /\ \A u \in Publishers : u # "audio" => out'[u] = out[u]
        /\ queue'[d.to] = Append(queue[d.to], d.event)
        /\ \A s \in Subscribers : s # d.to => queue'[s] = queue[s]
    BY <2>1 DEF PushMade
  <2>3. /\ UNCHANGED <<active, llmFinished, state, step, pending, talking, atStt>>
    BY <2>1 DEF PushMade, managerVars, fsmVars, perTurn, micVars
  <2>4. /\ out'["stt"] = <<>> /\ out'["llm"] = <<>> /\ out'["fsm"] = <<>> /\ out'["manager"] = <<>>
        /\ out'["playback"] = <<>>
    BY <1>0, <1>1, <2>2 DEF Publishers
  <2>5. /\ d = Push("fsm", SpeechEnded) /\ out'["audio"] = <<>> /\ queue["fsm"] = <<>>
        /\ state = "UserSpeaking" /\ atStt = 1
    BY <1>a, <2>2, Short
  <2>6. d.to = "fsm" /\ d.event = SpeechEnded
    BY <2>5 DEF Push
  <2>7. /\ queue'["fsm"] = <<SpeechEnded>> /\ queue'["manager"] = <<>> /\ queue'["bridge"] = <<>>
        /\ queue'["bargein"] = <<>>
    BY <1>0, <1>1, <2>2, <2>5, <2>6, Short DEF Subscribers
  <2>8. Still' /\ Fresh'
    BY <1>0, <1>2, <2>3, <2>4, <2>7, StillKept, FreshUnmoved
  <2> QED
    BY <1>0, <1>2, <2>3, <2>4, <2>5, <2>7, <2>8 DEF Ending, StreamOver
<1>6. ~Deliver("stt") /\ ~ManagerHandles /\ ~BargeInFires /\ ~BargeInSuppressed
  BY <1>0 DEF Deliver, Free, ManagerHandles, Receives, BargeInFires, BargeInSuppressed
<1>7. ~FsmGoesOn
  BY <1>0, <1>a DEF FsmGoesOn, Start, InterruptOutcome, HandlerContinues, SpeechStartedReturns, Settle
<1>8. CASE FsmHandles
  <2>1. PICK e : e = Head(queue["fsm"])
    OBVIOUS
  <2>2. /\ queue["fsm"] # <<>> /\ Dispatch(e) /\ queue'["fsm"] = Tail(queue["fsm"])
        /\ \A s \in Subscribers : s # "fsm" => queue'[s] = queue[s]
        /\ \A t \in Publishers : t # "fsm" => out'[t] = out[t]
        /\ out'["fsm"] = IF step' = "interrupt"
                         THEN <<Push("manager", Event("CancelGeneration", active, 0))>> ELSE <<>>
        /\ UNCHANGED <<managerVars, micVars>>
    BY <1>8, <2>1, FsmTakes
  <2>3. /\ queue["fsm"] = <<SpeechEnded>> /\ out["audio"] = <<>> /\ state = "UserSpeaking" /\ atStt = 1
    BY <1>a, <2>2
  <2>4. e.type = "SpeechEnded" /\ queue'["fsm"] = <<>>
    BY <2>1, <2>2, <2>3, Short DEF SpeechEnded, Event
  <2>5. HandleSpeechEnded
    BY <2>2, <2>4 DEF Dispatch
  <2>6. /\ state' = "Transcribing" /\ step' = "idle" /\ UNCHANGED <<active, llmFinished>>
    BY <1>0, <2>3, <2>5 DEF HandleSpeechEnded, perTurn
  <2>7. /\ queue'["manager"] = <<>> /\ queue'["bridge"] = <<>> /\ queue'["bargein"] = <<>>
        /\ out'["stt"] = <<>> /\ out'["llm"] = <<>> /\ out'["fsm"] = <<>> /\ out'["manager"] = <<>>
        /\ out'["playback"] = <<>> /\ out'["audio"] = <<>>
    BY <1>0, <1>1, <2>2, <2>3, <2>6 DEF Subscribers, Publishers
  <2>8. Still' /\ Fresh'
    BY <1>0, <1>2, <2>6, <2>7, StillKept, FreshUnmoved
  <2>9. UNCHANGED <<pending, talking, atStt>>
    BY <2>2 DEF managerVars, micVars
  <2> QED
    BY <1>0, <1>2, <2>3, <2>4, <2>6, <2>7, <2>8, <2>9 DEF Ending, StreamOver
<1>10. CASE Unmoved
  <2>1. UNCHANGED <<queue, out, active, llmFinished, state, step, pending, talking, atStt>>
    BY <1>10 DEF Unmoved, fsmVars, perTurn, micVars
  <2>2. Still' /\ Fresh'
    BY <1>0, <1>2, <1>10, <2>1, StillUnmoved, FreshUnmoved
  <2> QED
    BY <1>0, <1>a, <1>2, <2>1, <2>2 DEF Ending, StreamOver
<1> QED
  BY <1>0, <1>3, <1>4, <1>5, <1>6, <1>7, <1>8, <1>10, OverSteps

(* The FSM takes the transcript. *)
LEMMA TranscriptTaken ==
    ASSUME NEW n \in Nat, BusShape(n), FsmHandles, state = "Transcribing", step = "idle",
           queue["fsm"] # <<>>, Head(queue["fsm"]) = FinalTranscript
    PROVE  /\ state' = "Thinking" /\ step' = "idle" /\ out'["fsm"] = <<>>
           /\ UNCHANGED <<active, llmFinished, ended, nextTurn>>
<1>1. PICK e : e = Head(queue["fsm"])
  OBVIOUS
<1>2. /\ Dispatch(e)
      /\ out'["fsm"] = IF step' = "interrupt"
                         THEN <<Push("manager", Event("CancelGeneration", active, 0))>> ELSE <<>>
  BY <1>1, FsmTakes
<1>3. e.type = "FinalTranscript"
  BY <1>1 DEF FinalTranscript, Event
<1>4. HandleFinalTranscript
  BY <1>2, <1>3 DEF Dispatch
<1>5. /\ state' = "Thinking" /\ step' = "idle" /\ UNCHANGED <<active, llmFinished, ended, nextTurn>>
  BY <1>4 DEF HandleFinalTranscript
<1> QED
  BY <1>2, <1>5

LEMMA KnowsKept ==
    ASSUME Knows, UNCHANGED state, queue'["fsm"] = queue["fsm"]
    PROVE  Knows'
  BY DEF Knows

(* While the FSM has the transcript to take or has taken it, it can do nothing else. *)
LEMMA KnowsStep ==
    ASSUME NEW n \in Nat, BusShape(n), FsmHandles, Knows, step = "idle"
    PROVE  /\ Knows' /\ step' = "idle" /\ out'["fsm"] = <<>>
           /\ UNCHANGED <<active, llmFinished, ended, nextTurn>>
<1>1. queue["fsm"] # <<>> /\ queue'["fsm"] = Tail(queue["fsm"])
  BY FsmTakes
<1>2. state = "Transcribing" /\ queue["fsm"] = <<FinalTranscript>>
  BY <1>1 DEF Knows
<1>3. queue'["fsm"] = <<>> /\ Head(queue["fsm"]) = FinalTranscript
  BY <1>1, <1>2, Short
<1> QED
  BY <1>1, <1>2, <1>3, TranscriptTaken DEF Knows

LEMMA TranscriptStep ==
    ASSUME NEW n \in Nat, BusShape(n), BridgeShape(n), FsmTypeOK, SpeaksIn \subseteq {"Listening"},
           Prompt, Alone, ~Summarizing, Transcript, [PipelineNext]_pipelineVars, ~LineTyped
    PROVE  Transcript' \/ Accepted' \/ Refused'
<1>0. /\ ~talking /\ atStt = 0 /\ out["audio"] = <<>> /\ queue["bargein"] = <<>>
      /\ Still /\ StreamOver /\ ~pending /\ Fresh /\ step = "idle"
  BY DEF Transcript, StreamOver
<1>a. \/ /\ out["stt"] = <<Push("fsm", FinalTranscript), Push("manager", FinalTranscript)>>
         /\ queue["manager"] = <<>> /\ state = "Transcribing" /\ queue["fsm"] = <<>>
      \/ out["stt"] = <<Push("manager", FinalTranscript)>> /\ queue["manager"] = <<>> /\ Knows
      \/ out["stt"] = <<>> /\ queue["manager"] = <<FinalTranscript>> /\ Knows
  BY DEF Transcript
<1>b. state \in {"Transcribing", "Thinking"}
  BY <1>a DEF Knows
<1>1. /\ queue["bridge"] = <<>> /\ out["playback"] = <<>>
      /\ out["llm"] = <<>> /\ out["fsm"] = <<>> /\ out["manager"] = <<>>
  BY <1>0, StillIs
<1>2. /\ Kept /\ stream'.phase \in {"idle", "return"} /\ ~clearing' /\ UNCHANGED tokens
  BY <1>0, OverSteps
<1>3. ~UserBegins /\ ~UserEnds /\ ~Transcribed
  BY <1>0, <1>b DEF UserBegins, UserEnds, Transcribed
<1>4. CASE Deliver("stt")
  <2>0. "stt" \in Publishers
    BY DEF Publishers
  <2>1. PICK d : PushMade("stt", d)
    BY <1>4, <2>0, PushIsMade
  <2>2. /\ out["stt"] # <<>> /\ d = Head(out["stt"])
        /\ out'["stt"] = Tail(out["stt"]) /\ \A u \in Publishers : u # "stt" => out'[u] = out[u]
        /\ queue'[d.to] = Append(queue[d.to], d.event)
        /\ \A s \in Subscribers : s # d.to => queue'[s] = queue[s]
    BY <2>1 DEF PushMade
  <2>3. /\ UNCHANGED <<active, llmFinished, state, step, pending, talking, atStt>>
    BY <2>1 DEF PushMade, managerVars, fsmVars, perTurn, micVars
  <2>4. /\ out'["audio"] = <<>> /\ out'["llm"] = <<>> /\ out'["fsm"] = <<>> /\ out'["manager"] = <<>>
        /\ out'["playback"] = <<>>
    BY <1>0, <1>1, <2>2 DEF Publishers
  <2>5. CASE out["stt"] = <<Push("fsm", FinalTranscript), Push("manager", FinalTranscript)>>
    <3>1. /\ d = Push("fsm", FinalTranscript) /\ out'["stt"] = <<Push("manager", FinalTranscript)>>
          /\ queue["fsm"] = <<>> /\ queue["manager"] = <<>> /\ state = "Transcribing"
      BY <1>a, <2>2, <2>5, Short
    <3>2. d.to = "fsm" /\ d.event = FinalTranscript
      BY <3>1 DEF Push
    <3>3. /\ queue'["fsm"] = <<FinalTranscript>> /\ queue'["manager"] = <<>> /\ queue'["bridge"] = <<>>
          /\ queue'["bargein"] = <<>>
      BY <1>0, <1>1, <2>2, <3>1, <3>2, Short DEF Subscribers
    <3>4. Still' /\ Fresh' /\ Knows'
      BY <1>0, <1>2, <2>3, <2>4, <3>1, <3>3, StillKept, FreshUnmoved DEF Knows
    <3> QED
      BY <1>0, <1>2, <2>3, <2>4, <3>1, <3>3, <3>4 DEF Transcript, StreamOver
  <2>6. CASE out["stt"] = <<Push("manager", FinalTranscript)>>
    <3>1. /\ d = Push("manager", FinalTranscript) /\ out'["stt"] = <<>>
          /\ queue["manager"] = <<>> /\ Knows
      BY <1>a, <2>2, <2>6, Short
    <3>2. d.to = "manager" /\ d.event = FinalTranscript
      BY <3>1 DEF Push
    <3>3. /\ queue'["manager"] = <<FinalTranscript>> /\ queue'["bridge"] = <<>>
          /\ queue'["bargein"] = <<>> /\ queue'["fsm"] = queue["fsm"]
      BY <1>0, <1>1, <2>2, <3>1, <3>2, Short DEF Subscribers
    <3>4. Still' /\ Fresh' /\ Knows'
      BY <1>0, <1>2, <2>3, <2>4, <3>1, <3>3, StillKept, FreshUnmoved, KnowsKept
    <3> QED
      BY <1>0, <1>2, <2>3, <2>4, <3>1, <3>3, <3>4 DEF Transcript, StreamOver
  <2> QED
    BY <1>a, <2>2, <2>5, <2>6
<1>5. ~Deliver("audio") /\ ~BargeInFires /\ ~BargeInSuppressed
  BY <1>0 DEF Deliver, Free, Receives, BargeInFires, BargeInSuppressed
<1>6. ~FsmGoesOn
  BY <1>0, <1>b DEF FsmGoesOn, Start, InterruptOutcome, HandlerContinues, SpeechStartedReturns, Settle
<1>7. CASE FsmHandles
  <2>2. /\ queue["fsm"] # <<>>
        /\ \A s \in Subscribers : s # "fsm" => queue'[s] = queue[s]
        /\ \A t \in Publishers : t # "fsm" => out'[t] = out[t]
        /\ UNCHANGED <<managerVars, micVars>>
    BY <1>7, FsmTakes
  <2>3. /\ Knows
        /\ \/ out["stt"] = <<Push("manager", FinalTranscript)>> /\ queue["manager"] = <<>>
           \/ out["stt"] = <<>> /\ queue["manager"] = <<FinalTranscript>>
    BY <1>a, <2>2
  <2>4. /\ Knows' /\ step' = "idle" /\ out'["fsm"] = <<>> /\ UNCHANGED <<active, llmFinished>>
    BY <1>0, <1>7, <2>3, KnowsStep
  <2>7. /\ queue'["manager"] = queue["manager"] /\ queue'["bridge"] = <<>> /\ queue'["bargein"] = <<>>
        /\ out'["stt"] = out["stt"] /\ out'["llm"] = <<>> /\ out'["manager"] = <<>>
        /\ out'["playback"] = <<>> /\ out'["audio"] = <<>>
    BY <1>0, <1>1, <2>2 DEF Subscribers, Publishers
  <2>8. Still' /\ Fresh'
    BY <1>0, <1>2, <2>4, <2>7, StillKept, FreshUnmoved
  <2>9. UNCHANGED <<pending, talking, atStt>>
    BY <2>2 DEF managerVars, micVars
  <2> QED
    BY <1>0, <1>2, <2>3, <2>4, <2>7, <2>8, <2>9 DEF Transcript, StreamOver
<1>8. CASE ManagerHandles
  <2>1. PICK e : e = Head(queue["manager"])
    OBVIOUS
  <2>2. /\ queue["manager"] # <<>> /\ queue'["manager"] = Tail(queue["manager"])
        /\ \A s \in Subscribers : s # "manager" => queue'[s] = queue[s]
        /\ \A t \in Publishers : t # "manager" => out'[t] = out[t]
        /\ stream' = stream
        /\ \/ e.type = "FinalTranscript" /\ pending' = TRUE /\ out'["manager"] = <<>>
           \/ /\ e.type = "FinalTranscript" /\ pending' = pending
              /\ out'["manager"] = Deliveries(Event("UserInterrupted", e.turn, 0))
           \/ /\ e.type \in {"UserInterrupted", "CancelGeneration"} /\ pending' = pending
              /\ out'["manager"] = <<>>
        /\ UNCHANGED <<fsmVars, micVars>>
    BY <1>8, <2>1, ManagerTakesEvent
  <2>3. queue["manager"] = <<FinalTranscript>> /\ out["stt"] = <<>> /\ Knows
    BY <1>a, <2>2
  <2>4. queue'["manager"] = <<>> /\ e = FinalTranscript
    BY <2>1, <2>2, <2>3, Short
  <2>5. e.type = "FinalTranscript" /\ Event("UserInterrupted", e.turn, 0) = Refusal
    BY <2>4 DEF FinalTranscript, Refusal, Event
  <2>6. /\ queue'["bridge"] = <<>> /\ queue'["bargein"] = <<>> /\ queue'["fsm"] = queue["fsm"]
        /\ out'["stt"] = <<>> /\ out'["llm"] = <<>> /\ out'["fsm"] = <<>>
        /\ out'["playback"] = <<>> /\ out'["audio"] = <<>>
    BY <1>0, <1>1, <2>2, <2>3 DEF Subscribers, Publishers
  <2>7. UNCHANGED <<active, llmFinished, state, step, talking, atStt>>
    BY <2>2 DEF fsmVars, perTurn, micVars
  <2>8. Knows' /\ NothingSpoken' /\ Silence'
    BY <1>0, <1>2, <2>3, <2>6, <2>7, KnowsKept, SpokenKept DEF Still, Silence
  <2>9. CASE pending' = TRUE /\ out'["manager"] = <<>>
    <3>1. Still' /\ Fresh'
      BY <1>0, <1>2, <2>6, <2>7, <2>9, StillKept, FreshUnmoved
    <3> QED
      BY <1>0, <1>2, <2>4, <2>7, <2>8, <2>9, <3>1 DEF Accepted
  <2>10. CASE pending' = pending /\ out'["manager"] = Deliveries(Refusal)
    <3>1. out'["manager"] = <<Push("fsm", Refusal), Push("bridge", Refusal), Push("manager", Refusal)>>
      BY <2>10, WhoIsTold
    <3>2. Unwinding'
      <4>1. Range(queue'["bridge"]) = {} /\ Range(queue'["manager"]) = {}
        BY <2>4, <2>6 DEF Range
      <4> QED
        BY <4>1 DEF Unwinding, HasOnly
    <3> QED
      BY <1>0, <1>2, <2>6, <2>7, <2>8, <2>10, <3>1, <3>2 DEF Refused, StreamOver
  <2> QED
    BY <2>2, <2>5, <2>9, <2>10
<1>10. CASE Unmoved
  <2>1. UNCHANGED <<queue, out, active, llmFinished, state, step, pending, talking, atStt>>
    BY <1>10 DEF Unmoved, fsmVars, perTurn, micVars
  <2>2. Still' /\ Fresh'
    BY <1>0, <1>2, <1>10, <2>1, StillUnmoved, FreshUnmoved
  <2> QED
    BY <1>0, <1>a, <1>2, <2>1, <2>2 DEF Transcript, StreamOver, Knows
<1> QED
  BY <1>0, <1>3, <1>4, <1>5, <1>6, <1>7, <1>8, <1>10, OverSteps

LEMMA NothingThere ==
    /\ Range(<<>>) = {} /\ AudioOf(<<>>) = {} /\ WorkOf(Resting) = {} /\ Marks({}) = {}
    /\ SaidTo(<<>>) = {} /\ DueTo(<<>>) = {} /\ Range(Resting.job) = {}
    /\ \A types : HasOnly(<<>>, types)
<1>1. Range(<<>>) = {}
  BY DEF Range
<1> QED
  BY <1>1 DEF AudioOf, WorkOf, Marks, SaidTo, DueTo, Resting, HasOnly

(* The Manager begins the reply of the active turn. *)
LEMMA StreamBegins ==
    ASSUME FsmTypeOK, Accepted, Kept, ManagerAdopts
    PROVE  Streaming' /\ stream'.turn = active /\ nextTurn' = nextTurn
<1>0. /\ Silence /\ Still /\ Fresh /\ step = "idle" /\ queue["manager"] = <<>> /\ Knows
      /\ active # NoTurn /\ said[active] = 0 /\ Told(active) = {} /\ active \notin DOMAIN tokens
      /\ ~llmFinished
  BY DEF Accepted, Fresh
<1>1. /\ queue["bridge"] = <<>> /\ out["playback"] = <<>> /\ ~clearing
      /\ out["llm"] = <<>> /\ out["fsm"] = <<>> /\ out["manager"] = <<>> /\ NothingSpoken
  BY <1>0, StillIs DEF Still
<1>2. /\ AdoptTurn(active) /\ UNCHANGED fsmVars /\ stream.phase = "adopt" /\ ~pending
      /\ UNCHANGED <<bridgeVars, busVars, micVars, historyVars>>
  BY <1>0 DEF ManagerAdopts, AdoptTurn, Accepted
<1>3. /\ stream' = [phase |-> "activate", turn |-> active, seq |-> 0] /\ ~pending'
      /\ UNCHANGED <<queue, out, talking, atStt, tokens, dead, clearing>>
      /\ UNCHANGED <<active, llmFinished, state, step, nextTurn>>
  BY <1>2 DEF AdoptTurn, busVars, micVars, bridgeVars, workerVars, fsmVars, perTurn
<1>4. /\ jobs' = <<>> /\ synth' = Resting /\ chunks' = <<>> /\ current' = <<>> /\ postbox' = <<>>
      /\ UNCHANGED <<heard, unsaid, said>>
  BY <1>1 DEF Kept, NothingSpoken
<1>5. /\ queue'["bridge"] = <<>> /\ out'["playback"] = <<>> /\ queue'["manager"] = <<>>
      /\ out'["llm"] = <<>> /\ out'["fsm"] = <<>> /\ out'["manager"] = <<>>
      /\ Silence' /\ Knows' /\ NothingSpoken'
  BY <1>0, <1>1, <1>3, <1>4 DEF Silence, Knows, NothingSpoken
<1>6. Alive' /\ Underway' = {} /\ Marked'
  BY <1>0, <1>3, <1>4, <1>5, NothingThere DEF Alive, Underway, Marked
<1>7. Accounted'
  <2>1. Told(active)' = {}
    BY <1>0, <1>3, <1>4 DEF Told
  <2>2. SentencesOf(Range(heard) \cup unsaid \cup Underway, active)' = {}
    BY <1>6, <2>1 DEF Told
  <2>3. said'[active'] = 0
    BY <1>0, <1>3, <1>4
  <2> QED
    BY <2>2, <2>3 DEF Accounted
<1>8. queue'["fsm"] = <<>> \/ queue'["fsm"] = <<FinalTranscript>>
  BY <1>5 DEF Knows
<1>9. /\ \A e \in Range(queue'["fsm"]) : e = FinalTranscript
      /\ Ordered(queue'["fsm"], FinishedLast)
  BY <1>8 DEF Range, Ordered
<1>10. /\ FinalTranscript.type = "FinalTranscript" /\ ~llmFinished'
  BY <1>0, <1>3 DEF FinalTranscript, Event
<1>11. OfActive'
  <2>1. /\ \A x \in Range(jobs') \cup Range(synth'.job) \cup Range(chunks') \cup Range(current')
                \cup Range(postbox') : x.turn = active'
        /\ \A e \in Range(queue'["bridge"]) : e.turn = active'
        /\ \A d \in Range(out'["playback"]) \cup Range(out'["llm"]) : d.event.turn = active'
    BY <1>4, <1>5, NothingThere
  <2> QED
    BY <1>9, <1>10, <2>1 DEF OfActive
<1>12. Informed'
  <2>1. Expects(state', queue'["fsm"])
    BY <1>5, NothingThere, Short DEF Knows, Expects
  <2> QED
    BY <1>9, <1>10, <2>1 DEF Informed
<1>13. Replying' /\ Carrying'
  <2>1. stream'.phase = "activate" /\ stream'.turn = active' /\ stream'.seq = said'[active']
    BY <1>0, <1>3, <1>4
  <2> QED
    BY <1>5, <2>1, NothingThere DEF Replying, Carrying
<1>14. Attending'
  BY <1>0, <1>1, <1>3, <1>5 DEF Attending
<1>15. Streaming'
  BY <1>6, <1>7, <1>11, <1>12, <1>13, <1>14 DEF Streaming
<1> QED
  BY <1>3, <1>15

(* The Manager has accepted the transcript. *)
LEMMA AcceptedStep ==
    ASSUME NEW n \in Nat, BusShape(n), BridgeShape(n), FsmTypeOK, SpeaksIn \subseteq {"Listening"},
           Prompt, Alone, ~Summarizing, Accepted, [PipelineNext]_pipelineVars, ~LineTyped
    PROVE  Accepted' \/ Streaming'
<1>0. /\ Silence /\ Still /\ Fresh /\ step = "idle" /\ queue["manager"] = <<>> /\ Knows
      /\ stream.phase \in {"idle", "return", "adopt"}
      /\ ~talking /\ atStt = 0 /\ out["audio"] = <<>> /\ out["stt"] = <<>> /\ queue["bargein"] = <<>>
      /\ state \in {"Transcribing", "Thinking"}
  BY DEF Accepted, Silence, Knows
<1>1. /\ queue["bridge"] = <<>> /\ out["playback"] = <<>>
      /\ out["llm"] = <<>> /\ out["fsm"] = <<>> /\ out["manager"] = <<>>
  BY <1>0, StillIs
<1>2. /\ Kept /\ ~clearing' /\ UNCHANGED tokens
      /\ ManagerTakes \/ ManagerAdopts \/ StreamWaits
  BY <1>0, StillSteps
<1>3. ~UserBegins /\ ~UserEnds /\ ~Transcribed
  BY <1>0 DEF UserBegins, UserEnds, Transcribed
<1>4. /\ ~Deliver("audio") /\ ~Deliver("stt") /\ ~BargeInFires /\ ~BargeInSuppressed
      /\ ~ManagerHandles
  BY <1>0 DEF Deliver, Free, Receives, BargeInFires, BargeInSuppressed, ManagerHandles
<1>5. ~FsmGoesOn
  BY <1>0 DEF FsmGoesOn, Start, InterruptOutcome, HandlerContinues, SpeechStartedReturns, Settle
<1>6. CASE ManagerTakes
  <2>1. /\ stream.phase = "idle" /\ stream' = [stream EXCEPT !.phase = "adopt"] /\ pending' = FALSE
        /\ UNCHANGED <<fsmVars, busVars, micVars>>
    BY <1>6 DEF ManagerTakes, TakeTranscript
  <2>2. UNCHANGED <<queue, out, active, llmFinished, state, step, talking, atStt>>
    BY <2>1 DEF fsmVars, perTurn, micVars, busVars
  <2>3. Still' /\ Fresh' /\ Knows' /\ Silence'
    BY <1>0, <1>1, <1>2, <2>2, StillKept, FreshUnmoved, KnowsKept DEF Silence
  <2>4. stream'.phase = "adopt"
    BY <2>1
  <2> QED
    BY <1>0, <2>1, <2>2, <2>3, <2>4 DEF Accepted
<1>7. CASE ManagerAdopts
  BY <1>2, <1>7, StreamBegins
<1>8. CASE FsmHandles
  <2>2. /\ queue["fsm"] # <<>>
        /\ \A s \in Subscribers : s # "fsm" => queue'[s] = queue[s]
        /\ \A t \in Publishers : t # "fsm" => out'[t] = out[t]
        /\ UNCHANGED <<managerVars, micVars>>
    BY <1>8, FsmTakes
  <2>4. /\ Knows' /\ step' = "idle" /\ out'["fsm"] = <<>> /\ UNCHANGED <<active, llmFinished>>
    BY <1>0, <1>8, KnowsStep
  <2>7. /\ queue'["manager"] = <<>> /\ queue'["bridge"] = <<>> /\ queue'["bargein"] = <<>>
        /\ out'["stt"] = <<>> /\ out'["llm"] = <<>> /\ out'["manager"] = <<>>
        /\ out'["playback"] = <<>> /\ out'["audio"] = <<>>
    BY <1>0, <1>1, <2>2 DEF Subscribers, Publishers
  <2>9. UNCHANGED <<pending, stream, talking, atStt>>
    BY <2>2 DEF managerVars, micVars
  <2>8. Still' /\ Fresh' /\ Silence'
    BY <1>0, <1>2, <2>4, <2>7, <2>9, StillKept, FreshUnmoved DEF Silence
  <2> QED
    BY <2>4, <2>7, <2>8, <2>9 DEF Accepted
<1>9. CASE Unmoved /\ StreamWaits
  <2>1. UNCHANGED <<queue, out, active, llmFinished, state, step, pending, talking, atStt>>
    BY <1>9 DEF Unmoved, fsmVars, perTurn, micVars
  <2>2. Still' /\ Fresh' /\ Knows' /\ Silence'
    BY <1>0, <1>2, <1>9, <2>1, StillUnmoved, FreshUnmoved, KnowsKept DEF Silence
  <2> QED
    BY <1>0, <1>9, <2>1, <2>2 DEF Accepted, StreamWaits
<1> QED
  BY <1>0, <1>2, <1>3, <1>4, <1>5, <1>6, <1>7, <1>8, <1>9, StillSteps

(* A queue that holds only certain events. *)
LEMMA HasOnlyMore ==
    ASSUME NEW T, NEW q \in Seq(T), NEW types, HasOnly(q, types), NEW e \in T, e.type \in types
    PROVE  HasOnly(Append(q, e), types)
  BY AppendElems DEF HasOnly

LEMMA HasOnlyLess ==
    ASSUME NEW T, NEW q \in Seq(T), q # <<>>, NEW types, HasOnly(q, types)
    PROVE  HasOnly(Tail(q), types) /\ Head(q).type \in types
  BY TailElems DEF HasOnly

\* The bridge, the Manager and the stream unwind: what Rest and Refused have in common.
Unwound == Silence /\ NothingSpoken /\ StreamOver /\ Unwinding

LEMMA UnwoundSteps ==
    ASSUME NEW n \in Nat, BusShape(n), BridgeShape(n), Unwound, Alone, ~Summarizing,
           [PipelineNext]_pipelineVars
    PROVE  /\ Kept /\ stream'.phase \in {"idle", "return"}
           /\ \/ UserBegins \/ UserEnds \/ Transcribed \/ LineTyped
              \/ Deliver("fsm") \/ Deliver("manager") \/ Deliver("llm")
              \/ FsmHandles \/ FsmGoesOn \/ ManagerHandles \/ BridgeHandles
              \/ UNCHANGED <<fsmVars, pending, busVars, micVars>>
<1>0. /\ NothingSpoken /\ out["audio"] = <<>> /\ out["stt"] = <<>> /\ queue["bargein"] = <<>>
      /\ ~pending /\ stream.phase \in {"idle", "return"} /\ out["playback"] = <<>>
      /\ HasOnly(queue["bridge"], {"LlmStarted", "LlmFinished", "UserInterrupted"})
  BY DEF Unwound, Silence, NothingSpoken, StreamOver, Unwinding
<1>1. Calm
  BY <1>0 DEF Calm
<1>2. ~ManagerTakes /\ ~ManagerAdopts
  BY <1>0 DEF ManagerTakes, TakeTranscript, ManagerAdopts, AdoptTurn
<1>3. Kept /\ StreamWaits
  BY <1>1, <1>2, CalmSteps
<1>4. stream'.phase \in {"idle", "return"}
  BY <1>0, <1>3 DEF StreamWaits
<1>5. ~BargeInFires /\ ~BargeInSuppressed
  BY <1>0 DEF Receives, BargeInFires, BargeInSuppressed
<1>6. ASSUME NEW t \in Publishers, Deliver(t)
      PROVE  Deliver("fsm") \/ Deliver("manager") \/ Deliver("llm")
  <2>1. out[t] # <<>>
    BY <1>6 DEF Deliver, Free
  <2>2. t \in {"fsm", "manager", "llm"}
    BY <1>0, <2>1 DEF Publishers, Alone
  <2> QED
    BY <1>6, <2>2
<1> QED
  BY <1>1, <1>2, <1>3, <1>4, <1>5, <1>6, CalmSteps DEF Aside, managerVars

(* The bridge and the Manager take what was left for them. *)
LEMMA UnwoundTakes ==
    ASSUME NEW n \in Nat, BusShape(n), BridgeShape(n), Unwound, Alone, ~Summarizing,
           [PipelineNext]_pipelineVars, ManagerHandles \/ BridgeHandles
    PROVE  /\ Unwound' /\ out' = out /\ queue'["fsm"] = queue["fsm"] /\ UNCHANGED fsmVars
<1>0. /\ Silence /\ NothingSpoken /\ StreamOver /\ Unwinding
  BY DEF Unwound
<1>1. Kept /\ stream'.phase \in {"idle", "return"}
  BY UnwoundSteps
<1>2. /\ queue["bridge"] \in Seq(Events(Turned(n))) /\ queue["manager"] \in Seq(Events(Turned(n)))
      /\ DOMAIN out = Publishers
  BY DEF BusShape, QueueShape, OutShape, Subscribers
<1>3. /\ out' = out /\ queue'["fsm"] = queue["fsm"] /\ UNCHANGED <<fsmVars, micVars, pending>>
      /\ queue'["bargein"] = queue["bargein"] /\ Unwinding'
  <2>1. CASE ManagerHandles
    <3>1. PICK e : e = Head(queue["manager"])
      OBVIOUS
    <3>2. /\ queue["manager"] # <<>> /\ queue'["manager"] = Tail(queue["manager"])
          /\ \A s \in Subscribers : s # "manager" => queue'[s] = queue[s]
          /\ e.type = "FinalTranscript" \/ pending' = pending
          /\ UNCHANGED <<fsmVars, micVars>>
      BY <2>1, <3>1, ManagerTakesEvent
    <3>3. HasOnly(Tail(queue["manager"]), {"UserInterrupted", "CancelGeneration"})
          /\ e.type \in {"UserInterrupted", "CancelGeneration"}
      BY <1>0, <1>2, <3>1, <3>2, HasOnlyLess DEF Unwinding
    <3>4. out' = out
      BY <2>1, <3>1, <3>3 DEF ManagerHandles, Next1
    <3> QED
      BY <1>0, <3>2, <3>3, <3>4 DEF Unwinding, Subscribers
  <2>2. CASE BridgeHandles
    <3>1. Calm
      BY <1>0 DEF Calm, Unwinding, StreamOver
    <3>2. /\ UNCHANGED <<fsmVars, managerVars, out, micVars>>
          /\ queue["bridge"] # <<>> /\ queue'["bridge"] = Tail(queue["bridge"])
          /\ \A s \in Subscribers : s # "bridge" => queue'[s] = queue[s]
      BY <2>2, <3>1, CalmBridge
    <3>3. HasOnly(Tail(queue["bridge"]), {"LlmStarted", "LlmFinished", "UserInterrupted"})
      BY <1>0, <1>2, <3>2, HasOnlyLess DEF Unwinding
    <3> QED
      BY <1>0, <3>2, <3>3 DEF Unwinding, Subscribers, managerVars
  <2> QED
    BY <2>1, <2>2
<1>4. NothingSpoken'
  BY <1>0, <1>1, <1>3, SpokenKept DEF NothingSpoken
<1> QED
  BY <1>0, <1>1, <1>3, <1>4 DEF Unwound, Silence, StreamOver, micVars

(* They are told of more of it. *)
LEMMA UnwoundTold ==
    ASSUME NEW n \in Nat, BusShape(n), BridgeShape(n), Unwound, Kept, stream'.phase \in {"idle", "return"},
           NEW t \in {"fsm", "manager", "llm"}, NEW d, PushMade(t, d),
           \/ d.to = "manager" /\ d.event.type \in {"UserInterrupted", "CancelGeneration"}
           \/ d.to = "bridge" /\ d.event.type \in {"LlmStarted", "LlmFinished", "UserInterrupted"}
           \/ d.to = "fsm",
           d.event \in Events(Turned(n))
    PROVE  Unwound' /\ UNCHANGED fsmVars /\ (d.to # "fsm" => queue'["fsm"] = queue["fsm"])
<1>0. /\ Silence /\ NothingSpoken /\ StreamOver /\ Unwinding
  BY DEF Unwound
<1>1. /\ \A u \in Publishers : u # t => out'[u] = out[u]
      /\ queue'[d.to] = Append(queue[d.to], d.event)
      /\ \A s \in Subscribers : s # d.to => queue'[s] = queue[s]
      /\ UNCHANGED <<fsmVars, managerVars, micVars>>
  BY DEF PushMade
<1>2. /\ queue["bridge"] \in Seq(Events(Turned(n))) /\ queue["manager"] \in Seq(Events(Turned(n)))
  BY DEF BusShape, QueueShape, Subscribers
<1>3. HasOnly(queue'["manager"], {"UserInterrupted", "CancelGeneration"})
  <2>1. CASE d.to = "manager"
    <3>1. PICK q, e, T, types : q = queue["manager"] /\ e = d.event /\ T = Events(Turned(n)) /\ types = {"UserInterrupted", "CancelGeneration"}
      OBVIOUS
    <3>2. q \in Seq(T) /\ e \in T /\ HasOnly(q, types) /\ e.type \in types /\ queue'["manager"] = Append(q, e)
      BY <1>0, <1>1, <1>2, <2>1, <3>1 DEF Unwinding
    <3> QED
      BY <3>1, <3>2, HasOnlyMore
  <2>2. CASE d.to # "manager"
    BY <1>0, <1>1, <2>2 DEF Unwinding, Subscribers
  <2> QED
    BY <2>1, <2>2
<1>4. HasOnly(queue'["bridge"], {"LlmStarted", "LlmFinished", "UserInterrupted"})
  <2>1. CASE d.to = "bridge"
    <3>1. PICK q, e, T, types : q = queue["bridge"] /\ e = d.event /\ T = Events(Turned(n)) /\ types = {"LlmStarted", "LlmFinished", "UserInterrupted"}
      OBVIOUS
    <3>2. q \in Seq(T) /\ e \in T /\ HasOnly(q, types) /\ e.type \in types /\ queue'["bridge"] = Append(q, e)
      BY <1>0, <1>1, <1>2, <2>1, <3>1 DEF Unwinding
    <3> QED
      BY <3>1, <3>2, HasOnlyMore
  <2>2. CASE d.to # "bridge"
    BY <1>0, <1>1, <2>2 DEF Unwinding, Subscribers
  <2> QED
    BY <2>1, <2>2
<1>5. /\ out'["audio"] = out["audio"] /\ out'["stt"] = out["stt"] /\ out'["playback"] = out["playback"]
      /\ queue'["bargein"] = queue["bargein"]
      /\ d.to # "fsm" => queue'["fsm"] = queue["fsm"]
  BY <1>1 DEF Publishers, Subscribers
<1>6. NothingSpoken'
  BY <1>0, <1>5, SpokenKept DEF NothingSpoken
<1> QED
  BY <1>0, <1>1, <1>3, <1>4, <1>5, <1>6 DEF Unwound, Unwinding, Silence, StreamOver, managerVars, micVars

LEMMA UnwoundUnmoved ==
    ASSUME Unwound, Kept, stream'.phase \in {"idle", "return"}, out'["playback"] = <<>>,
           UNCHANGED <<talking, atStt, pending>>,
           out'["audio"] = out["audio"], out'["stt"] = out["stt"],
           queue'["bargein"] = queue["bargein"], queue'["bridge"] = queue["bridge"],
           queue'["manager"] = queue["manager"]
    PROVE  Unwound'
  BY SpokenKept DEF Unwound, Silence, StreamOver, Unwinding

(* What is left of a refusal is pushed. *)
LEMMA RefusalPushed ==
    ASSUME NEW d, out["manager"] # <<>>, Refusing, d = Head(out["manager"]),
           out'["manager"] = Tail(out["manager"])
    PROVE  Refusing' /\ d.to \in {"bridge", "manager"} /\ d.event = Refusal
<1>1. CASE out["manager"] = <<Push("manager", Refusal)>>
  <2>1. out'["manager"] = <<>> /\ d = Push("manager", Refusal)
    BY <1>1, Short
  <2>2. Refusing'
    BY <2>1 DEF Refusing
  <2>3. d.to = "manager" /\ d.event = Refusal
    BY <2>1 DEF Push
  <2> QED
    BY <2>2, <2>3
<1>2. CASE out["manager"] = <<Push("bridge", Refusal), Push("manager", Refusal)>>
  <2>1. out'["manager"] = <<Push("manager", Refusal)>> /\ d = Push("bridge", Refusal)
    BY <1>2, Short
  <2>2. Refusing'
    BY <2>1 DEF Refusing
  <2>3. d.to = "bridge" /\ d.event = Refusal
    BY <2>1 DEF Push
  <2> QED
    BY <2>2, <2>3
<1> QED
  BY <1>1, <1>2 DEF Refusing

(* At rest: nothing happens before the user speaks. *)
LEMMA RestStep ==
    ASSUME NEW n \in Nat, n = nextTurn, BusShape(n), BridgeShape(n), FsmTypeOK, Counted,
           SpeaksIn \subseteq {"Listening"}, Prompt, Alone, ~Summarizing, Rest,
           [PipelineNext]_pipelineVars, ~LineTyped
    PROVE  /\ Rest' \/ (UserBegins /\ Opening')
           /\ UNCHANGED <<active, ended>> /\ (step = "idle" => step' = "idle")
<1>0. /\ Unwound /\ Silence /\ NothingSpoken /\ StreamOver /\ Over /\ Refusing
      /\ queue["fsm"] = <<>> /\ out["fsm"] = <<>>
      /\ out["llm"] = <<>> \/ Head(out["llm"]).event.type \in {"LlmStarted", "LlmFinished"}
      /\ (state \in {"Idle", "Listening"} /\ step = "idle") \/ step = "settle"
      /\ ~talking /\ atStt = 0 /\ out["playback"] = <<>> /\ ~pending
  BY DEF Rest, Unwound, Silence, NothingSpoken, StreamOver
<1>1. Kept /\ stream'.phase \in {"idle", "return"}
  BY <1>0, UnwoundSteps
<1>2. ~UserEnds /\ ~Transcribed /\ ~FsmHandles
  BY <1>0 DEF UserEnds, Transcribed, FsmHandles, Receives
<1>3. CASE UserBegins
  <2>1. /\ \A s \in Subscribers : queue[s] = <<>>
        /\ \A t \in Publishers : out[t] = <<>>
        /\ step = "idle" /\ ~clearing /\ queue' = queue
        /\ UNCHANGED <<fsmVars, managerVars, bridgeVars>>
        /\ \A t \in Publishers : t # "audio" => out'[t] = <<>>
        /\ out'["audio"] = <<Push("fsm", SpeechStarted), Push("bargein", SpeechStarted)>>
        /\ talking' /\ UNCHANGED atStt /\ utterances' = utterances + 1
    BY <1>3, OnQuietBus
  <2>2. /\ queue["bridge"] = <<>> /\ queue["manager"] = <<>>
        /\ out["llm"] = <<>> /\ out["manager"] = <<>>
        /\ out'["stt"] = <<>> /\ out'["llm"] = <<>> /\ out'["fsm"] = <<>> /\ out'["manager"] = <<>>
        /\ out'["playback"] = <<>>
    BY <2>1 DEF Subscribers, Publishers
  <2>3. UNCHANGED <<active, ended, state, step, pending, clearing, nextTurn>>
    BY <2>1 DEF fsmVars, managerVars, bridgeVars, workerVars
  <2>4. Still'
    BY <1>0, <1>1, <2>1, <2>2, <2>3, StillKept DEF Still
  <2>5. state = "Listening" /\ nextTurn <= utterances + 1
    BY <1>3 DEF UserBegins, Counted
  <2> QED
    BY <1>0, <1>1, <1>3, <2>1, <2>2, <2>3, <2>4, <2>5 DEF Opening, StreamOver
<1>4. CASE Deliver("manager")
  <2>0. "manager" \in Publishers
    BY DEF Publishers
  <2>1. PICK d : PushMade("manager", d) /\ d.event \in Events(Turned(n))
    BY <1>4, <2>0, PushIsMade
  <2>2. /\ out["manager"] # <<>> /\ d = Head(out["manager"])
        /\ out'["manager"] = Tail(out["manager"])
        /\ \A u \in Publishers : u # "manager" => out'[u] = out[u]
    BY <2>1 DEF PushMade
  <2>3. Refusing' /\ d.to \in {"bridge", "manager"} /\ d.event = Refusal
    BY <1>0, <2>2, RefusalPushed
  <2>4. d.event.type = "UserInterrupted"
    BY <2>3 DEF Refusal, Event
  <2>5. Unwound' /\ UNCHANGED fsmVars /\ queue'["fsm"] = queue["fsm"]
    BY <1>0, <1>1, <2>1, <2>3, <2>4, UnwoundTold
  <2>6. out'["llm"] = out["llm"] /\ out'["fsm"] = <<>>
    BY <1>0, <2>2 DEF Publishers
  <2>7. UNCHANGED <<active, ended, state, step>>
    BY <2>5 DEF fsmVars
  <2> QED
    BY <1>0, <1>1, <2>3, <2>5, <2>6, <2>7 DEF Rest, Unwound, Over
<1>5. CASE Deliver("llm")
  <2>0. "llm" \in Publishers
    BY DEF Publishers
  <2>1. PICK d : PushMade("llm", d) /\ d.event \in Events(Turned(n))
    BY <1>5, <2>0, PushIsMade
  <2>2. /\ out["llm"] # <<>> /\ d = Head(out["llm"])
        /\ out'["llm"] = Tail(out["llm"])
        /\ \A u \in Publishers : u # "llm" => out'[u] = out[u]
    BY <2>1 DEF PushMade
  <2>3. d.to = "bridge" /\ d.event.type \in {"LlmStarted", "LlmFinished"}
    BY <1>0, <2>2 DEF Over
  <2>4. out'["llm"] = <<>>
    <3>1. PICK e : out["llm"] = <<Push("bridge", e)>> \/ out["llm"] = <<Push("fsm", e), Push("bridge", e)>>
      BY <2>2 DEF BusShape, OutShape, LlmOut
    <3>2. out["llm"] # <<Push("fsm", e), Push("bridge", e)>>
      BY <2>2, <2>3, Short DEF Push
    <3> QED
      BY <2>2, <3>1, <3>2, Short
  <2>5. Unwound' /\ UNCHANGED fsmVars /\ queue'["fsm"] = queue["fsm"]
    BY <1>0, <1>1, <2>1, <2>3, UnwoundTold
  <2>6. out'["manager"] = out["manager"] /\ out'["fsm"] = <<>>
    BY <1>0, <2>2 DEF Publishers
  <2>7. UNCHANGED <<active, ended, state, step>>
    BY <2>5 DEF fsmVars
  <2> QED
    BY <1>0, <1>1, <2>4, <2>5, <2>6, <2>7 DEF Rest, Unwound, Over, Refusing
<1>6. ~Deliver("fsm")
  BY <1>0 DEF Deliver, Free
<1>7. CASE FsmGoesOn
  <2>1. Start \/ Settle
    BY <1>0, <1>7 DEF FsmGoesOn, InterruptOutcome, HandlerContinues, SpeechStartedReturns
  <2>2. /\ state' = "Listening" /\ (step' = "idle" \/ (step' = step /\ state = "Idle"))
        /\ UNCHANGED <<active, ended>>
    BY <2>1 DEF Start, Settle
  <2>3. step' = "idle"
    BY <1>0, <2>2 DEF FsmTypeOK
  <2>4. UNCHANGED <<queue, out, talking, atStt, pending>>
    BY <1>7 DEF FsmGoesOn, busVars, micVars, managerVars
  <2>5. Unwound'
    BY <1>0, <1>1, <2>4, UnwoundUnmoved
  <2> QED
    BY <1>0, <1>1, <2>2, <2>3, <2>4, <2>5 DEF Rest, Unwound, Over, Refusing
<1>8. CASE ManagerHandles \/ BridgeHandles
  <2>1. /\ Unwound' /\ out' = out /\ queue'["fsm"] = queue["fsm"] /\ UNCHANGED fsmVars
    BY <1>0, <1>8, UnwoundTakes
  <2>2. UNCHANGED <<active, ended, state, step>>
    BY <2>1 DEF fsmVars
  <2> QED
    BY <1>0, <1>1, <2>1, <2>2 DEF Rest, Unwound, Over, Refusing
<1>9. CASE UNCHANGED <<fsmVars, pending, busVars, micVars>>
  <2>1. UNCHANGED <<queue, out, talking, atStt, pending, active, ended, state, step>>
    BY <1>9 DEF fsmVars, busVars, micVars
  <2>2. Unwound'
    BY <1>0, <1>1, <2>1, UnwoundUnmoved
  <2> QED
    BY <1>0, <1>1, <2>1, <2>2 DEF Rest, Unwound, Over, Refusing
<1> QED
  BY <1>0, <1>2, <1>3, <1>4, <1>5, <1>6, <1>7, <1>8, <1>9, UnwoundSteps

(* The FSM takes the refusal in Thinking. *)
LEMMA RefusalTaken ==
    ASSUME NEW n \in Nat, BusShape(n), FsmHandles, state = "Thinking", step = "idle",
           queue["fsm"] # <<>>, Head(queue["fsm"]) = Refusal
    PROVE  /\ state' = "Thinking" /\ step' = "interrupt" /\ UNCHANGED <<active, ended, nextTurn>>
           /\ out'["fsm"] = <<Push("manager", Event("CancelGeneration", active, 0))>>
<1>1. PICK e : e = Head(queue["fsm"])
  OBVIOUS
<1>2. /\ Dispatch(e)
      /\ out'["fsm"] = IF step' = "interrupt"
                         THEN <<Push("manager", Event("CancelGeneration", active, 0))>> ELSE <<>>
  BY <1>1, FsmTakes
<1>3. e.type = "UserInterrupted"
  BY <1>1 DEF Refusal, Event
<1>4. HandleUserInterrupted
  BY <1>2, <1>3 DEF Dispatch
<1>5. /\ state' = "Thinking" /\ step' = "interrupt" /\ UNCHANGED <<active, ended, nextTurn>>
  BY <1>4 DEF HandleUserInterrupted, Interruptible
<1> QED
  BY <1>2, <1>5

\* Parts of Refused: the refusal is published, the FSM has it in its queue, it is interrupted.
Published ==
    /\ step = "idle" /\ out["fsm"] = <<>> /\ Knows
    /\ out["manager"] = <<Push("fsm", Refusal), Push("bridge", Refusal), Push("manager", Refusal)>>
Queued ==
    /\ Refusing /\ step = "idle" /\ out["fsm"] = <<>>
    /\ \/ state = "Transcribing" /\ queue["fsm"] = <<FinalTranscript, Refusal>>
       \/ state = "Thinking" /\ queue["fsm"] = <<Refusal>>
Interrupting ==
    /\ Refusing /\ step = "interrupt" /\ queue["fsm"] = <<>>
    /\ \/ out["fsm"] = <<>>
       \/ out["fsm"] = <<Push("manager", Event("CancelGeneration", active, 0))>>

LEMMA RefusedParts ==
    /\ Refused <=> Unwound /\ out["llm"] = <<>> /\ (Published \/ Queued \/ Interrupting)
    /\ Refused' <=> Unwound' /\ out'["llm"] = <<>> /\ (Published' \/ Queued' \/ Interrupting')
<1>1. Refused <=> Unwound /\ out["llm"] = <<>> /\ (Published \/ Queued \/ Interrupting)
  BY DEF Refused, Unwound, Published, Queued, Interrupting
<1>2. Refused' <=> Unwound' /\ out'["llm"] = <<>> /\ (Published' \/ Queued' \/ Interrupting')
  BY DEF Refused, Unwound, Published, Queued, Interrupting
<1> QED
  BY <1>1, <1>2

LEMMA PartsKept ==
    ASSUME queue'["fsm"] = queue["fsm"], out' = out, UNCHANGED <<state, step, active>>
    PROVE  (Published => Published') /\ (Queued => Queued') /\ (Interrupting => Interrupting')
  BY KnowsKept DEF Published, Queued, Interrupting, Refusing

(* The transcript was refused: the FSM is interrupted and the turn given up. *)
LEMMA RefusedStep ==
    ASSUME NEW n \in Nat, n = nextTurn, BusShape(n), BridgeShape(n), FsmTypeOK,
           SpeaksIn \subseteq {"Listening"}, Prompt, Alone, ~Summarizing, Refused,
           [PipelineNext]_pipelineVars, ~LineTyped
    PROVE  Refused' \/ Rest'
<1>0. /\ Unwound /\ ~talking /\ atStt = 0 /\ out["llm"] = <<>> /\ out["playback"] = <<>> /\ ~pending
      /\ Published \/ Queued \/ Interrupting
  BY RefusedParts DEF Unwound, Silence, NothingSpoken, StreamOver
<1>a. state \in {"Transcribing", "Thinking"} \/ step = "interrupt"
  BY <1>0 DEF Published, Queued, Interrupting, Knows
<1>b. state \in InTurn
  BY <1>a DEF InTurn, FsmTypeOK
<1>1. Kept /\ stream'.phase \in {"idle", "return"}
  BY <1>0, UnwoundSteps
<1>2. ~UserBegins /\ ~UserEnds /\ ~Transcribed /\ ~Deliver("llm")
  BY <1>0, <1>b DEF UserBegins, UserEnds, Transcribed, Deliver, Free, InTurn
<1>3. CASE Deliver("manager")
  <2>0. "manager" \in Publishers
    BY DEF Publishers
  <2>1. PICK d : PushMade("manager", d) /\ d.event \in Events(Turned(n))
    BY <1>3, <2>0, PushIsMade
  <2>2. /\ out["manager"] # <<>> /\ d = Head(out["manager"])
        /\ out'["manager"] = Tail(out["manager"])
        /\ \A u \in Publishers : u # "manager" => out'[u] = out[u]
        /\ queue'[d.to] = Append(queue[d.to], d.event)
        /\ UNCHANGED fsmVars
    BY <2>1 DEF PushMade
  <2>3. out'["llm"] = <<>> /\ out'["fsm"] = out["fsm"] /\ UNCHANGED <<active, state, step>>
    BY <1>0, <2>2 DEF Publishers, fsmVars
  <2>4. CASE Published
    <3>1. /\ d = Push("fsm", Refusal)
          /\ out'["manager"] = <<Push("bridge", Refusal), Push("manager", Refusal)>>
      BY <2>2, <2>4, Short DEF Published
    <3>2. d.to = "fsm" /\ d.event = Refusal
      BY <3>1 DEF Push
    <3>3. Unwound'
      BY <1>0, <1>1, <2>1, <3>2, UnwoundTold
    <3>4. queue'["fsm"] = Append(queue["fsm"], Refusal)
      BY <2>2, <3>2
    <3>5. Queued'
      <4>1. Refusing'
        BY <3>1 DEF Refusing
      <4>2. \/ state = "Transcribing" /\ queue'["fsm"] = <<FinalTranscript, Refusal>>
            \/ state = "Thinking" /\ queue'["fsm"] = <<Refusal>>
        BY <2>4, <3>4, Short DEF Published, Knows
      <4> QED
        BY <2>3, <2>4, <4>1, <4>2 DEF Queued, Published
    <3> QED
      BY <2>3, <3>3, <3>5, RefusedParts
  <2>5. CASE Queued \/ Interrupting
    <3>1. Refusing' /\ d.to \in {"bridge", "manager"} /\ d.event = Refusal
      BY <2>2, <2>5, RefusalPushed DEF Queued, Interrupting
    <3>2. d.event.type = "UserInterrupted"
      BY <3>1 DEF Refusal, Event
    <3>3. Unwound' /\ queue'["fsm"] = queue["fsm"]
      BY <1>0, <1>1, <2>1, <3>1, <3>2, UnwoundTold
    <3>4. Queued' \/ Interrupting'
      BY <2>3, <2>5, <3>1, <3>3 DEF Queued, Interrupting
    <3> QED
      BY <2>3, <3>3, <3>4, RefusedParts
  <2> QED
    BY <1>0, <2>4, <2>5
<1>4. CASE Deliver("fsm")
  <2>0. "fsm" \in Publishers
    BY DEF Publishers
  <2>1. PICK d : PushMade("fsm", d) /\ d.event \in Events(Turned(n))
    BY <1>4, <2>0, PushIsMade
  <2>2. /\ out["fsm"] # <<>> /\ d = Head(out["fsm"]) /\ out'["fsm"] = Tail(out["fsm"])
        /\ \A u \in Publishers : u # "fsm" => out'[u] = out[u]
        /\ UNCHANGED fsmVars
    BY <2>1 DEF PushMade
  <2>3. /\ out'["llm"] = <<>> /\ out'["manager"] = out["manager"] /\ UNCHANGED <<active, state, step>>
    BY <1>0, <2>2 DEF Publishers, fsmVars
  <2>4. Interrupting /\ out["fsm"] = <<Push("manager", Event("CancelGeneration", active, 0))>>
    BY <1>0, <2>2 DEF Published, Queued, Interrupting
  <2>5. d = Push("manager", Event("CancelGeneration", active, 0)) /\ out'["fsm"] = <<>>
    BY <2>2, <2>4, Short
  <2>6. d.to = "manager" /\ d.event.type = "CancelGeneration"
    BY <2>5 DEF Push, Event
  <2>7. Unwound' /\ queue'["fsm"] = queue["fsm"]
    BY <1>0, <1>1, <2>1, <2>6, UnwoundTold
  <2>8. Interrupting'
    BY <2>3, <2>4, <2>5, <2>7 DEF Interrupting, Refusing
  <2> QED
    BY <2>3, <2>7, <2>8, RefusedParts
<1>5. CASE FsmHandles
  <2>1. /\ queue["fsm"] # <<>> /\ queue'["fsm"] = Tail(queue["fsm"])
        /\ \A s \in Subscribers : s # "fsm" => queue'[s] = queue[s]
        /\ \A t \in Publishers : t # "fsm" => out'[t] = out[t]
        /\ UNCHANGED <<managerVars, micVars>>
    BY <1>5, FsmTakes
  <2>2. /\ out'["llm"] = <<>> /\ out'["manager"] = out["manager"] /\ out'["playback"] = <<>>
        /\ out'["audio"] = out["audio"] /\ out'["stt"] = out["stt"]
        /\ queue'["bargein"] = queue["bargein"] /\ queue'["bridge"] = queue["bridge"]
        /\ queue'["manager"] = queue["manager"]
    BY <1>0, <2>1 DEF Subscribers, Publishers
  <2>3. UNCHANGED <<talking, atStt, pending>>
    BY <2>1 DEF managerVars, micVars
  <2>4. Unwound'
    BY <1>0, <1>1, <2>2, <2>3, UnwoundUnmoved
  <2>5. CASE Published
    <3>1. Knows' /\ step' = "idle" /\ out'["fsm"] = <<>>
      BY <1>5, <2>5, KnowsStep DEF Published
    <3>2. Published'
      BY <2>2, <2>5, <3>1 DEF Published
    <3> QED
      BY <2>2, <2>4, <3>2, RefusedParts
  <2>6. CASE Queued /\ state = "Transcribing"
    <3>a. PICK x, y : x = FinalTranscript /\ y = Refusal
      OBVIOUS
    <3>b. queue["fsm"] = <<x, y>>
      BY <2>6, <3>a DEF Queued
    <3>1. Head(queue["fsm"]) = FinalTranscript /\ queue'["fsm"] = <<Refusal>>
      BY <2>1, <3>a, <3>b, Short
    <3>2. state' = "Thinking" /\ step' = "idle" /\ out'["fsm"] = <<>>
      BY <1>5, <2>1, <2>6, <3>1, TranscriptTaken DEF Queued
    <3>3. Refusing'
      BY <2>2, <2>6 DEF Queued, Refusing
    <3>4. Queued'
      BY <3>1, <3>2, <3>3 DEF Queued
    <3> QED
      BY <2>2, <2>4, <3>4, RefusedParts
  <2>7. CASE Queued /\ state = "Thinking"
    <3>1. Head(queue["fsm"]) = Refusal /\ queue'["fsm"] = <<>>
      BY <2>1, <2>7, Short DEF Queued
    <3>2. /\ state' = "Thinking" /\ step' = "interrupt" /\ UNCHANGED active
          /\ out'["fsm"] = <<Push("manager", Event("CancelGeneration", active, 0))>>
      BY <1>5, <2>1, <2>7, <3>1, RefusalTaken DEF Queued
    <3>3. Refusing'
      BY <2>2, <2>7 DEF Queued, Refusing
    <3>4. Interrupting'
      BY <3>1, <3>2, <3>3 DEF Interrupting
    <3> QED
      BY <2>2, <2>4, <3>4, RefusedParts
  <2> QED
    BY <1>0, <2>1, <2>5, <2>6, <2>7 DEF Queued, Interrupting
<1>6. CASE FsmGoesOn
  <2>a. state # "Idle" /\ step \in {"idle", "interrupt"}
    BY <1>0, <1>b DEF Published, Queued, Interrupting, Knows, InTurn, FsmTypeOK
  <2>b. ~Start /\ ~HandlerContinues
    BY <2>a DEF Start, HandlerContinues, SpeechStartedReturns, Settle
  <2>c. InterruptOutcome /\ out["fsm"] = <<>>
    BY <1>6, <2>b DEF FsmGoesOn, Free
  <2>1. step = "interrupt" /\ InterruptOutcome /\ out["fsm"] = <<>>
    BY <2>c DEF InterruptOutcome
  <2>2. step' = "settle"
    BY <2>1 DEF InterruptOutcome
  <2>3. UNCHANGED <<queue, out, talking, atStt, pending>>
    BY <1>6 DEF FsmGoesOn, busVars, micVars, managerVars
  <2>4. Unwound'
    BY <1>0, <1>1, <2>3, UnwoundUnmoved
  <2>5. Refusing /\ queue["fsm"] = <<>>
    BY <1>0, <2>1 DEF Published, Queued, Interrupting
  <2> QED
    BY <1>0, <1>1, <2>1, <2>2, <2>3, <2>4, <2>5 DEF Rest, Unwound, Over, Refusing
<1>7. CASE ManagerHandles \/ BridgeHandles
  <2>1. /\ Unwound' /\ out' = out /\ queue'["fsm"] = queue["fsm"] /\ UNCHANGED fsmVars
    BY <1>0, <1>7, UnwoundTakes
  <2>2. UNCHANGED <<active, state, step>>
    BY <2>1 DEF fsmVars
  <2> QED
    BY <1>0, <2>1, <2>2, PartsKept, RefusedParts
<1>8. CASE UNCHANGED <<fsmVars, pending, busVars, micVars>>
  <2>1. UNCHANGED <<queue, out, talking, atStt, pending, active, state, step>>
    BY <1>8 DEF fsmVars, busVars, micVars
  <2>2. Unwound'
    BY <1>0, <1>1, <2>1, UnwoundUnmoved
  <2> QED
    BY <1>0, <2>1, <2>2, PartsKept, RefusedParts
<1> QED
  BY <1>0, <1>2, <1>3, <1>4, <1>5, <1>6, <1>7, <1>8, UnwoundSteps

\* What no step touches while a reply is streamed and played.
Undisturbed ==
    /\ UNCHANGED <<talking, utterances, atStt, lines, pending, clearing, active, nextTurn, summary, dead>>
    /\ \A t \in Publishers : t \notin {"llm", "playback"} => out'[t] = out[t]
    /\ \A s \in Subscribers : s \in {"bargein", "manager"} => queue'[s] = queue[s]

(* The bridge takes an event of the reply. *)
LEMMA ReplyTaken ==
    ASSUME NEW n \in Nat, BusShape(n), BridgeHandles, NEW e, e = Head(queue["bridge"]),
           e.type \in Reply
    PROVE  /\ queue["bridge"] # <<>> /\ queue'["bridge"] = Tail(queue["bridge"])
           /\ e \in Range(queue["bridge"]) /\ e \in Events(Turned(n))
           /\ \A s \in Subscribers : s # "bridge" => queue'[s] = queue[s]
           /\ UNCHANGED <<fsmVars, managerVars, out, micVars, summary, historyVars,
                          dead, synth, clearing, unsaid, playbackVars>>
           /\ \/ OnLlmStarted(e.turn)
              \/ OnLlmSentence(e.turn, e.seq) \/ OnLlmFinished(e.turn)
<1>0. /\ queue["bridge"] \in Seq(Events(Turned(n))) /\ DOMAIN queue = Subscribers
      /\ "bridge" \in Subscribers
  BY DEF BusShape, QueueShape, Subscribers
<1>1. /\ queue["bridge"] # <<>> /\ queue' = [queue EXCEPT !["bridge"] = Tail(@)]
      /\ UNCHANGED <<fsmVars, managerVars, out, micVars, summary, said, finishedLlm>>
  BY DEF BridgeHandles, Receives
<1>2. e \in Range(queue["bridge"]) /\ e \in Events(Turned(n))
  BY <1>0, <1>1, TailElems
<1>3. \/ OnLlmStarted(e.turn)
      \/ OnLlmSentence(e.turn, e.seq) \/ OnLlmFinished(e.turn)
  BY DEF BridgeHandles, Next1, Reply
<1>4. UNCHANGED <<dead, synth, clearing, unsaid, playbackVars>>
  BY <1>3 DEF OnLlmStarted, OnLlmSentence, OnLlmFinished
<1> QED
  BY <1>0, <1>1, <1>2, <1>3, <1>4 DEF historyVars

(* The steps of a session in which a reply is streamed. *)
LEMMA StreamingSteps ==
    ASSUME NEW n \in Nat, BusShape(n), SpeaksIn \subseteq {"Listening"}, Alone, ~Summarizing, Streaming,
           [PipelineNext]_pipelineVars, ~LineTyped
    PROVE  \/ Deliver("llm") \/ Deliver("playback") \/ FsmHandles
           \/ ManagerActivates \/ LlmSays \/ LlmFinishes \/ ManagerReturns
           \/ BridgeHandles \/ BridgeOrPlayback \/ PlaybackPublishes
           \/ UNCHANGED pipelineVars
<1>0. /\ Attending /\ Silence /\ stream.phase # "adopt" /\ state \in {"Transcribing", "Thinking", "Speaking"}
  BY DEF Streaming, Attending, Replying, Informed, Expects
<1>1. ~UserBegins /\ ~UserEnds /\ ~Transcribed /\ ~SummaryFinishes
  BY <1>0 DEF UserBegins, UserEnds, Transcribed, SummaryFinishes, Silence, Alone
<1>2. ~FsmGoesOn
  BY <1>0 DEF FsmGoesOn, Start, InterruptOutcome, HandlerContinues, SpeechStartedReturns, Settle, Attending
<1>3. ~BargeInFires /\ ~BargeInSuppressed /\ ~ManagerHandles
  BY <1>0 DEF BargeInFires, BargeInSuppressed, ManagerHandles, Receives, Silence, Attending
<1>4. ~ManagerTakes /\ ~ManagerAdopts
  BY <1>0 DEF ManagerTakes, TakeTranscript, ManagerAdopts, AdoptTurn, Attending
<1>5. ASSUME NEW t \in Publishers, Deliver(t) PROVE t \in {"llm", "playback"}
  <2>1. out[t] # <<>>
    BY <1>5 DEF Deliver, Free
  <2> QED
    BY <1>0, <2>1 DEF Silence, Attending, Alone, Publishers
<1> QED
  BY <1>1, <1>2, <1>3, <1>4, <1>5 DEF PipelineNext, SystemStep

(* None of them disturbs the rest of the session. *)
LEMMA StreamingUndisturbed ==
    ASSUME NEW n \in Nat, BusShape(n), SpeaksIn \subseteq {"Listening"}, Alone, ~Summarizing, Streaming,
           [PipelineNext]_pipelineVars, ~LineTyped
    PROVE  Undisturbed
<1>0. /\ Attending /\ Carrying /\ Informed
  BY DEF Streaming
<1>s. "llm" \in Publishers /\ "playback" \in Publishers /\ "fsm" \in Publishers
  BY DEF Publishers
<1>d. DOMAIN out = Publishers
  BY DEF BusShape, OutShape
<1>1. CASE Deliver("llm") \/ Deliver("playback")
  <2>1. ASSUME NEW t \in {"llm", "playback"}, Deliver(t) PROVE Undisturbed
    <3>1. t \in Publishers
      BY <1>s
    <3>2. PICK d : PushMade(t, d) /\ d.event \in Events(Turned(n))
      BY <2>1, <3>1, PushIsMade
    <3>3. /\ d = Head(out[t]) /\ out[t] # <<>>
          /\ \A u \in Publishers : u # t => out'[u] = out[u]
          /\ \A s \in Subscribers : s # d.to => queue'[s] = queue[s]
          /\ UNCHANGED <<fsmVars, managerVars, bridgeVars, playbackVars, micVars, summary, historyVars>>
      BY <3>2 DEF PushMade
    <3>4. d.to \in {"fsm", "bridge"}
      <4>1. LlmOut(out["llm"], n) /\ PlaybackOut(out["playback"], n)
        BY DEF BusShape, OutShape
      <4>2. PICK e : out[t] = <<Push("bridge", e)>> \/ out[t] = <<Push("fsm", e), Push("bridge", e)>>
                     \/ out[t] = <<Push("fsm", e)>>
        BY <2>1, <3>3, <4>1 DEF LlmOut, PlaybackOut
      <4>3. d = Push("bridge", e) \/ d = Push("fsm", e)
        BY <3>3, <4>2, Short
      <4> QED
        BY <4>3 DEF Push
    <3>5. UNCHANGED <<talking, utterances, atStt, lines, pending, clearing, active, nextTurn, summary, dead>>
      BY <3>3 DEF fsmVars, managerVars, bridgeVars, workerVars, micVars
    <3> QED
      BY <2>1, <3>3, <3>4, <3>5 DEF Undisturbed
  <2> QED
    BY <1>1, <2>1
<1>2. CASE FsmHandles
  <2>1. PICK e : e = Head(queue["fsm"])
    OBVIOUS
  <2>2. /\ Dispatch(e) /\ e \in Range(queue["fsm"]) /\ queue["fsm"] \in Seq(Events(Turned(n)))
        /\ queue["fsm"] # <<>>
        /\ \A s \in Subscribers : s # "fsm" => queue'[s] = queue[s]
        /\ \A t \in Publishers : t # "fsm" => out'[t] = out[t]
        /\ out["fsm"] = <<>> /\ (step' # "interrupt" => out'["fsm"] = <<>>)
        /\ UNCHANGED <<managerVars, bridgeVars, playbackVars, micVars, summary, historyVars>>
    BY <1>2, <2>1, FsmTakes
  <2>3. e.type \in News \cup {"FinalTranscript"}
    <3>1. FinalTranscript.type = "FinalTranscript"
      BY DEF FinalTranscript, Event
    <3> QED
      BY <1>0, <2>1, <2>2, <3>1 DEF Informed, Expects, HasOnly
  <2>4. \/ HandleFinalTranscript \/ HandleLlmSentence \/ HandleLlmFinished
        \/ HandlePlaybackFinished(e.turn)
    BY <2>2, <2>3 DEF Dispatch, News
  <2>5. step' # "interrupt" /\ UNCHANGED <<active, nextTurn>>
    BY <2>4 DEF HandleFinalTranscript, HandleLlmSentence, HandleLlmFinished, HandlePlaybackFinished,
       PlaybackCounts, Complete, StaysInTurn, Ignored, fsmVars
  <2>6. UNCHANGED <<talking, utterances, atStt, lines, pending, clearing, summary, dead>>
    BY <2>2 DEF managerVars, bridgeVars, workerVars, micVars
  <2> QED
    BY <2>2, <2>5, <2>6 DEF Undisturbed
<1>3. CASE ManagerActivates \/ LlmSays \/ LlmFinishes
  <2>1. /\ queue' = queue /\ UNCHANGED <<fsmVars, bridgeVars, micVars, pending, summary>>
    BY <1>3 DEF ManagerActivates, LlmSays, LlmFinishes, ActivateTurn, SentenceDone, LeftoverSentence,
       FinishStream
  <2>2. \E e : out' = [out EXCEPT !["llm"] = Deliveries(e)]
    BY <1>3 DEF ManagerActivates, LlmSays, LlmFinishes, Publish
  <2> QED
    BY <1>d, <2>1, <2>2 DEF Undisturbed, fsmVars, bridgeVars, workerVars, micVars
<1>4. CASE ManagerReturns
  <2>1. UNCHANGED <<queue, out, fsmVars, bridgeVars, micVars, pending, summary>>
    BY <1>4 DEF ManagerReturns, RunOneReturns, busVars
  <2> QED
    BY <2>1 DEF Undisturbed, fsmVars, bridgeVars, workerVars, micVars
<1>5. CASE BridgeHandles
  <2>1. PICK e : e = Head(queue["bridge"])
    OBVIOUS
  <2>2. queue["bridge"] # <<>> /\ queue["bridge"] \in Seq(Events(Turned(n)))
    BY <1>5 DEF BridgeHandles, Receives, BusShape, QueueShape, Subscribers
  <2>3. e.type \in Reply
    BY <1>0, <2>1, <2>2, HasOnlyLess DEF Carrying
  <2>4. /\ UNCHANGED <<fsmVars, managerVars, out, micVars, summary, dead, clearing>>
        /\ \A s \in Subscribers : s # "bridge" => queue'[s] = queue[s]
    BY <1>5, <2>1, <2>3, ReplyTaken
  <2> QED
    BY <2>4 DEF Undisturbed, fsmVars, managerVars, micVars
<1>6. CASE BridgeOrPlayback
  <2>1. UNCHANGED <<fsmVars, managerVars, queue, out, micVars, summary>>
    BY <1>6 DEF BridgeOrPlayback, busVars
  <2>2. Synthesis \/ UNCHANGED bridgeVars
    BY <1>0, <1>6 DEF BridgeOrPlayback, BridgeClears, Attending
  <2>3. UNCHANGED <<dead, clearing>>
    BY <2>2 DEF Synthesis, TakeJob, JobDropped, AudioArrives, SynthesisFails, AudioQueued, TailDropped,
       TailDue, MarkerQueued, bridgeVars, workerVars
  <2> QED
    BY <2>1, <2>3 DEF Undisturbed, fsmVars, managerVars, micVars
<1>7. CASE PlaybackPublishes
  <2>1. UNCHANGED <<fsmVars, managerVars, bridgeVars, queue, micVars, summary>>
    BY <1>7 DEF PlaybackPublishes
  <2>2. \E e : out' = [out EXCEPT !["playback"] = Deliveries(e)]
    BY <1>7 DEF PlaybackPublishes, Publish
  <2> QED
    BY <1>d, <2>1, <2>2 DEF Undisturbed, fsmVars, managerVars, bridgeVars, workerVars, micVars
<1>8. CASE UNCHANGED pipelineVars
  BY <1>8 DEF pipelineVars, Undisturbed, fsmVars, managerVars, bridgeVars, workerVars, micVars, busVars
<1> QED
  BY <1>1, <1>2, <1>3, <1>4, <1>5, <1>6, <1>7, <1>8, StreamingSteps

LEMMA AttendingKept ==
    ASSUME Attending, Undisturbed, step' = "idle"
    PROVE  Attending'
<1>1. /\ out'["audio"] = out["audio"] /\ out'["stt"] = out["stt"] /\ out'["fsm"] = out["fsm"]
      /\ out'["manager"] = out["manager"]
  BY DEF Undisturbed, Publishers
<1>2. queue'["bargein"] = queue["bargein"] /\ queue'["manager"] = queue["manager"]
  BY DEF Undisturbed, Subscribers
<1>3. UNCHANGED <<talking, atStt, pending, clearing, active>>
  BY DEF Undisturbed
<1> QED
  BY <1>1, <1>2, <1>3 DEF Attending, Silence

LEMMA AccountedKept ==
    ASSUME Accounted, UNCHANGED <<active, said>>,
           Range(heard') \cup unsaid' \cup Underway' = Range(heard) \cup unsaid \cup Underway
    PROVE  Accounted'
  BY DEF Accounted

\* Nothing was touched that the FSM is told.
LEMMA InformedKept ==
    ASSUME Informed, UNCHANGED <<state, llmFinished>>, queue'["fsm"] = queue["fsm"],
           Over => Over'
    PROVE  Informed'
  BY DEF Informed

(* What is queued for the FSM behind the transcript. *)
LEMMA NewsAppended ==
    ASSUME NEW T, NEW q \in Seq(T), NEW e \in T, NEW r, r = Append(q, e), e.type \in News
    PROVE  \A st : Expects(st, q) => Expects(st, r)
<1>1. HasOnly(q, News) => HasOnly(r, News)
  BY HasOnlyMore
<1>2. ASSUME q # <<>>, HasOnly(Tail(q), News)
      PROVE  r # <<>> /\ Head(r) = Head(q) /\ HasOnly(Tail(r), News)
  <2>1. /\ r \in Seq(T) /\ Len(r) = Len(q) + 1 /\ \A i \in 1 .. Len(q) : r[i] = q[i]
        /\ r[Len(q) + 1] = e /\ Len(q) >= 1
    BY <1>2, AppendAt
  <2>2. r # <<>> /\ Head(r) = Head(q)
    BY <1>2, <2>1
  <2>3. PICK s, t : s = Tail(q) /\ t = Tail(r)
    OBVIOUS
  <2>4. /\ s \in Seq(T) /\ Len(s) = Len(q) - 1 /\ \A i \in 1 .. Len(q) - 1 : s[i] = q[i + 1]
    BY <1>2, <2>3, TailAt
  <2>5. /\ t \in Seq(T) /\ Len(t) = Len(r) - 1 /\ \A i \in 1 .. Len(r) - 1 : t[i] = r[i + 1]
    BY <2>1, <2>2, <2>3, TailAt
  <2>6. ASSUME NEW i \in DOMAIN t PROVE t[i].type \in News
    <3>1. i \in 1 .. Len(q) /\ t[i] = r[i + 1]
      BY <2>1, <2>5
    <3>2. CASE i = Len(q)
      BY <2>1, <3>1, <3>2
    <3>3. CASE i # Len(q)
      <4>1. i \in 1 .. Len(q) - 1 /\ r[i + 1] = q[i + 1] /\ s[i] = q[i + 1] /\ i \in DOMAIN s
        BY <2>1, <2>4, <3>1, <3>3
      <4> QED
        BY <1>2, <2>3, <3>1, <4>1 DEF HasOnly, Range
    <3> QED
      BY <3>2, <3>3
  <2> QED
    BY <2>2, <2>3, <2>6 DEF HasOnly, Range
<1> QED
  BY <1>1, <1>2 DEF Expects

(* A push of the LLM client. *)
LEMMA ReplyPushed ==
    ASSUME NEW n \in Nat, BusShape(n), Streaming, Undisturbed, Deliver("llm")
    PROVE  Streaming'
<1>0. /\ Attending /\ Replying /\ Carrying /\ OfActive /\ Alive /\ Accounted /\ Marked /\ Informed
      /\ "llm" \in Publishers /\ "bridge" \in Subscribers /\ "fsm" \in Subscribers
  BY DEF Streaming, Publishers, Subscribers
<1>1. PICK d : PushMade("llm", d) /\ d.event \in Events(Turned(n))
  BY <1>0, PushIsMade
<1>2. /\ out["llm"] # <<>> /\ d = Head(out["llm"]) /\ out'["llm"] = Tail(out["llm"])
      /\ queue'[d.to] = Append(queue[d.to], d.event)
      /\ \A s \in Subscribers : s # d.to => queue'[s] = queue[s]
      /\ \A u \in Publishers : u # "llm" => out'[u] = out[u]
      /\ UNCHANGED <<fsmVars, managerVars, bridgeVars, playbackVars, micVars, summary, historyVars>>
  BY <1>1 DEF PushMade
<1>3. /\ UNCHANGED <<stream, active, said, playbackTurn, jobs, synth, chunks, current, postbox>>
      /\ UNCHANGED <<tokens, dead, heard, unsaid, state, llmFinished, step>>
  BY <1>2 DEF fsmVars, perTurn, managerVars, bridgeVars, workerVars, playbackVars, queueVars, engineVars, historyVars
<1>4. Attending' /\ Alive' /\ Marked'
  <2>1. Attending'
    BY <1>0, <1>3, AttendingKept DEF Attending
  <2>2. Alive' /\ Marked'
    BY <1>0, <1>3 DEF Alive, Marked
  <2> QED
    BY <2>1, <2>2
<1>5. stream.phase # "activate"
  BY <1>0, <1>2 DEF Replying
<1>6. out'["playback"] = out["playback"]
  BY <1>2 DEF Publishers
<1>7. PICK e \in Events(Turned(n)) :
         \/ out["llm"] = <<Push("bridge", e)>>
         \/ out["llm"] = <<Push("fsm", e), Push("bridge", e)>>
  BY <1>2 DEF BusShape, OutShape, LlmOut
<1>8. /\ queue["bridge"] \in Seq(Events(Turned(n))) /\ queue["fsm"] \in Seq(Events(Turned(n)))
  BY <1>0 DEF BusShape, QueueShape
<1>9. Replying'
  BY <1>0, <1>3, <1>5 DEF Replying
<1>a. PICK db, df : db = Push("bridge", e) /\ df = Push("fsm", e)
  OBVIOUS
<1>b. db.to = "bridge" /\ db.event = e /\ df.to = "fsm" /\ df.event = e
  BY <1>a DEF Push
<1>10. CASE out["llm"] = <<db>>
  <2>1. d = db /\ out'["llm"] = <<>> /\ Range(out["llm"]) = {db}
    BY <1>2, <1>10, Short DEF Range
  <2>2. /\ queue'["bridge"] = Append(queue["bridge"], e) /\ queue'["fsm"] = queue["fsm"]
    BY <1>0, <1>2, <1>b, <2>1
  <2>3. e.turn = active /\ e.type \in Reply
    BY <1>0, <1>b, <2>1 DEF OfActive, Carrying
  <2>4. Carrying'
    <3>1. HasOnly(queue'["bridge"], Reply)
      BY <1>0, <1>8, <2>2, <2>3, HasOnlyMore DEF Carrying
    <3> QED
      BY <2>1, <3>1, NothingThere DEF Carrying
  <2>5. OfActive'
    <3>1. \A x \in Range(queue'["bridge"]) : x.turn = active
      BY <1>0, <1>8, <2>2, <2>3, AppendElems DEF OfActive
    <3>2. \A x \in Range(out'["playback"]) \cup Range(out'["llm"]) : x.event.turn = active
      BY <1>0, <1>6, <2>1, NothingThere DEF OfActive
    <3> QED
      BY <1>0, <1>3, <2>2, <3>1, <3>2 DEF OfActive
  <2>6. Accounted'
    <3>1. SaidTo(queue'["bridge"]) = SaidTo(queue["bridge"])
                \cup (IF e.type = "LlmSentence" THEN {Mark(e)} ELSE {})
      BY <1>8, <2>2, MarksAppended
    <3>2. DueTo(out["llm"]) = (IF e.type = "LlmSentence" THEN {Mark(e)} ELSE {}) /\ DueTo(out'["llm"]) = {}
      BY <1>2, <1>b, <2>1 DEF DueTo
    <3>3. Underway' = Underway
      BY <1>3, <3>1, <3>2 DEF Underway
    <3> QED
      BY <1>0, <1>3, <3>3, AccountedKept
  <2>7. Informed'
    <3>1. Over => Over'
      BY <1>3, <2>1 DEF Over
    <3> QED
      BY <1>0, <1>3, <2>2, <3>1, InformedKept
  <2> QED
    BY <1>4, <1>9, <2>4, <2>5, <2>6, <2>7 DEF Streaming
<1>11. CASE out["llm"] = <<df, db>>
  <2>1. d = df /\ out'["llm"] = <<db>> /\ Range(out["llm"]) = {df, db} /\ Range(out'["llm"]) = {db}
        /\ Head(out'["llm"]) = db
    BY <1>2, <1>11, Short DEF Range
  <2>2. /\ queue'["fsm"] = Append(queue["fsm"], e) /\ queue'["bridge"] = queue["bridge"]
    BY <1>0, <1>2, <1>b, <2>1
  <2>3. /\ e.turn = active /\ e.type \in {"LlmSentence", "LlmFinished"}
        /\ e.type = "LlmFinished" => stream.phase \in {"idle", "return"}
    BY <1>0, <1>b, <2>1 DEF OfActive, Carrying, Reply, News
  <2>4. Carrying'
    BY <1>0, <1>3, <2>1, <2>2 DEF Carrying
  <2>5. OfActive'
    <3>1. \A x \in Range(queue'["fsm"]) : x.type = "PlaybackFinished" => x.turn = active
      BY <1>0, <1>8, <2>2, <2>3, AppendElems DEF OfActive
    <3>2. \A x \in Range(out'["playback"]) \cup Range(out'["llm"]) : x.event.turn = active
      BY <1>0, <1>6, <2>1 DEF OfActive
    <3> QED
      BY <1>0, <1>3, <2>2, <3>1, <3>2 DEF OfActive
  <2>6. Accounted'
    <3>1. DueTo(out'["llm"]) = DueTo(out["llm"])
      BY <1>2, <1>b, <2>1, Short DEF DueTo
    <3>2. Underway' = Underway
      BY <1>3, <2>2, <3>1 DEF Underway
    <3> QED
      BY <1>0, <1>3, <3>2, AccountedKept
  <2>7. ~Over /\ (e.type = "LlmFinished" => Over')
    BY <1>2, <1>3, <1>b, <2>1, <2>3 DEF Over
  <2>8. ~llmFinished /\ \A x \in Range(queue["fsm"]) : x.type # "LlmFinished"
    BY <1>0, <2>7 DEF Informed
  <2>9. Range(queue'["fsm"]) = Range(queue["fsm"]) \cup {e}
    BY <1>8, <2>2, AppendElems
  <2>10. Expects(state', queue'["fsm"])
    <3>1. e.type \in News
      BY <2>3 DEF News
    <3> QED
      BY <1>0, <1>3, <1>8, <2>2, <3>1, NewsAppended DEF Informed
  <2>11. Ordered(queue'["fsm"], FinishedLast)
    <3>1. \A x \in Range(queue["fsm"]) : <<x, e>> \in FinishedLast
      <4>1. Range(queue["fsm"]) \subseteq Events(Nat) /\ e \in Events(Nat)
        BY <1>8, Sorts DEF Range
      <4> QED
        BY <2>8, <4>1 DEF FinishedLast
    <3> QED
      BY <1>0, <1>8, <2>2, <3>1, AppendOrdered DEF Informed
  <2>12. Informed'
    BY <1>3, <2>7, <2>8, <2>9, <2>10, <2>11 DEF Informed
  <2> QED
    BY <1>4, <1>9, <2>4, <2>5, <2>6, <2>12 DEF Streaming
<1> QED
  BY <1>7, <1>10, <1>11, <1>a

(* The engine's publisher tells the FSM that a sentence was played. *)
LEMMA PlaybackPushed ==
    ASSUME NEW n \in Nat, BusShape(n), Streaming, Undisturbed, Deliver("playback")
    PROVE  Streaming'
<1>0. /\ Attending /\ Replying /\ Carrying /\ OfActive /\ Alive /\ Accounted /\ Marked /\ Informed
      /\ "playback" \in Publishers /\ "bridge" \in Subscribers /\ "fsm" \in Subscribers
      /\ "llm" \in Publishers
  BY DEF Streaming, Publishers, Subscribers
<1>1. PICK d : PushMade("playback", d) /\ d.event \in Events(Turned(n))
  BY <1>0, PushIsMade
<1>2. /\ out["playback"] # <<>> /\ d = Head(out["playback"]) /\ out'["playback"] = Tail(out["playback"])
      /\ queue'[d.to] = Append(queue[d.to], d.event)
      /\ \A s \in Subscribers : s # d.to => queue'[s] = queue[s]
      /\ \A u \in Publishers : u # "playback" => out'[u] = out[u]
      /\ UNCHANGED <<fsmVars, managerVars, bridgeVars, playbackVars, micVars, summary, historyVars>>
  BY <1>1 DEF PushMade
<1>3. /\ UNCHANGED <<stream, active, said, playbackTurn, jobs, synth, chunks, current, postbox>>
      /\ UNCHANGED <<tokens, dead, heard, unsaid, state, llmFinished, step>>
  BY <1>2 DEF fsmVars, perTurn, managerVars, bridgeVars, workerVars, playbackVars, queueVars, engineVars, historyVars
<1>4. PICK e \in Playbacks(Turned(n)) : out["playback"] = <<Push("fsm", e)>>
  BY <1>2 DEF BusShape, OutShape, PlaybackOut
<1>5. PICK df : df = Push("fsm", e)
  OBVIOUS
<1>6. /\ d = df /\ d.to = "fsm" /\ d.event = e /\ out'["playback"] = <<>> /\ e.type = "PlaybackFinished"
      /\ Range(out["playback"]) = {df}
  BY <1>2, <1>4, <1>5, Short DEF Push, Playbacks, Range
<1>7. /\ queue'["fsm"] = Append(queue["fsm"], e) /\ queue'["bridge"] = queue["bridge"]
      /\ out'["llm"] = out["llm"] /\ e \in Events(Turned(n)) /\ e.turn = active
  BY <1>0, <1>1, <1>2, <1>6 DEF OfActive
<1>8. queue["fsm"] \in Seq(Events(Turned(n)))
  BY <1>0 DEF BusShape, QueueShape
<1>9. Attending' /\ Alive' /\ Marked'
  <2>1. Attending'
    BY <1>0, <1>3, AttendingKept DEF Attending
  <2>2. Alive' /\ Marked'
    BY <1>0, <1>3 DEF Alive, Marked
  <2> QED
    BY <2>1, <2>2
<1>10. Replying'
  <2>1. stream.phase # "activate"
    BY <1>0, <1>2 DEF Replying, NothingSpoken
  <2> QED
    BY <1>0, <1>3, <2>1 DEF Replying
<1>11. Carrying'
  BY <1>0, <1>3, <1>7 DEF Carrying
<1>12. OfActive'
  <2>1. \A x \in Range(queue'["fsm"]) : x.type = "PlaybackFinished" => x.turn = active
    BY <1>0, <1>7, <1>8, AppendElems DEF OfActive
  <2>2. \A x \in Range(out'["playback"]) \cup Range(out'["llm"]) : x.event.turn = active
    BY <1>0, <1>6, <1>7, NothingThere DEF OfActive
  <2> QED
    BY <1>0, <1>3, <1>7, <2>1, <2>2 DEF OfActive
<1>13. Accounted'
  <2>1. Underway' = Underway
    BY <1>3, <1>7 DEF Underway
  <2> QED
    BY <1>0, <1>3, <2>1, AccountedKept
<1>14. Informed'
  <2>1. Over' <=> Over
    BY <1>3, <1>7 DEF Over
  <2>2. Range(queue'["fsm"]) = Range(queue["fsm"]) \cup {e}
    BY <1>7, <1>8, AppendElems
  <2>3. Expects(state', queue'["fsm"])
    <3>1. e.type \in News
      BY <1>6 DEF News
    <3> QED
      BY <1>0, <1>3, <1>7, <1>8, <3>1, NewsAppended DEF Informed
  <2>4. Ordered(queue'["fsm"], FinishedLast)
    <3>1. \A x \in Range(queue["fsm"]) : <<x, e>> \in FinishedLast
      <4>1. Range(queue["fsm"]) \subseteq Events(Nat) /\ e \in Events(Nat)
        BY <1>7, <1>8, Sorts DEF Range
      <4> QED
        BY <1>6, <4>1 DEF FinishedLast
    <3> QED
      BY <1>0, <1>7, <1>8, <3>1, AppendOrdered DEF Informed
  <2>5. llmFinished' => HasOnly(queue'["fsm"], {"FinalTranscript", "PlaybackFinished"})
    BY <1>0, <1>3, <1>6, <2>2 DEF Informed, HasOnly
  <2> QED
    BY <1>0, <1>3, <1>6, <2>1, <2>2, <2>3, <2>4, <2>5 DEF Informed
<1> QED
  BY <1>9, <1>10, <1>11, <1>12, <1>13, <1>14 DEF Streaming

(* The active turn is one that may be. *)
LEMMA ActiveTurned ==
    ASSUME Counted, FsmTypeOK
    PROVE  active \in Turns /\ said \in [Turns -> Nat]
<1>1. /\ active \in Nat /\ active < nextTurn /\ nextTurn \in Nat /\ nextTurn <= utterances + 1
      /\ utterances \in 0 .. MaxUtterances /\ said \in [Turns -> Nat]
  BY DEF Counted, FsmTypeOK
<1>2. MaxUtterances \in Nat /\ MaxLines \in Nat
  BY PipelineAssumption
<1> QED
  BY <1>1, <1>2 DEF Turns

(* One sentence more. *)
LEMMA OneMoreSentence ==
    ASSUME NEW X, NEW t, NEW m \in Nat, SentencesOf(X, t) = 0 .. m - 1, NEW Y, Y = X \cup {<<t, m>>}
    PROVE  SentencesOf(Y, t) = 0 .. m
<1>1. ASSUME NEW s \in SentencesOf(Y, t) PROVE s \in 0 .. m
  <2>1. PICK p \in Y : p[1] = t /\ s = p[2]
    BY <1>1 DEF SentencesOf
  <2>2. CASE p \in X
    <3>1. s \in SentencesOf(X, t)
      BY <2>1, <2>2 DEF SentencesOf
    <3> QED
      BY <3>1
  <2>3. CASE p = <<t, m>>
    BY <2>1, <2>3
  <2> QED
    BY <2>1, <2>2, <2>3
<1>2. m \in SentencesOf(Y, t)
  <2>1. PICK p : p = <<t, m>>
    OBVIOUS
  <2>2. p \in Y /\ p[1] = t /\ p[2] = m
    BY <2>1
  <2> QED
    BY <2>2 DEF SentencesOf
<1>3. ASSUME NEW s \in SentencesOf(X, t) PROVE s \in SentencesOf(Y, t)
  <2>1. PICK p \in X : p[1] = t /\ s = p[2]
    BY <1>3 DEF SentencesOf
  <2>2. p \in Y
    BY <2>1
  <2> QED
    BY <2>1, <2>2 DEF SentencesOf
<1>4. ASSUME NEW s \in 0 .. m PROVE s \in SentencesOf(Y, t)
  <2>1. s = m \/ s \in 0 .. m - 1
    OBVIOUS
  <2> QED
    BY <1>2, <1>3, <2>1
<1> QED
  BY <1>1, <1>4

(* The stream begins, goes on and ends: what is published waits to be pushed. *)
LEMMA ReplyPublished ==
    ASSUME NEW n \in Nat, BusShape(n), StreamShape(stream, n), Streaming, Undisturbed, Counted, FsmTypeOK,
           ManagerActivates \/ LlmSays \/ LlmFinishes
    PROVE  Streaming'
<1>0. /\ Attending /\ Replying /\ Carrying /\ OfActive /\ Alive /\ Accounted /\ Marked /\ Informed
  BY DEF Streaming
<1>1. /\ out["llm"] = <<>> /\ queue' = queue /\ UNCHANGED <<fsmVars, bridgeVars, queueVars, engineVars>>
      /\ stream.phase \in {"activate", "stream", "finish"}
  BY <1>0 DEF ManagerActivates, LlmSays, LlmFinishes, Free, Replying, ActivateTurn, SentenceDone,
     LeftoverSentence, FinishStream, playbackVars
<1>2. /\ UNCHANGED <<active, jobs, synth, chunks, current, postbox>>
      /\ UNCHANGED <<tokens, dead, heard, unsaid, state, llmFinished, step>>
  BY <1>1 DEF fsmVars, perTurn, bridgeVars, workerVars, queueVars, engineVars
<1>3. stream.turn = active /\ stream.seq = said[active] /\ stream.seq \in Nat /\ stream.turn \in Turned(n)
  BY <1>0, <1>1 DEF Replying, StreamShape
<1>4. \/ /\ ManagerActivates /\ stream' = [stream EXCEPT !.phase = "stream"] /\ playbackTurn' = active
         /\ stream.phase = "activate"
         /\ said' = said /\ Publish("llm", Event("LlmStarted", active, 0))
      \/ /\ LlmSays /\ \E p \in {"stream", "finish"} : stream' = [stream EXCEPT !.seq = @ + 1, !.phase = p]
         /\ stream.phase = "stream" /\ playbackTurn' = playbackTurn
         /\ said' = [said EXCEPT ![active] = @ + 1]
         /\ Publish("llm", Event("LlmSentence", active, stream.seq))
      \/ /\ LlmFinishes /\ stream' = [stream EXCEPT !.phase = "return"]
         /\ stream.phase \in {"stream", "finish"} /\ playbackTurn' = playbackTurn
         /\ said' = said /\ Publish("llm", Event("LlmFinished", active, 0))
  <2>1. CASE ManagerActivates
    BY <1>3, <2>1 DEF ManagerActivates, ActivateTurn
  <2>2. CASE LlmSays
    <3>1. \E p \in {"stream", "finish"} : stream' = [stream EXCEPT !.seq = @ + 1, !.phase = p]
      <4>0. stream \in [phase : {"idle", "adopt", "activate", "stream", "finish", "return"},
                        turn : Turned(n), seq : Nat]
        BY DEF StreamShape
      <4>1. CASE SentenceDone
        <5>1. stream' = [stream EXCEPT !.seq = @ + 1] /\ stream.phase = "stream"
          BY <4>1 DEF SentenceDone
        <5>2. stream' = [stream EXCEPT !.seq = @ + 1, !.phase = "stream"]
          BY <4>0, <5>1
        <5> QED
          BY <5>2
      <4>2. CASE LeftoverSentence
        BY <4>2 DEF LeftoverSentence
      <4> QED
        BY <2>2, <4>1, <4>2 DEF LlmSays
    <3>2. stream.phase = "stream" /\ playbackTurn' = playbackTurn
      BY <2>2 DEF LlmSays, SentenceDone, LeftoverSentence, playbackVars
    <3>3. /\ said' = [said EXCEPT ![active] = @ + 1]
          /\ Publish("llm", Event("LlmSentence", active, stream.seq))
      BY <1>3, <2>2 DEF LlmSays
    <3> QED
      BY <2>2, <3>1, <3>2, <3>3
  <2>3. CASE LlmFinishes
    BY <1>3, <2>3 DEF LlmFinishes, FinishStream, playbackVars
  <2> QED
    BY <2>1, <2>2, <2>3
<1>5. PICK e : /\ Publish("llm", e) /\ e.turn = active /\ e.type \in Reply
               /\ e.type = "LlmStarted" <=> ManagerActivates
               /\ e.type = "LlmSentence" => e.seq = stream.seq /\ LlmSays
               /\ e.type = "LlmFinished" => stream'.phase = "return"
               /\ e \in Events(Turned(n)) /\ (e.type = "LlmSentence" <=> LlmSays)
  <2>1. CASE ManagerActivates
    <3>1. PICK e : e = Event("LlmStarted", active, 0)
      OBVIOUS
    <3>2. /\ e.turn = active /\ e.type = "LlmStarted" /\ e \in Events(Turned(n))
      BY <1>3, <3>1 DEF Event, Events, EventTypes
    <3>3. Publish("llm", e) /\ ~LlmSays
      BY <1>3, <2>1, <3>1 DEF ManagerActivates, ActivateTurn, LlmSays, SentenceDone, LeftoverSentence
    <3> QED
      BY <2>1, <3>2, <3>3 DEF Reply
  <2>2. CASE LlmSays
    <3>1. PICK e : e = Event("LlmSentence", active, stream.seq)
      OBVIOUS
    <3>2. /\ e.turn = active /\ e.type = "LlmSentence" /\ e \in Events(Turned(n)) /\ e.seq = stream.seq
      BY <1>3, <3>1 DEF Event, Events, EventTypes
    <3>3. Publish("llm", e) /\ ~ManagerActivates
      BY <1>3, <2>2, <3>1 DEF ManagerActivates, ActivateTurn, LlmSays, SentenceDone, LeftoverSentence
    <3> QED
      BY <2>2, <3>2, <3>3 DEF Reply
  <2>3. CASE LlmFinishes
    <3>1. PICK e : e = Event("LlmFinished", active, 0)
      OBVIOUS
    <3>2. /\ e.turn = active /\ e.type = "LlmFinished" /\ e \in Events(Turned(n))
      BY <1>3, <3>1 DEF Event, Events, EventTypes
    <3>3. /\ Publish("llm", e) /\ stream' = [stream EXCEPT !.phase = "return"]
          /\ stream.phase \in {"stream", "finish"}
      BY <1>3, <2>3, <3>1 DEF LlmFinishes, FinishStream
    <3>4. stream'.phase = "return"
      BY <3>3 DEF StreamShape
    <3>5. ~ManagerActivates /\ ~LlmSays
      BY <3>3, <3>4 DEF ManagerActivates, ActivateTurn, LlmSays, SentenceDone, LeftoverSentence, StreamShape
    <3> QED
      BY <3>2, <3>3, <3>4, <3>5 DEF Reply
  <2> QED
    BY <2>1, <2>2, <2>3
<1>6. /\ out'["llm"] = Deliveries(e) /\ out'["playback"] = out["playback"]
  BY <1>5 DEF Publish, BusShape, OutShape, Publishers
<1>7. \/ e.type = "LlmStarted" /\ out'["llm"] = <<Push("bridge", e)>>
      \/ e.type # "LlmStarted" /\ out'["llm"] = <<Push("fsm", e), Push("bridge", e)>>
  BY <1>5, <1>6, DeliveriesAre DEF Reply
<1>a. PICK db, df : db = Push("bridge", e) /\ df = Push("fsm", e)
  OBVIOUS
<1>b. db.to = "bridge" /\ db.event = e /\ df.to = "fsm" /\ df.event = e
  BY <1>a DEF Push
<1>8. /\ out'["llm"] # <<>> /\ Head(out'["llm"]).event = e
      /\ \A x \in Range(out'["llm"]) : x.event = e /\ (x.to = "fsm" => e.type # "LlmStarted")
  <2>1. \/ e.type = "LlmStarted" /\ out'["llm"] = <<db>>
        \/ e.type # "LlmStarted" /\ out'["llm"] = <<df, db>>
    BY <1>7, <1>a
  <2> QED
    BY <1>b, <2>1, Short, SMTT(60) DEF Range
<1>9. /\ stream'.phase # "adopt" /\ stream'.phase \in {"stream", "finish", "return"} /\ stream'.turn = active
      /\ playbackTurn' = active
      /\ stream'.phase \in {"stream", "finish"} => stream'.seq = said'[active]
  <2>0. stream \in [phase : {"idle", "adopt", "activate", "stream", "finish", "return"},
                    turn : Turned(n), seq : Nat]
    BY DEF StreamShape
  <2>1. active \in Turns /\ said \in [Turns -> Nat]
    BY ActiveTurned
  <2>2. playbackTurn' = active
    BY <1>0, <1>4 DEF Replying
  <2>3. CASE stream' = [stream EXCEPT !.phase = "stream"] /\ said' = said
    BY <1>3, <2>0, <2>2, <2>3
  <2>4. CASE stream' = [stream EXCEPT !.phase = "return"]
    BY <1>3, <2>0, <2>2, <2>4
  <2>5. CASE /\ \E p \in {"stream", "finish"} : stream' = [stream EXCEPT !.seq = @ + 1, !.phase = p]
             /\ said' = [said EXCEPT ![active] = @ + 1]
    BY <1>3, <2>0, <2>1, <2>2, <2>5
  <2> QED
    BY <1>4, <2>3, <2>4, <2>5
<1>10. Attending' /\ Alive' /\ Marked'
  <2>1. Attending'
    BY <1>0, <1>2, AttendingKept DEF Attending
  <2>2. Alive' /\ Marked'
    BY <1>0, <1>2 DEF Alive, Marked
  <2> QED
    BY <2>1, <2>2
<1>11. Replying'
  BY <1>2, <1>9 DEF Replying
<1>12. Carrying'
  <2>1. e.type = "LlmFinished" => stream'.phase \in {"idle", "return"}
    BY <1>5
  <2>2. e.type \in Reply /\ (e.type # "LlmStarted" => e.type \in News)
    BY <1>5 DEF Reply, News
  <2> QED
    BY <1>0, <1>1, <1>8, <2>1, <2>2 DEF Carrying
<1>13. OfActive'
  <2>1. \A x \in Range(out'["playback"]) \cup Range(out'["llm"]) : x.event.turn = active
    BY <1>0, <1>5, <1>6, <1>8 DEF OfActive
  <2> QED
    BY <1>0, <1>1, <1>2, <2>1 DEF OfActive
<1>14. Informed'
  <2>1. ~Over
    BY <1>1 DEF Over
  <2>2. ~llmFinished /\ \A x \in Range(queue["fsm"]) : x.type # "LlmFinished"
    BY <1>0, <2>1 DEF Informed
  <2> QED
    BY <1>0, <1>1, <1>2, <2>2 DEF Informed
<1>15. Accounted'
  <2>1. DueTo(out["llm"]) = {}
    BY <1>1 DEF DueTo
  <2>2. DueTo(out'["llm"]) = IF e.type = "LlmSentence" THEN {Mark(e)} ELSE {}
    BY <1>8 DEF DueTo
  <2>3. CASE e.type # "LlmSentence"
    <3>1. Underway' = Underway
      BY <1>1, <1>2, <2>1, <2>2, <2>3 DEF Underway
    <3>2. said' = said
      BY <1>4, <1>5, <2>3
    <3> QED
      BY <1>0, <1>2, <3>1, <3>2, AccountedKept
  <2>4. CASE e.type = "LlmSentence"
    <3>1. Underway' = Underway \cup {<<active, said[active]>>}
      BY <1>1, <1>2, <1>3, <1>5, <2>1, <2>2, <2>4 DEF Underway, Mark
    <3>2. said'[active] = said[active] + 1 /\ said[active] \in Nat
      <4>1. active \in Turns /\ said \in [Turns -> Nat]
        BY ActiveTurned
      <4>2. said' = [said EXCEPT ![active] = @ + 1]
        BY <1>3, <1>5, <2>4 DEF LlmSays
      <4> QED
        BY <4>1, <4>2
    <3>3. PICK X, k, a : X = Range(heard) \cup unsaid \cup Underway /\ k = said[active] /\ a = active
      OBVIOUS
    <3>4. PICK Y : Y = X \cup {<<a, k>>}
      OBVIOUS
    <3>5. SentencesOf(X, a) = 0 .. k - 1 /\ k \in Nat
      BY <1>0, <3>2, <3>3 DEF Accounted
    <3>6. SentencesOf(Y, a) = 0 .. k
      BY <3>4, <3>5, OneMoreSentence
    <3>7. Range(heard') \cup unsaid' \cup Underway' = Y
      BY <1>2, <3>1, <3>3, <3>4
    <3>9. said'[active] = k + 1 /\ active' = active
      BY <1>2, <3>2, <3>3
    <3>10. said'[active'] - 1 = k /\ active' = a
      BY <3>3, <3>5, <3>9
    <3>11. SentencesOf(Range(heard') \cup unsaid' \cup Underway', active') = 0 .. k
      BY <3>6, <3>7, <3>10
    <3> QED
      BY <3>10, <3>11 DEF Accounted
  <2> QED
    BY <2>3, <2>4
<1> QED
  BY <1>10, <1>11, <1>12, <1>13, <1>14, <1>15 DEF Streaming

(* run_one returns. *)
LEMMA ReplyReturns ==
    ASSUME Streaming, Undisturbed, ManagerReturns
    PROVE  Streaming'
<1>0. /\ Attending /\ Replying /\ Carrying /\ OfActive /\ Alive /\ Accounted /\ Marked /\ Informed
  BY DEF Streaming
<1>1. /\ out["llm"] = <<>> /\ UNCHANGED <<queue, out>> /\ stream.phase = "return" /\ stream'.phase = "idle"
      /\ UNCHANGED <<fsmVars, bridgeVars, playbackVars, historyVars>>
  BY DEF ManagerReturns, RunOneReturns, NoStream, Free, busVars
<1>2. /\ UNCHANGED <<active, jobs, synth, chunks, current, postbox, playbackTurn, said>>
      /\ UNCHANGED <<tokens, dead, heard, unsaid, state, llmFinished, step>>
  BY <1>1 DEF fsmVars, perTurn, bridgeVars, workerVars, playbackVars, queueVars, engineVars, historyVars
<1>3. Attending'
  BY <1>0, <1>2, AttendingKept DEF Attending
<1>4. Alive' /\ Marked' /\ OfActive'
  BY <1>0, <1>1, <1>2 DEF Alive, Marked, OfActive
<1>5. Replying'
  BY <1>0, <1>1, <1>2 DEF Replying
<1>6. Carrying'
  BY <1>0, <1>1 DEF Carrying
<1>7. Accounted'
  <2>1. Underway' = Underway
    BY <1>1, <1>2 DEF Underway
  <2> QED
    BY <1>0, <1>2, <2>1, AccountedKept
<1>8. Informed'
  <2>1. Over'
    BY <1>1 DEF Over
  <2> QED
    BY <1>0, <1>1, <1>2, <2>1, InformedKept
<1> QED
  BY <1>3, <1>4, <1>5, <1>6, <1>7, <1>8 DEF Streaming

(* The engine's publisher takes a message from the postbox. *)
LEMMA PlaybackIsPublished ==
    ASSUME NEW n \in Nat, BusShape(n), PlayShape(n), Streaming, Undisturbed, PlaybackPublishes
    PROVE  Streaming'
<1>0. /\ Attending /\ Replying /\ Carrying /\ OfActive /\ Alive /\ Accounted /\ Marked /\ Informed
  BY DEF Streaming
<1>1. /\ postbox # <<>> /\ postbox' = Tail(postbox) /\ queue' = queue
      /\ UNCHANGED <<fsmVars, managerVars, bridgeVars, queueVars, current, heard, playbackTurn, historyVars>>
      /\ Publish("playback", Event("PlaybackFinished", Head(postbox).turn, Head(postbox).seq))
  BY DEF PlaybackPublishes
<1>2. /\ UNCHANGED <<active, jobs, synth, chunks, current, playbackTurn, said, stream>>
      /\ UNCHANGED <<tokens, dead, heard, unsaid, state, llmFinished, step>>
  BY <1>1 DEF fsmVars, perTurn, bridgeVars, workerVars, queueVars, historyVars, managerVars
<1>3. /\ postbox \in Seq(Posts(Turned(n))) /\ Head(postbox) \in Posts(Turned(n))
      /\ Range(postbox) = {Head(postbox)} \cup Range(postbox')
  BY <1>1, TailElems DEF PlayShape
<1>4. Head(postbox).turn = active
  BY <1>0, <1>3 DEF OfActive
<1>5. PICK e : e = Event("PlaybackFinished", Head(postbox).turn, Head(postbox).seq)
  OBVIOUS
<1>6. e \in Events(Turned(n)) /\ e.type = "PlaybackFinished" /\ e.turn = active
  BY <1>3, <1>4, <1>5 DEF Event, Events, EventTypes, Posts
<1>7. out'["playback"] = <<Push("fsm", e)>> /\ out'["llm"] = out["llm"]
  <2>1. out' = [out EXCEPT !["playback"] = Deliveries(e)] /\ Deliveries(e) = <<Push("fsm", e)>>
    BY <1>1, <1>5, <1>6, DeliveriesAre DEF Publish
  <2> QED
    BY <2>1 DEF BusShape, OutShape, Publishers
<1>8. \A d \in Range(out'["playback"]) : d.event.turn = active
  BY <1>6, <1>7 DEF Push, Range
<1>9. Attending'
  BY <1>0, <1>2, AttendingKept DEF Attending
<1>10. Alive' /\ Marked'
  BY <1>0, <1>2 DEF Alive, Marked
<1>11. OfActive'
  <2>1. \A x \in Range(postbox') : x.turn = active
    BY <1>0, <1>3 DEF OfActive
  <2> QED
    BY <1>0, <1>1, <1>2, <1>7, <1>8, <2>1 DEF OfActive
<1>12. Replying'
  <2>1. stream.phase # "activate"
    BY <1>0, <1>1 DEF Replying, NothingSpoken
  <2> QED
    BY <1>0, <1>2, <2>1 DEF Replying
<1>13. Carrying'
  BY <1>0, <1>1, <1>2, <1>7 DEF Carrying
<1>14. Accounted'
  <2>1. Underway' = Underway
    BY <1>1, <1>2, <1>7 DEF Underway
  <2> QED
    BY <1>0, <1>2, <2>1, AccountedKept
<1>15. Informed'
  <2>1. Over => Over'
    BY <1>2, <1>7 DEF Over
  <2> QED
    BY <1>0, <1>1, <1>2, <2>1, InformedKept
<1> QED
  BY <1>9, <1>10, <1>11, <1>12, <1>13, <1>14, <1>15 DEF Streaming

(* The bridge takes an event of the reply. *)
LEMMA ReplyHandled ==
    ASSUME NEW n \in Nat, BusShape(n), BridgeShape(n), Streaming, Undisturbed, TokensKnown, BridgeHandles
    PROVE  Streaming'
<1>0. /\ Attending /\ Replying /\ Carrying /\ OfActive /\ Alive /\ Accounted /\ Marked /\ Informed
  BY DEF Streaming
<1>1. PICK e : e = Head(queue["bridge"])
  OBVIOUS
<1>2. queue["bridge"] # <<>> /\ queue["bridge"] \in Seq(Events(Turned(n))) /\ "fsm" \in Subscribers
  BY DEF BridgeHandles, Receives, BusShape, QueueShape, Subscribers
<1>3. HasOnly(Tail(queue["bridge"]), Reply) /\ e.type \in Reply
  BY <1>0, <1>1, <1>2, HasOnlyLess DEF Carrying
<1>4. /\ queue'["bridge"] = Tail(queue["bridge"]) /\ e \in Range(queue["bridge"])
      /\ e \in Events(Turned(n)) /\ queue'["fsm"] = queue["fsm"]
      /\ UNCHANGED <<fsmVars, managerVars, out, historyVars, dead, synth, clearing, unsaid, playbackVars>>
      /\ \/ OnLlmStarted(e.turn)
         \/ OnLlmSentence(e.turn, e.seq) \/ OnLlmFinished(e.turn)
  BY <1>1, <1>2, <1>3, ReplyTaken
<1>5. e.turn = active
  BY <1>0, <1>4 DEF OfActive
<1>6. /\ UNCHANGED <<active, chunks, current, postbox, playbackTurn, said, stream, heard>>
      /\ UNCHANGED <<state, llmFinished, step>>
  BY <1>4 DEF fsmVars, perTurn, playbackVars, queueVars, engineVars, historyVars, managerVars
<1>7. active \in DOMAIN tokens' => tokens'[active] \notin dead
  <2>1. ASSUME NewToken(active) PROVE tokens'[active] \notin dead
    <3>1. tokens'[active] = lastToken + 1
      BY <2>1 DEF NewToken
    <3>2. lastToken \in Nat /\ dead \subseteq 0 .. lastToken
      BY DEF BridgeShape, TokenShape, TokensKnown
    <3> QED
      BY <3>1, <3>2
  <2>2. CASE OnLlmStarted(e.turn)
    BY <1>5, <2>1, <2>2 DEF OnLlmStarted
  <2>3. CASE OnLlmSentence(e.turn, e.seq)
    BY <1>0, <1>5, <2>1, <2>3 DEF OnLlmSentence, TokenFor, Alive
  <2>4. CASE OnLlmFinished(e.turn)
    BY <1>5, <2>4 DEF OnLlmFinished
  <2> QED
    BY <1>4, <2>2, <2>3, <2>4
<1>8. \/ e.type # "LlmSentence" /\ jobs' = jobs
      \/ /\ e.type = "LlmSentence"
         /\ \E j \in JobsOf(Turned(n)) : /\ Mark(j) = Mark(e) /\ jobs' = Append(jobs, j)
                                         /\ j.token \notin dead /\ j.turn = active
  <2>1. e.type = "LlmSentence" => OnLlmSentence(e.turn, e.seq)
    BY <1>1 DEF BridgeHandles, Next1
  <2>2. e.type = "LlmSentence" => tokens'[active] \notin dead
    <3>1. OnLlmSentence(e.turn, e.seq) => active \in DOMAIN tokens'
      BY <1>5 DEF OnLlmSentence, TokenFor, NewToken
    <3> QED
      BY <1>7, <2>1, <3>1
  <2>3. e.type # "UserInterrupted"
    BY <1>3 DEF Reply
  <2>4. \/ e.type # "LlmSentence" /\ jobs' = jobs
        \/ e.type = "LlmSentence" /\ jobs' = jobs /\ tokens'[e.turn] \in dead
        \/ /\ e.type = "LlmSentence"
           /\ \E j \in JobsOf(Turned(n)) : /\ Mark(j) = Mark(e) /\ jobs' = Append(jobs, j)
                                           /\ j.token = tokens'[e.turn]
    BY <1>1, <2>3, SentenceTaken
  <2>5. ASSUME NEW j, Mark(j) = Mark(e) PROVE j.turn = active
    BY <1>5, <2>5 DEF Mark
  <2> QED
    BY <1>5, <2>2, <2>4, <2>5
<1>9. jobs \in Seq(JobsOf(Turned(n)))
  BY DEF BridgeShape
<1>18. \A x \in Range(jobs') : x \in Range(jobs) \/ (x.token \notin dead /\ x.turn = active)
  <2>1. CASE jobs' = jobs
    BY <2>1
  <2>2. ASSUME NEW j \in JobsOf(Turned(n)), jobs' = Append(jobs, j), j.token \notin dead, j.turn = active
        PROVE  \A x \in Range(jobs') : x \in Range(jobs) \/ (x.token \notin dead /\ x.turn = active)
    <3>1. Range(jobs') = Range(jobs) \cup {j}
      BY <1>9, <2>2, AppendElems
    <3> QED
      BY <2>2, <3>1
  <2> QED
    BY <1>8, <2>1, <2>2
<1>10. Attending'
  BY <1>0, <1>6, AttendingKept DEF Attending
<1>11. Alive' /\ Marked'
  <2>1. \A j \in Range(jobs') : j.token \notin dead
    BY <1>0, <1>18 DEF Alive
  <2>2. UNCHANGED <<dead, synth>>
    BY <1>4
  <2> QED
    BY <1>0, <1>6, <1>7, <2>1, <2>2 DEF Alive, Marked
<1>12. Range(queue["bridge"]) = {e} \cup Range(queue'["bridge"])
  BY <1>1, <1>2, <1>4, TailElems
<1>13. OfActive'
  <2>1. \A j \in Range(jobs') : j.turn = active
    BY <1>0, <1>18 DEF OfActive
  <2>2. \A x \in Range(queue'["bridge"]) : x.turn = active
    BY <1>0, <1>12 DEF OfActive
  <2>3. UNCHANGED <<synth, out>> /\ queue'["fsm"] = queue["fsm"]
    BY <1>4
  <2> QED
    BY <1>0, <1>6, <2>1, <2>2, <2>3 DEF OfActive
<1>14. Replying'
  <2>1. stream.phase # "activate"
    BY <1>0, <1>2 DEF Replying
  <2> QED
    BY <1>0, <1>6, <2>1 DEF Replying
<1>15. Carrying'
  BY <1>0, <1>3, <1>4, <1>6 DEF Carrying
<1>16. Accounted'
  <2>1. SaidTo(queue["bridge"]) = SaidTo(queue'["bridge"])
                                   \cup (IF e.type = "LlmSentence" THEN {Mark(e)} ELSE {})
    BY <1>1, <1>2, <1>4, MarksTaken
  <2>2. Marks(Range(jobs')) = Marks(Range(jobs)) \cup (IF e.type = "LlmSentence" THEN {Mark(e)} ELSE {})
    <3>1. CASE e.type # "LlmSentence"
      BY <1>8, <3>1
    <3>2. CASE e.type = "LlmSentence"
      <4>1. PICK j \in JobsOf(Turned(n)) : Mark(j) = Mark(e) /\ jobs' = Append(jobs, j)
        BY <1>8, <3>2
      <4>2. Marks(Range(jobs')) = Marks(Range(jobs)) \cup {Mark(j)}
        BY <1>9, <4>1, MarksAppended
      <4> QED
        BY <3>2, <4>1, <4>2
    <3> QED
      BY <3>1, <3>2
  <2>3. UNCHANGED <<synth, out, unsaid>>
    BY <1>4
  <2>4. Underway' = Underway
    BY <1>6, <2>1, <2>2, <2>3 DEF Underway
  <2> QED
    BY <1>0, <1>6, <2>3, <2>4, AccountedKept
<1>17. Informed'
  <2>1. Over => Over'
    BY <1>4, <1>6 DEF Over
  <2> QED
    BY <1>0, <1>4, <1>6, <2>1, InformedKept
<1> QED
  BY <1>10, <1>11, <1>13, <1>14, <1>15, <1>16, <1>17 DEF Streaming

(* The last chunk of a sentence is marked, or its marker is due. *)
LEMMA ChunkAdded ==
    ASSUME NEW T, NEW q \in Seq(T), NEW c \in T, NEW r, r = Append(q, c)
    PROVE  r # <<>> /\ r[Len(r)] = c
<1>1. /\ r \in Seq(T) /\ Len(r) = Len(q) + 1 /\ r[Len(q) + 1] = c
  BY AppendAt
<1> QED
  BY <1>1

(* What the synthesis of a live reply moves. *)
LEMMA SynthesisMoves ==
    ASSUME NEW n \in Nat, BridgeShape(n), PlayShape(n), Alive, Synthesis
    PROVE  /\ UNCHANGED <<tokens, dead, current, postbox, heard, playbackTurn>>
           /\ jobs # <<>> \/ synth # Resting
           /\ Range(jobs') \cup Range(synth'.job) \subseteq Range(jobs) \cup Range(synth.job)
           /\ \A x \in Range(chunks') : x \in Range(chunks) \/ \E j \in Range(synth.job) : x.turn = j.turn
           /\ ~(synth.phase = "submit" /\ JobDead)
           /\ Marked => Marked'
<1>0. jobs \in Seq(JobsOf(Turned(n))) /\ SynthShape(synth, n) /\ chunks \in Seq(ChunksOf(Turned(n), BOOLEAN))
  BY DEF BridgeShape, PlayShape
<1>1. UNCHANGED <<tokens, dead, current, postbox, heard, playbackTurn>>
  BY DEF Synthesis, TakeJob, JobDropped, AudioArrives, SynthesisFails, AudioQueued, TailDropped, TailDue,
     MarkerQueued, workerVars, playbackVars, engineVars, Enqueue, EnqueueBlocking
<1>2. ASSUME synth # Resting
      PROVE  \E j \in JobsOf(Turned(n)), p \in {"submit", "audio", "tail", "marker"} :
               /\ synth = [phase |-> p, job |-> <<j>>] /\ Job = j /\ synth.job = <<j>>
               /\ Range(synth.job) = {j} /\ j.token \notin dead
  <2>1. PICK j \in JobsOf(Turned(n)), p \in {"submit", "audio", "tail", "marker"} :
           synth = [phase |-> p, job |-> <<j>>]
    BY <1>0, <1>2 DEF SynthShape
  <2>2. synth.job = <<j>> /\ Job = j /\ Range(synth.job) = {j}
    BY <2>1 DEF Job, Range
  <2>3. j.token \notin dead
    BY <2>2 DEF Alive
  <2> QED
    BY <2>1, <2>2, <2>3
<1>3. synth # Resting => ~JobDead
  BY <1>2 DEF JobDead
<1>4. Resting.phase = "idle" /\ Resting.job = <<>>
  BY DEF Resting
<1>5. ~(synth.phase = "submit" /\ JobDead)
  BY <1>3, <1>4
<1>6. CASE TakeJob
  <2>1. /\ synth = Resting /\ jobs # <<>> /\ synth' = [phase |-> "submit", job |-> <<Head(jobs)>>]
        /\ jobs' = Tail(jobs) /\ chunks' = chunks
    BY <1>6 DEF TakeJob, playbackVars, queueVars
  <2>2. Range(jobs) = {Head(jobs)} \cup Range(jobs')
    BY <1>0, <2>1, TailElems
  <2>3. Range(synth'.job) = {Head(jobs)}
    BY <2>1 DEF Range
  <2>4. Marked => Marked'
    BY <1>4, <2>1 DEF Marked
  <2> QED
    BY <1>1, <1>5, <2>1, <2>2, <2>3, <2>4
<1>7. CASE AudioArrives \/ SynthesisFails \/ TailDue
  <2>1. /\ synth # Resting /\ jobs' = jobs /\ chunks' = chunks
        /\ \E p \in {"audio", "tail", "marker"} : synth' = [synth EXCEPT !.phase = p]
        /\ synth.phase \in {"tail", "marker"} => synth' = [synth EXCEPT !.phase = "marker"]
    BY <1>4, <1>7 DEF AudioArrives, SynthesisFails, TailDue, To, workerVars, playbackVars, queueVars
  <2>2. PICK j \in JobsOf(Turned(n)), p \in {"submit", "audio", "tail", "marker"} :
               synth = [phase |-> p, job |-> <<j>>]
    BY <1>2, <2>1
  <2>3. PICK p2 \in {"audio", "tail", "marker"} : synth' = [synth EXCEPT !.phase = p2]
    BY <2>1
  <2>4. synth'.job = synth.job
    BY <2>2, <2>3
  <2>5. synth.phase \in {"tail", "marker"} => synth'.phase = "marker"
    BY <2>1, <2>2
  <2>6. Marked => Marked'
    BY <2>1, <2>5 DEF Marked
  <2> QED
    BY <1>1, <1>5, <2>1, <2>4, <2>6
<1>8. CASE AudioQueued
  <2>1. /\ synth.phase = "audio" /\ synth' = [synth EXCEPT !.phase = "tail"] /\ jobs' = jobs
        /\ chunks' = chunks \/ chunks' = Append(chunks, Chunk(TRUE, FALSE))
    BY <1>8 DEF AudioQueued, To, Enqueue
  <2>2. PICK j \in JobsOf(Turned(n)), p \in {"submit", "audio", "tail", "marker"} :
               synth = [phase |-> p, job |-> <<j>>] /\ Job = j /\ Range(synth.job) = {j}
    BY <1>2, <1>4, <2>1
  <2>3. synth'.job = synth.job /\ synth'.phase = "tail"
    BY <2>1, <2>2
  <2>4. PICK c : c = Chunk(TRUE, FALSE)
    OBVIOUS
  <2>5. c.turn = j.turn /\ c \in ChunksOf(Turned(n), BOOLEAN)
    BY <2>2, <2>4 DEF Chunk, ChunksOf, JobsOf
  <2>6. \A x \in Range(chunks') : x \in Range(chunks) \/ x = c
    <3>1. CASE chunks' = chunks
      BY <3>1
    <3>2. CASE chunks' = Append(chunks, c)
      BY <1>0, <2>5, <3>2, AppendElems
    <3> QED
      BY <2>1, <2>4, <3>1, <3>2
  <2>7. Marked'
    BY <2>3 DEF Marked
  <2> QED
    BY <1>1, <1>4, <1>5, <2>1, <2>2, <2>3, <2>5, <2>6, <2>7
<1>9. CASE MarkerQueued
  <2>0. ~JobDead /\ synth # Resting
    BY <1>3, <1>4, <1>9 DEF MarkerQueued
  <2>1. synth.phase = "marker" /\ synth' = Resting /\ jobs' = jobs
        /\ chunks' = Append(chunks, Chunk(FALSE, TRUE))
    BY <1>9, <2>0 DEF MarkerQueued, EnqueueBlocking, workerVars
  <2>2. PICK j \in JobsOf(Turned(n)), p \in {"submit", "audio", "tail", "marker"} :
               synth = [phase |-> p, job |-> <<j>>] /\ Job = j /\ Range(synth.job) = {j}
    BY <1>2, <2>0
  <2>3. PICK c : c = Chunk(FALSE, TRUE)
    OBVIOUS
  <2>4. c.turn = j.turn /\ c \in ChunksOf(Turned(n), BOOLEAN) /\ c.eos
    BY <2>2, <2>3 DEF Chunk, ChunksOf, JobsOf
  <2>5. chunks' # <<>> /\ chunks'[Len(chunks')] = c /\ Range(chunks') = Range(chunks) \cup {c}
    <3>1. PICK q, r : q = chunks /\ r = chunks'
      OBVIOUS
    <3>2. q \in Seq(ChunksOf(Turned(n), BOOLEAN)) /\ r = Append(q, c)
      BY <1>0, <2>1, <2>3, <3>1
    <3>3. r # <<>> /\ r[Len(r)] = c
      BY <2>4, <3>2, ChunkAdded
    <3>a. chunks' = Append(chunks, c)
      BY <2>1, <2>3
    <3>4. Range(chunks') = Range(chunks) \cup {c}
      BY <1>0, <2>4, <3>a, AppendElems
    <3> QED
      BY <3>1, <3>3, <3>4
  <2>6. Marked'
    BY <2>4, <2>5 DEF Marked
  <2>7. Range(synth'.job) = {}
    BY <1>4, <2>1, NothingThere
  <2> QED
    BY <1>1, <1>5, <2>0, <2>1, <2>2, <2>4, <2>5, <2>6, <2>7
<1>10. ~JobDropped /\ ~TailDropped
  BY <1>3, <1>4 DEF JobDropped, TailDropped
<1> QED
  BY <1>6, <1>7, <1>8, <1>9, <1>10 DEF Synthesis

(* A sentence of the reply is synthesised. *)
LEMMA ReplySynthesised ==
    ASSUME NEW n \in Nat, BusShape(n), BridgeShape(n), PlayShape(n), Streaming, Undisturbed, Synthesis,
           UNCHANGED <<fsmVars, managerVars, queue, out, historyVars>>
    PROVE  Streaming'
<1>0. /\ Attending /\ Replying /\ Carrying /\ OfActive /\ Alive /\ Accounted /\ Marked /\ Informed
  BY DEF Streaming
<1>1. /\ UNCHANGED <<tokens, dead, current, postbox, heard, playbackTurn>>
      /\ jobs # <<>> \/ synth # Resting
      /\ Range(jobs') \cup Range(synth'.job) \subseteq Range(jobs) \cup Range(synth.job)
      /\ \A x \in Range(chunks') : x \in Range(chunks) \/ \E j \in Range(synth.job) : x.turn = j.turn
      /\ ~(synth.phase = "submit" /\ JobDead)
      /\ Marked'
  BY <1>0, SynthesisMoves
<1>2. UNCHANGED <<active, said, stream, state, llmFinished, step>>
  BY DEF fsmVars, perTurn, historyVars, managerVars
<1>3. Attending'
  BY <1>0, <1>2, AttendingKept DEF Attending
<1>4. Alive'
  BY <1>0, <1>1, <1>2 DEF Alive
<1>5. OfActive'
  <2>1. \A x \in Range(chunks') : x.turn = active
    BY <1>0, <1>1 DEF OfActive
  <2>2. \A x \in Range(jobs') \cup Range(synth'.job) : x.turn = active
    BY <1>0, <1>1 DEF OfActive
  <2> QED
    BY <1>0, <1>1, <1>2, <2>1, <2>2 DEF OfActive
<1>6. Replying'
  <2>1. stream.phase # "activate"
    BY <1>0, <1>1 DEF Replying, NothingSpoken
  <2> QED
    BY <1>0, <1>1, <1>2, <2>1 DEF Replying
<1>7. Carrying'
  BY <1>0, <1>2 DEF Carrying
<1>8. Informed'
  <2>1. Over => Over'
    BY <1>2 DEF Over
  <2> QED
    BY <1>0, <1>2, <2>1, InformedKept
<1>9. Accounted'
  <2>1. unsaid' \cup Underway' = unsaid \cup Underway
    <3>0. /\ jobs \in Seq(JobsOf(Turned(n))) /\ chunks \in Seq(ChunksOf(Turned(n), BOOLEAN))
      BY DEF BridgeShape, PlayShape
    <3>1. CASE /\ jobs # <<>> /\ jobs' = Tail(jobs) /\ UNCHANGED <<chunks, unsaid>>
               /\ WorkOf(synth) = {} /\ WorkOf(synth') = {Mark(Head(jobs))}
      <4>1. Marks(Range(jobs)) = {Mark(Head(jobs))} \cup Marks(Range(jobs'))
        BY <3>0, <3>1, MarksTaken
      <4> QED
        BY <3>1, <4>1 DEF Underway
    <3>2. CASE WorkOf(synth') = WorkOf(synth) /\ UNCHANGED <<jobs, chunks, unsaid>>
      BY <3>2 DEF Underway
    <3>3. ASSUME NEW x, WorkOf(synth) = {x}, WorkOf(synth') = {}, unsaid' = unsaid \cup {x},
                 UNCHANGED <<jobs, chunks>>
          PROVE  unsaid' \cup Underway' = unsaid \cup Underway
      BY <3>3 DEF Underway
    <3>4. ASSUME NEW c \in ChunksOf(Turned(n), BOOLEAN), UNCHANGED <<jobs, unsaid>>,
                 chunks' = Append(chunks, c), WorkOf(synth) = (IF c.audio THEN {Mark(c)} ELSE {}),
                 WorkOf(synth') = {}
          PROVE  unsaid' \cup Underway' = unsaid \cup Underway
      <4>1. AudioOf(chunks') = AudioOf(chunks) \cup WorkOf(synth)
        BY <3>0, <3>4, MarksAppended
      <4> QED
        BY <3>4, <4>1 DEF Underway
    <3> QED
      BY <1>1, <3>1, <3>2, <3>3, <3>4, SentenceSynthesised
  <2> QED
    BY <1>0, <1>1, <1>2, <2>1, AccountedKept
<1> QED
  BY <1>1, <1>3, <1>4, <1>5, <1>6, <1>7, <1>8, <1>9 DEF Streaming

(* The first chunk is taken out of the queue. *)
LEMMA FirstChunk ==
    ASSUME NEW T, NEW q \in Seq(T), q # <<>>, NEW r, r = SubSeq(q, 1 + 1, Len(q))
    PROVE  /\ r = Tail(q) /\ Range(r) \subseteq Range(q) /\ q[1] \in Range(q)
           /\ r # <<>> => r[Len(r)] = q[Len(q)]
           /\ AudioOf(q) = AudioOf(r) \cup (IF q[1].audio THEN {Mark(q[1])} ELSE {})
<1>1. PICK t : t = Tail(q)
  OBVIOUS
<1>2. t \in Seq(T) /\ Len(t) = Len(q) - 1 /\ (\A i \in 1 .. Len(q) - 1 : t[i] = q[i + 1]) /\ Len(q) \in Nat
      /\ Len(q) >= 1
  BY <1>1, TailAt
<1>3. /\ DOMAIN r = 1 .. Len(q) - 1 /\ \A i \in 1 .. Len(q) - 1 : r[i] = q[i + 1]
  BY <1>2
<1>4. r = t
  BY <1>2, <1>3
<1>a. Head(q) = q[1]
  BY <1>2
<1>b. Range(q) = {Head(q)} \cup Range(Tail(q))
  BY TailElems
<1>5. Range(q) = {q[1]} \cup Range(r)
  BY <1>1, <1>4, <1>a, <1>b
<1>6. r # <<>> => r[Len(r)] = q[Len(q)]
  BY <1>2, <1>4
<1>7. AudioOf(q) = AudioOf(r) \cup (IF q[1].audio THEN {Mark(q[1])} ELSE {})
  BY <1>5 DEF AudioOf, Marks
<1> QED
  BY <1>1, <1>4, <1>5, <1>6, <1>7

(* The audio callback goes on with the reply. *)
LEMMA ReplyRendered ==
    ASSUME NEW n \in Nat, BusShape(n), BridgeShape(n), PlayShape(n), HeardShape(n), Streaming, Undisturbed,
           Render, UNCHANGED <<fsmVars, managerVars, bridgeVars, queue, out, historyVars>>
    PROVE  Streaming'
<1>0. /\ Attending /\ Replying /\ Carrying /\ OfActive /\ Alive /\ Accounted /\ Marked /\ Informed
  BY DEF Streaming
<1>1. UNCHANGED <<active, said, stream, state, llmFinished, step, tokens, dead, jobs, synth, unsaid>>
  BY DEF fsmVars, perTurn, historyVars, managerVars, bridgeVars, workerVars
<1>2. Attending'
  BY <1>0, <1>1, AttendingKept DEF Attending
<1>3. Alive'
  BY <1>0, <1>1 DEF Alive
<1>4. Carrying'
  BY <1>0, <1>1 DEF Carrying
<1>5. Informed'
  <2>1. Over => Over'
    BY <1>1 DEF Over
  <2> QED
    BY <1>0, <1>1, <2>1, InformedKept
<1>6. CASE TurnPrimed
  <2>1. UNCHANGED <<chunks, current, postbox, heard, playbackTurn>>
    BY <1>6 DEF TurnPrimed, queueVars
  <2>2. Replying'
    BY <1>0, <1>1, <2>1 DEF Replying, NothingSpoken
  <2>3. OfActive' /\ Marked'
    BY <1>0, <1>1, <2>1 DEF OfActive, Marked
  <2>4. Accounted'
    <3>1. Underway' = Underway
      BY <1>1, <2>1 DEF Underway
    <3> QED
      BY <1>0, <1>1, <2>1, <3>1, AccountedKept
  <2> QED
    BY <1>2, <1>3, <1>4, <1>5, <2>2, <2>3, <2>4 DEF Streaming
<1>7. CASE ChunkConsumed
  <2>1. /\ current # <<>> /\ current' = <<>> /\ UNCHANGED <<chunks, heard, playbackTurn>>
        /\ postbox' = Append(postbox, [turn |-> current[1].turn, seq |-> current[1].seq])
    BY <1>7 DEF ChunkConsumed, queueVars
  <2>2. PICK k \in ChunksOf(Turned(n), {TRUE}) : current = <<k>>
    BY <2>1 DEF PlayShape, CurrentShape
  <2>3. k.turn = active
    BY <1>0, <2>2 DEF OfActive, Range
  <2>4. PICK p : p = [turn |-> k.turn, seq |-> k.seq]
    OBVIOUS
  <2>5. p \in Posts(Turned(n)) /\ p.turn = active /\ postbox' = Append(postbox, p)
        /\ postbox \in Seq(Posts(Turned(n)))
    BY <2>1, <2>2, <2>3, <2>4 DEF ChunksOf, Posts, PlayShape
  <2>6. Range(postbox') = Range(postbox) \cup {p}
    BY <2>5, AppendElems
  <2>7. OfActive'
    <3>1. \A x \in Range(postbox') : x.turn = active
      BY <1>0, <2>5, <2>6 DEF OfActive
    <3>2. Range(current') = {}
      BY <2>1, NothingThere
    <3> QED
      BY <1>0, <1>1, <2>1, <3>1, <3>2 DEF OfActive
  <2>8. Replying'
    <3>1. stream.phase # "activate"
      BY <1>0, <2>1 DEF Replying, NothingSpoken
    <3> QED
      BY <1>0, <1>1, <2>1, <3>1 DEF Replying
  <2>9. Marked'
    BY <1>0, <1>1, <2>1 DEF Marked
  <2>10. Accounted'
    <3>1. Underway' = Underway
      BY <1>1, <2>1 DEF Underway
    <3> QED
      BY <1>0, <1>1, <2>1, <3>1, AccountedKept
  <2> QED
    BY <1>2, <1>3, <1>4, <1>5, <2>7, <2>8, <2>9, <2>10 DEF Streaming
<1>8. CASE NextChunk
  <2>1. chunks # <<>> /\ chunks \in Seq(ChunksOf(Turned(n), BOOLEAN)) /\ UNCHANGED <<postbox, playbackTurn>>
    BY <1>8 DEF NextChunk, PlayShape
  <2>2. stream.phase # "activate" /\ playbackTurn = active
    BY <1>0, <2>1 DEF Replying, NothingSpoken
  <2>3. Len(chunks) \in Nat /\ Len(chunks) >= 1 /\ 1 \in Live
    <3>1. Len(chunks) \in Nat /\ Len(chunks) >= 1 /\ 1 \in DOMAIN chunks
      BY <2>1
    <3>2. chunks[1] \in Range(chunks)
      BY <3>1 DEF Range
    <3>3. chunks[1].turn = active
      BY <1>0, <3>2 DEF OfActive
    <3> QED
      BY <2>2, <3>1, <3>3 DEF Live
  <2>4. /\ current' = IF chunks[1].eos THEN <<chunks[1]>> ELSE <<>>
        /\ chunks' = SubSeq(chunks, 1 + 1, Len(chunks))
        /\ heard' = IF chunks[1].audio THEN Append(heard, <<chunks[1].turn, chunks[1].seq>>) ELSE heard
    <3>1. PICK i \in Live :
            /\ \A j \in Live : i <= j
            /\ current' = IF chunks[i].eos THEN <<chunks[i]>> ELSE <<>>
            /\ chunks' = SubSeq(chunks, i + 1, Len(chunks))
            /\ heard' = IF chunks[i].audio
                        THEN Append(heard, <<chunks[i].turn, chunks[i].seq>>) ELSE heard
      BY <1>8, <2>3 DEF NextChunk
    <3>2. i = 1
      BY <2>3, <3>1 DEF Live
    <3> QED
      BY <3>1, <3>2
  <2>5. PICK q, r : q = chunks /\ r = chunks'
    OBVIOUS
  <2>6. q \in Seq(ChunksOf(Turned(n), BOOLEAN)) /\ q # <<>> /\ r = SubSeq(q, 1 + 1, Len(q))
    BY <2>1, <2>4, <2>5
  <2>7. /\ Range(r) \subseteq Range(q) /\ q[1] \in Range(q)
        /\ r # <<>> => r[Len(r)] = q[Len(q)]
        /\ AudioOf(q) = AudioOf(r) \cup (IF q[1].audio THEN {Mark(q[1])} ELSE {})
    BY <2>6, FirstChunk
  <2>8. Replying'
    BY <1>0, <1>1, <2>1, <2>2 DEF Replying
  <2>9. OfActive'
    <3>1. \A x \in Range(chunks') : x.turn = active
      BY <1>0, <2>5, <2>7 DEF OfActive
    <3>2. \A x \in Range(current') : x = chunks[1]
      BY <2>4 DEF Range
    <3>3. \A x \in Range(current') : x.turn = active
      BY <1>0, <2>5, <2>7, <3>2 DEF OfActive
    <3> QED
      BY <1>0, <1>1, <2>1, <3>1, <3>3 DEF OfActive
  <2>10. Marked'
    <3>1. CASE synth.phase \in {"tail", "marker"}
      BY <1>1, <3>1 DEF Marked
    <3>2. CASE q[Len(q)].eos
      <4>1. r = <<>> \/ r[Len(r)].eos
        BY <2>7, <3>2
      <4> QED
        BY <2>5, <4>1 DEF Marked
    <3>3. q[Len(q)].eos \/ synth.phase \in {"tail", "marker"}
      BY <1>0, <2>1, <2>5 DEF Marked
    <3> QED
      BY <3>1, <3>2, <3>3
  <2>11. Accounted'
    <3>1. Range(heard') = Range(heard) \cup (IF q[1].audio THEN {Mark(q[1])} ELSE {})
      <4>0. heard \in Seq(Turned(n) \X Nat) /\ q[1] \in ChunksOf(Turned(n), BOOLEAN)
        <5>1. q[1] \in ChunksOf(Turned(n), BOOLEAN)
          BY <2>6
        <5> QED
          BY <5>1 DEF HeardShape
      <4>1. CASE q[1].audio
        <5>1. PICK m : m = Mark(q[1])
          OBVIOUS
        <5>2. m \in Turned(n) \X Nat /\ heard' = Append(heard, m)
          BY <2>4, <2>5, <4>0, <4>1, <5>1 DEF Mark, ChunksOf
        <5>3. Range(heard') = Range(heard) \cup {m}
          BY <4>0, <5>2, AppendElems, SMTT(60)
        <5> QED
          BY <4>1, <5>1, <5>3
      <4>2. CASE ~q[1].audio
        BY <2>4, <2>5, <4>2
      <4> QED
        BY <4>1, <4>2
    <3>2. Range(heard') \cup unsaid' \cup Underway' = Range(heard) \cup unsaid \cup Underway
      BY <1>1, <2>5, <2>7, <3>1 DEF Underway
    <3> QED
      BY <1>0, <1>1, <3>2, AccountedKept
  <2> QED
    BY <1>2, <1>3, <1>4, <1>5, <2>8, <2>9, <2>10, <2>11 DEF Streaming
<1> QED
  BY <1>6, <1>7, <1>8 DEF Render

(* What is counted to none and would all be counted is empty. *)
LEMMA CountedEmpty ==
    ASSUME NEW T, NEW q \in Seq(T), NEW S, Count(q, S) = 0, \A x \in Range(q) : x \in S
    PROVE  q = <<>>
<1>1. \A i \in DOMAIN q : q[i] \notin S
  BY CountedNone
<1>2. \A i \in DOMAIN q : q[i] \in Range(q)
  BY DEF Range
<1>3. DOMAIN q = {}
  BY <1>1, <1>2
<1> QED
  BY <1>3

(* Once the FSM has counted as many sentences played as received and the stream is over,  *)
(* nothing of the reply is left: every sentence still on its way would be one more to     *)
(* count.                                                                                 *)
LEMMA NothingLeft ==
    ASSUME NEW n \in Nat, BusShape(n), BridgeShape(n), PlayShape(n), NEW a \in Nat, a = active,
           NEW q \in Seq(Events(Turned(n))), HasOnly(q, {"PlaybackFinished"}),
           \A e \in Range(q) : e.turn = a,
           Load(a) + Count(q, Playbacks({a})) <= Count(q, Sentences(Nat)),
           OfActive, Marked, Over
    PROVE  /\ q = <<>> /\ NothingSpoken /\ Underway = {}
           /\ \A e \in Range(queue["bridge"]) : e.type # "LlmSentence"
           /\ out["llm"] # <<>> => Head(out["llm"]).event.type # "LlmSentence"
<1>1. Count(q, Sentences(Nat)) = 0
  <2>1. \A i \in 1 .. Len(q) : q[i] \notin Sentences(Nat)
    BY DEF HasOnly, Range, Sentences
  <2>2. Len(q) \in Nat
    OBVIOUS
  <2> QED
    BY <2>1, <2>2, UptoNone DEF Count
<1>2. /\ Spoken(jobs, synth, a) \in Nat /\ Playing(chunks, current, postbox, a) \in Nat
      /\ Count(queue["bridge"], Sentences({a})) \in Nat
      /\ Passed(out["llm"], a) \in Nat /\ Announced(out["playback"], a) \in Nat
      /\ Load(a) \in Nat
  BY LoadTypes
<1>3. Count(q, Playbacks({a})) \in Nat
  BY CountType
<1>4. Load(a) = 0 /\ Count(q, Playbacks({a})) = 0
  BY <1>1, <1>2, <1>3
<1>5. /\ Spoken(jobs, synth, a) = 0 /\ Playing(chunks, current, postbox, a) = 0
      /\ Count(queue["bridge"], Sentences({a})) = 0
      /\ Passed(out["llm"], a) = 0 /\ Announced(out["playback"], a) = 0
  <2>1. PICK u, v, w, x, y : /\ u = Spoken(jobs, synth, a) /\ v = Playing(chunks, current, postbox, a)
                             /\ w = Count(queue["bridge"], Sentences({a}))
                             /\ x = Passed(out["llm"], a) /\ y = Announced(out["playback"], a)
    OBVIOUS
  <2>2. u \in Nat /\ v \in Nat /\ w \in Nat /\ x \in Nat /\ y \in Nat
    BY <1>2, <2>1
  <2>3. u + v + w + x + y = 0
    BY <1>4, <2>1 DEF Load
  <2>4. u = 0 /\ v = 0 /\ w = 0 /\ x = 0 /\ y = 0
    BY <2>2, <2>3
  <2> QED
    BY <2>1, <2>4
<1>6. /\ jobs \in Seq(JobsOf(Turned(n))) /\ SynthShape(synth, n)
      /\ chunks \in Seq(ChunksOf(Turned(n), BOOLEAN)) /\ CurrentShape(current, n)
      /\ postbox \in Seq(Posts(Turned(n))) /\ queue["bridge"] \in Seq(Events(Turned(n)))
  BY DEF BridgeShape, PlayShape, BusShape, QueueShape, Subscribers
<1>7. \A S : /\ Count(jobs, S) \in Nat /\ Count(synth.job, S) \in Nat
             /\ Count(chunks, S) \in Nat /\ Count(current, S) \in Nat /\ Count(postbox, S) \in Nat
  BY <1>6, OnTheWayTypes
<1>8. /\ Count(jobs, JobsOf({a})) = 0 /\ Count(synth.job, JobsOf({a})) = 0
      /\ Count(chunks, ChunksOf({a}, {TRUE})) = 0 /\ Count(current, ChunksOf({a}, {TRUE})) = 0
      /\ Count(postbox, Posts({a})) = 0
  <2>1. PICK u, v, w, x, y : /\ u = Count(jobs, JobsOf({a})) /\ v = Count(synth.job, JobsOf({a}))
                             /\ w = Count(chunks, ChunksOf({a}, {TRUE}))
                             /\ x = Count(current, ChunksOf({a}, {TRUE})) /\ y = Count(postbox, Posts({a}))
    OBVIOUS
  <2>2. u \in Nat /\ v \in Nat /\ w \in Nat /\ x \in Nat /\ y \in Nat
    BY <1>7, <2>1
  <2>3. u + v = 0 /\ w + x + y = 0
    BY <1>5, <2>1 DEF Spoken, Playing
  <2>4. u = 0 /\ v = 0 /\ w = 0 /\ x = 0 /\ y = 0
    BY <2>2, <2>3
  <2> QED
    BY <2>1, <2>4
<1>9. q = <<>>
  <2>1. \A x \in Range(q) : x \in Playbacks({a})
    <3>1. \A x \in Range(q) : x \in Events(Turned(n)) /\ x.type = "PlaybackFinished" /\ x.turn = a
      BY DEF HasOnly, Range
    <3> QED
      BY <3>1 DEF Events, Playbacks
  <2> QED
    BY <1>4, <2>1, CountedEmpty
<1>10. jobs = <<>>
  <2>1. \A x \in Range(jobs) : x \in JobsOf({a})
    <3>1. \A x \in Range(jobs) : x \in JobsOf(Turned(n)) /\ x.turn = a
      BY <1>6 DEF OfActive, Range
    <3> QED
      BY <3>1 DEF JobsOf
  <2> QED
    BY <1>6, <1>8, <2>1, CountedEmpty
<1>11. synth = Resting
  <2>1. ASSUME NEW j \in JobsOf(Turned(n)), NEW p, synth = [phase |-> p, job |-> <<j>>] PROVE FALSE
    <3>1. synth.job = <<j>> /\ Range(synth.job) = {j}
      BY <2>1 DEF Range
    <3>2. j.turn = a
      BY <3>1 DEF OfActive
    <3>3. j \in JobsOf({a})
      BY <2>1, <3>2 DEF JobsOf
    <3>4. Count(synth.job, JobsOf({a})) = One(j, JobsOf({a}))
      BY <3>1, CountOne
    <3> QED
      BY <1>8, <3>3, <3>4 DEF One
  <2> QED
    BY <1>6, <2>1 DEF SynthShape
<1>12. chunks = <<>>
  <2>1. SUFFICES ASSUME chunks # <<>> PROVE FALSE
    OBVIOUS
  <2>2. Len(chunks) \in DOMAIN chunks /\ chunks[Len(chunks)] \in ChunksOf(Turned(n), BOOLEAN)
    BY <1>6, <2>1
  <2>3. Resting.phase = "idle"
    BY DEF Resting
  <2>4. chunks[Len(chunks)].eos
    BY <1>11, <2>1, <2>3 DEF Marked
  <2>5. chunks[Len(chunks)].turn = a
    BY <2>2 DEF OfActive, Range
  <2>6. PICK c : c = chunks[Len(chunks)]
    OBVIOUS
  <2>7. c \in ChunksOf({a}, {TRUE})
    BY <2>2, <2>4, <2>5, <2>6 DEF ChunksOf
  <2>8. \A i \in DOMAIN chunks : chunks[i] \notin ChunksOf({a}, {TRUE})
    BY <1>6, <1>8, CountedNone
  <2> QED
    BY <2>2, <2>6, <2>7, <2>8
<1>13. current = <<>>
  <2>1. ASSUME NEW k \in ChunksOf(Turned(n), {TRUE}), current = <<k>> PROVE FALSE
    <3>1. k.turn = a
      BY <2>1 DEF OfActive, Range
    <3>2. k \in ChunksOf({a}, {TRUE})
      BY <2>1, <3>1 DEF ChunksOf
    <3>3. Count(current, ChunksOf({a}, {TRUE})) = One(k, ChunksOf({a}, {TRUE}))
      BY <2>1, CountOne
    <3> QED
      BY <1>8, <3>2, <3>3 DEF One
  <2> QED
    BY <1>6, <2>1 DEF CurrentShape
<1>14. postbox = <<>>
  <2>1. \A x \in Range(postbox) : x \in Posts({a})
    <3>1. \A x \in Range(postbox) : x \in Posts(Turned(n)) /\ x.turn = a
      BY <1>6 DEF OfActive, Range
    <3> QED
      BY <3>1 DEF Posts
  <2> QED
    BY <1>6, <1>8, <2>1, CountedEmpty
<1>15. out["playback"] = <<>>
  <2>1. ASSUME NEW e \in Playbacks(Turned(n)), out["playback"] = <<Push("fsm", e)>> PROVE FALSE
    <3>1. e.turn = a
      BY <2>1 DEF OfActive, Range, Push
    <3>2. e \in Playbacks({a})
      BY <2>1, <3>1 DEF Playbacks
    <3>3. Announced(out["playback"], a) = One(e, Playbacks({a}))
      BY <2>1, AnnouncedOne
    <3> QED
      BY <1>5, <3>2, <3>3 DEF One
  <2> QED
    BY <2>1 DEF BusShape, OutShape, PlaybackOut
<1>16. \A e \in Range(queue["bridge"]) : e.type # "LlmSentence"
  <2>1. ASSUME NEW i \in DOMAIN queue["bridge"], queue["bridge"][i].type = "LlmSentence" PROVE FALSE
    <3>1. PICK e : e = queue["bridge"][i]
      OBVIOUS
    <3>2. e \in Events(Turned(n)) /\ e.turn = a /\ e.type = "LlmSentence"
      BY <1>6, <2>1, <3>1 DEF OfActive, Range
    <3>3. e \in Sentences({a})
      BY <3>2 DEF Events, Sentences
    <3>4. \A k \in DOMAIN queue["bridge"] : queue["bridge"][k] \notin Sentences({a})
      BY <1>5, <1>6, CountedNone
    <3> QED
      BY <2>1, <3>1, <3>3, <3>4
  <2> QED
    BY <2>1 DEF Range
<1>17. out["llm"] # <<>> => Head(out["llm"]).event.type # "LlmSentence"
  <2>1. SUFFICES ASSUME out["llm"] # <<>>, Head(out["llm"]).event.type = "LlmSentence" PROVE FALSE
    OBVIOUS
  <2>2. PICK e \in Events(Turned(n)) :
           \/ out["llm"] = <<Push("bridge", e)>>
           \/ out["llm"] = <<Push("fsm", e), Push("bridge", e)>>
    BY <2>1 DEF BusShape, OutShape, LlmOut
  <2>3. PICK db, df : db = Push("bridge", e) /\ df = Push("fsm", e)
    OBVIOUS
  <2>4. db.to = "bridge" /\ db.event = e /\ df.to = "fsm" /\ df.event = e
    BY <2>3 DEF Push
  <2>5. out["llm"] = <<db>>
    <3>1. out["llm"] # <<df, db>>
      BY <2>1, <2>4, Short DEF Over
    <3> QED
      BY <2>2, <2>3, <3>1
  <2>6. e.type = "LlmSentence" /\ e.turn = a
    <3>1. Head(out["llm"]) = db /\ db \in Range(out["llm"])
      BY <2>5, Short DEF Range
    <3> QED
      BY <2>1, <2>4, <3>1 DEF OfActive
  <2>7. e \in Sentences({a})
    BY <2>6 DEF Events, Sentences
  <2>8. Passed(out["llm"], a) = One(e, Sentences({a}))
    BY <2>3, <2>5, PassedOne
  <2> QED
    BY <1>5, <2>7, <2>8 DEF One
<1>18. Underway = {}
  <2>1. SaidTo(queue["bridge"]) = {}
    BY <1>16 DEF SaidTo, Marks
  <2>2. DueTo(out["llm"]) = {}
    BY <1>17 DEF DueTo
  <2> QED
    BY <1>10, <1>11, <1>12, <2>1, <2>2, NothingThere DEF Underway
<1> QED
  BY <1>9, <1>10, <1>11, <1>12, <1>13, <1>14, <1>15, <1>16, <1>17, <1>18 DEF NothingSpoken

\* What the FSM leaves alone when it takes an event of the reply.
HandsOff ==
    /\ UNCHANGED <<out, stream, said, playbackTurn, jobs, synth, chunks, current, postbox,
                   tokens, dead, heard, unsaid>>
    /\ queue'["bridge"] = queue["bridge"] /\ queue'["fsm"] = Tail(queue["fsm"])

LEMMA FsmHandsOff ==
    ASSUME NEW n \in Nat, BusShape(n), Attending, Undisturbed, FsmHandles
    PROVE  HandsOff
<1>1. PICK e : e = Head(queue["fsm"])
  OBVIOUS
<1>2. /\ queue'["fsm"] = Tail(queue["fsm"])
      /\ \A s \in Subscribers : s # "fsm" => queue'[s] = queue[s]
      /\ \A t \in Publishers : t # "fsm" => out'[t] = out[t]
      /\ UNCHANGED <<managerVars, bridgeVars, playbackVars, micVars, summary, historyVars>>
  BY <1>1, FsmTakes
<1>3. out'["fsm"] = <<>>
  BY DEF Undisturbed, Publishers, Attending
<1>4. step' # "interrupt"
  <2>1. PICK x : x = Push("manager", Event("CancelGeneration", active, 0))
    OBVIOUS
  <2>2. out'["fsm"] = IF step' = "interrupt" THEN <<x>> ELSE <<>>
    BY <1>1, <2>1, FsmTakes
  <2>3. <<x>> # <<>>
    OBVIOUS
  <2> QED
    BY <1>3, <2>2, <2>3
<1>5. out' = out
  BY <1>4 DEF FsmHandles
<1> QED
  BY <1>2, <1>5 DEF HandsOff, managerVars, bridgeVars, workerVars, playbackVars, queueVars, engineVars,
     historyVars, Subscribers

(* The parts of the session that are none of the FSM's business. *)
LEMMA PartsHandsOff ==
    ASSUME NEW n \in Nat, BusShape(n), queue["fsm"] # <<>>, Streaming, Undisturbed, HandsOff
    PROVE  /\ Replying' /\ Carrying' /\ OfActive' /\ Alive' /\ Accounted' /\ Marked'
           /\ (Over' <=> Over) /\ Underway' = Underway
<1>0. /\ Replying /\ Carrying /\ OfActive /\ Alive /\ Accounted /\ Marked
  BY DEF Streaming
<1>1. UNCHANGED <<active, out, stream, said, playbackTurn, jobs, synth, chunks, current, postbox,
                  tokens, dead, heard, unsaid>> /\ queue'["bridge"] = queue["bridge"]
  BY DEF HandsOff, Undisturbed
<1>2. Underway' = Underway
  BY <1>1 DEF Underway
<1>3. Accounted'
  BY <1>0, <1>1, <1>2, AccountedKept
<1>4. Replying'
  BY <1>0, <1>1 DEF Replying, NothingSpoken
<1>5. Carrying' /\ Alive' /\ Marked'
  BY <1>0, <1>1 DEF Carrying, Alive, Marked
<1>6. Over' <=> Over
  BY <1>1 DEF Over
<1>7. OfActive'
  <2>1. queue["fsm"] \in Seq(Events(Turned(n)))
    BY DEF BusShape, QueueShape, Subscribers
  <2>2. Range(queue["fsm"]) = {Head(queue["fsm"])} \cup Range(queue'["fsm"])
    BY <2>1, TailElems DEF HandsOff
  <2>3. \A e \in Range(queue'["fsm"]) : e.type = "PlaybackFinished" => e.turn = active
    BY <1>0, <2>2 DEF OfActive
  <2> QED
    BY <1>0, <1>1, <2>3 DEF OfActive
<1> QED
  BY <1>2, <1>3, <1>4, <1>5, <1>6, <1>7

(* The FSM completes the turn. *)
LEMMA ReplyDone ==
    ASSUME NEW n \in Nat, BusShape(n), BridgeShape(n), PlayShape(n), FsmTypeOK, Streaming, Undisturbed,
           HandsOff, step' = "settle", NEW q, q = Tail(queue["fsm"]), q \in Seq(Events(Turned(n))),
           HasOnly(q, {"PlaybackFinished"}), \A e \in Range(q) : e.turn = active,
           NEW p \in Nat, Balanced(q, p, p, Load(active), active), Over
    PROVE  Rest' /\ Told(active) = 0 .. said[active] - 1
<1>0. /\ Attending /\ Carrying /\ OfActive /\ Accounted /\ Marked
  BY DEF Streaming
<1>1. PICK a : a = active
  OBVIOUS
<1>2. a \in Nat
  BY <1>1 DEF FsmTypeOK
<1>3. Load(a) \in Nat /\ Count(q, Playbacks({a})) \in Nat /\ Count(q, Sentences(Nat)) \in Nat
  BY LoadTypes, CountType
<1>4. Load(a) + Count(q, Playbacks({a})) <= Count(q, Sentences(Nat))
  <2>1. p + Count(q, Playbacks({a})) + Load(a) <= p + Count(q, Sentences(Nat))
    BY <1>1 DEF Balanced
  <2> QED
    BY <1>3, <2>1
<1>5. /\ q = <<>> /\ NothingSpoken /\ Underway = {}
      /\ \A e \in Range(queue["bridge"]) : e.type # "LlmSentence"
      /\ out["llm"] # <<>> => Head(out["llm"]).event.type # "LlmSentence"
  BY <1>0, <1>1, <1>2, <1>4, NothingLeft
<1>6. Told(active) = 0 .. said[active] - 1
  BY <1>0, <1>5 DEF Accounted, Told
<1>7. /\ UNCHANGED <<out, stream, talking, atStt, pending, jobs, synth, chunks, current, postbox>>
      /\ queue'["bridge"] = queue["bridge"] /\ queue'["fsm"] = <<>>
      /\ queue'["bargein"] = queue["bargein"] /\ queue'["manager"] = queue["manager"]
  BY <1>5 DEF HandsOff, Undisturbed, Subscribers
<1>8. Silence' /\ NothingSpoken' /\ StreamOver' /\ Over'
  BY <1>0, <1>5, <1>7 DEF Attending, Silence, NothingSpoken, StreamOver, Over
<1>9. Unwinding'
  <2>1. HasOnly(queue["bridge"], {"LlmStarted", "LlmFinished", "UserInterrupted"})
    BY <1>0, <1>5 DEF Carrying, HasOnly, Reply
  <2>2. queue'["manager"] = <<>>
    BY <1>0, <1>7 DEF Attending
  <2> QED
    BY <1>7, <2>1, <2>2, NothingThere DEF Unwinding
<1>10. Refusing'
  BY <1>0, <1>7 DEF Refusing, Attending
<1>11. out'["llm"] = <<>> \/ Head(out'["llm"]).event.type \in {"LlmStarted", "LlmFinished"}
  <2>1. out["llm"] # <<>> => Head(out["llm"]).event.type \in Reply
    <3>1. ASSUME NEW e, out["llm"] = <<Push("bridge", e)>> \/ out["llm"] = <<Push("fsm", e), Push("bridge", e)>>
          PROVE  Head(out["llm"]) \in Range(out["llm"])
      <4>1. PICK x, y : x = Push("bridge", e) /\ y = Push("fsm", e)
        OBVIOUS
      <4>2. out["llm"] = <<x>> \/ out["llm"] = <<y, x>>
        BY <3>1, <4>1
      <4> QED
        BY <4>2, Short DEF Range
    <3>2. out["llm"] # <<>> => Head(out["llm"]) \in Range(out["llm"])
      BY <3>1 DEF BusShape, OutShape, LlmOut
    <3> QED
      BY <1>0, <3>2 DEF Carrying
  <2> QED
    BY <1>5, <1>7, <2>1 DEF Reply
<1>12. out'["fsm"] = <<>>
  BY <1>0, <1>7 DEF Attending
<1> QED
  BY <1>6, <1>7, <1>8, <1>9, <1>10, <1>11, <1>12 DEF Rest

(* The FSM takes the transcript, or an event of the reply. *)
LEMMA ReplyTakenByFsm ==
    ASSUME NEW n \in Nat, n = nextTurn, BusShape(n), BridgeShape(n), PlayShape(n), FsmTypeOK, PlaysBehind,
           Streaming, Undisturbed, FsmHandles
    PROVE  \/ Streaming' /\ UNCHANGED ended
           \/ /\ Rest' /\ ended' = ended \cup {<<active, "completed">>}
              /\ Told(active) = 0 .. said[active] - 1
<1>0. /\ Attending /\ Informed /\ OfActive /\ step = "idle"
  BY DEF Streaming, Attending
<1>1. PICK e : e = Head(queue["fsm"])
  OBVIOUS
<1>2. /\ Dispatch(e) /\ e \in Range(queue["fsm"]) /\ queue["fsm"] \in Seq(Events(Turned(n)))
      /\ queue["fsm"] # <<>>
  BY <1>1, FsmTakes
<1>3. HandsOff
  BY <1>0, FsmHandsOff
<1>4. /\ Replying' /\ Carrying' /\ OfActive' /\ Alive' /\ Accounted' /\ Marked'
      /\ (Over' <=> Over)
  BY <1>2, <1>3, PartsHandsOff
<1>5. PICK q : q = Tail(queue["fsm"])
  OBVIOUS
<1>6. /\ q \in Seq(Events(Turned(n))) /\ e \in Events(Turned(n))
      /\ Range(queue["fsm"]) = {e} \cup Range(q) /\ queue'["fsm"] = q
  BY <1>1, <1>2, <1>3, <1>5, TailElems DEF HandsOff
<1>7. Ordered(q, FinishedLast) /\ \A x \in Range(q) : <<e, x>> \in FinishedLast
  BY <1>0, <1>1, <1>2, <1>5, TailOrdered DEF Informed
<1>8. \A x \in Range(q) : x.type = "PlaybackFinished" => x.turn = active
  BY <1>0, <1>6 DEF OfActive
<1>9. Balanced(q, played', received', Load(active), active) /\ played' \in Nat /\ received' \in Nat
  <2>1. PICK a : a = active
    OBVIOUS
  <2>2. a \in Nat /\ played \in Nat /\ received \in Nat
    BY <2>1 DEF FsmTypeOK
  <2>3. ~BeginTurn
    BY DEF BeginTurn, Undisturbed, FsmTypeOK
  <2>4. played' = played + One(e, Playbacks({a})) /\ received' = received + One(e, Sentences(Nat))
    BY <1>2, <1>6, <2>1, <2>2, <2>3, FsmCountsEvent
  <2>5. One(e, Playbacks({a})) \in Nat /\ One(e, Sentences(Nat)) \in Nat
    BY OneType
  <2>6. PICK p, r, p2, r2, l, f : /\ p = played /\ r = received /\ p2 = played' /\ r2 = received'
                                  /\ l = Load(a) /\ f = queue["fsm"]
    OBVIOUS
  <2>7. /\ p \in Nat /\ r \in Nat /\ p2 \in Nat /\ r2 \in Nat /\ p2 = p + One(Head(f), Playbacks({a}))
        /\ r2 = r + One(Head(f), Sentences(Nat)) /\ f \in Seq(Events(Turned(n))) /\ f # <<>>
    BY <1>1, <1>2, <2>2, <2>4, <2>5, <2>6
  <2>8. l \in Nat
    BY <2>6, LoadTypes
  <2>9. Balanced(f, p, r, l, a) /\ Ahead(f, p, r, a)
    BY <2>1, <2>6 DEF PlaysBehind
  <2>10. Balanced(Tail(f), p2, r2, l, a)
    BY <2>7, <2>8, <2>9, FsmCounts
  <2> QED
    BY <1>5, <2>1, <2>6, <2>7, <2>10
<1>10. ASSUME step' = "idle", Expects(state', q), llmFinished' \in BOOLEAN,
              llmFinished' => HasOnly(q, {"FinalTranscript", "PlaybackFinished"}) /\ Over
       PROVE  Streaming'
  <2>1. Attending'
    BY <1>0, <1>10, AttendingKept
  <2>2. (\E x \in Range(q) : x.type = "LlmFinished") => Over
    BY <1>0, <1>6 DEF Informed
  <2>3. Informed'
    BY <1>4, <1>6, <1>7, <1>10, <2>2 DEF Informed
  <2> QED
    BY <1>4, <2>1, <2>3 DEF Streaming
<1>11. llmFinished \in BOOLEAN /\ (llmFinished => HasOnly(q, {"FinalTranscript", "PlaybackFinished"}) /\ Over)
  BY <1>0, <1>6 DEF Informed, HasOnly, FsmTypeOK
<1>12. CASE state = "Transcribing"
  <2>1. e = FinalTranscript /\ HasOnly(q, News)
    BY <1>0, <1>1, <1>5, <1>12 DEF Informed, Expects
  <2>2. state' = "Thinking" /\ step' = "idle" /\ UNCHANGED <<llmFinished, ended>>
    BY <1>0, <1>1, <1>2, <1>12, <2>1, TranscriptTaken
  <2>3. Expects(state', q)
    BY <2>1, <2>2 DEF Expects
  <2> QED
    BY <1>10, <1>11, <2>2, <2>3
<1>13. CASE state # "Transcribing"
  <2>1. state \in {"Thinking", "Speaking"} /\ HasOnly(q, News) /\ e.type \in News
    BY <1>0, <1>6, <1>13 DEF Informed, Expects, HasOnly
  <2>2. ASSUME UNCHANGED <<state, step>> \/ (state' = "Speaking" /\ UNCHANGED step)
        PROVE  step' = "idle" /\ Expects(state', q)
    BY <1>0, <2>1, <2>2 DEF Expects
  <2>3. CASE e.type = "LlmSentence"
    <3>1. HandleLlmSentence
      BY <1>2, <2>3 DEF Dispatch
    <3>2. UNCHANGED <<llmFinished, ended>> /\ (UNCHANGED <<state, step>> \/ (state' = "Speaking" /\ UNCHANGED step))
      BY <3>1 DEF HandleLlmSentence
    <3> QED
      BY <1>10, <1>11, <2>2, <3>2
  <2>4. CASE e.type = "LlmFinished"
    <3>1. HandleLlmFinished
      BY <1>2, <2>4 DEF Dispatch
    <3>2. Over
      BY <1>0, <1>2, <2>4 DEF Informed
    <3>3. \A x \in Range(q) : x.type = "PlaybackFinished"
      BY <1>7, <2>4 DEF FinishedLast
    <3>4. HasOnly(q, {"FinalTranscript", "PlaybackFinished"}) /\ HasOnly(q, {"PlaybackFinished"})
      BY <3>3 DEF HasOnly
    <3>5. CASE StaysInTurn
      <4>1. UNCHANGED <<state, step, ended>> /\ llmFinished' = TRUE
        BY <3>1, <3>5 DEF StaysInTurn, HandleLlmFinished
      <4> QED
        BY <1>10, <2>2, <3>2, <3>4, <4>1
    <3>6. CASE /\ Complete
               /\ \/ state = "Thinking" /\ received = 0
                  \/ state = "Speaking" /\ played = received
      <4>1. played' = played /\ received' = received /\ step' = "settle"
            /\ ended' = ended \cup {<<active, "completed">>}
        BY <3>1, <3>6 DEF HandleLlmFinished, Complete
      <4>2. played' = received'
        <5>1. PICK a, f : a = active /\ f = queue["fsm"]
          OBVIOUS
        <5>2. played + Upto(f, 0, Playbacks({a})) <= received + Upto(f, 0, Sentences(Nat))
          <6>1. 0 \in 0 .. Len(f)
            BY <1>2, <5>1
          <6> QED
            BY <5>1, <6>1 DEF PlaysBehind, Ahead
        <5>3. Upto(f, 0, Playbacks({a})) = 0 /\ Upto(f, 0, Sentences(Nat)) = 0
          BY UptoNone
        <5>4. played \in Nat /\ received \in Nat
          BY DEF FsmTypeOK
        <5> QED
          BY <3>6, <4>1, <5>2, <5>3, <5>4
      <4>3. PICK p : p = played'
        OBVIOUS
      <4>4. p \in Nat /\ Balanced(q, p, p, Load(active), active)
        BY <1>9, <4>2, <4>3
      <4>5. Rest' /\ Told(active) = 0 .. said[active] - 1
        BY <1>3, <1>5, <1>6, <1>8, <3>2, <3>3, <3>4, <4>1, <4>4, ReplyDone
      <4> QED
        BY <4>1, <4>5
    <3> QED
      BY <3>1, <3>5, <3>6 DEF HandleLlmFinished
  <2>5. CASE e.type = "PlaybackFinished"
    <3>1. HandlePlaybackFinished(e.turn) /\ e.turn = active
      BY <1>0, <1>2, <2>5 DEF Dispatch, OfActive
    <3>2. PlaybackCounts(e.turn)
      BY <3>1 DEF HandlePlaybackFinished
    <3>3. CASE StaysInTurn
      <4>1. UNCHANGED <<state, step, ended, llmFinished>>
        BY <3>2, <3>3 DEF StaysInTurn, PlaybackCounts
      <4> QED
        BY <1>10, <1>11, <2>2, <4>1
    <3>4. CASE Complete /\ llmFinished /\ played' = received
      <4>1. received' = received /\ step' = "settle" /\ ended' = ended \cup {<<active, "completed">>}
        BY <3>2, <3>4 DEF PlaybackCounts, Complete
      <4>2. HasOnly(q, {"PlaybackFinished"}) /\ Over
        BY <1>11, <2>1, <3>4 DEF HasOnly, News
      <4>3. PICK p : p = played'
        OBVIOUS
      <4>4. p \in Nat /\ Balanced(q, p, p, Load(active), active)
        BY <1>9, <3>4, <4>1, <4>3
      <4>5. \A x \in Range(q) : x.turn = active
        BY <1>8, <4>2 DEF HasOnly
      <4>6. Rest' /\ Told(active) = 0 .. said[active] - 1
        BY <1>3, <1>5, <1>6, <4>1, <4>2, <4>4, <4>5, ReplyDone
      <4> QED
        BY <4>1, <4>6
    <3> QED
      BY <3>2, <3>3, <3>4 DEF PlaybackCounts
  <2> QED
    BY <2>1, <2>3, <2>4, <2>5 DEF News
<1> QED
  BY <1>12, <1>13

(* Turn ids only grow. *)
LEMMA TurnsGrow ==
    ASSUME FsmTypeOK, [PipelineNext]_pipelineVars
    PROVE  nextTurn' = nextTurn \/ nextTurn' = nextTurn + 1
<1>1. [FsmNext]_fsmVars
  BY PipelineStepsFsm
<1> QED
  BY <1>1 DEF FsmNext, fsmVars, Start, MintElsewhere, AnyEvent, InterruptOutcome,
     HandlerContinues, SpeechStartedReturns, Settle, HandleSpeechStarted, BeginTurn, Ignored,
     HandleSpeechEnded, HandleFinalTranscript, HandleLlmSentence, HandleLlmFinished,
     HandlePlaybackFinished, PlaybackCounts, HandleUserInterrupted

(* Only the bridge's worker makes and cancels its tokens. *)
LEMMA TokensStep ==
    ASSUME NEW n \in Nat, n = nextTurn, FsmTypeOK, BusShape(n), BridgeShape(n), TokensKnown,
           [PipelineNext]_pipelineVars,
           BridgeHandles => synth = Resting \/ Head(queue["bridge"]).type # "UserInterrupted"
    PROVE  TokensKnown'
<1>0. lastToken \in Nat /\ tokens \in [DOMAIN tokens -> Nat]
  BY DEF BridgeShape, TokenShape
<1>1. nextTurn \in Nat /\ (nextTurn' = nextTurn \/ nextTurn' = nextTurn + 1)
  BY TurnsGrow
<1>2. CASE BridgeHandles
  <2>1. PICK e : e = Head(queue["bridge"])
    OBVIOUS
  <2>2. queue["bridge"] \in Seq(Events(Turned(n))) /\ queue["bridge"] # <<>> /\ nextTurn' = nextTurn
    BY <1>2 DEF BridgeHandles, Receives, BusShape, QueueShape, Subscribers, fsmVars
  <2>3. e.turn \in Nat /\ e.turn < nextTurn
    <3>1. e \in Events(Turned(n))
      BY <2>1, <2>2, TailElems
    <3> QED
      BY <3>1 DEF Events, Turned
  <2>4. \/ OnLlmStarted(e.turn) \/ OnLlmSentence(e.turn, e.seq) \/ OnLlmFinished(e.turn)
        \/ OnUserInterrupted(e.turn) /\ e.type = "UserInterrupted"
    BY <1>2, <2>1 DEF BridgeHandles, Next1
  <2>5. lastToken' \in Nat /\ lastToken <= lastToken'
    BY <1>0, <2>4 DEF OnLlmStarted, OnLlmSentence, OnLlmFinished, OnUserInterrupted, TokenFor, NewToken
  <2>6. ASSUME NewToken(e.turn)
        PROVE  /\ \A t \in DOMAIN tokens' : t \in Nat /\ t < nextTurn' /\ tokens'[t] <= lastToken'
               /\ tokens'[e.turn] \in 0 .. lastToken'
    <3>1. DOMAIN tokens' = DOMAIN tokens \cup {e.turn}
      BY <2>6 DEF NewToken
    <3>2. lastToken' = lastToken + 1 /\ tokens'[e.turn] = lastToken'
      BY <2>6 DEF NewToken
    <3>3. \A t \in DOMAIN tokens : t # e.turn => tokens'[t] = tokens[t]
      BY <2>6 DEF NewToken
    <3>4. \A t \in DOMAIN tokens : tokens[t] \in Nat /\ tokens[t] <= lastToken /\ t \in Nat /\ t < nextTurn
      BY <1>0 DEF TokensKnown
    <3>5. ASSUME NEW t \in DOMAIN tokens'
          PROVE  t \in Nat /\ t < nextTurn' /\ tokens'[t] <= lastToken'
      <4>1. CASE t = e.turn
        BY <1>0, <2>2, <2>3, <3>2, <4>1
      <4>2. CASE t # e.turn
        BY <1>0, <2>2, <3>1, <3>2, <3>3, <3>4, <4>2
      <4> QED
        BY <4>1, <4>2
    <3> QED
      BY <1>0, <3>2, <3>5
  <2>7. \A t \in DOMAIN tokens' : t \in Nat /\ t < nextTurn' /\ tokens'[t] <= lastToken'
    <3>1. CASE UNCHANGED <<tokens, lastToken>>
      BY <2>2, <3>1 DEF TokensKnown
    <3>2. CASE OnLlmFinished(e.turn)
      <4>1. /\ DOMAIN tokens' \subseteq DOMAIN tokens /\ lastToken' = lastToken
            /\ \A t \in DOMAIN tokens' : tokens'[t] = tokens[t]
        BY <3>2 DEF OnLlmFinished
      <4> QED
        BY <2>2, <4>1 DEF TokensKnown
    <3> QED
      BY <2>4, <2>6, <3>1, <3>2 DEF OnLlmStarted, OnLlmSentence, OnUserInterrupted, TokenFor
  <2>8. dead' \subseteq 0 .. lastToken'
    <3>1. CASE dead' = dead
      BY <1>0, <2>5, <3>1 DEF TokensKnown
    <3>2. CASE OnUserInterrupted(e.turn) /\ e.type = "UserInterrupted"
      <4>1. InFlight = {}
        BY <1>2, <2>1, <3>2 DEF InFlight, Resting
      <4>2. tokens'[e.turn] \in 0 .. lastToken'
        <5>1. CASE e.turn \in DOMAIN tokens /\ UNCHANGED <<lastToken, tokens>>
          BY <1>0, <5>1 DEF TokensKnown
        <5> QED
          BY <2>6, <3>2, <5>1 DEF OnUserInterrupted, TokenFor
      <4>3. dead' = dead \cup {tokens'[e.turn]}
        BY <3>2, <4>1 DEF OnUserInterrupted
      <4> QED
        BY <1>0, <2>5, <4>2, <4>3 DEF TokensKnown
    <3> QED
      BY <2>4, <3>1, <3>2 DEF OnLlmStarted, OnLlmSentence, OnLlmFinished
  <2> QED
    BY <2>7, <2>8 DEF TokensKnown
<1>3. CASE ~BridgeHandles
  <2>1. UNCHANGED <<tokens, lastToken, dead>>
    <3>1. CASE \/ UserBegins \/ UserEnds \/ Transcribed \/ LineTyped \/ SummaryFinishes
               \/ \E t \in Publishers : Deliver(t)
      BY <3>1 DEF UserBegins, UserEnds, Transcribed, LineTyped, SummaryFinishes, Deliver, bridgeVars, workerVars
    <3>2. CASE FsmHandles \/ FsmGoesOn \/ BargeInFires \/ BargeInSuppressed
      BY <3>2 DEF FsmHandles, FsmGoesOn, BargeInFires, BargeInSuppressed, bridgeVars, workerVars
    <3>3. CASE ManagerHandles \/ ManagerTakes \/ ManagerAdopts \/ ManagerActivates
      BY <3>3 DEF ManagerHandles, ManagerTakes, ManagerAdopts, ManagerActivates, bridgeVars, workerVars
    <3>4. CASE LlmSays \/ LlmFinishes \/ ManagerReturns \/ PlaybackPublishes
      BY <3>4 DEF LlmSays, LlmFinishes, ManagerReturns, PlaybackPublishes, bridgeVars, workerVars
    <3>5. CASE BridgeOrPlayback
      BY <3>5 DEF BridgeOrPlayback, BridgeClears, Synthesis, TakeJob, JobDropped, AudioArrives, SynthesisFails,
         AudioQueued, TailDropped, TailDue, MarkerQueued, bridgeVars, workerVars
    <3>6. CASE UNCHANGED pipelineVars
      BY <3>6 DEF pipelineVars, bridgeVars, workerVars
    <3> QED
      BY <1>3, <3>1, <3>2, <3>3, <3>4, <3>5, <3>6 DEF PipelineNext, SystemStep
  <2> QED
    BY <1>1, <2>1 DEF TokensKnown
<1> QED
  BY <1>2, <1>3

(* Nobody but the reader of lines and the barge-in detector could join the session. *)
LEMMA AloneStep ==
    ASSUME NEW n \in Nat, BusShape(n), Alone, ~Summarizing, [PipelineNext]_pipelineVars,
           ~LineTyped, ~BargeInFires
    PROVE  Alone'
<1>0. DOMAIN out = Publishers /\ out["stdin"] = <<>> /\ out["bargein"] = <<>> /\ out["summarizer"] = <<>>
      /\ summary # "running"
  BY DEF BusShape, OutShape, Alone
<1> DEFINE Same(o) == o["stdin"] = <<>> /\ o["bargein"] = <<>> /\ o["summarizer"] = <<>>
<1>1. ASSUME NEW t, NEW x, t \notin {"stdin", "bargein", "summarizer"}, out' = [out EXCEPT ![t] = x]
      PROVE  Same(out')
  BY <1>0, <1>1 DEF Publishers
<1>2. ASSUME NEW t \in Publishers, Deliver(t) PROVE Same(out') /\ summary' # "running"
  <2>1. t \notin {"stdin", "bargein", "summarizer"} /\ summary' = summary
    BY <1>0, <1>2 DEF Deliver, Free
  <2>2. out' = [out EXCEPT ![t] = Tail(out[t])]
    BY <1>2 DEF Deliver
  <2> QED
    BY <1>0, <1>1, <2>1, <2>2
<1>3. CASE UserBegins \/ UserEnds \/ Transcribed
  <2>1. summary' = summary
    BY <1>3 DEF UserBegins, UserEnds, Transcribed
  <2>2. out' = out \/ \E x, t : t \in {"audio", "stt"} /\ out' = [out EXCEPT ![t] = x]
    BY <1>3 DEF UserBegins, UserEnds, Transcribed, Publish
  <2> QED
    BY <1>0, <1>1, <2>1, <2>2 DEF Alone
<1>4. CASE FsmHandles \/ FsmGoesOn \/ BargeInSuppressed
  <2>1. summary' = summary
    BY <1>4 DEF FsmHandles, FsmGoesOn, BargeInSuppressed
  <2>2. out' = out \/ \E x : out' = [out EXCEPT !["fsm"] = x]
    BY <1>4 DEF FsmHandles, FsmGoesOn, BargeInSuppressed, Publish, busVars
  <2> QED
    BY <1>0, <1>1, <2>1, <2>2 DEF Alone
<1>5. CASE ManagerHandles \/ ManagerTakes \/ ManagerAdopts \/ ManagerReturns
  <2>1. summary' = summary
    BY <1>5 DEF ManagerHandles, ManagerTakes, ManagerAdopts, ManagerReturns
  <2>2. out' = out \/ \E x : out' = [out EXCEPT !["manager"] = x]
    BY <1>5 DEF ManagerHandles, ManagerTakes, ManagerAdopts, ManagerReturns, Publish, busVars
  <2> QED
    BY <1>0, <1>1, <2>1, <2>2 DEF Alone
<1>6. CASE ManagerActivates \/ LlmSays \/ LlmFinishes \/ PlaybackPublishes
  <2>1. summary' = summary
    BY <1>6 DEF ManagerActivates, LlmSays, LlmFinishes, PlaybackPublishes
  <2>2. \E x, t : t \in {"llm", "playback"} /\ out' = [out EXCEPT ![t] = x]
    BY <1>6 DEF ManagerActivates, LlmSays, LlmFinishes, PlaybackPublishes, Publish
  <2> QED
    BY <1>0, <1>1, <2>1, <2>2 DEF Alone
<1>7. CASE BridgeHandles \/ BridgeOrPlayback \/ UNCHANGED pipelineVars
  <2>1. summary' = summary /\ out' = out
    BY <1>7 DEF BridgeHandles, BridgeOrPlayback, pipelineVars, busVars
  <2> QED
    BY <1>0, <2>1 DEF Alone
<1>8. ~SummaryFinishes
  BY <1>0 DEF SummaryFinishes
<1> QED
  BY <1>2, <1>3, <1>4, <1>5, <1>6, <1>7, <1>8 DEF PipelineNext, SystemStep, Alone

(* Who speaks and who types. *)
LEMMA MicStep ==
    ASSUME [PipelineNext]_pipelineVars
    PROVE  /\ ~LineTyped => lines' = lines
           /\ ~UserBegins => utterances' = utterances
           /\ ~UserBegins /\ ~UserEnds => talking' = talking
           /\ ~UserEnds /\ ~Transcribed => atStt' = atStt
<1>1. CASE UserBegins \/ UserEnds \/ Transcribed \/ LineTyped \/ SummaryFinishes
  BY <1>1 DEF UserBegins, UserEnds, Transcribed, LineTyped, SummaryFinishes, micVars
<1>2. CASE \E t \in Publishers : Deliver(t)
  BY <1>2 DEF Deliver, micVars
<1>3. CASE FsmHandles \/ FsmGoesOn \/ BargeInFires \/ BargeInSuppressed
  BY <1>3 DEF FsmHandles, FsmGoesOn, BargeInFires, BargeInSuppressed, micVars
<1>4. CASE ManagerHandles \/ ManagerTakes \/ ManagerAdopts \/ ManagerActivates
  BY <1>4 DEF ManagerHandles, ManagerTakes, ManagerAdopts, ManagerActivates, micVars
<1>5. CASE LlmSays \/ LlmFinishes \/ ManagerReturns \/ PlaybackPublishes \/ BridgeHandles \/ BridgeOrPlayback
  BY <1>5 DEF LlmSays, LlmFinishes, ManagerReturns, PlaybackPublishes, BridgeHandles, BridgeOrPlayback, micVars
<1>6. CASE UNCHANGED pipelineVars
  BY <1>6 DEF pipelineVars, micVars
<1> QED
  BY <1>1, <1>2, <1>3, <1>4, <1>5, <1>6 DEF PipelineNext, SystemStep

(* One step of a session in which a reply is streamed: it goes on, or the turn completes *)
(* with all of it heard or given up.                                                      *)
ReplyComplete ==
    /\ ended' = ended \cup {<<active, "completed">>}
    /\ Told(active) = 0 .. said[active] - 1 /\ UNCHANGED <<heard, unsaid, said>>

LEMMA StreamingStep ==
    ASSUME NEW n \in Nat, n = nextTurn, BusShape(n), BridgeShape(n), PlayShape(n), StreamShape(stream, n),
           HeardShape(n), FsmTypeOK, PlaysBehind, TokensKnown, Counted, SpeaksIn \subseteq {"Listening"},
           Alone, ~Summarizing, Streaming, [PipelineNext]_pipelineVars, ~LineTyped
    PROVE  \/ Streaming' /\ UNCHANGED ended
           \/ Rest' /\ ReplyComplete
<1>1. Undisturbed
  BY StreamingUndisturbed
<1>2. CASE Deliver("llm") \/ Deliver("playback")
  <2>1. Streaming'
    BY <1>1, <1>2, ReplyPushed, PlaybackPushed
  <2> QED
    BY <1>2, <2>1 DEF Deliver, fsmVars
<1>3. CASE FsmHandles
  <2>1. UNCHANGED <<heard, unsaid, said>>
    BY <1>3 DEF FsmHandles, bridgeVars, workerVars, playbackVars, engineVars, historyVars
  <2> QED
    BY <1>1, <1>3, <2>1, ReplyTakenByFsm DEF ReplyComplete
<1>4. CASE ManagerActivates \/ LlmSays \/ LlmFinishes
  <2>1. Streaming'
    BY <1>1, <1>4, ReplyPublished
  <2> QED
    BY <1>4, <2>1 DEF ManagerActivates, LlmSays, LlmFinishes, fsmVars
<1>5. CASE ManagerReturns
  <2>1. Streaming'
    BY <1>1, <1>5, ReplyReturns
  <2> QED
    BY <1>5, <2>1 DEF ManagerReturns, fsmVars
<1>6. CASE BridgeHandles
  <2>1. Streaming'
    BY <1>1, <1>6, ReplyHandled
  <2> QED
    BY <1>6, <2>1 DEF BridgeHandles, fsmVars
<1>7. CASE BridgeOrPlayback
  <2>1. UNCHANGED <<fsmVars, managerVars, queue, out, historyVars>>
    BY <1>7 DEF BridgeOrPlayback, busVars
  <2>2. Synthesis \/ (Render /\ UNCHANGED bridgeVars)
    BY <1>7 DEF BridgeOrPlayback, BridgeClears, Streaming, Attending
  <2>3. CASE Synthesis
    BY <1>1, <2>1, <2>3, ReplySynthesised DEF fsmVars
  <2>4. CASE Render /\ UNCHANGED bridgeVars
    <3>1. UNCHANGED <<fsmVars, managerVars, bridgeVars, queue, out, historyVars>>
      BY <2>1, <2>4
    <3> QED
      BY <1>1, <2>4, <3>1, ReplyRendered DEF fsmVars
  <2> QED
    BY <2>2, <2>3, <2>4
<1>8. CASE PlaybackPublishes
  <2>1. Streaming'
    BY <1>1, <1>8, PlaybackIsPublished
  <2> QED
    BY <1>8, <2>1 DEF PlaybackPublishes, fsmVars
<1>9. CASE UNCHANGED pipelineVars
  <2>1. /\ UNCHANGED <<fsmVars, managerVars, bridgeVars, playbackVars, queue, out, micVars, historyVars>>
    BY <1>9 DEF pipelineVars, busVars
  <2>2. UNCHANGED <<active, state, step, llmFinished, ended, pending, stream, tokens, dead, jobs, synth, clearing,
                    unsaid, chunks, current, postbox, heard, playbackTurn, queue, out, talking, atStt, said>>
    BY <2>1 DEF fsmVars, perTurn, managerVars, bridgeVars, workerVars, playbackVars, queueVars, engineVars,
       micVars, historyVars
  <2>3. Attending' /\ Replying' /\ Carrying' /\ Alive' /\ Marked'
    BY <2>2 DEF Streaming, Attending, Replying, Carrying, Alive, Marked, Silence, NothingSpoken
  <2>4. OfActive' /\ Accounted'
    BY <2>2 DEF Streaming, OfActive, Accounted, Underway
  <2>5. Informed'
    BY <2>2 DEF Streaming, Informed, Over
  <2> QED
    BY <2>2, <2>3, <2>4, <2>5 DEF Streaming
<1> QED
  BY <1>2, <1>3, <1>4, <1>5, <1>6, <1>7, <1>8, <1>9, StreamingSteps

LEMMA OthersUntold ==
    ASSUME NEW X, NEW Y, NEW t, \A m \in Y : m \in X \/ m[1] # t, X \subseteq Y
    PROVE  SentencesOf(Y, t) = SentencesOf(X, t)
  BY DEF SentencesOf

(* Of the other turns nothing more is said, heard or given up. *)
LEMMA OnlyTheReply ==
    ASSUME NEW n \in Nat, n = nextTurn, BusShape(n), BridgeShape(n), PlayShape(n), HeardShape(n), FsmTypeOK,
           Counted, SpeaksIn \subseteq {"Listening"}, Alone, ~Summarizing, Streaming,
           [PipelineNext]_pipelineVars, ~LineTyped
    PROVE  /\ \A t \in Turns : t # active => Told(t)' = Told(t) /\ said'[t] = said[t]
           /\ said' \in [Turns -> Nat]
<1>0. OfActive /\ Replying /\ Attending
  BY DEF Streaming
<1>1. said \in [Turns -> Nat] /\ active \in Turns
  BY ActiveTurned
<1>2. ASSUME UNCHANGED <<heard, unsaid, said>>
      PROVE  /\ \A t \in Turns : t # active => Told(t)' = Told(t) /\ said'[t] = said[t]
             /\ said' \in [Turns -> Nat]
  BY <1>1, <1>2 DEF Told
<1>3. CASE LlmSays
  <2>1. stream.turn = active
    BY <1>0, <1>3 DEF LlmSays, SentenceDone, LeftoverSentence, Replying
  <2>2. said' = [said EXCEPT ![active] = said[active] + 1] /\ UNCHANGED <<heard, unsaid>>
    BY <1>3, <2>1 DEF LlmSays, bridgeVars, workerVars, playbackVars, engineVars
  <2>3. said' \in [Turns -> Nat] /\ \A t \in Turns : t # active => said'[t] = said[t]
    BY <1>1, <2>2
  <2> QED
    BY <2>2, <2>3 DEF Told
<1>4. CASE BridgeOrPlayback
  <2>1. said' = said
    BY <1>4 DEF BridgeOrPlayback, historyVars
  <2>2. Synthesis \/ (Render /\ UNCHANGED bridgeVars)
    BY <1>0, <1>4 DEF BridgeOrPlayback, BridgeClears, Attending
  <2>3. Range(heard) \cup unsaid \subseteq Range(heard') \cup unsaid'
        /\ \A m \in Range(heard') \cup unsaid' : m \in Range(heard) \cup unsaid \/ m[1] = active
    <3>1. CASE Synthesis
      <4>1. heard' = heard
        BY <3>1, SentenceSynthesised
      <4>2. unsaid' = unsaid \/ \E x \in Turned(n) \X Nat : WorkOf(synth) = {x} /\ unsaid' = unsaid \cup {x}
        BY <3>1, SentenceSynthesised
      <4>3. \A m \in WorkOf(synth) : m[1] = active
        BY <1>0 DEF OfActive, WorkOf, Marks, Mark
      <4> QED
        BY <4>1, <4>2, <4>3
    <3>2. CASE Render /\ UNCHANGED bridgeVars
      <4>1. unsaid' = unsaid
        BY <3>2 DEF bridgeVars, workerVars
      <4>2. CASE heard' = heard
        BY <4>1, <4>2
      <4>3. ASSUME NEW i \in 1 .. Len(chunks), heard' = Append(heard, Mark(chunks[i])) PROVE
              /\ Range(heard) \subseteq Range(heard')
              /\ \A m \in Range(heard') : m \in Range(heard) \/ m[1] = active
        <5>1. chunks \in Seq(ChunksOf(Turned(n), BOOLEAN)) /\ heard \in Seq(Turned(n) \X Nat)
          BY DEF PlayShape, HeardShape
        <5>2. PICK c : c = chunks[i]
          OBVIOUS
        <5>3. c \in ChunksOf(Turned(n), BOOLEAN) /\ c \in Range(chunks)
          BY <5>1, <5>2 DEF Range
        <5>4. PICK m : m = Mark(c)
          OBVIOUS
        <5>5. m \in Turned(n) \X Nat /\ m[1] = active
          BY <1>0, <5>3, <5>4 DEF Mark, ChunksOf, OfActive
        <5>6. m \in Turned(n) \X Nat /\ heard' = Append(heard, m)
          BY <4>3, <5>2, <5>4, <5>5
        <5>8. heard \in Seq(Turned(n) \X Nat)
          BY <5>1
        <5>7. Range(heard') = Range(heard) \cup {m}
          BY <5>6, <5>8, AppendElems
        <5> QED
          BY <5>5, <5>7
      <4> QED
        BY <3>2, <4>1, <4>2, <4>3, SentenceHeard
    <3> QED
      BY <2>2, <3>1, <3>2
  <2>4. PICK X, Y : X = Range(heard) \cup unsaid /\ Y = Range(heard') \cup unsaid'
    OBVIOUS
  <2>5. \A t : t # active => SentencesOf(Y, t) = SentencesOf(X, t)
    BY <2>3, <2>4, OthersUntold
  <2>6. \A t : t # active => Told(t)' = Told(t)
    BY <2>4, <2>5 DEF Told
  <2> QED
    BY <1>1, <2>1, <2>6
<1>5. CASE Deliver("llm") \/ Deliver("playback") \/ FsmHandles \/ ManagerReturns
  BY <1>2, <1>5 DEF Deliver, FsmHandles, ManagerReturns, bridgeVars, workerVars, playbackVars, engineVars,
     historyVars
<1>6. CASE ManagerActivates \/ LlmFinishes \/ PlaybackPublishes
  BY <1>2, <1>6 DEF ManagerActivates, LlmFinishes, PlaybackPublishes, bridgeVars, workerVars, playbackVars,
     engineVars, historyVars
<1>7. CASE BridgeHandles
  <2>1. UNCHANGED <<unsaid, playbackVars>>
    BY <1>7, SentenceTaken
  <2>2. said' = said
    BY <1>7 DEF BridgeHandles
  <2> QED
    BY <1>2, <2>1, <2>2 DEF playbackVars, engineVars
<1>8. CASE UNCHANGED pipelineVars
  BY <1>2, <1>8 DEF pipelineVars, bridgeVars, workerVars, playbackVars, engineVars, historyVars
<1> QED
  BY <1>3, <1>4, <1>5, <1>6, <1>7, <1>8, StreamingSteps

(* The books of such a session. *)
LEMMA StreamingConverses ==
    ASSUME NEW n \in Nat, n = nextTurn, BusShape(n), BridgeShape(n), PlayShape(n), StreamShape(stream, n),
           HeardShape(n), FsmTypeOK, TurnsEndOnce, PlaysBehind, Conversing, SpeaksIn \subseteq {"Listening"},
           ~Summarizing, Streaming, [PipelineNext]_pipelineVars, ~LineTyped
    PROVE  Conversing'
<1>0. Completed /\ Alone /\ TokensKnown /\ Counted
  BY DEF Conversing
<1>1. \/ Streaming' /\ UNCHANGED ended
      \/ Rest' /\ ReplyComplete
  BY <1>0, StreamingStep
<1>2. Undisturbed
  BY <1>0, StreamingUndisturbed
<1>3. /\ \A t \in Turns : t # active => Told(t)' = Told(t) /\ said'[t] = said[t]
      /\ said' \in [Turns -> Nat]
  BY <1>0, OnlyTheReply
<1>4. Attending /\ Carrying /\ state \in InTurn
  BY DEF Streaming, Informed, Expects, InTurn
<1>5. Completed'
  <2> SUFFICES ASSUME NEW t \in Turns, <<t, "completed">> \in ended'
               PROVE  Told(t)' = 0 .. said'[t] - 1
    BY DEF Completed
  <2>1. \A o \in ended : o[1] # active
    BY <1>4 DEF TurnsEndOnce, Open
  <2>2. CASE t = active
    <3>1. <<t, "completed">> \notin ended
      BY <2>1, <2>2
    <3>2. ReplyComplete
      BY <1>1, <3>1
    <3> QED
      BY <2>2, <3>2 DEF ReplyComplete, Told
  <2>3. CASE t # active
    <3>1. <<t, "completed">> \in ended
      BY <1>1, <2>3 DEF ReplyComplete
    <3>2. Told(t) = 0 .. said[t] - 1
      BY <1>0, <3>1 DEF Completed
    <3> QED
      BY <1>3, <2>3, <3>2
  <2> QED
    BY <2>2, <2>3
<1>6. Alone'
  <2>1. ~BargeInFires
    BY <1>4 DEF BargeInFires, Receives, Attending, Silence
  <2> QED
    BY <1>0, <2>1, AloneStep
<1>7. TokensKnown'
  <2>1. BridgeHandles => Head(queue["bridge"]).type # "UserInterrupted"
    <3>1. BridgeHandles => queue["bridge"] # <<>> /\ queue["bridge"] \in Seq(Events(Turned(n)))
      BY DEF BridgeHandles, Receives, BusShape, QueueShape, Subscribers
    <3>2. BridgeHandles => Head(queue["bridge"]).type \in Reply
      BY <1>4, <3>1, HasOnlyLess DEF Carrying
    <3> QED
      BY <3>2 DEF Reply
  <2> QED
    BY <1>0, <2>1, TokensStep
<1>8. Counted'
  <2>1. UNCHANGED <<utterances, nextTurn, active>>
    BY <1>2 DEF Undisturbed
  <2>2. utterances # 0
    BY <1>0, <1>4 DEF Counted, Attending, NoTurn
  <2>3. \A t \in Turns : t >= nextTurn => said'[t] = 0
    <3>1. active \in Nat /\ active < nextTurn /\ Turns \subseteq Nat
      BY PipelineAssumption DEF FsmTypeOK, Turns
    <3>2. \A t \in Turns : t >= nextTurn => t # active
      BY <3>1
    <3> QED
      BY <1>0, <1>3, <3>2 DEF Counted
  <2> QED
    BY <1>0, <1>3, <2>1, <2>2, <2>3 DEF Counted
<1> QED
  BY <1>1, <1>5, <1>6, <1>7, <1>8 DEF Conversing, Course

\* No reply is streamed.
Pause == Rest \/ Opening \/ Hearing \/ Ending \/ Transcript \/ Accepted \/ Refused

\* The events of a turn before its reply.
Prelude == {"SpeechStarted", "SpeechEnded", "FinalTranscript", "UserInterrupted"}

LEMMA PreludeTypes ==
    /\ SpeechStarted.type = "SpeechStarted" /\ SpeechEnded.type = "SpeechEnded"
    /\ FinalTranscript.type = "FinalTranscript" /\ Refusal.type = "UserInterrupted"
  BY DEF SpeechStarted, SpeechEnded, FinalTranscript, Refusal, Event

LEMMA PauseIs ==
    ASSUME Pause, Alone, ~Summarizing
    PROVE  /\ Calm /\ synth = Resting /\ HasOnly(queue["fsm"], Prelude)
           /\ \A e \in Range(queue["fsm"]) : e.type = "SpeechStarted" => nextTurn <= utterances
           /\ queue["bargein"] = <<>> \/ state \in {"Listening", "UserSpeaking"}
           /\ stream.phase = "adopt" => active # NoTurn
<1>1. ASSUME NEW x, NEW e \in Range(<<x>>) PROVE e = x
  BY <1>1 DEF Range
<1>2. ASSUME NEW x, NEW y, NEW e \in Range(<<x, y>>) PROVE e = x \/ e = y
  BY <1>2 DEF Range
<1>3. Range(<<>>) = {} /\ \A types : HasOnly(<<>>, types)
  BY NothingThere
<1>4. CASE Rest
  BY <1>3, <1>4 DEF Rest, Calm, NothingSpoken, StreamOver, Unwinding, HasOnly, Silence
<1>5. CASE Opening
  <2>1. queue["fsm"] = <<>> \/ queue["fsm"] = <<SpeechStarted>>
    BY <1>5 DEF Opening
  <2>2. HasOnly(queue["fsm"], Prelude)
    BY <1>1, <1>3, <2>1, PreludeTypes DEF HasOnly, Prelude
  <2>3. Calm /\ synth = Resting
    BY <1>3, <1>5 DEF Opening, Still, NothingSpoken, StreamOver, Calm
  <2> QED
    BY <1>5, <2>2, <2>3 DEF Opening, StreamOver
<1>6. CASE Hearing
  BY <1>3, <1>6 DEF Hearing, Still, NothingSpoken, StreamOver, Calm, FsmTypeOK
<1>7. CASE Ending
  <2>1. queue["fsm"] = <<>> \/ queue["fsm"] = <<SpeechEnded>>
    BY <1>7 DEF Ending
  <2>2. \A e \in Range(queue["fsm"]) : e.type = "SpeechEnded"
    BY <1>1, <1>3, <2>1, PreludeTypes
  <2>3. Calm /\ synth = Resting
    BY <1>3, <1>7 DEF Ending, Still, NothingSpoken, StreamOver, Calm
  <2> QED
    BY <1>7, <2>2, <2>3 DEF Ending, StreamOver, HasOnly, Prelude
<1>8. CASE Transcript
  <2>1. queue["fsm"] = <<>> \/ queue["fsm"] = <<FinalTranscript>>
    BY <1>8 DEF Transcript, Knows
  <2>2. \A e \in Range(queue["fsm"]) : e.type = "FinalTranscript"
    BY <1>1, <1>3, <2>1, PreludeTypes
  <2>3. Calm /\ synth = Resting
    BY <1>3, <1>8 DEF Transcript, Still, NothingSpoken, StreamOver, Calm
  <2> QED
    BY <1>8, <2>2, <2>3 DEF Transcript, StreamOver, HasOnly, Prelude
<1>9. CASE Accepted
  <2>1. queue["fsm"] = <<>> \/ queue["fsm"] = <<FinalTranscript>>
    BY <1>9 DEF Accepted, Knows
  <2>2. \A e \in Range(queue["fsm"]) : e.type = "FinalTranscript"
    BY <1>1, <1>3, <2>1, PreludeTypes
  <2>3. Calm /\ synth = Resting
    BY <1>3, <1>9 DEF Accepted, Still, NothingSpoken, Calm
  <2> QED
    BY <1>9, <2>2, <2>3 DEF Accepted, HasOnly, Prelude, Silence, Fresh
<1>10. CASE Refused
  <2>1. \/ queue["fsm"] = <<>> \/ queue["fsm"] = <<FinalTranscript>> \/ queue["fsm"] = <<Refusal>>
        \/ queue["fsm"] = <<FinalTranscript, Refusal>>
    BY <1>10 DEF Refused, Knows
  <2>2. \A e \in Range(queue["fsm"]) : e.type \in {"FinalTranscript", "UserInterrupted"}
    BY <1>1, <1>2, <1>3, <2>1, PreludeTypes
  <2>3. Calm /\ synth = Resting
    BY <1>3, <1>10 DEF Refused, NothingSpoken, StreamOver, Unwinding, Calm
  <2> QED
    BY <1>10, <2>2, <2>3 DEF Refused, HasOnly, Prelude, Silence, StreamOver
<1> QED
  BY <1>4, <1>5, <1>6, <1>7, <1>8, <1>9, <1>10 DEF Pause

(* No turn completes meanwhile, and only one that is opening is begun. *)
LEMMA PauseBooks ==
    ASSUME NEW n \in Nat, n = nextTurn, BusShape(n), BridgeShape(n), FsmTypeOK, Pause, Alone, ~Summarizing,
           [PipelineNext]_pipelineVars
    PROVE  /\ Kept /\ ~BargeInFires
           /\ \/ nextTurn' = nextTurn
              \/ nextTurn <= utterances /\ nextTurn' = nextTurn + 1 /\ utterances' = utterances
           /\ \A t : <<t, "completed">> \in ended' => <<t, "completed">> \in ended
<1>1. /\ Calm /\ HasOnly(queue["fsm"], Prelude)
      /\ \A e \in Range(queue["fsm"]) : e.type = "SpeechStarted" => nextTurn <= utterances
      /\ queue["bargein"] = <<>> \/ state \in {"Listening", "UserSpeaking"}
      /\ stream.phase = "adopt" => active # NoTurn
  BY PauseIs
<1>2. Kept
  BY <1>1, CalmSteps
<1>3. ~BargeInFires
  BY <1>1 DEF BargeInFires, Receives
<1> DEFINE Goal == /\ \/ nextTurn' = nextTurn
                      \/ nextTurn <= utterances /\ nextTurn' = nextTurn + 1 /\ utterances' = utterances
                   /\ \/ ended' = ended
                      \/ ended' = ended \cup {<<active, "interrupted">>}
                      \/ ended' = ended \cup {<<active, "discarded">>}
<1>11. SUFFICES Goal
  <2>1. Goal => \A t : <<t, "completed">> \in ended' => <<t, "completed">> \in ended
    OBVIOUS
  <2> QED
    BY <1>2, <1>3, <2>1
<1>4. ASSUME UNCHANGED fsmVars PROVE Goal
  BY <1>4 DEF fsmVars
<1>5. CASE UserBegins \/ UserEnds \/ Transcribed \/ LineTyped \/ \E t \in Publishers : Deliver(t)
  BY <1>4, <1>5 DEF UserBegins, UserEnds, Transcribed, LineTyped, Deliver
<1>6. CASE ManagerTakes \/ ManagerAdopts \/ ManagerHandles \/ BridgeHandles \/ BargeInSuppressed
  <2>1. ManagerAdopts => UNCHANGED fsmVars
    BY <1>1 DEF ManagerAdopts, AdoptTurn
  <2> QED
    BY <1>4, <1>6, <2>1 DEF ManagerTakes, ManagerHandles, BridgeHandles, BargeInSuppressed
<1>7. CASE FsmHandles
  <2>1. PICK e : e = Head(queue["fsm"])
    OBVIOUS
  <2>2. Dispatch(e) /\ e \in Range(queue["fsm"]) /\ UNCHANGED micVars
    BY <1>7, <2>1, FsmTakes
  <2>3. e.type \in Prelude
    BY <1>1, <2>2 DEF HasOnly
  <2>4. CASE e.type = "SpeechStarted"
    <3>1. HandleSpeechStarted
      BY <2>2, <2>4 DEF Dispatch
    <3>2. nextTurn <= utterances /\ utterances' = utterances
      BY <1>1, <2>2, <2>4 DEF micVars
    <3> QED
      BY <1>4, <3>1, <3>2 DEF HandleSpeechStarted, BeginTurn, Ignored
  <2>5. CASE e.type # "SpeechStarted"
    <3>1. HandleSpeechEnded \/ HandleFinalTranscript \/ HandleUserInterrupted
      BY <2>2, <2>3, <2>5 DEF Dispatch, Prelude
    <3> QED
      BY <1>4, <3>1 DEF HandleSpeechEnded, HandleFinalTranscript, HandleUserInterrupted, Ignored
  <2> QED
    BY <2>4, <2>5
<1>8. CASE FsmGoesOn
  <2>1. Start \/ InterruptOutcome \/ SpeechStartedReturns \/ Settle
    BY <1>8 DEF FsmGoesOn, HandlerContinues
  <2>2. nextTurn' = nextTurn
    BY <2>1 DEF Start, InterruptOutcome, SpeechStartedReturns, Settle
  <2>3. ended' = ended \/ ended' = ended \cup {<<active, "interrupted">>}
        \/ ended' = ended \cup {<<active, "discarded">>}
    BY <2>1 DEF Start, InterruptOutcome, SpeechStartedReturns, Settle
  <2> QED
    BY <2>2, <2>3
<1>9. CASE UNCHANGED fsmVars
  BY <1>4, <1>9
<1>10. Aside => UNCHANGED fsmVars
  BY DEF Aside
<1> HIDE DEF Goal
<1> QED
  BY <1>1, <1>3, <1>5, <1>6, <1>7, <1>8, <1>9, <1>10, CalmSteps

(* The course goes on. *)
LEMMA PauseStep ==
    ASSUME NEW n \in Nat, n = nextTurn, BusShape(n), BridgeShape(n), FsmTypeOK, HeardShape(n), TokensKnown,
           Counted, SpeaksIn \subseteq {"Listening"}, Prompt, Alone, ~Summarizing, Pause,
           [PipelineNext]_pipelineVars, ~LineTyped
    PROVE  Course'
<1>1. CASE Rest
  BY <1>1, RestStep DEF Course
<1>2. CASE Opening
  BY <1>2, OpeningStep DEF Course
<1>3. CASE Hearing
  BY <1>3, HearingStep DEF Course
<1>4. CASE Ending
  BY <1>4, EndingStep DEF Course
<1>5. CASE Transcript
  BY <1>5, TranscriptStep DEF Course
<1>6. CASE Accepted
  BY <1>6, AcceptedStep DEF Course
<1>7. CASE Refused
  BY <1>7, RefusedStep DEF Course
<1> QED
  BY <1>1, <1>2, <1>3, <1>4, <1>5, <1>6, <1>7 DEF Pause

LEMMA PauseConverses ==
    ASSUME NEW n \in Nat, n = nextTurn, BusShape(n), BridgeShape(n), FsmTypeOK, HeardShape(n), Conversing,
           SpeaksIn \subseteq {"Listening"}, Prompt, ~Summarizing, Pause, [PipelineNext]_pipelineVars, ~LineTyped
    PROVE  Conversing'
<1>0. Completed /\ Alone /\ TokensKnown /\ Counted
  BY DEF Conversing
<1>1. Course'
  BY <1>0, PauseStep
<1>2. /\ Kept /\ ~BargeInFires
      /\ \/ nextTurn' = nextTurn
         \/ nextTurn <= utterances /\ nextTurn' = nextTurn + 1 /\ utterances' = utterances
      /\ \A t : <<t, "completed">> \in ended' => <<t, "completed">> \in ended
  BY <1>0, PauseBooks
<1>3. UNCHANGED <<heard, unsaid, said>>
  BY <1>2 DEF Kept
<1>4. Completed'
  BY <1>0, <1>2, <1>3 DEF Completed, Told
<1>5. Alone'
  BY <1>0, <1>2, AloneStep
<1>6. TokensKnown'
  <2>1. synth = Resting
    BY <1>0, PauseIs
  <2> QED
    BY <1>0, <2>1, TokensStep
<1>7. Counted'
  <2>1. UserBegins => utterances' = utterances + 1 /\ utterances < MaxUtterances /\ nextTurn' = nextTurn
    BY DEF UserBegins, fsmVars
  <2>2. utterances' = utterances \/ UserBegins
    BY MicStep
  <2>3. utterances \in 0 .. MaxUtterances /\ nextTurn <= utterances + 1 /\ MaxUtterances \in Nat
    BY <1>0, PipelineAssumption DEF Counted
  <2>4. utterances' \in 0 .. MaxUtterances /\ nextTurn' <= utterances' + 1
    BY <1>2, <2>1, <2>2, <2>3
  <2>5. said' \in [Turns -> Nat] /\ \A t \in Turns : t >= nextTurn' => said'[t] = 0
    <3>1. Turns \subseteq Nat
      BY PipelineAssumption DEF Turns
    <3>2. \A t \in Turns : t >= nextTurn' => t >= nextTurn
      BY <1>2, <3>1
    <3> QED
      BY <1>0, <1>3, <3>2 DEF Counted
  <2>6. utterances' = 0 => Rest' /\ active' = 0 /\ ended' = {} /\ step' = "idle"
    <3> SUFFICES ASSUME utterances' = 0
                 PROVE  Rest' /\ active' = 0 /\ ended' = {} /\ step' = "idle"
      OBVIOUS
    <3>1. utterances = 0 /\ ~UserBegins
      BY <2>1, <2>2, <2>3
    <3>2. Rest /\ active = 0 /\ ended = {} /\ step = "idle"
      BY <1>0, <3>1 DEF Counted
    <3>3. Rest' /\ UNCHANGED <<active, ended>> /\ step' = "idle"
      BY <1>0, <3>1, <3>2, RestStep
    <3> QED
      BY <3>2, <3>3
  <2> QED
    BY <2>4, <2>5, <2>6 DEF Counted
<1> QED
  BY <1>1, <1>4, <1>5, <1>6, <1>7 DEF Conversing

\* Nobody is told that the user speaks.
Unheard(o) == \A t \in Publishers : \A d \in Range(o[t]) : d.event.type # "SpeechStarted"

LEMMA DeliveriesOf ==
    ASSUME NEW e
    PROVE  \A d \in Range(Deliveries(e)) : d.event = e
<1> DEFINE to(s) == IF e.type \in Reacts[s] THEN <<Push(s, e)>> ELSE <<>>
           S == {Push(s, e) : s \in Subscribers}
<1>1. Deliveries(e) = to("fsm") \o to("bridge") \o to("manager") \o to("bargein")
  BY DEF Deliveries, Order, Push
<1>2. ASSUME NEW s \in Subscribers PROVE to(s) \in Seq(S)
  <2>1. PICK x \in S : x = Push(s, e)
    OBVIOUS
  <2>2. <<x>> \in Seq(S) /\ <<>> \in Seq(S)
    OBVIOUS
  <2> HIDE DEF S
  <2> QED
    BY <2>1, <2>2
<1>3. \A a, b \in Seq(S) : a \o b \in Seq(S)
  <2> HIDE DEF S
  <2> QED
    OBVIOUS
<1>4. to("fsm") \in Seq(S) /\ to("bridge") \in Seq(S) /\ to("manager") \in Seq(S) /\ to("bargein") \in Seq(S)
  BY <1>2 DEF Subscribers
<1>5. Deliveries(e) \in Seq(S)
  <2> HIDE DEF S, to
  <2> QED
    BY <1>1, <1>3, <1>4
<1>6. \A d \in Range(Deliveries(e)) : d \in S
  <2> HIDE DEF S
  <2>1. PICK q : q = Deliveries(e)
    OBVIOUS
  <2>2. q \in Seq(S)
    BY <1>5, <2>1
  <2>3. \A d \in Range(q) : d \in S
    BY <2>2 DEF Range
  <2> QED
    BY <2>1, <2>3
<1>7. \A s : Push(s, e).event = e
  BY DEF Push
<1> QED
  BY <1>6, <1>7

(* A typed session goes on. *)
LEMMA TypedStep ==
    ASSUME NEW n \in Nat, BusShape(n), FsmTypeOK, OneInput, Prompt, lines # 0, Typed, [PipelineNext]_pipelineVars
    PROVE  lines' # 0 /\ Typed'
<1>0. /\ lines \in Nat /\ utterances = 0 /\ ~talking /\ atStt = 0 /\ active = 0 /\ ended = {} /\ step = "idle"
      /\ state \in {"Idle", "Listening"} /\ Unheard(out)
      /\ \A e \in Range(queue["fsm"]) : e.type # "SpeechStarted"
  BY DEF Typed, Unheard
<1>1. ~UserBegins /\ ~UserEnds /\ ~Transcribed /\ ~BargeInFires
  BY <1>0 DEF UserBegins, UserEnds, Transcribed, BargeInFires
<1>2. utterances' = 0 /\ ~talking' /\ atStt' = 0
  BY <1>0, <1>1, MicStep
<1>3. lines' \in Nat /\ lines' # 0
  <2>1. LineTyped => lines' = lines + 1
    BY DEF LineTyped
  <2> QED
    BY <1>0, <2>1, MicStep
<1>4. SUFFICES ASSUME \/ ~(active' = 0 /\ ended' = {} /\ step' = "idle" /\ state' \in {"Idle", "Listening"})
                      \/ ~Unheard(out')
                      \/ ~(\A e \in Range(queue'["fsm"]) : e.type # "SpeechStarted")
               PROVE  FALSE
  BY <1>2, <1>3 DEF Typed, Unheard
<1>5. ASSUME UNCHANGED fsmVars \/ UNCHANGED <<active, ended, step, state>>
      PROVE  active' = 0 /\ ended' = {} /\ step' = "idle" /\ state' \in {"Idle", "Listening"}
  BY <1>0, <1>5 DEF fsmVars
<1>6. ASSUME NEW t \in Publishers, NEW e, e.type # "SpeechStarted", Publish(t, e)
      PROVE  Unheard(out')
  <2>1. DOMAIN out = Publishers
    BY DEF BusShape, OutShape
  <2>2. \A d \in Range(out'[t]) : d.event = e
    BY <1>6, <2>1, DeliveriesOf DEF Publish
  <2>3. \A u \in Publishers : u # t => out'[u] = out[u]
    BY <1>6, <2>1 DEF Publish
  <2> QED
    BY <1>0, <1>6, <2>2, <2>3 DEF Unheard
<1>7. \A ty, tu, sq : Event(ty, tu, sq).type = ty
  BY DEF Event
<1>8. ASSUME NEW t \in Publishers, Deliver(t) PROVE FALSE
  <2>1. PICK d : PushMade(t, d) /\ d.event \in Events(Turned(n))
    BY <1>8, PushIsMade
  <2>2. out[t] \in Seq(Pushes(Events(Turned(n)))) /\ out[t] # <<>> /\ d = Head(out[t]) /\ out'[t] = Tail(out[t])
    BY <2>1, PushesAre DEF PushMade
  <2>3. d \in Range(out[t]) /\ Range(out'[t]) \subseteq Range(out[t])
    BY <2>2, TailElems
  <2>4. d.event.type # "SpeechStarted"
    BY <1>0, <2>3 DEF Unheard
  <2>5. Unheard(out')
    BY <1>0, <2>1, <2>3 DEF Unheard, PushMade
  <2>6. \A e \in Range(queue'["fsm"]) : e.type # "SpeechStarted"
    <3>1. CASE d.to = "fsm"
      <4>1. queue["fsm"] \in Seq(Events(Turned(n)))
        BY DEF BusShape, QueueShape, Subscribers
      <4>2. PICK x : x = d.event
        OBVIOUS
      <4>3. x \in Events(Turned(n)) /\ queue'["fsm"] = Append(queue["fsm"], x)
        BY <2>1, <3>1, <4>2 DEF PushMade
      <4>4. Range(queue'["fsm"]) = Range(queue["fsm"]) \cup {x}
        BY <4>1, <4>3, AppendElems
      <4> QED
        BY <1>0, <2>4, <4>2, <4>4
    <3>2. CASE d.to # "fsm"
      <4>1. queue'["fsm"] = queue["fsm"]
        BY <2>1, <3>2 DEF PushMade, Subscribers
      <4> QED
        BY <1>0, <4>1
    <3> QED
      BY <3>1, <3>2
  <2>7. UNCHANGED fsmVars
    BY <2>1 DEF PushMade
  <2> QED
    BY <1>4, <1>5, <2>5, <2>6, <2>7
<1>9. CASE FsmHandles
  <2>1. PICK e : e = Head(queue["fsm"])
    OBVIOUS
  <2>2. /\ Dispatch(e) /\ e \in Range(queue["fsm"]) /\ queue["fsm"] \in Seq(Events(Turned(n)))
        /\ queue["fsm"] # <<>> /\ queue'["fsm"] = Tail(queue["fsm"])
    BY <1>9, <2>1, FsmTakes
  <2>3. \A x \in Range(queue'["fsm"]) : x.type # "SpeechStarted"
    BY <1>0, <2>2, TailElems
  <2>4. \/ HandleSpeechEnded \/ HandleFinalTranscript \/ HandleLlmSentence \/ HandleLlmFinished
        \/ HandlePlaybackFinished(e.turn) \/ HandleUserInterrupted
    BY <1>0, <2>2 DEF Dispatch
  <2>5. UNCHANGED <<active, ended, step, state>>
    <3>1. CASE HandleSpeechEnded \/ HandleFinalTranscript \/ HandleLlmSentence
      BY <1>0, <3>1 DEF HandleSpeechEnded, HandleFinalTranscript, HandleLlmSentence
    <3>2. CASE HandleLlmFinished \/ HandlePlaybackFinished(e.turn) \/ HandleUserInterrupted
      BY <1>0, <3>2 DEF HandleLlmFinished, HandlePlaybackFinished, PlaybackCounts, StaysInTurn,
         HandleUserInterrupted, Interruptible, Ignored, fsmVars
    <3> QED
      BY <2>4, <3>1, <3>2
  <2>6. out' = out
    BY <1>0, <1>9, <2>5 DEF FsmHandles
  <2> QED
    BY <1>0, <1>4, <1>5, <2>3, <2>5, <2>6
<1>10. CASE FsmGoesOn
  <2>1. Start /\ UNCHANGED <<queue, out>>
    BY <1>0, <1>10 DEF FsmGoesOn, InterruptOutcome, HandlerContinues, SpeechStartedReturns, Settle, busVars
  <2> QED
    BY <1>0, <1>4, <2>1 DEF Start
<1>11. ASSUME UNCHANGED fsmVars \/ UNCHANGED <<active, ended, step, state>>, queue'["fsm"] = queue["fsm"],
              \/ out' = out
              \/ \E t \in Publishers : \E e : e.type # "SpeechStarted" /\ Publish(t, e)
       PROVE  FALSE
  <2>1. Unheard(out')
    BY <1>0, <1>6, <1>11
  <2> QED
    BY <1>0, <1>4, <1>5, <1>11, <2>1
<1>d. DOMAIN queue = Subscribers /\ "fsm" \in Subscribers
  BY DEF BusShape, QueueShape, Subscribers
<1>p. "stdin" \in Publishers /\ "summarizer" \in Publishers /\ "manager" \in Publishers /\ "llm" \in Publishers
      /\ "playback" \in Publishers
  BY DEF Publishers
<1>12. CASE LineTyped \/ SummaryFinishes
  BY <1>7, <1>11, <1>12, <1>p DEF LineTyped, SummaryFinishes
<1>13. CASE BargeInSuppressed \/ BridgeHandles
  <2>1. UNCHANGED fsmVars /\ out' = out /\ queue'["fsm"] = queue["fsm"]
    BY <1>13, <1>d DEF BargeInSuppressed, BridgeHandles, Receives
  <2> QED
    BY <1>11, <2>1
<1>14. CASE ManagerHandles
  <2>1. UNCHANGED fsmVars /\ queue'["fsm"] = queue["fsm"]
    BY <1>14, <1>d DEF ManagerHandles, Receives
  <2>2. out' = out \/ \E tu : Publish("manager", Event("UserInterrupted", tu, 0))
    BY <1>14 DEF ManagerHandles
  <2> QED
    BY <1>7, <1>11, <1>p, <2>1, <2>2
<1>15. CASE ManagerTakes \/ ManagerAdopts \/ ManagerReturns \/ BridgeOrPlayback
  <2>1. UNCHANGED <<queue, out>>
    BY <1>15 DEF ManagerTakes, ManagerAdopts, ManagerReturns, BridgeOrPlayback, busVars
  <2>2. UNCHANGED fsmVars \/ UNCHANGED <<active, ended, step, state>>
    BY <1>15 DEF ManagerTakes, ManagerAdopts, ManagerReturns, BridgeOrPlayback, MintElsewhere
  <2> QED
    BY <1>11, <2>1, <2>2
<1>16. CASE ManagerActivates \/ LlmSays \/ LlmFinishes \/ PlaybackPublishes
  <2>1. UNCHANGED fsmVars /\ queue' = queue
    BY <1>16 DEF ManagerActivates, LlmSays, LlmFinishes, PlaybackPublishes
  <2>2. \E t \in Publishers, ty \in {"LlmStarted", "LlmSentence", "LlmFinished", "PlaybackFinished"} : \E tu, sq :
          Publish(t, Event(ty, tu, sq))
    BY <1>16, <1>p DEF ManagerActivates, LlmSays, LlmFinishes, PlaybackPublishes
  <2> QED
    BY <1>7, <1>11, <2>1, <2>2
<1>17. CASE UNCHANGED pipelineVars
  BY <1>11, <1>17 DEF pipelineVars, busVars
<1> QED
  BY <1>1, <1>8, <1>9, <1>10, <1>12, <1>13, <1>14, <1>15, <1>16, <1>17 DEF PipelineNext, SystemStep

(* The first line makes it a typed session: nobody has spoken. *)
LEMMA LinesBegin ==
    ASSUME NEW n \in Nat, BusShape(n), OneInput, Prompt, lines = 0, Conversing, LineTyped
    PROVE  lines' # 0 /\ Typed'
<1>1. utterances = 0
  BY DEF LineTyped
<1>2. Rest /\ active = 0 /\ ended = {} /\ step = "idle"
  BY <1>1 DEF Conversing, Counted
<1>3. /\ queue["fsm"] = <<>> /\ queue' = queue /\ UNCHANGED fsmVars
      /\ \A t \in Publishers : t # "stdin" => out'[t] = <<>>
      /\ out'["stdin"] = <<Push("fsm", FinalTranscript), Push("manager", FinalTranscript)>>
      /\ lines' = lines + 1 /\ UNCHANGED <<talking, utterances, atStt>>
  BY OnQuietBus DEF Subscribers
<1>4. ~talking /\ atStt = 0 /\ state \in {"Idle", "Listening"}
  BY <1>2 DEF Rest, Silence
<1>5. Range(<<>>) = {}
  BY NothingThere
<1>6. \A d \in Range(out'["stdin"]) : d.event.type # "SpeechStarted"
  <2>1. PICK x, y : x = Push("fsm", FinalTranscript) /\ y = Push("manager", FinalTranscript)
    OBVIOUS
  <2>2. x.event.type # "SpeechStarted" /\ y.event.type # "SpeechStarted"
    BY <2>1, PreludeTypes DEF Push
  <2>3. out'["stdin"] = <<x, y>>
    BY <1>3, <2>1
  <2>4. \A d \in Range(out'["stdin"]) : d = x \/ d = y
    BY <2>3 DEF Range
  <2> QED
    BY <2>2, <2>4
<1>7. \A t \in Publishers : \A d \in Range(out'[t]) : d.event.type # "SpeechStarted"
  BY <1>3, <1>5, <1>6
<1>8. \A e \in Range(queue'["fsm"]) : e.type # "SpeechStarted"
  BY <1>3, <1>5
<1>9. UNCHANGED <<active, ended, step, state>>
  BY <1>3 DEF fsmVars
<1>10. lines' = 1 /\ lines' \in Nat
  BY <1>3
<1> QED
  BY <1>1, <1>2, <1>3, <1>4, <1>7, <1>8, <1>9, <1>10 DEF Typed

(* The session goes on, spoken or typed. *)
LEMMA SessionStep ==
    ASSUME NEW n \in Nat, n = nextTurn, BusShape(n), BridgeShape(n), PlayShape(n), StreamShape(stream, n),
           HeardShape(n), FsmTypeOK, TurnsEndOnce, PlaysBehind, Session, SpeaksIn \subseteq {"Listening"},
           Prompt, OneInput, ~Summarizing, [PipelineNext]_pipelineVars
    PROVE  Session'
<1>1. CASE lines # 0
  BY <1>1, TypedStep DEF Session
<1>2. CASE lines = 0 /\ LineTyped
  BY <1>2, LinesBegin DEF Session
<1>3. CASE lines = 0 /\ ~LineTyped
  <2>1. Conversing /\ lines' = 0
    BY <1>3, MicStep DEF Session
  <2>2. CASE Streaming
    BY <1>3, <2>1, <2>2, StreamingConverses DEF Session
  <2>3. CASE Pause
    BY <1>3, <2>1, <2>3, PauseConverses DEF Session
  <2> QED
    BY <2>1, <2>2, <2>3 DEF Conversing, Course, Pause
<1> QED
  BY <1>1, <1>2, <1>3

(* Nothing that was said or is on its way is of a turn still to be minted. *)
LEMMA NotYetMinted ==
    ASSUME NEW n \in Nat, BusShape(n), BridgeShape(n), PlayShape(n), HeardShape(n)
    PROVE  Untouched(n)
<1>1. \A x : x \in Turned(n) => x # n
  BY DEF Turned
<1>2. \A m \in Range(heard) : m[1] # n
  BY <1>1 DEF HeardShape, Range
<1>3. \A x \in Range(chunks) : x.turn # n
  <2>1. \A x \in Range(chunks) : x \in ChunksOf(Turned(n), BOOLEAN)
    BY DEF PlayShape, Range
  <2> QED
    BY <1>1, <2>1 DEF ChunksOf
<1>4. \A x \in Range(jobs) : x.turn # n
  <2>1. \A x \in Range(jobs) : x \in JobsOf(Turned(n))
    BY DEF BridgeShape, Range
  <2> QED
    BY <1>1, <2>1 DEF JobsOf
<1>5. \A x \in Range(synth.job) : x.turn # n
  <2>1. CASE synth = Resting
    BY <2>1, NothingThere
  <2>2. ASSUME NEW j \in JobsOf(Turned(n)), synth.job = <<j>> PROVE \A x \in Range(synth.job) : x.turn # n
    BY <1>1, <2>2 DEF JobsOf, Range
  <2> QED
    BY <2>1, <2>2 DEF BridgeShape, SynthShape
<1>6. \A x \in Range(queue["bridge"]) : x.turn # n
  <2>1. queue["bridge"] \in Seq(Events(Turned(n)))
    BY DEF BusShape, QueueShape, Subscribers
  <2>2. \A x \in Range(queue["bridge"]) : x \in Events(Turned(n))
    BY <2>1 DEF Range
  <2> QED
    BY <1>1, <2>2 DEF Events
<1>7. out["llm"] # <<>> => Head(out["llm"]).event.turn # n
  <2>1. out["llm"] \in Seq(Pushes(Events(Turned(n))))
    BY PushesAre DEF Publishers
  <2>2. out["llm"] # <<>> => Head(out["llm"]) \in Pushes(Events(Turned(n)))
    BY <2>1
  <2> QED
    BY <1>1, <2>2 DEF Pushes, Events
<1>8. \A S : \A m \in Marks(S) : \E x \in S : m[1] = x.turn
  BY DEF Marks, Mark
<1>9. \A m \in AudioOf(chunks) : m[1] # n
  BY <1>3, <1>8 DEF AudioOf
<1>10. \A m \in WorkOf(synth) : m[1] # n
  BY <1>5, <1>8 DEF WorkOf
<1>11. \A m \in Marks(Range(jobs)) : m[1] # n
  BY <1>4, <1>8
<1>12. \A m \in SaidTo(queue["bridge"]) : m[1] # n
  BY <1>6, <1>8 DEF SaidTo
<1>13. \A m \in DueTo(out["llm"]) : m[1] # n
  BY <1>7 DEF DueTo, Mark
<1> QED
  BY <1>2, <1>9, <1>10, <1>11, <1>12, <1>13, Places DEF Untouched, Lacks

(* The stream begins a turn of which there is nothing. *)
LEMMA AdoptedUntouched ==
    ASSUME NEW n \in Nat, n = nextTurn, BusShape(n), BridgeShape(n), PlayShape(n), HeardShape(n), Session,
           ManagerAdopts
    PROVE  Untouched(stream'.turn)
<1>1. stream.phase = "adopt" /\ stream'.turn = IF active # NoTurn THEN active ELSE nextTurn
  BY DEF ManagerAdopts, AdoptTurn
<1>2. CASE active = NoTurn
  BY <1>1, <1>2, NotYetMinted
<1>3. CASE active # NoTurn
  <2>1. Accepted
    <3>1. lines = 0
      BY <1>3 DEF Session, Typed, NoTurn
    <3>2. Course
      BY <3>1 DEF Session, Conversing
    <3>3. ~StreamOver /\ ~Streaming
      BY <1>1 DEF StreamOver, Streaming, Replying
    <3> QED
      BY <3>2, <3>3 DEF Course, Rest, Opening, Hearing, Ending, Transcript, Refused
  <2>2. /\ chunks = <<>> /\ synth = Resting /\ jobs = <<>> /\ queue["bridge"] = <<>> /\ out["llm"] = <<>>
        /\ Told(active) = {}
    BY <2>1 DEF Accepted, Still, NothingSpoken, Fresh
  <2>3. \A m \in Range(heard) : m[1] # active
    BY <2>2 DEF Told, SentencesOf
  <2>4. /\ AudioOf(chunks) = {} /\ WorkOf(synth) = {} /\ Marks(Range(jobs)) = {}
        /\ SaidTo(queue["bridge"]) = {} /\ DueTo(out["llm"]) = {}
    BY <2>2, NothingThere
  <2>5. Untouched(active)
    BY <2>3, <2>4, Places DEF Untouched, Lacks
  <2> QED
    BY <1>1, <1>3, <2>5
<1> QED
  BY <1>2, <1>3

(* At first nothing was said. *)
LEMMA SessionInitially == PipelineInit => HeardShape(nextTurn) /\ InOrder /\ Session
<1> SUFFICES ASSUME PipelineInit PROVE HeardShape(nextTurn) /\ InOrder /\ Session
  OBVIOUS
<1>1. /\ nextTurn = 1 /\ active = 0 /\ ended = {} /\ state = "Idle" /\ step = "idle"
      /\ queue = [s \in Subscribers |-> <<>>] /\ out = [t \in Publishers |-> <<>>]
      /\ jobs = <<>> /\ synth = Resting /\ tokens = [t \in {} |-> 0] /\ lastToken = 0 /\ dead = {}
      /\ chunks = <<>> /\ current = <<>> /\ postbox = <<>> /\ stream = NoStream /\ pending = FALSE
      /\ heard = <<>> /\ unsaid = {} /\ clearing = FALSE
      /\ talking = FALSE /\ utterances = 0 /\ atStt = 0 /\ lines = 0 /\ summary = "none"
      /\ said = [t \in Turns |-> 0]
  BY DEF PipelineInit, FsmInit, ManagerInit, BridgeInit, PlaybackInit, NoTurn
<1>2. /\ \A s \in Subscribers : queue[s] = <<>>
      /\ \A t \in Publishers : out[t] = <<>>
  BY <1>1
<1>3. /\ queue["fsm"] = <<>> /\ queue["bridge"] = <<>> /\ queue["manager"] = <<>> /\ queue["bargein"] = <<>>
      /\ out["audio"] = <<>> /\ out["stt"] = <<>> /\ out["stdin"] = <<>> /\ out["fsm"] = <<>>
      /\ out["bargein"] = <<>> /\ out["manager"] = <<>> /\ out["llm"] = <<>> /\ out["playback"] = <<>>
      /\ out["summarizer"] = <<>>
  BY <1>2 DEF Subscribers, Publishers
<1>4. HeardShape(nextTurn)
  BY <1>1 DEF HeardShape
<1>5. InOrder
  <2>1. \A R : Ordered(<<>>, R)
    BY DEF Ordered
  <2>2. /\ Range(heard) = {} /\ AudioOf(chunks) = {} /\ WorkOf(synth) = {} /\ Marks(Range(jobs)) = {}
        /\ SaidTo(queue["bridge"]) = {} /\ DueTo(out["llm"]) = {}
    BY <1>1, <1>3, NothingThere
  <2>3. \A i \in 1 .. 6 : Line[i] = {}
    BY <2>2, Places
  <2>4. InLine(Line)
    BY <2>3 DEF InLine, Before
  <2> QED
    BY <1>1, <1>3, <2>1, <2>4 DEF InOrder
<1>6. Rest
  <2>1. Unwinding
    BY <1>3, NothingThere DEF Unwinding
  <2>2. stream.phase = "idle"
    BY <1>1 DEF NoStream
  <2> QED
    BY <1>1, <1>3, <2>1, <2>2 DEF Rest, Silence, NothingSpoken, StreamOver, Over, Refusing
<1>7. Completed /\ Alone /\ TokensKnown
  BY <1>1, <1>3 DEF Completed, Alone, TokensKnown
<1>8. Counted
  <2>1. MaxUtterances \in Nat
    BY PipelineAssumption
  <2> QED
    BY <1>1, <1>6, <2>1 DEF Counted
<1> QED
  BY <1>1, <1>4, <1>5, <1>6, <1>7, <1>8 DEF Session, Conversing, Course

(* The first half of the property is the order of what was heard, the second the books. *)
LEMMA HeardInOrder ==
    ASSUME NEW n \in Nat, HeardShape(n), Ordered(heard, HeardOrder)
    PROVE  \A i, j \in DOMAIN heard : i < j /\ heard[i][1] = heard[j][1] => heard[i][2] < heard[j][2]
  BY DEF HeardShape, Ordered, HeardOrder

(* A turn that completed was said at all. *)
LEMMA CompletedTold ==
    ASSUME NEW n \in Nat, n = nextTurn, FsmTypeOK, Session, HeardShape(n)
    PROVE  \A t \in Turns : <<t, "completed">> \in ended =>
             SentencesOf({heard[i] : i \in DOMAIN heard} \cup unsaid, t) = 0 .. (said[t] - 1)
<1>1. Range(heard) = {heard[i] : i \in DOMAIN heard}
  BY DEF Range
<1>2. CASE lines = 0
  BY <1>1, <1>2 DEF Session, Conversing, Completed, Told
<1>3. CASE lines # 0
  BY <1>3 DEF Session, Typed
<1> QED
  BY <1>2, <1>3

(* tts_bridge.cpp, playback/queue.cpp, engine.cpp, fsm.cpp: the user hears the sentences of *)
(* a reply in the order in which the LLM produced them, each once, and of a turn the FSM      *)
(* reports as completed every sentence was heard or given up by the speech server or a full   *)
(* queue; for any number of turns, typed lines and sentences, any sentence cap, prefill and   *)
(* queue size, whether transcripts are refused, speech recognition or synthesis fails or not. *)
(* It assumes what the conversation run does: the session is spoken or typed, the user waits  *)
(* for the answer, the bus is faster than they are, and nobody else makes LLM requests.       *)
THEOREM RepliesHeardAsSaid ==
    ASSUME Prompt, OneInput, SpeaksIn \subseteq {"Listening"}, ~Summarizing
    PROVE  PipelineSafety => []HeardAsSaid
<1> DEFINE Inv == FsmTypeOK /\ TurnsEndOnce /\ Shape /\ PlaysBehind /\ HeardShape(nextTurn) /\ InOrder /\ Session
<1>1. PipelineInit => Inv
  BY FsmInitially, CoveredInitially, SessionInitially DEF PipelineInit
<1>2. Inv /\ [PipelineNext]_pipelineVars => Inv'
  <2> SUFFICES ASSUME Inv, [PipelineNext]_pipelineVars PROVE Inv'
    OBVIOUS
  <2>1. FsmTypeOK' /\ TurnsEndOnce'
    BY PipelineStepsFsm, FsmTypeStep, LedgerSteps, EndOnceStep
  <2>2. Shape' /\ PlaysBehind'
    BY <2>1, CoveredStep
  <2>3. PICK n \in Nat, m \in Nat : n = nextTurn /\ m = nextTurn'
    BY <2>1 DEF FsmTypeOK
  <2>4. BusShape(n) /\ BridgeShape(n) /\ PlayShape(n) /\ StreamShape(stream, n) /\ HeardShape(n)
    BY <2>3 DEF Shape
  <2>5. Session'
    BY <2>3, <2>4, SessionStep
  <2>6. ManagerAdopts => Untouched(stream'.turn)
    BY <2>3, <2>4, AdoptedUntouched
  <2>7. InOrder' /\ HeardShape(n)'
    BY <2>3, <2>4, <2>6, OrderStep
  <2>8. HeardShape(nextTurn)'
    <3>0. nextTurn' = nextTurn \/ nextTurn' = nextTurn + 1
      BY TurnsGrow
    <3>5. m = n \/ m = n + 1
      BY <2>3, <3>0
    <3>1. Turned(n) \subseteq Turned(m)
      BY <3>5 DEF Turned
    <3>2. heard' \in Seq(Turned(n) \X Nat) /\ unsaid' \in SUBSET (Turned(n) \X Nat)
      BY <2>7 DEF HeardShape
    <3>3. Turned(n) \X Nat \subseteq Turned(m) \X Nat
      BY <3>1
    <3>4. heard' \in Seq(Turned(m) \X Nat) /\ unsaid' \in SUBSET (Turned(m) \X Nat)
      BY <3>2, <3>3
    <3> QED
      BY <2>3, <3>4 DEF HeardShape
  <2> QED
    BY <2>1, <2>2, <2>5, <2>7, <2>8
<1>3. Inv => HeardAsSaid
  <2> SUFFICES ASSUME Inv PROVE HeardAsSaid
    OBVIOUS
  <2>1. PICK n \in Nat : n = nextTurn
    BY DEF FsmTypeOK
  <2>2. HeardShape(n) /\ Ordered(heard, HeardOrder)
    BY <2>1 DEF InOrder
  <2> QED
    BY <2>1, <2>2, HeardInOrder, CompletedTold DEF HeardAsSaid
<1> QED
  BY <1>1, <1>2, <1>3, PTL DEF PipelineSafety
=============================================================================
