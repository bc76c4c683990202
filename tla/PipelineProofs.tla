--------------------------- MODULE PipelineProofs ---------------------------
(***************************************************************************)
(* The whole dialogue path.  First the state machine by itself: it         *)
(* accounts for every turn, whatever events reach it and in whatever       *)
(* order.  FsmTypeOK is inductive: besides the types it ties the transient *)
(* states to the handler that is running.  TurnsEndOnce is inductive with  *)
(* it; the other two need TurnsEndOnce, because the set of ended turns     *)
(* only grows by one when the active turn is not in it yet.                *)
(*                                                                         *)
(* Then the FSM inside the path: every step of the pipeline is a step of   *)
(* Fsm or leaves the FSM alone, so all this holds there.                   *)
(*                                                                         *)
(* Then the count of sentences.  That no more sentences are played than    *)
(* received is not inductive: it depends on everything that may still      *)
(* become a PlaybackFinished of the active turn.  Load counts these places *)
(* - the push to the bridge that is due, the bridge's queue, the jobs, the *)
(* one in synthesis, the end markers in the playback queue and in the      *)
(* engine, the posts, the push to the FSM that is due - and Balanced says  *)
(* that they are covered by sentences the FSM was told of or has in its    *)
(* queue.  Ahead says it of every front part of that queue.  Both hold     *)
(* because the FSM subscribes before the bridge: a sentence is on its way  *)
(* to the bridge only after it was pushed to the FSM.                      *)
(*                                                                         *)
(* Last, the order of the sentences.  Line lists the places a sentence     *)
(* passes, from the ears back to the stream, and InOrder says that within  *)
(* a turn each place is in order and ahead of the places behind it.        *)
(* SessionProofs uses it.                                                  *)
(***************************************************************************)
EXTENDS TurnPipeline, FiniteSetTheorems, Flows, TLAPS

-----------------------------------------------------------------------------
(* The state machine by itself. *)

(* The invariant holds before the FSM is started. *)
LEMMA FsmInitially ==
    FsmInit => FsmTypeOK /\ TurnsEndOnce /\ OutcomesCounted /\ CancelledAreInterrupted
<1> SUFFICES ASSUME FsmInit
             PROVE  FsmTypeOK /\ TurnsEndOnce /\ OutcomesCounted /\ CancelledAreInterrupted
  OBVIOUS
<1>1. FsmTypeOK
  <2>1. llmFinished \in BOOLEAN
    BY DEF FsmInit
  <2>2. nextTurn \in Nat \ {0} /\ active \in Nat /\ active < nextTurn
    BY DEF FsmInit, NoTurn
  <2>3. state \in States /\ outcome \in Outcomes
        /\ (state \in {"Completed", "Interrupted"} <=> step = "settle")
    BY DEF FsmInit, States, Outcomes
  <2>4. QED
    BY <2>1, <2>2, <2>3 DEF FsmInit, FsmTypeOK
<1>2. TurnsEndOnce
  BY DEF FsmInit, TurnsEndOnce, Open, InTurn
<1>3. OutcomesCounted
  BY FS_EmptySet DEF FsmInit, OutcomesCounted
<1>4. CancelledAreInterrupted
  BY DEF FsmInit, CancelledAreInterrupted
<1>5. QED
  BY <1>1, <1>2, <1>3, <1>4

(* No handler, and no part of a handler, leaves a variable outside its type. *)
LEMMA FsmTypeStep == FsmTypeOK /\ TurnsEndOnce /\ [FsmNext]_fsmVars => FsmTypeOK'
<1> SUFFICES ASSUME FsmTypeOK, TurnsEndOnce, [FsmNext]_fsmVars
             PROVE  FsmTypeOK'
  OBVIOUS
<1> USE DEF FsmTypeOK, States, Outcomes, InTurn, perTurn, counters
<1>1. CASE Start
  BY <1>1 DEF Start
<1>2. CASE MintElsewhere
  BY <1>2 DEF MintElsewhere
<1>3. CASE HandleSpeechStarted
  <2>1. CASE BeginTurn
    <3>1. llmFinished' \in BOOLEAN
      BY <2>1 DEF BeginTurn
    <3>2. QED
      BY <1>3, <2>1, <3>1 DEF HandleSpeechStarted, BeginTurn, CanBegin, Ignored, fsmVars
  <2>2. CASE Ignored
    BY <2>2 DEF Ignored, fsmVars
  <2>3. QED
    BY <1>3, <2>1, <2>2 DEF HandleSpeechStarted
<1>4. CASE HandleSpeechEnded
  BY <1>4 DEF HandleSpeechEnded
<1>5. CASE HandleFinalTranscript
  BY <1>5 DEF HandleFinalTranscript
<1>6. CASE HandleLlmSentence
  BY <1>6 DEF HandleLlmSentence
<1>7. CASE HandleLlmFinished
  <2>1. llmFinished' \in BOOLEAN
    BY <1>7 DEF HandleLlmFinished
  <2>2. QED
    BY <1>7, <2>1 DEF HandleLlmFinished, Complete, StaysInTurn, TurnsEndOnce, Open
<1>8. ASSUME NEW t \in Nat, HandlePlaybackFinished(t)
      PROVE  FsmTypeOK'
  <2>1. CASE PlaybackCounts(t)
    <3>1. played' \in Nat
      BY <2>1 DEF PlaybackCounts
    <3>2. CASE Complete /\ state = "Speaking"
      BY <1>8, <2>1, <3>1, <3>2
         DEF HandlePlaybackFinished, PlaybackCounts, Complete, TurnsEndOnce, Open
    <3>3. CASE StaysInTurn
      BY <2>1, <3>1, <3>3 DEF PlaybackCounts, StaysInTurn
    <3>4. QED
      BY <2>1, <3>2, <3>3 DEF PlaybackCounts
  <2>2. CASE Ignored
    BY <2>2 DEF Ignored, fsmVars
  <2>3. QED
    BY <1>8, <2>1, <2>2 DEF HandlePlaybackFinished
<1>9. CASE HandleUserInterrupted
  BY <1>9 DEF HandleUserInterrupted, Interruptible, Ignored, fsmVars, TurnsEndOnce, Open
<1>10. CASE InterruptOutcome
  BY <1>10 DEF InterruptOutcome, TurnsEndOnce, Open
<1>11. CASE HandlerContinues
  BY <1>11 DEF HandlerContinues, SpeechStartedReturns, Settle
<1>12. CASE UNCHANGED fsmVars
  BY <1>12 DEF fsmVars
<1>13. QED
  <2>1. \A t \in 0..nextTurn : t \in Nat
    BY DEF FsmTypeOK
  <2> HIDE DEF FsmTypeOK, States, Outcomes, InTurn, perTurn, counters
  <2>2. QED
    BY <2>1, <1>1, <1>2, <1>3, <1>4, <1>5, <1>6, <1>7, <1>8, <1>9, <1>10, <1>11, <1>12
       DEF FsmNext, AnyEvent

-----------------------------------------------------------------------------
(* What a step does to the ledger of turns: nothing, a new turn, the start of *)
(* an interruption, or the report of the active turn, which is counted.       *)
QuietStep ==
    /\ UNCHANGED <<active, mine, ended, cancelled, counters>>
    /\ Open' <=> Open
    /\ step' = "interrupt" <=> step = "interrupt"

BeginStep ==
    /\ ~Open /\ Open'
    /\ step # "interrupt" /\ step' # "interrupt"
    /\ active' = nextTurn /\ mine' = mine \cup {nextTurn}
    /\ UNCHANGED <<ended, cancelled, counters>>

InterruptStep ==
    /\ Open /\ Open'
    /\ step # "interrupt" /\ step' = "interrupt"
    /\ cancelled' = cancelled \cup {active}
    /\ UNCHANGED <<active, mine, ended, counters>>

ReportStep(o) ==
    /\ Open /\ ~Open'
    /\ o = "completed" <=> step # "interrupt"
    /\ step' # "interrupt"
    /\ ended' = ended \cup {<<active, o>>}
    /\ completed' + interrupted' + discarded' = completed + interrupted + discarded + 1
    /\ UNCHANGED <<active, mine, cancelled>>

LedgerStep ==
    \/ QuietStep
    \/ BeginStep
    \/ InterruptStep
    \/ \E o \in {"completed", "interrupted", "discarded"} : ReportStep(o)

(* Every step of the FSM is one of them. *)
LEMMA LedgerSteps == FsmTypeOK /\ [FsmNext]_fsmVars => LedgerStep
<1> SUFFICES ASSUME FsmTypeOK, [FsmNext]_fsmVars
             PROVE  LedgerStep
  OBVIOUS
<1> USE DEF LedgerStep, QuietStep, Open, InTurn, perTurn, counters, FsmTypeOK
<1>1. CASE Start
  BY <1>1 DEF Start
<1>2. CASE MintElsewhere
  BY <1>2 DEF MintElsewhere
<1>3. CASE HandleSpeechStarted
  BY <1>3 DEF HandleSpeechStarted, BeginTurn, CanBegin, Ignored, fsmVars, BeginStep
<1>4. CASE HandleSpeechEnded
  BY <1>4 DEF HandleSpeechEnded
<1>5. CASE HandleFinalTranscript
  BY <1>5 DEF HandleFinalTranscript
<1>6. CASE HandleLlmSentence
  BY <1>6 DEF HandleLlmSentence
<1>7. CASE HandleLlmFinished
  <2>1. CASE Complete /\ state \in InTurn
    <3>1. ReportStep("completed")
      BY <1>7, <2>1 DEF HandleLlmFinished, Complete, ReportStep
    <3>2. QED
      BY <3>1
  <2>2. CASE StaysInTurn
    BY <1>7, <2>2 DEF HandleLlmFinished, StaysInTurn
  <2>3. QED
    BY <1>7, <2>1, <2>2 DEF HandleLlmFinished
<1>8. ASSUME NEW t \in Nat, HandlePlaybackFinished(t)
      PROVE  LedgerStep
  <2>1. CASE PlaybackCounts(t) /\ Complete /\ state = "Speaking"
    <3>1. ReportStep("completed")
      BY <1>8, <2>1 DEF HandlePlaybackFinished, PlaybackCounts, Complete, ReportStep
    <3>2. QED
      BY <3>1
  <2>2. CASE PlaybackCounts(t) /\ StaysInTurn
    BY <2>2 DEF PlaybackCounts, StaysInTurn
  <2>3. CASE Ignored
    BY <2>3 DEF Ignored, fsmVars
  <2>4. QED
    BY <1>8, <2>1, <2>2, <2>3 DEF HandlePlaybackFinished, PlaybackCounts
<1>9. CASE HandleUserInterrupted
  BY <1>9 DEF HandleUserInterrupted, Interruptible, Ignored, fsmVars, InterruptStep, States
<1>10. CASE InterruptOutcome
  <2>1. CASE played >= 1
    <3>1. ReportStep("interrupted")
      BY <1>10, <2>1 DEF InterruptOutcome, ReportStep
    <3>2. QED
      BY <3>1
  <2>2. CASE played = 0
    <3>1. ReportStep("discarded")
      BY <1>10, <2>2 DEF InterruptOutcome, ReportStep
    <3>2. QED
      BY <3>1
  <2>3. QED
    BY <2>1, <2>2
<1>11. CASE HandlerContinues
  BY <1>11 DEF HandlerContinues, SpeechStartedReturns, Settle
<1>12. CASE UNCHANGED fsmVars
  BY <1>12 DEF fsmVars
<1>13. QED
  <2>1. \A t \in 0..nextTurn : t \in Nat
    BY DEF FsmTypeOK
  <2> HIDE DEF LedgerStep, QuietStep, Open, InTurn, perTurn, counters, FsmTypeOK
  <2>2. QED
    BY <2>1, <1>1, <1>2, <1>3, <1>4, <1>5, <1>6, <1>7, <1>8, <1>9, <1>10, <1>11,
       <1>12 DEF FsmNext, AnyEvent

(* A turn that is minted is new; the turn that is reported was open. *)
LEMMA EndOnceStep == FsmTypeOK /\ TurnsEndOnce /\ LedgerStep => TurnsEndOnce'
<1> SUFFICES ASSUME FsmTypeOK, TurnsEndOnce, LedgerStep
             PROVE  TurnsEndOnce'
  OBVIOUS
<1>1. CASE QuietStep
  BY <1>1 DEF QuietStep, TurnsEndOnce
<1>2. CASE InterruptStep
  BY <1>2 DEF InterruptStep, TurnsEndOnce
<1>3. CASE BeginStep
  <2>1. nextTurn \notin mine /\ active # nextTurn
    BY DEF FsmTypeOK
  <2>2. \A o \in ended : o[1] \in mine
    BY DEF FsmTypeOK
  <2>3. QED
    BY <1>3, <2>1, <2>2 DEF BeginStep, TurnsEndOnce
<1>4. ASSUME NEW r \in {"completed", "interrupted", "discarded"}, ReportStep(r)
      PROVE  TurnsEndOnce'
  <2>1. active \in mine /\ \A o \in ended : o[1] # active
    BY <1>4 DEF ReportStep, TurnsEndOnce
  <2>2. ended' = ended \cup {<<active, r>>} /\ mine' = mine /\ active' = active /\ ~Open'
    BY <1>4 DEF ReportStep
  <2>3. ASSUME NEW t \in mine
        PROVE  \E o \in ended' : o[1] = t
    <3>1. CASE t = active
      <4>1. <<active, r>> \in ended' /\ <<active, r>>[1] = t
        BY <2>2, <3>1
      <4>2. QED
        BY <4>1
    <3>2. CASE t # active
      <4>1. \E o \in ended : o[1] = t
        BY <3>2 DEF TurnsEndOnce
      <4>2. QED
        BY <4>1, <2>2
    <3>3. QED
      BY <3>1, <3>2
  <2>4. \A t \in mine : \A o1, o2 \in ended' : o1[1] = t /\ o2[1] = t => o1 = o2
    BY <2>1, <2>2 DEF TurnsEndOnce
  <2>5. QED
    BY <2>2, <2>3, <2>4 DEF TurnsEndOnce
<1>5. QED
  BY <1>1, <1>2, <1>3, <1>4 DEF LedgerStep

(* A report adds a pair that was not there. *)
LEMMA CountedStep ==
    TurnsEndOnce /\ OutcomesCounted /\ LedgerStep => OutcomesCounted'
<1> SUFFICES ASSUME TurnsEndOnce, OutcomesCounted, LedgerStep
             PROVE  OutcomesCounted'
  OBVIOUS
<1>1. CASE UNCHANGED <<ended, counters>>
  BY <1>1 DEF OutcomesCounted, counters
<1>2. ASSUME NEW r \in {"completed", "interrupted", "discarded"}, ReportStep(r)
      PROVE  OutcomesCounted'
  <2>1. <<active, r>> \notin ended
    BY <1>2 DEF ReportStep, TurnsEndOnce
  <2>2. IsFiniteSet(ended') /\ Cardinality(ended') = Cardinality(ended) + 1
    BY <1>2, <2>1, FS_AddElement DEF ReportStep, OutcomesCounted
  <2>3. QED
    BY <1>2, <2>2 DEF ReportStep, OutcomesCounted
<1>3. QED
  BY <1>1, <1>2 DEF LedgerStep, QuietStep, BeginStep, InterruptStep

(* The token is cancelled before the report, and a report of a turn that is not being *)
(* interrupted is never "interrupted" or "discarded".                                *)
LEMMA CancelledStep ==
    FsmTypeOK /\ TurnsEndOnce /\ CancelledAreInterrupted /\ LedgerStep
        => CancelledAreInterrupted'
<1> SUFFICES ASSUME FsmTypeOK, TurnsEndOnce, CancelledAreInterrupted, LedgerStep
             PROVE  CancelledAreInterrupted'
  OBVIOUS
<1>1. CASE QuietStep
  BY <1>1 DEF QuietStep, CancelledAreInterrupted
<1>2. CASE BeginStep
  <2>1. nextTurn \notin mine /\ nextTurn \notin cancelled
    BY DEF FsmTypeOK
  <2>2. <<nextTurn, "interrupted">> \notin ended /\ <<nextTurn, "discarded">> \notin ended
    BY <2>1 DEF FsmTypeOK
  <2>3. QED
    BY <1>2, <2>1, <2>2 DEF BeginStep, CancelledAreInterrupted
<1>3. CASE InterruptStep
  BY <1>3 DEF InterruptStep, CancelledAreInterrupted
<1>4. ASSUME NEW r \in {"completed", "interrupted", "discarded"}, ReportStep(r)
      PROVE  CancelledAreInterrupted'
  <2>1. <<active, "interrupted">> \notin ended /\ <<active, "discarded">> \notin ended
    BY <1>4 DEF ReportStep, TurnsEndOnce
  <2>2. QED
    BY <1>4, <2>1 DEF ReportStep, CancelledAreInterrupted
<1>5. QED
  BY <1>1, <1>2, <1>3, <1>4 DEF LedgerStep

-----------------------------------------------------------------------------
(* fsm.cpp: whatever events arrive, in whatever order, the members stay in their types *)
(* and the transient states Completed and Interrupted are left by the handler that     *)
(* entered them.                                                                       *)
THEOREM FsmTypeCorrect == FsmSpec => []FsmTypeOK
<1>1. FsmInit => FsmTypeOK /\ TurnsEndOnce
  BY FsmInitially
<1>2. FsmTypeOK /\ TurnsEndOnce /\ [FsmNext]_fsmVars => (FsmTypeOK /\ TurnsEndOnce)'
  BY FsmTypeStep, LedgerSteps, EndOnceStep
<1>3. QED
  BY <1>1, <1>2, PTL DEF FsmSpec

(* fsm.cpp: every turn that handle_speech_started mints ends exactly once. *)
THEOREM TurnsAccounted == FsmSpec => []TurnsEndOnce
<1>1. FsmInit => FsmTypeOK /\ TurnsEndOnce
  BY FsmInitially
<1>2. FsmTypeOK /\ TurnsEndOnce /\ [FsmNext]_fsmVars => (FsmTypeOK /\ TurnsEndOnce)'
  BY FsmTypeStep, LedgerSteps, EndOnceStep
<1>3. QED
  BY <1>1, <1>2, PTL DEF FsmSpec

(* fsm.cpp: turns_completed_, turns_interrupted_ and turns_discarded_ count every ended *)
(* turn once.                                                                           *)
THEOREM OutcomesAddUp == FsmSpec => []OutcomesCounted
<1>1. FsmInit => OutcomesCounted
  BY FsmInitially
<1>2. FsmTypeOK /\ TurnsEndOnce /\ OutcomesCounted /\ [FsmNext]_fsmVars => OutcomesCounted'
  BY LedgerSteps, CountedStep
<1>3. QED
  BY <1>1, <1>2, FsmTypeCorrect, TurnsAccounted, PTL DEF FsmSpec

(* fsm.cpp: handle_user_interrupted cancels the token of each turn it ends, and no     *)
(* other handler leaves a turn cancelled or reports one as interrupted.                *)
THEOREM CancellationMatchesOutcome == FsmSpec => []CancelledAreInterrupted
<1>1. FsmInit => CancelledAreInterrupted
  BY FsmInitially
<1>2. FsmTypeOK /\ TurnsEndOnce /\ CancelledAreInterrupted /\ [FsmNext]_fsmVars
        => CancelledAreInterrupted'
  BY LedgerSteps, CancelledStep
<1>3. QED
  BY <1>1, <1>2, FsmTypeCorrect, TurnsAccounted, PTL DEF FsmSpec

-----------------------------------------------------------------------------
(* The state machine inside the path. *)

(* The pipeline's steps, as the FSM sees them.  A PlaybackFinished of      *)
(* another turn than the active one changes nothing, so nothing has to be  *)
(* known about the turns that the events carry.                            *)
LEMMA PlaybackIsFsmStep ==
    ASSUME FsmTypeOK, NEW t, HandlePlaybackFinished(t)
    PROVE  FsmNext \/ UNCHANGED fsmVars
<1>1. CASE t = active
  <2>1. t \in 0..nextTurn
    BY <1>1 DEF FsmTypeOK
  <2>2. QED
    BY <2>1 DEF FsmNext, AnyEvent
<1>2. CASE t # active
  BY <1>2 DEF HandlePlaybackFinished, PlaybackCounts, Ignored
<1>3. QED
  BY <1>1, <1>2

(* What an event makes the FSM's worker do is what Fsm allows. *)
LEMMA DispatchIsFsmStep ==
    ASSUME FsmTypeOK, NEW e, Dispatch(e)
    PROVE  FsmNext \/ UNCHANGED fsmVars
<1>1. CASE HandlePlaybackFinished(e.turn)
  BY <1>1, PlaybackIsFsmStep
<1>2. QED
  BY <1>1 DEF Dispatch, FsmNext, AnyEvent

(* Every step of the pipeline is a step of the FSM, or leaves it alone. *)
LEMMA PipelineStepsFsm ==
    FsmTypeOK /\ [PipelineNext]_pipelineVars => [FsmNext]_fsmVars
<1> SUFFICES ASSUME FsmTypeOK, [PipelineNext]_pipelineVars
             PROVE  FsmNext \/ UNCHANGED fsmVars
  OBVIOUS
<1>1. ASSUME NEW t, Deliver(t) PROVE UNCHANGED fsmVars
  BY <1>1 DEF Deliver
<1>2. CASE FsmHandles
  BY <1>2, DispatchIsFsmStep DEF FsmHandles
<1>3. CASE FsmGoesOn
  BY <1>3 DEF FsmGoesOn, FsmNext
<1>4. CASE ManagerAdopts
  BY <1>4 DEF ManagerAdopts, FsmNext
<1>5. CASE BargeInFires \/ BargeInSuppressed
  BY <1>5 DEF BargeInFires, BargeInSuppressed
<1>6. CASE ManagerHandles \/ ManagerTakes \/ ManagerActivates \/ ManagerReturns
  BY <1>6 DEF ManagerHandles, ManagerTakes, ManagerActivates, ManagerReturns
<1>7. CASE LlmSays \/ LlmFinishes \/ SummaryFinishes
  BY <1>7 DEF LlmSays, LlmFinishes, SummaryFinishes
<1>8. CASE BridgeHandles \/ BridgeOrPlayback \/ PlaybackPublishes
  BY <1>8 DEF BridgeHandles, BridgeOrPlayback, PlaybackPublishes
<1>9. CASE UserBegins \/ UserEnds \/ Transcribed \/ LineTyped
  BY <1>9 DEF UserBegins, UserEnds, Transcribed, LineTyped
<1>10. CASE UNCHANGED pipelineVars
  BY <1>10 DEF pipelineVars
<1>11. QED
  BY <1>1, <1>2, <1>3, <1>4, <1>5, <1>6, <1>7, <1>8, <1>9, <1>10
     DEF PipelineNext, SystemStep

(* main.cpp: however the threads of the pipeline interleave, what happens  *)
(* to the FSM is what Fsm allows: nobody but its own handlers changes it,  *)
(* except that the Manager takes turn ids from the shared TurnFactory.     *)
(* This is the refinement the run no_timing checks, for every bound.       *)
THEOREM PipelineImplementsFsm == PipelineSafety => ImplementsFsm
<1>1. PipelineInit => FsmInit
  BY DEF PipelineInit
<1>2. FsmTypeOK /\ TurnsEndOnce /\ [PipelineNext]_pipelineVars => (FsmTypeOK /\ TurnsEndOnce)'
  BY PipelineStepsFsm, FsmTypeStep, LedgerSteps, EndOnceStep
<1>3. PipelineInit => FsmTypeOK /\ TurnsEndOnce
  BY <1>1, FsmInitially
<1>4. PipelineSafety => []FsmTypeOK
  BY <1>2, <1>3, PTL DEF PipelineSafety
<1>5. QED
  BY <1>1, <1>4, PipelineStepsFsm, PTL DEF PipelineSafety, ImplementsFsm, FsmSpec

(* In the whole pipeline, too, every turn ends exactly once, is counted    *)
(* once, and has its token cancelled exactly when it was interrupted: what *)
(* is proved of the FSM under any events holds under those it is sent.     *)
THEOREM PipelineAccountsForTurns ==
    PipelineSafety => [](TurnsEndOnce /\ OutcomesCounted /\ CancelledAreInterrupted)
<1>1. PipelineSafety => FsmSpec
  BY PipelineImplementsFsm DEF ImplementsFsm
<1>2. QED
  BY <1>1, TurnsAccounted, OutcomesAddUp, CancellationMatchesOutcome, PTL

-----------------------------------------------------------------------------
(* What travels between the threads, by the turns it may belong to. *)
Turned(n) == 0 .. n - 1
EventTypes == {"SpeechStarted", "SpeechEnded", "FinalTranscript", "LlmStarted", "LlmSentence",
               "LlmFinished", "PlaybackFinished", "UserInterrupted", "CancelGeneration"}
Events(turns) == [type : EventTypes, turn : turns, seq : Nat]
Sentences(turns) == [type : {"LlmSentence"}, turn : turns, seq : Nat]
Playbacks(turns) == [type : {"PlaybackFinished"}, turn : turns, seq : Nat]
Others(turns) == {e \in Events(turns) : e.type \notin {"LlmSentence", "PlaybackFinished"}}
Push(s, e) == [to |-> s, event |-> e]
Pushes(events) == [to : Subscribers, event : events]
JobsOf(turns) == [turn : turns, seq : Nat, token : Nat]
ChunksOf(turns, eos) == [turn : turns, seq : Nat, audio : BOOLEAN, eos : eos]
Posts(turns) == [turn : turns, seq : Nat]

(* What each place may hold, of turns below n: the queues, what the publishers still have *)
(* to push, the bridge, the playback and the stream.                                     *)
QueueShape(q, n) == q \in [Subscribers -> Seq(Events(Turned(n)))]

LlmOut(p, n) ==
    \/ p = <<>>
    \/ \E e \in Events(Turned(n)) :
         /\ e.type # "PlaybackFinished"
         /\ p = <<Push("bridge", e)>> \/ p = <<Push("fsm", e), Push("bridge", e)>>

PlaybackOut(p, n) == p = <<>> \/ \E e \in Playbacks(Turned(n)) : p = <<Push("fsm", e)>>

OutShape(o, n) ==
    /\ DOMAIN o = Publishers
    /\ \A t \in Publishers \ {"llm", "playback"} : o[t] \in Seq(Pushes(Others(Turned(n))))
    /\ LlmOut(o["llm"], n) /\ PlaybackOut(o["playback"], n)

SynthShape(s, n) ==
    \/ s = Resting
    \/ \E j \in JobsOf(Turned(n)), p \in {"submit", "audio", "tail", "marker"} :
         s = [phase |-> p, job |-> <<j>>]

TokenShape(tk, last) == tk \in [DOMAIN tk -> Nat] /\ last \in Nat

CurrentShape(c, n) == c = <<>> \/ \E k \in ChunksOf(Turned(n), {TRUE}) : c = <<k>>

StreamShape(s, n) == s \in [phase : {"idle", "adopt", "activate", "stream", "finish", "return"},
                           turn : Turned(n), seq : Nat]

BusShape(n) == QueueShape(queue, n) /\ OutShape(out, n)
BridgeShape(n) ==
    jobs \in Seq(JobsOf(Turned(n))) /\ SynthShape(synth, n) /\ TokenShape(tokens, lastToken)
PlayShape(n) ==
    /\ chunks \in Seq(ChunksOf(Turned(n), BOOLEAN)) /\ CurrentShape(current, n)
    /\ postbox \in Seq(Posts(Turned(n)))
Shape == /\ BusShape(nextTurn) /\ BridgeShape(nextTurn) /\ PlayShape(nextTurn)
         /\ StreamShape(stream, nextTurn)

(* More turns, more that may travel. *)
LEMMA ShapeGrows ==
    ASSUME NEW n \in Nat, NEW m \in Nat, n <= m
    PROVE  /\ \A q : QueueShape(q, n) => QueueShape(q, m)
           /\ \A o : OutShape(o, n) => OutShape(o, m)
           /\ \A j \in Seq(JobsOf(Turned(n))) : j \in Seq(JobsOf(Turned(m)))
           /\ \A s : SynthShape(s, n) => SynthShape(s, m)
           /\ \A c \in Seq(ChunksOf(Turned(n), BOOLEAN)) : c \in Seq(ChunksOf(Turned(m), BOOLEAN))
           /\ \A c : CurrentShape(c, n) => CurrentShape(c, m)
           /\ \A p \in Seq(Posts(Turned(n))) : p \in Seq(Posts(Turned(m)))
           /\ \A s : StreamShape(s, n) => StreamShape(s, m)
<1>0. Turned(n) \subseteq Turned(m)
  BY DEF Turned
<1> DEFINE N == Turned(n)
           M == Turned(m)
<1> HIDE DEF N, M
<1>1. N \subseteq M /\ N = Turned(n) /\ M = Turned(m)
  BY <1>0 DEF N, M
<1>2. /\ Events(N) \subseteq Events(M) /\ Playbacks(N) \subseteq Playbacks(M)
      /\ Others(N) \subseteq Others(M) /\ JobsOf(N) \subseteq JobsOf(M)
      /\ Posts(N) \subseteq Posts(M)
  BY <1>1 DEF Events, Playbacks, Others, JobsOf, Posts
<1>3. /\ Pushes(Others(N)) \subseteq Pushes(Others(M))
      /\ \A B : ChunksOf(N, B) \subseteq ChunksOf(M, B)
  BY <1>1, <1>2 DEF Pushes, ChunksOf
<1>4. ASSUME NEW q, QueueShape(q, n) PROVE QueueShape(q, m)
  <2>1. Seq(Events(N)) \subseteq Seq(Events(M))
    BY <1>2, SeqGrows
  <2> QED
    BY <1>1, <1>4, <2>1 DEF QueueShape
<1>5. ASSUME NEW o, OutShape(o, n) PROVE OutShape(o, m)
  <2>1. LlmOut(o["llm"], m)
    BY <1>1, <1>2, <1>5 DEF LlmOut, OutShape
  <2>2. PlaybackOut(o["playback"], m)
    BY <1>1, <1>2, <1>5 DEF PlaybackOut, OutShape
  <2>3. Seq(Pushes(Others(N))) \subseteq Seq(Pushes(Others(M)))
    BY <1>3, SeqGrows
  <2> QED
    BY <1>1, <1>5, <2>1, <2>2, <2>3 DEF OutShape
<1>6. /\ Seq(JobsOf(N)) \subseteq Seq(JobsOf(M)) /\ Seq(Posts(N)) \subseteq Seq(Posts(M))
      /\ Seq(ChunksOf(N, BOOLEAN)) \subseteq Seq(ChunksOf(M, BOOLEAN))
  BY <1>2, <1>3, SeqGrows
<1>7. \A s : SynthShape(s, n) => SynthShape(s, m)
  BY <1>1, <1>2 DEF SynthShape
<1>8. \A c : CurrentShape(c, n) => CurrentShape(c, m)
  BY <1>1, <1>3 DEF CurrentShape
<1>9. \A s : StreamShape(s, n) => StreamShape(s, m)
  BY <1>1 DEF StreamShape
<1> QED
  BY <1>1, <1>4, <1>5, <1>6, <1>7, <1>8, <1>9

(* Who is told of an event, and in which order. *)
LEMMA DeliveriesAre ==
    ASSUME NEW T, NEW e \in Events(T)
    PROVE  /\ e.type = "LlmStarted" => Deliveries(e) = <<Push("bridge", e)>>
           /\ e.type \in {"LlmSentence", "LlmFinished"}
                => Deliveries(e) = <<Push("fsm", e), Push("bridge", e)>>
           /\ e.type = "PlaybackFinished" => Deliveries(e) = <<Push("fsm", e)>>
           /\ e \in Others(T) => Deliveries(e) \in Seq(Pushes(Others(T)))
<1> DEFINE to(s) == IF e.type \in Reacts[s] THEN <<Push(s, e)>> ELSE <<>>
<1>1. Deliveries(e) = to("fsm") \o to("bridge") \o to("manager") \o to("bargein")
  BY DEF Deliveries, Order, Push
<1>2. /\ e.type = "LlmStarted" =>
           to("fsm") = <<>> /\ to("bridge") = <<Push("bridge", e)>>
           /\ to("manager") = <<>> /\ to("bargein") = <<>>
      /\ e.type \in {"LlmSentence", "LlmFinished"} =>
           to("fsm") = <<Push("fsm", e)>> /\ to("bridge") = <<Push("bridge", e)>>
           /\ to("manager") = <<>> /\ to("bargein") = <<>>
      /\ e.type = "PlaybackFinished" =>
           to("fsm") = <<Push("fsm", e)>> /\ to("bridge") = <<>>
           /\ to("manager") = <<>> /\ to("bargein") = <<>>
  BY DEF Reacts
<1>3. ASSUME NEW S, NEW x \in S
      PROVE  /\ <<x>> \in Seq(S) /\ <<>> \in Seq(S)
             /\ <<>> \o <<x>> = <<x>> /\ <<x>> \o <<>> = <<x>> /\ <<>> \o <<>> = <<>>
  <2>1. <<x>> \in Seq(S) /\ <<>> \in Seq(S)
    OBVIOUS
  <2> QED
    BY <2>1, ConcatEmptySeq
<1>4. ASSUME NEW S, NEW x \in S, NEW y \in S
      PROVE  <<x>> \o <<y>> = <<x, y>> /\ <<x, y>> \o <<>> = <<x, y>>
  <2>1. <<x>> \in Seq(S) /\ <<y>> \in Seq(S) /\ <<x, y>> \in Seq(S)
    OBVIOUS
  <2>2. <<x>> \o <<y>> = <<x, y>>
    <3>1. <<x>> \o <<y>> = Append(<<x>>, y)
      BY <2>1, SingleEnd
    <3>2. Append(<<x>>, y) = <<x, y>>
      <4> DEFINE l == Append(<<x>>, y)
                 r == <<x, y>>
      <4>1. l \in Seq(S) /\ Len(l) = 2 /\ l[1] = x /\ l[2] = y
        BY <2>1
      <4>2. r \in Seq(S) /\ Len(r) = 2 /\ r[1] = x /\ r[2] = y
        BY <2>1
      <4> HIDE DEF l, r
      <4>3. \A i \in 1 .. Len(l) : l[i] = r[i]
        BY <4>1, <4>2
      <4>4. l = r
        BY <4>1, <4>2, <4>3, SeqEqual
      <4> QED
        BY <4>4 DEF l, r
    <3> QED
      BY <3>1, <3>2
  <2> QED
    BY <2>1, <2>2, ConcatEmptySeq
<1>5. ASSUME e \in Others(T) PROVE Deliveries(e) \in Seq(Pushes(Others(T)))
  <2>1. \A s \in Subscribers : Push(s, e) \in Pushes(Others(T))
    BY <1>5 DEF Push, Pushes
  <2>2. \A s \in Subscribers : to(s) \in Seq(Pushes(Others(T)))
    BY <2>1
  <2>3. "fsm" \in Subscribers /\ "bridge" \in Subscribers /\ "manager" \in Subscribers
        /\ "bargein" \in Subscribers
    BY DEF Subscribers
  <2> HIDE DEF to
  <2> QED
    BY <1>1, <2>2, <2>3
<1>9. Push("fsm", e) \in Pushes({e}) /\ Push("bridge", e) \in Pushes({e})
  BY DEF Push, Pushes, Subscribers
<1> HIDE DEF to
<1>6. e.type = "LlmStarted" => Deliveries(e) = <<Push("bridge", e)>>
  BY <1>1, <1>2, <1>3, <1>9
<1>7. e.type \in {"LlmSentence", "LlmFinished"}
        => Deliveries(e) = <<Push("fsm", e), Push("bridge", e)>>
  BY <1>1, <1>2, <1>4, <1>9
<1>8. e.type = "PlaybackFinished" => Deliveries(e) = <<Push("fsm", e)>>
  BY <1>1, <1>2, <1>3, <1>9
<1> QED
  BY <1>5, <1>6, <1>7, <1>8

-----------------------------------------------------------------------------
(* on_user_interrupted *)
LEMMA JobsWithoutKeeps ==
    ASSUME NEW T, jobs \in Seq(T), NEW turn, NEW S
    PROVE  JobsWithout(turn) \in Seq(T) /\ Count(JobsWithout(turn), S) <= Count(jobs, S)
<1> DEFINE D == {j \in T : j.turn = turn}
           F(g) == [i \in 0 .. Len(jobs) |->
                      IF i = 0 THEN <<>>
                      ELSE IF jobs[i].turn = turn THEN g[i - 1] ELSE Append(g[i - 1], jobs[i])]
           kept == CHOOSE g : g = F(g)
<1>1. JobsWithout(turn) = kept[Len(jobs)]
  BY DEF JobsWithout
<1>2. ASSUME NEW g PROVE F(g) = [i \in 0 .. Len(jobs) |-> Keeping(jobs, D, g, i)]
  <2>1. \A i \in 0 .. Len(jobs) : i = 0 \/ (jobs[i] \in D <=> jobs[i].turn = turn)
    OBVIOUS
  <2> HIDE DEF D
  <2> QED
    BY <2>1 DEF Keeping
<1>3. \E g : g = F(g)
  <2>1. PICK g : g = [i \in 0 .. Len(jobs) |-> Keeping(jobs, D, g, i)]
    BY KeepingExists
  <2>2. g = F(g)
    BY <1>2, <2>1
  <2> QED
    BY <2>2
<1>4. kept = F(kept)
  <2> HIDE DEF F
  <2> QED
    BY <1>3
<1> HIDE DEF kept
<1>5. kept = [i \in 0 .. Len(jobs) |-> Keeping(jobs, D, kept, i)]
  BY <1>2, <1>4
<1> HIDE DEF D
<1> QED
  BY <1>1, <1>5, KeepingKeeps

-----------------------------------------------------------------------------
(* The bus: a publish, one push of it, and the worker that takes an event. *)
LEMMA QuietPublish ==
    ASSUME NEW n, NEW o, OutShape(o, n), NEW t \in Publishers \ {"llm", "playback"},
           NEW e \in Others(Turned(n))
    PROVE  /\ OutShape([o EXCEPT ![t] = Deliveries(e)], n)
           /\ [o EXCEPT ![t] = Deliveries(e)]["llm"] = o["llm"]
           /\ [o EXCEPT ![t] = Deliveries(e)]["playback"] = o["playback"]
<1>1. Deliveries(e) \in Seq(Pushes(Others(Turned(n))))
  BY DeliveriesAre DEF Others
<1> QED
  BY <1>1 DEF OutShape, Publishers

(* The I/O thread of the Manager publishes an event of the stream. *)
LEMMA LlmPublish ==
    ASSUME NEW n, NEW o, OutShape(o, n), NEW e \in Events(Turned(n)),
           e.type \in {"LlmStarted", "LlmSentence", "LlmFinished"}
    PROVE  /\ OutShape([o EXCEPT !["llm"] = Deliveries(e)], n)
           /\ [o EXCEPT !["llm"] = Deliveries(e)]["llm"] = Deliveries(e)
           /\ [o EXCEPT !["llm"] = Deliveries(e)]["playback"] = o["playback"]
<1>1. LlmOut(Deliveries(e), n)
  BY DeliveriesAre DEF LlmOut
<1> QED
  BY <1>1 DEF OutShape, Publishers

(* The engine publishes that a sentence was played. *)
LEMMA PlaybackPublish ==
    ASSUME NEW n, NEW o, OutShape(o, n), NEW e \in Playbacks(Turned(n))
    PROVE  /\ OutShape([o EXCEPT !["playback"] = Deliveries(e)], n)
           /\ [o EXCEPT !["playback"] = Deliveries(e)]["llm"] = o["llm"]
           /\ [o EXCEPT !["playback"] = Deliveries(e)]["playback"] = <<Push("fsm", e)>>
<1>1. e \in Events(Turned(n)) /\ e.type = "PlaybackFinished"
  BY DEF Playbacks, Events, EventTypes
<1>2. PlaybackOut(Deliveries(e), n) /\ Deliveries(e) = <<Push("fsm", e)>>
  BY <1>1, DeliveriesAre DEF PlaybackOut
<1> QED
  BY <1>2 DEF OutShape, Publishers

(* One push of a publish moves the event from the publisher to a queue. *)
LEMMA Pushed ==
    ASSUME NEW n, NEW o, NEW q, OutShape(o, n), QueueShape(q, n), NEW t \in Publishers,
           o[t] # <<>>, NEW d, d = Head(o[t])
    PROVE  /\ d \in Pushes(Events(Turned(n)))
           /\ t \notin {"llm", "playback"} => d.event \in Others(Turned(n))
           /\ OutShape([o EXCEPT ![t] = Tail(o[t])], n)
           /\ QueueShape([q EXCEPT ![d.to] = Append(q[d.to], d.event)], n)
<1>1. CASE t \notin {"llm", "playback"}
  <2>1. o[t] \in Seq(Pushes(Others(Turned(n))))
    BY <1>1 DEF OutShape
  <2>2. d \in Pushes(Others(Turned(n))) /\ Tail(o[t]) \in Seq(Pushes(Others(Turned(n))))
    BY <2>1
  <2>3. d \in Pushes(Events(Turned(n))) /\ d.event \in Others(Turned(n))
    BY <2>2 DEF Pushes, Others
  <2>4. OutShape([o EXCEPT ![t] = Tail(o[t])], n)
    BY <1>1, <2>2 DEF OutShape, Publishers
  <2> QED
    BY <2>3, <2>4 DEF QueueShape, Pushes
<1>2. CASE t = "llm"
  <2>1. PICK e \in Events(Turned(n)) :
          /\ e.type # "PlaybackFinished"
          /\ \/ o[t] = <<Push("bridge", e)>>
             \/ o[t] = <<Push("fsm", e), Push("bridge", e)>>
    BY <1>2 DEF OutShape, LlmOut
  <2>2. d \in {Push("bridge", e), Push("fsm", e)} /\ Tail(o[t]) \in {<<>>, <<Push("bridge", e)>>}
    BY <2>1, TailOfTwo, ZenonT(60)
  <2>3. d \in Pushes(Events(Turned(n)))
    BY <2>2 DEF Pushes, Push, Subscribers
  <2>4. LlmOut(Tail(o[t]), n)
    BY <2>1, <2>2 DEF LlmOut
  <2>5. OutShape([o EXCEPT ![t] = Tail(o[t])], n)
    BY <1>2, <2>4 DEF OutShape, Publishers
  <2> QED
    BY <1>2, <2>3, <2>5 DEF QueueShape, Pushes
<1>3. CASE t = "playback"
  <2>1. PICK e \in Playbacks(Turned(n)) : o[t] = <<Push("fsm", e)>>
    BY <1>3 DEF OutShape, PlaybackOut
  <2>2. d = Push("fsm", e) /\ Tail(o[t]) = <<>>
    BY <2>1
  <2>3. d \in Pushes(Events(Turned(n)))
    BY <2>2 DEF Pushes, Push, Subscribers, Playbacks, Events, EventTypes
  <2>4. OutShape([o EXCEPT ![t] = Tail(o[t])], n)
    BY <1>3, <2>2 DEF OutShape, Publishers, PlaybackOut
  <2> QED
    BY <1>3, <2>3, <2>4 DEF QueueShape, Pushes
<1> QED
  BY <1>1, <1>2, <1>3

(* A worker takes the first event of its queue. *)
LEMMA Taken ==
    ASSUME NEW n, NEW q, QueueShape(q, n), NEW s \in Subscribers, q[s] # <<>>
    PROVE  /\ q[s] \in Seq(Events(Turned(n))) /\ Head(q[s]) \in Events(Turned(n))
           /\ QueueShape([q EXCEPT ![s] = Tail(q[s])], n)
  BY DEF QueueShape

-----------------------------------------------------------------------------
(* Sentences of turn a on their way: with the bridge, and in the playback. *)
Spoken(j, s, a) == Count(j, JobsOf({a})) + Count(s.job, JobsOf({a}))
Playing(c, k, p, a) ==
    Count(c, ChunksOf({a}, {TRUE})) + Count(k, ChunksOf({a}, {TRUE})) + Count(p, Posts({a}))

\* The terms are numbers.
LEMMA OnTheWayTypes ==
    ASSUME NEW n, NEW j \in Seq(JobsOf(Turned(n))), NEW s, SynthShape(s, n),
           NEW c \in Seq(ChunksOf(Turned(n), BOOLEAN)), NEW k, CurrentShape(k, n),
           NEW p \in Seq(Posts(Turned(n))), NEW S
    PROVE  /\ Count(j, S) \in Nat /\ Count(s.job, S) \in Nat
           /\ Count(c, S) \in Nat /\ Count(k, S) \in Nat /\ Count(p, S) \in Nat
<1>1. Count(s.job, S) \in Nat
  BY CountEmpty, CountOne, OneType DEF SynthShape, Resting
<1>2. Count(k, S) \in Nat
  BY CountEmpty, CountOne, OneType DEF CurrentShape
<1> QED
  BY <1>1, <1>2, CountType

(* The sentences with the bridge are a number. *)
LEMMA SpokenType ==
    ASSUME NEW n, NEW j \in Seq(JobsOf(Turned(n))), NEW s, SynthShape(s, n), NEW a
    PROVE  Spoken(j, s, a) \in Nat
<1>1. Count(s.job, JobsOf({a})) \in Nat
  BY CountEmpty, CountOne, OneType DEF SynthShape, Resting
<1> QED
  BY <1>1, CountType DEF Spoken

(* The sentences in the playback are a number. *)
LEMMA PlayingType ==
    ASSUME NEW n, NEW c \in Seq(ChunksOf(Turned(n), BOOLEAN)), NEW k, CurrentShape(k, n),
           NEW p \in Seq(Posts(Turned(n))), NEW a
    PROVE  Playing(c, k, p, a) \in Nat
<1>1. Count(k, ChunksOf({a}, {TRUE})) \in Nat
  BY CountEmpty, CountOne, OneType DEF CurrentShape
<1> QED
  BY <1>1, CountType DEF Playing

(* TtsBridge's I/O thread up to the end of submit, and the steps that lose a sentence. *)
LEMMA SynthesisGoesOn ==
    ASSUME NEW n \in Nat, BridgeShape(n), PlayShape(n), NEW a \in Nat,
           TakeJob \/ JobDropped \/ AudioArrives \/ SynthesisFails \/ TailDropped \/ TailDue
    PROVE  /\ BridgeShape(n)' /\ UNCHANGED playbackVars
           /\ Spoken(jobs', synth', a) <= Spoken(jobs, synth, a)
<1> DEFINE S == JobsOf({a})
<1>0. /\ jobs \in Seq(JobsOf(Turned(n))) /\ SynthShape(synth, n)
      /\ TokenShape(tokens, lastToken)
  BY DEF BridgeShape
<1>1. Count(jobs, S) \in Nat /\ Count(synth.job, S) \in Nat
  BY <1>0, OnTheWayTypes DEF PlayShape
<1>2. CASE TakeJob
  <2>1. /\ jobs # <<>> /\ synth = Resting /\ jobs' = Tail(jobs)
        /\ synth' = [phase |-> "submit", job |-> <<Head(jobs)>>]
        /\ tokens' = tokens /\ lastToken' = lastToken
    BY <1>2 DEF TakeJob
  <2>2. Head(jobs) \in JobsOf(Turned(n)) /\ Tail(jobs) \in Seq(JobsOf(Turned(n)))
    BY <1>0, <2>1
  <2>3. SynthShape(synth', n)
    BY <2>1, <2>2 DEF SynthShape
  <2>4. Count(jobs, S) = One(Head(jobs), S) + Count(Tail(jobs), S)
    BY <1>0, <2>1, CountTail
  <2>5. synth'.job = <<Head(jobs)>> /\ synth.job = <<>>
    BY <2>1 DEF Resting
  <2>6. Count(synth'.job, S) = One(Head(jobs), S) /\ Count(synth.job, S) = 0
    BY <2>5, CountOne, CountEmpty
  <2>7. One(Head(jobs), S) \in Nat /\ Count(Tail(jobs), S) \in Nat
    BY <2>2, OneType, CountType
  <2>8. Spoken(jobs', synth', a) <= Spoken(jobs, synth, a)
    BY <2>1, <2>4, <2>6, <2>7 DEF Spoken
  <2> QED
    BY <1>0, <1>2, <2>1, <2>2, <2>3, <2>8 DEF TakeJob, BridgeShape
<1>3. CASE JobDropped \/ TailDropped
  <2>1. /\ synth' = Resting /\ jobs' = jobs /\ tokens' = tokens /\ lastToken' = lastToken
        /\ UNCHANGED playbackVars
    BY <1>3 DEF JobDropped, TailDropped, workerVars
  <2>2. Count(synth'.job, S) = 0
    BY <2>1, CountEmpty DEF Resting
  <2>3. Spoken(jobs', synth', a) <= Spoken(jobs, synth, a)
    BY <1>1, <2>1, <2>2 DEF Spoken
  <2> QED
    BY <1>0, <2>1, <2>3 DEF BridgeShape, SynthShape
<1>4. CASE AudioArrives \/ SynthesisFails \/ TailDue
  <2>1. PICK q \in {"audio", "tail", "marker"} :
          /\ synth' = [synth EXCEPT !.phase = q] /\ synth.phase \in {"submit", "tail"}
          /\ jobs' = jobs /\ tokens' = tokens /\ lastToken' = lastToken
          /\ UNCHANGED playbackVars
    BY <1>4 DEF AudioArrives, SynthesisFails, TailDue, To, workerVars
  <2>2. PICK j \in JobsOf(Turned(n)), p \in {"submit", "audio", "tail", "marker"} :
          synth = [phase |-> p, job |-> <<j>>]
    BY <1>0, <2>1 DEF SynthShape, Resting
  <2>3. synth' = [phase |-> q, job |-> <<j>>] /\ synth'.job = synth.job
    BY <2>1, <2>2
  <2>4. SynthShape(synth', n)
    BY <2>3 DEF SynthShape
  <2>5. Spoken(jobs', synth', a) <= Spoken(jobs, synth, a)
    BY <1>1, <2>1, <2>3 DEF Spoken
  <2> QED
    BY <1>0, <2>1, <2>4, <2>5 DEF BridgeShape
<1> QED
  BY <1>2, <1>3, <1>4

(* What the job in hand becomes in the playback queue. *)
LEMMA JobInHand ==
    ASSUME NEW n \in Nat, SynthShape(synth, n), synth # Resting, NEW a \in Nat,
           NEW audio \in BOOLEAN, NEW eos \in BOOLEAN, NEW c, c = Chunk(audio, eos)
    PROVE  /\ c \in ChunksOf(Turned(n), BOOLEAN)
           /\ One(c, ChunksOf({a}, {TRUE})) <= Count(synth.job, JobsOf({a}))
           /\ ~eos => One(c, ChunksOf({a}, {TRUE})) = 0
<1>1. PICK j \in JobsOf(Turned(n)) : synth.job = <<j>> /\ Job = j
  BY DEF SynthShape, Job
<1>2. Count(synth.job, JobsOf({a})) = One(j, JobsOf({a}))
  BY <1>1, CountOne
<1>3. j.turn \in Turned(n) /\ j.seq \in Nat /\ j.token \in Nat
      /\ j = [turn |-> j.turn, seq |-> j.seq, token |-> j.token]
  BY DEF JobsOf
<1>4. c = [turn |-> j.turn, seq |-> j.seq, audio |-> audio, eos |-> eos]
  BY <1>1 DEF Chunk
<1>5. c \in ChunksOf(Turned(n), BOOLEAN)
  BY <1>3, <1>4 DEF ChunksOf
<1>6. c \in ChunksOf({a}, {TRUE}) => j \in JobsOf({a}) /\ eos
  <2>1. c.turn = j.turn /\ c.eos = eos
    BY <1>4
  <2>2. c \in ChunksOf({a}, {TRUE}) => c.turn = a /\ c.eos = TRUE
    BY DEF ChunksOf
  <2>3. j.turn = a => j \in JobsOf({a})
    BY <1>3 DEF JobsOf
  <2> QED
    BY <2>1, <2>2, <2>3
<1>7. /\ One(c, ChunksOf({a}, {TRUE})) <= One(j, JobsOf({a}))
      /\ ~eos => One(c, ChunksOf({a}, {TRUE})) = 0
  BY <1>6 DEF One
<1> QED
  BY <1>2, <1>5, <1>7

(* The audio and the end marker of a sentence reach the playback queue, or are lost. *)
LEMMA SentenceQueued ==
    ASSUME NEW n \in Nat, BridgeShape(n), PlayShape(n), NEW a \in Nat,
           AudioQueued \/ MarkerQueued
    PROVE  /\ BridgeShape(n)' /\ PlayShape(n)'
           /\ Spoken(jobs', synth', a) + Playing(chunks', current', postbox', a)
                <= Spoken(jobs, synth, a) + Playing(chunks, current, postbox, a)
<1> DEFINE S == JobsOf({a})
           E == ChunksOf({a}, {TRUE})
           C == ChunksOf(Turned(n), BOOLEAN)
<1>0. /\ jobs \in Seq(JobsOf(Turned(n))) /\ SynthShape(synth, n)
      /\ TokenShape(tokens, lastToken)
      /\ chunks \in Seq(C) /\ CurrentShape(current, n) /\ postbox \in Seq(Posts(Turned(n)))
  BY DEF BridgeShape, PlayShape
<1>1. /\ Count(jobs, S) \in Nat /\ Count(synth.job, S) \in Nat
      /\ Count(chunks, E) \in Nat /\ Count(current, E) \in Nat /\ Count(postbox, Posts({a})) \in Nat
  BY <1>0, OnTheWayTypes
<1>2. /\ synth # Resting /\ jobs' = jobs /\ tokens' = tokens /\ lastToken' = lastToken
      /\ current' = current /\ postbox' = postbox
  <2>1. synth.phase # "idle"
    BY DEF AudioQueued, MarkerQueued
  <2>2. synth # Resting
    BY <2>1 DEF Resting
  <2> QED
    BY <2>2 DEF AudioQueued, MarkerQueued, Enqueue, EnqueueBlocking, engineVars, workerVars
<1>3. CASE AudioQueued
  <2>1. chunks' = IF HasRoom THEN Append(chunks, Chunk(TRUE, FALSE)) ELSE chunks
    BY <1>3 DEF AudioQueued, Enqueue
  <2>2. PICK c \in C : c = Chunk(TRUE, FALSE) /\ One(c, E) = 0
    BY <1>0, <1>2, JobInHand
  <2>3. PICK j \in JobsOf(Turned(n)), p \in {"submit", "audio", "tail", "marker"} :
          synth = [phase |-> p, job |-> <<j>>]
    BY <1>0, <1>2 DEF SynthShape
  <2>4. synth' = [phase |-> "tail", job |-> <<j>>] /\ synth'.job = synth.job
    BY <1>3, <2>3 DEF AudioQueued, To
  <2>5. chunks' \in Seq(C) /\ Count(chunks', E) = Count(chunks, E)
    <3>0. chunks' = Append(chunks, c) \/ chunks' = chunks
      BY <2>1, <2>2 DEF Chunk
    <3>1. Count(Append(chunks, c), E) = Count(chunks, E) + One(c, E)
      BY <1>0, <2>2, CountAppend
    <3>2. Append(chunks, c) \in Seq(C)
      BY <1>0, <2>2, AppendElems
    <3>4. One(c, E) = 0
      BY <2>2, Zenon
    <3> QED
      <4> HIDE DEF C, E
      <4> QED
        <5>1. CASE chunks' = Append(chunks, c)
          <6>1. Count(Append(chunks, c), E) = Count(chunks, E)
            BY <1>1, <3>1, <3>4
          <6> QED
            BY <5>1, <6>1, <3>2
        <5>2. CASE chunks' = chunks
          BY <5>2, <1>0
        <5> QED
          BY <3>0, <5>1, <5>2
  <2>6. SynthShape(synth', n)
    BY <2>4 DEF SynthShape
  <2>7. /\ Spoken(jobs', synth', a) = Spoken(jobs, synth, a)
        /\ Playing(chunks', current', postbox', a) = Playing(chunks, current, postbox, a)
    BY <1>2, <2>4, <2>5 DEF Spoken, Playing
  <2> QED
    BY <1>0, <1>1, <1>2, <2>5, <2>6, <2>7 DEF BridgeShape, PlayShape, Spoken, Playing
<1>4. CASE MarkerQueued
  <2>1. /\ chunks' = IF HasRoom THEN Append(chunks, Chunk(FALSE, TRUE)) ELSE chunks
        /\ synth' = Resting
    BY <1>4 DEF MarkerQueued, EnqueueBlocking
  <2>2. PICK c \in C : c = Chunk(FALSE, TRUE) /\ One(c, E) <= Count(synth.job, S)
    BY <1>0, <1>2, JobInHand
  <2>3. chunks' \in Seq(C) /\ Count(chunks', E) <= Count(chunks, E) + Count(synth.job, S)
        /\ Count(chunks', E) \in Nat
    <3>0. chunks' = Append(chunks, c) \/ chunks' = chunks
      BY <2>1, <2>2 DEF Chunk
    <3>1. Count(Append(chunks, c), E) = Count(chunks, E) + One(c, E)
      BY <1>0, <2>2, CountAppend
    <3>2. Append(chunks, c) \in Seq(C)
      BY <1>0, <2>2, AppendElems
    <3>3. One(c, E) \in Nat
      BY OneType
    <3>4. One(c, E) <= Count(synth.job, S)
      BY <2>2, Zenon
    <3> QED
      <4> HIDE DEF C, E, S
      <4> QED
        <5>1. CASE chunks' = Append(chunks, c)
          <6>1. /\ Count(Append(chunks, c), E) <= Count(chunks, E) + Count(synth.job, S)
                /\ Count(Append(chunks, c), E) \in Nat
            BY <1>1, <3>1, <3>3, <3>4
          <6> QED
            BY <5>1, <6>1, <3>2
        <5>2. CASE chunks' = chunks
          <6>1. Count(chunks, E) <= Count(chunks, E) + Count(synth.job, S)
            BY <1>1
          <6> QED
            BY <5>2, <6>1, <1>0, <1>1
        <5> QED
          BY <3>0, <5>1, <5>2
  <2>4. Count(synth'.job, S) = 0
    BY <2>1, CountEmpty DEF Resting
  <2>5. Spoken(jobs', synth', a) + Playing(chunks', current', postbox', a)
          <= Spoken(jobs, synth, a) + Playing(chunks, current, postbox, a)
    BY <1>1, <1>2, <2>3, <2>4 DEF Spoken, Playing
  <2> QED
    BY <1>0, <1>2, <2>1, <2>3, <2>5 DEF BridgeShape, PlayShape, SynthShape
<1> QED
  BY <1>3, <1>4

(* PlaybackQueue::clear and PlaybackEngine::render_into. *)
LEMMA PlaybackGoesOn ==
    ASSUME NEW n \in Nat, PlayShape(n), NEW a \in Nat, ClearChunks \/ Render
    PROVE  /\ PlayShape(n)'
           /\ Playing(chunks', current', postbox', a) <= Playing(chunks, current, postbox, a)
<1> DEFINE E == ChunksOf({a}, {TRUE})
           C == ChunksOf(Turned(n), BOOLEAN)
           P == Posts({a})
<1>0. chunks \in Seq(C) /\ CurrentShape(current, n) /\ postbox \in Seq(Posts(Turned(n)))
  BY DEF PlayShape
<1>1. Count(chunks, E) \in Nat /\ Count(current, E) \in Nat /\ Count(postbox, P) \in Nat
  <2>1. Count(current, E) \in Nat
    BY <1>0, CountEmpty, CountOne, OneType DEF CurrentShape
  <2> QED
    BY <1>0, <2>1, CountType
<1>2. CASE ClearChunks
  <2>1. chunks' = <<>> /\ current' = current /\ postbox' = postbox
    BY <1>2 DEF ClearChunks, engineVars
  <2>2. Count(chunks', E) = 0
    BY <2>1, CountEmpty
  <2> QED
    BY <1>0, <1>1, <2>1, <2>2 DEF PlayShape, Playing
<1>3. CASE TurnPrimed
  BY <1>0, <1>1, <1>3 DEF TurnPrimed, queueVars, PlayShape, Playing
<1>4. CASE ChunkConsumed
  <2>1. /\ current # <<>> /\ current' = <<>> /\ chunks' = chunks
        /\ postbox' = Append(postbox, [turn |-> current[1].turn, seq |-> current[1].seq])
    BY <1>4 DEF ChunkConsumed, queueVars
  <2>2. PICK k \in ChunksOf(Turned(n), {TRUE}) : current = <<k>> /\ current[1] = k
    BY <1>0, <2>1 DEF CurrentShape
  <2> DEFINE p == [turn |-> k.turn, seq |-> k.seq]
  <2>3. p \in Posts(Turned(n)) /\ (p \in P => k \in E)
    BY DEF ChunksOf, Posts
  <2>4. Count(current, E) = One(k, E) /\ Count(current', E) = 0
    BY <2>1, <2>2, CountOne, CountEmpty
  <2>5. postbox' = Append(postbox, p)
    BY <2>1, <2>2
  <2> HIDE DEF p
  <2>6. Count(postbox', P) = Count(postbox, P) + One(p, P) /\ postbox' \in Seq(Posts(Turned(n)))
    BY <1>0, <2>3, <2>5, CountAppend
  <2>7. One(p, P) <= One(k, E) /\ One(p, P) \in Nat /\ One(k, E) \in Nat
    BY <2>3 DEF One
  <2>8. Playing(chunks', current', postbox', a) <= Playing(chunks, current, postbox, a)
    BY <1>1, <2>1, <2>4, <2>6, <2>7 DEF Playing
  <2> QED
    BY <1>0, <2>1, <2>6, <2>8 DEF PlayShape, CurrentShape
<1>5. CASE NextChunk
  <2>1. current = <<>> /\ postbox' = postbox
    BY <1>5 DEF NextChunk
  <2>2. Count(current, E) = 0
    BY <2>1, CountEmpty
  <2>3. CASE chunks' = <<>> /\ current' = current
    <3>1. Count(chunks', E) = 0
      BY <2>3, CountEmpty
    <3> QED
      BY <1>0, <1>1, <2>1, <2>3, <3>1 DEF PlayShape, Playing
  <2>4. ASSUME NEW i \in Live, current' = IF chunks[i].eos THEN <<chunks[i]>> ELSE <<>>,
               chunks' = SubSeq(chunks, i + 1, Len(chunks))
        PROVE  /\ PlayShape(n)'
               /\ Playing(chunks', current', postbox', a) <= Playing(chunks, current, postbox, a)
    <3>1. i \in 1 .. Len(chunks)
      BY DEF Live
    <3>2. chunks[i] \in C
      BY <1>0, <3>1
    <3>3. chunks' \in Seq(C) /\ Count(chunks', E) + One(chunks[i], E) <= Count(chunks, E)
      BY <1>0, <2>4, <3>1, CountSuffix
    <3>4. CurrentShape(current', n) /\ Count(current', E) <= One(chunks[i], E)
          /\ Count(current', E) \in Nat
      <4>1. CASE chunks[i].eos
        <5>1. chunks[i] \in ChunksOf(Turned(n), {TRUE})
          BY <3>2, <4>1 DEF ChunksOf
        <5>2. current' = <<chunks[i]>>
          BY <2>4, <4>1
        <5> QED
          BY <5>1, <5>2, CountOne, OneType DEF CurrentShape
      <4>2. CASE ~chunks[i].eos
        <5>1. current' = <<>>
          BY <2>4, <4>2
        <5> QED
          BY <5>1, CountEmpty, OneType DEF CurrentShape
      <4> QED
        BY <4>1, <4>2
    <3>5. Count(chunks', E) \in Nat /\ One(chunks[i], E) \in Nat
      BY <3>3, CountType, OneType
    <3>6. Playing(chunks', current', postbox', a) <= Playing(chunks, current, postbox, a)
      BY <1>1, <2>1, <2>2, <3>3, <3>4, <3>5 DEF Playing
    <3> QED
      BY <1>0, <2>1, <3>3, <3>4, <3>6 DEF PlayShape
  <2> QED
    BY <1>5, <2>3, <2>4 DEF NextChunk
<1> QED
  BY <1>2, <1>3, <1>4, <1>5 DEF Render

(* token_for *)
LEMMA TokensTyped ==
    ASSUME TokenShape(tokens, lastToken), NEW t, NewToken(t) \/ TokenFor(t)
    PROVE  TokenShape(tokens', lastToken') /\ tokens'[t] \in Nat
<1>1. CASE NewToken(t)
  BY <1>1 DEF NewToken, TokenShape
<1>2. CASE t \in DOMAIN tokens /\ UNCHANGED <<lastToken, tokens>>
  BY <1>2 DEF TokenShape
<1> QED
  BY <1>1, <1>2 DEF TokenFor

(* TtsBridge::on_event: an LlmSentence becomes a job, or is dropped. *)
LEMMA BridgeHears ==
    ASSUME NEW n \in Nat, NEW a \in Nat, BridgeShape(n), QueueShape(queue, n), BridgeHandles
    PROVE  /\ BridgeShape(n)' /\ QueueShape(queue', n) /\ UNCHANGED playbackVars
           /\ queue'["fsm"] = queue["fsm"]
           /\ Spoken(jobs', synth', a) + Count(queue'["bridge"], Sentences({a}))
                <= Spoken(jobs, synth, a) + Count(queue["bridge"], Sentences({a}))
<1> DEFINE S == JobsOf({a})
           L == Sentences({a})
           q == queue["bridge"]
           e == Head(q)
<1>0. /\ jobs \in Seq(JobsOf(Turned(n))) /\ SynthShape(synth, n)
      /\ TokenShape(tokens, lastToken)
  BY DEF BridgeShape
<1>1. "bridge" \in Subscribers /\ "fsm" \in Subscribers
  BY DEF Subscribers
<1>2. q # <<>> /\ queue' = [queue EXCEPT !["bridge"] = Tail(q)]
  BY DEF BridgeHandles, Receives
<1>3. q \in Seq(Events(Turned(n))) /\ e \in Events(Turned(n)) /\ QueueShape(queue', n)
  BY <1>1, <1>2, Taken
<1>4. queue'["bridge"] = Tail(q) /\ queue'["fsm"] = queue["fsm"]
  BY <1>1, <1>2 DEF QueueShape
<1>5. Count(q, L) = One(e, L) + Count(Tail(q), L)
  BY <1>2, <1>3, CountTail
<1>6. Tail(q) \in Seq(Events(Turned(n)))
  BY <1>2, <1>3
<1>7. One(e, L) \in Nat /\ Count(Tail(q), L) \in Nat /\ Count(jobs, S) \in Nat
  BY <1>0, <1>6, OneType, CountType
<1>8. Count(synth.job, S) \in Nat
  BY <1>0, CountEmpty, CountOne, OneType DEF SynthShape, Resting
<1>9. ASSUME synth' = synth, jobs' \in Seq(JobsOf(Turned(n))), TokenShape(tokens', lastToken'),
             UNCHANGED playbackVars, Count(jobs', S) <= Count(jobs, S) + One(e, L)
      PROVE  /\ BridgeShape(n)' /\ QueueShape(queue', n) /\ UNCHANGED playbackVars
             /\ queue'["fsm"] = queue["fsm"]
             /\ Spoken(jobs', synth', a) + Count(queue'["bridge"], L)
                  <= Spoken(jobs, synth, a) + Count(queue["bridge"], L)
  <2>1. BridgeShape(n)'
    BY <1>0, <1>9 DEF BridgeShape
  <2>2. Count(jobs', S) \in Nat
    BY <1>9, CountType
  <2>3. Spoken(jobs', synth', a) + Count(queue'["bridge"], L)
          <= Spoken(jobs, synth, a) + Count(queue["bridge"], L)
    <3>1. Count(jobs', S) + Count(synth.job, S) + Count(Tail(q), L)
            <= Count(jobs, S) + Count(synth.job, S) + Count(q, L)
      <4> HIDE DEF S, L, q, e
      <4> QED
        BY <1>5, <1>7, <1>8, <1>9, <2>2
    <3> QED
      BY <3>1, <1>4, <1>9 DEF Spoken
  <2> QED
    BY <1>3, <1>4, <1>9, <2>1, <2>3
<1>10. CASE OnLlmStarted(e.turn)
  <2>1. synth' = synth /\ jobs' = jobs /\ UNCHANGED playbackVars /\ NewToken(e.turn)
    BY <1>10 DEF OnLlmStarted
  <2>2. TokenShape(tokens', lastToken')
    BY <1>0, <2>1, TokensTyped
  <2>3. Count(jobs', S) <= Count(jobs, S) + One(e, L)
    BY <1>7, <2>1
  <2> QED
    BY <1>0, <1>9, <2>1, <2>2, <2>3
<1>11. CASE e.type = "LlmSentence" /\ OnLlmSentence(e.turn, e.seq)
  <2>1. synth' = synth /\ UNCHANGED playbackVars /\ TokenFor(e.turn)
    BY <1>11 DEF OnLlmSentence
  <2>2. TokenShape(tokens', lastToken') /\ tokens'[e.turn] \in Nat
    BY <1>0, <2>1, TokensTyped
  <2> DEFINE j == [turn |-> e.turn, seq |-> e.seq, token |-> tokens'[e.turn]]
  <2>3. jobs' = jobs \/ jobs' = Append(jobs, j)
    BY <1>11 DEF OnLlmSentence
  <2>4. j \in JobsOf(Turned(n)) /\ (j \in S => e \in L)
    BY <1>3, <1>11, <2>2 DEF JobsOf, Events, Sentences
  <2>5. jobs' \in Seq(JobsOf(Turned(n))) /\ Count(jobs', S) <= Count(jobs, S) + One(e, L)
    <3> HIDE DEF j, S, L, e, q
    <3>1. One(j, S) <= One(e, L) /\ One(j, S) \in Nat
      BY <2>4 DEF One
    <3>2. /\ Append(jobs, j) \in Seq(JobsOf(Turned(n)))
          /\ Count(Append(jobs, j), S) = Count(jobs, S) + One(j, S)
      BY <1>0, <2>4, AppendElems, CountAppend
    <3>3. CASE jobs' = jobs
      BY <1>0, <1>7, <3>3
    <3>4. CASE jobs' = Append(jobs, j)
      <4>1. Count(Append(jobs, j), S) <= Count(jobs, S) + One(e, L)
        BY <1>7, <3>1, <3>2
      <4> QED
        BY <3>2, <3>4, <4>1
    <3> QED
      BY <2>3, <3>3, <3>4
  <2> QED
    BY <1>9, <2>1, <2>2, <2>5
<1>12. CASE OnLlmFinished(e.turn)
  <2>1. /\ synth' = synth /\ jobs' = jobs /\ UNCHANGED playbackVars /\ lastToken' = lastToken
        /\ tokens' = [t \in DOMAIN tokens \ {e.turn} |-> tokens[t]]
    BY <1>12 DEF OnLlmFinished
  <2>2. TokenShape(tokens', lastToken')
    BY <1>0, <2>1 DEF TokenShape
  <2>3. Count(jobs', S) <= Count(jobs, S) + One(e, L)
    BY <1>7, <2>1
  <2> QED
    BY <1>0, <1>9, <2>1, <2>2, <2>3
<1>13. CASE OnUserInterrupted(e.turn)
  <2>1. /\ synth' = synth /\ UNCHANGED playbackVars /\ TokenFor(e.turn)
        /\ jobs' = JobsWithout(e.turn)
    BY <1>13 DEF OnUserInterrupted
  <2>2. TokenShape(tokens', lastToken')
    BY <1>0, <2>1, TokensTyped
  <2>3. jobs' \in Seq(JobsOf(Turned(n))) /\ Count(jobs', S) <= Count(jobs, S)
    BY <1>0, <2>1, JobsWithoutKeeps
  <2>4. Count(jobs', S) \in Nat
    BY <2>3, CountType
  <2>5. Count(jobs', S) <= Count(jobs, S) + One(e, L)
    BY <1>7, <2>3, <2>4
  <2> QED
    BY <1>9, <2>1, <2>2, <2>3, <2>5
<1> QED
  BY <1>10, <1>11, <1>12, <1>13 DEF BridgeHandles, Next1

-----------------------------------------------------------------------------
\* A sentence that the FSM was told of and the bridge is told of next.
Passed(p, a) ==
    IF p # <<>> /\ Head(p) \in [to : {"bridge"}, event : Sentences({a})] THEN 1 ELSE 0
\* A PlaybackFinished the FSM is told of next.
Announced(p, a) == Count(p, [to : {"fsm"}, event : Playbacks({a})])

(* The sentences of turn a the FSM was told of and not yet told that they were played: at *)
(* most so many PlaybackFinished of the turn are still to come.                           *)
Load(a) ==
    Spoken(jobs, synth, a) + Playing(chunks, current, postbox, a)
        + Count(queue["bridge"], Sentences({a})) + Passed(out["llm"], a)
        + Announced(out["playback"], a)

(* The FSM's queue q of the turn a: what it brings and what is on its way is covered by   *)
(* sentences received before, and so is every part of it.                                *)
Balanced(q, p, r, l, a) ==
    p + Count(q, Playbacks({a})) + l <= r + Count(q, Sentences(Nat))
Ahead(q, p, r, a) ==
    \A k \in 0 .. Len(q) : p + Upto(q, k, Playbacks({a})) <= r + Upto(q, k, Sentences(Nat))

PlaysBehind ==
    /\ Balanced(queue["fsm"], played, received, Load(active), active)
    /\ Ahead(queue["fsm"], played, received, active)

(* An event is queued for the FSM. *)
LEMMA FsmTold ==
    ASSUME NEW T, NEW q \in Seq(T), NEW e \in T, NEW p \in Nat, NEW r \in Nat, NEW l \in Nat,
           NEW m \in Nat, NEW a, Balanced(q, p, r, l, a), Ahead(q, p, r, a),
           m + One(e, Playbacks({a})) <= l + One(e, Sentences(Nat))
    PROVE  Balanced(Append(q, e), p, r, m, a) /\ Ahead(Append(q, e), p, r, a)
<1> DEFINE P == Playbacks({a})
           S == Sentences(Nat)
           w == Append(q, e)
<1>1. /\ Count(w, P) = Count(q, P) + One(e, P) /\ Count(w, S) = Count(q, S) + One(e, S)
      /\ \A k \in 0 .. Len(q) : Upto(w, k, P) = Upto(q, k, P) /\ Upto(w, k, S) = Upto(q, k, S)
  BY CountAppend
<1>2. /\ Count(q, P) \in Nat /\ Count(q, S) \in Nat /\ One(e, P) \in Nat /\ One(e, S) \in Nat
      /\ Len(q) \in Nat /\ Len(w) = Len(q) + 1
  BY CountType, OneType
<1> HIDE DEF P, S, w
<1>3. p + Count(w, P) + m <= r + Count(w, S)
  <2>1. p + Count(q, P) + l <= r + Count(q, S) /\ m + One(e, P) <= l + One(e, S)
    BY DEF Balanced, P, S
  <2>2. ASSUME NEW x \in Nat, NEW y \in Nat, NEW u \in Nat, NEW v \in Nat,
               p + x + l <= r + y, m + u <= l + v
        PROVE  p + (x + u) + m <= r + (y + v)
    BY <2>2
  <2>3. p + (Count(q, P) + One(e, P)) + m <= r + (Count(q, S) + One(e, S))
    BY <1>2, <2>1, <2>2
  <2> QED
    BY <1>1, <2>3
<1>4. ASSUME NEW k \in 0 .. Len(w) PROVE p + Upto(w, k, P) <= r + Upto(w, k, S)
  <2>1. CASE k \in 0 .. Len(q)
    <3>1. p + Upto(q, k, P) <= r + Upto(q, k, S)
      BY <2>1 DEF Ahead, P, S
    <3> QED
      BY <1>1, <2>1, <3>1
  <2>2. CASE k = Len(w)
    <3>1. p + Count(w, P) <= r + Count(w, S)
      BY <1>1, <1>2, <1>3, SMTT(60)
    <3> QED
      BY <2>2, <3>1 DEF Count
  <2> QED
    BY <1>2, <2>1, <2>2
<1> QED
  BY <1>3, <1>4 DEF Balanced, Ahead, P, S, w

(* The FSM takes an event and counts it. *)
LEMMA FsmCounts ==
    ASSUME NEW T, NEW q \in Seq(T), q # <<>>, NEW p \in Nat, NEW r \in Nat, NEW l \in Nat,
           NEW a, Balanced(q, p, r, l, a), Ahead(q, p, r, a),
           NEW p2 \in Nat, NEW r2 \in Nat,
           p2 = p + One(Head(q), Playbacks({a})), r2 = r + One(Head(q), Sentences(Nat))
    PROVE  Balanced(Tail(q), p2, r2, l, a) /\ Ahead(Tail(q), p2, r2, a)
<1> DEFINE P == Playbacks({a})
           S == Sentences(Nat)
           w == Tail(q)
           e == Head(q)
<1>1. /\ Count(q, P) = One(e, P) + Count(w, P) /\ Count(q, S) = One(e, S) + Count(w, S)
      /\ \A k \in 0 .. Len(w) : /\ k + 1 \in 0 .. Len(q)
                                /\ Upto(q, k + 1, P) = One(e, P) + Upto(w, k, P)
                                /\ Upto(q, k + 1, S) = One(e, S) + Upto(w, k, S)
  BY CountTail
<1>2. w \in Seq(T) /\ Len(w) \in Nat
  OBVIOUS
<1>3. Count(w, P) \in Nat /\ Count(w, S) \in Nat /\ One(e, P) \in Nat /\ One(e, S) \in Nat
  BY <1>2, CountType, OneType
<1>4. /\ p2 = p + One(e, P) /\ r2 = r + One(e, S)
      /\ p + Count(q, P) + l <= r + Count(q, S)
  BY DEF Balanced
<1>7. \A k \in 0 .. Len(q) : p + Upto(q, k, P) <= r + Upto(q, k, S)
  BY DEF Ahead
<1> HIDE DEF P, S, w, e
<1>5. p2 + Count(w, P) + l <= r2 + Count(w, S)
  <2>1. Count(q, P) = One(e, P) + Count(w, P) /\ Count(q, S) = One(e, S) + Count(w, S)
    BY <1>1
  <2> QED
    BY <1>3, <1>4, <2>1
<1>6. ASSUME NEW k \in 0 .. Len(w) PROVE p2 + Upto(w, k, P) <= r2 + Upto(w, k, S)
  <2>1. p + Upto(q, k + 1, P) <= r + Upto(q, k + 1, S)
    BY <1>1, <1>7
  <2>2. Upto(w, k, P) \in Nat /\ Upto(w, k, S) \in Nat
    <3>1. k \in Nat
      BY <1>2
    <3> QED
      BY <3>1, UptoType
  <2>3. Upto(q, k + 1, P) = One(e, P) + Upto(w, k, P) /\ Upto(q, k + 1, S) = One(e, S) + Upto(w, k, S)
    BY <1>1
  <2> QED
    BY <1>3, <1>4, <2>1, <2>2, <2>3, SMTT(60)
<1> QED
  BY <1>5, <1>6 DEF Balanced, Ahead, P, S, w

-----------------------------------------------------------------------------
(* The terms of the load are numbers. *)
LEMMA LoadTypes ==
    ASSUME NEW n \in Nat, NEW a, BusShape(n), BridgeShape(n), PlayShape(n)
    PROVE  /\ Spoken(jobs, synth, a) \in Nat /\ Playing(chunks, current, postbox, a) \in Nat
           /\ Count(queue["bridge"], Sentences({a})) \in Nat
           /\ Passed(out["llm"], a) \in Nat /\ Announced(out["playback"], a) \in Nat
           /\ Load(a) \in Nat
<1>1. /\ Count(jobs, JobsOf({a})) \in Nat /\ Count(synth.job, JobsOf({a})) \in Nat
      /\ Count(chunks, ChunksOf({a}, {TRUE})) \in Nat
      /\ Count(current, ChunksOf({a}, {TRUE})) \in Nat
      /\ Count(postbox, Posts({a})) \in Nat
  BY OnTheWayTypes DEF BridgeShape, PlayShape
<1>2. Spoken(jobs, synth, a) \in Nat /\ Playing(chunks, current, postbox, a) \in Nat
  BY <1>1 DEF Spoken, Playing
<1>3. Count(queue["bridge"], Sentences({a})) \in Nat
  <2>1. queue["bridge"] \in Seq(Events(Turned(n)))
    BY DEF BusShape, QueueShape, Subscribers
  <2> QED
    BY <2>1, CountType
<1>4. Passed(out["llm"], a) \in Nat
  BY DEF Passed
<1>5. Announced(out["playback"], a) \in Nat
  <2>1. out["playback"] = <<>> \/ \E d : out["playback"] = <<d>>
    BY DEF BusShape, OutShape, PlaybackOut
  <2>2. ASSUME NEW S PROVE Count(out["playback"], S) \in Nat
    <3>1. CASE out["playback"] = <<>>
      BY <3>1, CountEmpty
    <3>2. ASSUME NEW d, out["playback"] = <<d>> PROVE Count(out["playback"], S) \in Nat
      BY <3>2, CountOne, OneType
    <3> QED
      BY <2>1, <3>1, <3>2
  <2> QED
    BY <2>2 DEF Announced
<1> QED
  BY <1>2, <1>3, <1>4, <1>5 DEF Load

(* Nothing of a turn that is yet to come is on its way. *)
LEMMA NothingOfTheNext ==
    ASSUME NEW n \in Nat, BusShape(n), BridgeShape(n), PlayShape(n)
    PROVE  /\ Load(n) = 0
           /\ \A q \in Seq(Events(Turned(n))) :
                Balanced(q, 0, 0, 0, n) /\ Ahead(q, 0, 0, n)
<1>0. n \notin Turned(n)
  BY DEF Turned
<1> DEFINE N == Turned(n)
<1>1. /\ JobsOf(N) \cap JobsOf({n}) = {} /\ Posts(N) \cap Posts({n}) = {}
      /\ Events(N) \cap Sentences({n}) = {} /\ Events(N) \cap Playbacks({n}) = {}
  BY <1>0 DEF JobsOf, Posts, Events, Sentences, Playbacks
<1>2. /\ ChunksOf(N, BOOLEAN) \cap ChunksOf({n}, {TRUE}) = {}
      /\ ChunksOf(N, {TRUE}) \cap ChunksOf({n}, {TRUE}) = {}
      /\ Playbacks(N) \cap Playbacks({n}) = {}
  BY <1>0 DEF ChunksOf, Playbacks
<1>3. Spoken(jobs, synth, n) = 0
  <2>1. Count(jobs, JobsOf({n})) = 0
    BY <1>1, CountNone DEF BridgeShape
  <2>2. Count(synth.job, JobsOf({n})) = 0
    <3>1. CASE synth = Resting
      BY <3>1, CountEmpty DEF Resting
    <3>2. CASE synth # Resting
      <4>1. PICK j \in JobsOf(N) : synth.job = <<j>>
        BY <3>2 DEF BridgeShape, SynthShape
      <4>2. One(j, JobsOf({n})) = 0
        BY <1>1 DEF One
      <4> QED
        BY <4>1, <4>2, CountOne
    <3> QED
      BY <3>1, <3>2
  <2> QED
    BY <2>1, <2>2 DEF Spoken
<1>4. Playing(chunks, current, postbox, n) = 0
  <2>1. Count(chunks, ChunksOf({n}, {TRUE})) = 0 /\ Count(postbox, Posts({n})) = 0
    BY <1>1, <1>2, CountNone DEF PlayShape
  <2>2. Count(current, ChunksOf({n}, {TRUE})) = 0
    <3>1. CASE current = <<>>
      BY <3>1, CountEmpty
    <3>2. CASE current # <<>>
      <4>1. PICK c \in ChunksOf(N, {TRUE}) : current = <<c>>
        BY <3>2 DEF PlayShape, CurrentShape
      <4>2. One(c, ChunksOf({n}, {TRUE})) = 0
        BY <1>2 DEF One
      <4> QED
        BY <4>1, <4>2, CountOne
    <3> QED
      BY <3>1, <3>2
  <2> QED
    BY <2>1, <2>2 DEF Playing
<1>5. Count(queue["bridge"], Sentences({n})) = 0
  <2>1. queue["bridge"] \in Seq(Events(N))
    BY DEF BusShape, QueueShape, Subscribers
  <2> QED
    BY <1>1, <2>1, CountNone
<1>6. Passed(out["llm"], n) = 0
  <2> DEFINE p == out["llm"]
  <2>1. CASE p = <<>>
    BY <2>1 DEF Passed
  <2>2. CASE p # <<>>
    <3>1. PICK e \in Events(N) : p = <<Push("bridge", e)>> \/ p = <<Push("fsm", e), Push("bridge", e)>>
      BY <2>2 DEF BusShape, OutShape, LlmOut
    <3>2. Head(p).event = e
      BY <3>1, TailOfTwo DEF Push
    <3>3. e \notin Sentences({n})
      BY <1>1
    <3>4. Head(p) \notin [to : {"bridge"}, event : Sentences({n})]
      BY <3>2, <3>3
    <3> QED
      BY <3>4 DEF Passed
  <2> QED
    BY <2>1, <2>2
<1>7. Announced(out["playback"], n) = 0
  <2> DEFINE p == out["playback"]
             D == [to : {"fsm"}, event : Playbacks({n})]
  <2>1. CASE p = <<>>
    BY <2>1, CountEmpty DEF Announced
  <2>2. CASE p # <<>>
    <3>1. PICK e \in Playbacks(N) : p = <<Push("fsm", e)>>
      BY <2>2 DEF BusShape, OutShape, PlaybackOut
    <3>2. Push("fsm", e) \notin D
      BY <1>2 DEF Push
    <3>3. One(Push("fsm", e), D) = 0
      BY <3>2 DEF One
    <3> QED
      BY <3>1, <3>3, CountOne DEF Announced
  <2> QED
    BY <2>1, <2>2
<1>8. ASSUME NEW q \in Seq(Events(N)) PROVE Balanced(q, 0, 0, 0, n) /\ Ahead(q, 0, 0, n)
  <2>1. Count(q, Playbacks({n})) = 0 /\ \A k \in 0 .. Len(q) : Upto(q, k, Playbacks({n})) = 0
    BY <1>1, CountNone
  <2>2. Count(q, Sentences(Nat)) \in Nat
    BY CountType
  <2>3. \A k \in 0 .. Len(q) : Upto(q, k, Sentences(Nat)) \in Nat
    <3> TAKE k \in 0 .. Len(q)
    <3>1. k \in Nat
      OBVIOUS
    <3> QED
      BY <3>1, UptoType
  <2>4. Balanced(q, 0, 0, 0, n)
    BY <2>1, <2>2 DEF Balanced
  <2>5. ASSUME NEW k \in 0 .. Len(q)
        PROVE  0 + Upto(q, k, Playbacks({n})) <= 0 + Upto(q, k, Sentences(Nat))
    <3>1. Upto(q, k, Playbacks({n})) = 0 /\ Upto(q, k, Sentences(Nat)) \in Nat
      BY <2>1, <2>3
    <3> QED
      BY <3>1
  <2>6. Ahead(q, 0, 0, n)
    BY <2>5 DEF Ahead
  <2> QED
    BY <2>4, <2>6
<1> QED
  BY <1>3, <1>4, <1>5, <1>6, <1>7, <1>8 DEF Load

(* Steps that do not concern the FSM, and add nothing to the load. *)
LEMMA FsmAside ==
    ASSUME PlaysBehind, NEW a, a = active, UNCHANGED <<active, played, received>>,
           queue'["fsm"] = queue["fsm"], played \in Nat, received \in Nat,
           NEW n \in Nat, QueueShape(queue, n), Load(a) \in Nat, Load(a)' \in Nat,
           Load(a)' <= Load(a)
    PROVE  PlaysBehind'
<1> DEFINE q == queue["fsm"]
           x == Count(q, Playbacks({a}))
           y == Count(q, Sentences(Nat))
<1>1. q \in Seq(Events(Turned(n)))
  BY DEF QueueShape, Subscribers
<1>2. x \in Nat /\ y \in Nat
  BY <1>1, CountType
<1>3. played + x + Load(a) <= received + y
  BY DEF PlaysBehind, Balanced
<1>4. played + x + Load(a)' <= received + y
  <2> HIDE DEF x, y
  <2> QED
    BY <1>2, <1>3
<1>5. Balanced(queue["fsm"], played, received, Load(a)', a)
  BY <1>4 DEF Balanced
<1>6. Ahead(queue["fsm"], played, received, a)
  BY DEF PlaysBehind
<1>7. Load(active)' = Load(a)'
  BY DEF Load
<1> QED
  BY <1>5, <1>6, <1>7 DEF PlaysBehind

-----------------------------------------------------------------------------
(* Steps of the microphone, the Manager and the barge-in detector: neither the FSM's nor  *)
(* the bridge's events, and nothing that is on its way to be spoken.                      *)
Quiet(n) ==
    /\ UNCHANGED <<active, played, received, bridgeVars, chunks, current, postbox>>
    /\ out' = out \/ \E t \in Publishers \ {"llm", "playback"}, e \in Others(Turned(n)) : Publish(t, e)
    /\ queue' = queue \/ Receives("manager") \/ Receives("bargein")

(* A quiet step does not touch what the FSM and the bridge are sent. *)
LEMMA QuietBus ==
    ASSUME NEW n \in Nat, BusShape(n), Quiet(n)
    PROVE  /\ BusShape(n)' /\ queue'["fsm"] = queue["fsm"] /\ queue'["bridge"] = queue["bridge"]
           /\ out'["llm"] = out["llm"] /\ out'["playback"] = out["playback"]
<1>1. QueueShape(queue, n) /\ OutShape(out, n)
  BY DEF BusShape
<1>2. QueueShape(queue', n) /\ queue'["fsm"] = queue["fsm"] /\ queue'["bridge"] = queue["bridge"]
  <2>1. CASE queue' = queue
    BY <1>1, <2>1
  <2>2. ASSUME NEW s \in {"manager", "bargein"}, Receives(s)
        PROVE  QueueShape(queue', n) /\ queue'["fsm"] = queue["fsm"] /\ queue'["bridge"] = queue["bridge"]
    <3>1. s \in Subscribers /\ "fsm" \in Subscribers /\ "bridge" \in Subscribers
          /\ s # "fsm" /\ s # "bridge"
      BY DEF Subscribers
    <3>2. queue[s] # <<>> /\ queue' = [queue EXCEPT ![s] = Tail(queue[s])]
      BY <2>2 DEF Receives
    <3>3. QueueShape(queue', n)
      BY <1>1, <3>1, <3>2, Taken
    <3> QED
      BY <1>1, <3>1, <3>2, <3>3 DEF QueueShape
  <2> QED
    BY <2>1, <2>2 DEF Quiet
<1>3. OutShape(out', n) /\ out'["llm"] = out["llm"] /\ out'["playback"] = out["playback"]
  <2>1. CASE out' = out
    BY <1>1, <2>1
  <2>2. ASSUME NEW t \in Publishers \ {"llm", "playback"}, NEW e \in Others(Turned(n)), Publish(t, e)
        PROVE  OutShape(out', n) /\ out'["llm"] = out["llm"] /\ out'["playback"] = out["playback"]
    <3>1. out' = [out EXCEPT ![t] = Deliveries(e)]
      BY <2>2 DEF Publish
    <3>2. /\ OutShape([out EXCEPT ![t] = Deliveries(e)], n)
          /\ [out EXCEPT ![t] = Deliveries(e)]["llm"] = out["llm"]
          /\ [out EXCEPT ![t] = Deliveries(e)]["playback"] = out["playback"]
      BY <1>1, QuietPublish
    <3> HIDE DEF OutShape
    <3> QED
      BY <3>1, <3>2
  <2> QED
    BY <2>1, <2>2 DEF Quiet
<1> QED
  BY <1>2, <1>3 DEF BusShape

(* A quiet step leaves what is on its way as it is. *)
LEMMA QuietLoad ==
    ASSUME NEW n \in Nat, NEW a, BusShape(n), Quiet(n)
    PROVE  Load(a)' = Load(a)
<1>1. /\ queue'["bridge"] = queue["bridge"]
      /\ out'["llm"] = out["llm"] /\ out'["playback"] = out["playback"]
  BY QuietBus
<1>2. /\ jobs' = jobs /\ synth' = synth /\ chunks' = chunks /\ current' = current
      /\ postbox' = postbox
  BY DEF Quiet, bridgeVars, workerVars
<1> QED
  BY <1>1, <1>2 DEF Load, Spoken, Playing, Passed, Announced

(* A quiet step preserves the invariant. *)
LEMMA StepAside ==
    ASSUME NEW n \in Nat, BusShape(n), BridgeShape(n), PlayShape(n), PlaysBehind,
           played \in Nat, received \in Nat, Quiet(n)
    PROVE  BusShape(n)' /\ BridgeShape(n)' /\ PlayShape(n)' /\ PlaysBehind'
<1>1. BusShape(n)' /\ queue'["fsm"] = queue["fsm"]
  BY QuietBus
<1>2. BridgeShape(n)'
  BY DEF Quiet, bridgeVars, workerVars, BridgeShape
<1>3. PlayShape(n)'
  BY DEF Quiet, PlayShape
<1>4. PlaysBehind'
  <2>1. PICK a : a = active
    OBVIOUS
  <2>2. Load(a) \in Nat /\ Load(a)' = Load(a)
    BY LoadTypes, QuietLoad
  <2>3. Load(a)' \in Nat /\ Load(a)' <= Load(a)
    BY <2>2
  <2>4. UNCHANGED <<active, played, received>> /\ QueueShape(queue, n)
    BY DEF Quiet, BusShape
  <2> QED
    BY <1>1, <2>1, <2>2, <2>3, <2>4, FsmAside
<1> QED
  BY <1>1, <1>2, <1>3, <1>4

(* The steps that are quiet. *)
LEMMA QuietActs ==
    ASSUME NEW n \in Nat, n = nextTurn, BusShape(n), FsmTypeOK,
           \/ UserBegins \/ UserEnds \/ Transcribed \/ LineTyped \/ SummaryFinishes
           \/ BargeInFires \/ BargeInSuppressed \/ FsmGoesOn
           \/ ManagerHandles \/ ManagerTakes \/ ManagerAdopts \/ ManagerReturns
    PROVE  Quiet(n)
<1>1. NoTurn \in Turned(n) /\ active \in Turned(n)
  BY DEF FsmTypeOK, Turned, NoTurn
<1>2. ASSUME NEW type \in {"SpeechStarted", "SpeechEnded", "FinalTranscript", "LlmFinished",
                          "UserInterrupted"}, NEW turn \in Turned(n)
      PROVE  Event(type, turn, 0) \in Others(Turned(n))
  BY DEF Event, Others, Events, EventTypes
<1>3. {"audio", "stt", "stdin", "summarizer", "bargein", "manager"}
        \subseteq Publishers \ {"llm", "playback"}
  BY DEF Publishers
<1> USE DEF fsmVars, perTurn, managerVars, playbackVars, queueVars, engineVars
<1>4. CASE UserBegins
  <2>1. Publish("audio", Event("SpeechStarted", NoTurn, 0))
    BY <1>4 DEF UserBegins
  <2> QED
    BY <1>1, <1>2, <1>3, <1>4, <2>1 DEF UserBegins, Quiet
<1>5. CASE UserEnds
  <2>1. Publish("audio", Event("SpeechEnded", NoTurn, 0))
    BY <1>5 DEF UserEnds
  <2> QED
    BY <1>1, <1>2, <1>3, <1>5, <2>1 DEF UserEnds, Quiet
<1>6. CASE Transcribed
  <2>1. Publish("stt", Event("FinalTranscript", NoTurn, 0)) \/ out' = out
    BY <1>6 DEF Transcribed
  <2> QED
    BY <1>1, <1>2, <1>3, <1>6, <2>1 DEF Transcribed, Quiet
<1>7. CASE LineTyped
  <2>1. Publish("stdin", Event("FinalTranscript", NoTurn, 0))
    BY <1>7 DEF LineTyped
  <2> QED
    BY <1>1, <1>2, <1>3, <1>7, <2>1 DEF LineTyped, Quiet
<1>8. CASE SummaryFinishes
  <2>1. Publish("summarizer", Event("LlmFinished", NoTurn, 0))
    BY <1>8 DEF SummaryFinishes
  <2> QED
    BY <1>1, <1>2, <1>3, <1>8, <2>1 DEF SummaryFinishes, Quiet
<1>9. CASE BargeInFires
  <2>1. Publish("bargein", Event("UserInterrupted", active, 0))
    BY <1>9 DEF BargeInFires
  <2> QED
    BY <1>1, <1>2, <1>3, <1>9, <2>1 DEF BargeInFires, Quiet
<1>10. CASE BargeInSuppressed
  BY <1>10 DEF BargeInSuppressed, Quiet
<1>11. CASE FsmGoesOn
  <2>1. UNCHANGED <<active, played, received>>
    BY <1>11 DEF FsmGoesOn, Start, InterruptOutcome, HandlerContinues, SpeechStartedReturns, Settle
  <2> QED
    BY <1>11, <2>1 DEF FsmGoesOn, busVars, Quiet
<1>12. CASE ManagerHandles
  <2>1. Receives("manager") /\ queue["manager"] # <<>>
    BY <1>12 DEF ManagerHandles, Receives
  <2>2. Head(queue["manager"]) \in Events(Turned(n))
    BY <2>1, Taken DEF BusShape, Subscribers
  <2>3. Head(queue["manager"]).turn \in Turned(n)
    BY <2>2 DEF Events
  <2>4. out' = out \/ Publish("manager", Event("UserInterrupted", Head(queue["manager"]).turn, 0))
    BY <1>12 DEF ManagerHandles, Next1
  <2>5. UNCHANGED <<active, played, received, bridgeVars, chunks, current, postbox>>
    BY <1>12 DEF ManagerHandles
  <2> HIDE DEF fsmVars, perTurn, managerVars, playbackVars, queueVars, engineVars
  <2> QED
    BY <1>2, <1>3, <2>1, <2>3, <2>4, <2>5 DEF Quiet
<1>13. CASE ManagerTakes
  BY <1>13 DEF ManagerTakes, busVars, Quiet
<1>14. CASE ManagerAdopts
  BY <1>14 DEF ManagerAdopts, MintElsewhere, busVars, Quiet
<1>15. CASE ManagerReturns
  BY <1>15 DEF ManagerReturns, busVars, Quiet
<1> QED
  BY <1>4, <1>5, <1>6, <1>7, <1>8, <1>9, <1>10, <1>11, <1>12, <1>13, <1>14, <1>15

-----------------------------------------------------------------------------
(* What the pushes of a publish count. *)
LEMMA PassedOne ==
    ASSUME NEW e, NEW a
    PROVE  /\ Passed(<<>>, a) = 0 /\ Passed(<<Push("bridge", e)>>, a) = One(e, Sentences({a}))
           /\ Passed(<<Push("fsm", e), Push("bridge", e)>>, a) = 0
<1>1. Push("bridge", e) \in [to : {"bridge"}, event : Sentences({a})] <=> e \in Sentences({a})
  BY DEF Push
<1>2. Push("fsm", e) \notin [to : {"bridge"}, event : Sentences({a})]
  BY DEF Push
<1>3. Passed(<<>>, a) = 0
  BY DEF Passed
<1>4. Passed(<<Push("bridge", e)>>, a) = One(e, Sentences({a}))
  <2>1. <<Push("bridge", e)>> # <<>> /\ Head(<<Push("bridge", e)>>) = Push("bridge", e)
    BY TailOfTwo
  <2> QED
    BY <1>1, <2>1 DEF Passed, One
<1>5. Passed(<<Push("fsm", e), Push("bridge", e)>>, a) = 0
  <2>1. Head(<<Push("fsm", e), Push("bridge", e)>>) = Push("fsm", e)
    BY TailOfTwo
  <2> QED
    BY <1>2, <2>1 DEF Passed
<1> QED
  BY <1>3, <1>4, <1>5

(* The push of a PlaybackFinished. *)
LEMMA AnnouncedOne ==
    ASSUME NEW e, NEW a
    PROVE  /\ Announced(<<>>, a) = 0 /\ Announced(<<Push("fsm", e)>>, a) = One(e, Playbacks({a}))
<1>1. Push("fsm", e) \in [to : {"fsm"}, event : Playbacks({a})] <=> e \in Playbacks({a})
  BY DEF Push
<1> QED
  BY <1>1, CountOne, CountEmpty DEF Announced, One

(* Events of other types are not counted. *)
LEMMA OthersCountNothing ==
    ASSUME NEW n, NEW e \in Others(Turned(n)), NEW a
    PROVE  /\ One(e, Sentences({a})) = 0 /\ One(e, Playbacks({a})) = 0
  BY DEF One, Others, Sentences, Playbacks

(* How an event is counted, by its type and turn. *)
LEMMA OneSentence ==
    ASSUME NEW n \in Nat, NEW e \in Events(Turned(n)), NEW a \in Nat
    PROVE  /\ One(e, Sentences({a})) <= One(e, Sentences(Nat))
           /\ e.type # "PlaybackFinished" => One(e, Playbacks({a})) = 0
           /\ e.type # "LlmSentence" => One(e, Sentences(Nat)) = 0 /\ One(e, Sentences({a})) = 0
           /\ e.type = "LlmSentence" => One(e, Sentences(Nat)) = 1
           /\ e.type = "PlaybackFinished" =>
                One(e, Playbacks({a})) = IF e.turn = a THEN 1 ELSE 0
<1>1. Turned(n) \subseteq Nat
  BY DEF Turned
<1>2. e.type = "LlmSentence" => e \in Sentences(Nat)
  BY <1>1 DEF Sentences, Events
<1>3. e \in Sentences({a}) => e.type = "LlmSentence"
  BY DEF Sentences
<1>4. e \in Sentences(Nat) => e.type = "LlmSentence"
  BY DEF Sentences
<1>5. e \in Playbacks({a}) => e.type = "PlaybackFinished" /\ e.turn = a
  BY DEF Playbacks
<1>6. e.type = "PlaybackFinished" /\ e.turn = a => e \in Playbacks({a})
  BY DEF Playbacks, Events
<1> QED
  BY <1>2, <1>3, <1>4, <1>5, <1>6 DEF One

(* The Manager's I/O thread publishes: the FSM is told first. *)
LEMMA LlmSpeaks ==
    ASSUME NEW n \in Nat, NEW a \in Nat, BusShape(n), BridgeShape(n), PlayShape(n),
           StreamShape(stream, n),
           ManagerActivates \/ LlmSays \/ LlmFinishes
    PROVE  /\ BusShape(n)' /\ BridgeShape(n)' /\ PlayShape(n)' /\ queue' = queue
           /\ UNCHANGED <<active, played, received>>
           /\ Load(a)' \in Nat /\ Load(a)' <= Load(a)
<1>0. QueueShape(queue, n) /\ OutShape(out, n) /\ stream.turn \in Turned(n) /\ stream.seq \in Nat
  BY DEF BusShape, StreamShape
<1>1. /\ queue' = queue /\ UNCHANGED <<active, played, received>>
      /\ jobs' = jobs /\ synth' = synth /\ tokens' = tokens /\ lastToken' = lastToken
      /\ chunks' = chunks /\ current' = current /\ postbox' = postbox
  BY DEF ManagerActivates, LlmSays, LlmFinishes, fsmVars, perTurn, bridgeVars, workerVars,
         playbackVars, queueVars, engineVars
<1>2. PICK e \in Events(Turned(n)) :
        e.type \in {"LlmStarted", "LlmSentence", "LlmFinished"} /\ Publish("llm", e)
  <2>1. ASSUME NEW type \in {"LlmStarted", "LlmSentence", "LlmFinished"}, NEW seq \in Nat
        PROVE  /\ Event(type, stream.turn, seq) \in Events(Turned(n))
               /\ Event(type, stream.turn, seq).type = type
    BY <1>0 DEF Event, Events, EventTypes
  <2>2. \/ Publish("llm", Event("LlmStarted", stream.turn, 0))
        \/ Publish("llm", Event("LlmSentence", stream.turn, stream.seq))
        \/ Publish("llm", Event("LlmFinished", stream.turn, 0))
    BY DEF ManagerActivates, LlmSays, LlmFinishes
  <2> QED
    BY <1>0, <2>1, <2>2
<1>3. out' = [out EXCEPT !["llm"] = Deliveries(e)]
  BY <1>2 DEF Publish
<1>4. OutShape(out', n) /\ out'["llm"] = Deliveries(e) /\ out'["playback"] = out["playback"]
  <2>1. /\ OutShape([out EXCEPT !["llm"] = Deliveries(e)], n)
        /\ [out EXCEPT !["llm"] = Deliveries(e)]["llm"] = Deliveries(e)
        /\ [out EXCEPT !["llm"] = Deliveries(e)]["playback"] = out["playback"]
    BY <1>0, <1>2, LlmPublish
  <2> QED
    BY <1>3, <2>1
<1>5. Passed(out'["llm"], a) = 0
  <2>1. CASE e.type = "LlmStarted"
    <3>1. Deliveries(e) = <<Push("bridge", e)>> /\ One(e, Sentences({a})) = 0
      BY <2>1, DeliveriesAre, OneSentence
    <3> QED
      BY <1>4, <3>1, PassedOne
  <2>2. CASE e.type # "LlmStarted"
    <3>1. Deliveries(e) = <<Push("fsm", e), Push("bridge", e)>>
      BY <1>2, <2>2, DeliveriesAre
    <3> QED
      BY <1>4, <3>1, PassedOne
  <2> QED
    BY <2>1, <2>2
<1>6. /\ Spoken(jobs, synth, a) \in Nat /\ Playing(chunks, current, postbox, a) \in Nat
      /\ Count(queue["bridge"], Sentences({a})) \in Nat
      /\ Passed(out["llm"], a) \in Nat /\ Announced(out["playback"], a) \in Nat
  BY LoadTypes
<1>7. Load(a)' = Spoken(jobs, synth, a) + Playing(chunks, current, postbox, a)
                   + Count(queue["bridge"], Sentences({a})) + 0 + Announced(out["playback"], a)
  <2>1. Load(a)' = Spoken(jobs', synth', a) + Playing(chunks', current', postbox', a)
                   + Count(queue'["bridge"], Sentences({a})) + Passed(out'["llm"], a)
                   + Announced(out'["playback"], a)
    BY DEF Load
  <2> QED
    BY <1>1, <1>4, <1>5, <2>1
<1>8. Load(a)' \in Nat /\ Load(a)' <= Load(a)
  BY <1>6, <1>7 DEF Load
<1> QED
  BY <1>0, <1>1, <1>4, <1>8 DEF BusShape, BridgeShape, PlayShape

(* One push: what the FSM is told and what is on its way afterwards. *)
LEMMA DeliveryLoad ==
    ASSUME NEW n \in Nat, NEW a \in Nat, BusShape(n), BridgeShape(n), PlayShape(n),
           NEW t \in Publishers, Deliver(t), NEW d, d = Head(out[t])
    PROVE  /\ BusShape(n)' /\ BridgeShape(n)' /\ PlayShape(n)' /\ Load(a)' \in Nat
           /\ d \in Pushes(Events(Turned(n)))
           /\ queue' = [queue EXCEPT ![d.to] = Append(queue[d.to], d.event)]
           /\ d.to = "fsm" => Load(a)' + One(d.event, Playbacks({a}))
                                 <= Load(a) + One(d.event, Sentences(Nat))
           /\ d.to # "fsm" => Load(a)' <= Load(a)
<1> DEFINE e == d.event
           S == Sentences({a})
           b == queue["bridge"]
<1>0. QueueShape(queue, n) /\ OutShape(out, n) /\ out[t] # <<>>
  BY DEF BusShape, Deliver, Free
<1>1. /\ queue' = [queue EXCEPT ![d.to] = Append(queue[d.to], d.event)]
      /\ out' = [out EXCEPT ![t] = Tail(out[t])]
  BY DEF Deliver
<1>2. /\ d \in Pushes(Events(Turned(n)))
      /\ t \notin {"llm", "playback"} => d.event \in Others(Turned(n))
      /\ OutShape(out', n) /\ QueueShape(queue', n)
  <2>1. /\ OutShape([out EXCEPT ![t] = Tail(out[t])], n)
        /\ QueueShape([queue EXCEPT ![d.to] = Append(queue[d.to], d.event)], n)
    BY <1>0, Pushed
  <2>2. OutShape(out', n) /\ QueueShape(queue', n)
    BY <1>1, <2>1
  <2> QED
    BY <1>0, <2>2, Pushed
<1>3. /\ jobs' = jobs /\ synth' = synth /\ tokens' = tokens /\ lastToken' = lastToken
      /\ chunks' = chunks /\ current' = current /\ postbox' = postbox
  BY DEF Deliver, bridgeVars, workerVars, playbackVars, queueVars, engineVars
<1>4. BusShape(n)' /\ BridgeShape(n)' /\ PlayShape(n)'
  BY <1>2, <1>3 DEF BusShape, BridgeShape, PlayShape
<1>5. e \in Events(Turned(n)) /\ d.to \in Subscribers /\ d = Push(d.to, e)
  BY <1>2 DEF Pushes, Push
<1>6. /\ b \in Seq(Events(Turned(n)))
      /\ d.to = "bridge" => queue'["bridge"] = Append(b, e)
      /\ d.to # "bridge" => queue'["bridge"] = b
  BY <1>0, <1>1, <1>5 DEF QueueShape, Subscribers
<1>7. /\ d.to = "bridge" => Count(queue'["bridge"], S) = Count(b, S) + One(e, S)
      /\ d.to # "bridge" => Count(queue'["bridge"], S) = Count(b, S)
  <2>1. Count(Append(b, e), S) = Count(b, S) + One(e, S)
    BY <1>5, <1>6, CountAppend
  <2> HIDE DEF e, S, b
  <2> QED
    BY <1>6, <2>1
<1>8. \A u \in Publishers \ {t} : out'[u] = out[u]
  BY <1>0, <1>1 DEF OutShape
<1>9. out'[t] = Tail(out[t])
  BY <1>0, <1>1 DEF OutShape
<1>10. "llm" \in Publishers /\ "playback" \in Publishers
  BY DEF Publishers
<1>11. /\ Spoken(jobs, synth, a) \in Nat /\ Playing(chunks, current, postbox, a) \in Nat
       /\ Count(b, S) \in Nat /\ One(e, S) \in Nat
       /\ Passed(out["llm"], a) \in Nat /\ Announced(out["playback"], a) \in Nat
       /\ Load(a) = Spoken(jobs, synth, a) + Playing(chunks, current, postbox, a)
                      + Count(b, S) + Passed(out["llm"], a) + Announced(out["playback"], a)
  BY LoadTypes, OneType DEF Load
<1>12. Load(a)' = Spoken(jobs, synth, a) + Playing(chunks, current, postbox, a)
                   + Count(queue'["bridge"], S) + Passed(out'["llm"], a)
                   + Announced(out'["playback"], a)
  <2>1. Load(a)' = Spoken(jobs', synth', a) + Playing(chunks', current', postbox', a)
                   + Count(queue'["bridge"], S) + Passed(out'["llm"], a)
                   + Announced(out'["playback"], a)
    BY DEF Load
  <2> QED
    BY <1>3, <2>1
<1>13. One(e, S) <= One(e, Sentences(Nat)) /\ One(e, Sentences(Nat)) \in Nat
       /\ One(e, Playbacks({a})) \in Nat
  BY <1>5, OneSentence, OneType
<1> DEFINE Goal == /\ Load(a)' \in Nat
                   /\ d.to = "fsm" => Load(a)' + One(e, Playbacks({a}))
                                         <= Load(a) + One(e, Sentences(Nat))
                   /\ d.to # "fsm" => Load(a)' <= Load(a)
<1>14. ASSUME t \notin {"llm", "playback"} PROVE Goal
  <2>1. One(e, S) = 0 /\ One(e, Playbacks({a})) = 0
    BY <1>2, <1>14, OthersCountNothing
  <2>2. out'["llm"] = out["llm"] /\ out'["playback"] = out["playback"]
    BY <1>8, <1>10, <1>14
  <2>3. Count(queue'["bridge"], S) = Count(b, S)
    BY <1>7, <1>11, <2>1
  <2>4. Load(a)' = Load(a)
    BY <1>11, <1>12, <2>2, <2>3
  <2>5. Load(a) \in Nat
    BY LoadTypes
  <2> HIDE DEF e, S, b
  <2> QED
    BY <1>13, <2>1, <2>4, <2>5
<1>15. ASSUME t = "llm" PROVE Goal
  <2>1. PICK x \in Events(Turned(n)) :
          /\ x.type # "PlaybackFinished"
          /\ \/ out["llm"] = <<Push("bridge", x)>>
             \/ out["llm"] = <<Push("fsm", x), Push("bridge", x)>>
    BY <1>0, <1>15 DEF OutShape, LlmOut
  <2>2. out'["playback"] = out["playback"] /\ out'["llm"] = Tail(out["llm"])
    BY <1>8, <1>9, <1>10, <1>15
  <2>3. CASE out["llm"] = <<Push("bridge", x)>>
    <3>1. d = Push("bridge", x) /\ out'["llm"] = <<>>
      BY <1>15, <2>2, <2>3, TailOfTwo
    <3>2. e = x /\ d.to = "bridge"
      BY <3>1 DEF Push
    <3>3. Passed(out["llm"], a) = One(e, S) /\ Passed(out'["llm"], a) = 0
      BY <2>3, <3>1, <3>2, PassedOne
    <3>4. Count(queue'["bridge"], S) = Count(b, S) + One(e, S)
      BY <1>7, <3>2
    <3> HIDE DEF e, S, b
    <3>5. Load(a)' = Load(a) /\ Load(a) \in Nat
      BY <1>11, <1>12, <2>2, <3>3, <3>4
    <3> QED
      BY <3>2, <3>5
  <2>4. CASE out["llm"] = <<Push("fsm", x), Push("bridge", x)>>
    <3>1. d = Push("fsm", x) /\ out'["llm"] = <<Push("bridge", x)>>
      BY <1>15, <2>2, <2>4, TailOfTwo
    <3>2. e = x /\ d.to = "fsm"
      BY <3>1 DEF Push
    <3>3. Passed(out["llm"], a) = 0 /\ Passed(out'["llm"], a) = One(e, S)
      BY <2>4, <3>1, <3>2, PassedOne
    <3>4. Count(queue'["bridge"], S) = Count(b, S) /\ One(e, Playbacks({a})) = 0
      BY <1>7, <2>1, <3>2, OneSentence
    <3> HIDE DEF e, S, b
    <3>5. Load(a)' = Load(a) + One(e, S) /\ Load(a) \in Nat
      BY <1>11, <1>12, <2>2, <3>3, <3>4
    <3> QED
      BY <1>11, <1>13, <3>2, <3>4, <3>5
  <2> QED
    BY <2>1, <2>3, <2>4
<1>16. ASSUME t = "playback" PROVE Goal
  <2>1. PICK x \in Playbacks(Turned(n)) : out["playback"] = <<Push("fsm", x)>>
    BY <1>0, <1>16 DEF OutShape, PlaybackOut
  <2>2. out'["llm"] = out["llm"] /\ out'["playback"] = Tail(out["playback"])
    BY <1>8, <1>9, <1>10, <1>16
  <2>3. d = Push("fsm", x) /\ out'["playback"] = <<>>
    BY <1>16, <2>1, <2>2, TailOfTwo
  <2>4. e = x /\ d.to = "fsm"
    BY <2>3 DEF Push
  <2>5. Announced(out["playback"], a) = One(e, Playbacks({a})) /\ Announced(out'["playback"], a) = 0
    BY <2>1, <2>3, <2>4, AnnouncedOne
  <2>6. Count(queue'["bridge"], S) = Count(b, S)
    BY <1>7, <2>4
  <2> HIDE DEF e, S, b
  <2>7. Load(a) = Load(a)' + One(e, Playbacks({a})) /\ Load(a)' \in Nat /\ Load(a) \in Nat
    BY <1>11, <1>12, <2>2, <2>5, <2>6
  <2> QED
    BY <1>13, <2>4, <2>7
<1>17. Goal
  BY <1>14, <1>15, <1>16
<1> QED
  BY <1>1, <1>2, <1>4, <1>17

(* A push preserves the invariant. *)
LEMMA DeliveryStep ==
    ASSUME NEW n \in Nat, BusShape(n), BridgeShape(n), PlayShape(n), PlaysBehind,
           active \in Nat, played \in Nat, received \in Nat, NEW t \in Publishers, Deliver(t)
    PROVE  BusShape(n)' /\ BridgeShape(n)' /\ PlayShape(n)' /\ PlaysBehind'
<1>1. PICK a \in Nat, p \in Nat, r \in Nat : a = active /\ p = played /\ r = received
  OBVIOUS
<1>2. PICK d : d = Head(out[t])
  OBVIOUS
<1>3. UNCHANGED <<active, played, received>>
  BY DEF Deliver, fsmVars, perTurn
<1>4. /\ BusShape(n)' /\ BridgeShape(n)' /\ PlayShape(n)' /\ Load(a)' \in Nat
      /\ d \in Pushes(Events(Turned(n)))
      /\ queue' = [queue EXCEPT ![d.to] = Append(queue[d.to], d.event)]
      /\ d.to = "fsm" => Load(a)' + One(d.event, Playbacks({a}))
                            <= Load(a) + One(d.event, Sentences(Nat))
      /\ d.to # "fsm" => Load(a)' <= Load(a)
  BY <1>2, DeliveryLoad
<1>5. PICK l \in Nat, m \in Nat : l = Load(a) /\ m = Load(a)'
  BY <1>4, LoadTypes
<1>6. QueueShape(queue, n) /\ d.to \in Subscribers /\ d.event \in Events(Turned(n))
  BY <1>4 DEF BusShape, Pushes
<1>7. CASE d.to = "fsm"
  <2> DEFINE q == queue["fsm"]
  <2>1. q \in Seq(Events(Turned(n))) /\ queue'["fsm"] = Append(q, d.event)
    BY <1>4, <1>6, <1>7 DEF QueueShape
  <2>2. Balanced(q, p, r, l, a) /\ Ahead(q, p, r, a)
    BY <1>1, <1>5 DEF PlaysBehind
  <2>3. m + One(d.event, Playbacks({a})) <= l + One(d.event, Sentences(Nat))
    BY <1>4, <1>5, <1>7
  <2> HIDE DEF q
  <2>4. Balanced(Append(q, d.event), p, r, m, a) /\ Ahead(Append(q, d.event), p, r, a)
    BY <1>6, <2>1, <2>2, <2>3, FsmTold
  <2>5. Balanced(queue'["fsm"], played', received', Load(a)', a)
        /\ Ahead(queue'["fsm"], played', received', a)
    BY <1>1, <1>3, <1>5, <2>1, <2>4
  <2>6. Load(active)' = Load(a)' /\ active' = a
    BY <1>1, <1>3 DEF Load
  <2> QED
    BY <1>4, <2>5, <2>6 DEF PlaysBehind
<1>8. CASE d.to # "fsm"
  <2>1. queue'["fsm"] = queue["fsm"]
    BY <1>4, <1>6, <1>8 DEF QueueShape, Subscribers
  <2>2. Load(a) \in Nat /\ Load(a)' \in Nat /\ Load(a)' <= Load(a)
    BY <1>4, <1>5, <1>8
  <2> QED
    BY <1>1, <1>3, <1>4, <1>6, <2>1, <2>2, FsmAside
<1> QED
  BY <1>7, <1>8

(* The engine's publisher thread: one post becomes one PlaybackFinished. *)
LEMMA PlaybackAnnounced ==
    ASSUME NEW n \in Nat, NEW a \in Nat, BusShape(n), BridgeShape(n), PlayShape(n),
           PlaybackPublishes
    PROVE  /\ BusShape(n)' /\ BridgeShape(n)' /\ PlayShape(n)' /\ queue' = queue
           /\ UNCHANGED <<active, played, received>>
           /\ Load(a)' \in Nat /\ Load(a)' <= Load(a)
<1> DEFINE h == Head(postbox)
           e == Event("PlaybackFinished", h.turn, h.seq)
           P == Posts({a})
           E == ChunksOf({a}, {TRUE})
<1>0. /\ QueueShape(queue, n) /\ OutShape(out, n) /\ postbox \in Seq(Posts(Turned(n)))
      /\ postbox # <<>>
  BY DEF BusShape, PlayShape, PlaybackPublishes
<1>1. /\ queue' = queue /\ UNCHANGED <<active, played, received>>
      /\ jobs' = jobs /\ synth' = synth /\ tokens' = tokens /\ lastToken' = lastToken
      /\ chunks' = chunks /\ current' = current /\ postbox' = Tail(postbox)
      /\ out' = [out EXCEPT !["playback"] = Deliveries(e)]
  BY DEF PlaybackPublishes, Publish, fsmVars, perTurn, bridgeVars, workerVars, queueVars
<1>2. h \in Posts(Turned(n)) /\ Tail(postbox) \in Seq(Posts(Turned(n)))
  BY <1>0
<1>3. e \in Playbacks(Turned(n)) /\ (e \in Playbacks({a}) => h \in P)
  <2>1. h.turn \in Turned(n) /\ h.seq \in Nat /\ h = [turn |-> h.turn, seq |-> h.seq]
    BY <1>2 DEF Posts
  <2> HIDE DEF h
  <2> QED
    BY <2>1 DEF Playbacks, Posts, Event
<1>4. Count(postbox, P) = One(h, P) + Count(Tail(postbox), P)
  BY <1>0, CountTail
<1> HIDE DEF e
<1>5. OutShape(out', n) /\ out'["llm"] = out["llm"] /\ out'["playback"] = <<Push("fsm", e)>>
  <2>1. /\ OutShape([out EXCEPT !["playback"] = Deliveries(e)], n)
        /\ [out EXCEPT !["playback"] = Deliveries(e)]["llm"] = out["llm"]
        /\ [out EXCEPT !["playback"] = Deliveries(e)]["playback"] = <<Push("fsm", e)>>
    BY <1>0, <1>3, PlaybackPublish
  <2> QED
    BY <1>1, <2>1
<1>6. Announced(out'["playback"], a) = One(e, Playbacks({a}))
  BY <1>5, AnnouncedOne
<1>7. One(e, Playbacks({a})) <= One(h, P) /\ One(e, Playbacks({a})) \in Nat /\ One(h, P) \in Nat
  BY <1>3 DEF One
<1>8. /\ Spoken(jobs, synth, a) \in Nat /\ Count(Tail(postbox), P) \in Nat
      /\ Count(chunks, E) \in Nat /\ Count(current, E) \in Nat
      /\ Count(queue["bridge"], Sentences({a})) \in Nat
      /\ Passed(out["llm"], a) \in Nat /\ Announced(out["playback"], a) \in Nat
  <2>1. Count(chunks, E) \in Nat /\ Count(current, E) \in Nat
    BY OnTheWayTypes DEF BridgeShape, PlayShape
  <2> QED
    BY <1>2, <2>1, CountType, LoadTypes
<1>9. Load(a)' = Spoken(jobs, synth, a)
                   + (Count(chunks, E) + Count(current, E) + Count(Tail(postbox), P))
                   + Count(queue["bridge"], Sentences({a})) + Passed(out["llm"], a)
                   + One(e, Playbacks({a}))
  <2>1. Load(a)' = Spoken(jobs', synth', a)
                   + (Count(chunks', E) + Count(current', E) + Count(postbox', P))
                   + Count(queue'["bridge"], Sentences({a})) + Passed(out'["llm"], a)
                   + Announced(out'["playback"], a)
    BY DEF Load, Playing
  <2> QED
    BY <1>1, <1>5, <1>6, <2>1
<1>10. Load(a) = Spoken(jobs, synth, a)
                   + (Count(chunks, E) + Count(current, E) + Count(postbox, P))
                   + Count(queue["bridge"], Sentences({a})) + Passed(out["llm"], a)
                   + Announced(out["playback"], a)
  BY DEF Load, Playing
<1>11. Load(a)' \in Nat /\ Load(a)' <= Load(a)
  <2> HIDE DEF h, P, E
  <2> QED
    BY <1>4, <1>7, <1>8, <1>9, <1>10
<1> QED
  BY <1>0, <1>1, <1>2, <1>5, <1>11 DEF BusShape, BridgeShape, PlayShape

(* The bridge's worker and I/O thread, the engine's callback. *)
LEMMA SpokenOn ==
    ASSUME NEW n \in Nat, NEW a \in Nat, BusShape(n), BridgeShape(n), PlayShape(n),
           BridgeHandles \/ BridgeOrPlayback
    PROVE  /\ BusShape(n)' /\ BridgeShape(n)' /\ PlayShape(n)' /\ queue'["fsm"] = queue["fsm"]
           /\ UNCHANGED <<active, played, received>>
           /\ Load(a)' \in Nat /\ Load(a)' <= Load(a)
<1> DEFINE x == Spoken(jobs, synth, a)
           y == Playing(chunks, current, postbox, a)
           z == Count(queue["bridge"], Sentences({a}))
           f == Passed(out["llm"], a)
           g == Announced(out["playback"], a)
           x2 == Spoken(jobs', synth', a)
           y2 == Playing(chunks', current', postbox', a)
           z2 == Count(queue'["bridge"], Sentences({a}))
<1>1. x \in Nat /\ y \in Nat /\ z \in Nat /\ f \in Nat /\ g \in Nat
  BY LoadTypes
<1>2. out' = out /\ UNCHANGED <<active, played, received>>
  BY DEF BridgeHandles, BridgeOrPlayback, fsmVars, perTurn, busVars
<1>3. QueueShape(queue, n) /\ OutShape(out, n)
  BY DEF BusShape
<1> DEFINE Goal == /\ QueueShape(queue', n) /\ BridgeShape(n)' /\ PlayShape(n)'
                   /\ queue'["fsm"] = queue["fsm"] /\ x2 + y2 + z2 <= x + y + z
<1>4. ASSUME BridgeHandles PROVE Goal
  <2>1. /\ BridgeShape(n)' /\ QueueShape(queue', n) /\ UNCHANGED playbackVars
        /\ queue'["fsm"] = queue["fsm"] /\ x2 + z2 <= x + z
    BY <1>3, <1>4, BridgeHears
  <2>2. chunks' = chunks /\ current' = current /\ postbox' = postbox
    BY <2>1 DEF playbackVars, queueVars, engineVars
  <2>3. PlayShape(n)' /\ y2 = y
    BY <2>2 DEF PlayShape
  <2>4. x2 \in Nat /\ z2 \in Nat
    <3>1. jobs' \in Seq(JobsOf(Turned(n))) /\ SynthShape(synth', n)
      BY <2>1 DEF BridgeShape
    <3>2. queue'["bridge"] \in Seq(Events(Turned(n)))
      BY <2>1 DEF QueueShape, Subscribers
    <3> QED
      BY <3>1, <3>2, SpokenType, CountType
  <2>5. x2 + y2 + z2 <= x + y + z
    <3> HIDE DEF x, y, z, x2, y2, z2
    <3> QED
      BY <1>1, <2>1, <2>3, <2>4
  <2> QED
    BY <2>1, <2>3, <2>5
<1>5. ASSUME BridgeOrPlayback PROVE Goal
  <2>1. queue' = queue
    BY <1>5 DEF BridgeOrPlayback, busVars
  <2>2. CASE BridgeClears \/ (Render /\ UNCHANGED bridgeVars)
    <3>1. ClearChunks \/ Render
      BY <2>2 DEF BridgeClears
    <3>2. jobs' = jobs /\ synth' = synth /\ tokens' = tokens /\ lastToken' = lastToken
      BY <2>2 DEF BridgeClears, bridgeVars, workerVars
    <3>3. PlayShape(n)' /\ y2 <= y
      BY <3>1, PlaybackGoesOn
    <3>4. BridgeShape(n)' /\ x2 = x /\ z2 = z
      BY <2>1, <3>2 DEF BridgeShape
    <3>5. y2 \in Nat
      <4>1. /\ chunks' \in Seq(ChunksOf(Turned(n), BOOLEAN)) /\ CurrentShape(current', n)
            /\ postbox' \in Seq(Posts(Turned(n)))
        BY <3>3 DEF PlayShape
      <4> QED
        BY <4>1, PlayingType
    <3>6. x2 + y2 + z2 <= x + y + z
      <4> HIDE DEF x, y, z, x2, y2, z2
      <4> QED
        BY <1>1, <3>3, <3>4, <3>5
    <3> QED
      BY <1>3, <2>1, <3>3, <3>4, <3>6
  <2>3. CASE TakeJob \/ JobDropped \/ AudioArrives \/ SynthesisFails \/ TailDropped \/ TailDue
    <3>1. BridgeShape(n)' /\ UNCHANGED playbackVars /\ x2 <= x
      BY <2>3, SynthesisGoesOn
    <3>2. chunks' = chunks /\ current' = current /\ postbox' = postbox
      BY <3>1 DEF playbackVars, queueVars, engineVars
    <3>3. PlayShape(n)' /\ y2 = y /\ z2 = z
      BY <2>1, <3>2 DEF PlayShape
    <3>4. x2 \in Nat
      <4>1. jobs' \in Seq(JobsOf(Turned(n))) /\ SynthShape(synth', n)
        BY <3>1 DEF BridgeShape
      <4> QED
        BY <4>1, SpokenType
    <3>5. x2 + y2 + z2 <= x + y + z
      <4> HIDE DEF x, y, z, x2, y2, z2
      <4> QED
        BY <1>1, <3>1, <3>3, <3>4
    <3> QED
      BY <1>3, <2>1, <3>1, <3>3, <3>5
  <2>4. CASE AudioQueued \/ MarkerQueued
    <3>1. BridgeShape(n)' /\ PlayShape(n)' /\ x2 + y2 <= x + y
      BY <2>4, SentenceQueued
    <3>2. z2 = z
      BY <2>1
    <3>3. x2 \in Nat /\ y2 \in Nat
      <4>1. /\ jobs' \in Seq(JobsOf(Turned(n))) /\ SynthShape(synth', n)
            /\ chunks' \in Seq(ChunksOf(Turned(n), BOOLEAN)) /\ CurrentShape(current', n)
            /\ postbox' \in Seq(Posts(Turned(n)))
        BY <3>1 DEF BridgeShape, PlayShape
      <4> QED
        BY <4>1, SpokenType, PlayingType
    <3>4. x2 + y2 + z2 <= x + y + z
      <4> HIDE DEF x, y, z, x2, y2, z2
      <4> QED
        BY <1>1, <3>1, <3>2, <3>3
    <3> QED
      BY <1>3, <2>1, <3>1, <3>4
  <2> QED
    BY <1>5, <2>2, <2>3, <2>4 DEF BridgeOrPlayback, Synthesis
<1>6. Goal
  BY <1>4, <1>5
<1>7. BusShape(n)'
  BY <1>2, <1>3, <1>6 DEF BusShape
<1>8. x2 \in Nat /\ y2 \in Nat /\ z2 \in Nat
  <2>1. /\ jobs' \in Seq(JobsOf(Turned(n))) /\ SynthShape(synth', n)
        /\ chunks' \in Seq(ChunksOf(Turned(n), BOOLEAN)) /\ CurrentShape(current', n)
        /\ postbox' \in Seq(Posts(Turned(n))) /\ queue'["bridge"] \in Seq(Events(Turned(n)))
    BY <1>6 DEF BridgeShape, PlayShape, QueueShape, Subscribers
  <2> QED
    BY <2>1, SpokenType, PlayingType, CountType
<1>9. Load(a)' = x2 + y2 + z2 + f + g /\ Load(a) = x + y + z + f + g
  BY <1>2 DEF Load
<1>10. Load(a)' \in Nat /\ Load(a)' <= Load(a)
  <2>1. x2 + y2 + z2 <= x + y + z
    BY <1>6
  <2> HIDE DEF x, y, z, x2, y2, z2, f, g, Goal
  <2> QED
    BY <1>1, <1>8, <1>9, <2>1
<1> QED
  BY <1>2, <1>6, <1>7, <1>10

(* The FSM's worker begins a turn, or counts the event: a sentence of whatever turn, and  *)
(* a PlaybackFinished of the active one.                                                  *)
LEMMA FsmCountsEvent ==
    ASSUME NEW n \in Nat, NEW a \in Nat, a = active, FsmTypeOK,
           NEW e \in Events(Turned(n)), Dispatch(e)
    PROVE  \/ BeginTurn
           \/ /\ UNCHANGED <<active, nextTurn>>
              /\ played' = played + One(e, Playbacks({a}))
              /\ received' = received + One(e, Sentences(Nat))
<1>0. played \in Nat /\ received \in Nat
  BY DEF FsmTypeOK
<1>1. /\ e.type # "PlaybackFinished" => One(e, Playbacks({a})) = 0
      /\ e.type # "LlmSentence" => One(e, Sentences(Nat)) = 0
      /\ e.type = "LlmSentence" => One(e, Sentences(Nat)) = 1
      /\ e.type = "PlaybackFinished" =>
           One(e, Playbacks({a})) = IF e.turn = a THEN 1 ELSE 0
  BY OneSentence
<1>2. CASE e.type = "SpeechStarted" /\ HandleSpeechStarted
  BY <1>0, <1>1, <1>2 DEF HandleSpeechStarted, Ignored, fsmVars, perTurn
<1>3. CASE e.type = "SpeechEnded" /\ HandleSpeechEnded
  BY <1>0, <1>1, <1>3 DEF HandleSpeechEnded, perTurn
<1>4. CASE e.type = "FinalTranscript" /\ HandleFinalTranscript
  BY <1>0, <1>1, <1>4 DEF HandleFinalTranscript
<1>5. CASE e.type = "LlmSentence" /\ HandleLlmSentence
  BY <1>0, <1>1, <1>5 DEF HandleLlmSentence
<1>6. CASE e.type = "LlmFinished" /\ HandleLlmFinished
  BY <1>0, <1>1, <1>6 DEF HandleLlmFinished
<1>7. CASE e.type = "PlaybackFinished" /\ HandlePlaybackFinished(e.turn)
  BY <1>0, <1>1, <1>7 DEF HandlePlaybackFinished, PlaybackCounts, Ignored, fsmVars, perTurn
<1>8. CASE e.type = "UserInterrupted" /\ HandleUserInterrupted
  BY <1>0, <1>1, <1>8 DEF HandleUserInterrupted, Ignored, fsmVars, perTurn
<1> QED
  BY <1>2, <1>3, <1>4, <1>5, <1>6, <1>7, <1>8 DEF Dispatch

(* The FSM's worker preserves the invariant; a new turn starts with nothing on its way. *)
LEMMA FsmStep ==
    ASSUME NEW n \in Nat, n = nextTurn, BusShape(n), BridgeShape(n), PlayShape(n), PlaysBehind,
           FsmTypeOK, FsmHandles
    PROVE  BusShape(n)' /\ BridgeShape(n)' /\ PlayShape(n)' /\ PlaysBehind'
<1> DEFINE q == queue["fsm"]
           e == Head(q)
<1>0. PICK a \in Nat, p \in Nat, r \in Nat : a = active /\ p = played /\ r = received
  BY DEF FsmTypeOK
<1>1. QueueShape(queue, n) /\ OutShape(out, n) /\ a \in Turned(n)
  BY <1>0 DEF BusShape, FsmTypeOK, Turned
<1>2. q # <<>> /\ queue' = [queue EXCEPT !["fsm"] = Tail(q)] /\ Dispatch(e)
  BY DEF FsmHandles, Receives, Next1
<1>3. /\ q \in Seq(Events(Turned(n))) /\ e \in Events(Turned(n)) /\ QueueShape(queue', n)
      /\ queue'["fsm"] = Tail(q) /\ queue'["bridge"] = queue["bridge"]
  <2>1. "fsm" \in Subscribers /\ "bridge" \in Subscribers
    BY DEF Subscribers
  <2>2. q \in Seq(Events(Turned(n))) /\ e \in Events(Turned(n)) /\ QueueShape(queue', n)
    BY <1>1, <1>2, <2>1, Taken
  <2> QED
    BY <1>1, <1>2, <2>1, <2>2 DEF QueueShape
<1>4. OutShape(out', n) /\ out'["llm"] = out["llm"] /\ out'["playback"] = out["playback"]
  <2>1. CASE out' = out
    BY <1>1, <2>1
  <2>2. CASE Publish("fsm", Event("CancelGeneration", active, 0))
    <3>1. PICK c \in Others(Turned(n)) : Publish("fsm", c)
      BY <1>0, <1>1, <2>2 DEF Event, Others, Events, EventTypes
    <3>2. "fsm" \in Publishers \ {"llm", "playback"}
      BY DEF Publishers
    <3>3. /\ OutShape([out EXCEPT !["fsm"] = Deliveries(c)], n)
          /\ [out EXCEPT !["fsm"] = Deliveries(c)]["llm"] = out["llm"]
          /\ [out EXCEPT !["fsm"] = Deliveries(c)]["playback"] = out["playback"]
      BY <1>1, <3>2, QuietPublish
    <3>4. out' = [out EXCEPT !["fsm"] = Deliveries(c)]
      BY <3>1 DEF Publish
    <3> QED
      BY <3>3, <3>4
  <2> QED
    BY <2>1, <2>2 DEF FsmHandles
<1>5. /\ jobs' = jobs /\ synth' = synth /\ tokens' = tokens /\ lastToken' = lastToken
      /\ chunks' = chunks /\ current' = current /\ postbox' = postbox
  BY DEF FsmHandles, bridgeVars, workerVars, playbackVars, queueVars, engineVars
<1>6. BusShape(n)' /\ BridgeShape(n)' /\ PlayShape(n)'
  BY <1>3, <1>4, <1>5 DEF BusShape, BridgeShape, PlayShape
<1>7. ASSUME NEW b PROVE Load(b)' = Load(b)
  BY <1>3, <1>4, <1>5 DEF Load, Spoken, Playing, Passed, Announced
<1>8. CASE BeginTurn
  <2>1. active' = n /\ played' = 0 /\ received' = 0
    BY <1>8 DEF BeginTurn
  <2>2. Tail(q) \in Seq(Events(Turned(n)))
    BY <1>2, <1>3
  <2>3. Load(n) = 0 /\ Balanced(Tail(q), 0, 0, 0, n) /\ Ahead(Tail(q), 0, 0, n)
    BY <2>2, NothingOfTheNext
  <2>4. Load(active)' = 0
    <3>1. Load(active)' = Load(n)'
      BY <2>1 DEF Load
    <3> QED
      BY <1>7, <2>3, <3>1
  <2>5. PlaysBehind'
    BY <1>3, <2>1, <2>3, <2>4 DEF PlaysBehind
  <2> QED
    BY <1>6, <2>5
<1>9. CASE /\ UNCHANGED <<active, nextTurn>>
           /\ played' = played + One(e, Playbacks({a}))
           /\ received' = received + One(e, Sentences(Nat))
  <2>1. PICK l \in Nat : l = Load(a)
    BY LoadTypes
  <2>2. Balanced(q, p, r, l, a) /\ Ahead(q, p, r, a)
    BY <1>0, <2>1 DEF PlaysBehind
  <2>3. PICK p2 \in Nat, r2 \in Nat :
          /\ p2 = p + One(e, Playbacks({a})) /\ r2 = r + One(e, Sentences(Nat))
    BY OneType
  <2>4. p2 = played' /\ r2 = received' /\ active' = a
    BY <1>0, <1>9, <2>3
  <2>5. Balanced(Tail(q), p2, r2, l, a) /\ Ahead(Tail(q), p2, r2, a)
    BY <1>2, <1>3, <2>2, <2>3, FsmCounts
  <2>6. Load(active)' = l
    <3>1. Load(active)' = Load(a)'
      BY <2>4 DEF Load
    <3> QED
      BY <1>7, <2>1, <3>1
  <2>7. PlaysBehind'
    BY <1>3, <2>4, <2>5, <2>6 DEF PlaysBehind
  <2> QED
    BY <1>6, <2>7
<1> QED
  BY <1>0, <1>2, <1>3, <1>8, <1>9, FsmCountsEvent

-----------------------------------------------------------------------------
(* The turns minted so far, and none, are among those that events may carry. *)
LEMMA Minted ==
    ASSUME NEW t \in Nat, NEW n \in Nat, NEW m \in Nat, t < n, n <= m
    PROVE  t \in Turned(m) /\ 0 \in Turned(m)
  BY DEF Turned

(* The stream's turn was minted before. *)
LEMMA StreamSteps ==
    ASSUME NEW n \in Nat, n = nextTurn, NEW m \in Nat, m = nextTurn', n <= m, FsmTypeOK,
           StreamShape(stream, n), [PipelineNext]_pipelineVars
    PROVE  StreamShape(stream', m)
<1>0. active \in Turned(m) /\ 0 \in Turned(m)
  <2>1. active \in Nat /\ active < n
    BY DEF FsmTypeOK
  <2> QED
    BY <2>1, Minted
<1>1. CASE stream' = stream
  BY <1>1, ShapeGrows
<1>2. ASSUME NEW turn \in Turned(m), AdoptTurn(turn) PROVE StreamShape(stream', m)
  BY <1>2 DEF AdoptTurn, StreamShape
<1>3. CASE ManagerAdopts
  <2>1. CASE active # NoTurn /\ AdoptTurn(active)
    BY <1>0, <1>2, <2>1
  <2>2. CASE AdoptTurn(nextTurn) /\ MintElsewhere
    <3>1. nextTurn \in Turned(m)
      BY <2>2 DEF MintElsewhere, Turned
    <3> QED
      BY <1>2, <2>2, <3>1
  <2> QED
    BY <1>3, <2>1, <2>2 DEF ManagerAdopts
<1>4. CASE \/ TakeTranscript \/ ActivateTurn \/ SentenceDone \/ LeftoverSentence \/ FinishStream
  <2>1. PICK s \in [phase : {"idle", "adopt", "activate", "stream", "finish", "return"},
                    turn : Turned(n), seq : Nat] : s = stream
    BY DEF StreamShape
  <2>2. \/ stream' = [s EXCEPT !.phase = "adopt"] \/ stream' = [s EXCEPT !.phase = "stream"]
        \/ stream' = [s EXCEPT !.seq = s.seq + 1]
        \/ stream' = [s EXCEPT !.seq = s.seq + 1, !.phase = "finish"]
        \/ stream' = [s EXCEPT !.phase = "return"]
    BY <1>4, <2>1 DEF TakeTranscript, ActivateTurn, SentenceDone, LeftoverSentence, FinishStream
  <2>3. StreamShape(stream', n)
    <3>1. stream'.phase \in {"idle", "adopt", "activate", "stream", "finish", "return"}
      BY <2>2
    <3>2. stream'.turn \in Turned(n) /\ stream'.seq \in Nat
      <4>1. stream'.turn = s.turn /\ (stream'.seq = s.seq \/ stream'.seq = s.seq + 1)
        BY <2>2
      <4>2. s.turn \in Turned(n) /\ s.seq \in Nat
        OBVIOUS
      <4> QED
        BY <4>1, <4>2
    <3>3. stream' = [phase |-> stream'.phase, turn |-> stream'.turn, seq |-> stream'.seq]
      BY <2>2
    <3> QED
      BY <3>1, <3>2, <3>3 DEF StreamShape
  <2> QED
    BY <2>3, ShapeGrows
<1>5. CASE RunOneReturns
  BY <1>0, <1>5 DEF RunOneReturns, NoStream, StreamShape
<1> USE DEF managerVars
<1>6. ASSUME NEW t, Deliver(t) PROVE stream' = stream
  BY <1>6 DEF Deliver
<1>7. CASE FsmHandles \/ FsmGoesOn \/ BargeInFires \/ BargeInSuppressed
  BY <1>1, <1>7 DEF FsmHandles, FsmGoesOn, BargeInFires, BargeInSuppressed
<1>8. CASE ManagerHandles
  BY <1>1, <1>8 DEF ManagerHandles, EnqueueTurn, CancelActive
<1>9. CASE ManagerTakes \/ ManagerActivates \/ LlmSays \/ LlmFinishes
  BY <1>4, <1>9 DEF ManagerTakes, ManagerActivates, LlmSays, LlmFinishes
<1>10. CASE ManagerReturns
  BY <1>5, <1>10 DEF ManagerReturns
<1>11. CASE BridgeHandles \/ BridgeOrPlayback \/ PlaybackPublishes \/ SummaryFinishes
  BY <1>1, <1>11 DEF BridgeHandles, BridgeOrPlayback, PlaybackPublishes, SummaryFinishes
<1>12. CASE UserBegins \/ UserEnds \/ Transcribed \/ LineTyped
  BY <1>1, <1>12 DEF UserBegins, UserEnds, Transcribed, LineTyped
<1>13. CASE UNCHANGED pipelineVars
  BY <1>1, <1>13 DEF pipelineVars
<1> QED
  BY <1>1, <1>3, <1>6, <1>7, <1>8, <1>9, <1>10, <1>11, <1>12, <1>13 DEF PipelineNext, SystemStep

(* Whatever thread moves, the PlaybackFinished that may come stay covered by sentences. *)
LEMMA CoveredStep ==
    FsmTypeOK /\ FsmTypeOK' /\ Shape /\ PlaysBehind /\ [PipelineNext]_pipelineVars
        => Shape' /\ PlaysBehind'
<1> SUFFICES ASSUME FsmTypeOK, FsmTypeOK', Shape, PlaysBehind, [PipelineNext]_pipelineVars
             PROVE  Shape' /\ PlaysBehind'
  OBVIOUS
<1>1. PICK n \in Nat, m \in Nat : n = nextTurn /\ m = nextTurn'
  BY DEF FsmTypeOK
<1>2. active \in Nat /\ played \in Nat /\ received \in Nat
  BY DEF FsmTypeOK
<1>3. BusShape(n) /\ BridgeShape(n) /\ PlayShape(n) /\ StreamShape(stream, n)
  BY <1>1 DEF Shape
<1>4. n <= m
  <2>1. [FsmNext]_fsmVars
    BY PipelineStepsFsm
  <2>2. nextTurn' = nextTurn \/ nextTurn' = nextTurn + 1
    BY <2>1 DEF FsmNext, fsmVars, Start, MintElsewhere, AnyEvent, InterruptOutcome,
         HandlerContinues, SpeechStartedReturns, Settle, HandleSpeechStarted, BeginTurn, Ignored,
         HandleSpeechEnded, HandleFinalTranscript, HandleLlmSentence, HandleLlmFinished,
         HandlePlaybackFinished, PlaybackCounts, HandleUserInterrupted
  <2> QED
    BY <1>1, <2>2
<1>5. BusShape(n)' /\ BridgeShape(n)' /\ PlayShape(n)' /\ PlaysBehind'
  <2>1. PICK a \in Nat : a = active
    BY <1>2
  <2>2. QueueShape(queue, n) /\ Load(a) \in Nat
    BY <1>3, LoadTypes DEF BusShape
  <2>3. ASSUME NEW t \in Publishers, Deliver(t)
        PROVE  BusShape(n)' /\ BridgeShape(n)' /\ PlayShape(n)' /\ PlaysBehind'
    BY <1>2, <1>3, <2>3, DeliveryStep
  <2>4. CASE FsmHandles
    BY <1>1, <1>3, <2>4, FsmStep
  <2>5. CASE \/ UserBegins \/ UserEnds \/ Transcribed \/ LineTyped \/ SummaryFinishes
             \/ BargeInFires \/ BargeInSuppressed \/ FsmGoesOn
             \/ ManagerHandles \/ ManagerTakes \/ ManagerAdopts \/ ManagerReturns
    <3>1. Quiet(n)
      BY <1>1, <1>3, <2>5, QuietActs
    <3> QED
      BY <1>2, <1>3, <3>1, StepAside
  <2>6. CASE ManagerActivates \/ LlmSays \/ LlmFinishes
    <3>1. /\ BusShape(n)' /\ BridgeShape(n)' /\ PlayShape(n)' /\ queue' = queue
          /\ UNCHANGED <<active, played, received>>
          /\ Load(a)' \in Nat /\ Load(a)' <= Load(a)
      BY <1>3, <2>6, LlmSpeaks
    <3> QED
      BY <1>2, <2>1, <2>2, <3>1, FsmAside
  <2>7. CASE BridgeHandles \/ BridgeOrPlayback
    <3>1. /\ BusShape(n)' /\ BridgeShape(n)' /\ PlayShape(n)' /\ queue'["fsm"] = queue["fsm"]
          /\ UNCHANGED <<active, played, received>>
          /\ Load(a)' \in Nat /\ Load(a)' <= Load(a)
      BY <1>3, <2>7, SpokenOn
    <3> QED
      BY <1>2, <2>1, <2>2, <3>1, FsmAside
  <2>8. CASE PlaybackPublishes
    <3>1. /\ BusShape(n)' /\ BridgeShape(n)' /\ PlayShape(n)' /\ queue' = queue
          /\ UNCHANGED <<active, played, received>>
          /\ Load(a)' \in Nat /\ Load(a)' <= Load(a)
      BY <1>3, <2>8, PlaybackAnnounced
    <3> QED
      BY <1>2, <2>1, <2>2, <3>1, FsmAside
  <2>9. CASE UNCHANGED pipelineVars
    <3>1. Quiet(n)
      BY <2>9 DEF pipelineVars, Quiet, fsmVars, perTurn, playbackVars, queueVars, engineVars, busVars
    <3> QED
      BY <1>2, <1>3, <3>1, StepAside
  <2> QED
    BY <2>3, <2>4, <2>5, <2>6, <2>7, <2>8, <2>9 DEF PipelineNext, SystemStep
<1>6. StreamShape(stream', m)
  BY <1>1, <1>3, <1>4, StreamSteps
<1>7. /\ QueueShape(queue', m) /\ OutShape(out', m)
      /\ jobs' \in Seq(JobsOf(Turned(m))) /\ SynthShape(synth', m)
      /\ TokenShape(tokens', lastToken')
      /\ chunks' \in Seq(ChunksOf(Turned(m), BOOLEAN)) /\ CurrentShape(current', m)
      /\ postbox' \in Seq(Posts(Turned(m)))
  <2>1. /\ QueueShape(queue', n) /\ OutShape(out', n)
        /\ jobs' \in Seq(JobsOf(Turned(n))) /\ SynthShape(synth', n)
        /\ TokenShape(tokens', lastToken')
        /\ chunks' \in Seq(ChunksOf(Turned(n), BOOLEAN)) /\ CurrentShape(current', n)
        /\ postbox' \in Seq(Posts(Turned(n)))
    BY <1>5 DEF BusShape, BridgeShape, PlayShape
  <2> QED
    BY <1>4, <2>1, ShapeGrows
<1>8. Shape'
  BY <1>1, <1>6, <1>7 DEF Shape, BusShape, BridgeShape, PlayShape
<1> QED
  BY <1>5, <1>8

(* At first nothing is on its way. *)
LEMMA CoveredInitially == PipelineInit => Shape /\ PlaysBehind
<1> SUFFICES ASSUME PipelineInit PROVE Shape /\ PlaysBehind
  OBVIOUS
<1>1. /\ nextTurn = 1 /\ active = 0 /\ played = 0 /\ received = 0
      /\ queue = [s \in Subscribers |-> <<>>] /\ out = [t \in Publishers |-> <<>>]
      /\ jobs = <<>> /\ synth = Resting /\ tokens = [t \in {} |-> 0] /\ lastToken = 0
      /\ chunks = <<>> /\ current = <<>> /\ postbox = <<>> /\ stream = NoStream
  BY DEF PipelineInit, FsmInit, ManagerInit, BridgeInit, PlaybackInit, NoTurn
<1>2. BusShape(1)
  BY <1>1 DEF BusShape, QueueShape, OutShape, LlmOut, PlaybackOut, Publishers
<1>3. BridgeShape(1)
  BY <1>1 DEF BridgeShape, SynthShape, TokenShape
<1>4. PlayShape(1)
  BY <1>1 DEF PlayShape, CurrentShape
<1>5. StreamShape(stream, 1)
  BY <1>1 DEF StreamShape, NoStream, Turned
<1>6. queue["fsm"] = <<>> /\ queue["bridge"] = <<>> /\ out["llm"] = <<>> /\ out["playback"] = <<>>
  BY <1>1 DEF Subscribers, Publishers
<1>7. Load(0) = 0
  <2>1. synth.job = <<>>
    BY <1>1 DEF Resting
  <2>2. Passed(out["llm"], 0) = 0 /\ Announced(out["playback"], 0) = 0
    BY <1>6, CountEmpty DEF Passed, Announced
  <2> QED
    BY <1>1, <1>6, <2>1, <2>2, CountEmpty DEF Load, Spoken, Playing
<1>8. Balanced(<<>>, 0, 0, 0, 0)
  BY CountEmpty DEF Balanced
<1>9. Ahead(<<>>, 0, 0, 0)
  BY UptoNone DEF Ahead
<1> QED
  BY <1>1, <1>2, <1>3, <1>4, <1>5, <1>6, <1>7, <1>8, <1>9 DEF Shape, PlaysBehind

(* What a publisher still has to push. *)
LEMMA PushesAre ==
    ASSUME NEW n \in Nat, BusShape(n), NEW t \in Publishers
    PROVE  out[t] \in Seq(Pushes(Events(Turned(n))))
<1>1. Others(Turned(n)) \subseteq Events(Turned(n)) /\ Playbacks(Turned(n)) \subseteq Events(Turned(n))
  BY DEF Others, Playbacks, Events, EventTypes
<1>2. Pushes(Others(Turned(n))) \subseteq Pushes(Events(Turned(n)))
  BY <1>1 DEF Pushes
<1>3. ASSUME NEW e \in Events(Turned(n)), NEW s \in Subscribers PROVE Push(s, e) \in Pushes(Events(Turned(n)))
  BY <1>3 DEF Push, Pushes
<1>4. "fsm" \in Subscribers /\ "bridge" \in Subscribers
  BY DEF Subscribers
<1>5. CASE t \notin {"llm", "playback"}
  <2>1. out[t] \in Seq(Pushes(Others(Turned(n))))
    BY <1>5 DEF BusShape, OutShape
  <2> QED
    BY <1>2, <2>1
<1>6. ASSUME NEW S, NEW x \in S, NEW y \in S PROVE <<>> \in Seq(S) /\ <<x>> \in Seq(S) /\ <<x, y>> \in Seq(S)
  OBVIOUS
<1>7. CASE t \in {"llm", "playback"} /\ out[t] # <<>>
  <2>1. PICK e \in Events(Turned(n)) :
          \/ out[t] = <<Push("bridge", e)>> \/ out[t] = <<Push("fsm", e), Push("bridge", e)>>
          \/ out[t] = <<Push("fsm", e)>>
    BY <1>1, <1>7 DEF BusShape, OutShape, LlmOut, PlaybackOut
  <2>2. PICK x, y : x = Push("bridge", e) /\ y = Push("fsm", e)
    OBVIOUS
  <2>3. x \in Pushes(Events(Turned(n))) /\ y \in Pushes(Events(Turned(n)))
    BY <1>3, <1>4, <2>2
  <2>4. out[t] = <<x>> \/ out[t] = <<y, x>> \/ out[t] = <<y>>
    BY <2>1, <2>2
  <2> QED
    BY <1>6, <2>3, <2>4
<1>8. CASE out[t] = <<>>
  BY <1>8
<1> QED
  BY <1>5, <1>7, <1>8

(* What both theorems below rest on is preserved by every step. *)
CoveredInv == FsmTypeOK /\ TurnsEndOnce /\ Shape /\ PlaysBehind

LEMMA CoveredAlways == PipelineSafety => []CoveredInv
<1>1. PipelineInit => CoveredInv
  BY FsmInitially, CoveredInitially DEF PipelineInit, CoveredInv
<1>2. CoveredInv /\ [PipelineNext]_pipelineVars => CoveredInv'
  <2>1. FsmTypeOK /\ TurnsEndOnce /\ [PipelineNext]_pipelineVars => (FsmTypeOK /\ TurnsEndOnce)'
    BY PipelineStepsFsm, FsmTypeStep, LedgerSteps, EndOnceStep
  <2> QED
    BY <2>1, CoveredStep DEF CoveredInv
<1> QED
  BY <1>1, <1>2, PTL DEF PipelineSafety

(* fsm.cpp, handle_playback_finished: the FSM never counts more sentences played than    *)
(* received, however the threads interleave, whatever is cancelled, refused, interrupted, *)
(* dropped or late, for any number of turns and sentences and any size of the queues.      *)
(* Otherwise the test played = received that completes a turn could be stepped over.       *)
THEOREM SentencesBeforePlayback == PipelineSafety => []NeverOverplays
<1>1. CoveredInv => NeverOverplays
  <2> SUFFICES ASSUME CoveredInv PROVE NeverOverplays
    OBVIOUS
  <2> DEFINE q == queue["fsm"]
  <2>1. PICK n \in Nat : n = nextTurn
    BY DEF CoveredInv, FsmTypeOK
  <2>2. q \in Seq(Events(Turned(n)))
    BY <2>1 DEF CoveredInv, Shape, BusShape, QueueShape, Subscribers
  <2>3. Ahead(q, played, received, active)
    BY DEF CoveredInv, PlaysBehind
  <2>4. 0 \in 0 .. Len(q)
    BY <2>2
  <2>5. played + Upto(q, 0, Playbacks({active})) <= received + Upto(q, 0, Sentences(Nat))
    BY <2>3, <2>4 DEF Ahead
  <2>6. Upto(q, 0, Playbacks({active})) = 0 /\ Upto(q, 0, Sentences(Nat)) = 0
    BY UptoNone
  <2> QED
    BY <2>5, <2>6 DEF CoveredInv, NeverOverplays, FsmTypeOK
<1> QED
  BY <1>1, CoveredAlways, PTL

(* Four more parts of the type invariant, each about one component: the active stream is   *)
(* the one run_one runs; a token in use was made; the playback queue keeps to its capacity; *)
(* a subscriber only gets what it reacts to.                                               *)
StreamHeld ==
    activeStream = IF stream.phase \in {"stream", "finish", "return"} THEN stream.turn ELSE 0
TokensMade(tk, js, sy, dd, last) ==
    /\ last \in Nat /\ tk \in [DOMAIN tk -> 1 .. last]
    /\ \A j \in Range(js) \cup Range(sy.job) : j.token \in 1 .. last
    /\ dd \subseteq 1 .. last
RoomKept == MaxChunks > 0 => Len(chunks) <= MaxChunks
ReactsTo(d) == d.to \in Subscribers /\ d.event.type \in Reacts[d.to]
Addressed ==
    /\ \A s \in Subscribers : \A e \in Range(queue[s]) : e.type \in Reacts[s]
    /\ \A t \in Publishers : \A d \in Range(out[t]) : ReactsTo(d)

(* run_one *)
LEMMA StreamHeldStep ==
    ASSUME NEW n \in Nat, StreamShape(stream, n), StreamHeld, [PipelineNext]_pipelineVars
    PROVE  StreamHeld'
<1>1. CASE UNCHANGED managerVars
  BY <1>1 DEF StreamHeld, managerVars
<1>2. CASE ManagerHandles
  BY <1>2 DEF ManagerHandles, EnqueueTurn, CancelActive, managerVars, StreamHeld
<1>3. CASE ManagerTakes
  BY <1>3 DEF ManagerTakes, TakeTranscript, StreamHeld, StreamShape
<1>4. CASE ManagerAdopts
  BY <1>4 DEF ManagerAdopts, AdoptTurn, StreamHeld, StreamShape
<1>5. CASE ManagerActivates
  BY <1>5 DEF ManagerActivates, ActivateTurn, StreamHeld, StreamShape
<1>6. CASE LlmSays
  BY <1>6 DEF LlmSays, SentenceDone, LeftoverSentence, StreamHeld, StreamShape
<1>7. CASE LlmFinishes
  BY <1>7 DEF LlmFinishes, FinishStream, StreamHeld, StreamShape
<1>8. CASE ManagerReturns
  BY <1>8 DEF ManagerReturns, RunOneReturns, NoStream, StreamHeld
<1> QED
  BY <1>1, <1>2, <1>3, <1>4, <1>5, <1>6, <1>7, <1>8
     DEF PipelineNext, SystemStep, pipelineVars, UserBegins, UserEnds, Transcribed, LineTyped,
         SummaryFinishes, Deliver, FsmHandles, FsmGoesOn, BargeInFires, BargeInSuppressed,
         BridgeHandles, BridgeOrPlayback, PlaybackPublishes

(* Only the bridge and the playback change their state, up to what the publisher of the      *)
(* engine and the turn-started hook do.                                                     *)
LEMMA BridgeElsewhere ==
    [PipelineNext]_pipelineVars
        => BridgeHandles \/ BridgeOrPlayback \/ UNCHANGED <<bridgeVars, chunks>>
  BY DEF PipelineNext, SystemStep, pipelineVars, UserBegins, UserEnds, Transcribed, LineTyped,
         SummaryFinishes, Deliver, FsmHandles, FsmGoesOn, BargeInFires, BargeInSuppressed,
         ManagerHandles, ManagerTakes, ManagerAdopts, ManagerActivates, LlmSays, LlmFinishes,
         ManagerReturns, PlaybackPublishes, playbackVars, queueVars

(* PlaybackQueue: enqueue and enqueue_blocking add a chunk only where there is room. *)
LEMMA RoomKeptStep ==
    ASSUME NEW n \in Nat, PlayShape(n), RoomKept, [PipelineNext]_pipelineVars
    PROVE  RoomKept'
<1> DEFINE C == ChunksOf(Turned(n), BOOLEAN)
<1>0. chunks \in Seq(C) /\ Len(chunks) \in Nat /\ MaxChunks \in Nat
  BY PlaybackAssumption DEF PlayShape
<1>1. ASSUME NEW c, chunks' = IF HasRoom THEN Append(chunks, c) ELSE chunks PROVE RoomKept'
  <2>1. Len(Append(chunks, c)) = Len(chunks) + 1
    BY <1>0
  <2> QED
    BY <1>0, <1>1, <2>1 DEF RoomKept, HasRoom
<1>2. ASSUME chunks' = <<>> PROVE RoomKept'
  BY <1>0, <1>2 DEF RoomKept
<1>3. ASSUME NEW i \in Live, chunks' = SubSeq(chunks, i + 1, Len(chunks)) PROVE RoomKept'
  <2>1. i \in 1 .. Len(chunks)
    BY DEF Live
  <2>2. Len(SubSeq(chunks, i + 1, Len(chunks))) = Len(chunks) - i
    <3>1. i + 1 \in 1 .. Len(chunks) + 1
      BY <1>0, <2>1
    <3> QED
      BY <1>0, <2>1, <3>1, SubSeqProperties
  <2> QED
    BY <1>0, <1>3, <2>1, <2>2 DEF RoomKept
<1>4. CASE UNCHANGED chunks
  BY <1>4 DEF RoomKept
<1> HIDE DEF C
<1>5. CASE BridgeHandles
  BY <1>4, <1>5 DEF BridgeHandles, OnLlmStarted, OnLlmSentence, OnLlmFinished, OnUserInterrupted,
         playbackVars, queueVars
<1>6. CASE BridgeOrPlayback
  <2>1. CASE BridgeClears
    BY <1>2, <2>1 DEF BridgeClears, ClearChunks
  <2>2. CASE AudioQueued
    BY <1>1, <2>2 DEF AudioQueued, Enqueue
  <2>3. CASE MarkerQueued
    BY <1>1, <2>3 DEF MarkerQueued, EnqueueBlocking
  <2>4. CASE TakeJob \/ JobDropped \/ AudioArrives \/ SynthesisFails \/ TailDropped \/ TailDue
    BY <1>4, <2>4 DEF TakeJob, JobDropped, AudioArrives, SynthesisFails, TailDropped, TailDue,
           playbackVars, queueVars
  <2>5. CASE ChunkConsumed \/ TurnPrimed
    BY <1>4, <2>5 DEF ChunkConsumed, TurnPrimed, queueVars
  <2>6. CASE NextChunk
    BY <1>2, <1>3, <2>6 DEF NextChunk
  <2> QED
    BY <1>6, <2>1, <2>2, <2>3, <2>4, <2>5, <2>6 DEF BridgeOrPlayback, Synthesis, Render
<1> QED
  BY <1>4, <1>5, <1>6, BridgeElsewhere

(* token_for *)
LEMMA TokenMade ==
    ASSUME NEW t, TokensMade(tokens, jobs, synth, dead, lastToken), NewToken(t) \/ TokenFor(t)
    PROVE  /\ TokensMade(tokens', jobs, synth, dead, lastToken')
           /\ TokenFor(t) => tokens'[t] \in 1 .. lastToken'
<1>0. /\ lastToken \in Nat /\ tokens \in [DOMAIN tokens -> 1 .. lastToken]
      /\ \A j \in Range(jobs) \cup Range(synth.job) : j.token \in 1 .. lastToken
      /\ dead \subseteq 1 .. lastToken
  BY DEF TokensMade
<1>1. CASE NewToken(t)
  <2>1. lastToken' = lastToken + 1 /\ 1 .. lastToken \subseteq 1 .. lastToken'
        /\ lastToken' \in 1 .. lastToken'
    BY <1>0, <1>1 DEF NewToken
  <2>2. tokens' = [u \in DOMAIN tokens \cup {t} |-> IF u = t THEN lastToken' ELSE tokens[u]]
    BY <1>1 DEF NewToken
  <2>3. tokens' \in [DOMAIN tokens' -> 1 .. lastToken'] /\ tokens'[t] \in 1 .. lastToken'
    BY <1>0, <2>1, <2>2
  <2>4. lastToken' \in Nat
    BY <1>0, <2>1
  <2>5. \A j \in Range(jobs) \cup Range(synth.job) : j.token \in 1 .. lastToken'
    BY <1>0, <2>1
  <2>6. dead \subseteq 1 .. lastToken'
    BY <1>0, <2>1
  <2> QED
    BY <2>3, <2>4, <2>5, <2>6 DEF TokensMade
<1>2. CASE t \in DOMAIN tokens /\ UNCHANGED <<lastToken, tokens>>
  BY <1>0, <1>2 DEF TokensMade
<1> QED
  BY <1>1, <1>2 DEF TokenFor

(* A token that cancels a turn, marks a sentence or is looked up was made. *)
LEMMA TokensMadeStep ==
    ASSUME NEW n \in Nat, BridgeShape(n), TokensMade(tokens, jobs, synth, dead, lastToken),
           [PipelineNext]_pipelineVars
    PROVE  TokensMade(tokens, jobs, synth, dead, lastToken)'
<1>0. /\ jobs \in Seq(JobsOf(Turned(n))) /\ SynthShape(synth, n)
  BY DEF BridgeShape
<1>1. /\ lastToken \in Nat /\ tokens \in [DOMAIN tokens -> 1 .. lastToken]
      /\ \A j \in Range(jobs) \cup Range(synth.job) : j.token \in 1 .. lastToken
      /\ dead \subseteq 1 .. lastToken
  BY DEF TokensMade
<1>2. CASE UNCHANGED bridgeVars
  BY <1>2 DEF TokensMade, bridgeVars, workerVars
<1>3. ASSUME NEW t, OnLlmStarted(t) PROVE TokensMade(tokens, jobs, synth, dead, lastToken)'
  BY <1>3, TokenMade DEF OnLlmStarted, TokensMade
<1>4. ASSUME NEW t, NEW k, OnLlmSentence(t, k) PROVE TokensMade(tokens, jobs, synth, dead, lastToken)'
  <2>1. TokenFor(t) /\ synth' = synth /\ dead' = dead
    BY <1>4 DEF OnLlmSentence
  <2>2. TokensMade(tokens', jobs, synth, dead, lastToken') /\ tokens'[t] \in 1 .. lastToken'
    BY <2>1, TokenMade
  <2>3. Range(jobs') \subseteq Range(jobs) \cup {[turn |-> t, seq |-> k, token |-> tokens'[t]]}
    <3>1. PICK e : e = [turn |-> t, seq |-> k, token |-> tokens'[t]]
      OBVIOUS
    <3>2. jobs' = jobs \/ jobs' = Append(jobs, e)
      BY <1>4, <3>1 DEF OnLlmSentence
    <3>3. jobs \in Seq(JobsOf(Turned(n)) \cup {e})
      BY <1>0
    <3>4. Range(Append(jobs, e)) = Range(jobs) \cup {e}
      BY <3>3, AppendElems
    <3> QED
      BY <3>1, <3>2, <3>4
  <2>4. \A j \in Range(jobs') : j.token \in 1 .. lastToken'
    BY <2>2, <2>3 DEF TokensMade
  <2> QED
    BY <2>1, <2>2, <2>4 DEF TokensMade
<1>5. ASSUME NEW t, OnLlmFinished(t) PROVE TokensMade(tokens, jobs, synth, dead, lastToken)'
  <2>1. tokens' = [u \in DOMAIN tokens \ {t} |-> tokens[u]] /\ UNCHANGED <<lastToken, dead, jobs, synth>>
    BY <1>5 DEF OnLlmFinished
  <2>2. tokens' \in [DOMAIN tokens' -> 1 .. lastToken]
    BY <1>1, <2>1
  <2> QED
    BY <1>1, <2>1, <2>2 DEF TokensMade
<1>6. ASSUME NEW t, OnUserInterrupted(t) PROVE TokensMade(tokens, jobs, synth, dead, lastToken)'
  <2>1. /\ TokenFor(t) /\ synth' = synth /\ dead' = dead \cup {tokens'[t]} \cup InFlight
        /\ jobs' = JobsWithout(t)
    BY <1>6 DEF OnUserInterrupted
  <2>2. TokensMade(tokens', jobs, synth, dead, lastToken') /\ tokens'[t] \in 1 .. lastToken'
    BY <2>1, TokenMade
  <2>3. InFlight \subseteq {j.token : j \in Range(synth.job)}
    BY DEF InFlight, Range
  <2>4. dead' \subseteq 1 .. lastToken'
    BY <2>1, <2>2, <2>3 DEF TokensMade
  <2>5. Range(jobs') \subseteq Range(jobs)
    <3>1. jobs \in Seq(Range(jobs))
      BY <1>0 DEF Range
    <3>2. jobs' \in Seq(Range(jobs))
      BY <2>1, <3>1, JobsWithoutKeeps
    <3> QED
      BY <3>2 DEF Range
  <2> QED
    BY <2>1, <2>2, <2>4, <2>5 DEF TokensMade
<1>7. CASE BridgeHandles
  BY <1>3, <1>4, <1>5, <1>6, <1>7 DEF BridgeHandles
<1>8. ASSUME UNCHANGED <<tokens, lastToken, dead>>, Range(jobs') \subseteq Range(jobs) \cup Range(synth.job),
             Range(synth'.job) \subseteq Range(jobs) \cup Range(synth.job)
      PROVE  TokensMade(tokens, jobs, synth, dead, lastToken)'
  BY <1>1, <1>8 DEF TokensMade
<1>9. CASE BridgeOrPlayback
  <2>1. CASE BridgeClears
    BY <1>8, <2>1 DEF BridgeClears
  <2>2. CASE TakeJob
    <3>1. jobs # <<>> /\ jobs' = Tail(jobs) /\ synth'.job = <<Head(jobs)>>
          /\ UNCHANGED <<tokens, lastToken, dead>>
      BY <2>2 DEF TakeJob
    <3>2. Range(jobs') \subseteq Range(jobs)
      BY <1>0, <3>1, TailElems
    <3>3. Range(synth'.job) \subseteq Range(jobs)
      BY <1>0, <3>1 DEF Range
    <3> QED
      BY <1>8, <3>1, <3>2, <3>3
  <2>3. ASSUME NEW p, To(p) PROVE synth'.job = synth.job
    BY <1>0, <2>3 DEF To, SynthShape, Resting
  <2>4. CASE AudioArrives \/ SynthesisFails \/ AudioQueued \/ TailDue
    <3>1. synth'.job = synth.job /\ UNCHANGED <<tokens, lastToken, dead, jobs>>
      BY <2>3, <2>4 DEF AudioArrives, SynthesisFails, AudioQueued, TailDue, workerVars
    <3> QED
      BY <1>8, <3>1
  <2>5. CASE JobDropped \/ TailDropped \/ MarkerQueued
    <3>1. synth' = Resting /\ UNCHANGED <<tokens, lastToken, dead, jobs>>
      BY <2>5 DEF JobDropped, TailDropped, MarkerQueued, workerVars
    <3>2. Range(synth'.job) = {}
      BY <3>1 DEF Resting, Range
    <3> QED
      BY <1>8, <3>1, <3>2
  <2>6. CASE UNCHANGED bridgeVars
    BY <1>2, <2>6
  <2> QED
    BY <1>9, <2>1, <2>2, <2>4, <2>5, <2>6 DEF BridgeOrPlayback, Synthesis
<1> QED
  BY <1>2, <1>7, <1>9, BridgeElsewhere
-----------------------------------------------------------------------------
(* Publish: the pushes of an event go to those who react to it. *)
LEMMA DeliveriesReact ==
    ASSUME NEW e PROVE \A d \in Range(Deliveries(e)) : ReactsTo(d)
<1> DEFINE to(s) == IF e.type \in Reacts[s] THEN <<Push(s, e)>> ELSE <<>>
           G == {d \in Pushes({e}) : ReactsTo(d)}
<1>1. Deliveries(e) = to("fsm") \o to("bridge") \o to("manager") \o to("bargein")
  BY DEF Deliveries, Order, Push
<1>2. ASSUME NEW s \in Subscribers PROVE to(s) \in Seq(G)
  <2>1. e.type \in Reacts[s] => Push(s, e) \in G
    <3>1. Push(s, e).to = s /\ Push(s, e).event = e /\ Push(s, e) \in Pushes({e})
      BY DEF Push, Pushes
    <3> QED
      BY <3>1 DEF ReactsTo
  <2>2. <<>> \in Seq(G) /\ \A d \in G : <<d>> \in Seq(G)
    OBVIOUS
  <2> HIDE DEF G
  <2> QED
    BY <2>1, <2>2
<1>3. "fsm" \in Subscribers /\ "bridge" \in Subscribers /\ "manager" \in Subscribers
      /\ "bargein" \in Subscribers
  BY DEF Subscribers
<1>4. Deliveries(e) \in Seq(G)
  <2> HIDE DEF to, G
  <2> QED
    BY <1>1, <1>2, <1>3
<1> QED
  BY <1>4 DEF Range

(* A worker takes an event, or not, and a thread publishes, or not. *)
Took == queue' = queue \/ \E s \in Subscribers :
           queue[s] # <<>> /\ queue' = [queue EXCEPT ![s] = Tail(@)]
Tells == out' = out \/ \E t \in Publishers : \E e : out' = [out EXCEPT ![t] = Deliveries(e)]

LEMMA AddressedOn ==
    ASSUME NEW n \in Nat, BusShape(n), Addressed, Took, Tells
    PROVE  Addressed'
<1>0. DOMAIN out = Publishers /\ queue \in [Subscribers -> Seq(Events(Turned(n)))]
  BY DEF BusShape, OutShape, QueueShape
<1>1. ASSUME NEW s \in Subscribers PROVE Range(queue'[s]) \subseteq Range(queue[s])
  <2>1. queue[s] # <<>> => Range(Tail(queue[s])) \subseteq Range(queue[s])
    <3>1. queue[s] \in Seq(Events(Turned(n)))
      BY <1>0
    <3> QED
      BY <3>1, TailElems
  <2> QED
    BY <1>0, <2>1 DEF Took
<1>2. ASSUME NEW t \in Publishers PROVE \A d \in Range(out'[t]) : ReactsTo(d)
  <2>1. out'[t] = out[t] \/ \E e : out'[t] = Deliveries(e)
    BY <1>0 DEF Tells
  <2> QED
    BY <2>1, DeliveriesReact DEF Addressed
<1> QED
  BY <1>1, <1>2 DEF Addressed

LEMMA AddressedStep ==
    ASSUME NEW n \in Nat, BusShape(n), Addressed, [PipelineNext]_pipelineVars
    PROVE  Addressed'
<1>0. DOMAIN out = Publishers /\ queue \in [Subscribers -> Seq(Events(Turned(n)))]
  BY DEF BusShape, OutShape, QueueShape
<1>1. ASSUME NEW t \in Publishers, Deliver(t) PROVE Addressed'
  <2>1. out[t] \in Seq(Pushes(Events(Turned(n)))) /\ out[t] # <<>>
    BY <1>1, PushesAre DEF Deliver, Free
  <2>2. PICK d, p : d = Head(out[t]) /\ p = Tail(out[t])
    OBVIOUS
  <2>3. Range(out[t]) = {d} \cup Range(p) /\ d \in Pushes(Events(Turned(n)))
    BY <2>1, <2>2, TailElems
  <2>4. d.to \in Subscribers /\ d.event \in Events(Turned(n)) /\ d.event.type \in Reacts[d.to]
    BY <2>3 DEF Pushes, Addressed, ReactsTo
  <2>5. /\ queue' = [queue EXCEPT ![d.to] = Append(@, d.event)]
        /\ out' = [out EXCEPT ![t] = p]
    BY <1>1, <2>2 DEF Deliver
  <2>6. ASSUME NEW s \in Subscribers PROVE \A e \in Range(queue'[s]) : e.type \in Reacts[s]
    <3>1. Range(Append(queue[s], d.event)) = Range(queue[s]) \cup {d.event}
      <4>1. queue[s] \in Seq(Events(Turned(n)))
        BY <1>0
      <4> QED
        BY <2>4, <4>1, AppendElems
    <3>2. CASE s = d.to
      <4>1. queue'[s] = Append(queue[s], d.event)
        BY <1>0, <2>5, <3>2
      <4> QED
        BY <2>4, <3>1, <3>2, <4>1 DEF Addressed
    <3>3. CASE s # d.to
      <4>1. queue'[s] = queue[s]
        BY <1>0, <2>5, <3>3
      <4> QED
        BY <4>1 DEF Addressed
    <3> QED
      BY <3>2, <3>3
  <2>7. ASSUME NEW u \in Publishers PROVE \A x \in Range(out'[u]) : ReactsTo(x)
    <3>1. out'[u] = out[u] \/ (u = t /\ out'[u] = p)
      BY <1>0, <2>5
    <3> QED
      BY <2>3, <3>1 DEF Addressed
  <2> QED
    BY <2>6, <2>7 DEF Addressed
<1>2. \A s \in Subscribers : Receives(s) => Took
  BY DEF Receives, Took
<1>3. \A t \in Publishers : \A e : Publish(t, e) => Tells
  BY DEF Publish, Tells
<1>4. queue' = queue => Took
  BY DEF Took
<1>5. out' = out => Tells
  BY DEF Tells
<1>6. /\ \A s \in {"fsm", "bridge", "manager", "bargein"} : s \in Subscribers
      /\ \A t \in {"audio", "stt", "stdin", "fsm", "bargein", "manager", "llm", "playback",
                   "summarizer"} : t \in Publishers
  BY DEF Subscribers, Publishers
<1>7. CASE \/ UserBegins \/ UserEnds \/ Transcribed \/ LineTyped \/ SummaryFinishes
           \/ ManagerActivates \/ LlmSays \/ LlmFinishes \/ PlaybackPublishes
  <2>1. Took
    BY <1>4, <1>7 DEF UserBegins, UserEnds, Transcribed, LineTyped, SummaryFinishes,
           ManagerActivates, LlmSays, LlmFinishes, PlaybackPublishes
  <2>2. Tells
    BY <1>3, <1>5, <1>6, <1>7, Zenon DEF UserBegins, UserEnds, Transcribed, LineTyped, SummaryFinishes,
           ManagerActivates, LlmSays, LlmFinishes, PlaybackPublishes
  <2> QED
    BY <2>1, <2>2, AddressedOn
<1>8. CASE FsmHandles \/ BargeInFires \/ BargeInSuppressed \/ ManagerHandles \/ BridgeHandles
  <2>1. Took
    BY <1>2, <1>6, <1>8, Zenon DEF FsmHandles, BargeInFires, BargeInSuppressed, ManagerHandles, BridgeHandles
  <2>2. Tells
    BY <1>3, <1>5, <1>6, <1>8, Zenon DEF FsmHandles, BargeInFires, BargeInSuppressed, ManagerHandles,
           BridgeHandles
  <2> QED
    BY <2>1, <2>2, AddressedOn
<1>9. CASE \/ FsmGoesOn \/ ManagerTakes \/ ManagerAdopts \/ ManagerReturns \/ BridgeOrPlayback
           \/ UNCHANGED pipelineVars
  <2>1. UNCHANGED <<queue, out>>
    BY <1>9 DEF FsmGoesOn, ManagerTakes, ManagerAdopts, ManagerReturns, BridgeOrPlayback, pipelineVars,
           busVars
  <2> QED
    BY <1>4, <1>5, <2>1, AddressedOn
<1> QED
  BY <1>1, <1>7, <1>8, <1>9 DEF PipelineNext, SystemStep

(* tts_bridge.cpp, manager.cpp, queue.cpp, engine.cpp: no event, sentence, chunk or stream is *)
(* of a turn that TurnFactory has not minted, nobody is sent what it does not react to, the  *)
(* tokens compared were made, active_ is the running stream, and the playback queue never   *)
(* outgrows its capacity, for any number of turns and sentences and any size of the queues. *)
THEOREM PipelineTypeCorrect == PipelineSafety => []PipelineTypeOK
<1> DEFINE Made == TokensMade(tokens, jobs, synth, dead, lastToken)
           Inv == CoveredInv /\ StreamHeld /\ Made /\ RoomKept /\ Addressed
<1>1. PipelineInit => StreamHeld /\ Made /\ RoomKept /\ Addressed
  <2> SUFFICES ASSUME PipelineInit PROVE StreamHeld /\ Made /\ RoomKept /\ Addressed
    OBVIOUS
  <2>1. StreamHeld
    BY DEF PipelineInit, ManagerInit, NoStream, StreamHeld
  <2>2. Made
    <3>1. /\ tokens = [t \in {} |-> 0] /\ lastToken = 0 /\ dead = {} /\ jobs = <<>>
          /\ synth.job = <<>>
      BY DEF PipelineInit, BridgeInit, Resting
    <3>2. Range(jobs) = {} /\ Range(synth.job) = {}
      BY <3>1 DEF Range
    <3> QED
      BY <3>1, <3>2 DEF TokensMade
  <2>3. RoomKept
    BY PlaybackAssumption DEF PipelineInit, PlaybackInit, RoomKept
  <2>4. Addressed
    <3>1. \A s \in Subscribers : queue[s] = <<>>
      BY DEF PipelineInit
    <3>2. \A t \in Publishers : out[t] = <<>>
      BY DEF PipelineInit
    <3> QED
      BY <3>1, <3>2 DEF Addressed, Range
  <2> QED
    BY <2>1, <2>2, <2>3, <2>4
<1>2. CoveredInv /\ StreamHeld /\ Made /\ RoomKept /\ Addressed /\ [PipelineNext]_pipelineVars
        => (StreamHeld /\ Made /\ RoomKept /\ Addressed)'
  <2> SUFFICES ASSUME CoveredInv, StreamHeld, Made, RoomKept, Addressed, [PipelineNext]_pipelineVars
               PROVE  StreamHeld' /\ Made' /\ RoomKept' /\ Addressed'
    OBVIOUS
  <2>1. PICK n \in Nat : n = nextTurn
    BY DEF CoveredInv, FsmTypeOK
  <2>2. BusShape(n) /\ BridgeShape(n) /\ PlayShape(n) /\ StreamShape(stream, n)
    BY <2>1 DEF CoveredInv, Shape
  <2>3. Made'
    BY <2>2, TokensMadeStep
  <2> HIDE DEF Made
  <2> QED
    BY <2>2, <2>3, StreamHeldStep, RoomKeptStep, AddressedStep
<1>3. Inv => PipelineTypeOK
  <2> SUFFICES ASSUME Inv PROVE PipelineTypeOK
    OBVIOUS
  <2>1. PICK n \in Nat : n = nextTurn
    BY DEF CoveredInv, FsmTypeOK
  <2>2. BusShape(n) /\ BridgeShape(n) /\ PlayShape(n) /\ StreamShape(stream, n)
    BY <2>1 DEF CoveredInv, Shape
  <2>3. ASSUME NEW T, NEW s \in Seq(T), NEW i \in DOMAIN s PROVE s[i] \in T
    BY <2>3
  <2>4. ASSUME NEW s \in Subscribers, NEW i \in DOMAIN queue[s] PROVE queue[s][i].turn \in Turned(n)
    <3>1. queue[s] \in Seq(Events(Turned(n)))
      BY <2>2 DEF BusShape, QueueShape
    <3>2. queue[s][i] \in Events(Turned(n))
      BY <2>3, <2>4, <3>1
    <3> QED
      BY <3>2 DEF Events
  <2>5. ASSUME NEW t \in Publishers, NEW i \in DOMAIN out[t]
        PROVE  out[t][i].to \in Subscribers /\ out[t][i].event.turn \in Turned(n)
    <3>1. out[t] \in Seq(Pushes(Events(Turned(n))))
      BY <2>2, PushesAre
    <3>2. out[t][i] \in Pushes(Events(Turned(n)))
      BY <2>3, <2>5, <3>1
    <3> QED
      BY <3>2 DEF Pushes, Events
  <2>6. \A i \in DOMAIN jobs : jobs[i].turn \in Turned(n)
    <3>1. jobs \in Seq(JobsOf(Turned(n)))
      BY <2>2 DEF BridgeShape
    <3>2. \A i \in DOMAIN jobs : jobs[i] \in JobsOf(Turned(n))
      BY <2>3, <3>1
    <3> QED
      BY <3>2 DEF JobsOf
  <2>7. \A i \in DOMAIN chunks : chunks[i].turn \in Turned(n)
    <3>1. \A i \in DOMAIN chunks : chunks[i] \in ChunksOf(Turned(n), BOOLEAN)
      BY <2>2, <2>3 DEF PlayShape
    <3> QED
      BY <3>1 DEF ChunksOf
  <2>8. \A i \in DOMAIN postbox : postbox[i].turn \in Turned(n)
    <3>1. \A i \in DOMAIN postbox : postbox[i] \in Posts(Turned(n))
      BY <2>2, <2>3 DEF PlayShape
    <3> QED
      BY <3>1 DEF Posts
  <2>9. stream.turn \in Turned(n)
    BY <2>2 DEF StreamShape
  <2>10. Len(current) <= 1
    <3>1. \A k : Len(<<k>>) <= 1
      OBVIOUS
    <3>2. current = <<>> \/ \E k : current = <<k>>
      BY <2>2 DEF PlayShape, CurrentShape
    <3>3. current = <<>> => Len(current) <= 1
      OBVIOUS
    <3> QED
      BY <3>1, <3>2, <3>3
  <2>11. /\ \A s \in Subscribers : \A i \in DOMAIN queue[s] : queue[s][i].type \in Reacts[s]
         /\ \A t \in Publishers : \A i \in DOMAIN out[t] : out[t][i].event.type \in Reacts[out[t][i].to]
    BY DEF Addressed, ReactsTo, Range
  <2>12. (\A i \in DOMAIN jobs : jobs[i].token \in 1..lastToken) /\ dead \subseteq 1..lastToken
    BY DEF TokensMade, Range
  <2>13. activeStream \in {0, stream.turn}
    BY DEF StreamHeld
  <2> QED
    BY <2>1, <2>4, <2>5, <2>6, <2>7, <2>8, <2>9, <2>10, <2>11, <2>12, <2>13
       DEF PipelineTypeOK, Turned, RoomKept
<1> QED
  BY <1>1, <1>2, <1>3, CoveredAlways, PTL DEF PipelineSafety

-----------------------------------------------------------------------------
(* A sentence is known by its turn and its number.  The places it passes, from the ears   *)
(* back to the stream: heard, in the playback queue, in synthesis, a job of the bridge,   *)
(* an event for the bridge, a push for the bridge, still to be said.                      *)
Mark(x) == <<x.turn, x.seq>>
Marks(S) == {Mark(x) : x \in S}
AudioOf(c) == Marks({x \in Range(c) : x.audio})
WorkOf(s) == IF s.phase \in {"submit", "audio"} THEN Marks(Range(s.job)) ELSE {}
SaidTo(q) == Marks({e \in Range(q) : e.type = "LlmSentence"})
DueTo(p) == IF p # <<>> /\ Head(p).event.type = "LlmSentence" THEN {Mark(Head(p).event)} ELSE {}
ToCome(s) == IF s.phase \in {"activate", "stream", "finish"}
             THEN {<<s.turn, k>> : k \in {i \in Nat : i >= s.seq}} ELSE {}
Line == <<Range(heard), AudioOf(chunks), WorkOf(synth), Marks(Range(jobs)),
          SaidTo(queue["bridge"]), DueTo(out["llm"]), ToCome(stream)>>

(* Sentences of one turn keep their order: from place to place and inside each place. *)
Before(X, Y) == \A x \in X, y \in Y : x[1] = y[1] => x[2] < y[2]
InLine(L) == \A i, k \in 1 .. 7 : i < k => Before(L[i], L[k])
HeardOrder == {p \in (Nat \X Nat) \X (Nat \X Nat) : p[1][1] = p[2][1] => p[1][2] < p[2][2]}
TurnOrder(X, K) == {p \in X \X X : p[1] \in K /\ p[2] \in K /\ p[1].turn = p[2].turn
                                     => p[1].seq < p[2].seq}
ChunkOrder == TurnOrder(ChunksOf(Nat, BOOLEAN), {c \in ChunksOf(Nat, BOOLEAN) : c.audio})
JobOrder == TurnOrder(JobsOf(Nat), JobsOf(Nat))
EventOrder == TurnOrder(Events(Nat), Sentences(Nat))

HeardShape(n) == heard \in Seq(Turned(n) \X Nat) /\ unsaid \in SUBSET (Turned(n) \X Nat)
InOrder ==
    /\ InLine(Line)
    /\ Ordered(heard, HeardOrder) /\ Ordered(chunks, ChunkOrder)
    /\ Ordered(jobs, JobOrder) /\ Ordered(queue["bridge"], EventOrder)

(* Nothing of the turn has been heard and nothing is on its way. *)
Lacks(L, t) == \A i \in 1 .. 6 : \A m \in L[i] : m[1] # t
Untouched(t) == Lacks(Line, t)

(* One sentence goes on to the place in front of the one where it was, nothing else is    *)
(* moved: the order stays if it was the first of its turn there.                          *)
LEMMA OneMoves ==
    ASSUME NEW L, NEW M, InLine(L), NEW k \in 1 .. 6, NEW x, x \in L[k + 1],
           \A i \in 1 .. 7 : M[i] \subseteq L[i] \/ (i = k /\ M[i] \subseteq L[i] \cup {x}),
           Before({x}, M[k + 1])
    PROVE  InLine(M)
<1> SUFFICES ASSUME NEW i \in 1 .. 7, NEW j \in 1 .. 7, i < j, NEW y \in M[i], NEW z \in M[j],
                    y[1] = z[1]
             PROVE  y[2] < z[2]
  BY DEF InLine, Before
<1>1. CASE y \in L[i] /\ z \in L[j]
  BY <1>1 DEF InLine, Before
<1>2. CASE y \notin L[i]
  <2>1. i = k /\ y = x
    BY <1>2
  <2>2. j # k /\ z \in L[j]
    BY <2>1
  <2>3. CASE j = k + 1
    BY <2>1, <2>3 DEF Before
  <2>4. CASE j # k + 1
    <3>1. k + 1 < j /\ k + 1 \in 1 .. 7
      BY <2>1, <2>4
    <3> QED
      BY <2>1, <2>2, <3>1 DEF InLine, Before
  <2> QED
    BY <2>3, <2>4
<1>3. CASE z \notin L[j]
  <2>1. j = k /\ z = x
    BY <1>3
  <2>2. i < k + 1 /\ k + 1 \in 1 .. 7 /\ y \in L[i]
    BY <2>1
  <2> QED
    BY <2>1, <2>2 DEF InLine, Before
<1> QED
  BY <1>1, <1>2, <1>3

(* Nothing moves, some may be gone. *)
LEMMA NoneMoves ==
    ASSUME NEW L, NEW M, InLine(L), \A i \in 1 .. 7 : M[i] \subseteq L[i]
    PROVE  InLine(M)
  BY DEF InLine, Before

(* A stream of a turn of which there was nothing. *)
LEMMA OneStarts ==
    ASSUME NEW L, NEW M, InLine(L), NEW t, \A i \in 1 .. 6 : M[i] \subseteq L[i],
           Lacks(L, t), \A m \in M[7] : m[1] = t
    PROVE  InLine(M)
<1> SUFFICES ASSUME NEW i \in 1 .. 7, NEW j \in 1 .. 7, i < j, NEW y \in M[i], NEW z \in M[j],
                    y[1] = z[1]
             PROVE  y[2] < z[2]
  BY DEF InLine, Before
<1>1. i \in 1 .. 6 /\ y \in L[i] /\ y[1] # t
  BY DEF Lacks
<1>2. j \in 1 .. 6 /\ z \in L[j]
  BY <1>1
<1> QED
  BY <1>1, <1>2 DEF InLine, Before

(* Where the marks go in each step. *)
(* push_back and pop_front, seen as marks. *)
LEMMA MarksAppended ==
    ASSUME NEW T, NEW s \in Seq(T), NEW e \in T
    PROVE  /\ Marks(Range(Append(s, e))) = Marks(Range(s)) \cup {Mark(e)}
           /\ AudioOf(Append(s, e)) = AudioOf(s) \cup (IF e.audio THEN {Mark(e)} ELSE {})
           /\ SaidTo(Append(s, e)) = SaidTo(s) \cup (IF e.type = "LlmSentence" THEN {Mark(e)} ELSE {})
<1>1. Range(Append(s, e)) = Range(s) \cup {e}
  BY AppendElems
<1> QED
  BY <1>1 DEF Marks, AudioOf, SaidTo

LEMMA MarksTaken ==
    ASSUME NEW T, NEW s \in Seq(T), s # <<>>
    PROVE  /\ Marks(Range(s)) = {Mark(Head(s))} \cup Marks(Range(Tail(s)))
           /\ SaidTo(s) = SaidTo(Tail(s)) \cup
                            (IF Head(s).type = "LlmSentence" THEN {Mark(Head(s))} ELSE {})
<1>1. Range(s) = {Head(s)} \cup Range(Tail(s))
  BY TailElems
<1> QED
  BY <1>1 DEF Marks, SaidTo

(* The stream publishes a sentence. *)
LEMMA SentenceSaid ==
    ASSUME NEW n \in Nat, BusShape(n), StreamShape(stream, n), LlmSays,
           NEW x, x = <<stream.turn, stream.seq>>
    PROVE  /\ x \in ToCome(stream) /\ x \in Turned(n) \X Nat
           /\ DueTo(out["llm"]) = {} /\ DueTo(out'["llm"]) = {x}
           /\ ToCome(stream') \subseteq ToCome(stream) /\ Before({x}, ToCome(stream'))
           /\ UNCHANGED <<bridgeVars, playbackVars, queue>>
<1> DEFINE e == Event("LlmSentence", stream.turn, stream.seq)
<1>1. stream.turn \in Turned(n) /\ stream.seq \in Nat
  BY DEF StreamShape
<1>2. e \in Events(Turned(n)) /\ e.type = "LlmSentence" /\ Mark(e) = x
  BY <1>1 DEF Event, Events, EventTypes, Mark
<1>3. out["llm"] = <<>> /\ out' = [out EXCEPT !["llm"] = Deliveries(e)]
  BY DEF LlmSays, Free, Publish
<1>4. OutShape(out, n)
  BY DEF BusShape
<1> HIDE DEF e
<1>5. Deliveries(e) = <<Push("fsm", e), Push("bridge", e)>>
  BY <1>2, DeliveriesAre
<1>6. out'["llm"] = <<Push("fsm", e), Push("bridge", e)>>
  BY <1>2, <1>3, <1>4, <1>5, LlmPublish
<1>7. DueTo(out["llm"]) = {} /\ DueTo(out'["llm"]) = {x}
  <2>1. out'["llm"] # <<>> /\ Head(out'["llm"]) = Push("fsm", e)
    BY <1>6, TailOfTwo
  <2>2. Push("fsm", e).event = e
    BY DEF Push
  <2> QED
    BY <1>2, <1>3, <2>1, <2>2 DEF DueTo
<1>8. stream.phase = "stream" /\ stream'.phase \in {"stream", "finish"}
      /\ stream'.turn = stream.turn /\ stream'.seq = stream.seq + 1
  BY DEF LlmSays, SentenceDone, LeftoverSentence, StreamShape
<1>9. x \in ToCome(stream)
  BY <1>1, <1>8 DEF ToCome
<1>10. ToCome(stream) = {<<stream.turn, k>> : k \in {i \in Nat : i >= stream.seq}}
       /\ ToCome(stream') = {<<stream.turn, k>> : k \in {i \in Nat : i >= stream.seq + 1}}
  BY <1>8 DEF ToCome
<1>11. ToCome(stream') \subseteq ToCome(stream) /\ Before({x}, ToCome(stream'))
  BY <1>1, <1>10 DEF Before
<1>12. UNCHANGED <<bridgeVars, playbackVars, queue>>
  BY DEF LlmSays
<1>13. x \in Turned(n) \X Nat
  BY <1>1
<1> QED
  BY <1>7, <1>9, <1>11, <1>12, <1>13

(* One push: to the bridge it brings a sentence only from the stream. *)
LEMMA SentencePushed ==
    ASSUME NEW n \in Nat, BusShape(n), NEW t \in Publishers, Deliver(t)
    PROVE  /\ UNCHANGED <<bridgeVars, playbackVars, stream>>
           /\ queue["bridge"] \in Seq(Events(Turned(n)))
           /\ \/ /\ queue'["bridge"] = queue["bridge"]
                 /\ DueTo(out'["llm"]) = DueTo(out["llm"])
              \/ /\ DueTo(out'["llm"]) = {} /\ t = "llm"
                 /\ \E e \in Events(Turned(n)) :
                      /\ queue'["bridge"] = Append(queue["bridge"], e)
                      /\ DueTo(out["llm"]) = IF e.type = "LlmSentence" THEN {Mark(e)} ELSE {}
              \/ /\ DueTo(out'["llm"]) = DueTo(out["llm"])
                 /\ \E e \in Others(Turned(n)) : queue'["bridge"] = Append(queue["bridge"], e)
<1>0. QueueShape(queue, n) /\ OutShape(out, n)
  BY DEF BusShape
<1>1. /\ out[t] # <<>> /\ queue' = [queue EXCEPT ![Head(out[t]).to] = Append(@, Head(out[t]).event)]
      /\ out' = [out EXCEPT ![t] = Tail(@)]
      /\ UNCHANGED <<bridgeVars, playbackVars, stream>>
  BY DEF Deliver, Free, managerVars
<1>2. PICK d : d = Head(out[t])
  OBVIOUS
<1>3. /\ d \in Pushes(Events(Turned(n))) /\ (t \notin {"llm", "playback"} => d.event \in Others(Turned(n)))
  BY <1>0, <1>1, <1>2, Pushed
<1>4. d.to \in Subscribers /\ d.event \in Events(Turned(n))
  BY <1>3 DEF Pushes
<1>5. queue["bridge"] \in Seq(Events(Turned(n))) /\ DOMAIN queue = Subscribers
      /\ "bridge" \in Subscribers
  BY <1>0 DEF QueueShape, Subscribers
<1>6. queue'["bridge"] = IF d.to = "bridge" THEN Append(queue["bridge"], d.event) ELSE queue["bridge"]
  BY <1>1, <1>2, <1>4, <1>5
<1>7. DOMAIN out = Publishers /\ "llm" \in Publishers
  BY <1>0, SMTT(60) DEF OutShape, Publishers
<1>8. CASE t \notin {"llm", "playback"}
  <2>1. out'["llm"] = out["llm"]
    BY <1>1, <1>7, <1>8
  <2> QED
    BY <1>1, <1>3, <1>5, <1>6, <1>8, <2>1
<1>9. CASE t = "playback"
  <2>1. out'["llm"] = out["llm"]
    BY <1>1, <1>7, <1>9
  <2>2. d.to = "fsm"
    <3>1. PICK e \in Playbacks(Turned(n)) : out[t] = <<Push("fsm", e)>>
      BY <1>0, <1>1, <1>9 DEF OutShape, PlaybackOut
    <3> QED
      BY <1>2, <3>1 DEF Push
  <2> QED
    BY <1>1, <1>5, <1>6, <2>1, <2>2
<1>10. CASE t = "llm"
  <2>0. out'["llm"] = Tail(out["llm"])
    BY <1>1, <1>7, <1>10
  <2>1. PICK e \in Events(Turned(n)) :
          \/ out["llm"] = <<Push("bridge", e)>>
          \/ out["llm"] = <<Push("fsm", e), Push("bridge", e)>>
    BY <1>0, <1>1, <1>10 DEF OutShape, LlmOut
  <2>2. CASE out["llm"] = <<Push("bridge", e)>>
    <3>1. d = Push("bridge", e) /\ out'["llm"] = <<>>
      BY <1>2, <1>10, <2>0, <2>2, TailOfTwo
    <3>2. d.to = "bridge" /\ d.event = e
      BY <3>1 DEF Push
    <3>4. out["llm"] # <<>> /\ Head(out["llm"]) = d
      BY <1>2, <1>10, <2>2
    <3>3. DueTo(out'["llm"]) = {} /\ DueTo(out["llm"]) = IF e.type = "LlmSentence" THEN {Mark(e)} ELSE {}
      <4>1. DueTo(out'["llm"]) = {}
        BY <3>1 DEF DueTo
      <4> QED
        BY <3>2, <3>4, <4>1 DEF DueTo
    <3> QED
      BY <1>1, <1>5, <1>6, <1>10, <3>2, <3>3
  <2>3. CASE out["llm"] = <<Push("fsm", e), Push("bridge", e)>>
    <3>1. d = Push("fsm", e) /\ out'["llm"] = <<Push("bridge", e)>>
      BY <1>2, <1>10, <2>0, <2>3, TailOfTwo
    <3>2. d.to = "fsm" /\ d.event = e /\ Push("bridge", e).event = e
      BY <3>1 DEF Push
    <3>4. out["llm"] # <<>> /\ out'["llm"] # <<>> /\ Head(out'["llm"]) = Push("bridge", e)
      BY <2>3, <3>1, TailOfTwo
    <3>3. DueTo(out'["llm"]) = DueTo(out["llm"])
      BY <1>2, <1>10, <3>2, <3>4 DEF DueTo
    <3> QED
      BY <1>1, <1>5, <1>6, <3>2, <3>3
  <2> QED
    BY <2>1, <2>2, <2>3
<1> QED
  BY <1>8, <1>9, <1>10

(* on_user_interrupted: the loop that keeps jobs. *)
LEMMA JobsWithoutLoop ==
    ASSUME NEW T, jobs \in Seq(T), NEW turn
    PROVE  \E D, g : /\ g = [i \in 0 .. Len(jobs) |-> Keeping(jobs, D, g, i)]
                     /\ JobsWithout(turn) = g[Len(jobs)]
<1> DEFINE D == {j \in T : j.turn = turn}
           F(g) == [i \in 0 .. Len(jobs) |->
                      IF i = 0 THEN <<>>
                      ELSE IF jobs[i].turn = turn THEN g[i - 1] ELSE Append(g[i - 1], jobs[i])]
           kept == CHOOSE g : g = F(g)
<1>1. JobsWithout(turn) = kept[Len(jobs)]
  BY DEF JobsWithout
<1>2. ASSUME NEW g PROVE F(g) = [i \in 0 .. Len(jobs) |-> Keeping(jobs, D, g, i)]
  <2>1. \A i \in 0 .. Len(jobs) : i = 0 \/ (jobs[i] \in D <=> jobs[i].turn = turn)
    OBVIOUS
  <2> HIDE DEF D
  <2> QED
    BY <2>1 DEF Keeping
<1>3. \E g : g = F(g)
  <2>1. PICK g : g = [i \in 0 .. Len(jobs) |-> Keeping(jobs, D, g, i)]
    BY KeepingExists
  <2>2. g = F(g)
    BY <1>2, <2>1
  <2> QED
    BY <2>2
<1>4. kept = F(kept)
  <2> HIDE DEF F
  <2> QED
    BY <1>3
<1> HIDE DEF kept
<1>5. kept = [i \in 0 .. Len(jobs) |-> Keeping(jobs, D, kept, i)]
  BY <1>2, <1>4
<1> HIDE DEF D
<1> QED
  BY <1>1, <1>5

LEMMA JobsWithoutOrder ==
    ASSUME NEW T, jobs \in Seq(T), NEW turn, NEW R, Ordered(jobs, R)
    PROVE  /\ JobsWithout(turn) \in Seq(T) /\ Ordered(JobsWithout(turn), R)
           /\ Range(JobsWithout(turn)) \subseteq Range(jobs)
<1>1. PICK D, g : /\ g = [i \in 0 .. Len(jobs) |-> Keeping(jobs, D, g, i)]
                  /\ JobsWithout(turn) = g[Len(jobs)]
  BY JobsWithoutLoop
<1> QED
  BY <1>1, KeepingOrdered

(* The bridge's worker takes an event: a sentence becomes a job unless its token is dead. *)
LEMMA SentenceTaken ==
    ASSUME NEW n \in Nat, BusShape(n), BridgeShape(n), BridgeHandles,
           NEW e, e = Head(queue["bridge"])
    PROVE  /\ UNCHANGED <<out, stream, synth, unsaid, playbackVars>>
           /\ queue["bridge"] \in Seq(Events(Turned(n))) /\ queue["bridge"] # <<>>
           /\ queue'["bridge"] = Tail(queue["bridge"])
           /\ \/ e.type # "LlmSentence" /\ jobs' = jobs
              \/ e.type = "LlmSentence" /\ jobs' = jobs /\ tokens'[e.turn] \in dead
              \/ /\ e.type = "LlmSentence"
                 /\ \E j \in JobsOf(Turned(n)) : /\ Mark(j) = Mark(e) /\ jobs' = Append(jobs, j)
                                                 /\ j.token = tokens'[e.turn]
              \/ e.type = "UserInterrupted" /\ jobs' = JobsWithout(e.turn)
<1>0. /\ queue["bridge"] # <<>> /\ queue' = [queue EXCEPT !["bridge"] = Tail(@)]
      /\ UNCHANGED <<out, stream>> /\ QueueShape(queue, n) /\ TokenShape(tokens, lastToken)
  BY DEF BridgeHandles, Receives, managerVars, BusShape, BridgeShape
<1>1. /\ queue["bridge"] \in Seq(Events(Turned(n))) /\ queue'["bridge"] = Tail(queue["bridge"])
  BY <1>0 DEF QueueShape, Subscribers
<1>2. e \in Events(Turned(n))
  BY <1>0, <1>1
<1>3. e.turn \in Turned(n) /\ e.seq \in Nat
  BY <1>2 DEF Events
<1>4. CASE e.type = "LlmStarted" /\ OnLlmStarted(e.turn)
  BY <1>0, <1>1, <1>4 DEF OnLlmStarted
<1>5. CASE e.type = "LlmFinished" /\ OnLlmFinished(e.turn)
  BY <1>0, <1>1, <1>5 DEF OnLlmFinished
<1>6. CASE e.type = "UserInterrupted" /\ OnUserInterrupted(e.turn)
  BY <1>0, <1>1, <1>6 DEF OnUserInterrupted
<1>7. CASE e.type = "LlmSentence" /\ OnLlmSentence(e.turn, e.seq)
  <2>1. tokens'[e.turn] \in Nat
    BY <1>0, <1>7, TokensTyped DEF OnLlmSentence
  <2>2. UNCHANGED <<synth, unsaid, playbackVars>>
    BY <1>7 DEF OnLlmSentence
  <2>3. CASE tokens'[e.turn] \in dead
    <3>1. jobs' = jobs
      BY <1>7, <2>3 DEF OnLlmSentence
    <3> QED
      BY <1>0, <1>1, <1>7, <2>2, <2>3, <3>1
  <2>4. CASE tokens'[e.turn] \notin dead
    <3> DEFINE j == [turn |-> e.turn, seq |-> e.seq, token |-> tokens'[e.turn]]
    <3>1. jobs' = Append(jobs, j)
      BY <1>7, <2>4 DEF OnLlmSentence
    <3>2. j \in JobsOf(Turned(n)) /\ Mark(j) = Mark(e) /\ j.token = tokens'[e.turn]
      BY <1>3, <2>1 DEF JobsOf, Mark
    <3> QED
      BY <1>0, <1>1, <1>7, <2>2, <3>1, <3>2
  <2> QED
    BY <2>3, <2>4
<1> QED
  BY <1>4, <1>5, <1>6, <1>7 DEF BridgeHandles, Next1

(* The I/O thread of the bridge. *)
LEMMA SentenceSynthesised ==
    ASSUME NEW n \in Nat, BridgeShape(n), PlayShape(n), Synthesis
    PROVE  /\ heard' = heard
           /\ \/ /\ jobs # <<>> /\ jobs' = Tail(jobs) /\ UNCHANGED <<chunks, unsaid>>
                 /\ WorkOf(synth) = {} /\ WorkOf(synth') = {Mark(Head(jobs))}
              \/ WorkOf(synth') = WorkOf(synth) /\ UNCHANGED <<jobs, chunks, unsaid>>
              \/ /\ WorkOf(synth') = {} /\ UNCHANGED <<jobs, chunks, unsaid>>
                 /\ synth.phase = "submit" /\ JobDead
              \/ \E x \in Turned(n) \X Nat :
                   /\ WorkOf(synth) = {x} /\ WorkOf(synth') = {} /\ unsaid' = unsaid \cup {x}
                   /\ UNCHANGED <<jobs, chunks>>
              \/ \E c \in ChunksOf(Turned(n), BOOLEAN) :
                   /\ UNCHANGED <<jobs, unsaid>> /\ chunks' = Append(chunks, c)
                   /\ WorkOf(synth) = (IF c.audio THEN {Mark(c)} ELSE {}) /\ WorkOf(synth') = {}
<1>0. SynthShape(synth, n) /\ jobs \in Seq(JobsOf(Turned(n)))
  BY DEF BridgeShape
<1>1. WorkOf(Resting) = {}
  BY DEF WorkOf, Resting
<1>2. ASSUME NEW j, NEW p
      PROVE  WorkOf([phase |-> p, job |-> <<j>>]) = IF p \in {"submit", "audio"} THEN {Mark(j)} ELSE {}
  <2>1. Range(<<j>>) = {j}
    BY DEF Range
  <2> QED
    BY <2>1 DEF WorkOf, Marks
<1>3. CASE TakeJob
  BY <1>1, <1>2, <1>3 DEF TakeJob, playbackVars, queueVars, engineVars
<1>4. ASSUME synth # Resting
      PROVE  \E j \in JobsOf(Turned(n)), p \in {"submit", "audio", "tail", "marker"} :
               /\ synth = [phase |-> p, job |-> <<j>>] /\ Job = j /\ synth.phase = p
               /\ \A q : [synth EXCEPT !.phase = q] = [phase |-> q, job |-> <<j>>]
               /\ \A audio, eos \in BOOLEAN : /\ Chunk(audio, eos) \in ChunksOf(Turned(n), BOOLEAN)
                                              /\ Chunk(audio, eos).audio = audio
                                              /\ Mark(Chunk(audio, eos)) = Mark(j)
               /\ Mark(j) \in Turned(n) \X Nat
  <2>1. PICK j \in JobsOf(Turned(n)), p \in {"submit", "audio", "tail", "marker"} :
          synth = [phase |-> p, job |-> <<j>>]
    BY <1>0, <1>4 DEF SynthShape
  <2>2. Job = j /\ synth.phase = p /\ \A q : [synth EXCEPT !.phase = q] = [phase |-> q, job |-> <<j>>]
    BY <2>1 DEF Job
  <2>3. ASSUME NEW audio \in BOOLEAN, NEW eos \in BOOLEAN
        PROVE  /\ Chunk(audio, eos) \in ChunksOf(Turned(n), BOOLEAN)
               /\ Chunk(audio, eos).audio = audio /\ Mark(Chunk(audio, eos)) = Mark(j)
    BY <2>2 DEF Chunk, ChunksOf, JobsOf, Mark
  <2>4. Mark(j) \in Turned(n) \X Nat
    BY DEF Mark, JobsOf
  <2> QED
    BY <2>1, <2>2, <2>3, <2>4
<1>5. CASE synth.phase # "idle" /\ ~TakeJob
  <2>1. synth # Resting
    BY <1>5 DEF Resting
  <2>2. PICK j \in JobsOf(Turned(n)), p \in {"submit", "audio", "tail", "marker"} :
               /\ synth = [phase |-> p, job |-> <<j>>] /\ Job = j /\ synth.phase = p
               /\ \A q : [synth EXCEPT !.phase = q] = [phase |-> q, job |-> <<j>>]
               /\ \A audio, eos \in BOOLEAN : /\ Chunk(audio, eos) \in ChunksOf(Turned(n), BOOLEAN)
                                              /\ Chunk(audio, eos).audio = audio
                                              /\ Mark(Chunk(audio, eos)) = Mark(j)
               /\ Mark(j) \in Turned(n) \X Nat
    BY <1>4, <2>1
  <2>3. PICK x \in Turned(n) \X Nat : x = Mark(j) /\ x = <<j.turn, j.seq>>
    BY <2>2 DEF Mark
  <2>4. WorkOf(synth) = IF p \in {"submit", "audio"} THEN {x} ELSE {}
    BY <1>2, <2>2, <2>3
  <2>5. ASSUME NEW q, To(q)
        PROVE  WorkOf(synth') = IF q \in {"submit", "audio"} THEN {x} ELSE {}
    <3>1. synth' = [phase |-> q, job |-> <<j>>]
      BY <2>2, <2>5 DEF To
    <3>2. WorkOf([phase |-> q, job |-> <<j>>]) = IF q \in {"submit", "audio"} THEN {Mark(j)} ELSE {}
      BY <1>2
    <3> QED
      BY <2>3, <3>1, <3>2
  <2>6. CASE JobDropped
    <3>1. WorkOf(synth') = {} /\ synth.phase = "submit" /\ JobDead
      BY <1>1, <2>6 DEF JobDropped
    <3>2. UNCHANGED <<jobs, chunks, unsaid, heard>>
      BY <2>6 DEF JobDropped, workerVars, playbackVars, queueVars, engineVars
    <3> QED
      BY <3>1, <3>2
  <2>7. CASE AudioArrives
    BY <2>2, <2>4, <2>5, <2>7 DEF AudioArrives, workerVars, playbackVars, queueVars, engineVars
  <2>8. CASE SynthesisFails
    BY <2>2, <2>3, <2>4, <2>5, <2>8 DEF SynthesisFails, Unsaid, playbackVars, queueVars, engineVars
  <2>9. CASE AudioQueued
    <3>1. /\ synth.phase = "audio" /\ WorkOf(synth) = {x} /\ WorkOf(synth') = {} /\ heard' = heard
          /\ jobs' = jobs
      BY <2>2, <2>4, <2>5, <2>9 DEF AudioQueued, Enqueue, engineVars
    <3>2. CASE HasRoom
      <4>1. unsaid' = unsaid /\ chunks' = Append(chunks, Chunk(TRUE, FALSE))
        BY <2>9, <3>2 DEF AudioQueued, Enqueue
      <4> QED
        BY <2>2, <2>3, <3>1, <4>1
    <3>3. CASE ~HasRoom
      <4>1. unsaid' = unsaid \cup {x} /\ chunks' = chunks
        BY <2>2, <2>3, <2>9, <3>3 DEF AudioQueued, Enqueue, Unsaid
      <4> QED
        BY <3>1, <4>1
    <3> QED
      BY <3>2, <3>3
  <2>10. CASE TailDropped
    <3>1. WorkOf(synth') = {} /\ WorkOf(synth) = {}
      BY <1>1, <2>2, <2>4, <2>10 DEF TailDropped
    <3>2. UNCHANGED <<jobs, chunks, unsaid, heard>>
      BY <2>10 DEF TailDropped, workerVars, playbackVars, queueVars, engineVars
    <3> QED
      BY <3>1, <3>2
  <2>11. CASE TailDue
    <3>1. WorkOf(synth') = {} /\ WorkOf(synth) = {}
      BY <2>2, <2>4, <2>5, <2>11 DEF TailDue
    <3>2. UNCHANGED <<jobs, chunks, unsaid, heard>>
      BY <2>11 DEF TailDue, workerVars, playbackVars, queueVars, engineVars
    <3> QED
      BY <3>1, <3>2
  <2>12. CASE MarkerQueued
    <3>1. /\ WorkOf(synth) = {} /\ WorkOf(synth') = {} /\ heard' = heard
          /\ jobs' = jobs /\ unsaid' = unsaid
      BY <1>1, <2>2, <2>4, <2>12 DEF MarkerQueued, EnqueueBlocking, engineVars, workerVars
    <3>2. chunks' = chunks \/ chunks' = Append(chunks, Chunk(FALSE, TRUE))
      BY <2>12 DEF MarkerQueued, EnqueueBlocking
    <3> QED
      BY <2>2, <3>1, <3>2
  <2> QED
    BY <1>5, <2>6, <2>7, <2>8, <2>9, <2>10, <2>11, <2>12 DEF Synthesis
<1> QED
  BY <1>3, <1>5 DEF Synthesis, JobDropped, AudioArrives, SynthesisFails, AudioQueued, TailDropped,
     TailDue, MarkerQueued

(* The playback. *)
LEMMA SentenceHeard ==
    ASSUME NEW n \in Nat, PlayShape(n), ClearChunks \/ Render
    PROVE  \/ heard' = heard /\ (chunks' = chunks \/ chunks' = <<>>)
           \/ \E i \in 1 .. Len(chunks) :
                /\ chunks' = SubSeq(chunks, i + 1, Len(chunks))
                /\ heard' = IF chunks[i].audio THEN Append(heard, Mark(chunks[i])) ELSE heard
<1>1. CASE ClearChunks
  BY <1>1 DEF ClearChunks, engineVars
<1>2. CASE ChunkConsumed \/ TurnPrimed
  BY <1>2 DEF ChunkConsumed, TurnPrimed, queueVars
<1>3. CASE NextChunk
  BY <1>3 DEF NextChunk, Live, Mark
<1> QED
  BY <1>1, <1>2, <1>3 DEF Render

(* Every step keeps the order. *)
LEMMA Ranked ==
    ASSUME NEW X, NEW K, NEW x \in X, NEW y \in X
    PROVE  <<x, y>> \in TurnOrder(X, K)
             <=> (x \in K /\ y \in K /\ Mark(x)[1] = Mark(y)[1] => Mark(x)[2] < Mark(y)[2])
  BY DEF TurnOrder, Mark

LEMMA Places ==
    /\ Line[1] = Range(heard) /\ Line[2] = AudioOf(chunks) /\ Line[3] = WorkOf(synth)
    /\ Line[4] = Marks(Range(jobs)) /\ Line[5] = SaidTo(queue["bridge"])
    /\ Line[6] = DueTo(out["llm"]) /\ Line[7] = ToCome(stream)
  BY DEF Line

LEMMA PlacesNext ==
    /\ Line'[1] = Range(heard') /\ Line'[2] = AudioOf(chunks') /\ Line'[3] = WorkOf(synth')
    /\ Line'[4] = Marks(Range(jobs')) /\ Line'[5] = SaidTo(queue'["bridge"])
    /\ Line'[6] = DueTo(out'["llm"]) /\ Line'[7] = ToCome(stream')
  BY DEF Line

(* The sorts of the things that are in order. *)
LEMMA Sorts ==
    ASSUME NEW n \in Nat
    PROVE  /\ ChunksOf(Turned(n), BOOLEAN) \subseteq ChunksOf(Nat, BOOLEAN)
           /\ JobsOf(Turned(n)) \subseteq JobsOf(Nat) /\ Events(Turned(n)) \subseteq Events(Nat)
           /\ Turned(n) \X Nat \subseteq Nat \X Nat
           /\ \A e \in Events(Nat) : e.type = "LlmSentence" <=> e \in Sentences(Nat)
           /\ \A e \in Others(Turned(n)) : e \in Events(Nat) /\ e \notin Sentences(Nat)
<1>1. Turned(n) \subseteq Nat
  BY DEF Turned
<1> QED
  BY <1>1 DEF ChunksOf, JobsOf, Events, Sentences, Others

(* The stream says a sentence. *)
LEMMA OrderWhenSaid ==
    ASSUME NEW n \in Nat, BusShape(n), StreamShape(stream, n), InOrder, LlmSays
    PROVE  InOrder'
<1>1. PICK x : x = <<stream.turn, stream.seq>>
  OBVIOUS
<1>2. /\ x \in ToCome(stream)
      /\ DueTo(out["llm"]) = {} /\ DueTo(out'["llm"]) = {x}
      /\ ToCome(stream') \subseteq ToCome(stream) /\ Before({x}, ToCome(stream'))
      /\ UNCHANGED <<bridgeVars, playbackVars, queue>>
  BY <1>1, SentenceSaid
<1>3. UNCHANGED <<heard, chunks, synth, jobs, queue>>
  BY <1>2 DEF bridgeVars, workerVars, playbackVars, engineVars, queueVars
<1>4. PICK L, M : L = Line /\ M = Line'
  OBVIOUS
<1>5. /\ x \in L[6 + 1] /\ Before({x}, M[6 + 1])
      /\ \A i \in 1 .. 7 : M[i] \subseteq L[i] \/ (i = 6 /\ M[i] \subseteq L[i] \cup {x})
  BY <1>2, <1>3, <1>4, Places, PlacesNext
<1>6. InLine(M)
  BY <1>4, <1>5, OneMoves DEF InOrder
<1> QED
  BY <1>3, <1>4, <1>6 DEF InOrder

(* One push. *)
LEMMA OrderWhenPushed ==
    ASSUME NEW n \in Nat, BusShape(n), InOrder, NEW t \in Publishers, Deliver(t)
    PROVE  InOrder'
<1>1. /\ UNCHANGED <<heard, chunks, synth, jobs, stream>>
      /\ queue["bridge"] \in Seq(Events(Turned(n)))
  BY SentencePushed DEF bridgeVars, workerVars, playbackVars, engineVars, queueVars
<1>2. PICK L, M : L = Line /\ M = Line'
  OBVIOUS
<1>3. InLine(L) /\ Ordered(queue["bridge"], EventOrder)
  BY <1>2 DEF InOrder
<1>4. SUFFICES InLine(M) /\ Ordered(queue'["bridge"], EventOrder)
  BY <1>1, <1>2 DEF InOrder
<1>5. queue["bridge"] \in Seq(Events(Nat))
  BY <1>1, Sorts, SeqGrows
<1>6. \A y \in Range(queue["bridge"]) : y \in Events(Nat)
  BY <1>5 DEF Range
<1>7. CASE queue'["bridge"] = queue["bridge"] /\ DueTo(out'["llm"]) = DueTo(out["llm"])
  <2>1. \A i \in 1 .. 7 : M[i] = L[i]
    BY <1>1, <1>2, <1>7, Places, PlacesNext
  <2>2. InLine(M)
    BY <1>3, <2>1, NoneMoves
  <2> QED
    BY <1>3, <1>7, <2>2
<1>8. ASSUME NEW e \in Others(Turned(n)), queue'["bridge"] = Append(queue["bridge"], e),
             DueTo(out'["llm"]) = DueTo(out["llm"])
      PROVE  InLine(M) /\ Ordered(queue'["bridge"], EventOrder)
  <2>1. e \in Events(Nat) /\ e \notin Sentences(Nat) /\ e.type # "LlmSentence"
    <3>1. e.type # "LlmSentence"
      BY DEF Others
    <3> QED
      BY <3>1, Sorts
  <2>2. SaidTo(queue'["bridge"]) = SaidTo(queue["bridge"])
    <3>1. PICK q \in Seq(Events(Nat)) : q = queue["bridge"]
      BY <1>5
    <3>2. SaidTo(Append(q, e)) = SaidTo(q) \cup (IF e.type = "LlmSentence" THEN {Mark(e)} ELSE {})
      BY <2>1, MarksAppended
    <3> QED
      BY <1>8, <2>1, <3>1, <3>2
  <2>3. \A i \in 1 .. 7 : M[i] = L[i]
    BY <1>1, <1>2, <1>8, <2>2, Places, PlacesNext
  <2>4. InLine(M)
    BY <1>3, <2>3, NoneMoves
  <2>5. \A y \in Range(queue["bridge"]) : <<y, e>> \in EventOrder
    BY <1>6, <2>1, Ranked DEF EventOrder
  <2> QED
    BY <1>3, <1>5, <1>8, <2>1, <2>4, <2>5, AppendOrdered
<1>9. ASSUME NEW e \in Events(Turned(n)), queue'["bridge"] = Append(queue["bridge"], e),
             DueTo(out'["llm"]) = {},
             DueTo(out["llm"]) = IF e.type = "LlmSentence" THEN {Mark(e)} ELSE {}
      PROVE  InLine(M) /\ Ordered(queue'["bridge"], EventOrder)
  <2>0. e \in Events(Nat) /\ (e.type = "LlmSentence" <=> e \in Sentences(Nat))
    BY Sorts
  <2>1. SaidTo(queue'["bridge"]) = SaidTo(queue["bridge"]) \cup
          (IF e.type = "LlmSentence" THEN {Mark(e)} ELSE {})
    BY <1>5, <1>9, <2>0, MarksAppended
  <2>2. /\ M[6] = {} /\ M[5] = L[5] \cup L[6]
        /\ M[1] = L[1] /\ M[2] = L[2] /\ M[3] = L[3] /\ M[4] = L[4] /\ M[7] = L[7]
        /\ L[6] = IF e.type = "LlmSentence" THEN {Mark(e)} ELSE {}
    BY <1>1, <1>2, <1>9, <2>1, Places, PlacesNext
  <2>3. InLine(M)
    <3>1. CASE e.type = "LlmSentence"
      <4>1. PICK x : x = Mark(e)
        OBVIOUS
      <4>2. x \in L[5 + 1] /\ Before({x}, M[5 + 1])
        BY <2>2, <3>1, <4>1 DEF Before
      <4>3. \A i \in 1 .. 7 : M[i] \subseteq L[i] \/ (i = 5 /\ M[i] \subseteq L[i] \cup {x})
        BY <2>2, <3>1, <4>1
      <4> QED
        BY <1>3, <4>2, <4>3, OneMoves
    <3>2. CASE e.type # "LlmSentence"
      <4>1. \A i \in 1 .. 7 : M[i] \subseteq L[i]
        BY <2>2, <3>2
      <4> QED
        BY <1>3, <4>1, NoneMoves
    <3> QED
      BY <3>1, <3>2
  <2>4. ASSUME NEW y \in Range(queue["bridge"]) PROVE <<y, e>> \in EventOrder
    <3>1. y \in Events(Nat) /\ (y.type = "LlmSentence" <=> y \in Sentences(Nat))
      BY <1>6, Sorts
    <3>2. Before(L[5], L[6])
      BY <1>3 DEF InLine
    <3>3. y \in Sentences(Nat) => Mark(y) \in L[5]
      BY <1>2, <3>1, Places DEF SaidTo, Marks
    <3>4. e \in Sentences(Nat) => Mark(e) \in L[6]
      BY <2>0, <2>2
    <3> QED
      BY <2>0, <3>1, <3>2, <3>3, <3>4, Ranked DEF EventOrder, Before
  <2> QED
    BY <1>3, <1>5, <1>9, <2>0, <2>3, <2>4, AppendOrdered
<1> QED
  BY <1>7, <1>8, <1>9, SentencePushed

(* The bridge's worker. *)
LEMMA OrderWhenTaken ==
    ASSUME NEW n \in Nat, BusShape(n), BridgeShape(n), InOrder, BridgeHandles
    PROVE  InOrder'
<1>0. PICK e, q : q = queue["bridge"] /\ e = Head(q)
  OBVIOUS
<1>1. /\ UNCHANGED <<heard, chunks, synth, out, stream>> /\ jobs \in Seq(JobsOf(Turned(n)))
      /\ q \in Seq(Events(Turned(n))) /\ q # <<>> /\ queue'["bridge"] = Tail(q)
  BY <1>0, SentenceTaken DEF playbackVars, engineVars, queueVars, BridgeShape
<1>2. PICK L, M : L = Line /\ M = Line'
  OBVIOUS
<1>3. InLine(L) /\ Ordered(q, EventOrder) /\ Ordered(jobs, JobOrder)
  BY <1>0, <1>2 DEF InOrder
<1>4. /\ Tail(q) \in Seq(Events(Turned(n))) /\ Ordered(Tail(q), EventOrder)
      /\ \A y \in Range(Tail(q)) : <<e, y>> \in EventOrder /\ y \in Events(Nat)
      /\ e \in Events(Nat) /\ (e.type = "LlmSentence" <=> e \in Sentences(Nat))
  <2>1. Tail(q) \in Seq(Events(Turned(n))) /\ e \in Events(Turned(n))
    BY <1>0, <1>1
  <2>2. \A y \in Range(Tail(q)) : y \in Events(Nat)
    BY <2>1, Sorts DEF Range
  <2> QED
    BY <1>0, <1>1, <1>3, <2>1, <2>2, TailOrdered, Sorts
<1>5. SUFFICES InLine(M) /\ Ordered(jobs', JobOrder)
  BY <1>1, <1>2, <1>4 DEF InOrder
<1>6. SaidTo(q) = SaidTo(Tail(q)) \cup (IF e.type = "LlmSentence" THEN {Mark(e)} ELSE {})
  BY <1>0, <1>1, MarksTaken
<1>7. /\ M[1] = L[1] /\ M[2] = L[2] /\ M[3] = L[3] /\ M[6] = L[6] /\ M[7] = L[7]
      /\ M[5] = SaidTo(Tail(q)) /\ L[5] = SaidTo(q) /\ M[4] = Marks(Range(jobs'))
      /\ L[4] = Marks(Range(jobs))
  BY <1>0, <1>1, <1>2, Places, PlacesNext
<1>8. ASSUME Range(jobs') \subseteq Range(jobs) PROVE InLine(M)
  <2>1. M[4] \subseteq L[4]
    BY <1>7, <1>8 DEF Marks
  <2>2. \A i \in 1 .. 7 : M[i] \subseteq L[i]
    BY <1>6, <1>7, <2>1
  <2> QED
    BY <1>3, <2>2, NoneMoves
<1>9. CASE jobs' = jobs
  BY <1>3, <1>8, <1>9
<1>10. CASE jobs' = JobsWithout(e.turn)
  <2>1. Ordered(jobs', JobOrder) /\ Range(jobs') \subseteq Range(jobs)
    BY <1>1, <1>3, <1>10, JobsWithoutOrder
  <2> QED
    BY <1>8, <2>1
<1>11. ASSUME e.type = "LlmSentence", NEW j \in JobsOf(Turned(n)), Mark(j) = Mark(e),
              jobs' = Append(jobs, j)
       PROVE  InLine(M) /\ Ordered(jobs', JobOrder)
  <2>1. PICK x : x = Mark(e)
    OBVIOUS
  <2>2. x \in L[4 + 1]
    BY <1>6, <1>7, <1>11, <2>1
  <2>3. Before({x}, M[4 + 1])
    <3>1. ASSUME NEW m \in SaidTo(Tail(q)), x[1] = m[1] PROVE x[2] < m[2]
      <4>1. PICK y \in Range(Tail(q)) : y.type = "LlmSentence" /\ m = Mark(y)
        BY DEF SaidTo, Marks
      <4>2. y \in Events(Nat) /\ y \in Sentences(Nat) /\ e \in Sentences(Nat)
        BY <1>4, <1>11, <4>1, Sorts
      <4>3. <<e, y>> \in TurnOrder(Events(Nat), Sentences(Nat))
        BY <1>4, <4>1 DEF EventOrder
      <4> QED
        BY <1>4, <2>1, <3>1, <4>1, <4>2, <4>3, Ranked
    <3> QED
      BY <1>7, <3>1 DEF Before
  <2>4. M[4] = L[4] \cup {x}
    BY <1>1, <1>7, <1>11, <2>1, MarksAppended
  <2>5. \A i \in 1 .. 7 : M[i] \subseteq L[i] \/ (i = 4 /\ M[i] \subseteq L[i] \cup {x})
    BY <1>6, <1>7, <2>4
  <2>6. InLine(M)
    <3>1. PICK k \in 1 .. 6 : k = 4
      OBVIOUS
    <3>2. x \in L[k + 1] /\ Before({x}, M[k + 1])
      BY <2>2, <2>3, <3>1
    <3>3. \A i \in 1 .. 7 : M[i] \subseteq L[i] \/ (i = k /\ M[i] \subseteq L[i] \cup {x})
      BY <2>5, <3>1
    <3> HIDE <3>1
    <3> QED
      BY <1>3, <3>2, <3>3, OneMoves
  <2>7. ASSUME NEW i \in Range(jobs) PROVE <<i, j>> \in JobOrder
    <3>1. i \in JobsOf(Nat) /\ j \in JobsOf(Nat)
      BY <1>1, Sorts DEF Range
    <3>2. Mark(i) \in L[4]
      BY <1>7 DEF Marks
    <3>3. Before(L[4], L[5])
      BY <1>3 DEF InLine
    <3>4. x \in L[5]
      BY <2>2
    <3>5. Mark(i)[1] = Mark(j)[1] => Mark(i)[2] < Mark(j)[2]
      BY <1>11, <2>1, <3>2, <3>3, <3>4 DEF Before
    <3> QED
      BY <3>1, <3>5, Ranked DEF JobOrder
  <2> QED
    BY <1>1, <1>3, <1>11, <2>6, <2>7, AppendOrdered
<1> QED
  BY <1>0, <1>9, <1>10, <1>11, SentenceTaken

(* The I/O thread of the bridge. *)
LEMMA OrderWhenSynthesised ==
    ASSUME NEW n \in Nat, BridgeShape(n), PlayShape(n), HeardShape(n), InOrder, Synthesis,
           UNCHANGED <<queue, out, stream>>
    PROVE  InOrder' /\ HeardShape(n)'
<1>0. PICK T, Ch : T = JobsOf(Turned(n)) /\ Ch = ChunksOf(Turned(n), BOOLEAN)
  OBVIOUS
<1>1. heard' = heard /\ jobs \in Seq(T) /\ chunks \in Seq(Ch)
  BY <1>0, SentenceSynthesised DEF BridgeShape, PlayShape
<1>2. PICK L, M : L = Line /\ M = Line'
  OBVIOUS
<1>3. InLine(L) /\ Ordered(jobs, JobOrder) /\ Ordered(chunks, ChunkOrder)
  BY <1>2 DEF InOrder
<1>4. SUFFICES /\ InLine(M) /\ Ordered(jobs', JobOrder) /\ Ordered(chunks', ChunkOrder)
               /\ unsaid' \in SUBSET (Turned(n) \X Nat)
  BY <1>1, <1>2 DEF InOrder, HeardShape
<1>5. unsaid \in SUBSET (Turned(n) \X Nat)
  BY DEF HeardShape
<1>6. /\ M[1] = L[1] /\ M[5] = L[5] /\ M[6] = L[6] /\ M[7] = L[7]
      /\ L[2] = AudioOf(chunks) /\ M[2] = AudioOf(chunks')
      /\ L[3] = WorkOf(synth) /\ M[3] = WorkOf(synth')
      /\ L[4] = Marks(Range(jobs)) /\ M[4] = Marks(Range(jobs'))
  BY <1>1, <1>2, Places, PlacesNext
<1>7. CASE /\ jobs # <<>> /\ jobs' = Tail(jobs) /\ UNCHANGED <<chunks, unsaid>>
           /\ WorkOf(synth) = {} /\ WorkOf(synth') = {Mark(Head(jobs))}
  <2>0. PICK j \in T : j = Head(jobs)
    BY <1>1, <1>7
  <2>1. PICK x : j = Head(jobs) /\ x = Mark(j)
    BY <2>0
  <2>2. L[4] = {x} \cup M[4]
    BY <1>1, <1>6, <1>7, <2>1, MarksTaken
  <2>3. Ordered(jobs', JobOrder) /\ \A i \in Range(jobs') : <<j, i>> \in JobOrder
    BY <1>1, <1>3, <1>7, <2>1, TailOrdered
  <2>4. Before({x}, M[3 + 1])
    <3>1. ASSUME NEW m \in Marks(Range(jobs')), x[1] = m[1] PROVE x[2] < m[2]
      <4>1. PICK i \in Range(jobs') : m = Mark(i)
        BY DEF Marks
      <4>2. jobs' \in Seq(T)
        BY <1>1, <1>7
      <4>3. i \in JobsOf(Nat) /\ j \in JobsOf(Nat)
        BY <1>0, <4>2, Sorts DEF Range
      <4>4. <<j, i>> \in TurnOrder(JobsOf(Nat), JobsOf(Nat))
        BY <2>3 DEF JobOrder
      <4> QED
        BY <2>1, <3>1, <4>1, <4>3, <4>4, Ranked
    <3> QED
      BY <1>6, <3>1 DEF Before
  <2>5. /\ x \in L[3 + 1]
        /\ \A i \in 1 .. 7 : M[i] \subseteq L[i] \/ (i = 3 /\ M[i] \subseteq L[i] \cup {x})
    BY <1>6, <1>7, <2>1, <2>2
  <2>6. InLine(M)
    BY <1>3, <2>4, <2>5, OneMoves
  <2> QED
    BY <1>3, <1>5, <1>7, <2>3, <2>6
<1>8. CASE WorkOf(synth') \subseteq WorkOf(synth) /\ UNCHANGED <<jobs, chunks>>
  <2>1. \A i \in 1 .. 7 : M[i] \subseteq L[i]
    BY <1>6, <1>8
  <2>2. InLine(M)
    BY <1>3, <2>1, NoneMoves
  <2> QED
    BY <1>3, <1>5, <1>8, <2>2, SentenceSynthesised
<1>9. ASSUME NEW c \in ChunksOf(Turned(n), BOOLEAN),
             UNCHANGED <<jobs, unsaid>>, chunks' = Append(chunks, c),
             WorkOf(synth) = (IF c.audio THEN {Mark(c)} ELSE {}), WorkOf(synth') = {}
      PROVE  InLine(M) /\ Ordered(jobs', JobOrder) /\ Ordered(chunks', ChunkOrder)
  <2>1. M[2] = L[2] \cup L[3] /\ M[3] = {} /\ M[4] = L[4]
    BY <1>0, <1>1, <1>6, <1>9, MarksAppended
  <2>2. InLine(M)
    <3>1. CASE c.audio
      <4>1. PICK x : x = Mark(c)
        OBVIOUS
      <4>2. PICK k \in 1 .. 6 : k = 2
        OBVIOUS
      <4>3. x \in L[k + 1] /\ Before({x}, M[k + 1])
        BY <1>6, <1>9, <2>1, <3>1, <4>1, <4>2 DEF Before
      <4>4. \A i \in 1 .. 7 : M[i] \subseteq L[i] \/ (i = k /\ M[i] \subseteq L[i] \cup {x})
        BY <1>6, <1>9, <2>1, <3>1, <4>1, <4>2
      <4> QED
        BY <1>3, <4>3, <4>4, OneMoves
    <3>2. CASE ~c.audio
      <4>1. \A i \in 1 .. 7 : M[i] \subseteq L[i]
        BY <1>6, <1>9, <2>1, <3>2
      <4> QED
        BY <1>3, <4>1, NoneMoves
    <3> QED
      BY <3>1, <3>2
  <2>3. ASSUME NEW b \in Range(chunks) PROVE <<b, c>> \in ChunkOrder
    <3>1. b \in ChunksOf(Nat, BOOLEAN) /\ c \in ChunksOf(Nat, BOOLEAN)
      BY <1>0, <1>1, Sorts DEF Range
    <3>2. b.audio => Mark(b) \in L[2]
      BY <1>6 DEF AudioOf, Marks
    <3>3. c.audio => Mark(c) \in L[3]
      BY <1>6, <1>9
    <3>4. Before(L[2], L[3])
      BY <1>3 DEF InLine
    <3> QED
      BY <3>1, <3>2, <3>3, <3>4, Ranked DEF ChunkOrder, Before
  <2> QED
    BY <1>0, <1>1, <1>3, <1>9, <2>2, <2>3, AppendOrdered
<1> QED
  BY <1>5, <1>7, <1>8, <1>9, SentenceSynthesised

(* The playback begins a chunk, drops stale ones or is cleared. *)
LEMMA OrderWhenHeard ==
    ASSUME NEW n \in Nat, PlayShape(n), HeardShape(n), InOrder, ClearChunks \/ Render,
           UNCHANGED <<queue, out, stream, jobs, synth, unsaid>>
    PROVE  InOrder' /\ HeardShape(n)'
<1>0. PICK Ch : Ch = ChunksOf(Turned(n), BOOLEAN)
  OBVIOUS
<1>1. chunks \in Seq(Ch) /\ heard \in Seq(Turned(n) \X Nat)
  BY <1>0 DEF PlayShape, HeardShape
<1>2. PICK L, M : L = Line /\ M = Line'
  OBVIOUS
<1>3. InLine(L) /\ Ordered(heard, HeardOrder) /\ Ordered(chunks, ChunkOrder)
  BY <1>2 DEF InOrder
<1>4. SUFFICES /\ InLine(M) /\ Ordered(heard', HeardOrder) /\ Ordered(chunks', ChunkOrder)
               /\ heard' \in Seq(Turned(n) \X Nat)
  BY <1>2 DEF InOrder, HeardShape
<1>5. /\ M[3] = L[3] /\ M[4] = L[4] /\ M[5] = L[5] /\ M[6] = L[6] /\ M[7] = L[7]
      /\ L[1] = Range(heard) /\ M[1] = Range(heard')
      /\ L[2] = AudioOf(chunks) /\ M[2] = AudioOf(chunks')
  BY <1>2, Places, PlacesNext
<1>6. CASE heard' = heard /\ (chunks' = chunks \/ chunks' = <<>>)
  <2>1. AudioOf(<<>>) = {} /\ Ordered(<<>>, ChunkOrder)
    BY DEF AudioOf, Marks, Range, Ordered
  <2>2. \A i \in 1 .. 7 : M[i] \subseteq L[i]
    BY <1>5, <1>6, <2>1
  <2>3. InLine(M)
    BY <1>3, <2>2, NoneMoves
  <2> QED
    BY <1>1, <1>3, <1>6, <2>1, <2>3
<1>7. ASSUME NEW i \in 1 .. Len(chunks), chunks' = SubSeq(chunks, i + 1, Len(chunks)),
             heard' = IF chunks[i].audio THEN Append(heard, Mark(chunks[i])) ELSE heard
      PROVE  /\ InLine(M) /\ Ordered(heard', HeardOrder) /\ Ordered(chunks', ChunkOrder)
             /\ heard' \in Seq(Turned(n) \X Nat)
  <2>0. PICK c, r : c = chunks[i] /\ r = chunks'
    OBVIOUS
  <2>1. /\ r \in Seq(Ch) /\ Ordered(r, ChunkOrder) /\ Range(r) \subseteq Range(chunks)
        /\ c \in Range(chunks) /\ \A d \in Range(r) : <<c, d>> \in ChunkOrder
    <3>1. r = SubSeq(chunks, i + 1, Len(chunks))
      BY <1>7, <2>0
    <3>2. /\ r \in Seq(Ch) /\ Ordered(r, ChunkOrder) /\ Range(r) \subseteq Range(chunks)
          /\ c \in Range(chunks) /\ \A d \in Range(r) : <<c, d>> \in ChunkOrder
      <4>1. i \in DOMAIN chunks
        BY <1>1
      <4> QED
        BY <1>1, <1>3, <2>0, <3>1, <4>1, SuffixOrdered
    <3> QED
      BY <2>0, <3>2
  <2>2. c \in Ch /\ \A d \in Range(chunks) : d \in Ch
    BY <1>1, <2>1 DEF Range
  <2>3. M[2] \subseteq L[2]
    BY <1>5, <2>0, <2>1 DEF AudioOf, Marks
  <2>4. CASE c.audio
    <3>1. PICK x : x = Mark(c)
      OBVIOUS
    <3>2. x \in Turned(n) \X Nat /\ x \in L[2]
      BY <1>0, <1>5, <2>1, <2>2, <2>4, <3>1 DEF Mark, ChunksOf, AudioOf, Marks
    <3>3. heard' = Append(heard, x)
      BY <1>7, <2>0, <2>4, <3>1
    <3>4. Range(heard') = Range(heard) \cup {x} /\ heard' \in Seq(Turned(n) \X Nat)
      BY <1>1, <3>2, <3>3, AppendElems, SMTT(60)
    <3>5. Before({x}, M[2])
      <4>1. ASSUME NEW m \in AudioOf(r), x[1] = m[1] PROVE x[2] < m[2]
        <5>1. PICK d \in Range(r) : d.audio /\ m = Mark(d)
          BY DEF AudioOf, Marks
        <5>2. c \in ChunksOf(Nat, BOOLEAN) /\ d \in ChunksOf(Nat, BOOLEAN)
          BY <1>0, <2>1, <2>2, Sorts
        <5>3. <<c, d>> \in ChunkOrder
          BY <2>1
        <5> QED
          BY <2>4, <3>1, <4>1, <5>1, <5>2, <5>3, Ranked DEF ChunkOrder
      <4> QED
        BY <1>5, <2>0, <4>1 DEF Before
    <3>6. PICK k \in 1 .. 6 : k = 1
      OBVIOUS
    <3>7. x \in L[k + 1] /\ Before({x}, M[k + 1])
      BY <3>2, <3>5, <3>6
    <3>8. \A j \in 1 .. 7 : M[j] \subseteq L[j] \/ (j = k /\ M[j] \subseteq L[j] \cup {x})
      BY <1>5, <2>3, <3>4, <3>6
    <3>9. InLine(M)
      BY <1>3, <3>7, <3>8, OneMoves
    <3>10. ASSUME NEW y \in Range(heard) PROVE <<y, x>> \in HeardOrder
      <4>1. y \in Nat \X Nat /\ x \in Nat \X Nat
        BY <1>1, <3>2, Sorts DEF Range
      <4>2. Before(L[1], L[2]) /\ y \in L[1]
        BY <1>3, <1>5 DEF InLine
      <4> QED
        BY <3>2, <4>1, <4>2 DEF HeardOrder, Before
    <3>11. Ordered(heard', HeardOrder)
      BY <1>1, <1>3, <3>2, <3>3, <3>10, AppendOrdered
    <3> QED
      BY <2>0, <2>1, <3>4, <3>9, <3>11
  <2>5. CASE ~c.audio
    <3>1. heard' = heard
      BY <1>7, <2>0, <2>5
    <3>2. \A j \in 1 .. 7 : M[j] \subseteq L[j]
      BY <1>5, <2>3, <3>1
    <3>3. InLine(M)
      BY <1>3, <3>2, NoneMoves
    <3> QED
      BY <1>1, <1>3, <2>0, <2>1, <3>1, <3>3
  <2> QED
    BY <2>4, <2>5
<1> QED
  BY <1>6, <1>7, SentenceHeard

(* The other steps: at most the stream goes on or a new one is opened. *)
LEMMA OrderAside ==
    ASSUME InOrder, UNCHANGED <<heard, chunks, synth, jobs>>,
           queue'["bridge"] = queue["bridge"], DueTo(out'["llm"]) \subseteq DueTo(out["llm"]),
           \/ ToCome(stream') \subseteq ToCome(stream)
           \/ Untouched(stream'.turn)
    PROVE  InOrder'
<1>1. PICK L, M : L = Line /\ M = Line'
  OBVIOUS
<1>2. InLine(L)
  BY <1>1 DEF InOrder
<1>3. \A i \in 1 .. 6 : M[i] \subseteq L[i]
  BY <1>1, Places, PlacesNext
<1>4. L[7] = ToCome(stream) /\ M[7] = ToCome(stream')
  BY <1>1, Places, PlacesNext
<1>5. CASE ToCome(stream') \subseteq ToCome(stream)
  <2>1. \A i \in 1 .. 7 : M[i] \subseteq L[i]
    BY <1>3, <1>4, <1>5
  <2>2. InLine(M)
    BY <1>2, <2>1, NoneMoves
  <2> QED
    BY <1>1, <2>2 DEF InOrder
<1>6. CASE Untouched(stream'.turn)
  <2>1. PICK t : t = stream'.turn
    OBVIOUS
  <2>2. Lacks(L, t)
    BY <1>1, <1>6, <2>1 DEF Untouched
  <2>3. \A m \in M[7] : m[1] = t
    BY <1>4, <2>1 DEF ToCome
  <2>4. InLine(M)
    BY <1>2, <1>3, <2>2, <2>3, OneStarts
  <2> QED
    BY <1>1, <2>4 DEF InOrder
<1> QED
  BY <1>5, <1>6

(* FSM, microphone, detector and Manager. *)
LEMMA OrderElsewhere ==
    ASSUME NEW n \in Nat, n = nextTurn, BusShape(n), StreamShape(stream, n), HeardShape(n), InOrder,
           ManagerAdopts => Untouched(stream'.turn),
           \/ UserBegins \/ UserEnds \/ Transcribed \/ LineTyped \/ SummaryFinishes
           \/ BargeInFires \/ BargeInSuppressed \/ FsmGoesOn \/ FsmHandles
           \/ ManagerHandles \/ ManagerTakes \/ ManagerAdopts \/ ManagerReturns
           \/ ManagerActivates \/ LlmFinishes
    PROVE  InOrder' /\ HeardShape(n)'
<1>0. DOMAIN out = Publishers /\ DOMAIN queue = Subscribers
  BY DEF BusShape, OutShape, QueueShape
<1>1. UNCHANGED <<heard, chunks, synth, jobs, unsaid>>
  BY DEF UserBegins, UserEnds, Transcribed, LineTyped, SummaryFinishes, BargeInFires,
     BargeInSuppressed, FsmGoesOn, FsmHandles, ManagerHandles, ManagerTakes, ManagerAdopts,
     ManagerReturns, ManagerActivates, LlmFinishes, playbackVars, engineVars, queueVars, bridgeVars,
     workerVars
<1>2. queue'["bridge"] = queue["bridge"]
  BY <1>0 DEF UserBegins, UserEnds, Transcribed, LineTyped, SummaryFinishes, BargeInFires,
     BargeInSuppressed, FsmGoesOn, FsmHandles, ManagerHandles, ManagerTakes, ManagerAdopts,
     ManagerReturns, ManagerActivates, LlmFinishes, busVars, Receives, Subscribers
<1>3. DueTo(out'["llm"]) \subseteq DueTo(out["llm"])
  <2>1. CASE ManagerActivates \/ LlmFinishes
    <3>1. PICK e \in Events(Turned(n)) : e.type \in {"LlmStarted", "LlmFinished"} /\ Publish("llm", e)
      <4>1. stream.turn \in Turned(n) /\ 0 \in Nat
        BY DEF StreamShape
      <4>2. /\ Event("LlmStarted", stream.turn, 0) \in Events(Turned(n))
            /\ Event("LlmFinished", stream.turn, 0) \in Events(Turned(n))
            /\ Event("LlmStarted", stream.turn, 0).type = "LlmStarted"
            /\ Event("LlmFinished", stream.turn, 0).type = "LlmFinished"
        BY <4>1 DEF Event, Events, EventTypes
      <4> QED
        BY <2>1, <4>2 DEF ManagerActivates, LlmFinishes
    <3>2. out'["llm"] = Deliveries(e)
      BY <1>0, <3>1 DEF Publish, Publishers
    <3>3. Deliveries(e) \in {<<Push("bridge", e)>>, <<Push("fsm", e), Push("bridge", e)>>}
      BY <3>1, DeliveriesAre
    <3>4. Push("bridge", e).event = e /\ Push("fsm", e).event = e
      BY DEF Push
    <3>5. Head(out'["llm"]).event = e
      BY <3>2, <3>3, <3>4, TailOfTwo
    <3>6. DueTo(out'["llm"]) = {}
      BY <3>1, <3>5 DEF DueTo
    <3> QED
      BY <3>6
  <2>2. CASE ~(ManagerActivates \/ LlmFinishes)
    <3>1. out'["llm"] = out["llm"]
      BY <1>0, <2>2 DEF UserBegins, UserEnds, Transcribed, LineTyped, SummaryFinishes, BargeInFires,
        BargeInSuppressed, FsmGoesOn, FsmHandles, ManagerHandles, ManagerTakes, ManagerAdopts,
        ManagerReturns, busVars, Publish, Publishers
    <3> QED
      BY <3>1
  <2> QED
    BY <2>1, <2>2
<1>4. \/ ToCome(stream') \subseteq ToCome(stream)
      \/ Untouched(stream'.turn)
  <2>1. CASE ManagerAdopts
    BY <2>1
  <2>2. CASE ManagerActivates
    BY <2>2 DEF ManagerActivates, ActivateTurn, ToCome, StreamShape
  <2>3. CASE LlmFinishes
    BY <2>3 DEF LlmFinishes, FinishStream, ToCome, StreamShape
  <2>4. CASE ManagerReturns
    BY <2>4 DEF ManagerReturns, RunOneReturns, ToCome, NoStream
  <2>5. CASE ManagerTakes
    BY <2>5 DEF ManagerTakes, TakeTranscript, ToCome, StreamShape
  <2>6. CASE ~(ManagerAdopts \/ ManagerActivates \/ LlmFinishes \/ ManagerReturns \/ ManagerTakes)
    <3>1. stream' = stream
      BY <2>6 DEF UserBegins, UserEnds, Transcribed, LineTyped, SummaryFinishes, BargeInFires,
        BargeInSuppressed, FsmGoesOn, FsmHandles, ManagerHandles, EnqueueTurn, CancelActive,
        managerVars
    <3> QED
      BY <3>1
  <2> QED
    BY <2>1, <2>2, <2>3, <2>4, <2>5, <2>6
<1>5. InOrder'
  BY <1>1, <1>2, <1>3, <1>4, OrderAside
<1> QED
  BY <1>1, <1>5 DEF HeardShape

(* Whatever thread moves. *)
LEMMA OrderStep ==
    ASSUME NEW n \in Nat, n = nextTurn, BusShape(n), BridgeShape(n), PlayShape(n),
           StreamShape(stream, n), HeardShape(n), InOrder, [PipelineNext]_pipelineVars,
           ManagerAdopts => Untouched(stream'.turn)
    PROVE  InOrder' /\ HeardShape(n)'
<1>1. CASE LlmSays
  <2>1. UNCHANGED <<heard, unsaid>>
    BY <1>1 DEF LlmSays, bridgeVars, workerVars, playbackVars, engineVars
  <2> QED
    BY <1>1, <2>1, OrderWhenSaid DEF HeardShape
<1>2. ASSUME NEW t \in Publishers, Deliver(t) PROVE InOrder' /\ HeardShape(n)'
  <2>1. UNCHANGED <<heard, unsaid>>
    BY <1>2 DEF Deliver, bridgeVars, workerVars, playbackVars, engineVars
  <2> QED
    BY <1>2, <2>1, OrderWhenPushed DEF HeardShape
<1>3. CASE BridgeHandles
  <2>1. UNCHANGED <<heard, unsaid>>
    <3>1. PICK e : e = Head(queue["bridge"])
      OBVIOUS
    <3> QED
      BY <1>3, <3>1, SentenceTaken DEF playbackVars, engineVars
  <2> QED
    BY <1>3, <2>1, OrderWhenTaken DEF HeardShape
<1>4. CASE BridgeOrPlayback
  <2>0. UNCHANGED <<queue, out, stream>>
    BY <1>4 DEF BridgeOrPlayback, busVars, managerVars
  <2>1. CASE Synthesis
    BY <2>0, <2>1, OrderWhenSynthesised
  <2>2. CASE BridgeClears
    BY <2>0, <2>2, OrderWhenHeard DEF BridgeClears
  <2>3. CASE Render /\ UNCHANGED bridgeVars
    BY <2>0, <2>3, OrderWhenHeard DEF bridgeVars, workerVars
  <2> QED
    BY <1>4, <2>1, <2>2, <2>3 DEF BridgeOrPlayback
<1>5. CASE PlaybackPublishes
  <2>1. UNCHANGED <<heard, chunks, synth, jobs, unsaid, queue, stream>>
    BY <1>5 DEF PlaybackPublishes, bridgeVars, workerVars, queueVars, managerVars
  <2>2. out'["llm"] = out["llm"]
    BY <1>5 DEF PlaybackPublishes, Publish, BusShape, OutShape, Publishers
  <2> QED
    BY <2>1, <2>2, OrderAside DEF HeardShape
<1>6. CASE UNCHANGED pipelineVars
  <2>1. UNCHANGED <<heard, chunks, synth, jobs, unsaid, queue, stream, out>>
    BY <1>6 DEF pipelineVars, bridgeVars, workerVars, playbackVars, engineVars, queueVars,
       managerVars, busVars
  <2> QED
    BY <2>1, OrderAside DEF HeardShape
<1>7. CASE \/ UserBegins \/ UserEnds \/ Transcribed \/ LineTyped \/ SummaryFinishes
           \/ BargeInFires \/ BargeInSuppressed \/ FsmGoesOn \/ FsmHandles
           \/ ManagerHandles \/ ManagerTakes \/ ManagerAdopts \/ ManagerReturns
           \/ ManagerActivates \/ LlmFinishes
  BY <1>7, OrderElsewhere
<1> QED
  BY <1>1, <1>2, <1>3, <1>4, <1>5, <1>6, <1>7 DEF PipelineNext, SystemStep
=============================================================================
