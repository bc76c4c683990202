----------------------------- MODULE TtsBridge ------------------------------
(***************************************************************************)
(* TtsBridge (dialogue/tts_bridge.cpp): a bus worker that keeps a          *)
(* cancellation token per turn and a list of sentences to synthesize, and  *)
(* an I/O thread that synthesizes them one by one into the playback queue. *)
(*                                                                         *)
(* Tokens are shared pointers: a token is a number, `dead' the cancelled   *)
(* ones, and two holders of the same number see the same cancellation.     *)
(***************************************************************************)
EXTENDS Playback, FiniteSets

CONSTANT
    TtsMayFail      \* the speech server may fail before it sends audio

VARIABLES
    tokens,         \* tokens_: a token for some turns
    lastToken,      \* the last token made
    dead,           \* the cancelled tokens
    jobs,           \* pending_: [turn, seq, token]
    synth,          \* the I/O thread: [phase, job]; in_flight_ is the job's token
    clearing,       \* the bus worker is about to call queue_.clear()
    unsaid          \* history: <<turn, seq>> of the sentences whose audio was never queued

workerVars == <<tokens, lastToken, dead, jobs, clearing, unsaid>>
bridgeVars == <<workerVars, synth>>

Resting == [phase |-> "idle", job |-> <<>>]

BridgeInit ==
    /\ tokens = [t \in {} |-> 0] /\ lastToken = 0 /\ dead = {}
    /\ jobs = <<>> /\ synth = Resting /\ clearing = FALSE /\ unsaid = {}

(* A token that has just been made becomes that of the turn. *)
NewToken(turn) ==
    /\ lastToken' = lastToken + 1
    /\ tokens' = [t \in DOMAIN tokens \cup {turn} |-> IF t = turn THEN lastToken' ELSE tokens[t]]

(* token_for, and the lookup of on_user_interrupted. *)
TokenFor(turn) ==
    \/ turn \in DOMAIN tokens /\ UNCHANGED <<lastToken, tokens>>
    \/ turn \notin DOMAIN tokens /\ NewToken(turn)

(* on_llm_started: a fresh token, whatever was there. *)
OnLlmStarted(turn) ==
    /\ NewToken(turn)
    /\ UNCHANGED <<dead, jobs, synth, clearing, unsaid, playbackVars>>

(* Mutant of OnLlmSentence: push_front in the place of push_back. *)
SentenceFirst(turn, seq) ==
    /\ turn \in DOMAIN tokens
    /\ jobs' = <<[turn |-> turn, seq |-> seq, token |-> tokens[turn]]>> \o jobs
    /\ UNCHANGED <<lastToken, tokens, dead, synth, clearing, unsaid, playbackVars>>

(* on_llm_sentence: a sentence of a cancelled turn is dropped. *)
OnLlmSentence(turn, seq) ==
    /\ TokenFor(turn)
    /\ jobs' = IF tokens'[turn] \in dead THEN jobs
               ELSE Append(jobs, [turn |-> turn, seq |-> seq, token |-> tokens'[turn]])
    /\ UNCHANGED <<dead, synth, clearing, unsaid, playbackVars>>

(* on_llm_finished: the token is forgotten, not cancelled. *)
OnLlmFinished(turn) ==
    /\ tokens' = [t \in DOMAIN tokens \ {turn} |-> tokens[t]]
    /\ UNCHANGED <<lastToken, dead, jobs, synth, clearing, unsaid, playbackVars>>

InFlight == {synth.job[i].token : i \in DOMAIN synth.job}

(* on_user_interrupted: the jobs of other turns are moved to kept, one by one. *)
JobsWithout(turn) ==
    LET kept[i \in 0..Len(jobs)] ==
            IF i = 0 THEN <<>>
            ELSE IF jobs[i].turn = turn THEN kept[i - 1] ELSE Append(kept[i - 1], jobs[i])
    IN  kept[Len(jobs)]

(* on_user_interrupted up to the cancellation of the tokens. *)
OnUserInterrupted(turn) ==
    /\ TokenFor(turn)
    /\ dead' = dead \cup {tokens'[turn]} \cup InFlight
    /\ jobs' = JobsWithout(turn)
    /\ clearing' = TRUE
    /\ UNCHANGED <<synth, unsaid, playbackVars>>

(* on_user_interrupted: queue_.clear(). *)
BridgeClears ==
    /\ clearing
    /\ clearing' = FALSE
    /\ ClearChunks
    /\ UNCHANGED <<tokens, lastToken, dead, jobs, synth, unsaid>>

-----------------------------------------------------------------------------
(* The I/O thread. *)
Job == synth.job[1]
JobDead == Job.token \in dead
To(phase) == synth' = [synth EXCEPT !.phase = phase]
Chunk(audio, eos) == [turn |-> Job.turn, seq |-> Job.seq, audio |-> audio, eos |-> eos]

Unsaid == unsaid' = unsaid \cup {<<Job.turn, Job.seq>>}

(* io_loop: the next job. *)
TakeJob ==
    /\ synth = Resting /\ jobs # <<>>
    /\ synth' = [phase |-> "submit", job |-> <<Head(jobs)>>]
    /\ jobs' = Tail(jobs)
    /\ UNCHANGED <<tokens, lastToken, dead, clearing, unsaid, playbackVars>>

(* run_one: a job cancelled while it waited. *)
JobDropped ==
    /\ synth.phase = "submit" /\ JobDead
    /\ synth' = Resting
    /\ UNCHANGED <<workerVars, playbackVars>>

(* run_one: submit_fn_ delivers audio, and on_audio finds the job alive. *)
AudioArrives ==
    /\ synth.phase = "submit" /\ ~JobDead
    /\ To("audio")
    /\ UNCHANGED <<workerVars, playbackVars>>

(* run_one: submit_fn_ reports an error. *)
SynthesisFails ==
    /\ TtsMayFail
    /\ synth.phase = "submit" /\ ~JobDead
    /\ To("tail") /\ Unsaid
    /\ UNCHANGED <<tokens, lastToken, dead, jobs, clearing, playbackVars>>

(* on_audio: queue_.enqueue, after the test of AudioArrives. *)
AudioQueued ==
    /\ synth.phase = "audio"
    /\ To("tail")
    /\ Enqueue(Chunk(TRUE, FALSE))
    /\ IF HasRoom THEN UNCHANGED unsaid ELSE Unsaid
    /\ UNCHANGED <<tokens, lastToken, dead, jobs, clearing>>

(* run_one after submit_fn_: the marker is due unless the job was cancelled. *)
TailDropped ==
    /\ synth.phase = "tail" /\ JobDead
    /\ synth' = Resting
    /\ UNCHANGED <<workerVars, playbackVars>>

TailDue ==
    /\ synth.phase = "tail" /\ ~JobDead
    /\ To("marker")
    /\ UNCHANGED <<workerVars, playbackVars>>

(* Mutant of MarkerQueued: the marker is given up, as with enqueue(), when the queue is full. *)
MarkerDropped ==
    /\ synth.phase = "marker"
    /\ synth' = Resting
    /\ Enqueue(Chunk(FALSE, TRUE))
    /\ UNCHANGED workerVars

(* run_one: enqueue_blocking of the end_of_sentence chunk. *)
MarkerQueued ==
    /\ synth.phase = "marker"
    /\ synth' = Resting
    /\ EnqueueBlocking(Chunk(FALSE, TRUE), JobDead)
    /\ UNCHANGED workerVars

Synthesis ==
    \/ TakeJob \/ JobDropped \/ AudioArrives \/ SynthesisFails
    \/ AudioQueued \/ TailDropped \/ TailDue \/ MarkerQueued
=============================================================================
