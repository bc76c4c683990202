------------------------------ MODULE Manager -------------------------------
(***************************************************************************)
(* The dialogue Manager (dialogue/manager.cpp) and the LLM stream it runs  *)
(* (llm/client.cpp): a bus worker that accepts or refuses transcripts and  *)
(* cancels the active stream, and an I/O thread that runs one stream at a  *)
(* time.  The worker and the I/O thread share pending_ and active_.        *)
(*                                                                         *)
(* A reply is a number of sentences; what the splitter does to the token   *)
(* stream is left out except that text may be left over at the end.        *)
(***************************************************************************)
EXTENDS Integers, Sequences

CONSTANTS
    MayRefuse,      \* transcripts may be too short, or the pipeline gate closed
    MaxReply,       \* bound: sentences in a reply
    SentenceCap     \* cfg.dialogue.max_assistant_sentences; 0: no cap

ASSUME ManagerAssumption == MaxReply \in Nat /\ SentenceCap \in Nat

VARIABLES
    pending,        \* pending_ holds a transcript
    stream,         \* run_one on the I/O thread: [phase, turn, seq]
    streamDead,     \* the token of the stream is cancelled
    activeStream    \* active_.id, 0 when active_ is not valid

managerVars == <<pending, stream, streamDead, activeStream>>

NoStream == [phase |-> "idle", turn |-> 0, seq |-> 0]

ManagerInit ==
    /\ pending = FALSE /\ stream = NoStream
    /\ streamDead = FALSE /\ activeStream = 0

(* enqueue_turn: a transcript that is still pending is replaced. *)
EnqueueTurn ==
    /\ pending' = TRUE
    /\ UNCHANGED <<stream, streamDead, activeStream>>

(* cancel_active: kNoTurn matches every turn. *)
CancelActive(target) ==
    /\ streamDead' = (streamDead \/ (activeStream # 0 /\ target \in {0, activeStream}))
    /\ UNCHANGED <<pending, stream, activeStream>>

-----------------------------------------------------------------------------
(* io_loop *)
TakeTranscript ==
    /\ stream.phase = "idle" /\ pending
    /\ pending' = FALSE
    /\ stream' = [stream EXCEPT !.phase = "adopt"]
    /\ UNCHANGED <<streamDead, activeStream>>

(* run_one: the turn is the FSM's, or a new one when the FSM has none. *)
AdoptTurn(turn) ==
    /\ stream.phase = "adopt"
    /\ stream' = [phase |-> "activate", turn |-> turn, seq |-> 0]
    /\ streamDead' = FALSE
    /\ UNCHANGED <<pending, activeStream>>

(* run_one: active_ = ctx, and the turn-started hook. *)
ActivateTurn ==
    /\ stream.phase = "activate"
    /\ activeStream' = stream.turn
    /\ stream' = [stream EXCEPT !.phase = "stream"]
    /\ UNCHANGED <<pending, streamDead>>

(* The cap state machine of run_one: the sentence after the capped one is the last, and *)
(* with it the Manager itself cancels the stream.                                       *)
AtBackstop == SentenceCap > 0 /\ stream.seq > SentenceCap

(* on_token completes a sentence.  curl_write tests the token once for a buffer that may *)
(* hold many sentences, so a stream cancelled by others may still emit some.             *)
SentenceDone ==
    /\ stream.phase = "stream" /\ ~AtBackstop
    /\ stream.seq < MaxReply
    /\ stream' = [stream EXCEPT !.seq = @ + 1]
    /\ streamDead' = (streamDead \/ AtBackstop')
    /\ UNCHANGED <<pending, activeStream>>

(* curl_easy_perform returned, because of the end of the reply, an error or the cancelled *)
(* token; on_finished publishes text left in the splitter as a last sentence, cancelled   *)
(* or not.                                                                                *)
LeftoverSentence ==
    /\ stream.phase = "stream" /\ ~AtBackstop
    /\ stream.seq < MaxReply
    /\ stream' = [stream EXCEPT !.seq = @ + 1, !.phase = "finish"]
    /\ UNCHANGED <<pending, streamDead, activeStream>>

(* curl_easy_perform returned, nothing is left over: submit publishes LlmFinished. *)
FinishStream ==
    /\ stream.phase \in {"stream", "finish"}
    /\ stream' = [stream EXCEPT !.phase = "return"]
    /\ UNCHANGED <<pending, streamDead, activeStream>>

(* run_one: active_ = TurnContext{}. *)
RunOneReturns ==
    /\ stream.phase = "return"
    /\ stream' = NoStream /\ activeStream' = 0 /\ streamDead' = FALSE
    /\ UNCHANGED pending
=============================================================================
