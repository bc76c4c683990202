------------------------------ MODULE Playback ------------------------------
(***************************************************************************)
(* PlaybackQueue and PlaybackEngine (playback/queue.cpp, engine.cpp).      *)
(*                                                                         *)
(* The audio callback fills device buffers from the queue, one chunk after *)
(* the other, and posts a PlaybackFinished when a chunk that ends a        *)
(* sentence has been consumed; a publisher thread relays it to the bus.    *)
(* Only chunks of the turn that the shared playback_active_turn names are  *)
(* played.                                                                 *)
(*                                                                         *)
(* A chunk is [turn, seq, audio, eos]; `audio' is FALSE for the empty      *)
(* marker chunk.  Sample counts are abstracted to chunks: all the audio of *)
(* a sentence is one chunk, longer than the prefill target.                *)
(***************************************************************************)
EXTENDS Integers, Sequences

CONSTANTS
    Prefill,        \* chunks that must be queued before a turn starts to play (prefill_ms)
    MaxChunks       \* cfg.playback.max_queue_chunks; 0: unbounded

ASSUME PlaybackAssumption == Prefill \in Nat /\ MaxChunks \in Nat

VARIABLES
    chunks,         \* PlaybackQueue::q_
    current,        \* Impl::current while it ends a sentence, as a sequence of at most one
                    \* chunk: using up any other chunk changes nothing others can see
    primedTurn,     \* primed_turn_
    playbackTurn,   \* the shared atomic playback_active_turn
    postbox,        \* Impl::postbox
    heard           \* history: <<turn, seq>> of the audio chunks begun

queueVars == <<chunks>>
engineVars == <<current, primedTurn, postbox, heard>>
playbackVars == <<queueVars, engineVars, playbackTurn>>

PlaybackInit ==
    /\ chunks = <<>> /\ current = <<>> /\ postbox = <<>> /\ heard = <<>>
    /\ primedTurn = 0 /\ playbackTurn = 0

HasRoom == MaxChunks = 0 \/ Len(chunks) < MaxChunks

(* enqueue: a full queue drops the chunk. *)
Enqueue(c) ==
    /\ chunks' = IF HasRoom THEN Append(chunks, c) ELSE chunks
    /\ UNCHANGED <<engineVars, playbackTurn>>

(* enqueue_blocking: polls until there is room; the caller's `cancelled' ends the wait. *)
EnqueueBlocking(c, isCancelled) ==
    /\ HasRoom \/ isCancelled
    /\ chunks' = IF HasRoom THEN Append(chunks, c) ELSE chunks
    /\ UNCHANGED <<engineVars, playbackTurn>>

(* clear *)
ClearChunks == chunks' = <<>> /\ UNCHANGED <<engineVars, playbackTurn>>

(* Mutant of ChunkConsumed: current is not cleared, so the next callback fires again. *)
ChunkConsumedAgain ==
    /\ current # <<>>
    /\ postbox' = Append(postbox, [turn |-> current[1].turn, seq |-> current[1].seq])
    /\ UNCHANGED <<queueVars, current, primedTurn, playbackTurn, heard>>

(* render_into: the last chunk of a sentence is used up. *)
ChunkConsumed ==
    /\ current # <<>>
    /\ postbox' = Append(postbox, [turn |-> current[1].turn, seq |-> current[1].seq])
    /\ current' = <<>>
    /\ UNCHANGED <<queueVars, primedTurn, playbackTurn, heard>>

QueuedAudio(turn) == Len(SelectSeq(chunks, LAMBDA c : c.audio /\ c.turn = turn))

(* render_into: the prefill gate.  Until enough audio of the active turn is queued the *)
(* callback writes silence and changes nothing.                                        *)
Gated == Prefill > 0 /\ playbackTurn # 0 /\ primedTurn # playbackTurn

TurnPrimed ==
    /\ current = <<>> /\ Gated
    /\ QueuedAudio(playbackTurn) >= Prefill
    /\ primedTurn' = playbackTurn
    /\ UNCHANGED <<queueVars, current, postbox, heard, playbackTurn>>

(* Positions of the chunks of the active turn. *)
Live == {i \in 1..Len(chunks) : chunks[i].turn = playbackTurn}

(* render_into, dequeue_active: drops stale chunks at the head, takes the first live   *)
(* one.  The callback reads playback_active_turn a few instructions before it dequeues; *)
(* synthesis of a sentence for a newer turn does not fit in between, so this is one step. *)
NextChunk ==
    /\ current = <<>> /\ ~Gated /\ chunks # <<>>
    /\ \/ /\ Live = {}
          /\ chunks' = <<>>
          /\ UNCHANGED <<current, heard>>
       \/ \E i \in Live :
            /\ \A j \in Live : i <= j
            /\ current' = IF chunks[i].eos THEN <<chunks[i]>> ELSE <<>>
            /\ chunks' = SubSeq(chunks, i + 1, Len(chunks))
            /\ heard' = IF chunks[i].audio
                        THEN Append(heard, <<chunks[i].turn, chunks[i].seq>>) ELSE heard
    /\ UNCHANGED <<primedTurn, postbox, playbackTurn>>

Render == ChunkConsumed \/ TurnPrimed \/ NextChunk
=============================================================================
