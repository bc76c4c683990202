---------------------------- MODULE RealtimeStt -----------------------------
(***************************************************************************)
(* Streaming speech to text: the realtime client                           *)
(* (stt/realtime_stt_client.cpp), the stack that drives it from the bus    *)
(* (orchestrator/stacks/stt_stack.cpp) and the part of the audio pipeline  *)
(* that calls its sink (audio/pipeline.cpp).                               *)
(*                                                                         *)
(* Four threads meet in the client: start() while the session comes up;    *)
(* the pipeline, which pushes audio; and the two bus workers that deliver  *)
(* SpeechStarted and SpeechEnded, each at its own pace.  What each does    *)
(* under the client's mutex is one step, what it sends afterwards another. *)
(* The data channel is reliable and ordered in both directions.            *)
(*                                                                         *)
(* A chunk of audio is <<utterance, index>>: index 0 is the pre-padding    *)
(* the pipeline replays, 1 the onset, then the rest.                       *)
(***************************************************************************)
EXTENDS Integers, Sequences, SequencesExt, FiniteSets

CONSTANTS
    Utterances,     \* bound: the number of utterances spoken
    Chunks          \* bound: chunks of an utterance, the pre-padding not counted

ASSUME RealtimeAssumption == Utterances \in Nat \ {0} /\ Chunks \in Nat \ {0}

VARIABLES
    conn,       \* start(): what it waits for, up, failed, closed
    link,       \* what the peer connection's callbacks have reported
    mic,        \* the pipeline: the utterance it is in and the next chunk of it
    pushing,    \* audio push_audio() took under the lock and has not sent
    startedQ, endedQ,       \* the events under way to the two subscriptions
    starting, ending,       \* the handlers: what begin/end_utterance still have to send
    client,     \* active utterance, its item id, and whether its resampler is there
    wire,       \* messages under way to the server
    server,     \* its audio buffer and the next item id
    replies,    \* messages under way to the client
    begunAt, endedAt,       \* history: utterances whose handler has run
    answers,    \* history: finals and errors each utterance was given
    finals,     \* history: <<utterance, item, the audio of the item>> reported
    confirmed   \* history, per item: the utterance that was active when it was confirmed

clientVars == <<client, answers, finals, confirmed>>
busVars == <<startedQ, endedQ, starting, ending, begunAt, endedAt>>
realtimeVars == <<conn, link, mic, pushing, busVars, clientVars, wire, server, replies>>

None == 0
Inactive == [turn |-> None, item |-> None, open |-> FALSE]

RealtimeInit ==
    /\ conn = "idle" /\ link = {}
    /\ mic = [u |-> 1, k |-> 0]
    /\ pushing = <<>> /\ startedQ = <<>> /\ endedQ = <<>>
    /\ starting = FALSE /\ ending = FALSE
    /\ client = Inactive
    /\ wire = <<>> /\ server = [buffer |-> <<>>, item |-> 1] /\ replies = <<>>
    /\ begunAt = {} /\ endedAt = {}
    /\ answers = [u \in 1 .. Utterances |-> 0] /\ finals = <<>> /\ confirmed = <<>>

RealtimeTypeOK ==
    /\ conn \in {"idle", "gather", "post", "connect", "channel", "checked", "configure", "up",
                 "failed", "closed"}
    /\ client.turn \in 0 .. Utterances
    /\ client.turn = None => client = Inactive
    /\ client.item < server.item
    /\ begunAt \cup endedAt \subseteq 1 .. Utterances
    /\ \A i \in DOMAIN server.buffer : server.buffer[i] \in (1 .. Utterances) \X (0 .. Chunks)

-----------------------------------------------------------------------------
(* start(): each wait ends with what it waits for, with a failure the      *)
(* connection reported, or at the deadline.                                *)

Awaited == [gather |-> "gathered", connect |-> "connected", channel |-> "open",
            configure |-> "updated"]
After == [gather |-> "post", connect |-> "channel", channel |-> "checked",
          configure |-> "up"]

\* libdatachannel's callbacks, in any order; after up they change nothing that is read.
LinkReports(what) ==
    /\ conn \in {"gather", "post", "connect", "channel", "checked", "configure"}
    /\ what \notin link
    /\ link' = link \cup {what}
    /\ UNCHANGED <<conn, mic, pushing, busVars, clientVars, wire, server, replies>>

StartRealtime ==
    /\ conn = "idle" /\ conn' = "gather"
    /\ UNCHANGED <<link, mic, pushing, busVars, clientVars, wire, server, replies>>

WaitEnds ==
    /\ conn \in DOMAIN Awaited
    /\ Awaited[conn] \in link \/ "lost" \in link
    /\ conn' = IF "lost" \in link THEN "failed" ELSE After[conn]
    /\ UNCHANGED <<link, mic, pushing, busVars, clientVars, wire, server, replies>>

\* The store of Configuring overwrites a failure reported since the last test.
Configure ==
    /\ conn = "checked"
    /\ conn' = "configure" /\ link' = link \ {"lost"}
    /\ wire' = Append(wire, <<"update">>)
    /\ UNCHANGED <<mic, pushing, busVars, clientVars, server, replies>>

PostOffer(ok) ==
    /\ conn = "post"
    /\ conn' = IF ok THEN "connect" ELSE "failed"
    /\ UNCHANGED <<link, mic, pushing, busVars, clientVars, wire, server, replies>>

Deadline ==
    /\ conn \in DOMAIN Awaited /\ Awaited[conn] \notin link
    /\ conn' = "failed"
    /\ UNCHANGED <<link, mic, pushing, busVars, clientVars, wire, server, replies>>

-----------------------------------------------------------------------------
(* The pipeline's thread.  The stack is wired when start() has returned.   *)

Wired == conn \in {"up", "closed"}

\* push_audio, under the lock.
PushTakes ==
    LET chunk == <<mic.u, mic.k>>
    IN  /\ Wired /\ mic.u <= Utterances /\ mic.k <= Chunks
        /\ pushing = <<>>
        /\ mic' = [mic EXCEPT !.k = @ + 1]
        /\ pushing' = IF client.open THEN <<chunk>> ELSE <<>>
        /\ startedQ' = IF mic.k = 1 /\ ~client.open THEN Append(startedQ, mic.u) ELSE startedQ
        /\ UNCHANGED <<conn, link, endedQ, starting, ending, clientVars, wire, server,
                       replies, begunAt, endedAt>>

\* Its send; the onset chunk is followed by the publication of SpeechStarted.
PushSends ==
    /\ pushing # <<>>
    /\ wire' = IF conn = "up" THEN Append(wire, <<"append", pushing[1]>>) ELSE wire
    /\ startedQ' = IF pushing[1][2] = 1 THEN Append(startedQ, pushing[1][1]) ELSE startedQ
    /\ pushing' = <<>>
    /\ UNCHANGED <<conn, link, mic, endedQ, starting, ending, clientVars, server, replies,
                   begunAt, endedAt>>

SpeechEnds ==
    /\ mic.u <= Utterances /\ mic.k = Chunks + 1 /\ pushing = <<>>
    /\ endedQ' = Append(endedQ, mic.u)
    /\ mic' = [u |-> mic.u + 1, k |-> 0]
    /\ UNCHANGED <<conn, link, pushing, startedQ, starting, ending, clientVars, wire, server,
                   replies, begunAt, endedAt>>

-----------------------------------------------------------------------------
(* The handlers of SpeechStarted and SpeechEnded.                          *)

BeginUtterance ==
    /\ startedQ # <<>> /\ ~starting
    /\ IF conn = "up"
       THEN /\ client' = [turn |-> Head(startedQ), item |-> None, open |-> TRUE]
            /\ starting' = TRUE /\ UNCHANGED answers
       ELSE /\ answers' = [answers EXCEPT ![Head(startedQ)] = @ + 1]
            /\ UNCHANGED <<client, starting>>
    /\ startedQ' = Tail(startedQ)
    /\ begunAt' = begunAt \cup {Head(startedQ)}
    /\ UNCHANGED <<conn, link, mic, pushing, endedQ, ending, finals, confirmed, wire, server, replies, endedAt>>

BeginSends ==
    /\ starting
    /\ starting' = FALSE
    /\ wire' = IF conn = "up" THEN Append(wire, <<"clear">>) ELSE wire
    /\ UNCHANGED <<conn, link, mic, pushing, startedQ, endedQ, ending, clientVars, server,
                   replies, begunAt, endedAt>>

EndUtterance ==
    /\ endedQ # <<>> /\ ~ending
    /\ ending' = client.open
    /\ client' = [client EXCEPT !.open = FALSE]
    /\ endedQ' = Tail(endedQ) /\ endedAt' = endedAt \cup {Head(endedQ)}
    /\ UNCHANGED <<conn, link, mic, pushing, startedQ, starting, answers, finals, confirmed, wire, server,
                   replies, begunAt>>

(* Mutant of EndSends: the commit goes out only while the resampler is there. *)
EndSendsIfOpen ==
    /\ ending
    /\ ending' = FALSE
    /\ wire' = IF conn = "up" /\ client.open THEN Append(wire, <<"commit">>) ELSE wire
    /\ UNCHANGED <<conn, link, mic, pushing, startedQ, endedQ, starting, clientVars, server,
                   replies, begunAt, endedAt>>

EndSends ==
    /\ ending
    /\ ending' = FALSE
    /\ wire' = IF conn = "up" THEN Append(wire, <<"commit">>) ELSE wire
    /\ UNCHANGED <<conn, link, mic, pushing, startedQ, endedQ, starting, clientVars, server,
                   replies, begunAt, endedAt>>

-----------------------------------------------------------------------------
(* The server (external), as the client uses it: a commit makes an item of *)
(* the buffer, which is confirmed and then transcribed, or refused.  The   *)
(* item of a refusal is history: the client's error event names none.      *)

ServerReads ==
    /\ wire # <<>>
    /\ wire' = Tail(wire)
    /\ LET m == Head(wire)
       IN CASE m[1] = "update" -> /\ replies' \in {Append(replies, <<"updated">>), replies}
                                  /\ UNCHANGED server
            [] m[1] = "clear" -> server' = [server EXCEPT !.buffer = <<>>] /\ UNCHANGED replies
            [] m[1] = "append" -> server' = [server EXCEPT !.buffer = Append(@, m[2])]
                                  /\ UNCHANGED replies
            [] OTHER ->
                /\ server' = [buffer |-> <<>>, item |-> server.item + 1]
                /\ \/ replies' = Append(Append(replies, <<"committed", server.item>>),
                                        <<"final", server.item, server.buffer>>)
                   \/ replies' = Append(replies, <<"error", server.item>>)
    /\ UNCHANGED <<conn, link, mic, pushing, busVars, clientVars>>

\* History: an item that was refused is never confirmed.
Skip(m) == IF m[1] = "error" THEN Append(confirmed, None) ELSE confirmed

(* Mutant of Answer: the utterance stays active. *)
AnswerStaysActive(what) ==
    /\ answers' = [answers EXCEPT ![client.turn] = @ + 1]
    /\ finals' = IF what[1] = "final" THEN Append(finals, <<client.turn, what[2], what[3]>>)
                 ELSE finals
    /\ UNCHANGED client

\* clear_active_locked, and the callback that was moved out before it.
Answer(what) ==
    /\ client' = Inactive
    /\ answers' = [answers EXCEPT ![client.turn] = @ + 1]
    /\ finals' = IF what[1] = "final" THEN Append(finals, <<client.turn, what[2], what[3]>>)
                 ELSE finals

Accepts(m) ==
    IF m[1] = "error" THEN client.turn # None
    ELSE m[1] = "final" /\ client.turn # None /\ m[2] = client.item

OnMessage ==
    /\ replies # <<>>
    /\ replies' = Tail(replies)
    /\ LET m == Head(replies)
       IN  CASE m[1] = "updated" ->
                    /\ link' = IF conn = "configure" THEN link \cup {"updated"} ELSE link
                    /\ UNCHANGED clientVars
             [] m[1] = "committed" ->
                    /\ client' = IF client.turn = None THEN client ELSE [client EXCEPT !.item = m[2]]
                    /\ confirmed' = Append(confirmed, client.turn)
                    /\ UNCHANGED <<link, answers, finals>>
             [] Accepts(m) -> Answer(m) /\ confirmed' = Skip(m) /\ UNCHANGED link
             [] OTHER -> confirmed' = Skip(m) /\ UNCHANGED <<link, client, answers, finals>>
    /\ UNCHANGED <<conn, mic, pushing, busVars, wire, server>>

\* stop(), when the process shuts down.
StopRealtime ==
    /\ conn = "up" /\ mic.u > Utterances
    /\ conn' = "closed" /\ client' = Inactive
    /\ UNCHANGED <<link, mic, pushing, busVars, answers, finals, confirmed, wire, server, replies>>

-----------------------------------------------------------------------------
\* The threads that keep running: start() up to its deadline, the pipeline and the
\* two bus workers; the channel and the server deliver and answer.
Pipeline == PushTakes \/ PushSends \/ SpeechEnds
OnStarted == BeginUtterance \/ BeginSends
OnEnded == EndUtterance \/ EndSends
Starting == WaitEnds \/ Configure \/ Deadline \/ (\E ok \in BOOLEAN : PostOffer(ok))

RealtimeNext ==
    \/ \E what \in {"gathered", "connected", "open", "lost"} : LinkReports(what)
    \/ StartRealtime \/ Starting \/ Pipeline \/ OnStarted \/ OnEnded \/ ServerReads \/ OnMessage \/ StopRealtime

-----------------------------------------------------------------------------
(* An utterance is answered at most once, with a transcript or an error,   *)
(* however its events, the server's and those of the next utterance        *)
(* interleave: on_final and on_server_error move the callback out and      *)
(* clear the utterance in one critical section.                            *)
AnsweredOnce == \A u \in 1 .. Utterances : answers[u] <= 1

(* A transcript is reported for the utterance that was active when its     *)
(* item was confirmed, and transcripts come in the order of the commits,   *)
(* none twice: a begin_utterance between the confirmation and the          *)
(* transcript makes the client drop it (active_item_id).                   *)
TranscriptsGoWhereConfirmed ==
    /\ \A i \in DOMAIN finals : finals[i][1] = confirmed[finals[i][2]]
    /\ \A i, j \in DOMAIN finals : i < j => finals[i][2] < finals[j][2]

(* Late, stray and repeated events of the server never answer an utterance *)
(* twice or with the words of an item that was not its own (on_committed,  *)
(* on_final, on_server_error).                                             *)
AnsweredRightly == AnsweredOnce /\ TranscriptsGoWhereConfirmed

(* An utterance whose end was handled after its beginning is answered, or  *)
(* another one began, or the session was closed: the FSM, which waits in   *)
(* Transcribing, is not left there.                                        *)
EventuallyAnswered ==
    \A u \in 1 .. Utterances :
        (client.turn = u /\ ending) ~> (answers[u] = 1 \/ client.turn > u \/ conn = "closed"
                                        \/ \E v \in u + 1 .. Utterances : v \in begunAt)

(* start() returns: every wait has the same deadline. *)
StartReturns == (conn = "gather") ~> (conn \in {"up", "failed", "closed"})

(* Nobody waits for the streaming session for ever, neither main() nor the *)
(* FSM (start, end_utterance).                                             *)
SessionServes == StartReturns /\ EventuallyAnswered

-----------------------------------------------------------------------------
(* "Replay the pre-padding window into the live sink first so the realtime *)
(* STT sees the same prefix the M4B path keeps" (pipeline.cpp): an item    *)
(* begins with the pre-padding of its utterance.  It does not: the client  *)
(* takes audio only once its SpeechStarted handler ran, and the pipeline   *)
(* replays the prefix before it publishes SpeechStarted.                   *)
PrefixIsTranscribed ==
    \A i \in DOMAIN finals : finals[i][3] # <<>> => finals[i][3][1] = <<finals[i][1], 0>>
=============================================================================
