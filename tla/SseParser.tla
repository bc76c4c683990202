----------------------------- MODULE SseParser ------------------------------
(***************************************************************************)
(* The parser of the LLM's event stream (llm/sse_parser.cpp).  The network *)
(* cuts the stream anywhere; the parser keeps what is incomplete.          *)
(*                                                                         *)
(* The stream is over a few tokens: "data:" the field prefix, "[DONE]" the *)
(* sentinel, ":" the start of a comment, "x" any other text, and LF.  The  *)
(* single space after the prefix is part of it.                            *)
(***************************************************************************)
EXTENDS Integers, Sequences, SequencesExt

CONSTANT MaxStream     \* bound: tokens received

ASSUME SseAssumption == MaxStream \in Nat

VARIABLES
    sse,        \* buffer_ and done_seen_
    body,       \* history: all that was fed
    sseEvents,  \* history: the callbacks made
    sseEnded    \* finish() was called

sseVars == <<sse, body, sseEvents, sseEnded>>

Tokens == {"data:", "[DONE]", ":", "x", "LF"}

SseInit ==
    /\ sse = [buffer |-> <<>>, done |-> FALSE] /\ body = <<>>
    /\ sseEvents = <<>> /\ sseEnded = FALSE

\* The lines of a text, the last one included even if nothing ends it.
Lines(text) ==
    LET step(acc, t) == IF t = "LF" THEN Append(acc, <<>>)
                        ELSE [acc EXCEPT ![Len(acc)] = Append(@, t)]
    IN  FoldLeft(step, << <<>> >>, text)

\* What a line makes the parser call; <<>> for nothing.
EventOf(line) ==
    IF line = <<>> THEN <<>>
    ELSE IF line[1] = ":" THEN << <<"comment", Tail(line)>> >>
    ELSE IF line = <<"data:", "[DONE]">> THEN << <<"done">> >>
    ELSE IF line[1] = "data:" THEN << <<"data", Tail(line)>> >>
    ELSE <<>>

\* Events up to and including the first done.
UntilDone(events) ==
    LET done == {i \in DOMAIN events : events[i] = <<"done">>}
    IN  IF done = {} THEN events
        ELSE SubSeq(events, 1, CHOOSE i \in done : \A j \in done : i <= j)

\* emit_event: the events of one block of lines.
EmitEvent(text) == UntilDone(FlattenSeq([i \in DOMAIN Lines(text) |-> EventOf(Lines(text)[i])]))

Boundaries(b) == {i \in 1 .. Len(b) - 1 : b[i] = "LF" /\ b[i + 1] = "LF"}
FirstBoundary(b) == CHOOSE i \in Boundaries(b) : \A j \in Boundaries(b) : i <= j

\* The loop of feed(), one block per step of the recursion on the buffer's length.
Drain(buffer) ==
    LET drain[n \in 0 .. Len(buffer)] ==
            LET b == SubSeq(buffer, Len(buffer) - n + 1, Len(buffer))
            IN  IF Boundaries(b) = {} THEN [events |-> <<>>, rest |-> b]
                ELSE LET i == FirstBoundary(b)
                         later == drain[n - i - 1]
                     IN  [events |-> EmitEvent(SubSeq(b, 1, i - 1)) \o later.events,
                          rest |-> later.rest]
    IN  drain[Len(buffer)]

(* Mutant of Feed: a boundary across two chunks is not seen. *)
FeedForgets(bytes) ==
    LET d == Drain(bytes)
        events == UntilDone(d.events)
    IN  /\ ~sseEnded /\ Len(body) + Len(bytes) <= MaxStream
        /\ body' = body \o bytes
        /\ IF sse.done THEN UNCHANGED <<sse, sseEvents>>
           ELSE /\ sseEvents' = sseEvents \o events
                /\ sse' = IF Contains(events, <<"done">>) THEN [buffer |-> <<>>, done |-> TRUE]
                          ELSE [sse EXCEPT !.buffer = IF d.events = <<>> THEN @ \o d.rest ELSE d.rest]
        /\ UNCHANGED sseEnded

Feed(bytes) ==
    LET d == Drain(sse.buffer \o bytes)
        events == UntilDone(d.events)
    IN  /\ ~sseEnded /\ Len(body) + Len(bytes) <= MaxStream
        /\ body' = body \o bytes
        /\ IF sse.done THEN UNCHANGED <<sse, sseEvents>>
           ELSE /\ sseEvents' = sseEvents \o events
                /\ sse' = IF Contains(events, <<"done">>) THEN [buffer |-> <<>>, done |-> TRUE]
                          ELSE [sse EXCEPT !.buffer = d.rest]
        /\ UNCHANGED sseEnded

Finish ==
    /\ ~sseEnded /\ sseEnded' = TRUE
    /\ LET events == IF sse.done THEN <<>> ELSE EmitEvent(sse.buffer)
       IN  /\ sseEvents' = sseEvents \o events
           /\ sse' = [buffer |-> <<>>, done |-> sse.done \/ Contains(events, <<"done">>)]
    /\ UNCHANGED body

SseNext == (\E bytes \in {<<t>> : t \in Tokens} \cup {<<"LF", t>> : t \in Tokens} : Feed(bytes)) \/ Finish

-----------------------------------------------------------------------------
(* However the stream was cut into chunks, the callbacks made are those of *)
(* the lines it holds before its last blank line (before its end, once it  *)
(* has ended), up to the first [DONE]: no delta is lost, repeated or       *)
(* split, and nothing follows the end (feed, finish, emit_event).          *)
ChunksDoNotMatter ==
    LET complete == IF sseEnded THEN body
                    ELSE IF Boundaries(body) = {} THEN <<>>
                    ELSE SubSeq(body, 1, (CHOOSE i \in Boundaries(body) :
                                                \A j \in Boundaries(body) : i >= j) - 1)
    IN  sseEvents = EmitEvent(complete)
=============================================================================
