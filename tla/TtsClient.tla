----------------------------- MODULE TtsClient ------------------------------
(***************************************************************************)
(* The text-to-speech request (tts/openai_tts_client.cpp): submit() and    *)
(* the callbacks libcurl makes while it runs.  A byte of the reply is its  *)
(* position; a sample is the pair of bytes it was made of.                 *)
(***************************************************************************)
EXTENDS Integers, Sequences

CONSTANTS
    BodyLength,     \* bytes the server sends
    Voices,         \* the languages with a resolved voice
    Fallback        \* fallback_lang

ASSUME TtsClientAssumption == BodyLength \in Nat

VARIABLES
    req,        \* before, transfer, finished, error
    cancelled,  \* the turn's token
    read,       \* bytes received
    carry,      \* has_carry and the byte
    announced,  \* format_announced
    samples,    \* what on_audio was given
    calls,      \* history: on_format, on_finished, on_error
    voice       \* the language whose voice speaks

ttsClientVars == <<req, cancelled, read, carry, announced, samples, calls, voice>>

NoByte == -1
NoVoice == "none"

TtsClientInit ==
    /\ req = "before" /\ cancelled = FALSE /\ read = 0 /\ carry = NoByte
    /\ announced = FALSE /\ samples = <<>> /\ calls = <<>> /\ voice = NoVoice

RouteFor(lang) == IF lang \in Voices THEN lang ELSE IF Fallback \in Voices THEN Fallback ELSE NoVoice

\* submit() up to curl_easy_perform.
SubmitTts(lang, ready) ==
    /\ req = "before"
    /\ voice' = RouteFor(lang)
    /\ IF ready /\ voice' # NoVoice /\ ~cancelled
       THEN req' = "transfer" /\ UNCHANGED calls
       ELSE req' = "error" /\ calls' = Append(calls, "error")
    /\ UNCHANGED <<cancelled, read, carry, announced, samples>>

Pairs(from, n) == [i \in 1 .. n |-> <<from + 2 * (i - 1), from + 2 * (i - 1) + 1>>]

(* Mutant of CurlWrite: the odd byte at the end of a chunk is dropped. *)
CurlWriteDropsOdd(n) ==
    /\ req = "transfer" /\ ~cancelled /\ read + n <= BodyLength
    /\ samples' = samples \o Pairs(read, n \div 2)
    /\ read' = read + n /\ announced' = TRUE
    /\ calls' = IF announced THEN calls ELSE Append(calls, "format")
    /\ UNCHANGED <<req, cancelled, carry, voice>>

\* One chunk of n bytes.
CurlWrite(n) ==
    LET first == IF carry = NoByte THEN <<>> ELSE << <<carry, read>> >>
        used == Len(first)
    IN  /\ req = "transfer" /\ ~cancelled /\ read + n <= BodyLength
        /\ calls' = IF announced THEN calls ELSE Append(calls, "format")
        /\ announced' = TRUE
        /\ samples' = samples \o first \o Pairs(read + used, (n - used) \div 2)
        /\ carry' = IF (n - used) % 2 = 1 THEN read + n - 1 ELSE NoByte
        /\ read' = read + n
        /\ UNCHANGED <<req, cancelled, voice>>

CancelTts ==
    /\ req \in {"before", "transfer"} /\ ~cancelled
    /\ cancelled' = TRUE
    /\ UNCHANGED <<req, read, carry, announced, samples, calls, voice>>

\* perform returned: cancelled (the write or progress callback aborted it), failed,
\* refused by its status, or complete.
TransferEnds(ok) ==
    /\ req = "transfer"
    /\ IF ok /\ ~cancelled /\ read = BodyLength
       THEN req' = "finished" /\ calls' = Append(calls, "finished")
       ELSE req' = "error" /\ calls' = Append(calls, "error")
    /\ UNCHANGED <<cancelled, read, carry, announced, samples, voice>>

TtsClientNext ==
    \/ \E lang \in {"en", "de", "fr"}, ready \in BOOLEAN : SubmitTts(lang, ready)
    \/ \E n \in 1 .. BodyLength : CurlWrite(n)
    \/ CancelTts
    \/ \E ok \in BOOLEAN : TransferEnds(ok)

(* Wherever the network cut the reply, the samples handed on are the byte  *)
(* pairs of the reply in order: a cut inside a sample does not shift the   *)
(* rest by a byte, which would be noise (curl_write).                      *)
SamplesAligned == samples = Pairs(0, read \div 2)

(* submit() makes exactly one of the two closing callbacks, after all      *)
(* audio, and reports success only for a reply that was complete and not   *)
(* cancelled; the format comes first.                                      *)
ClosedOnce ==
    /\ req \in {"finished", "error"} =>
        /\ calls \in {<<req>>, <<"format", req>>}
        /\ req = "finished" => ~cancelled /\ read = BodyLength /\ voice \in Voices
    /\ req \in {"before", "transfer"} => calls \in {<<>>, <<"format">>}
    /\ samples # <<>> => calls # <<>> /\ calls[1] = "format"

(* The caller of submit() gets the reply's samples and one truthful end,   *)
(* wherever the network cuts and whenever the turn is cancelled.           *)
ReplyIsHandedOn == SamplesAligned /\ ClosedOnce
=============================================================================
