----------------------------- MODULE Listening ------------------------------
(***************************************************************************)
(* The audio pipeline's thread (audio/pipeline.cpp): every captured frame  *)
(* goes through the mute test, the resampler and the echo canceller (which *)
(* may hold it back until the next one), the utterance buffer, the         *)
(* wake-word gate, the live sink, the voice detector and the endpointer.   *)
(*                                                                         *)
(* A frame is its number, which is also its capture time; audio is the     *)
(* sequence of the frames it holds; durations are counted in frames.  The  *)
(* verdicts of the voice and wake-word models are inputs.                  *)
(***************************************************************************)
EXTENDS Integers, Sequences, SequencesExt

CONSTANTS
    MinSpeech,      \* vad.min_speech_ms
    Hangovers,      \* the values a reload gives vad.hangover_ms
    PrePad,         \* utterance.pre_padding_ms
    MaxDuration,    \* utterance.max_duration_ms
    Window,         \* wake_word.followup_window_ms
    MaxFrames,      \* bound: frames captured
    MaxToggles      \* bound: /mute and /unmute

ASSUME ListeningAssumption ==
    /\ {MinSpeech, PrePad, MaxDuration, Window, MaxFrames, MaxToggles} \subseteq Nat
    /\ Hangovers \subseteq Nat \ {0} /\ Hangovers # {}

VARIABLES
    clock,      \* frames captured so far
    muted, toggles,
    cfgHangover,
    wake,       \* the wake-word engine: off, on, or enabled and not loaded
    pipe,       \* the pipeline's own state
    endp,       \* the endpointer's
    buf,        \* the utterance buffer's
    events,     \* the last event, the frames of the last SpeechStarted and SpeechEnded,
                \* and where the last utterance was over, announced or not
    stream,     \* what the live sink was given of the current utterance
    slice,      \* the last utterance published
    torn,       \* history: the gate closed in mid-utterance
    capped      \* history: the cap removed audio of the current utterance

listeningVars == <<clock, muted, toggles, cfgHangover, wake, pipe, endp, buf, events,
                   stream, slice, torn, capped>>

ListeningInit ==
    /\ clock = 0 /\ muted = FALSE /\ toggles = 0
    /\ cfgHangover \in Hangovers
    /\ wake \in {"off", "on", "down"}
    /\ pipe = [prevMuted |-> FALSE, inSpeech |-> FALSE, carry |-> <<>>,
               stamp |-> 0, wasOpen |-> FALSE]
    /\ endp = [st |-> "Quiet", speech |-> 0, quiet |-> 0]
    /\ buf = [rec |-> FALSE, pre |-> <<>>, active |-> <<>>]
    /\ events = [last |-> "none", begun |-> 0, done |-> 0, cut |-> 0]
    /\ stream = <<>> /\ slice = <<>> /\ torn = FALSE /\ capped = FALSE

ListeningTypeOK ==
    /\ clock \in 0 .. MaxFrames /\ muted \in BOOLEAN /\ toggles \in 0 .. MaxToggles
    /\ pipe.stamp \in 0 .. clock /\ pipe.inSpeech \in BOOLEAN
    /\ endp.st \in {"Quiet", "Onset", "Speaking", "Endpoint"}
    /\ endp.speech \in 0 .. MaxFrames /\ endp.quiet \in 0 .. MaxFrames
    /\ Len(buf.pre) <= PrePad /\ Len(buf.active) <= MaxDuration
    /\ events.begun \in 0 .. clock /\ events.done \in 0 .. clock

-----------------------------------------------------------------------------
(* The endpointer: its next state and its outcome for one frame.           *)

Verdicts == {"above", "band", "below"}

To(e, outcome) == [e |-> e, outcome |-> outcome]

FromQuiet(v, d) ==
    To(IF v = "above" THEN [st |-> "Onset", speech |-> d, quiet |-> 0] ELSE endp, "None")

FromOnset(v, d) ==
    CASE v = "above" /\ endp.speech + d >= MinSpeech ->
            To([st |-> "Speaking", speech |-> endp.speech + d, quiet |-> 0], "SpeechStarted")
      [] v = "above" /\ endp.speech + d < MinSpeech -> To([endp EXCEPT !.speech = @ + d], "None")
      [] v = "below" -> To([st |-> "Quiet", speech |-> 0, quiet |-> 0], "FalseStart")
      [] OTHER -> To(endp, "None")

FromSpeaking(v, d) ==
    CASE v = "above" -> To([endp EXCEPT !.speech = @ + d, !.quiet = 0], "None")
      [] v = "below" -> To([endp EXCEPT !.st = "Endpoint", !.quiet = d], "None")
      [] OTHER -> To([endp EXCEPT !.speech = @ + d], "None")

FromEndpoint(v, d) ==
    IF v = "above" THEN To([st |-> "Speaking", speech |-> endp.speech + d, quiet |-> 0], "None")
    ELSE LET over == endp.quiet + d >= cfgHangover
         IN  To([endp EXCEPT !.quiet = @ + d, !.st = IF over THEN "Quiet" ELSE @],
                IF over THEN "SpeechEnded" ELSE "None")

OnFrame(v, d) ==
    CASE endp.st = "Quiet" -> FromQuiet(v, d)
      [] endp.st = "Onset" -> FromOnset(v, d)
      [] endp.st = "Speaking" -> FromSpeaking(v, d)
      [] OTHER -> FromEndpoint(v, d)

InUtterance == endp.st \in {"Speaking", "Endpoint"}

(* Mutant of ForceEndpoint: a hangover that has begun is left to run out.  *)
ForceEndpointSpeakingOnly == endp' = IF endp.st = "Endpoint" THEN endp ELSE [endp EXCEPT !.st = "Quiet"]

ForceEndpoint == endp' = [endp EXCEPT !.st = "Quiet"]

-----------------------------------------------------------------------------
(* The utterance buffer.                                                   *)

\* The last n elements: what the caps keep.
LastOf(s, n) == IF Len(s) <= n THEN s ELSE SubSeq(s, Len(s) - n + 1, Len(s))

Buffered(chunk) ==
    IF buf.rec THEN [buf EXCEPT !.active = LastOf(@ \o chunk, MaxDuration)]
    ELSE [buf EXCEPT !.pre = LastOf(@ \o chunk, PrePad)]

Overflows(chunk) == buf.rec /\ Len(buf.active \o chunk) > MaxDuration

(* Mutant of OnSpeechStarted: a recording that was left open is kept. *)
OnSpeechStartedKeeps(b) ==
    [rec |-> TRUE, active |-> IF b.rec THEN b.active \o b.pre ELSE b.pre, pre |-> <<>>]

OnSpeechStarted(b) == [rec |-> TRUE, active |-> b.pre, pre |-> <<>>]

OnSpeechEnded(b) == [b EXCEPT !.rec = FALSE, !.active = <<>>]

-----------------------------------------------------------------------------
(* process_frame.                                                          *)

Publish(kind) ==
    events' = [events EXCEPT !.last = kind,
                             !.begun = IF kind = "started" THEN clock' ELSE @,
                             !.done = IF kind = "ended" THEN clock' ELSE @,
                             !.cut = IF kind = "ended" THEN clock' ELSE @]

\* The capture callback lost the frame: the ring was full or the half-duplex gate closed.
FrameLost ==
    /\ clock < MaxFrames
    /\ clock' = clock + 1
    /\ UNCHANGED <<muted, toggles, cfgHangover, wake, pipe, endp, buf, events, stream, slice,
                   torn, capped>>

MutedFrame ==
    /\ clock < MaxFrames /\ muted
    /\ clock' = clock + 1
    /\ IF pipe.prevMuted THEN UNCHANGED <<endp, events, pipe>>
       ELSE /\ ForceEndpoint
            /\ IF InUtterance THEN Publish("ended") ELSE UNCHANGED events
            /\ pipe' = [pipe EXCEPT !.prevMuted = TRUE,
                                    !.inSpeech = @ /\ ~InUtterance]
    /\ UNCHANGED <<muted, toggles, cfgHangover, wake, buf, stream, slice, torn, capped>>

\* The resampler or the canceller has no complete block yet.
FrameHeld ==
    /\ clock < MaxFrames /\ ~muted /\ pipe.carry = <<>>
    /\ clock' = clock + 1
    /\ pipe' = [pipe EXCEPT !.prevMuted = FALSE, !.carry = <<clock'>>]
    /\ UNCHANGED <<muted, toggles, cfgHangover, wake, endp, buf, events, stream, slice, torn, capped>>

\* The gate of this frame; score: the wake-word model fired on it.
Stamp(score) == IF wake = "on" /\ score THEN clock + 1 ELSE pipe.stamp
GateOpen(score) == wake = "off" \/ (Stamp(score) # 0 /\ clock + 1 - Stamp(score) <= Window)

Advance(score, inSpeech) ==
    pipe' = [prevMuted |-> FALSE, carry |-> <<>>, inSpeech |-> inSpeech,
             stamp |-> Stamp(score), wasOpen |-> wake # "off" /\ GateOpen(score)]

\* The gate is closed: the detector does not see the frame.
FrameGated(score) ==
    LET chunk == Append(pipe.carry, clock + 1)
    IN  /\ clock < MaxFrames /\ ~muted /\ ~GateOpen(score)
        /\ clock' = clock + 1
        /\ buf' = Buffered(chunk)
        /\ IF pipe.wasOpen
           THEN /\ ForceEndpoint /\ Advance(score, FALSE)
                /\ torn' = (torn \/ InUtterance)
                /\ events' = [events EXCEPT !.cut = IF InUtterance THEN clock' ELSE @]
           ELSE Advance(score, pipe.inSpeech) /\ UNCHANGED <<endp, torn, events>>
        /\ capped' = (capped \/ Overflows(chunk))
        /\ UNCHANGED <<muted, toggles, cfgHangover, wake, stream, slice>>

Started(score, chunk, buffered) ==
    /\ buf' = OnSpeechStarted(buffered)
    /\ stream' = buffered.pre \o chunk
    /\ Publish("started") /\ Advance(score, TRUE)
    /\ torn' = FALSE /\ capped' = FALSE
    /\ UNCHANGED slice

\* loud: the slice passes the RMS gate.
Ended(score, streamed, buffered, loud) ==
    /\ buf' = OnSpeechEnded(buffered)
    /\ slice' = IF buffered.rec /\ loud THEN buffered.active ELSE slice
    /\ stream' = streamed
    /\ Publish("ended") /\ Advance(score, FALSE)
    /\ UNCHANGED torn

FrameHeard(v, score, loud) ==
    LET chunk == Append(pipe.carry, clock + 1)
        buffered == Buffered(chunk)
        streamed == IF pipe.inSpeech THEN stream \o chunk ELSE stream
        step == OnFrame(v, Len(chunk))
    IN  /\ clock < MaxFrames /\ ~muted /\ GateOpen(score)
        /\ clock' = clock + 1 /\ endp' = step.e
        /\ CASE step.outcome = "SpeechStarted" -> Started(score, chunk, buffered)
             [] step.outcome = "SpeechEnded" ->
                    /\ Ended(score, streamed, buffered, loud)
                    /\ capped' = (capped \/ Overflows(chunk))
             [] OTHER -> /\ buf' = buffered /\ stream' = streamed
                         /\ Advance(score, pipe.inSpeech)
                         /\ capped' = (capped \/ Overflows(chunk))
                         /\ UNCHANGED <<events, slice, torn>>
        /\ UNCHANGED <<muted, toggles, cfgHangover, wake>>

\* set_muted, from the HTTP thread.
Mute ==
    /\ toggles < MaxToggles
    /\ muted' = ~muted /\ toggles' = toggles + 1
    /\ UNCHANGED <<clock, cfgHangover, wake, pipe, endp, buf, events, stream, slice, torn, capped>>

\* Endpointer::update_thresholds, from a reload.
UpdateThresholds(h) ==
    /\ h # cfgHangover /\ clock < MaxFrames
    /\ cfgHangover' = h
    /\ UNCHANGED <<clock, muted, toggles, wake, pipe, endp, buf, events, stream, slice, torn, capped>>

ListeningNext ==
    \/ FrameLost \/ MutedFrame \/ FrameHeld \/ Mute
    \/ \E score \in BOOLEAN :
        \/ FrameGated(score)
        \/ \E v \in Verdicts, loud \in BOOLEAN : FrameHeard(v, score, loud)
    \/ \E h \in Hangovers : UpdateThresholds(h)

-----------------------------------------------------------------------------
(* Outside an utterance the wake-word window cut short, SpeechStarted and  *)
(* SpeechEnded alternate, and the pipeline, the endpointer and the last    *)
(* event agree on whether somebody speaks: the FSM is never left waiting   *)
(* for an end that the mute or a reload swallowed.                         *)
SpeechAlternates ==
    /\ pipe.inSpeech <=> InUtterance
    /\ (events.last = "started" /\ ~torn) <=> InUtterance

(* An ended utterance was begun before: SpeechEnded follows SpeechStarted, *)
(* whatever the mute, the reload and the gate do in between.               *)
EndsWhatBegan == [][events'.done # events.done => events.last = "started"]_listeningVars

(* A published utterance is in the order of capture, without a repetition, *)
(* and never reaches back into an earlier one, which may have been         *)
(* published, muted or cut off by the gate, and then was left recording    *)
(* (append, on_speech_started, on_speech_ended).                           *)
SlicesInOrder ==
    [][slice' # slice =>
        /\ \A i \in 1 .. Len(slice') - 1 : slice'[i] < slice'[i + 1]
        /\ \A i \in DOMAIN slice' : slice'[i] > events.cut]_listeningVars

(* The streaming path hears everything the request path transcribes: what  *)
(* a published utterance holds was given to the live sink, and the sink    *)
(* got no more than its first chunk besides (the frame that made it begin  *)
(* and one the canceller had held back), unless the cap removed some.      *)
StreamCoversSlice ==
    [][slice' # slice =>
        /\ Range(slice') \subseteq Range(stream')
        /\ \/ capped'
           \/ \E held \in 0 .. events.begun :
                 Range(stream') \ Range(slice') \subseteq {held, events.begun}]_listeningVars

(* An utterance that ends was begun, holds a stretch of what was captured, *)
(* and both ways to the transcription service get the same stretch.        *)
UtterancesAreWhole == EndsWhatBegan /\ SlicesInOrder /\ StreamCoversSlice
=============================================================================
