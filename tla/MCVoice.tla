------------------------------ MODULE MCVoice -------------------------------
(***************************************************************************)
(* The way from the microphone to the text and from the text to the audio, *)
(* component by component, for TLC.  The components share no variable, so  *)
(* a behaviour follows one of them and leaves the others in their initial  *)
(* state.                                                                  *)
(***************************************************************************)
EXTENDS SpscRing, HalfDuplex, Loopback, Listening,
        RealtimeStt, SpeechJobs, Envelope, TtsClient, SseParser, Splitter

CONSTANT Parts      \* the components explored

VARIABLE part

audioVars == <<ringVars, gateVars, loopVars, listeningVars>>
servicesVars == <<realtimeVars, jobsVars, envelopeVars, ttsClientVars, sseVars, splitterVars>>
vars == <<part, audioVars, servicesVars>>

Init ==
    /\ RingInit /\ GateInit /\ LoopInit /\ ListeningInit
    /\ RealtimeInit /\ JobsInit /\ EnvelopeInit /\ TtsClientInit /\ SseInit /\ SplitterInit
    /\ part \in Parts
    /\ part # "jobs" => kind = "request"
    /\ part # "listening" => wake = "off" /\ \A h \in Hangovers : cfgHangover <= h

AudioNext ==
    \/ /\ part = "ring" /\ RingNext
       /\ UNCHANGED <<gateVars, loopVars, listeningVars>>
    \/ /\ part = "gate" /\ GateNext
       /\ UNCHANGED <<ringVars, loopVars, listeningVars>>
    \/ /\ part = "loopback" /\ LoopNext
       /\ UNCHANGED <<ringVars, gateVars, listeningVars>>
    \/ /\ part = "listening" /\ ListeningNext
       /\ UNCHANGED <<ringVars, gateVars, loopVars>>

ClientNext ==
    \/ /\ part = "realtime" /\ RealtimeNext
       /\ UNCHANGED <<jobsVars, envelopeVars, ttsClientVars, sseVars, splitterVars>>
    \/ /\ part = "jobs" /\ JobsNext
       /\ UNCHANGED <<realtimeVars, envelopeVars, ttsClientVars, sseVars, splitterVars>>
    \/ /\ part = "envelope" /\ EnvelopeNext
       /\ UNCHANGED <<realtimeVars, jobsVars, ttsClientVars, sseVars, splitterVars>>
    \/ /\ part = "tts" /\ TtsClientNext
       /\ UNCHANGED <<realtimeVars, jobsVars, envelopeVars, sseVars, splitterVars>>
    \/ /\ part = "sse" /\ SseNext
       /\ UNCHANGED <<realtimeVars, jobsVars, envelopeVars, ttsClientVars, splitterVars>>
    \/ /\ part = "splitter" /\ SplitterNext
       /\ UNCHANGED <<realtimeVars, jobsVars, envelopeVars, ttsClientVars, sseVars>>

Next ==
    /\ UNCHANGED part
    /\ \/ AudioNext /\ UNCHANGED servicesVars
       \/ ClientNext /\ UNCHANGED audioVars

\* The client's threads run and the channel delivers; a submission ends at its own
\* timeout; stop() goes on once it has begun.
Fairness ==
    /\ WF_realtimeVars(part = "realtime" /\ Starting)
    /\ WF_realtimeVars(part = "realtime" /\ Pipeline)
    /\ WF_realtimeVars(part = "realtime" /\ OnStarted)
    /\ WF_realtimeVars(part = "realtime" /\ OnEnded)
    /\ WF_realtimeVars(part = "realtime" /\ ServerReads)
    /\ WF_realtimeVars(part = "realtime" /\ OnMessage)
    /\ WF_jobsVars(part = "jobs" /\ Worker)
    /\ WF_jobsVars(part = "jobs" /\ StopNotifies)
    /\ WF_jobsVars(part = "jobs" /\ StopJoins)

Spec == Init /\ [][Next]_vars /\ Fairness

Shortened == {<<"a", "a">>}
=============================================================================
