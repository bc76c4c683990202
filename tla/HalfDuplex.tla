----------------------------- MODULE HalfDuplex -----------------------------
(***************************************************************************)
(* The half-duplex gate (audio/half_duplex_gate.hpp): the FSM's thread     *)
(* tells it when the assistant speaks, the audio callback asks it whether  *)
(* to drop a frame, and both use nothing but atomics.  Time is counted in  *)
(* frames.                                                                 *)
(***************************************************************************)
EXTENDS Integers

CONSTANT GateHangover   \* half_duplex_hangover_ms, in frames

ASSUME GateAssumption == GateHangover \in Nat

VARIABLES
    speaking, hangover,     \* speaking_, in_hangover_
    ended,                  \* age of ended_at_, capped
    setter,                 \* set_speaking: idle, anchor, arm, disarm
    asker,                  \* on_input: idle, or between its two tests
    frame                   \* history: what is known of the frame being decided

gateVars == <<speaking, hangover, ended, setter, asker, frame>>

\* clean: decided, and no set_speaking overlapped the test; drop: what it should have found.
NoFrame == [clean |-> FALSE, drop |-> FALSE, passed |-> FALSE]

GateInit ==
    /\ speaking = FALSE /\ hangover = FALSE /\ ended = GateHangover
    /\ setter = "idle" /\ asker = "idle" /\ frame = NoFrame

Overlap == frame' = [frame EXCEPT !.clean = FALSE]

\* The state observer calls set_speaking on the edges of Speaking only.
SetSpeaking ==
    /\ setter = "idle"
    /\ speaking' = ~speaking
    /\ setter' = IF speaking THEN "anchor" ELSE "disarm"
    /\ Overlap
    /\ UNCHANGED <<hangover, ended, asker>>

(* Mutant of SetterGoesOn: the hangover is never armed. *)
SetterForgets ==
    /\ setter # "idle"
    /\ setter' = "idle" /\ ended' = 0 /\ hangover' = FALSE /\ Overlap
    /\ UNCHANGED <<speaking, asker>>

SetterGoesOn ==
    /\ \/ setter = "anchor" /\ ended' = 0 /\ setter' = "arm" /\ UNCHANGED hangover
       \/ setter = "arm" /\ hangover' = TRUE /\ setter' = "idle" /\ UNCHANGED ended
       \/ setter = "disarm" /\ hangover' = FALSE /\ setter' = "idle" /\ UNCHANGED ended
    /\ Overlap
    /\ UNCHANGED <<speaking, asker>>

\* A frame arrives: the first test.
ShouldDrop ==
    /\ asker = "idle"
    /\ asker' = IF speaking THEN "idle" ELSE "asked"
    /\ frame' = [clean |-> setter = "idle", passed |-> FALSE,
                 drop |-> speaking \/ ended < GateHangover]
    /\ UNCHANGED <<speaking, hangover, ended, setter>>

\* The second test, and the frame goes to the ring or is dropped.
InHangover ==
    /\ asker = "asked"
    /\ asker' = "idle"
    /\ frame' = [frame EXCEPT !.passed = ~(hangover /\ ended < GateHangover)]
    /\ UNCHANGED <<speaking, hangover, ended, setter>>

FramePeriod ==
    /\ asker = "idle" /\ ended < GateHangover
    /\ ended' = ended + 1
    /\ frame' = NoFrame
    /\ UNCHANGED <<speaking, hangover, setter, asker>>

GateNext == SetSpeaking \/ SetterGoesOn \/ ShouldDrop \/ InHangover \/ FramePeriod

(* A frame passes exactly when the assistant does not speak and the        *)
(* hangover is over, unless set_speaking was running while it was decided. *)
GateDecides == (asker = "idle" /\ frame.clean) => (frame.passed <=> ~frame.drop)
=============================================================================
