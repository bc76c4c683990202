------------------------------ MODULE Loopback ------------------------------
(***************************************************************************)
(* The reference signal of the echo canceller (audio/loopback.cpp): the    *)
(* last samples played, in a circular buffer that is read by frame index.  *)
(* A sample is its frame index, so that a wrong slot shows.                *)
(***************************************************************************)
EXTENDS Integers

CONSTANTS
    LoopCapacity,   \* capacity_samples
    MaxEmitted      \* bound: samples emitted

ASSUME LoopAssumption == LoopCapacity \in Nat \ {0} /\ MaxEmitted \in Nat

VARIABLES loop, writePos, totalFrames, lastFirst

loopVars == <<loop, writePos, totalFrames, lastFirst>>

Silence == -1

LoopInit ==
    /\ loop = [i \in 0 .. LoopCapacity - 1 |-> Silence]
    /\ writePos = 0 /\ totalFrames = 0 /\ lastFirst = 0

\* The two copies of on_emitted: of n samples the last LoopCapacity are kept.
Written(n) ==
    LET kept == IF n < LoopCapacity THEN n ELSE LoopCapacity
    IN  [i \in DOMAIN loop |->
            LET k == (i + LoopCapacity - writePos) % LoopCapacity
            IN  IF k < kept THEN totalFrames + (n - kept) + k ELSE loop[i]]

(* Mutant of OnEmitted: the write position advances by all the samples. *)
OnEmittedLong(n) ==
    /\ totalFrames + n <= MaxEmitted
    /\ loop' = Written(n)
    /\ writePos' = (writePos + n + 1) % LoopCapacity
    /\ lastFirst' = totalFrames
    /\ totalFrames' = totalFrames + n

OnEmitted(n) ==
    /\ totalFrames + n <= MaxEmitted
    /\ loop' = Written(n)
    /\ writePos' = (writePos + (IF n < LoopCapacity THEN n ELSE LoopCapacity)) % LoopCapacity
    /\ lastFirst' = totalFrames + (IF n < LoopCapacity THEN 0 ELSE n - LoopCapacity)
    /\ totalFrames' = totalFrames + n

Clear == totalFrames > 0 /\ loop' = [i \in DOMAIN loop |-> Silence]
         /\ writePos' = 0 /\ totalFrames' = 0 /\ lastFirst' = 0

\* One sample of aligned(), delta frames after the last emission's first.
Aligned(delta) ==
    LET f == lastFirst + delta
        kept == IF totalFrames < LoopCapacity THEN totalFrames ELSE LoopCapacity
    IN  IF totalFrames = 0 \/ f < totalFrames - kept \/ f >= totalFrames THEN Silence
        ELSE loop[(writePos + LoopCapacity - (totalFrames - f)) % LoopCapacity]

LoopNext == (\E n \in 1 .. LoopCapacity + 1 : OnEmitted(n)) \/ Clear

(* Whatever sizes the emitted chunks had and wherever the write position   *)
(* wrapped, a frame index reads back the sample emitted at it while it is  *)
(* within the buffer, and silence outside (on_emitted, aligned).           *)
ReadsBackWhatWasPlayed ==
    \A delta \in -LoopCapacity - 1 .. LoopCapacity + 1 :
        LET f == lastFirst + delta
        IN  Aligned(delta) = IF f >= 0 /\ f >= totalFrames - LoopCapacity /\ f < totalFrames
                             THEN f ELSE Silence
=============================================================================
