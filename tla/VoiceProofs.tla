---------------------------- MODULE VoiceProofs -----------------------------
(***************************************************************************)
(* The way from the microphone to the text and from the text to the audio, *)
(* for every capacity, hangover and length of speech.                      *)
(*                                                                         *)
(* The three structures the audio callback shares with other threads keep  *)
(* their promises: the capture ring is a queue, the half-duplex gate       *)
(* decides as it should, and the reference buffer of the echo canceller    *)
(* reads back what was played.  The pipeline behind them publishes         *)
(* utterances one after the other, each of them whole.                     *)
(*                                                                         *)
(* The services that turn speech into text and text into speech: the       *)
(* text-to-speech request hands on its reply, the workers answer a job     *)
(* once, the streaming client gives the transcripts to the utterances they *)
(* belong to, and the reassembler returns fragmented events whole.         *)
(***************************************************************************)
EXTENDS SpscRing, HalfDuplex, Loopback, Listening,
        TtsClient, SpeechJobs, RealtimeStt, Envelope, Flows, TLAPS

-----------------------------------------------------------------------------
(* Arithmetic of the circular buffers: an index that has left 0 .. n - 1   *)
(* by less than n comes back by one addition or subtraction.               *)
LEMMA Wraps ==
    ASSUME NEW n \in Nat \ {0}, NEW i \in Int
    PROVE  /\ i \in 0 .. n - 1 => i % n = i
           /\ i \in n .. 2 * n - 1 => i % n = i - n
           /\ i \in -n .. -1 => i % n = i + n
<1>1. i \in 0 .. n - 1 => i % n = i
  BY Z3
<1>2. i \in n .. 2 * n - 1 => i % n = i - n
  BY Z3
<1>3. i \in -n .. -1 => i % n = i + n
  BY Z3
<1> QED
  BY <1>1, <1>2, <1>3

-----------------------------------------------------------------------------
(* The capture ring. *)

(* What the two threads know between their steps: while the producer has a *)
(* slot in hand the ring is not full and, once written, the slot holds the *)
(* item; while the consumer has one the ring is not empty and, once read,  *)
(* the item it moved out is still the one in the slot.                     *)
RingInv ==
    /\ head \in Slots /\ tail \in Slots /\ slots \in [Slots -> Nat]
    /\ push \in {"idle", "write", "store"} /\ pop \in {"idle", "read", "store"}
    /\ sent \in Nat
    /\ push # "idle" => Masked(tail + 1) # head
    /\ push = "store" => slots[tail] = sent + 1
    /\ pop # "idle" => head # tail
    /\ pop = "store" => out = slots[head]

Held == [i \in 1 .. Size |-> slots[Masked(head + i - 1)]]

(* & kMask without the modulus. *)
LEMMA MaskedIs ==
    \A k \in -RingCapacity .. 2 * RingCapacity - 1 :
        Masked(k) = IF k < 0 THEN k + RingCapacity
                    ELSE IF k < RingCapacity THEN k ELSE k - RingCapacity
<1> SUFFICES ASSUME NEW k \in -RingCapacity .. 2 * RingCapacity - 1
             PROVE  Masked(k) = IF k < 0 THEN k + RingCapacity
                                ELSE IF k < RingCapacity THEN k ELSE k - RingCapacity
  OBVIOUS
<1>1. RingCapacity \in Nat \ {0} /\ k \in Int
  BY RingAssumption DEF RingAssumption
<1>2. \/ k < 0 /\ k \in -RingCapacity .. -1
      \/ k >= 0 /\ k < RingCapacity /\ k \in 0 .. RingCapacity - 1
      \/ k >= RingCapacity /\ k \in RingCapacity .. 2 * RingCapacity - 1
  BY <1>1
<1>3. /\ k \in 0 .. RingCapacity - 1 => k % RingCapacity = k
      /\ k \in RingCapacity .. 2 * RingCapacity - 1 => k % RingCapacity = k - RingCapacity
      /\ k \in -RingCapacity .. -1 => k % RingCapacity = k + RingCapacity
  BY <1>1, Wraps
<1> QED
  BY <1>1, <1>2, <1>3 DEF Masked

(* Where the indices go. *)
LEMMA RingIndices ==
    ASSUME NEW h \in Slots, NEW t \in Slots
    PROVE  /\ Masked(t + 1) = IF t + 1 = RingCapacity THEN 0 ELSE t + 1
           /\ Masked(t - h) = IF h <= t THEN t - h ELSE t - h + RingCapacity
           /\ \A i \in 1 .. RingCapacity :
                  Masked(h + i - 1) = IF h + i - 1 < RingCapacity THEN h + i - 1
                                      ELSE h + i - 1 - RingCapacity
  BY MaskedIs, RingAssumption DEF RingAssumption, Slots

LEMMA RingStep == RingInv /\ [RingNext]_ringVars => RingInv'
<1> SUFFICES ASSUME RingInv, [RingNext]_ringVars PROVE RingInv'
  OBVIOUS
<1> USE RingAssumption DEF RingInv
<1>0. /\ Masked(tail + 1) = IF tail + 1 = RingCapacity THEN 0 ELSE tail + 1
      /\ Masked(head + 1) = IF head + 1 = RingCapacity THEN 0 ELSE head + 1
  BY RingIndices
<1>i. /\ Masked(tail + 1) \in Slots /\ Masked(tail + 1) # tail
      /\ Masked(head + 1) \in Slots /\ Masked(head + 1) # head
      /\ head # tail => Masked(head + 1) # Masked(tail + 1)
  BY <1>0 DEF Slots, RingAssumption
<1>1. CASE PushLoad
  BY <1>1 DEF PushLoad
<1>2. CASE PushWrite
  <2>1. \A i \in Slots \ {tail} : slots'[i] = slots[i]
    BY <1>2 DEF PushWrite
  <2>2. slots' \in [Slots -> Nat] /\ slots'[tail] = sent + 1
    BY <1>2 DEF PushWrite
  <2> QED
    BY <1>2, <2>1, <2>2 DEF PushWrite
<1>3. CASE PushStore
  <2>1. pop # "idle" => head # Masked(tail + 1)
    BY <1>3 DEF PushStore
  <2> QED
    BY <1>i, <1>3, <2>1 DEF PushStore
<1>4. CASE PopLoad
  BY <1>4 DEF PopLoad
<1>5. CASE PopRead
  BY <1>5 DEF PopRead
<1>6. CASE PopStore
  <2>1. push # "idle" => Masked(tail + 1) # Masked(head + 1)
    BY <1>i, <1>6 DEF PopStore
  <2> QED
    BY <1>i, <1>6, <2>1 DEF PopStore
<1>7. CASE UNCHANGED ringVars
  BY <1>7 DEF ringVars
<1> QED
  BY <1>1, <1>2, <1>3, <1>4, <1>5, <1>6, <1>7 DEF RingNext

(* What the steps do to the items the ring holds. *)
LEMMA RingHolds ==
    ASSUME RingInv
    PROVE  /\ Size \in 0 .. RingCapacity - 1
           /\ Size = 0 <=> head = tail
           /\ Size = RingCapacity - 1 <=> Masked(tail + 1) = head
           /\ Held \in Seq(Nat) /\ Len(Held) = Size
<1> USE RingAssumption DEF RingInv
<1>1. Size = (IF head <= tail THEN tail - head ELSE tail - head + RingCapacity)
      /\ Masked(tail + 1) = IF tail + 1 = RingCapacity THEN 0 ELSE tail + 1
  BY RingIndices DEF Size
<1>2. /\ Size \in 0 .. RingCapacity - 1 /\ (Size = 0 <=> head = tail)
      /\ (Size = RingCapacity - 1 <=> Masked(tail + 1) = head)
  BY <1>1 DEF Slots, RingAssumption
<1>3. \A i \in 1 .. Size : Masked(head + i - 1) \in Slots
  BY <1>2, MaskedIs DEF Slots, RingAssumption
<1>4. Held \in [1 .. Size -> Nat]
  BY <1>3 DEF Held
<1> QED
  BY <1>2, <1>4

(* Every step of push() and pop() is an Offer, a Take or invisible. *)
LEMMA RingRefines ==
    RingInv /\ RingInv' /\ [RingNext]_ringVars => [Queue!Next]_<<Held, sent, got>>
<1> SUFFICES ASSUME RingInv, RingInv', [RingNext]_ringVars
             PROVE  [Queue!Next]_<<Held, sent, got>>
  OBVIOUS
<1> USE RingAssumption DEF RingAssumption
<1>h. /\ Size \in 0 .. RingCapacity - 1
      /\ Size = 0 <=> head = tail
      /\ Size = RingCapacity - 1 <=> Masked(tail + 1) = head
      /\ Held \in Seq(Nat) /\ Len(Held) = Size
  BY RingHolds
<1>n. head \in 0 .. RingCapacity - 1 /\ tail \in 0 .. RingCapacity - 1
  BY DEF RingInv, Slots
<1>1. CASE PushLoad
  <2>1. UNCHANGED <<Held, got>>
    BY <1>1 DEF PushLoad, Held, Size, Masked
  <2>2. CASE Masked(tail + 1) = head
    <3>1. sent' = sent + 1 /\ Len(Held) = RingCapacity - 1
      BY <1>1, <1>h, <2>2 DEF PushLoad
    <3> QED
      BY <2>1, <3>1 DEF Queue!Next, Queue!Offer, Held
  <2>3. CASE Masked(tail + 1) # head
    BY <1>1, <2>1, <2>3 DEF PushLoad
  <2> QED
    BY <2>2, <2>3
<1>2. CASE PushWrite
  <2>1. \A i \in 1 .. Size : Masked(head + i - 1) \in Slots \ {tail}
    <3>1. Size = IF head <= tail THEN tail - head ELSE tail - head + RingCapacity
      BY RingIndices DEF Size, RingInv
    <3>2. ASSUME NEW i \in 1 .. Size PROVE Masked(head + i - 1) \in Slots \ {tail}
      <4>1. i \in 1 .. RingCapacity /\ Size \in Int /\ i <= Size
        BY <1>h
      <4>2. Masked(head + i - 1) = IF head + i - 1 < RingCapacity THEN head + i - 1
                                   ELSE head + i - 1 - RingCapacity
        BY <4>1, RingIndices DEF RingInv
      <4> QED
        BY <1>n, <3>1, <4>1, <4>2 DEF Slots
    <3> QED
      BY <3>2
  <2>2. \A i \in Slots \ {tail} : slots'[i] = slots[i]
    BY <1>2 DEF PushWrite, RingInv
  <2>3. Size' = Size /\ head' = head
    BY <1>2 DEF PushWrite, Size, Masked
  <2>4. Held' = Held
    BY <2>1, <2>2, <2>3 DEF Held, Masked
  <2> QED
    BY <1>2, <2>4 DEF PushWrite
<1>3. CASE PushStore
  <2>1. Size < RingCapacity - 1
    BY <1>3, <1>h DEF PushStore, RingInv
  <2>0. Size = IF head <= tail THEN tail - head ELSE tail - head + RingCapacity
    BY RingIndices DEF Size, RingInv
  <2>2. Size = (IF head <= tail THEN tail - head ELSE tail - head + RingCapacity)
        /\ Size' = (IF head <= tail' THEN tail' - head ELSE tail' - head + RingCapacity)
        /\ tail' = IF tail + 1 = RingCapacity THEN 0 ELSE tail + 1
    BY <1>3, RingIndices DEF Size, RingInv, PushStore, Masked
  <2>3. Size' = Size + 1
    BY <2>1, <2>2 DEF RingInv, Slots
  <2>4. Masked(head + Size) = tail
    <3>1. head \in Int /\ Size \in Int /\ head + Size \in 0 .. 2 * RingCapacity - 1
      BY <1>h DEF RingInv, Slots
    <3>2. Masked(head + Size) = IF head + Size < RingCapacity THEN head + Size
                                ELSE head + Size - RingCapacity
      BY <3>1, MaskedIs
    <3> QED
      BY <1>n, <2>0, <3>1, <3>2
  <2>5. Held' = [i \in 1 .. Size + 1 |-> slots[Masked(head + i - 1)]]
    BY <1>3, <2>3 DEF PushStore, Held, Masked
  <2>6. Append(Held, sent + 1) = [i \in 1 .. Size + 1 |-> IF i <= Size THEN Held[i] ELSE sent + 1]
    BY <1>h
  <2>7. \A i \in 1 .. Size + 1 : slots[Masked(head + i - 1)] = IF i <= Size THEN Held[i] ELSE sent + 1
    <3>1. slots[tail] = sent + 1
      BY <1>3 DEF PushStore, RingInv
    <3>2. ASSUME NEW i \in 1 .. Size + 1, i > Size PROVE Masked(head + i - 1) = tail
      <4>1. i = Size + 1 /\ head + i - 1 = head + Size
        BY <1>h, <3>2 DEF RingInv, Slots
      <4> QED
        BY <4>1, <2>4
    <3>3. ASSUME NEW i \in 1 .. Size + 1, i <= Size PROVE Held[i] = slots[Masked(head + i - 1)]
      BY <1>h, <3>3 DEF Held
    <3> QED
      BY <1>h, <3>1, <3>2, <3>3
  <2>8. Held' = Append(Held, sent + 1)
    BY <2>5, <2>6, <2>7
  <2>9. Len(Held) < RingCapacity - 1 /\ sent' = sent + 1 /\ got' = got
    BY <1>3, <1>h, <2>1 DEF PushStore
  <2> QED
    BY <2>8, <2>9 DEF Queue!Next, Queue!Offer, Held
<1>4. CASE PopLoad
  BY <1>4 DEF PopLoad, Held, Size, Masked
<1>5. CASE PopRead
  BY <1>5 DEF PopRead, Held, Size, Masked
<1>6. CASE PopStore
  <2>1. Size > 0 /\ got' = slots[head] /\ sent' = sent
    BY <1>6, <1>h DEF PopStore, RingInv
  <2>2. Size = (IF head <= tail THEN tail - head ELSE tail - head + RingCapacity)
        /\ Size' = (IF head' <= tail THEN tail - head' ELSE tail - head' + RingCapacity)
        /\ head' = IF head + 1 = RingCapacity THEN 0 ELSE head + 1
    BY <1>6, RingIndices DEF Size, RingInv, PopStore, Masked
  <2>3. Size' = Size - 1
    BY <2>1, <2>2 DEF RingInv, Slots
  <2>4. \A i \in 1 .. Size - 1 : Masked(head' + i - 1) = Masked(head + (i + 1) - 1)
    <3>1. ASSUME NEW i \in 1 .. Size - 1 PROVE Masked(head' + i - 1) = Masked(head + (i + 1) - 1)
      <4>1. i \in 1 .. RingCapacity /\ i + 1 \in 1 .. RingCapacity
        BY <1>h
      <4>2. head \in Slots /\ head' \in Slots
        BY DEF RingInv
      <4>3. Masked(head' + i - 1) = IF head' + i - 1 < RingCapacity THEN head' + i - 1
                                    ELSE head' + i - 1 - RingCapacity
        BY <4>1, <4>2, RingIndices
      <4>4. Masked(head + (i + 1) - 1) = IF head + (i + 1) - 1 < RingCapacity THEN head + (i + 1) - 1
                                         ELSE head + (i + 1) - 1 - RingCapacity
        BY <4>1, <4>2, RingIndices
      <4> QED
        BY <2>2, <4>1, <4>2, <4>3, <4>4 DEF Slots
    <3> QED
      BY <3>1
  <2>5. Held' = [i \in 1 .. Size - 1 |-> slots[Masked(head + (i + 1) - 1)]]
    BY <1>6, <2>3, <2>4 DEF PopStore, Held, Masked
  <2>6. Tail(Held) = [i \in 1 .. Size - 1 |-> Held[i + 1]]
    <3>1. Size \in Nat /\ Size > 0 /\ Held # <<>>
      BY <1>h, <2>1
    <3>2. /\ Tail(Held) \in Seq(Nat) /\ Len(Tail(Held)) = Size - 1
          /\ \A i \in 1 .. Size - 1 : Tail(Held)[i] = Held[i + 1]
      BY <1>h, <3>1
    <3>3. Tail(Held) \in [1 .. Size - 1 -> Nat]
      BY <3>2, LenProperties
    <3> QED
      BY <3>2, <3>3
  <2>7. \A i \in 1 .. Size - 1 : Held[i + 1] = slots[Masked(head + (i + 1) - 1)]
    BY <1>h DEF Held
  <2>8. Held' = Tail(Held)
    BY <2>5, <2>6, <2>7
  <2>9. Held # <<>> /\ Head(Held) = slots[head]
    <3>1. Held[1] = slots[Masked(head + 1 - 1)]
      BY <1>h, <2>1 DEF Held
    <3>2. Masked(head + 1 - 1) = head
      BY MaskedIs DEF RingInv, Slots
    <3> QED
      BY <1>h, <2>1, <3>1, <3>2
  <2> QED
    BY <2>1, <2>8, <2>9 DEF Queue!Next, Queue!Take, Held
<1>7. CASE UNCHANGED ringVars
  BY <1>7 DEF ringVars, Held, Size, Masked
<1> QED
  BY <1>1, <1>2, <1>3, <1>4, <1>5, <1>6, <1>7 DEF RingNext

(* The lock-free ring of the audio callback is a queue of RingCapacity - 1 *)
(* items, for every capacity: no interleaving of the index loads, the slot *)
(* accesses and the index stores loses, repeats or reorders an item, or    *)
(* refuses one while there is room.                                        *)
THEOREM RingImplementsFifo == RingInit /\ [][RingNext]_ringVars => RingIsFifo
<1>1. RingInit => RingInv
  BY RingAssumption DEF RingAssumption, RingInit, RingInv, Slots
<1>2. RingInit => Queue!Init
  <2> SUFFICES ASSUME RingInit PROVE Queue!Init
    OBVIOUS
  <2>1. Size = 0 /\ Held \in Seq(Nat) /\ Len(Held) = Size
    BY <1>1, RingHolds DEF RingInit
  <2>2. Held = <<>>
    BY <2>1
  <2> QED
    BY <2>2 DEF Queue!Init, RingInit, Held
<1>3. RingInv /\ RingInv' /\ [RingNext]_ringVars
        => [Queue!Next]_<<[i \in 1 .. Size |-> slots[Masked(head + i - 1)]], sent, got>>
  BY RingRefines DEF Held
<1> QED
  BY <1>1, <1>2, <1>3, RingStep, PTL DEF RingIsFifo, Queue!Spec

-----------------------------------------------------------------------------
(* The half-duplex gate. *)

(* Whenever set_speaking is not running, the hangover is armed as long as  *)
(* it lasts; a frame whose first test has passed and that nothing has      *)
(* overlapped was asked about in the state the gate is still in.           *)
GateInv ==
    /\ speaking \in BOOLEAN /\ hangover \in BOOLEAN /\ ended \in 0 .. GateHangover
    /\ setter \in {"idle", "anchor", "arm", "disarm"} /\ asker \in {"idle", "asked"}
    /\ frame \in [clean : BOOLEAN, drop : BOOLEAN, passed : BOOLEAN]
    /\ setter \in {"anchor", "arm"} => ~speaking
    /\ setter = "disarm" => speaking
    /\ setter = "idle" /\ ~speaking /\ ended < GateHangover => hangover
    /\ asker = "asked" /\ frame.clean =>
          setter = "idle" /\ ~speaking /\ (frame.drop <=> ended < GateHangover)

(* The invariant and the property survive every step, whoever takes it. *)
LEMMA GateStep == GateInv /\ GateDecides /\ [GateNext]_gateVars => GateInv' /\ GateDecides'
<1> SUFFICES ASSUME GateInv, GateDecides, [GateNext]_gateVars PROVE GateInv' /\ GateDecides'
  OBVIOUS
<1> USE GateAssumption DEF GateAssumption, GateInv, GateDecides
<1>1. CASE SetSpeaking
  <2>1. frame' \in [clean : BOOLEAN, drop : BOOLEAN, passed : BOOLEAN] /\ frame'.clean = FALSE
    BY <1>1 DEF SetSpeaking, Overlap
  <2>2. speaking' \in BOOLEAN
    BY <1>1 DEF SetSpeaking
  <2> QED
    BY <1>1, <2>1, <2>2 DEF SetSpeaking
<1>2. CASE SetterGoesOn
  <2>1. frame' \in [clean : BOOLEAN, drop : BOOLEAN, passed : BOOLEAN] /\ frame'.clean = FALSE
    BY <1>2 DEF SetterGoesOn, Overlap
  <2>2. CASE setter = "anchor"
    <3>1. /\ ended' = 0 /\ setter' = "arm" /\ hangover' = hangover
          /\ speaking' = speaking /\ asker' = asker
      BY <1>2, <2>2 DEF SetterGoesOn
    <3> QED
      BY <2>1, <2>2, <3>1
  <2>3. CASE setter = "arm"
    <3>1. /\ ended' = ended /\ setter' = "idle" /\ hangover' = TRUE
          /\ speaking' = speaking /\ asker' = asker
      BY <1>2, <2>3 DEF SetterGoesOn
    <3> QED
      BY <2>1, <2>3, <3>1
  <2>4. CASE setter = "disarm"
    <3>1. /\ ended' = ended /\ setter' = "idle" /\ hangover' = FALSE
          /\ speaking' = speaking /\ asker' = asker
      BY <1>2, <2>4 DEF SetterGoesOn
    <3> QED
      BY <2>1, <2>4, <3>1
  <2> QED
    BY <1>2, <2>2, <2>3, <2>4 DEF SetterGoesOn
<1>3. CASE ShouldDrop
  BY <1>3 DEF ShouldDrop
<1>4. CASE InHangover
  BY <1>4 DEF InHangover
<1>5. CASE FramePeriod
  BY <1>5 DEF FramePeriod, NoFrame
<1>6. CASE UNCHANGED gateVars
  BY <1>6 DEF gateVars
<1> QED
  BY <1>1, <1>2, <1>3, <1>4, <1>5, <1>6 DEF GateNext

(* For every hangover, a frame that set_speaking did not overlap is passed *)
(* exactly when the assistant is silent and the hangover over, although    *)
(* on_input reads the atomics one after the other.                         *)
THEOREM GateCorrect == GateInit /\ [][GateNext]_gateVars => []GateDecides
<1>1. GateInit => GateInv /\ GateDecides
  <2> SUFFICES ASSUME GateInit PROVE GateInv /\ GateDecides
    OBVIOUS
  <2>1. ended \in 0 .. GateHangover /\ ~(ended < GateHangover)
    BY GateAssumption DEF GateAssumption, GateInit
  <2>2. frame \in [clean : BOOLEAN, drop : BOOLEAN, passed : BOOLEAN] /\ frame.clean = FALSE
    BY DEF GateInit, NoFrame
  <2>3. speaking \in BOOLEAN /\ hangover \in BOOLEAN /\ ~speaking
    BY DEF GateInit
  <2>4. setter = "idle" /\ asker = "idle"
    BY DEF GateInit
  <2> QED
    BY <2>1, <2>2, <2>3, <2>4 DEF GateInv, GateDecides
<1> QED
  BY <1>1, GateStep, PTL

-----------------------------------------------------------------------------
(* The reference buffer of the echo canceller. *)

(* d samples back from the write position lies the sample emitted d before *)
(* the last one, as far as anything was emitted.                           *)
LoopInv ==
    /\ writePos \in 0 .. LoopCapacity - 1 /\ totalFrames \in Nat /\ lastFirst \in Int
    /\ loop \in [0 .. LoopCapacity - 1 -> Int]
    /\ \A d \in 1 .. LoopCapacity :
          d <= totalFrames => loop[(writePos + LoopCapacity - d) % LoopCapacity] = totalFrames - d

Around(k) == k % LoopCapacity

LEMMA AroundIs ==
    \A k \in 0 .. 2 * LoopCapacity - 1 :
        Around(k) = IF k < LoopCapacity THEN k ELSE k - LoopCapacity
<1> SUFFICES ASSUME NEW k \in 0 .. 2 * LoopCapacity - 1
             PROVE  Around(k) = IF k < LoopCapacity THEN k ELSE k - LoopCapacity
  OBVIOUS
<1>1. LoopCapacity \in Nat \ {0} /\ k \in Int
  BY LoopAssumption DEF LoopAssumption
<1>2. \/ k < LoopCapacity /\ k \in 0 .. LoopCapacity - 1
      \/ k >= LoopCapacity /\ k \in LoopCapacity .. 2 * LoopCapacity - 1
  BY <1>1
<1>3. /\ k \in 0 .. LoopCapacity - 1 => k % LoopCapacity = k
      /\ k \in LoopCapacity .. 2 * LoopCapacity - 1 => k % LoopCapacity = k - LoopCapacity
  BY <1>1, Wraps
<1> QED
  BY <1>1, <1>2, <1>3 DEF Around

(* The arithmetic of the two copies: after k samples were written behind   *)
(* position w, the slot d back from the new position is the (k - d)th one  *)
(* just written, or the slot d - k back from the old position.             *)
LEMMA SlotOf ==
    ASSUME NEW C \in Nat, NEW w \in 0 .. C - 1, NEW k \in 0 .. C, NEW d \in 1 .. C,
           NEW v, v = IF w + k < C THEN w + k ELSE w + k - C,
           NEW i, i = IF v >= d THEN v - d ELSE v + C - d
    PROVE  /\ v \in 0 .. C - 1 /\ i \in 0 .. C - 1
           /\ d <= k => (IF i < w THEN i + C - w ELSE i - w) = k - d
           /\ d > k => /\ (IF i < w THEN i + C - w ELSE i - w) = C + k - d
                       /\ i = IF w >= d - k THEN w - (d - k) ELSE w + C - (d - k)
<1>1. C \in Int /\ w \in Int /\ k \in Int /\ d \in Int /\ v \in Int /\ i \in Int
  OBVIOUS
<1> QED
  BY <1>1

(* An emission of any length keeps the order of the samples. *)
LEMMA EmissionKeepsOrder ==
    ASSUME LoopInv, NEW n \in Nat, OnEmitted(n)
    PROVE  LoopInv'
<1> USE LoopAssumption DEF LoopAssumption
<1> DEFINE C == LoopCapacity
           kept == IF n < LoopCapacity THEN n ELSE LoopCapacity
<1>t. /\ C \in Nat \ {0} /\ C \in Int /\ writePos \in 0 .. C - 1 /\ writePos \in Int
      /\ totalFrames \in Nat /\ totalFrames \in Int /\ lastFirst \in Int
      /\ loop \in [0 .. C - 1 -> Int] /\ kept \in 0 .. C /\ kept \in Int /\ kept <= n
      /\ n \in Int /\ n < C => kept = n
      /\ n < C \/ kept = C
  BY DEF LoopInv
<1>1. /\ totalFrames' = totalFrames + n
      /\ writePos' = Around(writePos + kept)
      /\ loop' = [i \in 0 .. C - 1 |->
                     LET k == Around(i + C - writePos)
                     IN  IF k < kept THEN totalFrames + (n - kept) + k ELSE loop[i]]
      /\ lastFirst' \in Int
  BY <1>t DEF OnEmitted, Written, Around
<1> HIDE DEF kept
<1>2. writePos' = IF writePos + kept < C THEN writePos + kept ELSE writePos + kept - C
  <2>1. writePos + kept \in 0 .. 2 * C - 1
    BY <1>t
  <2> HIDE DEF C
  <2>2. Around(writePos + kept) = IF writePos + kept < LoopCapacity THEN writePos + kept
                                  ELSE writePos + kept - LoopCapacity
    BY <1>t, <2>1, AroundIs DEF C
  <2> QED
    BY <1>1, <2>2 DEF C
<1>v. writePos' \in 0 .. C - 1 /\ writePos' \in Int
  BY <1>t, <1>2
<1>3. ASSUME NEW i \in 0 .. C - 1
      PROVE  /\ Around(i + C - writePos) \in Int
             /\ Around(i + C - writePos) = IF i < writePos THEN i + C - writePos ELSE i - writePos
  <2>1. i + C - writePos \in 0 .. 2 * LoopCapacity - 1 /\ i \in Int
    BY <1>t
  <2>2. Around(i + C - writePos) = IF i + C - writePos < C THEN i + C - writePos
                                   ELSE i + C - writePos - C
    BY <1>t, <2>1, AroundIs
  <2> QED
    BY <1>t, <2>1, <2>2
<1>w. ASSUME NEW w \in 0 .. C - 1, NEW d \in 1 .. C
      PROVE  Around(w + C - d) = IF w >= d THEN w - d ELSE w + C - d
  <2>1. w + C - d \in 0 .. 2 * C - 1 /\ w \in Int /\ d \in Int
    BY <1>t
  <2>2. Around(w + C - d) = IF w + C - d < C THEN w + C - d ELSE w + C - d - C
    BY <2>1, AroundIs
  <2> QED
    BY <1>t, <2>1, <2>2
<1>4. loop' \in [0 .. C - 1 -> Int]
  <2>1. ASSUME NEW i \in 0 .. C - 1
        PROVE  (LET k == Around(i + C - writePos)
                IN  IF k < kept THEN totalFrames + (n - kept) + k ELSE loop[i]) \in Int
    <3>1. Around(i + C - writePos) \in Int /\ loop[i] \in Int
      BY <1>t, <1>3
    <3>2. totalFrames + (n - kept) + Around(i + C - writePos) \in Int
      BY <1>t, <3>1
    <3> QED
      BY <3>1, <3>2
  <2> QED
    BY <1>1, <2>1
<1>5. ASSUME NEW d \in 1 .. C, d <= totalFrames'
      PROVE  loop'[Around(writePos' + C - d)] = totalFrames' - d
  <2> DEFINE i == IF writePos' >= d THEN writePos' - d ELSE writePos' + C - d
             k == IF i < writePos THEN i + C - writePos ELSE i - writePos
  <2>1. Around(writePos' + C - d) = i
    BY <1>v, <1>w
  <2>2. /\ i \in 0 .. C - 1
        /\ d <= kept => k = kept - d
        /\ d > kept => /\ k = C + kept - d
                       /\ i = IF writePos >= d - kept THEN writePos - (d - kept)
                              ELSE writePos + C - (d - kept)
    BY <1>t, <1>2, SlotOf
  <2> HIDE DEF i
  <2>3. Around(i + C - writePos) = k
    BY <1>3, <2>2
  <2>4. loop'[i] = IF k < kept THEN totalFrames + (n - kept) + k ELSE loop[i]
    BY <1>1, <2>2, <2>3
  <2> HIDE DEF k
  <2>5. d \in Int /\ totalFrames' \in Int
    BY <1>t, <1>1
  <2>6. CASE d <= kept
    <3>1. k = kept - d /\ k < kept
      BY <1>t, <2>2, <2>5, <2>6
    <3>2. loop'[i] = totalFrames + (n - kept) + (kept - d)
      BY <2>4, <3>1
    <3> QED
      BY <1>t, <1>1, <2>1, <2>5, <3>2
  <2>7. CASE d > kept
    <3>1. n < C /\ kept = n
      BY <1>t, <2>5, <2>7
    <3>2. d - kept \in 1 .. C /\ d - kept <= totalFrames
      BY <1>t, <1>1, <1>5, <2>5, <2>7, <3>1
    <3>3. ~(k < kept)
      BY <1>t, <2>2, <2>5, <2>7
    <3>4. Around(writePos + C - (d - kept)) = i
      BY <1>t, <1>w, <2>2, <2>7, <3>2
    <3>5. loop[Around(writePos + C - (d - kept))] = totalFrames - (d - kept)
      BY <3>2 DEF LoopInv, Around
    <3>6. loop'[i] = totalFrames - (d - kept)
      BY <2>4, <3>3, <3>4, <3>5
    <3> QED
      BY <1>t, <1>1, <2>1, <2>5, <3>1, <3>6
  <2> QED
    BY <1>t, <2>5, <2>6, <2>7
<1>6. totalFrames' \in Nat
  BY <1>t, <1>1
<1> QED
  BY <1>1, <1>v, <1>4, <1>5, <1>6 DEF LoopInv, Around

(* The buffer read by frame index, from the invariant. *)
LEMMA InvariantReadsBack == LoopInv => ReadsBackWhatWasPlayed
<1> USE LoopAssumption DEF LoopAssumption
<1> SUFFICES ASSUME LoopInv, NEW delta \in -LoopCapacity - 1 .. LoopCapacity + 1
             PROVE  Aligned(delta) =
                      IF lastFirst + delta >= 0 /\ lastFirst + delta >= totalFrames - LoopCapacity
                         /\ lastFirst + delta < totalFrames
                      THEN lastFirst + delta ELSE Silence
  BY DEF ReadsBackWhatWasPlayed
<1> DEFINE f == lastFirst + delta
<1>1. f \in Int /\ totalFrames \in Nat /\ writePos \in Int
  BY DEF LoopInv
<1>2. CASE f >= 0 /\ f >= totalFrames - LoopCapacity /\ f < totalFrames
  <2>1. totalFrames - f \in 1 .. LoopCapacity /\ totalFrames - f <= totalFrames
    BY <1>1, <1>2
  <2>2. loop[(writePos + LoopCapacity - (totalFrames - f)) % LoopCapacity] = totalFrames - (totalFrames - f)
    BY <2>1 DEF LoopInv
  <2>3. Aligned(delta) = loop[(writePos + LoopCapacity - (totalFrames - f)) % LoopCapacity]
    BY <1>1, <1>2 DEF Aligned
  <2> QED
    BY <1>1, <1>2, <2>2, <2>3
<1>3. CASE ~(f >= 0 /\ f >= totalFrames - LoopCapacity /\ f < totalFrames)
  BY <1>1, <1>3 DEF Aligned
<1> QED
  BY <1>2, <1>3

(* For every buffer size the canceller reads back, at every frame index    *)
(* within the buffer, the sample that was played at it, and silence        *)
(* elsewhere, wherever the chunks made the write position wrap.            *)
THEOREM LoopbackCorrect == LoopInit /\ [][LoopNext]_loopVars => []ReadsBackWhatWasPlayed
<1> USE LoopAssumption DEF LoopAssumption
<1>1. LoopInit => LoopInv
  BY DEF LoopInit, LoopInv, Silence
<1>2. LoopInv /\ [LoopNext]_loopVars => LoopInv'
  <2> SUFFICES ASSUME LoopInv, [LoopNext]_loopVars PROVE LoopInv'
    OBVIOUS
  <2>1. ASSUME NEW n \in 1 .. LoopCapacity + 1, OnEmitted(n) PROVE LoopInv'
    BY <2>1, EmissionKeepsOrder
  <2>2. CASE Clear
    BY <2>2 DEF Clear, LoopInv, Silence
  <2>3. CASE UNCHANGED loopVars
    BY <2>3 DEF loopVars, LoopInv
  <2> QED
    BY <2>1, <2>2, <2>3 DEF LoopNext
<1> QED
  BY <1>1, <1>2, InvariantReadsBack, PTL

-----------------------------------------------------------------------------
(* The listening pipeline. *)

Rising(s) == s \in Seq(Nat) /\ Ordered(s, Earlier)

\* The part of the utterance buffer in use; the other is empty.
Kept == IF buf.rec THEN buf.active ELSE buf.pre

EndpointerStates == [st : {"Quiet", "Onset", "Speaking", "Endpoint"}, speech : Nat, quiet : Nat]

BufferStates == [rec : BOOLEAN, pre : Seq(Nat), active : Seq(Nat)]
EventStates == [last : {"none", "started", "ended"}, begun : Nat, done : Nat, cut : Nat]
PipeStates == [prevMuted : BOOLEAN, inSpeech : BOOLEAN, carry : Seq(Nat), stamp : Nat,
               wasOpen : BOOLEAN]

ListeningShape ==
    /\ clock \in Nat /\ cfgHangover \in Nat
    /\ pipe \in PipeStates
    /\ Len(pipe.carry) <= 1
    /\ endp \in EndpointerStates
    /\ buf \in BufferStates
    /\ IF buf.rec THEN buf.pre = <<>> ELSE buf.active = <<>>
    /\ events \in EventStates
    /\ events.begun <= clock /\ events.cut <= clock
    /\ stream \in Seq(Nat) /\ torn \in BOOLEAN /\ capped \in BOOLEAN

\* What is kept and what the canceller holds back was captured in this order.
CapturedInOrder ==
    /\ Rising(Kept \o pipe.carry)
    /\ \A x \in Range(Kept \o pipe.carry) : x <= clock

\* Nothing kept for an utterance reaches back to an earlier one.
NothingOld ==
    ~buf.rec \/ InUtterance => \A x \in Range(Kept \o pipe.carry) : x > events.cut

Covers(heard, kept, cap, begun) ==
    /\ Range(kept) \subseteq Range(heard)
    /\ cap \/ \E held \in 0 .. begun : Range(heard) \ Range(kept) \subseteq {held, begun}

\* In an utterance the buffer records, the gate is open, and the sink gets what is recorded.
UtteranceRuns ==
    InUtterance => /\ buf.rec /\ (wake = "off" \/ pipe.wasOpen)
                   /\ Covers(stream, buf.active, capped, events.begun)

ListeningInv ==
    ListeningShape /\ CapturedInOrder /\ NothingOld /\ UtteranceRuns /\ SpeechAlternates

ListeningSafety == ListeningInit /\ [][ListeningNext]_listeningVars

(* The caps keep the end of what was there (UtteranceBuffer::append). *)
LEMMA LastOfKeeps ==
    ASSUME NEW s \in Seq(Nat), NEW n \in Nat
    PROVE  /\ LastOf(s, n) \in Seq(Nat) /\ Range(LastOf(s, n)) \subseteq Range(s)
           /\ Rising(s) => Rising(LastOf(s, n))
           /\ Len(s) <= n => LastOf(s, n) = s
<1>0. Len(s) \in Nat /\ DOMAIN s = 1 .. Len(s)
  OBVIOUS
<1>1. CASE Len(s) <= n
  BY <1>1 DEF LastOf
<1>2. CASE ~(Len(s) <= n)
  <2> DEFINE t == SubSeq(s, Len(s) - n + 1, Len(s))
             o == Len(s) - n
  <2>1. LastOf(s, n) = t
    BY <1>2 DEF LastOf
  <2>2. t \in Seq(Nat) /\ DOMAIN t = 1 .. n /\ \A i \in 1 .. n : t[i] = s[i + o]
    <3>1. o \in 1 .. Len(s) /\ t = SubSeq(s, o + 1, Len(s))
      BY <1>0, <1>2
    <3>2. Len(s) - o = n
      BY <1>0
    <3> HIDE DEF t, o
    <3>3. /\ t \in Seq(Nat) /\ Len(t) = Len(s) - o /\ DOMAIN t = 1 .. Len(t)
          /\ \A k \in 1 .. Len(t) : t[k] = s[k + o]
      BY <3>1, SuffixAt
    <3> QED
      BY <3>2, <3>3
  <2>3. o \in Nat /\ \A i \in 1 .. n : i + o \in DOMAIN s
    BY <1>0, <1>2
  <2> HIDE DEF t, o
  <2>4. Range(t) \subseteq Range(s)
    BY <2>2, <2>3 DEF Range
  <2>5. ASSUME Ordered(s, Earlier) PROVE Ordered(t, Earlier)
    <3> SUFFICES ASSUME NEW i \in 1 .. n, NEW j \in 1 .. n, i < j
                 PROVE  <<t[i], t[j]>> \in Earlier
      BY <2>2 DEF Ordered
    <3>1. i + o \in DOMAIN s /\ j + o \in DOMAIN s
      BY <2>3
    <3>3. i + o < j + o
      BY <2>3
    <3>2. <<s[i + o], s[j + o]>> \in Earlier
      BY <3>1, <3>3, <2>5 DEF Ordered
    <3> QED
      BY <3>2, <2>2
  <2> QED
    BY <2>1, <2>2, <2>4, <2>5, <1>2 DEF Rising
<1> QED
  BY <1>1, <1>2

(* A frame behind all that was captured keeps the order. *)
LEMMA OneMoreFrame ==
    ASSUME NEW s, NEW c \in Nat, Rising(s), \A x \in Range(s) : x <= c
    PROVE  /\ Rising(Append(s, c + 1)) /\ Range(Append(s, c + 1)) = Range(s) \cup {c + 1}
<1>1. s \in Seq(Nat) /\ c + 1 \in Nat /\ Ordered(s, Earlier)
  BY DEF Rising
<1>2. \A x \in Range(s) : x \in Nat
  BY <1>1 DEF Range
<1>3. \A x \in Range(s) : <<x, c + 1>> \in Earlier
  BY <1>1, <1>2 DEF Earlier
<1>4. Ordered(Append(s, c + 1), Earlier)
  BY <1>1, <1>3, AppendOrdered
<1>5. Append(s, c + 1) \in Seq(Nat) /\ Range(Append(s, c + 1)) = Range(s) \cup {c + 1}
  BY <1>1, AppendElems
<1> QED
  BY <1>4, <1>5 DEF Rising

(* The endpointer reports the transitions into and out of an utterance,    *)
(* each once (Endpointer::on_frame).                                       *)
LEMMA EndpointerSteps ==
    ASSUME ListeningShape, NEW v \in Verdicts, NEW d \in Nat, NEW step, step = OnFrame(v, d)
    PROVE  /\ step.e \in EndpointerStates
           /\ step.outcome = "SpeechStarted" => ~InUtterance /\ step.e.st = "Speaking"
           /\ step.outcome = "SpeechEnded" => InUtterance /\ step.e.st = "Quiet"
           /\ step.outcome \notin {"SpeechStarted", "SpeechEnded"} =>
                 (step.e.st \in {"Speaking", "Endpoint"} <=> InUtterance)
<1>a. endp \in EndpointerStates
  BY DEF ListeningShape
<1>b. /\ endp.speech \in Nat /\ endp.quiet \in Nat
      /\ endp.st \in {"Quiet", "Onset", "Speaking", "Endpoint"}
      /\ endp = [st |-> endp.st, speech |-> endp.speech, quiet |-> endp.quiet]
  BY <1>a DEF EndpointerStates
<1>c. endp.speech + d \in Nat /\ endp.quiet + d \in Nat
  BY <1>b
<1>d. \A x, o : To(x, o).e = x /\ To(x, o).outcome = o
  BY DEF To
<1>1. CASE endp.st = "Quiet"
  <2>1. step = FromQuiet(v, d)
    BY <1>1 DEF OnFrame
  <2> QED
    BY <2>1, <1>b, <1>1 DEF FromQuiet, To, EndpointerStates, InUtterance
<1>2. CASE endp.st = "Onset"
  <2>1. step = FromOnset(v, d)
    BY <1>2 DEF OnFrame
  <2>3. CASE v = "above" /\ endp.speech + d >= MinSpeech
    BY <2>3, <2>1, <1>b, <1>c, <1>2 DEF FromOnset, To, EndpointerStates, InUtterance
  <2>4. CASE v = "above" /\ ~(endp.speech + d >= MinSpeech)
    <3> DEFINE x == [endp EXCEPT !.speech = endp.speech + d]
    <3>0. v = "above" /\ endp.speech + d < MinSpeech
      BY <2>4, <1>c, ListeningAssumption
    <3>1. step = To(x, "None")
      BY <3>0, <2>4, <2>1 DEF FromOnset
    <3>2. x \in EndpointerStates /\ x.st = "Onset"
      BY <1>a, <1>c, <1>2 DEF EndpointerStates
    <3> HIDE DEF x
    <3>3. step.e = x /\ step.outcome = "None"
      BY <3>1, <1>d
    <3> QED
      BY <3>2, <3>3, <1>2 DEF InUtterance
  <2>5. CASE v = "below"
    BY <2>5, <2>1, <1>b, <1>2 DEF FromOnset, To, EndpointerStates, InUtterance
  <2>6. CASE v = "band"
    BY <2>6, <2>1, <1>a, <1>2 DEF FromOnset, To, InUtterance
  <2> QED
    BY <2>3, <2>4, <2>5, <2>6 DEF Verdicts
<1>3. CASE endp.st = "Speaking"
  <2>1. step = FromSpeaking(v, d)
    BY <1>3 DEF OnFrame
  <2>3. CASE v = "above"
    <3> DEFINE x == [endp EXCEPT !.speech = endp.speech + d, !.quiet = 0]
    <3>1. step = To(x, "None")
      BY <2>3, <2>1 DEF FromSpeaking
    <3>2. x \in EndpointerStates /\ x.st = "Speaking"
      BY <1>a, <1>c, <1>3 DEF EndpointerStates
    <3> HIDE DEF x
    <3>3. step.e = x /\ step.outcome = "None"
      BY <3>1, <1>d
    <3> QED
      BY <3>2, <3>3, <1>3 DEF InUtterance
  <2>4. CASE v = "below"
    <3> DEFINE x == [endp EXCEPT !.st = "Endpoint", !.quiet = d]
    <3>1. step = To(x, "None")
      BY <2>4, <2>1 DEF FromSpeaking
    <3>2. x \in EndpointerStates /\ x.st = "Endpoint"
      BY <1>a, <1>c, <1>3 DEF EndpointerStates
    <3> HIDE DEF x
    <3>3. step.e = x /\ step.outcome = "None"
      BY <3>1, <1>d
    <3> QED
      BY <3>2, <3>3, <1>3 DEF InUtterance
  <2>5. CASE v = "band"
    <3> DEFINE x == [endp EXCEPT !.speech = endp.speech + d]
    <3>1. step = To(x, "None")
      BY <2>5, <2>1 DEF FromSpeaking
    <3>2. x \in EndpointerStates /\ x.st = "Speaking"
      BY <1>a, <1>c, <1>3 DEF EndpointerStates
    <3> HIDE DEF x
    <3>3. step.e = x /\ step.outcome = "None"
      BY <3>1, <1>d
    <3> QED
      BY <3>2, <3>3, <1>3 DEF InUtterance
  <2> QED
    BY <2>3, <2>4, <2>5 DEF Verdicts
<1>4. CASE endp.st = "Endpoint"
  <2>1. step = FromEndpoint(v, d)
    BY <1>4 DEF OnFrame
  <2>3. CASE v = "above"
    BY <2>3, <2>1, <1>b, <1>c, <1>4 DEF FromEndpoint, To, EndpointerStates, InUtterance
  <2>4. CASE v # "above" /\ endp.quiet + d >= cfgHangover
    <3> DEFINE x == [endp EXCEPT !.quiet = endp.quiet + d, !.st = "Quiet"]
    <3>1. step = To(x, "SpeechEnded")
      BY <2>4, <2>1 DEF FromEndpoint
    <3>2. x \in EndpointerStates /\ x.st = "Quiet"
      BY <1>a, <1>c, <1>4 DEF EndpointerStates
    <3> HIDE DEF x
    <3>3. step.e = x /\ step.outcome = "SpeechEnded"
      BY <3>1, <1>d
    <3> QED
      BY <3>2, <3>3, <1>4 DEF InUtterance
  <2>5. CASE v # "above" /\ ~(endp.quiet + d >= cfgHangover)
    <3> DEFINE x == [endp EXCEPT !.quiet = endp.quiet + d, !.st = endp.st]
    <3>1. step = To(x, "None")
      BY <2>5, <2>1 DEF FromEndpoint
    <3>2. x \in EndpointerStates /\ x.st = "Endpoint"
      BY <1>a, <1>c, <1>4 DEF EndpointerStates
    <3> HIDE DEF x
    <3>3. step.e = x /\ step.outcome = "None"
      BY <3>1, <1>d
    <3> QED
      BY <3>2, <3>3, <1>4 DEF InUtterance
  <2> QED
    BY <2>3, <2>4, <2>5
<1> QED
  BY <1>b, <1>1, <1>2, <1>3, <1>4

(* What the last event says after a publication. *)
LEMMA PublishSays ==
    ASSUME events \in EventStates, clock' \in Nat, NEW k \in {"started", "ended"}, Publish(k)
    PROVE  /\ events' \in EventStates /\ events'.last = k
           /\ events'.begun = IF k = "started" THEN clock' ELSE events.begun
           /\ events'.done = IF k = "ended" THEN clock' ELSE events.done
           /\ events'.cut = IF k = "ended" THEN clock' ELSE events.cut
<1>1. CASE k = "started"
  <2>1. events' = [events EXCEPT !.last = "started", !.begun = clock', !.done = events.done, !.cut = events.cut]
    BY <1>1 DEF Publish
  <2> QED
    BY <2>1, <1>1 DEF EventStates
<1>2. CASE k = "ended"
  <2>1. events' = [events EXCEPT !.last = "ended", !.begun = events.begun, !.done = clock', !.cut = clock']
    BY <1>2 DEF Publish
  <2> QED
    BY <2>1, <1>2 DEF EventStates
<1> QED
  BY <1>1, <1>2

(* At most one frame is held back. *)
LEMMA OneHeld ==
    ASSUME NEW q \in Seq(Nat), q # <<>>, Len(q) <= 1
    PROVE  q[1] \in Nat /\ Range(q) = {q[1]}
<1>1. Len(q) \in Nat \ {0}
  BY EmptySeq
<1>2. Len(q) = 1
  <2>1. \A n \in Nat \ {0} : n <= 1 => n = 1
    OBVIOUS
  <2> QED
    BY <1>1, <2>1
<1>3. DOMAIN q = 1 .. 1 /\ q[1] \in Nat
  BY <1>2, LenProperties, ElementOfSeq
<1> QED
  BY <1>3 DEF Range

(* A frame, with the one that was held back, arrives in the buffer. *)
Arrived(chunk, b) ==
    /\ chunk \in Seq(Nat) /\ Len(chunk) \in Nat
    /\ \E held \in 0 .. clock + 1 : Range(chunk) \subseteq {held, clock + 1}
    /\ b \in BufferStates /\ b.rec = buf.rec
    /\ IF b.rec THEN b.pre = <<>> ELSE b.active = <<>>
    /\ \A k \in {IF b.rec THEN b.active ELSE b.pre} :
          /\ Rising(k)
          /\ \A x \in Range(k) : x \in Range(Kept \o pipe.carry) \/ x = clock + 1
    /\ b.rec /\ ~Overflows(chunk) => b.active = buf.active \o chunk
    /\ b.rec => Range(b.active) \subseteq Range(buf.active) \cup Range(chunk)

(* What is buffered of a chunk: UtteranceBuffer::append with its caps. *)
LEMMA ChunkArrives ==
    ASSUME ListeningShape, CapturedInOrder,
           NEW chunk, chunk = Append(pipe.carry, clock + 1), NEW b, b = Buffered(chunk)
    PROVE  Arrived(chunk, b)
<1>1. /\ clock \in Nat /\ clock + 1 \in Nat /\ pipe.carry \in Seq(Nat) /\ Len(pipe.carry) <= 1
      /\ buf.rec \in BOOLEAN /\ buf.pre \in Seq(Nat) /\ buf.active \in Seq(Nat)
  BY DEF ListeningShape, PipeStates, BufferStates
<1>2. MaxDuration \in Nat /\ PrePad \in Nat
  BY ListeningAssumption
<1>3. Kept \in Seq(Nat) /\ (buf.rec => Kept = buf.active) /\ (~buf.rec => Kept = buf.pre)
  BY <1>1 DEF Kept
<1> DEFINE c == pipe.carry
           all == Kept \o c
<1>0. \A p, q \in Seq(Nat) : p \o q \in Seq(Nat) /\ Range(p \o q) = Range(p) \cup Range(q)
  BY ConcatElems
<1>4. chunk \in Seq(Nat) /\ Len(chunk) \in Nat /\ Range(chunk) = Range(c) \cup {clock + 1}
  <2>1. \A q \in Seq(Nat), e \in Nat :
            Append(q, e) \in Seq(Nat) /\ Range(Append(q, e)) = Range(q) \cup {e}
    BY AppendElems
  <2>2. chunk \in Seq(Nat) /\ Range(chunk) = Range(c) \cup {clock + 1}
    BY <2>1, <1>1
  <2> QED
    BY <2>2, LenProperties
<1>5. \E held \in 0 .. clock + 1 : Range(chunk) \subseteq {held, clock + 1}
  <2>1. CASE c = <<>>
    <3>1. Range(c) = {}
      BY <2>1 DEF Range
    <3> QED
      BY <3>1, <1>1, <1>4
  <2>2. CASE c # <<>>
    <3>1. c[1] \in Nat /\ Range(c) = {c[1]}
      BY <2>2, <1>1, OneHeld
    <3>2. Range(c) = {c[1]}
      BY <3>1
    <3>3. c[1] \in Range(all)
      <4>1. Range(all) = Range(Kept) \cup Range(c)
        BY <1>1, <1>3, ConcatElems
      <4> QED
        BY <4>1, <3>2
    <3>4. c[1] \in 0 .. clock + 1
      BY <3>1, <3>3, <1>1 DEF CapturedInOrder
    <3> QED
      BY <3>2, <3>4, <1>4
  <2> QED
    BY <2>1, <2>2
<1>6. Kept \o chunk = Append(all, clock + 1)
  BY <1>1, <1>3, BackOfBoth, SMTT(60)
<1>7. Rising(all) /\ \A x \in Range(all) : x <= clock
  BY DEF CapturedInOrder
<1>8. Rising(Kept \o chunk) /\ Range(Kept \o chunk) = Range(all) \cup {clock + 1}
      /\ Range(Kept \o chunk) = Range(Kept) \cup Range(chunk) /\ Kept \o chunk \in Seq(Nat)
  <2>1. Rising(Append(all, clock + 1)) /\ Range(Append(all, clock + 1)) = Range(all) \cup {clock + 1}
    BY <1>1, <1>7, OneMoreFrame
  <2>2. Kept \o chunk \in Seq(Nat) /\ Range(Kept \o chunk) = Range(Kept) \cup Range(chunk)
    BY <1>0, <1>3, <1>4
  <2> QED
    BY <2>1, <2>2, <1>6
<1> HIDE DEF all, c
<1>9. ASSUME NEW n \in Nat
      PROVE  /\ LastOf(Kept \o chunk, n) \in Seq(Nat) /\ Rising(LastOf(Kept \o chunk, n))
             /\ Range(LastOf(Kept \o chunk, n)) \subseteq Range(all) \cup {clock + 1}
             /\ Range(LastOf(Kept \o chunk, n)) \subseteq Range(Kept) \cup Range(chunk)
             /\ Len(Kept \o chunk) <= n => LastOf(Kept \o chunk, n) = Kept \o chunk
  BY <1>8, LastOfKeeps
<1>10. CASE buf.rec
  <2> DEFINE l == LastOf(Kept \o chunk, MaxDuration)
  <2>1. b = [buf EXCEPT !.active = l]
    BY <1>3, <1>10 DEF Buffered
  <2>2. /\ l \in Seq(Nat) /\ Rising(l) /\ Range(l) \subseteq Range(all) \cup {clock + 1}
        /\ Range(l) \subseteq Range(Kept) \cup Range(chunk)
        /\ Len(Kept \o chunk) <= MaxDuration => l = Kept \o chunk
    BY <1>9, <1>2
  <2> HIDE DEF l
  <2>3. b \in BufferStates /\ b.rec = buf.rec /\ b.pre = buf.pre /\ b.active = l
    BY <2>1, <2>2 DEF ListeningShape, BufferStates
  <2>4. buf.pre = <<>>
    BY <1>10 DEF ListeningShape
  <2>5. ~Overflows(chunk) => l = Kept \o chunk
    <3>1. Len(Kept \o chunk) \in Nat
      BY <1>8
    <3>2. Overflows(chunk) <=> Len(Kept \o chunk) > MaxDuration
      BY <1>3, <1>10 DEF Overflows
    <3> DEFINE w == Len(Kept \o chunk)
    <3>3. w \in Nat /\ (Overflows(chunk) <=> w > MaxDuration) /\ (w <= MaxDuration => l = Kept \o chunk)
      BY <3>1, <3>2, <2>2
    <3> HIDE DEF w
    <3>4. ASSUME ~Overflows(chunk) PROVE l = Kept \o chunk
      <4>1. ~(w > MaxDuration)
        BY <3>3, <3>4
      <4>2. w <= MaxDuration
        BY <4>1, <3>3, <1>2
      <4> QED
        BY <4>2, <3>3
    <3> QED
      BY <3>4
  <2> QED
    BY <2>2, <2>3, <2>4, <2>5, <1>3, <1>4, <1>5, <1>10 DEF Arrived, all, c
<1>11. CASE ~buf.rec
  <2> DEFINE l == LastOf(Kept \o chunk, PrePad)
  <2>1. b = [buf EXCEPT !.pre = l]
    BY <1>3, <1>11 DEF Buffered
  <2>2. /\ l \in Seq(Nat) /\ Rising(l) /\ Range(l) \subseteq Range(all) \cup {clock + 1}
    BY <1>9, <1>2
  <2> HIDE DEF l
  <2>3. b \in BufferStates /\ b.rec = buf.rec /\ b.pre = l /\ b.active = buf.active
    BY <2>1, <2>2 DEF ListeningShape, BufferStates
  <2>4. buf.active = <<>>
    BY <1>11 DEF ListeningShape
  <2> QED
    BY <2>2, <2>3, <2>4, <1>4, <1>5, <1>11 DEF Arrived, all, c
<1> QED
  BY <1>1, <1>10, <1>11

(* The sink and the recording get the same chunk. *)
LEMMA CoversMore ==
    ASSUME NEW s \in Seq(Nat), NEW a \in Seq(Nat), NEW c \in Seq(Nat), NEW l \in Seq(Nat),
           NEW cap \in BOOLEAN, NEW over \in BOOLEAN, NEW begun \in Nat,
           Covers(s, a, cap, begun), Range(l) \subseteq Range(a) \cup Range(c),
           ~over => l = a \o c
    PROVE  Covers(s \o c, l, cap \/ over, begun)
<1>1. Range(s \o c) = Range(s) \cup Range(c) /\ Range(a \o c) = Range(a) \cup Range(c)
  BY ConcatElems
<1>2. Range(l) \subseteq Range(s \o c)
  BY <1>1 DEF Covers
<1>3. ASSUME ~(cap \/ over)
      PROVE  \E held \in 0 .. begun : Range(s \o c) \ Range(l) \subseteq {held, begun}
  <2>1. PICK held \in 0 .. begun : Range(s) \ Range(a) \subseteq {held, begun}
    BY <1>3 DEF Covers
  <2>2. Range(l) = Range(a) \cup Range(c)
    BY <1>1, <1>3
  <2>3. Range(s \o c) \ Range(l) \subseteq {held, begun}
    BY <1>1, <2>1, <2>2
  <2> QED
    BY <2>3
<1> QED
  BY <1>2, <1>3 DEF Covers

(* Nothing was captured yet. *)
LEMMA ListeningInitial == ListeningInit => ListeningInv
<1> SUFFICES ASSUME ListeningInit PROVE ListeningInv
  OBVIOUS
<1>1. /\ <<>> \in Seq(Nat) /\ Len(<<>>) = 0 /\ Range(<<>>) = {} /\ <<>> \o <<>> = <<>>
      /\ Rising(<<>>)
  BY DEF Range, Rising, Ordered
<1>2. /\ clock = 0 /\ pipe.carry = <<>> /\ ~pipe.inSpeech /\ endp.st = "Quiet" /\ ~buf.rec
      /\ buf.pre = <<>> /\ buf.active = <<>> /\ events.last = "none" /\ events.begun = 0
      /\ events.cut = 0 /\ stream = <<>> /\ ~InUtterance
  BY DEF ListeningInit, InUtterance
<1>3. Kept \o pipe.carry = <<>>
  BY <1>1, <1>2 DEF Kept
<1>4. ListeningShape
  <2>1. cfgHangover \in Nat
    BY ListeningAssumption DEF ListeningInit
  <2>2. pipe \in PipeStates
    BY <1>1 DEF ListeningInit, PipeStates
  <2>3. endp \in EndpointerStates /\ events \in EventStates
    BY DEF ListeningInit, EndpointerStates, EventStates
  <2>4. buf \in BufferStates
    BY <1>1 DEF ListeningInit, BufferStates
  <2>5. torn \in BOOLEAN /\ capped \in BOOLEAN
    BY DEF ListeningInit
  <2> QED
    BY <2>1, <2>2, <2>3, <2>4, <2>5, <1>1, <1>2 DEF ListeningShape
<1>5. SpeechAlternates
  BY <1>2 DEF SpeechAlternates
<1> QED
  BY <1>1, <1>2, <1>3, <1>4, <1>5 DEF ListeningInv, CapturedInOrder, NothingOld, UtteranceRuns

(* Steps that only let time pass or change a setting. *)
LEMMA NothingHeard ==
    ASSUME ListeningInv, clock' \in Nat, clock' >= clock, cfgHangover' \in Nat,
           UNCHANGED <<wake, pipe, endp, buf, events, stream, torn, capped>>
    PROVE  ListeningInv'
<1>1. /\ clock \in Nat /\ events.begun \in Nat /\ events.cut \in Nat
  BY DEF ListeningInv, ListeningShape, EventStates
<1>2. Kept' = Kept /\ (InUtterance' <=> InUtterance)
  BY DEF Kept, InUtterance
<1>3. ListeningShape'
  BY <1>1 DEF ListeningInv, ListeningShape
<1>4. CapturedInOrder'
  <2>1. Kept \o pipe.carry \in Seq(Nat) /\ \A x \in Range(Kept \o pipe.carry) : x \in Nat
    BY SMTT(60) DEF ListeningInv, CapturedInOrder, Rising, Range
  <2>2. \A x \in Range(Kept \o pipe.carry) : x <= clock
    BY DEF ListeningInv, CapturedInOrder
  <2>3. \A x \in Range(Kept \o pipe.carry) : x <= clock'
    BY <2>1, <2>2, <1>1
  <2> QED
    BY <1>2, <2>3 DEF ListeningInv, CapturedInOrder
<1>5. NothingOld' /\ UtteranceRuns' /\ SpeechAlternates'
  BY <1>2 DEF ListeningInv, NothingOld, UtteranceRuns, SpeechAlternates
<1> QED
  BY <1>3, <1>4, <1>5 DEF ListeningInv

(* A frame while the assistant speaks closes what was open. *)
LEMMA MutedStep == ListeningInv /\ MutedFrame => ListeningInv'
<1> SUFFICES ASSUME ListeningInv, MutedFrame PROVE ListeningInv'
  OBVIOUS
<1>0. /\ clock \in Nat /\ clock' = clock + 1 /\ events \in EventStates /\ pipe \in PipeStates
      /\ endp \in EndpointerStates /\ events.begun \in Nat /\ events.cut \in Nat
      /\ cfgHangover \in Nat /\ events.cut <= clock /\ events.begun <= clock
      /\ cfgHangover' = cfgHangover /\ wake' = wake /\ buf' = buf /\ stream' = stream
      /\ torn' = torn /\ capped' = capped
  BY DEF MutedFrame, ListeningInv, ListeningShape, EventStates
<1>1. CASE pipe.prevMuted
  BY <1>0, <1>1, NothingHeard DEF MutedFrame
<1>2. CASE ~pipe.prevMuted
  <2>1. /\ endp' = [endp EXCEPT !.st = "Quiet"]
        /\ IF InUtterance THEN Publish("ended") ELSE UNCHANGED events
        /\ pipe' = [pipe EXCEPT !.prevMuted = TRUE, !.inSpeech = pipe.inSpeech /\ ~InUtterance]
    BY <1>2 DEF MutedFrame, ForceEndpoint
  <2>2. endp' \in EndpointerStates /\ endp'.st = "Quiet" /\ ~InUtterance'
    BY <2>1, <1>0 DEF EndpointerStates, InUtterance
  <2>3. /\ pipe' \in PipeStates /\ pipe'.carry = pipe.carry /\ pipe'.wasOpen = pipe.wasOpen
        /\ pipe'.inSpeech = (pipe.inSpeech /\ ~InUtterance)
    BY <2>1, <1>0 DEF PipeStates
  <2>4. ~pipe'.inSpeech
    BY <2>3 DEF ListeningInv, SpeechAlternates
  <2>5. /\ events' \in EventStates /\ events'.begun = events.begun
        /\ events'.cut = IF InUtterance THEN clock' ELSE events.cut
        /\ events'.last = IF InUtterance THEN "ended" ELSE events.last
    <3>1. CASE InUtterance
      BY <3>1, <2>1, <1>0, PublishSays
    <3>2. CASE ~InUtterance
      BY <3>2, <2>1, <1>0
    <3> QED
      BY <3>1, <3>2
  <2>6. ListeningShape'
    BY <1>0, <2>2, <2>3, <2>5 DEF ListeningInv, ListeningShape
  <2>7. Kept' = Kept /\ Kept' \o pipe'.carry = Kept \o pipe.carry
    BY <1>0, <2>3 DEF Kept
  <2>8. CapturedInOrder'
    <3>1. Kept \o pipe.carry \in Seq(Nat) /\ \A x \in Range(Kept \o pipe.carry) : x \in Nat
      BY DEF ListeningInv, CapturedInOrder, Rising, Range
    <3>2. \A x \in Range(Kept \o pipe.carry) : x <= clock
      BY DEF ListeningInv, CapturedInOrder
    <3>3. \A x \in Range(Kept \o pipe.carry) : x <= clock'
      BY <3>1, <3>2, <1>0
    <3> QED
      BY <2>7, <3>3 DEF ListeningInv, CapturedInOrder
  <2>9. NothingOld'
    <3>1. CASE InUtterance
      BY <3>1, <1>0, <2>2 DEF ListeningInv, UtteranceRuns, NothingOld
    <3>2. CASE ~InUtterance
      BY <3>2, <1>0, <2>2, <2>5, <2>7 DEF ListeningInv, NothingOld
    <3> QED
      BY <3>1, <3>2
  <2>10. UtteranceRuns'
    BY <2>2 DEF UtteranceRuns
  <2>11. SpeechAlternates'
    BY <2>2, <2>4, <2>5, <1>0 DEF ListeningInv, SpeechAlternates
  <2> QED
    BY <2>6, <2>8, <2>9, <2>10, <2>11 DEF ListeningInv
<1> QED
  BY <1>1, <1>2

(* A frame the canceller holds back is carried over. *)
LEMMA HeldStep == ListeningInv /\ FrameHeld => ListeningInv'
<1> SUFFICES ASSUME ListeningInv, FrameHeld PROVE ListeningInv'
  OBVIOUS
<1>0. /\ clock \in Nat /\ clock' = clock + 1 /\ pipe \in PipeStates /\ pipe.carry = <<>>
      /\ events.begun \in Nat /\ events.cut \in Nat /\ events.cut <= clock /\ events.begun <= clock
      /\ UNCHANGED <<cfgHangover, wake, endp, buf, events, stream, torn, capped>>
      /\ pipe' = [pipe EXCEPT !.prevMuted = FALSE, !.carry = <<clock + 1>>]
      /\ buf \in BufferStates
  BY DEF FrameHeld, ListeningInv, ListeningShape, EventStates
<1>1. <<clock + 1>> \in Seq(Nat) /\ Len(<<clock + 1>>) = 1 /\ <<clock + 1>>[1] = clock + 1
  BY <1>0
<1>2. /\ pipe' \in PipeStates /\ pipe'.carry = <<clock + 1>> /\ pipe'.wasOpen = pipe.wasOpen
      /\ pipe'.inSpeech = pipe.inSpeech
  BY <1>0, <1>1 DEF PipeStates
<1>3. Kept' = Kept /\ Kept \in Seq(Nat) /\ (InUtterance' <=> InUtterance)
  BY <1>0 DEF Kept, InUtterance, BufferStates
<1> DEFINE all == Kept \o pipe.carry
<1>4. all = Kept
  BY <1>0, <1>3, EmptyEnd
<1>5. Kept' \o pipe'.carry = Append(all, clock + 1)
  <2>1. \A p, q \in Seq(Nat) : Len(q) = 1 => p \o q = Append(p, q[1])
    BY SingleEnd
  <2> QED
    BY <2>1, <1>1, <1>2, <1>3, <1>4
<1>6. Rising(all) /\ \A x \in Range(all) : x <= clock
  BY DEF ListeningInv, CapturedInOrder
<1> HIDE DEF all
<1>7. Rising(Append(all, clock + 1)) /\ Range(Append(all, clock + 1)) = Range(all) \cup {clock + 1}
  BY <1>0, <1>6, OneMoreFrame
<1>8. \A x \in Range(all) : x \in Nat
  BY <1>6 DEF Rising, Range
<1>9. ListeningShape'
  <2>1. Len(pipe'.carry) <= 1
    BY <1>1, <1>2
  <2> QED
    BY <2>1, <1>0, <1>2 DEF ListeningInv, ListeningShape
<1>10. CapturedInOrder'
  <2>1. \A x \in Range(Append(all, clock + 1)) : x <= clock'
    BY <1>0, <1>6, <1>7, <1>8
  <2> QED
    BY <2>1, <1>5, <1>7 DEF CapturedInOrder
<1>11. NothingOld'
  <2>1. ~buf.rec \/ InUtterance => \A x \in Range(all) : x > events.cut
    BY DEF ListeningInv, NothingOld, all
  <2>2. ~buf.rec \/ InUtterance => \A x \in Range(Append(all, clock + 1)) : x > events.cut
    BY <2>1, <1>0, <1>7
  <2> QED
    BY <2>2, <1>0, <1>3, <1>5 DEF NothingOld
<1>12. UtteranceRuns' /\ SpeechAlternates'
  BY <1>0, <1>2, <1>3 DEF ListeningInv, UtteranceRuns, SpeechAlternates
<1> QED
  BY <1>9, <1>10, <1>11, <1>12 DEF ListeningInv

(* A frame that went through the pipeline: what Advance leaves. *)
LEMMA Advanced ==
    ASSUME ListeningShape, NEW score \in BOOLEAN, NEW b \in BOOLEAN, Advance(score, b)
    PROVE  /\ pipe' \in PipeStates /\ pipe'.carry = <<>> /\ pipe'.inSpeech = b
           /\ pipe'.wasOpen = (wake # "off" /\ GateOpen(score))
<1>1. Stamp(score) \in Nat
  BY DEF Stamp, ListeningShape, PipeStates
<1>2. <<>> \in Seq(Nat)
  OBVIOUS
<1>3. PICK w \in BOOLEAN : w = (wake # "off" /\ GateOpen(score))
  OBVIOUS
<1>4. pipe' = [prevMuted |-> FALSE, carry |-> <<>>, inSpeech |-> b,
               stamp |-> Stamp(score), wasOpen |-> w]
  BY <1>3 DEF Advance
<1> QED
  BY <1>1, <1>2, <1>3, <1>4 DEF PipeStates

(* The buffer after a chunk is again captured in order. *)
LEMMA StillInOrder ==
    ASSUME ListeningInv, clock' = clock + 1, NEW chunk, chunk = Append(pipe.carry, clock + 1),
           NEW k, Kept' = k, k \in Seq(Nat), Rising(k), pipe'.carry = <<>>,
           \A x \in Range(k) : x \in Range(Kept \o pipe.carry) \/ x = clock + 1
    PROVE  CapturedInOrder' /\ Kept' \o pipe'.carry = k
<1>1. Kept' \o pipe'.carry = k
  BY EmptyEnd
<1>2. clock \in Nat
  BY DEF ListeningInv, ListeningShape
<1>3. \A x \in Range(Kept \o pipe.carry) : x \in Nat /\ x <= clock
  <2>1. \A q \in Seq(Nat) : \A x \in Range(q) : x \in Nat
    BY DEF Range
  <2> QED
    BY <2>1 DEF ListeningInv, CapturedInOrder, Rising
<1>4. \A x \in Range(k) : x <= clock'
  BY <1>2, <1>3
<1> QED
  BY <1>1, <1>4 DEF CapturedInOrder

(* A frame the closed wake-word gate keeps from the endpointer. *)
LEMMA GatedStep ==
    ASSUME ListeningInv, NEW score \in BOOLEAN, FrameGated(score)
    PROVE  ListeningInv'
<1> DEFINE chunk == Append(pipe.carry, clock + 1)
           k == IF buf'.rec THEN buf'.active ELSE buf'.pre
<1>0. /\ clock \in Nat /\ clock' = clock + 1 /\ pipe \in PipeStates /\ endp \in EndpointerStates
      /\ events \in EventStates /\ events.begun \in Nat /\ events.cut \in Nat
      /\ events.cut <= clock /\ events.begun <= clock
      /\ cfgHangover' = cfgHangover /\ wake' = wake /\ stream' = stream
      /\ ~GateOpen(score) /\ buf' = Buffered(chunk)
      /\ capped' = (capped \/ Overflows(chunk)) /\ pipe.inSpeech \in BOOLEAN
      /\ ListeningShape /\ CapturedInOrder /\ torn \in BOOLEAN
  BY DEF FrameGated, ListeningInv, ListeningShape, EventStates, PipeStates
<1>1. /\ buf' \in BufferStates /\ buf'.rec = buf.rec
      /\ IF buf'.rec THEN buf'.pre = <<>> ELSE buf'.active = <<>>
      /\ Rising(k) /\ \A x \in Range(k) : x \in Range(Kept \o pipe.carry) \/ x = clock + 1
  <2>1. Arrived(chunk, buf')
    BY <1>0, ChunkArrives
  <2> QED
    BY <2>1 DEF Arrived
<1>2. Kept' = k /\ k \in Seq(Nat)
  BY <1>1 DEF Kept, Rising
<1> HIDE DEF k
<1>3. wake # "off"
  BY <1>0 DEF GateOpen
<1>4. capped' \in BOOLEAN
  BY <1>0 DEF Overflows
<1>5. CASE pipe.wasOpen
  <2>1. /\ endp' = [endp EXCEPT !.st = "Quiet"] /\ Advance(score, FALSE)
        /\ torn' = (torn \/ InUtterance)
        /\ events' = [events EXCEPT !.cut = IF InUtterance THEN clock' ELSE events.cut]
    BY <1>5 DEF FrameGated, ForceEndpoint
  <2>2. endp' \in EndpointerStates /\ ~InUtterance'
    BY <2>1, <1>0 DEF EndpointerStates, InUtterance
  <2>3. pipe' \in PipeStates /\ pipe'.carry = <<>> /\ ~pipe'.inSpeech
    BY <2>1, <1>0, Advanced
  <2>4. /\ events' \in EventStates /\ events'.begun = events.begun /\ events'.last = events.last
        /\ events'.cut = (IF InUtterance THEN clock' ELSE events.cut) /\ clock' \in Nat
    BY <2>1, <1>0 DEF EventStates
  <2>5. torn' \in BOOLEAN /\ (torn' <=> torn \/ InUtterance)
    BY <2>1 DEF InUtterance
  <2>6. CapturedInOrder' /\ Kept' \o pipe'.carry = k
    BY <2>3, <1>0, <1>1, <1>2, StillInOrder
  <2>7. ListeningShape'
    <3>1. Len(pipe'.carry) <= 1
      BY <2>3
    <3> QED
      BY <3>1, <2>2, <2>3, <2>4, <2>5, <1>0, <1>1, <1>4 DEF ListeningInv, ListeningShape
  <2>8. NothingOld'
    <3>1. CASE InUtterance
      BY <3>1, <2>2, <1>1 DEF ListeningInv, UtteranceRuns, NothingOld
    <3>2. CASE ~InUtterance
      <4>1. ~buf.rec => \A x \in Range(Kept \o pipe.carry) : x > events.cut
        BY DEF ListeningInv, NothingOld
      <4>2. clock + 1 > events.cut
        BY <1>0
      <4> QED
        BY <4>1, <4>2, <3>2, <2>2, <2>4, <2>6, <1>1 DEF NothingOld
    <3> QED
      BY <3>1, <3>2
  <2>9. UtteranceRuns'
    BY <2>2 DEF UtteranceRuns
  <2>10. SpeechAlternates'
    BY <2>2, <2>3, <2>4, <2>5 DEF ListeningInv, SpeechAlternates
  <2> QED
    BY <2>6, <2>7, <2>8, <2>9, <2>10 DEF ListeningInv
<1>6. CASE ~pipe.wasOpen
  <2>1. Advance(score, pipe.inSpeech) /\ endp' = endp /\ torn' = torn /\ events' = events
    BY <1>6 DEF FrameGated
  <2>2. ~InUtterance /\ ~InUtterance'
    BY <2>1, <1>3, <1>6 DEF ListeningInv, UtteranceRuns, InUtterance
  <2>3. pipe' \in PipeStates /\ pipe'.carry = <<>> /\ pipe'.inSpeech = pipe.inSpeech
    BY <2>1, <1>0, Advanced
  <2>6. CapturedInOrder' /\ Kept' \o pipe'.carry = k
    BY <2>3, <1>0, <1>1, <1>2, StillInOrder
  <2>7. ListeningShape'
    <3>1. Len(pipe'.carry) <= 1
      BY <2>3
    <3> QED
      BY <3>1, <2>1, <2>3, <1>0, <1>1, <1>4 DEF ListeningInv, ListeningShape
  <2>8. NothingOld'
    <3>1. ~buf.rec => \A x \in Range(Kept \o pipe.carry) : x > events.cut
      BY DEF ListeningInv, NothingOld
    <3>2. clock + 1 > events.cut
      BY <1>0
    <3> QED
      BY <3>1, <3>2, <2>1, <2>2, <2>6, <1>1 DEF NothingOld
  <2>9. UtteranceRuns'
    BY <2>2 DEF UtteranceRuns
  <2>10. SpeechAlternates'
    BY <2>1, <2>2, <2>3 DEF ListeningInv, SpeechAlternates
  <2> QED
    BY <2>6, <2>7, <2>8, <2>9, <2>10 DEF ListeningInv
<1> QED
  BY <1>0, <1>5, <1>6 DEF PipeStates

(* A frame the endpointer hears: onset, speech, silence or the end. *)
LEMMA HeardStep ==
    ASSUME ListeningInv, NEW v \in Verdicts, NEW score \in BOOLEAN, NEW loud \in BOOLEAN,
           FrameHeard(v, score, loud)
    PROVE  ListeningInv'
<1> DEFINE chunk == Append(pipe.carry, clock + 1)
           b == Buffered(chunk)
           streamed == IF pipe.inSpeech THEN stream \o chunk ELSE stream
           step == OnFrame(v, Len(chunk))
           k == IF b.rec THEN b.active ELSE b.pre
<1>0. /\ clock \in Nat /\ clock' = clock + 1 /\ pipe \in PipeStates /\ endp \in EndpointerStates
      /\ events \in EventStates /\ events.begun \in Nat /\ events.cut \in Nat
      /\ events.cut <= clock /\ events.begun <= clock /\ cfgHangover \in Nat
      /\ cfgHangover' = cfgHangover /\ wake' = wake /\ GateOpen(score) /\ endp' = step.e
      /\ pipe.inSpeech \in BOOLEAN /\ stream \in Seq(Nat) /\ buf.active \in Seq(Nat)
      /\ torn \in BOOLEAN /\ capped \in BOOLEAN /\ ListeningShape /\ CapturedInOrder
  BY DEF FrameHeard, ListeningInv, ListeningShape, EventStates, PipeStates, BufferStates
<1>1. Arrived(chunk, b)
  BY <1>0, ChunkArrives
<1>2. /\ chunk \in Seq(Nat) /\ Len(chunk) \in Nat
      /\ b \in BufferStates /\ b.rec = buf.rec /\ b.rec \in BOOLEAN
      /\ b.pre \in Seq(Nat) /\ b.active \in Seq(Nat)
      /\ IF b.rec THEN b.pre = <<>> ELSE b.active = <<>>
      /\ Rising(k) /\ \A x \in Range(k) : x \in Range(Kept \o pipe.carry) \/ x = clock + 1
      /\ b.rec /\ ~Overflows(chunk) => b.active = buf.active \o chunk
      /\ b.rec => Range(b.active) \subseteq Range(buf.active) \cup Range(chunk)
  BY <1>1 DEF Arrived, BufferStates
<1>3. /\ step.e \in EndpointerStates
      /\ step.outcome = "SpeechStarted" => ~InUtterance /\ step.e.st = "Speaking"
      /\ step.outcome = "SpeechEnded" => InUtterance /\ step.e.st = "Quiet"
      /\ step.outcome \notin {"SpeechStarted", "SpeechEnded"} =>
            (step.e.st \in {"Speaking", "Endpoint"} <=> InUtterance)
  BY <1>0, <1>2, EndpointerSteps
<1>4. \/ step.outcome = "SpeechStarted" /\ Started(score, chunk, b)
      \/ /\ step.outcome = "SpeechEnded" /\ Ended(score, streamed, b, loud)
         /\ capped' = (capped \/ Overflows(chunk))
      \/ /\ step.outcome \notin {"SpeechStarted", "SpeechEnded"}
         /\ buf' = b /\ stream' = streamed /\ Advance(score, pipe.inSpeech)
         /\ capped' = (capped \/ Overflows(chunk)) /\ events' = events /\ torn' = torn
  BY DEF FrameHeard
<1>5. \A x \in Range(k) : (~buf.rec \/ InUtterance) => x > events.cut
  <2>1. ~buf.rec \/ InUtterance => \A x \in Range(Kept \o pipe.carry) : x > events.cut
    BY DEF ListeningInv, NothingOld
  <2>2. clock + 1 > events.cut
    BY <1>0
  <2> QED
    BY <2>1, <2>2, <1>2
<1>6. Overflows(chunk) \in BOOLEAN
  BY DEF Overflows
<1>7. InUtterance' <=> endp'.st \in {"Speaking", "Endpoint"}
  BY DEF InUtterance
<1>8. \E held \in 0 .. clock + 1 : Range(chunk) \subseteq {held, clock + 1}
  BY <1>1 DEF Arrived
<1>9. pipe.inSpeech => streamed = stream \o chunk
  OBVIOUS
<1>10. streamed \in Seq(Nat)
  BY <1>0, <1>2, ConcatElems
<1>11. /\ pipe.inSpeech <=> InUtterance
       /\ (events.last = "started" /\ ~torn) <=> InUtterance
       /\ InUtterance => buf.rec /\ Covers(stream, buf.active, capped, events.begun)
  BY DEF ListeningInv, SpeechAlternates, UtteranceRuns
<1>12. clock' \in Nat /\ events.begun <= clock' /\ events.cut <= clock'
  BY <1>0
<1>13. <<>> \in Seq(Nat) /\ Len(<<>>) <= 1 /\ Rising(<<>>) /\ Range(<<>>) = {}
  BY DEF Range, Rising, Ordered
<1> HIDE DEF chunk, b, streamed, step, k
<1>14. CASE step.outcome = "SpeechStarted" /\ Started(score, chunk, b)
  <2>1. /\ buf' = [rec |-> TRUE, active |-> b.pre, pre |-> <<>>] /\ stream' = b.pre \o chunk
        /\ Publish("started") /\ Advance(score, TRUE) /\ torn' = FALSE /\ capped' = FALSE
    BY <1>14 DEF Started, OnSpeechStarted
  <2>2. /\ buf' \in BufferStates /\ buf'.rec = TRUE /\ buf'.active = b.pre /\ buf'.pre = <<>>
    BY <2>1, <1>2, <1>13 DEF BufferStates
  <2>3. /\ events' \in EventStates /\ events'.last = "started" /\ events'.begun = clock'
        /\ events'.cut = events.cut
    BY <2>1, <1>0, <1>12, PublishSays
  <2>4. pipe' \in PipeStates /\ pipe'.carry = <<>> /\ pipe'.inSpeech = TRUE
        /\ pipe'.wasOpen = (wake # "off" /\ GateOpen(score))
    BY <2>1, <1>0, Advanced
  <2>5. InUtterance' /\ endp' \in EndpointerStates
    BY <1>0, <1>3, <1>7, <1>14
  <2>6. /\ Kept' = b.pre /\ Rising(b.pre)
        /\ \A x \in Range(b.pre) : x \in Range(Kept \o pipe.carry) \/ x = clock + 1
        /\ \A x \in Range(b.pre) : x > events.cut
    <3>1. Kept' = b.pre
      BY <2>2 DEF Kept
    <3>2. CASE b.rec
      BY <3>1, <3>2, <1>2, <1>13
    <3>3. CASE ~b.rec
      BY <3>1, <3>3, <1>2, <1>5 DEF k
    <3> QED
      BY <3>2, <3>3
  <2>7. CapturedInOrder' /\ Kept' \o pipe'.carry = b.pre
    BY <2>4, <2>6, <1>0, <1>2, StillInOrder
  <2>8. stream' \in Seq(Nat) /\ Range(stream') = Range(b.pre) \cup Range(chunk)
    BY <2>1, <1>2, ConcatElems
  <2>9. Covers(stream', buf'.active, capped', events'.begun)
    <3>1. PICK held \in 0 .. clock + 1 : Range(chunk) \subseteq {held, clock + 1}
      BY <1>8
    <3>2. Range(stream') \ Range(b.pre) \subseteq {held, clock'} /\ held \in 0 .. clock'
      BY <3>1, <2>8, <1>0
    <3> QED
      BY <3>2, <2>2, <2>3, <2>8 DEF Covers
  <2>10. ListeningShape'
    <3>1. torn' \in BOOLEAN /\ capped' \in BOOLEAN
      BY <2>1
    <3>2. events'.begun <= clock' /\ events'.cut <= clock'
      BY <2>3, <1>12
    <3> QED
      BY <3>1, <3>2, <2>2, <2>3, <2>4, <2>5, <2>8, <1>0, <1>12, <1>13 DEF ListeningShape
  <2>11. NothingOld'
    BY <2>3, <2>6, <2>7 DEF NothingOld
  <2>12. UtteranceRuns'
    BY <2>2, <2>4, <2>9, <1>0 DEF UtteranceRuns
  <2>13. SpeechAlternates'
    BY <2>1, <2>3, <2>4, <2>5 DEF SpeechAlternates
  <2> QED
    BY <2>7, <2>10, <2>11, <2>12, <2>13 DEF ListeningInv
<1>15. CASE /\ step.outcome = "SpeechEnded" /\ Ended(score, streamed, b, loud)
            /\ capped' = (capped \/ Overflows(chunk))
  <2>1. /\ buf' = [b EXCEPT !.rec = FALSE, !.active = <<>>] /\ stream' = streamed
        /\ Publish("ended") /\ Advance(score, FALSE) /\ torn' = torn
    BY <1>15 DEF Ended, OnSpeechEnded
  <2>2. buf' \in BufferStates /\ buf'.rec = FALSE /\ buf'.active = <<>> /\ buf'.pre = b.pre
    BY <2>1, <1>2, <1>13 DEF BufferStates
  <2>3. /\ events' \in EventStates /\ events'.last = "ended" /\ events'.begun = events.begun
        /\ events'.cut = clock'
    BY <2>1, <1>0, <1>12, PublishSays
  <2>4. pipe' \in PipeStates /\ pipe'.carry = <<>> /\ pipe'.inSpeech = FALSE
    BY <2>1, <1>0, Advanced
  <2>5. InUtterance /\ ~InUtterance' /\ endp' \in EndpointerStates
    BY <1>0, <1>3, <1>7, <1>15
  <2>6. b.pre = <<>>
    BY <2>5, <1>2, <1>11
  <2>7. Kept' = <<>>
    BY <2>2, <2>6 DEF Kept
  <2>8. CapturedInOrder' /\ Kept' \o pipe'.carry = <<>>
    BY <2>4, <2>7, <1>0, <1>13, StillInOrder
  <2>9. capped' \in BOOLEAN
    BY <1>15
  <2>10. ListeningShape'
    BY <2>1, <2>2, <2>3, <2>4, <2>5, <2>9, <1>0, <1>10, <1>12, <1>13 DEF ListeningShape
  <2>11. NothingOld'
    BY <2>8, <1>13 DEF NothingOld
  <2>12. UtteranceRuns'
    BY <2>5 DEF UtteranceRuns
  <2>13. SpeechAlternates'
    BY <2>1, <2>3, <2>4, <2>5 DEF SpeechAlternates
  <2> QED
    BY <2>8, <2>10, <2>11, <2>12, <2>13 DEF ListeningInv
<1>16. CASE /\ step.outcome \notin {"SpeechStarted", "SpeechEnded"}
            /\ buf' = b /\ stream' = streamed /\ Advance(score, pipe.inSpeech)
            /\ capped' = (capped \/ Overflows(chunk)) /\ events' = events /\ torn' = torn
  <2>1. pipe' \in PipeStates /\ pipe'.carry = <<>> /\ pipe'.inSpeech = pipe.inSpeech
        /\ pipe'.wasOpen = (wake # "off" /\ GateOpen(score))
    BY <1>16, <1>0, Advanced
  <2>2. (InUtterance' <=> InUtterance) /\ endp' \in EndpointerStates
    BY <1>0, <1>3, <1>7, <1>16
  <2>3. Kept' = k /\ k \in Seq(Nat)
    BY <1>16, <1>2 DEF Kept, k
  <2>4. CapturedInOrder' /\ Kept' \o pipe'.carry = k
    BY <2>1, <2>3, <1>0, <1>2, StillInOrder
  <2>5. capped' \in BOOLEAN
    BY <1>16
  <2>6. ListeningShape'
    BY <2>1, <2>2, <2>5, <1>0, <1>2, <1>10, <1>12, <1>13, <1>16 DEF ListeningShape
  <2>7. NothingOld'
    BY <2>2, <2>4, <1>2, <1>5, <1>16 DEF NothingOld
  <2>8. InUtterance => Covers(stream', buf'.active, capped', events'.begun)
    <3> SUFFICES ASSUME InUtterance PROVE Covers(stream', buf'.active, capped', events'.begun)
      OBVIOUS
    <3>1. stream' = stream \o chunk /\ b.rec
      BY <1>2, <1>9, <1>11, <1>16
    <3>2. Covers(stream \o chunk, b.active, capped \/ Overflows(chunk), events.begun)
      <4>1. PICK over \in BOOLEAN : over = Overflows(chunk)
        BY <1>6
      <4>2. /\ Range(b.active) \subseteq Range(buf.active) \cup Range(chunk)
            /\ ~over => b.active = buf.active \o chunk
        BY <4>1, <3>1, <1>2
      <4>3. Covers(stream, buf.active, capped, events.begun)
        BY <1>11
      <4>4. Covers(stream \o chunk, b.active, capped \/ over, events.begun)
        <5>1. /\ stream \in Seq(Nat) /\ buf.active \in Seq(Nat) /\ chunk \in Seq(Nat)
              /\ b.active \in Seq(Nat) /\ capped \in BOOLEAN /\ events.begun \in Nat
          BY <1>0, <1>2
        <5> QED
          BY <5>1, <4>2, <4>3, CoversMore, ZenonT(60)
      <4> QED
        BY <4>1, <4>4
    <3> QED
      BY <3>1, <3>2, <1>16
  <2>9. UtteranceRuns'
    BY <2>1, <2>2, <2>8, <1>0, <1>2, <1>11, <1>16 DEF UtteranceRuns
  <2>10. SpeechAlternates'
    BY <2>1, <2>2, <1>11, <1>16 DEF SpeechAlternates
  <2> QED
    BY <2>4, <2>6, <2>7, <2>9, <2>10 DEF ListeningInv
<1> QED
  BY <1>4, <1>14, <1>15, <1>16

(* Every frame, reload and loss keeps the invariant. *)
LEMMA ListeningStep == ListeningInv /\ [ListeningNext]_listeningVars => ListeningInv'
<1> SUFFICES ASSUME ListeningInv, [ListeningNext]_listeningVars PROVE ListeningInv'
  OBVIOUS
<1>0. clock \in Nat /\ cfgHangover \in Nat
  BY DEF ListeningInv, ListeningShape
<1>1. CASE FrameLost \/ Mute \/ (\E h \in Hangovers : UpdateThresholds(h)) \/ UNCHANGED listeningVars
  <2>1. Hangovers \subseteq Nat
    BY ListeningAssumption
  <2>2. /\ clock' \in {clock, clock + 1} /\ cfgHangover' \in Nat
        /\ UNCHANGED <<wake, pipe, endp, buf, events, stream, torn, capped>>
    BY <1>0, <1>1, <2>1 DEF FrameLost, Mute, UpdateThresholds, listeningVars
  <2>3. clock' \in Nat /\ clock' >= clock
    BY <2>2, <1>0
  <2> QED
    BY <2>2, <2>3, NothingHeard
<1> QED
  BY <1>1, MutedStep, HeldStep, GatedStep, HeardStep DEF ListeningNext

(* The endpointer, the pipeline and the published events agree, for every  *)
(* setting of the detector, the buffer and the wake-word window, whatever  *)
(* the mute, reloads and lost frames do in between (pipeline.cpp).         *)
THEOREM SpeechAlternatesAlways == ListeningSafety => []SpeechAlternates
<1>1. ListeningInv => SpeechAlternates
  BY DEF ListeningInv
<1> QED
  BY <1>1, ListeningInitial, ListeningStep, PTL DEF ListeningSafety

\* What UtterancesAreWhole says of a step that publishes.
EndedStep == events'.done # events.done => events.last = "started"
OrderStep ==
    slice' # slice => /\ \A i \in 1 .. Len(slice') - 1 : slice'[i] < slice'[i + 1]
                      /\ \A i \in DOMAIN slice' : slice'[i] > events.cut
CoverStep ==
    slice' # slice =>
        /\ Range(slice') \subseteq Range(stream')
        /\ \/ capped'
           \/ \E held \in 0 .. events.begun :
                 Range(stream') \ Range(slice') \subseteq {held, events.begun}

(* What ends an utterance publishes what was recorded of it, in order. *)
LEMMA WholeStep ==
    ListeningInv /\ [ListeningNext]_listeningVars => EndedStep /\ OrderStep /\ CoverStep
<1> SUFFICES ASSUME ListeningInv, [ListeningNext]_listeningVars
             PROVE  EndedStep /\ OrderStep /\ CoverStep
  OBVIOUS
<1>0. /\ clock \in Nat /\ events \in EventStates /\ endp \in EndpointerStates
      /\ stream \in Seq(Nat) /\ buf.active \in Seq(Nat) /\ capped \in BOOLEAN
      /\ events.begun \in Nat /\ events.cut \in Nat /\ events.cut <= clock
      /\ ListeningShape /\ CapturedInOrder
  BY DEF ListeningInv, ListeningShape, EventStates, BufferStates
<1>1. /\ pipe.inSpeech <=> InUtterance
      /\ InUtterance => events.last = "started" /\ buf.rec
      /\ InUtterance => Covers(stream, buf.active, capped, events.begun)
  BY DEF ListeningInv, SpeechAlternates, UtteranceRuns
<1>2. CASE slice' = slice /\ events'.done = events.done
  BY <1>2 DEF EndedStep, OrderStep, CoverStep
<1>3. ASSUME MutedFrame PROVE EndedStep /\ OrderStep /\ CoverStep
  <2>1. slice' = slice /\ (~InUtterance => events' = events)
    BY <1>3 DEF MutedFrame
  <2> QED
    BY <2>1, <1>1 DEF EndedStep, OrderStep, CoverStep
<1>4. ASSUME NEW score \in BOOLEAN, FrameGated(score) PROVE slice' = slice /\ events'.done = events.done
  <2>1. slice' = slice /\ (events' = events \/ \E t : events' = [events EXCEPT !.cut = t])
    BY <1>4 DEF FrameGated
  <2> QED
    BY <2>1, <1>0 DEF EventStates
<1>5. ASSUME NEW v \in Verdicts, NEW score \in BOOLEAN, NEW loud \in BOOLEAN,
             FrameHeard(v, score, loud)
      PROVE  EndedStep /\ OrderStep /\ CoverStep
  <2> DEFINE chunk == Append(pipe.carry, clock + 1)
             b == Buffered(chunk)
             streamed == IF pipe.inSpeech THEN stream \o chunk ELSE stream
             step == OnFrame(v, Len(chunk))
  <2>1. Arrived(chunk, b)
    BY <1>0, ChunkArrives
  <2>2. clock' = clock + 1 /\ clock' \in Nat /\ clock + 1 > events.cut
    BY <1>0, <1>5 DEF FrameHeard
  <2>3. step.outcome = "SpeechEnded" => InUtterance
    BY <1>0, <2>1, EndpointerSteps DEF Arrived
  <2>4. \/ slice' = slice /\ Publish("started")
        \/ /\ step.outcome = "SpeechEnded" /\ Ended(score, streamed, b, loud)
           /\ capped' = (capped \/ Overflows(chunk))
        \/ slice' = slice /\ events' = events
    BY <1>5 DEF FrameHeard, Started
  <2>5. CASE slice' = slice /\ Publish("started")
    BY <2>5, <2>2, <1>0, <1>2, PublishSays
  <2>6. CASE slice' = slice /\ events' = events
    BY <2>6, <1>2
  <2>7. CASE /\ step.outcome = "SpeechEnded" /\ Ended(score, streamed, b, loud)
             /\ capped' = (capped \/ Overflows(chunk))
    <3>1. /\ InUtterance /\ buf.rec /\ b.rec /\ stream' = stream \o chunk
          /\ slice' # slice => slice' = b.active
      BY <2>1, <2>3, <2>7, <1>1 DEF Ended, Arrived
    <3>2. /\ chunk \in Seq(Nat) /\ b.active \in Seq(Nat) /\ Rising(b.active)
          /\ Range(b.active) \subseteq Range(buf.active) \cup Range(chunk)
          /\ ~Overflows(chunk) => b.active = buf.active \o chunk
          /\ \A x \in Range(b.active) : x \in Range(Kept \o pipe.carry) \/ x = clock + 1
      BY <2>1, <3>1 DEF Arrived, BufferStates
    <3> HIDE DEF chunk, b, streamed, step
    <3>3. \A x \in Range(b.active) : x > events.cut
      <4>1. \A x \in Range(Kept \o pipe.carry) : x > events.cut
        BY <3>1 DEF ListeningInv, NothingOld
      <4> QED
        BY <4>1, <3>2, <2>2
    <3>4. PICK over \in BOOLEAN : over = Overflows(chunk)
      BY DEF Overflows
    <3>5. Covers(stream \o chunk, b.active, capped \/ over, events.begun)
      <4>1. ~over => b.active = buf.active \o chunk
        BY <3>2, <3>4
      <4>2. Covers(stream, buf.active, capped, events.begun)
        BY <3>1, <1>1
      <4> QED
        BY <4>1, <4>2, <3>2, <1>0, CoversMore, ZenonT(60)
    <3>6. CoverStep
      <4>1. capped' = (capped \/ over)
        BY <2>7, <3>4
      <4> QED
        BY <4>1, <3>1, <3>5 DEF CoverStep, Covers
    <3>7. \A a \in Seq(Nat) : Rising(a) /\ (\A x \in Range(a) : x > events.cut) =>
              /\ \A i \in 1 .. Len(a) - 1 : a[i] < a[i + 1]
              /\ \A i \in DOMAIN a : a[i] > events.cut
      <4> SUFFICES ASSUME NEW a \in Seq(Nat), Rising(a), \A x \in Range(a) : x > events.cut
                   PROVE  /\ \A i \in 1 .. Len(a) - 1 : a[i] < a[i + 1]
                          /\ \A i \in DOMAIN a : a[i] > events.cut
        OBVIOUS
      <4>1. DOMAIN a = 1 .. Len(a) /\ Len(a) \in Nat
        OBVIOUS
      <4>2. ASSUME NEW i \in 1 .. Len(a) - 1 PROVE a[i] < a[i + 1]
        <5>1. i \in DOMAIN a /\ i + 1 \in DOMAIN a /\ i < i + 1
          BY <4>1
        <5>2. <<a[i], a[i + 1]>> \in Earlier
          BY <5>1 DEF Rising, Ordered
        <5> QED
          BY <5>2 DEF Earlier
      <4> QED
        BY <4>2 DEF Range
    <3>8. OrderStep
      BY <3>1, <3>2, <3>3, <3>7 DEF OrderStep
    <3> QED
      BY <3>1, <3>6, <3>8, <1>1 DEF EndedStep
  <2> QED
    BY <2>4, <2>5, <2>6, <2>7
<1>6. CASE FrameLost \/ FrameHeld \/ Mute \/ (\E h \in Hangovers : UpdateThresholds(h))
           \/ UNCHANGED listeningVars
  BY <1>2, <1>6 DEF FrameLost, FrameHeld, Mute, UpdateThresholds, listeningVars
<1> QED
  BY <1>2, <1>3, <1>4, <1>5, <1>6 DEF ListeningNext

(* Whatever the sizes of the buffers, the window and the hangovers: an     *)
(* utterance that ends was begun, a published utterance is in the order of *)
(* capture and reaches into no earlier one, and both ways to the           *)
(* transcription service get the same stretch (utterance_buffer,           *)
(* pipeline.cpp).                                                          *)
THEOREM UtterancesWhole == ListeningSafety => UtterancesAreWhole
<1>1. ListeningInv /\ [ListeningNext]_listeningVars =>
          /\ [events'.done # events.done => events.last = "started"]_listeningVars
          /\ [slice' # slice =>
                 /\ \A i \in 1 .. Len(slice') - 1 : slice'[i] < slice'[i + 1]
                 /\ \A i \in DOMAIN slice' : slice'[i] > events.cut]_listeningVars
          /\ [slice' # slice =>
                 /\ Range(slice') \subseteq Range(stream')
                 /\ \/ capped'
                    \/ \E held \in 0 .. events.begun :
                          Range(stream') \ Range(slice') \subseteq {held, events.begun}]_listeningVars
  BY WholeStep DEF EndedStep, OrderStep, CoverStep
<1> QED
  BY <1>1, ListeningInitial, ListeningStep, PTL
     DEF ListeningSafety, UtterancesAreWhole, EndsWhatBegan, SlicesInOrder, StreamCoversSlice

-----------------------------------------------------------------------------
(* The text-to-speech request. *)

-----------------------------------------------------------------------------
(* The samples of a stretch of the reply, continued: a byte that was left  *)
(* over and the pairs of the next chunk (curl_write).                      *)
LEMMA PairsContinue ==
    ASSUME NEW m \in Nat, NEW n \in Nat
    PROVE  Pairs(0, m) \o Pairs(2 * m, n) = Pairs(0, m + n)
<1>1. ASSUME NEW B, NEW s \in Seq(B), NEW t \in Seq(B), NEW u \in Seq(B),
             Len(s) = m, Len(t) = n, Len(u) = m + n,
             \A i \in 1 .. m : s[i] = u[i], \A i \in 1 .. n : t[i] = u[m + i]
      PROVE  s \o t = u
  <2> DEFINE c == s \o t
  <2>0. /\ c \in Seq(B) /\ DOMAIN c = 1 .. Len(s) + Len(t)
        /\ \A i \in 1 .. Len(s) : c[i] = s[i]
        /\ \A i \in Len(s) + 1 .. Len(s) + Len(t) : c[i] = t[i - Len(s)]
    BY ConcatAt
  <2> HIDE DEF c
  <2>1. /\ c \in Seq(B) /\ Len(c) = m + n
        /\ \A i \in 1 .. m : c[i] = s[i]
        /\ \A i \in m + 1 .. m + n : c[i] = t[i - m]
    BY <1>1, <2>0
  <2>2. ASSUME NEW i \in 1 .. Len(u) PROVE c[i] = u[i]
    <3>1. CASE i \in 1 .. m
      BY <3>1, <2>1, <1>1
    <3>2. CASE i \in m + 1 .. m + n
      <4>1. i - m \in 1 .. n /\ m + (i - m) = i
        BY <3>2
      <4> QED
        BY <4>1, <3>2, <2>1, <1>1
    <3> QED
      BY <3>1, <3>2, <1>1
  <2>3. c = u
    BY <2>1, <2>2, <1>1, SeqEqual
  <2> QED
    BY <2>3 DEF c
<1>2. ASSUME NEW from \in Nat, NEW k \in Nat
      PROVE  /\ Pairs(from, k) \in Seq(Int \X Int) /\ Len(Pairs(from, k)) = k
             /\ \A i \in 1 .. k : Pairs(from, k)[i] = <<from + 2 * (i - 1), from + 2 * (i - 1) + 1>>
  BY DEF Pairs
<1>3. ASSUME NEW i \in 1 .. m PROVE Pairs(0, m)[i] = Pairs(0, m + n)[i]
  <2>1. i \in 1 .. m + n /\ m + n \in Nat
    OBVIOUS
  <2>2. Pairs(0, m + n)[i] = <<0 + 2 * (i - 1), 0 + 2 * (i - 1) + 1>>
    BY <2>1, <1>2
  <2>3. Pairs(0, m)[i] = <<0 + 2 * (i - 1), 0 + 2 * (i - 1) + 1>>
    BY <1>2
  <2> QED
    BY <2>2, <2>3
<1>4. ASSUME NEW i \in 1 .. n PROVE Pairs(2 * m, n)[i] = Pairs(0, m + n)[m + i]
  <2>1. m + i \in 1 .. m + n /\ 2 * m + 2 * (i - 1) = 0 + 2 * ((m + i) - 1) /\ m + n \in Nat /\ 2 * m \in Nat
    OBVIOUS
  <2>2. Pairs(0, m + n)[m + i] = <<0 + 2 * ((m + i) - 1), 0 + 2 * ((m + i) - 1) + 1>>
    BY <2>1, <1>2
  <2>3. Pairs(2 * m, n)[i] = <<2 * m + 2 * (i - 1), 2 * m + 2 * (i - 1) + 1>>
    BY <2>1, <1>2
  <2> QED
    BY <2>1, <2>2, <2>3
<1>5. m + n \in Nat /\ 2 * m \in Nat
  OBVIOUS
<1>6. /\ Pairs(0, m) \in Seq(Int \X Int) /\ Len(Pairs(0, m)) = m
      /\ Pairs(2 * m, n) \in Seq(Int \X Int) /\ Len(Pairs(2 * m, n)) = n
      /\ Pairs(0, m + n) \in Seq(Int \X Int) /\ Len(Pairs(0, m + n)) = m + n
  BY <1>2, <1>5
<1> HIDE DEF Pairs
<1> QED
  BY <1>1, <1>3, <1>4, <1>6

(* The callbacks made, one more. *)
LEMMA OneMoreCall ==
    ASSUME NEW w
    PROVE  Append(<<>>, w) = <<w>> /\ Append(<<"format">>, w) = <<"format", w>>
<1>1. Append(<<>>, w) = <<w>>
  OBVIOUS
<1>2. Append(<<"format">>, w) = <<"format", w>>
  <2>1. ASSUME NEW f PROVE Append(<<f>>, w) = <<f, w>>
    <3>1. /\ Append(<<f>>, w) \in Seq({f, w}) /\ <<f, w>> \in Seq({f, w})
          /\ Len(Append(<<f>>, w)) = 2 /\ Len(<<f, w>>) = 2
      OBVIOUS
    <3>2. Append(<<f>>, w)[1] = f /\ Append(<<f>>, w)[2] = w
      OBVIOUS
    <3>3. ASSUME NEW c \in Seq({f, w}), NEW d \in Seq({f, w}), Len(c) = 2, Len(d) = 2,
                 c[1] = d[1], c[2] = d[2]
          PROVE  c = d
      <4>1. \A i \in 1 .. Len(d) : c[i] = d[i]
        BY <3>3
      <4> QED
        BY <3>3, <4>1, SeqEqual
    <3> QED
      BY <3>1, <3>2, <3>3
  <2> QED
    BY <2>1
<1> QED
  BY <1>1, <1>2

(* The inductive invariant of the request: the byte carried over is the    *)
(* last one received exactly when their number is odd, and the callbacks   *)
(* made follow from how far the request is.                                *)
TtsClientInv ==
    /\ req \in {"before", "transfer", "finished", "error"}
    /\ cancelled \in BOOLEAN /\ announced \in BOOLEAN /\ read \in Nat
    /\ ~announced => read = 0
    /\ carry = IF read % 2 = 1 THEN read - 1 ELSE NoByte
    /\ SamplesAligned
    /\ req \in {"before", "transfer"} =>
          calls = IF announced THEN <<"format">> ELSE <<>>
    /\ req \in {"finished", "error"} =>
          calls = IF announced THEN <<"format", req>> ELSE <<req>>
    /\ req \in {"transfer", "finished"} => voice \in Voices
    /\ req = "finished" => ~cancelled /\ read = BodyLength

TtsClientSafety == TtsClientInit /\ [][TtsClientNext]_ttsClientVars

(* Before submit() no callback was made and nothing was read. *)
LEMMA TtsClientInitial == TtsClientInit => TtsClientInv
<1> SUFFICES ASSUME TtsClientInit PROVE TtsClientInv
  OBVIOUS
<1>1. Pairs(0, 0) = <<>> /\ 0 \div 2 = 0 /\ 0 % 2 = 0
  BY DEF Pairs
<1>2. SamplesAligned /\ carry = IF read % 2 = 1 THEN read - 1 ELSE NoByte
  BY <1>1 DEF TtsClientInit, SamplesAligned
<1> QED
  BY <1>2 DEF TtsClientInit, TtsClientInv

(* A chunk of the reply keeps the samples aligned, whatever its length and *)
(* whatever was carried over (curl_write).                                 *)
LEMMA ChunkStep ==
    ASSUME TtsClientInv, NEW n \in 1 .. BodyLength, CurlWrite(n)
    PROVE  TtsClientInv'
<1> USE TtsClientAssumption
<1> DEFINE first == IF carry = NoByte THEN <<>> ELSE << <<carry, read>> >>
           used == IF read % 2 = 1 THEN 1 ELSE 0
           half == read \div 2
           more == (n - used) \div 2
<1>1. read \in Nat /\ n \in Nat \ {0} /\ used \in {0, 1} /\ half \in Nat /\ more \in Nat
      /\ read = 2 * half + used
  BY DEF TtsClientInv
<1>2. samples = Pairs(0, half)
  BY DEF TtsClientInv, SamplesAligned
<1>3. first = Pairs(2 * half, used) /\ Len(first) = used
  <2>1. CASE read % 2 = 1
    <3>1. carry = 2 * half /\ read = 2 * half + 1 /\ used = 1
      BY <1>1, <2>1 DEF TtsClientInv
    <3>2. first = << <<2 * half, 2 * half + 1>> >>
      BY <1>1, <3>1 DEF NoByte
    <3>3. Pairs(2 * half, 1) = << <<2 * half, 2 * half + 1>> >>
      BY <1>1 DEF Pairs
    <3> QED
      BY <3>1, <3>2, <3>3
  <2>2. CASE read % 2 # 1
    <3>1. first = <<>> /\ used = 0
      BY <2>2 DEF TtsClientInv
    <3>2. Pairs(2 * half, 0) = <<>>
      BY DEF Pairs
    <3> QED
      BY <3>1, <3>2
  <2> QED
    BY <2>1, <2>2
<1>4. /\ req = "transfer" /\ ~cancelled /\ read + n <= BodyLength
      /\ calls' = IF announced THEN calls ELSE Append(calls, "format")
      /\ announced' = TRUE
      /\ samples' = samples \o first \o Pairs(read + used, more)
      /\ carry' = IF (n - used) % 2 = 1 THEN read + n - 1 ELSE NoByte
      /\ read' = read + n
      /\ req' = req /\ cancelled' = cancelled /\ voice' = voice
  BY <1>3 DEF CurlWrite
<1>7. (read + n) \div 2 = (half + used) + more /\ (read + n) % 2 = (n - used) % 2
  BY <1>1
<1> HIDE DEF first, used, half, more
<1>5. samples \o first = Pairs(0, half + used)
  <2>1. 2 * half \in Nat /\ used \in Nat
    BY <1>1
  <2>2. samples \o Pairs(2 * half, used) = Pairs(0, half + used)
    BY <2>1, <1>1, <1>2, PairsContinue
  <2> QED
    BY <2>2, <1>3
<1>6. samples' = Pairs(0, (half + used) + more)
  <2>1. read + used = 2 * (half + used) /\ half + used \in Nat /\ read + used \in Nat
    BY <1>1
  <2>2. (samples \o first) \o Pairs(read + used, more) = Pairs(0, (half + used) + more)
    <3>1. Pairs(0, half + used) \o Pairs(2 * (half + used), more) = Pairs(0, (half + used) + more)
      BY <1>1, <2>1, PairsContinue
    <3> QED
      BY <3>1, <1>5, <2>1
  <2> QED
    BY <1>4, <2>2
<1>8. SamplesAligned'
  BY <1>4, <1>6, <1>7 DEF SamplesAligned
<1>9. carry' = IF read' % 2 = 1 THEN read' - 1 ELSE NoByte
  BY <1>1, <1>4, <1>7
<1>10. calls' = <<"format">>
  BY <1>4, OneMoreCall DEF TtsClientInv
<1>11. read' \in Nat
  BY <1>1, <1>4
<1> QED
  BY <1>4, <1>8, <1>9, <1>10, <1>11 DEF TtsClientInv

(* Every step of the request and its cancellation keeps the invariant. *)
LEMMA TtsClientStep == TtsClientInv /\ [TtsClientNext]_ttsClientVars => TtsClientInv'
<1> SUFFICES ASSUME TtsClientInv, [TtsClientNext]_ttsClientVars PROVE TtsClientInv'
  OBVIOUS
<1>1. ASSUME NEW lang, NEW ready \in BOOLEAN, SubmitTts(lang, ready) PROVE TtsClientInv'
  <2>1. voice' # NoVoice => voice' \in Voices
    BY <1>1 DEF SubmitTts, RouteFor
  <2>2. Append(<<>>, "error") = <<"error">> /\ Append(<<"format">>, "error") = <<"format", "error">>
    BY OneMoreCall
  <2> QED
    BY <1>1, <2>1, <2>2 DEF SubmitTts, TtsClientInv, SamplesAligned
<1>2. ASSUME NEW n \in 1 .. BodyLength, CurlWrite(n) PROVE TtsClientInv'
  BY <1>2, ChunkStep
<1>3. CASE CancelTts
  BY <1>3 DEF CancelTts, TtsClientInv, SamplesAligned
<1>4. ASSUME NEW ok \in BOOLEAN, TransferEnds(ok) PROVE TtsClientInv'
  <2>1. \A w \in {"finished", "error"} :
            Append(<<>>, w) = <<w>> /\ Append(<<"format">>, w) = <<"format", w>>
    BY OneMoreCall
  <2> QED
    BY <1>4, <2>1 DEF TransferEnds, TtsClientInv, SamplesAligned
<1>5. CASE UNCHANGED ttsClientVars
  BY <1>5 DEF ttsClientVars, TtsClientInv, SamplesAligned
<1> QED
  BY <1>1, <1>2, <1>3, <1>4, <1>5 DEF TtsClientNext

(* For a reply of any length, cut by the network in any way and cancelled  *)
(* at any moment, the caller of submit() gets the samples of the reply in  *)
(* order and one truthful end (openai_tts_client.cpp).                     *)
THEOREM RepliesAreHandedOn == TtsClientSafety => []ReplyIsHandedOn
<1>1. TtsClientInv => ReplyIsHandedOn
  <2> SUFFICES ASSUME TtsClientInv PROVE ClosedOnce
    BY DEF ReplyIsHandedOn, TtsClientInv
  <2>1. samples # <<>> => announced
    <3>1. Pairs(0, 0) = <<>> /\ 0 \div 2 = 0
      BY DEF Pairs
    <3> QED
      BY <3>1 DEF TtsClientInv, SamplesAligned
  <2>2. announced => calls # <<>> /\ calls[1] = "format"
    BY DEF TtsClientInv
  <2> QED
    BY <2>1, <2>2 DEF TtsClientInv, ClosedOnce
<1> QED
  BY <1>1, TtsClientInitial, TtsClientStep, PTL DEF TtsClientSafety

-----------------------------------------------------------------------------
(* The workers of the transcription requests. *)

\* What waits is the newest part of what was produced.
Newest(q, p) ==
    /\ q \in Seq(Nat) /\ Len(q) <= p
    /\ \A i \in 1 .. Len(q) : q[i] = p - Len(q) + i

(* The oldest job leaves: taken by the worker, or dropped to make room. *)
LEMMA NewestTail ==
    ASSUME NEW p \in Nat, NEW q, Newest(q, p), q # <<>>
    PROVE  Newest(Tail(q), p) /\ Len(Tail(q)) = Len(q) - 1 /\ Head(q) = p - Len(q) + 1
           /\ Len(q) \in Nat /\ Len(q) > 0 /\ Len(q) <= p
<1>1. /\ q \in Seq(Nat) /\ Len(q) \in Nat /\ Len(q) >= 1 /\ Head(q) = q[1]
      /\ Tail(q) \in Seq(Nat) /\ Len(Tail(q)) = Len(q) - 1
      /\ \A i \in 1 .. Len(q) - 1 : Tail(q)[i] = q[i + 1]
  BY DEF Newest
<1>2. ASSUME NEW i \in 1 .. Len(q) - 1 PROVE Tail(q)[i] = p - (Len(q) - 1) + i
  <2>1. i + 1 \in 1 .. Len(q)
    BY <1>1
  <2>2. q[i + 1] = p - Len(q) + (i + 1)
    BY <2>1 DEF Newest
  <2> QED
    BY <1>1, <2>2
<1>3. Len(q) <= p /\ 1 \in 1 .. Len(q) /\ q[1] = p - Len(q) + 1
  BY <1>1 DEF Newest
<1> QED
  BY <1>1, <1>2, <1>3 DEF Newest

(* A new job comes last. *)
LEMMA NewestAppend ==
    ASSUME NEW p \in Nat, NEW q, Newest(q, p)
    PROVE  Newest(Append(q, p + 1), p + 1) /\ Len(Append(q, p + 1)) = Len(q) + 1
           /\ Len(q) \in Nat /\ Len(q) <= p
<1> DEFINE a == Append(q, p + 1)
<1>1. /\ q \in Seq(Nat) /\ Len(q) \in Nat /\ Len(q) <= p
      /\ \A i \in 1 .. Len(q) : q[i] = p - Len(q) + i
  BY DEF Newest
<1>2. /\ a \in Seq(Nat) /\ Len(a) = Len(q) + 1 /\ a[Len(q) + 1] = p + 1
      /\ \A i \in 1 .. Len(q) : a[i] = q[i]
  BY <1>1
<1> HIDE DEF a
<1>3. ASSUME NEW i \in 1 .. Len(a) PROVE a[i] = (p + 1) - Len(a) + i
  <2>1. CASE i = Len(q) + 1
    BY <2>1, <1>1, <1>2
  <2>2. CASE i \in 1 .. Len(q)
    BY <2>2, <1>1, <1>2
  <2> QED
    BY <2>1, <2>2, <1>1, <1>2
<1>4. Newest(a, p + 1)
  BY <1>1, <1>2, <1>3 DEF Newest
<1> QED
  BY <1>1, <1>2, <1>4 DEF a

(* The inductive invariant: only jobs that left the queue were answered,   *)
(* the one under way was not, and on the request path none left otherwise. *)
JobsInv ==
    /\ produced \in 0 .. MaxJobs /\ Newest(queue, produced)
    /\ outcome \in [1 .. MaxJobs -> {0, 1}]
    /\ worker = "submitting" => job \in 1 .. produced - Len(queue) /\ outcome[job] = 0
    /\ \A j \in 1 .. MaxJobs : outcome[j] = 1 => j <= produced - Len(queue)
    /\ kind = "request" => \A j \in 1 .. produced - Len(queue) :
            outcome[j] = 1 \/ (worker = "submitting" /\ job = j)

JobsSafety == JobsInit /\ [][JobsNext]_jobsVars

(* The subscription, the worker and its late answers keep the invariant. *)
LEMMA JobsStep == JobsInv /\ [JobsNext]_jobsVars => JobsInv'
<1> SUFFICES ASSUME JobsInv, [JobsNext]_jobsVars PROVE JobsInv'
  OBVIOUS
<1> USE JobsAssumption
<1>0. produced \in Nat /\ MaxJobs \in Nat /\ produced <= MaxJobs /\ Newest(queue, produced)
      /\ Len(queue) \in Nat /\ Len(queue) <= produced
  BY DEF JobsInv, Newest
<1>1. CASE Enqueue
  <2> DEFINE room == IF kind = "selfListen" /\ Len(queue) >= SelfListenCap THEN Tail(queue) ELSE queue
  <2>1. /\ produced' = produced + 1 /\ produced < MaxJobs /\ queue' = Append(room, produced + 1)
        /\ kind' = kind /\ job' = job /\ outcome' = outcome
        /\ worker' = "submitting" <=> worker = "submitting"
    BY <1>1 DEF Enqueue
  <2>2. Newest(room, produced) /\ Len(room) \in Nat /\ Len(room) <= Len(queue)
        /\ (kind = "request" => room = queue)
    <3>1. CASE kind = "selfListen" /\ Len(queue) >= SelfListenCap
      <4>1. queue # <<>>
        BY <1>0, <3>1
      <4> QED
        BY <4>1, <3>1, <1>0, NewestTail
    <3>2. CASE ~(kind = "selfListen" /\ Len(queue) >= SelfListenCap)
      BY <3>2, <1>0
    <3> QED
      BY <3>1, <3>2
  <2> HIDE DEF room
  <2>3. Newest(queue', produced') /\ Len(queue') = Len(room) + 1
    BY <2>1, <2>2, <1>0, NewestAppend
  <2>4. produced' - Len(queue') = produced - Len(room) /\ produced' \in 0 .. MaxJobs
        /\ produced - Len(queue) <= produced - Len(room)
        /\ (kind = "request" => produced - Len(room) = produced - Len(queue))
    BY <2>1, <2>2, <2>3, <1>0
  <2>5. worker' = "submitting" => job' \in 1 .. produced' - Len(queue') /\ outcome'[job'] = 0
    BY <2>1, <2>2, <2>4, <1>0 DEF JobsInv
  <2>6. \A j \in 1 .. MaxJobs : outcome'[j] = 1 => j <= produced' - Len(queue')
    BY <2>1, <2>2, <2>4, <1>0 DEF JobsInv
  <2>7. kind' = "request" => \A j \in 1 .. produced' - Len(queue') :
            outcome'[j] = 1 \/ (worker' = "submitting" /\ job' = j)
    BY <2>1, <2>2, <2>4, <1>0 DEF JobsInv
  <2> QED
    BY <2>1, <2>3, <2>4, <2>5, <2>6, <2>7 DEF JobsInv
<1>2. CASE WorkerTakes
  <2>1. /\ worker = "waiting" /\ queue # <<>> /\ worker' = "submitting" /\ job' = Head(queue)
        /\ queue' = Tail(queue) /\ kind' = kind /\ produced' = produced /\ outcome' = outcome
    BY <1>2 DEF WorkerTakes
  <2>2. Newest(queue', produced) /\ Len(queue') = Len(queue) - 1 /\ job' = produced - Len(queue) + 1
        /\ Len(queue) > 0
    BY <2>1, <1>0, NewestTail
  <2>3. job' \in 1 .. MaxJobs /\ job' = produced - Len(queue') /\ produced - Len(queue) = job' - 1
        /\ job' \in 1 .. produced - Len(queue')
    BY <2>2, <1>0
  <2>4. outcome[job'] = 0
    BY <2>3, <1>0 DEF JobsInv
  <2>5. \A j \in 1 .. MaxJobs : outcome'[j] = 1 => j <= produced' - Len(queue')
    BY <2>1, <2>2, <2>3, <1>0 DEF JobsInv
  <2>6. kind' = "request" => \A j \in 1 .. produced' - Len(queue') :
            outcome'[j] = 1 \/ (worker' = "submitting" /\ job' = j)
    BY <2>1, <2>2, <2>3, <1>0 DEF JobsInv
  <2> QED
    BY <2>1, <2>2, <2>3, <2>4, <2>5, <2>6 DEF JobsInv
<1>3. CASE Submitted
  <2>1. /\ worker = "submitting" /\ worker' = "loop" /\ job \in 1 .. MaxJobs
        /\ outcome' = [outcome EXCEPT ![job] = outcome[job] + 1] /\ outcome[job] = 0
        /\ kind' = kind /\ queue' = queue /\ produced' = produced
    BY <1>3, <1>0 DEF Submitted, JobsInv
  <2>2. outcome' \in [1 .. MaxJobs -> {0, 1}] /\ outcome'[job] = 1
        /\ \A j \in 1 .. MaxJobs : j # job => outcome'[j] = outcome[j]
    BY <2>1 DEF JobsInv
  <2> QED
    BY <2>1, <2>2, <1>0 DEF JobsInv
<1>4. CASE WorkerTests \/ WorkerWaits \/ WorkerBlocks \/ WorkerEnds
  <2>1. /\ worker # "submitting" /\ worker' # "submitting" /\ kind' = kind /\ queue' = queue
        /\ produced' = produced /\ outcome' = outcome
    BY <1>4 DEF WorkerTests, WorkerWaits, WorkerBlocks, WorkerEnds
  <2> QED
    BY <2>1 DEF JobsInv
<1>5. CASE Stopper \/ UNCHANGED jobsVars
  <2>1. /\ worker' = "submitting" <=> worker = "submitting"
        /\ kind' = kind /\ queue' = queue /\ job' = job /\ produced' = produced /\ outcome' = outcome
    BY <1>5 DEF Stopper, StopStores, StopNotifies, StopJoins, jobsVars
  <2> QED
    BY <2>1 DEF JobsInv
<1> QED
  BY <1>1, <1>2, <1>3, <1>4, <1>5 DEF JobsNext, Worker

(* For any number of jobs and any size of the self-listen queue: a job is  *)
(* answered at most once, what waits is the newest part of what was        *)
(* produced, and the request path loses none (stt_stack.cpp,               *)
(* tts_stack.cpp): the safety part of JobsServed.                          *)
THEOREM JobsAnsweredOnce == JobsSafety => []JobsOnceInOrder
<1> USE JobsAssumption
<1>1. JobsInit => JobsInv
  <2> SUFFICES ASSUME JobsInit PROVE JobsInv
    OBVIOUS
  <2>1. Newest(<<>>, 0) /\ Len(<<>>) = 0
    BY DEF Newest
  <2> QED
    BY <2>1 DEF JobsInit, JobsInv
<1>2. JobsInv => JobsOnceInOrder
  <2> SUFFICES ASSUME JobsInv PROVE JobsOnceInOrder
    OBVIOUS
  <2>1. /\ produced \in Nat /\ MaxJobs \in Nat /\ produced <= MaxJobs /\ Len(queue) \in Nat
        /\ queue \in Seq(Nat) /\ Len(queue) <= produced
        /\ \A i \in 1 .. Len(queue) : queue[i] = produced - Len(queue) + i
    BY DEF JobsInv, Newest
  <2>2. queue = [i \in 1 .. Len(queue) |-> produced - Len(queue) + i]
    BY <2>1
  <2>3. \A j \in 1 .. MaxJobs : outcome[j] <= 1
    BY <2>1 DEF JobsInv
  <2>4. ASSUME NEW j \in 1 .. produced, j > produced - Len(queue) PROVE Contains(queue, j)
    <3> DEFINE i == j - (produced - Len(queue))
    <3>1. i \in 1 .. Len(queue) /\ queue[i] = j
      BY <2>1, <2>4
    <3> QED
      BY <3>1 DEF Contains
  <2>5. ASSUME kind = "request", NEW j \in 1 .. produced
        PROVE  outcome[j] = 1 \/ Contains(queue, j) \/ (worker = "submitting" /\ job = j)
    <3>1. CASE j > produced - Len(queue)
      BY <3>1, <2>4
    <3>2. CASE j \in 1 .. produced - Len(queue)
      BY <3>2, <2>5 DEF JobsInv
    <3> QED
      BY <3>1, <3>2, <2>1
  <2> QED
    BY <2>2, <2>3, <2>5 DEF JobsOnceInOrder
<1> QED
  BY <1>1, <1>2, JobsStep, PTL DEF JobsSafety

-----------------------------------------------------------------------------
(* The streaming client. *)

Audio == Seq(Nat \X Nat)
WireMessages == {<<"update">>, <<"clear">>, <<"commit">>} \cup ({"append"} \X (Nat \X Nat))
Replies == {<<"updated">>} \cup ({"committed", "error"} \X Nat) \cup ({"final"} \X Nat \X Audio)

\* The answers to a commit that number its item: it was confirmed or refused.
Numbers(m) == m[1] \in {"committed", "error"}

\* The replies under way number the items above lo and below hi, each once and in order.
Numbered(q, lo, hi) ==
    /\ q \in Seq(Replies)
    /\ \A i \in DOMAIN q : Numbers(q[i]) => q[i][2] \in lo + 1 .. hi - 1
    /\ \A i, j \in DOMAIN q : i < j /\ Numbers(q[i]) /\ Numbers(q[j]) => q[i][2] < q[j][2]
    /\ \A n \in lo + 1 .. hi - 1 : \E i \in DOMAIN q : Numbers(q[i]) /\ q[i][2] = n
    /\ \A i \in DOMAIN q : q[i][1] = "final" => q[i][2] >= 1

(* The shapes of the messages to the client. *)
LEMMA RepliesAre ==
    ASSUME NEW m \in Replies
    PROVE  /\ m[1] \in {"updated", "committed", "error", "final"}
           /\ m[1] # "updated" => m[2] \in Nat
           /\ m[1] = "final" => m[3] \in Audio
<1>1. CASE m = <<"updated">>
  BY <1>1
<1>2. CASE m \in {"committed", "error"} \X Nat
  BY <1>2
<1>3. CASE m \in {"final"} \X Nat \X Audio
  BY <1>3
<1> QED
  BY <1>1, <1>2, <1>3 DEF Replies

(* One more reply that numbers no item. *)
LEMMA PlainLast ==
    ASSUME NEW q, NEW lo \in Nat, NEW hi \in Nat, Numbered(q, lo, hi),
           NEW m \in Replies, ~Numbers(m), m[1] = "final" => m[2] >= 1
    PROVE  Numbered(Append(q, m), lo, hi)
<1> DEFINE a == Append(q, m)
<1>1. /\ q \in Seq(Replies) /\ Len(q) \in Nat /\ DOMAIN q = 1 .. Len(q)
      /\ a \in Seq(Replies) /\ DOMAIN a = 1 .. Len(q) + 1 /\ a[Len(q) + 1] = m
      /\ \A i \in 1 .. Len(q) : a[i] = q[i]
  BY DEF Numbered
<1> HIDE DEF a
<1>2. ASSUME NEW i \in DOMAIN a PROVE (i \in DOMAIN q /\ a[i] = q[i]) \/ (i = Len(q) + 1 /\ a[i] = m)
  BY <1>1
<1>3. \A i \in DOMAIN a : Numbers(a[i]) => i \in DOMAIN q /\ a[i] = q[i]
  BY <1>2
<1>4. \A i \in DOMAIN a : Numbers(a[i]) => a[i][2] \in lo + 1 .. hi - 1
  BY <1>3 DEF Numbered
<1>5. \A i, j \in DOMAIN a : i < j /\ Numbers(a[i]) /\ Numbers(a[j]) => a[i][2] < a[j][2]
  BY <1>3 DEF Numbered
<1>6. \A n \in lo + 1 .. hi - 1 : \E i \in DOMAIN a : Numbers(a[i]) /\ a[i][2] = n
  <2>1. \A i \in DOMAIN q : i \in DOMAIN a /\ a[i] = q[i]
    BY <1>1
  <2> QED
    BY <2>1 DEF Numbered
<1>7. \A i \in DOMAIN a : a[i][1] = "final" => a[i][2] >= 1
  BY <1>2 DEF Numbered
<1>8. Numbered(a, lo, hi)
  BY <1>1, <1>4, <1>5, <1>6, <1>7 DEF Numbered
<1> QED
  BY <1>8 DEF a

(* One more item, numbered next. *)
LEMMA NumberLast ==
    ASSUME NEW q, NEW lo \in Nat, NEW hi \in Nat, lo < hi, Numbered(q, lo, hi),
           NEW m \in Replies, Numbers(m), m[2] = hi
    PROVE  Numbered(Append(q, m), lo, hi + 1)
<1> DEFINE a == Append(q, m)
<1>1. /\ q \in Seq(Replies) /\ Len(q) \in Nat /\ DOMAIN q = 1 .. Len(q)
      /\ a \in Seq(Replies) /\ DOMAIN a = 1 .. Len(q) + 1 /\ a[Len(q) + 1] = m
      /\ \A i \in 1 .. Len(q) : a[i] = q[i]
  BY DEF Numbered
<1> HIDE DEF a
<1>2. ASSUME NEW i \in DOMAIN a
      PROVE  i \in Nat /\ ((i \in DOMAIN q /\ i <= Len(q) /\ a[i] = q[i]) \/ (i = Len(q) + 1 /\ a[i] = m))
  BY <1>1
<1>3. \A i \in DOMAIN q : Numbers(q[i]) => q[i][2] \in Nat /\ lo < q[i][2] /\ q[i][2] < hi
  <2>1. \A n \in lo + 1 .. hi - 1 : n \in Nat /\ lo < n /\ n < hi
    OBVIOUS
  <2> QED
    BY <2>1 DEF Numbered
<1>4. \A i \in DOMAIN a : Numbers(a[i]) => a[i][2] \in lo + 1 .. (hi + 1) - 1
  <2> SUFFICES ASSUME NEW i \in DOMAIN a, Numbers(a[i]) PROVE a[i][2] \in Nat /\ lo < a[i][2] /\ a[i][2] <= hi
    OBVIOUS
  <2>1. CASE i \in DOMAIN q /\ a[i] = q[i]
    BY <2>1, <1>3
  <2>2. CASE a[i] = m
    BY <2>2
  <2> QED
    BY <2>1, <2>2, <1>2
<1>5. ASSUME NEW i \in DOMAIN a, NEW j \in DOMAIN a, i < j, Numbers(a[i]), Numbers(a[j])
      PROVE  a[i][2] < a[j][2]
  <2>1. i \in DOMAIN q /\ a[i] = q[i]
    BY <1>1, <1>2, <1>5
  <2>2. CASE j \in DOMAIN q /\ a[j] = q[j]
    BY <2>1, <2>2, <1>5 DEF Numbered
  <2>3. CASE a[j] = m
    BY <2>1, <2>3, <1>3, <1>5
  <2> QED
    BY <2>2, <2>3, <1>2
<1>6. ASSUME NEW n \in lo + 1 .. (hi + 1) - 1 PROVE \E i \in DOMAIN a : Numbers(a[i]) /\ a[i][2] = n
  <2>1. CASE n = hi
    <3>1. Len(q) + 1 \in DOMAIN a /\ Numbers(a[Len(q) + 1]) /\ a[Len(q) + 1][2] = n
      BY <1>1, <2>1
    <3> QED
      BY <3>1
  <2>2. CASE n \in lo + 1 .. hi - 1
    <3>1. PICK i \in DOMAIN q : Numbers(q[i]) /\ q[i][2] = n
      BY <2>2 DEF Numbered
    <3>2. i \in DOMAIN a /\ a[i] = q[i]
      BY <1>1
    <3> QED
      BY <3>1, <3>2
  <2> QED
    BY <2>1, <2>2
<1>7. \A i \in DOMAIN a : a[i][1] = "final" => a[i][2] >= 1
  BY <1>2 DEF Numbered, Numbers
<1>8. Numbered(a, lo, hi + 1)
  BY <1>1, <1>4, <1>5, <1>6, <1>7 DEF Numbered
<1> QED
  BY <1>8 DEF a

(* The first reply is taken: when it numbers an item, that is the next. *)
LEMMA FirstTaken ==
    ASSUME NEW q, NEW lo \in Nat, NEW hi \in Nat, lo < hi, Numbered(q, lo, hi), q # <<>>
    PROVE  /\ Head(q) \in Replies /\ (Head(q)[1] = "final" => Head(q)[2] >= 1)
           /\ ~Numbers(Head(q)) => Numbered(Tail(q), lo, hi)
           /\ Numbers(Head(q)) => /\ Head(q)[2] = lo + 1 /\ lo + 1 < hi
                                  /\ Numbered(Tail(q), lo + 1, hi)
<1> DEFINE t == Tail(q)
           h == Head(q)
<1>1. /\ q \in Seq(Replies) /\ Len(q) \in Nat /\ Len(q) >= 1 /\ DOMAIN q = 1 .. Len(q)
      /\ t \in Seq(Replies) /\ DOMAIN t = 1 .. Len(q) - 1 /\ h = q[1] /\ h \in Replies
      /\ \A i \in 1 .. Len(q) - 1 : t[i] = q[i + 1]
  BY DEF Numbered
<1> HIDE DEF t, h
<1>2. ASSUME NEW i \in DOMAIN t PROVE i \in Nat /\ i + 1 \in DOMAIN q /\ t[i] = q[i + 1] /\ 1 < i + 1
  BY <1>1
<1>3. 1 \in DOMAIN q
  BY <1>1
<1>4. h[1] = "final" => h[2] >= 1
  BY <1>1, <1>3 DEF Numbered
<1>5. \A i, j \in DOMAIN t : i < j /\ Numbers(t[i]) /\ Numbers(t[j]) => t[i][2] < t[j][2]
  <2> SUFFICES ASSUME NEW i \in DOMAIN t, NEW j \in DOMAIN t, i < j, Numbers(t[i]), Numbers(t[j])
               PROVE  t[i][2] < t[j][2]
    OBVIOUS
  <2>1. i + 1 < j + 1
    BY <1>2
  <2> QED
    BY <2>1, <1>2 DEF Numbered
<1>6. \A i \in DOMAIN t : t[i][1] = "final" => t[i][2] >= 1
  BY <1>2 DEF Numbered
<1>7. \A i \in DOMAIN t : Numbers(t[i]) => t[i][2] \in lo + 1 .. hi - 1
  BY <1>2 DEF Numbered
<1>8. ASSUME NEW i \in DOMAIN q, i # 1 PROVE i - 1 \in DOMAIN t /\ t[i - 1] = q[i]
  <2>1. i - 1 \in 1 .. Len(q) - 1 /\ (i - 1) + 1 = i
    BY <1>1, <1>8
  <2> QED
    BY <2>1, <1>1
<1>9. ASSUME ~Numbers(h) PROVE Numbered(t, lo, hi)
  <2>1. ASSUME NEW n \in lo + 1 .. hi - 1 PROVE \E i \in DOMAIN t : Numbers(t[i]) /\ t[i][2] = n
    <3>1. PICK i \in DOMAIN q : Numbers(q[i]) /\ q[i][2] = n
      BY DEF Numbered
    <3>2. i # 1
      BY <3>1, <1>1, <1>9
    <3> QED
      BY <3>1, <3>2, <1>8
  <2> QED
    BY <2>1, <1>1, <1>5, <1>6, <1>7 DEF Numbered
<1>10. ASSUME Numbers(h) PROVE h[2] = lo + 1 /\ lo + 1 < hi /\ Numbered(t, lo + 1, hi)
  <2>1. h[2] \in lo + 1 .. hi - 1
    BY <1>1, <1>3, <1>10 DEF Numbered
  <2>2. h[2] \in Nat /\ lo + 1 <= h[2] /\ h[2] < hi /\ lo + 1 < hi /\ lo + 1 \in lo + 1 .. hi - 1
    BY <2>1
  <2>3. PICK f \in DOMAIN q : Numbers(q[f]) /\ q[f][2] = lo + 1
    BY <2>2 DEF Numbered
  <2>4. ASSUME NEW i \in DOMAIN q, i # 1, Numbers(q[i]) PROVE h[2] < q[i][2]
    <3>1. 1 < i
      BY <1>1, <2>4
    <3> QED
      BY <3>1, <2>4, <1>1, <1>3, <1>10 DEF Numbered
  <2>5. f = 1
    <3> SUFFICES ASSUME f # 1 PROVE FALSE
      OBVIOUS
    <3>1. h[2] < q[f][2]
      BY <2>3, <2>4
    <3> QED
      BY <3>1, <2>2, <2>3
  <2>6. h[2] = lo + 1
    BY <2>3, <2>5, <1>1
  <2>7. ASSUME NEW i \in DOMAIN t, Numbers(t[i]) PROVE t[i][2] \in (lo + 1) + 1 .. hi - 1
    <3>1. h[2] < t[i][2]
      BY <2>4, <2>7, <1>2
    <3>2. t[i][2] \in lo + 1 .. hi - 1
      BY <2>7, <1>7
    <3> QED
      BY <3>1, <3>2, <2>6
  <2>8. ASSUME NEW n \in (lo + 1) + 1 .. hi - 1
        PROVE  \E i \in DOMAIN t : Numbers(t[i]) /\ t[i][2] = n
    <3>1. n \in lo + 1 .. hi - 1 /\ n # lo + 1
      OBVIOUS
    <3>2. PICK i \in DOMAIN q : Numbers(q[i]) /\ q[i][2] = n
      BY <3>1 DEF Numbered
    <3>3. i # 1
      BY <3>1, <3>2, <2>6, <1>1
    <3> QED
      BY <3>2, <3>3, <1>8
  <2> QED
    BY <2>2, <2>6, <2>7, <2>8, <1>1, <1>5, <1>6 DEF Numbered
<1> QED
  BY <1>1, <1>4, <1>9, <1>10 DEF t, h

-----------------------------------------------------------------------------
\* The transcripts f go where the items c were confirmed, in the order of the items.
Placed(f, c) ==
    /\ f \in Seq(Nat \X Nat \X Audio) /\ c \in Seq(Nat)
    /\ \A i \in DOMAIN f : f[i][2] \in 1 .. Len(c) /\ f[i][1] = c[f[i][2]]
    /\ \A i, j \in DOMAIN f : i < j => f[i][2] < f[j][2]

(* One more item is confirmed or refused. *)
LEMMA ConfirmedGrows ==
    ASSUME NEW f, NEW c, Placed(f, c), NEW x \in Nat
    PROVE  Placed(f, Append(c, x))
<1>1. c \in Seq(Nat) /\ Len(c) \in Nat
  BY DEF Placed
<1>2. Append(c, x) \in Seq(Nat) /\ Len(Append(c, x)) = Len(c) + 1
      /\ \A n \in 1 .. Len(c) : Append(c, x)[n] = c[n] /\ n \in 1 .. Len(c) + 1
  BY <1>1
<1> QED
  BY <1>2 DEF Placed

(* One more transcript, of an item later than all before. *)
LEMMA FinalLast ==
    ASSUME NEW f, NEW c, Placed(f, c), NEW n \in 1 .. Len(c), NEW a \in Audio,
           \A i \in DOMAIN f : f[i][2] < n
    PROVE  Placed(Append(f, <<c[n], n, a>>), c)
<1> DEFINE e == <<c[n], n, a>>
           g == Append(f, e)
<1>1. c \in Seq(Nat) /\ Len(c) \in Nat /\ c[n] \in Nat /\ n \in Nat
  BY DEF Placed
<1>2. e \in Nat \X Nat \X Audio /\ e[1] = c[n] /\ e[2] = n
  BY <1>1
<1> HIDE DEF e
<1>3. /\ f \in Seq(Nat \X Nat \X Audio) /\ Len(f) \in Nat /\ DOMAIN f = 1 .. Len(f)
      /\ g \in Seq(Nat \X Nat \X Audio) /\ DOMAIN g = 1 .. Len(f) + 1 /\ g[Len(f) + 1] = e
      /\ \A i \in 1 .. Len(f) : g[i] = f[i]
  BY <1>2 DEF Placed
<1> HIDE DEF g
<1>4. ASSUME NEW i \in DOMAIN g
      PROVE  /\ i \in Int /\ i <= Len(f) + 1
             /\ (i \in DOMAIN f /\ g[i] = f[i]) \/ (i = Len(f) + 1 /\ g[i] = e)
  <2>1. i \in 1 .. Len(f) + 1 /\ i \in Int
    BY <1>3
  <2>2. i \in 1 .. Len(f) \/ i = Len(f) + 1
    BY <2>1, <1>3
  <2> QED
    BY <2>1, <2>2, <1>3
<1>5. \A i \in DOMAIN g : g[i][2] \in 1 .. Len(c) /\ g[i][1] = c[g[i][2]]
  BY <1>2, <1>4 DEF Placed
<1>6. ASSUME NEW i \in DOMAIN g, NEW j \in DOMAIN g, i < j PROVE g[i][2] < g[j][2]
  <2>1. i \in DOMAIN f /\ g[i] = f[i]
    <3>1. i # Len(f) + 1
      BY <1>3, <1>4, <1>6
    <3> QED
      BY <1>4, <3>1
  <2>2. CASE j \in DOMAIN f /\ g[j] = f[j]
    BY <2>1, <2>2, <1>6 DEF Placed
  <2>3. CASE g[j] = e
    BY <2>1, <2>3, <1>2
  <2> QED
    BY <2>2, <2>3, <1>4
<1>7. Placed(g, c)
  BY <1>1, <1>3, <1>5, <1>6 DEF Placed
<1> QED
  BY <1>7 DEF g, e

-----------------------------------------------------------------------------
ClientStates == [turn : 0 .. Utterances, item : Nat, open : BOOLEAN]

RealtimeShape ==
    /\ mic \in [u : Nat, k : Nat] /\ mic.u >= 1
    /\ \/ pushing = <<>>
       \/ mic.u <= Utterances /\ mic.k >= 1 /\ pushing = << <<mic.u, mic.k - 1>> >>
    /\ startedQ \in Seq(1 .. Utterances) /\ begunAt \subseteq 1 .. Utterances
    /\ client \in ClientStates
    /\ answers \in [1 .. Utterances -> Nat]
    /\ wire \in Seq(WireMessages)
    /\ server \in [buffer : Audio, item : Nat]

\* The pipeline has published SpeechStarted for utterance u.
Announced(u) == \/ u < mic.u
                \/ u = mic.u /\ mic.k >= 2 /\ (pushing = <<>> \/ mic.k > 2)

\* An utterance is announced once, and its handler runs once, in the order of speech.
AnnouncedOnce ==
    /\ \A u \in Range(startedQ) \cup begunAt : Announced(u)
    /\ Range(startedQ) \cap begunAt = {}
    /\ Ordered(startedQ, Earlier)

\* An answer was given to an utterance whose handler ran and which is not active any more.
AnsweredAreDone ==
    /\ \A u \in 1 .. Utterances :
           answers[u] = 0 \/ (answers[u] = 1 /\ u \in begunAt /\ u # client.turn)
    /\ client.turn # None => client.turn \in begunAt

\* The active item was confirmed for the active utterance, after all that are transcribed.
ItemIsConfirmed ==
    client.item # None =>
        /\ client.item \in 1 .. Len(confirmed) /\ confirmed[client.item] = client.turn
        /\ \A i \in DOMAIN finals : finals[i][2] < client.item

ItemsNumbered == Len(confirmed) < server.item /\ Numbered(replies, Len(confirmed), server.item)

RealtimeInv ==
    /\ RealtimeShape /\ AnnouncedOnce /\ AnsweredAreDone
    /\ ItemIsConfirmed /\ Placed(finals, confirmed) /\ ItemsNumbered

RealtimeSafety == RealtimeInit /\ [][RealtimeNext]_realtimeVars

(* What the invariant says of the state at hand implies the property. *)
LEMMA RealtimeInvImplies == RealtimeInv => AnsweredRightly
<1>1. AnsweredAreDone => AnsweredOnce
  <2> SUFFICES ASSUME AnsweredAreDone, NEW u \in 1 .. Utterances PROVE answers[u] <= 1
    BY DEF AnsweredOnce
  <2>1. answers[u] = 0 \/ answers[u] = 1
    BY DEF AnsweredAreDone
  <2> QED
    BY <2>1
<1>2. Placed(finals, confirmed) => TranscriptsGoWhereConfirmed
  BY DEF Placed, TranscriptsGoWhereConfirmed
<1> QED
  BY <1>1, <1>2 DEF RealtimeInv, AnsweredRightly

(* Before start() nothing is under way. *)
LEMMA RealtimeInitial == RealtimeInit => RealtimeInv
<1> SUFFICES ASSUME RealtimeInit PROVE RealtimeInv
  OBVIOUS
<1>1. /\ mic = [u |-> 1, k |-> 0] /\ pushing = <<>> /\ startedQ = <<>> /\ client = Inactive
      /\ wire = <<>> /\ server = [buffer |-> <<>>, item |-> 1] /\ replies = <<>> /\ begunAt = {}
      /\ answers = [u \in 1 .. Utterances |-> 0] /\ finals = <<>> /\ confirmed = <<>>
  BY DEF RealtimeInit
<1>2. RealtimeShape
  <2>1. <<>> \in Audio /\ <<>> \in Seq(WireMessages) /\ <<>> \in Seq(1 .. Utterances)
    BY DEF Audio
  <2>2. Inactive \in ClientStates
    BY RealtimeAssumption DEF Inactive, ClientStates, None
  <2> QED
    BY <1>1, <2>1, <2>2 DEF RealtimeShape
<1>3. AnnouncedOnce
  <2>1. Range(startedQ) = {}
    BY <1>1 DEF Range
  <2>2. DOMAIN startedQ = {}
    BY <1>1
  <2> QED
    BY <1>1, <2>1, <2>2 DEF AnnouncedOnce, Ordered
<1>4. AnsweredAreDone
  BY <1>1 DEF AnsweredAreDone, Inactive, None
<1>5. ItemIsConfirmed
  BY <1>1 DEF ItemIsConfirmed, Inactive, None
<1>6. Placed(finals, confirmed)
  BY <1>1 DEF Placed
<1>7. ItemsNumbered
  <2>1. server.item = 1 /\ Len(confirmed) = 0 /\ DOMAIN replies = {} /\ replies \in Seq(Replies)
    BY <1>1
  <2>2. \A n \in 0 + 1 .. 1 - 1 : FALSE
    OBVIOUS
  <2> QED
    BY <2>1, <2>2 DEF ItemsNumbered, Numbered
<1> QED
  BY <1>2, <1>3, <1>4, <1>5, <1>6, <1>7 DEF RealtimeInv

(* What start() and the two handlers send changes only the wire. *)
LEMMA SendStep ==
    ASSUME RealtimeInv, NEW m \in WireMessages, wire' \in {wire, Append(wire, m)},
           UNCHANGED <<mic, pushing, startedQ, begunAt, clientVars, server, replies>>
    PROVE  RealtimeInv'
<1>1. wire' \in Seq(WireMessages)
  <2>1. wire \in Seq(WireMessages)
    BY DEF RealtimeInv, RealtimeShape
  <2>2. Append(wire, m) \in Seq(WireMessages)
    BY <2>1
  <2> QED
    BY <2>1, <2>2
<1>2. RealtimeShape'
  BY <1>1 DEF RealtimeInv, RealtimeShape, clientVars
<1> QED
  BY <1>2 DEF RealtimeInv, AnnouncedOnce, Announced, AnsweredAreDone, ItemIsConfirmed,
              ItemsNumbered, clientVars

(* SpeechStarted is published for an utterance later than all before. *)
LEMMA PublishesStarted ==
    ASSUME NEW q \in Seq(1 .. Utterances), Ordered(q, Earlier), NEW done \in SUBSET (1 .. Utterances),
           Range(q) \cap done = {}, NEW u \in 1 .. Utterances,
           \A v \in Range(q) \cup done : v < u
    PROVE  /\ Append(q, u) \in Seq(1 .. Utterances) /\ Ordered(Append(q, u), Earlier)
           /\ Range(Append(q, u)) = Range(q) \cup {u} /\ Range(Append(q, u)) \cap done = {}
<1>0. Utterances \in Nat
  BY RealtimeAssumption
<1>1. Append(q, u) \in Seq(1 .. Utterances) /\ Range(Append(q, u)) = Range(q) \cup {u}
  BY AppendElems, ZenonT(60)
<1>2. ASSUME NEW x \in Range(q) PROVE <<x, u>> \in Earlier
  <2>1. x \in 1 .. Utterances
    BY RangeOfSeq
  <2>2. x \in Nat /\ u \in Nat /\ x < u
    BY <1>0, <2>1
  <2> QED
    BY <2>2 DEF Earlier
<1>3. Ordered(Append(q, u), Earlier)
  BY <1>2, AppendOrdered
<1>4. u \notin done
  <2>1. ~(u < u)
    BY <1>0
  <2> QED
    BY <2>1
<1> QED
  BY <1>1, <1>3, <1>4

(* push_audio, and the publication that follows the onset. *)
LEMMA PushTakesStep ==
    ASSUME RealtimeInv, PushTakes
    PROVE  RealtimeInv'
<1> DEFINE u == mic.u
           k == mic.k
<1>0. /\ mic \in [u : Nat, k : Nat] /\ u \in Nat /\ k \in Nat /\ u >= 1 /\ Utterances \in Nat
      /\ startedQ \in Seq(1 .. Utterances) /\ begunAt \in SUBSET (1 .. Utterances)
  BY RealtimeAssumption DEF RealtimeInv, RealtimeShape
<1>1. /\ u <= Utterances /\ pushing = <<>>
      /\ mic' = [mic EXCEPT !.k = mic.k + 1]
      /\ pushing' = IF client.open THEN << <<u, k>> >> ELSE <<>>
      /\ startedQ' = IF k = 1 /\ ~client.open THEN Append(startedQ, u) ELSE startedQ
      /\ begunAt' = begunAt /\ client' = client /\ answers' = answers /\ finals' = finals
      /\ confirmed' = confirmed /\ wire' = wire /\ server' = server /\ replies' = replies
  BY DEF PushTakes, clientVars
<1>2. mic' \in [u : Nat, k : Nat] /\ mic.u' = u /\ mic.k' = k + 1
  BY <1>0, <1>1, SMTT(60)
<1> HIDE DEF u, k
<1>3. \A v \in Range(startedQ) \cup begunAt : v \in Nat /\ (v < u \/ (v = u /\ k >= 2))
  <2>1. \A v \in Range(startedQ) \cup begunAt : Announced(v)
    BY DEF RealtimeInv, AnnouncedOnce
  <2>2. \A v \in Range(startedQ) \cup begunAt : v \in Nat
    <3>1. \A v \in 1 .. Utterances : v \in Nat
      BY <1>0
    <3>2. \A v \in Range(startedQ) : v \in 1 .. Utterances
      BY <1>0, RangeOfSeq
    <3> QED
      BY <1>0, <3>1, <3>2
  <2> QED
    BY <2>1, <2>2 DEF Announced, u, k
<1>4. u \in 1 .. Utterances
  BY <1>0, <1>1
<1>5. /\ startedQ' \in Seq(1 .. Utterances) /\ Ordered(startedQ', Earlier)
      /\ Range(startedQ') \subseteq Range(startedQ) \cup (IF k = 1 /\ ~client.open THEN {u} ELSE {})
      /\ Range(startedQ') \cap begunAt = {}
  <2>1. CASE k = 1 /\ ~client.open
    <3>1. \A v \in Range(startedQ) \cup begunAt : v < u
      BY <1>3, <2>1
    <3>2. Ordered(startedQ, Earlier) /\ Range(startedQ) \cap begunAt = {}
      BY DEF RealtimeInv, AnnouncedOnce
    <3>3. /\ Append(startedQ, u) \in Seq(1 .. Utterances) /\ Ordered(Append(startedQ, u), Earlier)
          /\ Range(Append(startedQ, u)) = Range(startedQ) \cup {u}
          /\ Range(Append(startedQ, u)) \cap begunAt = {}
      BY <1>0, <1>4, <3>1, <3>2, PublishesStarted
    <3>4. startedQ' = Append(startedQ, u)
      BY <1>1, <1>4, <2>1
    <3> QED
      BY <2>1, <3>3, <3>4
  <2>2. CASE ~(k = 1 /\ ~client.open)
    BY <1>0, <1>1, <2>2 DEF RealtimeInv, AnnouncedOnce
  <2> QED
    BY <2>1, <2>2
<1>6. AnnouncedOnce'
  <2> SUFFICES ASSUME NEW v \in Range(startedQ') \cup begunAt PROVE Announced(v)'
    BY <1>1, <1>5 DEF AnnouncedOnce
  <2>1. CASE v \in Range(startedQ) \cup begunAt
    BY <2>1, <1>0, <1>2, <1>3 DEF Announced
  <2>2. CASE v = u /\ k = 1 /\ ~client.open
    BY <2>2, <1>0, <1>1, <1>2 DEF Announced
  <2> QED
    BY <2>1, <2>2, <1>5
<1>7. RealtimeShape'
  <2>1. mic.u' >= 1 /\ (k + 1) - 1 = k /\ mic.k' >= 1 /\ mic.u' <= Utterances
    BY <1>0, <1>1, <1>2
  <2>2. pushing' = <<>> \/ pushing' = << <<mic.u', mic.k' - 1>> >>
    BY <1>1, <1>2, <2>1
  <2> QED
    BY <1>1, <1>2, <1>5, <2>1, <2>2 DEF RealtimeInv, RealtimeShape
<1> QED
  BY <1>1, <1>6, <1>7 DEF RealtimeInv, AnsweredAreDone, ItemIsConfirmed, ItemsNumbered

(* The send that was prepared under the lock. *)
LEMMA PushSendsStep ==
    ASSUME RealtimeInv, PushSends
    PROVE  RealtimeInv'
<1> DEFINE u == mic.u
           k == mic.k
<1>0. /\ mic \in [u : Nat, k : Nat] /\ u \in Nat /\ k \in Nat /\ u >= 1 /\ Utterances \in Nat
      /\ startedQ \in Seq(1 .. Utterances) /\ begunAt \in SUBSET (1 .. Utterances)
      /\ wire \in Seq(WireMessages)
  BY RealtimeAssumption DEF RealtimeInv, RealtimeShape
<1>1. pushing # <<>> /\ u <= Utterances /\ k >= 1 /\ pushing[1] = <<u, k - 1>>
  BY DEF RealtimeInv, RealtimeShape, PushSends
<1>2. /\ wire' = IF conn = "up" THEN Append(wire, <<"append", <<u, k - 1>> >>) ELSE wire
      /\ startedQ' = IF k - 1 = 1 THEN Append(startedQ, u) ELSE startedQ
      /\ pushing' = <<>> /\ mic' = mic
      /\ begunAt' = begunAt /\ client' = client /\ answers' = answers /\ finals' = finals
      /\ confirmed' = confirmed /\ server' = server /\ replies' = replies
  BY <1>1 DEF PushSends, clientVars
<1> HIDE DEF u, k
<1>3. \A v \in Range(startedQ) \cup begunAt : v \in Nat /\ (v < u \/ (v = u /\ k > 2))
  <2>1. \A v \in Range(startedQ) \cup begunAt : Announced(v)
    BY DEF RealtimeInv, AnnouncedOnce
  <2>2. \A v \in Range(startedQ) \cup begunAt : v \in Nat
    <3>1. \A v \in 1 .. Utterances : v \in Nat
      BY <1>0
    <3>2. \A v \in Range(startedQ) : v \in 1 .. Utterances
      BY <1>0, RangeOfSeq
    <3> QED
      BY <1>0, <3>1, <3>2
  <2> QED
    BY <1>1, <2>1, <2>2 DEF Announced, u, k
<1>4. u \in 1 .. Utterances /\ (k - 1 = 1 <=> k = 2)
  BY <1>0, <1>1
<1>5. /\ startedQ' \in Seq(1 .. Utterances) /\ Ordered(startedQ', Earlier)
      /\ Range(startedQ') \subseteq Range(startedQ) \cup (IF k = 2 THEN {u} ELSE {})
      /\ Range(startedQ') \cap begunAt = {}
  <2>1. CASE k = 2
    <3>1. \A v \in Range(startedQ) \cup begunAt : v < u
      BY <1>3, <2>1
    <3>2. Ordered(startedQ, Earlier) /\ Range(startedQ) \cap begunAt = {}
      BY DEF RealtimeInv, AnnouncedOnce
    <3>3. /\ Append(startedQ, u) \in Seq(1 .. Utterances) /\ Ordered(Append(startedQ, u), Earlier)
          /\ Range(Append(startedQ, u)) = Range(startedQ) \cup {u}
          /\ Range(Append(startedQ, u)) \cap begunAt = {}
      BY <1>0, <1>4, <3>1, <3>2, PublishesStarted
    <3>4. startedQ' = Append(startedQ, u)
      BY <1>2, <1>4, <2>1
    <3> QED
      BY <2>1, <3>3, <3>4
  <2>2. CASE k # 2
    BY <1>0, <1>2, <1>4, <2>2 DEF RealtimeInv, AnnouncedOnce
  <2> QED
    BY <2>1, <2>2
<1>6. AnnouncedOnce'
  <2> SUFFICES ASSUME NEW v \in Range(startedQ') \cup begunAt PROVE Announced(v)'
    BY <1>2, <1>5 DEF AnnouncedOnce
  <2>1. CASE v \in Range(startedQ) \cup begunAt
    BY <2>1, <1>0, <1>2, <1>3 DEF Announced, u, k
  <2>2. CASE v = u /\ k = 2
    BY <2>2, <1>0, <1>2 DEF Announced, u, k
  <2> QED
    BY <2>1, <2>2, <1>5
<1>7. wire' \in Seq(WireMessages)
  <2>1. <<u, k - 1>> \in Nat \X Nat
    BY <1>0, <1>1
  <2>2. <<"append", <<u, k - 1>> >> \in WireMessages
    BY <2>1 DEF WireMessages
  <2> QED
    BY <1>0, <1>2, <2>2
<1>8. RealtimeShape'
  BY <1>2, <1>5, <1>7 DEF RealtimeInv, RealtimeShape
<1> QED
  BY <1>2, <1>6, <1>8 DEF RealtimeInv, AnsweredAreDone, ItemIsConfirmed, ItemsNumbered

(* The pipeline goes on to the next utterance. *)
LEMMA SpeechEndsStep ==
    ASSUME RealtimeInv, SpeechEnds
    PROVE  RealtimeInv'
<1>0. mic \in [u : Nat, k : Nat] /\ mic.u \in Nat /\ mic.k \in Nat /\ mic.u >= 1
  BY DEF RealtimeInv, RealtimeShape
<1>1. /\ pushing = <<>> /\ pushing' = <<>> /\ mic' = [u |-> mic.u + 1, k |-> 0]
      /\ startedQ' = startedQ /\ wire' = wire
      /\ begunAt' = begunAt /\ client' = client /\ answers' = answers /\ finals' = finals
      /\ confirmed' = confirmed /\ server' = server /\ replies' = replies
  BY DEF SpeechEnds, clientVars
<1>2. mic' \in [u : Nat, k : Nat] /\ mic.u' = mic.u + 1 /\ mic.u' >= 1
  BY <1>0, <1>1
<1>3. RealtimeShape'
  BY <1>1, <1>2 DEF RealtimeInv, RealtimeShape
<1>4. AnnouncedOnce'
  <2> SUFFICES ASSUME NEW v \in Range(startedQ) \cup begunAt PROVE Announced(v)'
    BY <1>1 DEF RealtimeInv, AnnouncedOnce
  <2>1. v \in Nat
    <3>1. \A w \in 1 .. Utterances : w \in Nat
      BY RealtimeAssumption
    <3>2. startedQ \in Seq(1 .. Utterances) /\ begunAt \subseteq 1 .. Utterances
      BY DEF RealtimeInv, RealtimeShape
    <3> QED
      BY <3>1, <3>2, RangeOfSeq
  <2>2. Announced(v)
    BY DEF RealtimeInv, AnnouncedOnce
  <2> QED
    BY <1>0, <1>2, <2>1, <2>2 DEF Announced
<1> QED
  BY <1>1, <1>3, <1>4 DEF RealtimeInv, AnsweredAreDone, ItemIsConfirmed, ItemsNumbered

-----------------------------------------------------------------------------
(* The handler of SpeechStarted: the utterance was not begun before, so it *)
(* has not been answered.                                                  *)
LEMMA BeginUtteranceStep ==
    ASSUME RealtimeInv, BeginUtterance
    PROVE  RealtimeInv'
<1> DEFINE h == Head(startedQ)
<1>0. /\ startedQ \in Seq(1 .. Utterances) /\ startedQ # <<>> /\ Utterances \in Nat
      /\ begunAt \in SUBSET (1 .. Utterances)
  BY RealtimeAssumption DEF RealtimeInv, RealtimeShape, BeginUtterance
<1>1. /\ startedQ' = Tail(startedQ) /\ begunAt' = begunAt \cup {h}
      /\ \/ client' = [turn |-> h, item |-> None, open |-> TRUE] /\ answers' = answers
         \/ answers' = [answers EXCEPT ![h] = answers[h] + 1] /\ client' = client
      /\ mic' = mic /\ pushing' = pushing /\ finals' = finals /\ wire' = wire
      /\ confirmed' = confirmed /\ server' = server /\ replies' = replies
  BY DEF BeginUtterance
<1> HIDE DEF h
<1>2. /\ startedQ' \in Seq(1 .. Utterances) /\ h \in 1 .. Utterances /\ h \in Nat /\ h # 0
      /\ Range(startedQ) = {h} \cup Range(startedQ')
      /\ Ordered(startedQ', Earlier) /\ \A x \in Range(startedQ') : <<h, x>> \in Earlier
  <2>1. Ordered(startedQ, Earlier)
    BY DEF RealtimeInv, AnnouncedOnce
  <2>2. /\ startedQ' \in Seq(1 .. Utterances) /\ h \in 1 .. Utterances
        /\ Range(startedQ) = {h} \cup Range(startedQ')
    BY <1>0, <1>1, TailElems DEF h
  <2>3. Ordered(startedQ', Earlier) /\ \A x \in Range(startedQ') : <<h, x>> \in Earlier
    BY <1>0, <1>1, <2>1, TailOrdered DEF h
  <2> QED
    BY <1>0, <2>2, <2>3
<1>3. h \notin begunAt /\ h \notin Range(startedQ')
  <2>1. h \notin begunAt
    BY <1>2 DEF RealtimeInv, AnnouncedOnce
  <2>2. <<h, h>> \notin Earlier
    BY <1>2 DEF Earlier
  <2> QED
    BY <1>2, <2>1, <2>2
<1>4. AnnouncedOnce'
  <2>1. \A v \in Range(startedQ') \cup begunAt' : Announced(v)'
    BY <1>1, <1>2 DEF RealtimeInv, AnnouncedOnce, Announced
  <2>2. Range(startedQ') \cap begunAt' = {}
    BY <1>1, <1>2, <1>3 DEF RealtimeInv, AnnouncedOnce
  <2> QED
    BY <1>2, <2>1, <2>2 DEF AnnouncedOnce
<1>5. /\ answers \in [1 .. Utterances -> Nat] /\ client \in ClientStates
      /\ \A u \in 1 .. Utterances : answers[u] = 0 \/ (answers[u] = 1 /\ u \in begunAt /\ u # client.turn)
      /\ client.turn # None => client.turn \in begunAt
  BY DEF RealtimeInv, RealtimeShape, AnsweredAreDone
<1>6. answers[h] = 0 /\ client.turn # h
  BY <1>2, <1>3, <1>5 DEF None
<1>7. CASE client' = [turn |-> h, item |-> None, open |-> TRUE] /\ answers' = answers
  <2>1. client' \in ClientStates /\ client.turn' = h /\ client.item' = None
    BY <1>0, <1>2, <1>7 DEF ClientStates, None
  <2>2. RealtimeShape'
    BY <1>0, <1>1, <1>2, <1>7, <2>1 DEF RealtimeInv, RealtimeShape
  <2>3. AnsweredAreDone'
    <3> SUFFICES ASSUME NEW u \in 1 .. Utterances
                 PROVE  answers[u] = 0 \/ (answers[u] = 1 /\ u \in begunAt' /\ u # h)
      BY <1>1, <1>7, <2>1 DEF AnsweredAreDone
    <3> QED
      BY <1>1, <1>5, <1>6
  <2>4. ItemIsConfirmed'
    BY <2>1 DEF ItemIsConfirmed
  <2> QED
    BY <1>1, <1>4, <2>2, <2>3, <2>4 DEF RealtimeInv, ItemsNumbered
<1>8. CASE answers' = [answers EXCEPT ![h] = answers[h] + 1] /\ client' = client
  <2>1. /\ answers' \in [1 .. Utterances -> Nat] /\ answers'[h] = 1
        /\ \A u \in 1 .. Utterances : u # h => answers'[u] = answers[u]
    BY <1>2, <1>5, <1>6, <1>8
  <2>2. RealtimeShape'
    BY <1>0, <1>1, <1>2, <1>8, <2>1 DEF RealtimeInv, RealtimeShape
  <2>3. AnsweredAreDone'
    <3> SUFFICES ASSUME NEW u \in 1 .. Utterances
                 PROVE  answers'[u] = 0 \/ (answers'[u] = 1 /\ u \in begunAt' /\ u # client.turn)
      BY <1>1, <1>5, <1>8 DEF AnsweredAreDone
    <3> QED
      BY <1>1, <1>5, <1>6, <2>1
  <2>4. ItemIsConfirmed'
    BY <1>1, <1>8 DEF RealtimeInv, ItemIsConfirmed
  <2> QED
    BY <1>1, <1>4, <2>2, <2>3, <2>4 DEF RealtimeInv, ItemsNumbered
<1> QED
  BY <1>1, <1>7, <1>8

(* The handler of SpeechEnded drops the resampler. *)
LEMMA EndUtteranceStep ==
    ASSUME RealtimeInv, EndUtterance
    PROVE  RealtimeInv'
<1>1. /\ client' = [client EXCEPT !.open = FALSE] /\ startedQ' = startedQ /\ begunAt' = begunAt
      /\ answers' = answers
      /\ mic' = mic /\ pushing' = pushing /\ finals' = finals /\ wire' = wire
      /\ confirmed' = confirmed /\ server' = server /\ replies' = replies
  BY DEF EndUtterance
<1>2. client \in ClientStates
  BY DEF RealtimeInv, RealtimeShape
<1>3. client' \in ClientStates /\ client.turn' = client.turn /\ client.item' = client.item
  BY <1>1, <1>2 DEF ClientStates
<1>4. RealtimeShape'
  BY <1>1, <1>3 DEF RealtimeInv, RealtimeShape
<1>5. AnnouncedOnce'
  BY <1>1 DEF RealtimeInv, AnnouncedOnce, Announced
<1>6. AnsweredAreDone' /\ ItemIsConfirmed'
  BY <1>1, <1>3 DEF RealtimeInv, AnsweredAreDone, ItemIsConfirmed
<1> QED
  BY <1>1, <1>4, <1>5, <1>6 DEF RealtimeInv, ItemsNumbered

-----------------------------------------------------------------------------
(* The shapes of the messages to the server. *)
LEMMA WiresAre ==
    ASSUME NEW m \in WireMessages
    PROVE  /\ m[1] \in {"update", "clear", "commit", "append"}
           /\ m[1] = "append" => m[2] \in Nat \X Nat
  BY DEF WireMessages

(* The server numbers an item at a commit, and answers it in this order. *)
LEMMA ServerStep ==
    ASSUME RealtimeInv, ServerReads
    PROVE  RealtimeInv'
<1> DEFINE m == Head(wire)
           item == server.item
           n == Len(confirmed)
<1>0. /\ wire \in Seq(WireMessages) /\ wire # <<>> /\ Head(wire) \in WireMessages
      /\ Tail(wire) \in Seq(WireMessages)
      /\ server \in [buffer : Audio, item : Nat] /\ server.buffer \in Audio /\ item \in Nat
      /\ confirmed \in Seq(Nat) /\ n \in Nat /\ n < item
      /\ Numbered(replies, n, item)
  BY DEF RealtimeInv, RealtimeShape, ServerReads, Placed, ItemsNumbered
<1>1. /\ wire' = Tail(wire) /\ mic' = mic /\ pushing' = pushing /\ startedQ' = startedQ
      /\ begunAt' = begunAt /\ client' = client /\ answers' = answers /\ finals' = finals
      /\ confirmed' = confirmed
  BY DEF ServerReads, busVars, clientVars
<1>2. SUFFICES server' \in [buffer : Audio, item : Nat] /\ n < server.item' /\ Numbered(replies', n, server.item')
  <2> SUFFICES ASSUME server' \in [buffer : Audio, item : Nat] /\ n < server.item'
                      /\ Numbered(replies', n, server.item')
               PROVE  RealtimeInv'
    OBVIOUS
  <2>1. RealtimeShape'
    BY <1>0, <1>1 DEF RealtimeInv, RealtimeShape
  <2>2. ItemsNumbered'
    BY <1>1 DEF ItemsNumbered
  <2> QED
    BY <1>1, <2>1, <2>2 DEF RealtimeInv, AnnouncedOnce, Announced, AnsweredAreDone, ItemIsConfirmed
<1>3. CASE m[1] = "update"
  <2>1. server' = server /\ replies' \in {Append(replies, <<"updated">>), replies}
    BY <1>3 DEF ServerReads
  <2>2. <<"updated">> \in Replies /\ ~Numbers(<<"updated">>)
    BY DEF Replies, Numbers
  <2>3. <<"updated">>[1] # "final"
    OBVIOUS
  <2>4. Numbered(Append(replies, <<"updated">>), n, item)
    BY <1>0, <2>2, <2>3, PlainLast
  <2> QED
    BY <1>0, <2>1, <2>4
<1>4. CASE m[1] = "clear"
  <2>1. server' = [server EXCEPT !.buffer = <<>>] /\ replies' = replies
    BY <1>4 DEF ServerReads
  <2>2. <<>> \in Audio
    BY DEF Audio
  <2> QED
    BY <1>0, <2>1, <2>2
<1>5. CASE m[1] = "append"
  <2>1. server' = [server EXCEPT !.buffer = Append(server.buffer, m[2])] /\ replies' = replies
    BY <1>5 DEF ServerReads
  <2>2. m[2] \in Nat \X Nat
    BY <1>0, <1>5, WiresAre
  <2>3. Append(server.buffer, m[2]) \in Audio
    BY <1>0, <2>2 DEF Audio
  <2> QED
    BY <1>0, <2>1, <2>3
<1>6. CASE m[1] = "commit"
  <2> DEFINE com == <<"committed", item>>
             fin == <<"final", item, server.buffer>>
             err == <<"error", item>>
  <2>1. /\ server' = [buffer |-> <<>>, item |-> item + 1]
        /\ replies' = Append(Append(replies, com), fin) \/ replies' = Append(replies, err)
    BY <1>6 DEF ServerReads
  <2>2. <<>> \in Audio
    BY DEF Audio
  <2>3. /\ server' \in [buffer : Audio, item : Nat] /\ server.item' = item + 1
        /\ n < item + 1 /\ item + 1 \in Nat /\ item >= 1
    BY <1>0, <2>1, <2>2
  <2>4. /\ com \in Replies /\ Numbers(com) /\ com[2] = item
        /\ err \in Replies /\ Numbers(err) /\ err[2] = item
        /\ fin \in Replies /\ ~Numbers(fin) /\ fin[2] = item
    BY <1>0 DEF Replies, Numbers
  <2> HIDE DEF com, err, fin
  <2>5. Numbered(Append(replies, com), n, item + 1) /\ Numbered(Append(replies, err), n, item + 1)
    BY <1>0, <2>4, NumberLast
  <2>6. Numbered(Append(Append(replies, com), fin), n, item + 1)
    BY <1>0, <2>3, <2>4, <2>5, PlainLast
  <2> QED
    BY <2>1, <2>3, <2>5, <2>6
<1> QED
  BY <1>0, <1>3, <1>4, <1>5, <1>6, WiresAre

(* The client is told about an item, or of a transcript or error it does   *)
(* not accept; what it accepts answers the active utterance.               *)
LEMMA MessageStep ==
    ASSUME RealtimeInv, OnMessage
    PROVE  RealtimeInv'
<1> DEFINE m == Head(replies)
           n == Len(confirmed)
           turn == client.turn
<1>0. /\ confirmed \in Seq(Nat) /\ n \in Nat /\ n < server.item /\ server.item \in Nat
      /\ Numbered(replies, n, server.item) /\ replies # <<>>
      /\ client \in ClientStates /\ turn \in 0 .. Utterances /\ client.item \in Nat /\ turn \in Nat
      /\ answers \in [1 .. Utterances -> Nat]
      /\ Placed(finals, confirmed)
  BY RealtimeAssumption DEF RealtimeInv, RealtimeShape, Placed, ItemsNumbered, OnMessage, ClientStates
<1>1. /\ wire' = wire /\ mic' = mic /\ pushing' = pushing /\ startedQ' = startedQ
      /\ begunAt' = begunAt /\ server' = server /\ replies' = Tail(replies)
  BY DEF OnMessage, busVars
<1>2. /\ m \in Replies /\ (m[1] = "final" => m[2] >= 1)
      /\ ~Numbers(m) => Numbered(replies', n, server.item)
      /\ Numbers(m) => /\ m[2] = n + 1 /\ n + 1 < server.item
                       /\ Numbered(replies', n + 1, server.item)
  BY <1>0, <1>1, FirstTaken
<1>3. /\ m[1] \in {"updated", "committed", "error", "final"}
      /\ m[1] # "updated" => m[2] \in Nat
      /\ m[1] = "final" => m[3] \in Audio
  BY <1>2, RepliesAre
<1> HIDE DEF m, n, turn
<1>4. AnnouncedOnce'
  BY <1>1 DEF RealtimeInv, AnnouncedOnce, Announced
<1>5. ASSUME client' \in ClientStates, answers' \in [1 .. Utterances -> Nat]
      PROVE  RealtimeShape'
  BY <1>1, <1>5 DEF RealtimeInv, RealtimeShape
<1>6. ASSUME NEW x \in Nat, confirmed' = Append(confirmed, x), Numbers(m), finals' = finals
      PROVE  /\ ItemsNumbered' /\ Placed(finals', confirmed') /\ Len(confirmed') = n + 1
             /\ confirmed'[n + 1] = x
             /\ \A i \in 1 .. n : confirmed'[i] = confirmed[i] /\ i \in 1 .. n + 1
             /\ \A i \in DOMAIN finals : finals[i][2] < n + 1
  <2>1. /\ Len(confirmed') = n + 1 /\ confirmed'[n + 1] = x
        /\ \A i \in 1 .. n : confirmed'[i] = confirmed[i] /\ i \in 1 .. n + 1
    BY <1>0, <1>6 DEF n
  <2>2. Placed(finals', confirmed')
    BY <1>0, <1>6, ConfirmedGrows
  <2>3. ItemsNumbered'
    BY <1>1, <1>2, <1>6, <2>1 DEF ItemsNumbered
  <2>4. \A i \in 1 .. n : i < n + 1
    BY <1>0
  <2>5. \A i \in DOMAIN finals : finals[i][2] < n + 1
    BY <1>0, <2>4 DEF Placed, n
  <2> QED
    BY <2>1, <2>2, <2>3, <2>5
<1>7. ASSUME confirmed' = confirmed, ~Numbers(m) PROVE ItemsNumbered'
  BY <1>0, <1>1, <1>2, <1>7 DEF ItemsNumbered, n
<1>8. ASSUME UNCHANGED <<client, answers, finals>>, 
             \/ confirmed' = confirmed /\ ~Numbers(m)
             \/ confirmed' = Append(confirmed, None) /\ Numbers(m)
      PROVE  RealtimeInv'
  <2>1. RealtimeShape' /\ AnsweredAreDone'
    BY <1>0, <1>1, <1>5, <1>8 DEF RealtimeInv, AnsweredAreDone
  <2>2. CASE confirmed' = confirmed /\ ~Numbers(m)
    BY <1>4, <1>7, <1>8, <2>1, <2>2 DEF RealtimeInv, ItemIsConfirmed
  <2>3. CASE confirmed' = Append(confirmed, None) /\ Numbers(m)
    <3>1. None \in Nat
      BY DEF None
    <3>2. /\ ItemsNumbered' /\ Placed(finals', confirmed') /\ Len(confirmed') = n + 1
          /\ \A i \in 1 .. n : confirmed'[i] = confirmed[i] /\ i \in 1 .. n + 1
      BY <1>6, <1>8, <2>3, <3>1
    <3>3. ItemIsConfirmed'
      BY <1>8, <3>2 DEF RealtimeInv, ItemIsConfirmed, n
    <3> QED
      BY <1>4, <2>1, <3>2, <3>3 DEF RealtimeInv
  <2> QED
    BY <1>8, <2>2, <2>3
<1>9. ASSUME turn # None, client' = Inactive, answers' = [answers EXCEPT ![turn] = answers[turn] + 1]
      PROVE  RealtimeShape' /\ AnsweredAreDone' /\ ItemIsConfirmed'
  <2>1. turn \in 1 .. Utterances /\ turn \in begunAt
    <3>1. Utterances \in Nat
      BY RealtimeAssumption
    <3> QED
      BY <1>0, <1>9, <3>1 DEF RealtimeInv, AnsweredAreDone, turn, None
  <2>2. /\ \A u \in 1 .. Utterances :
             answers[u] = 0 \/ (answers[u] = 1 /\ u \in begunAt /\ u # turn)
        /\ answers[turn] = 0
    BY <2>1 DEF RealtimeInv, AnsweredAreDone, turn
  <2>3. /\ answers' \in [1 .. Utterances -> Nat] /\ answers'[turn] = 1
        /\ \A u \in 1 .. Utterances : u # turn => answers'[u] = answers[u]
    BY <1>0, <1>9, <2>1, <2>2
  <2>4. client' \in ClientStates /\ client.turn' = 0 /\ client.item' = 0
    BY <1>9, RealtimeAssumption DEF ClientStates, Inactive, None
  <2>5. AnsweredAreDone'
    <3> SUFFICES ASSUME NEW u \in 1 .. Utterances
                 PROVE  answers'[u] = 0 \/ (answers'[u] = 1 /\ u \in begunAt /\ u # 0)
      BY <1>1, <2>4 DEF AnsweredAreDone, None
    <3>1. u # 0
      OBVIOUS
    <3> QED
      BY <2>1, <2>2, <2>3, <3>1
  <2> QED
    BY <1>5, <2>3, <2>4, <2>5 DEF ItemIsConfirmed, None
<1>10. CASE m[1] = "updated"
  <2>0. ~Accepts(m)
    BY <1>10 DEF Accepts
  <2>1. client' = client /\ answers' = answers /\ finals' = finals /\ confirmed' = confirmed
    BY <1>10, <2>0 DEF OnMessage, clientVars, m
  <2> QED
    BY <1>8, <1>10, <2>1 DEF Numbers
<1>11. CASE m[1] = "committed"
  <2>0. ~Accepts(m)
    BY <1>11 DEF Accepts
  <2>1. /\ client' = IF turn = None THEN client ELSE [client EXCEPT !.item = m[2]]
        /\ confirmed' = Append(confirmed, turn) /\ answers' = answers /\ finals' = finals
    BY <1>11, <2>0 DEF OnMessage, m, turn
  <2>2. Numbers(m) /\ m[2] = n + 1
    BY <1>2, <1>11 DEF Numbers
  <2>3. /\ ItemsNumbered' /\ Placed(finals', confirmed') /\ Len(confirmed') = n + 1
        /\ confirmed'[n + 1] = turn
        /\ \A i \in 1 .. n : confirmed'[i] = confirmed[i] /\ i \in 1 .. n + 1
        /\ \A i \in DOMAIN finals : finals[i][2] < n + 1
    BY <1>0, <1>6, <2>1, <2>2
  <2>4. CASE turn = None
    <3>1. RealtimeShape' /\ AnsweredAreDone'
      BY <1>0, <1>1, <1>5, <2>1, <2>4 DEF RealtimeInv, AnsweredAreDone
    <3>2. ItemIsConfirmed'
      BY <2>1, <2>3, <2>4 DEF RealtimeInv, ItemIsConfirmed, n
    <3> QED
      BY <1>4, <2>3, <3>1, <3>2 DEF RealtimeInv
  <2>5. CASE turn # None
    <3>0. client' = [client EXCEPT !.item = n + 1] /\ n + 1 \in Nat
      BY <1>0, <2>1, <2>2, <2>5
    <3>1. client' \in ClientStates /\ client.turn' = turn /\ client.item' = n + 1
      BY <1>0, <3>0 DEF ClientStates, turn
    <3>2. RealtimeShape' /\ AnsweredAreDone'
      BY <1>0, <1>1, <1>5, <2>1, <3>1 DEF RealtimeInv, AnsweredAreDone, turn
    <3>3. n + 1 \in 1 .. n + 1
      BY <1>0
    <3>4. ItemIsConfirmed'
      BY <2>1, <2>3, <3>1, <3>3 DEF ItemIsConfirmed
    <3> QED
      BY <1>4, <2>3, <3>2, <3>4 DEF RealtimeInv
  <2> QED
    BY <2>4, <2>5
<1>12. CASE m[1] = "error"
  <2>1. Numbers(m) /\ Skip(m) = Append(confirmed, None)
    BY <1>12 DEF Numbers, Skip
  <2>2. CASE Accepts(m)
    <3>1. Answer(m) /\ confirmed' = Skip(m)
      BY <1>12, <2>2 DEF OnMessage, m
    <3>2. /\ turn # None /\ client' = Inactive
          /\ answers' = [answers EXCEPT ![turn] = answers[turn] + 1] /\ finals' = finals
      BY <1>12, <2>2, <3>1 DEF Answer, Accepts, turn
    <3>3. None \in Nat
      BY DEF None
    <3>4. ItemsNumbered' /\ Placed(finals', confirmed')
      BY <1>6, <2>1, <3>1, <3>2, <3>3
    <3> QED
      BY <1>4, <1>9, <3>2, <3>4 DEF RealtimeInv
  <2>3. CASE ~Accepts(m)
    <3>1. confirmed' = Skip(m) /\ UNCHANGED <<client, answers, finals>>
      BY <1>12, <2>3 DEF OnMessage, m
    <3> QED
      BY <1>8, <2>1, <3>1
  <2> QED
    BY <2>2, <2>3
<1>13. CASE m[1] = "final"
  <2>1. ~Numbers(m) /\ Skip(m) = confirmed
    BY <1>13 DEF Numbers, Skip
  <2>2. CASE Accepts(m)
    <3>1. Answer(m) /\ confirmed' = Skip(m)
      BY <1>13, <2>2 DEF OnMessage, m
    <3>2. /\ turn # None /\ client' = Inactive /\ m[2] = client.item
          /\ answers' = [answers EXCEPT ![turn] = answers[turn] + 1]
          /\ finals' = Append(finals, <<turn, m[2], m[3]>>)
      BY <1>13, <2>2, <3>1 DEF Answer, Accepts, turn
    <3>3. client.item # None
      BY <1>2, <1>3, <1>13, <3>2 DEF None
    <3>4. /\ m[2] \in 1 .. Len(confirmed) /\ confirmed[m[2]] = turn
          /\ \A i \in DOMAIN finals : finals[i][2] < m[2]
      BY <3>2, <3>3 DEF RealtimeInv, ItemIsConfirmed, turn
    <3>5. m[3] \in Audio
      BY <1>3, <1>13
    <3>6. Placed(Append(finals, <<confirmed[m[2]], m[2], m[3]>>), confirmed)
      BY <1>0, <3>4, <3>5, FinalLast
    <3>7. Placed(finals', confirmed') /\ ItemsNumbered'
      BY <1>7, <2>1, <3>1, <3>2, <3>4, <3>6
    <3> QED
      BY <1>4, <1>9, <3>2, <3>7 DEF RealtimeInv
  <2>3. CASE ~Accepts(m)
    <3>1. confirmed' = Skip(m) /\ UNCHANGED <<client, answers, finals>>
      BY <1>13, <2>3 DEF OnMessage, m
    <3> QED
      BY <1>8, <2>1, <3>1
  <2> QED
    BY <2>2, <2>3
<1> QED
  BY <1>3, <1>10, <1>11, <1>12, <1>13

(* stop() forgets the active utterance. *)
LEMMA StopStep ==
    ASSUME RealtimeInv, StopRealtime
    PROVE  RealtimeInv'
<1>1. /\ client' = Inactive /\ startedQ' = startedQ /\ begunAt' = begunAt /\ answers' = answers
      /\ mic' = mic /\ pushing' = pushing /\ finals' = finals /\ wire' = wire
      /\ confirmed' = confirmed /\ server' = server /\ replies' = replies
  BY DEF StopRealtime, busVars
<1>2. client' \in ClientStates /\ client.turn' = 0 /\ client.item' = 0
  BY <1>1, RealtimeAssumption DEF ClientStates, Inactive, None
<1>3. RealtimeShape'
  BY <1>1, <1>2 DEF RealtimeInv, RealtimeShape
<1>4. AnnouncedOnce'
  BY <1>1 DEF RealtimeInv, AnnouncedOnce, Announced
<1>5. AnsweredAreDone' /\ ItemIsConfirmed'
  BY <1>1, <1>2 DEF RealtimeInv, AnsweredAreDone, ItemIsConfirmed, None
<1> QED
  BY <1>1, <1>3, <1>4, <1>5 DEF RealtimeInv, ItemsNumbered

(* A step of start() that sends nothing touches nothing the invariant reads. *)
LEMMA SilentStep ==
    ASSUME RealtimeInv,
           UNCHANGED <<mic, pushing, startedQ, begunAt, clientVars, wire, server, replies>>
    PROVE  RealtimeInv'
<1>1. <<"clear">> \in WireMessages
  BY DEF WireMessages
<1> QED
  BY <1>1, SendStep

(* Every step of the session, the pipeline, the handlers and the server    *)
(* keeps the invariant.                                                    *)
LEMMA RealtimeStep == RealtimeInv /\ [RealtimeNext]_realtimeVars => RealtimeInv'
<1> SUFFICES ASSUME RealtimeInv, [RealtimeNext]_realtimeVars PROVE RealtimeInv'
  OBVIOUS
<1>1. ASSUME NEW what, LinkReports(what) PROVE RealtimeInv'
  BY <1>1, SilentStep DEF LinkReports, busVars
<1>2. CASE StartRealtime
  BY <1>2, SilentStep DEF StartRealtime, busVars
<1>3. CASE WaitEnds
  BY <1>3, SilentStep DEF WaitEnds, busVars
<1>4. CASE Configure
  <2>1. <<"update">> \in WireMessages
    BY DEF WireMessages
  <2> QED
    BY <1>4, <2>1, SendStep DEF Configure, busVars
<1>5. CASE Deadline
  BY <1>5, SilentStep DEF Deadline, busVars
<1>6. ASSUME NEW ok, PostOffer(ok) PROVE RealtimeInv'
  BY <1>6, SilentStep DEF PostOffer, busVars
<1>7. CASE BeginSends
  <2>1. <<"clear">> \in WireMessages
    BY DEF WireMessages
  <2> QED
    BY <1>7, <2>1, SendStep DEF BeginSends
<1>8. CASE EndSends
  <2>1. <<"commit">> \in WireMessages
    BY DEF WireMessages
  <2> QED
    BY <1>8, <2>1, SendStep DEF EndSends
<1>9. CASE UNCHANGED realtimeVars
  BY <1>9, SilentStep DEF realtimeVars, busVars
<1> QED
  BY <1>1, <1>2, <1>3, <1>4, <1>5, <1>6, <1>7, <1>8, <1>9, PushTakesStep, PushSendsStep,
     SpeechEndsStep, BeginUtteranceStep, EndUtteranceStep, ServerStep, MessageStep, StopStep
     DEF RealtimeNext, Pipeline, OnStarted, OnEnded, Starting

(* However the session, the pipeline, the two handlers and the server      *)
(* interleave, an utterance is answered at most once, and a transcript     *)
(* goes to the utterance its item was confirmed for                        *)
(* (RealtimeSttClient::on_committed, on_final, on_server_error), for every *)
(* number of utterances and of chunks.                                     *)
THEOREM AnswersGoRight == RealtimeSafety => []AnsweredRightly
<1>1. RealtimeSafety => []RealtimeInv
  BY RealtimeInitial, RealtimeStep, PTL DEF RealtimeSafety
<1> QED
  BY <1>1, RealtimeInvImplies, PTL

(* The reassembler of fragmented events. *)

-----------------------------------------------------------------------------
(* What the reassembler knows of a message it has not returned: the        *)
(* fragments kept are distinct ones below the announced total, fewer than  *)
(* all of them, and the counter counts them.                               *)
EntryOk(p, r, a) ==
    /\ p \in [total : {0, Total, Total + 1}, have : SUBSET (0 .. Total)]
    /\ r = Cardinality(p.have) /\ p.have = a
    /\ p.total = 0 => p.have = {}
    /\ p.total # 0 => p.have \subseteq 0 .. p.total - 1 /\ p.have # {} /\ p.have # 0 .. p.total - 1

EnvelopeSafety == EnvelopeInit /\ [][EnvelopeNext]_envelopeVars

EnvelopeInv ==
    /\ pending \in [MessageIds -> [total : {0, Total, Total + 1}, have : SUBSET (0 .. Total)]]
    /\ received \in [MessageIds -> Nat]
    /\ arrived \in [MessageIds -> SUBSET (0 .. Total)]
    /\ \A id \in MessageIds : EntryOk(pending[id], received[id], arrived[id])
    /\ emitted # <<>> => emitted[2] \in {0 .. Total - 1, 0 .. Total}

(* Fragments with different numbers below the total fill it exactly when   *)
(* there are as many of them as the total says.                            *)
LEMMA Filled ==
    ASSUME NEW n \in Nat, NEW S \in SUBSET (0 .. n - 1)
    PROVE  /\ IsFiniteSet(S) /\ Cardinality(S) \in 0 .. n
           /\ Cardinality(S) = n <=> S = 0 .. n - 1
<1>1. IsFiniteSet(0 .. n - 1) /\ Cardinality(0 .. n - 1) = n
  <2>1. /\ IsFiniteSet(0 .. n - 1)
        /\ Cardinality(0 .. n - 1) = IF 0 > n - 1 THEN 0 ELSE (n - 1) - 0 + 1
    BY FS_Interval
  <2> QED
    BY <2>1
<1>2. /\ IsFiniteSet(S) /\ Cardinality(S) <= Cardinality(0 .. n - 1)
      /\ Cardinality(S) = Cardinality(0 .. n - 1) => S = 0 .. n - 1
  BY <1>1, FS_Subset
<1>3. Cardinality(S) \in Nat
  BY <1>2, FS_CardinalityType
<1> QED
  BY <1>1, <1>2, <1>3

(* One fragment, seen for its message alone (feed): a fragment of another  *)
(* announcement drops what is kept, a duplicate changes nothing, and the   *)
(* last one completes the message.                                         *)
LEMMA EntryStep ==
    ASSUME NEW p, NEW r, NEW a, EntryOk(p, r, a),
           NEW i \in Nat, NEW total \in {Total, Total + 1}, i < total,
           p.total \in {0, total}, i \notin p.have
    PROVE  /\ r + 1 = total => p.have \cup {i} = 0 .. total - 1
           /\ r + 1 # total => EntryOk([total |-> total, have |-> p.have \cup {i}], r + 1, a \cup {i})
           /\ r \in Nat /\ p.have \cup {i} \subseteq 0 .. Total
<1>0. Total \in Nat \ {0} /\ total \in Nat \ {0} /\ total <= Total + 1
  BY EnvelopeAssumption
<1> DEFINE h == p.have \cup {i}
<1>1. p.have \in SUBSET (0 .. total - 1) /\ r = Cardinality(p.have) /\ p.have = a
  BY <1>0 DEF EntryOk
<1>2. IsFiniteSet(p.have) /\ Cardinality(p.have) \in Nat
  BY <1>1, <1>0, Filled
<1>3. h \in SUBSET (0 .. total - 1)
  BY <1>1, <1>0
<1>4. Cardinality(h) = r + 1
  BY <1>2, <1>1, FS_AddElement
<1>5. Cardinality(h) = total <=> h = 0 .. total - 1
  BY <1>3, <1>0, Filled
<1>6. h # {} /\ h \subseteq 0 .. Total
  BY <1>3, <1>0
<1>7. ASSUME r + 1 # total
      PROVE  EntryOk([total |-> total, have |-> h], r + 1, a \cup {i})
  <2> HIDE DEF h
  <2>1. PICK e : e = [total |-> total, have |-> h]
    OBVIOUS
  <2>2. e.total = total /\ e.have = h
    BY <2>1
  <2>3. e \in [total : {0, Total, Total + 1}, have : SUBSET (0 .. Total)]
    BY <2>1, <1>6
  <2>4. h = a \cup {i}
    BY <1>1 DEF h
  <2>5. EntryOk(e, r + 1, a \cup {i})
    BY <2>2, <2>3, <2>4, <1>0, <1>3, <1>4, <1>5, <1>6, <1>7 DEF EntryOk
  <2> QED
    BY <2>5, <2>1
<1> QED
  BY <1>1, <1>2, <1>4, <1>5, <1>6, <1>7

LEMMA NothingKept == EntryOk(NoEntry, 0, {})
<1>1. Cardinality({}) = 0
  BY FS_EmptySet
<1>2. PICK e : e = NoEntry
  OBVIOUS
<1>3. e.total = 0 /\ e.have = {} /\ e = [total |-> 0, have |-> {}]
  BY <1>2 DEF NoEntry
<1>4. e \in [total : {0, Total, Total + 1}, have : SUBSET (0 .. Total)]
  BY <1>3
<1>5. EntryOk(e, 0, {})
  BY <1>1, <1>3, <1>4 DEF EntryOk
<1> QED
  BY <1>5, <1>2

(* A step that changes the entry of one message keeps the others.          *)
LEMMA EntryReplaced ==
    ASSUME EnvelopeInv, NEW id \in MessageIds, NEW p, NEW r \in Nat, NEW a \in SUBSET (0 .. Total),
           EntryOk(p, r, a),
           pending' = [pending EXCEPT ![id] = p], received' = [received EXCEPT ![id] = r],
           arrived' = [arrived EXCEPT ![id] = a],
           emitted' # <<>> => emitted'[2] \in {0 .. Total - 1, 0 .. Total}
    PROVE  EnvelopeInv'
<1>1. p \in [total : {0, Total, Total + 1}, have : SUBSET (0 .. Total)]
  BY DEF EntryOk
<1>2. /\ pending' \in [MessageIds -> [total : {0, Total, Total + 1}, have : SUBSET (0 .. Total)]]
      /\ received' \in [MessageIds -> Nat] /\ arrived' \in [MessageIds -> SUBSET (0 .. Total)]
  BY <1>1 DEF EnvelopeInv
<1>3. ASSUME NEW j \in MessageIds PROVE EntryOk(pending'[j], received'[j], arrived'[j])
  <2>1. CASE j = id
    <3>1. pending'[j] = p /\ received'[j] = r /\ arrived'[j] = a
      BY <2>1 DEF EnvelopeInv
    <3> QED
      BY <3>1
  <2>2. CASE j # id
    <3>1. pending'[j] = pending[j] /\ received'[j] = received[j] /\ arrived'[j] = arrived[j]
      BY <2>2 DEF EnvelopeInv
    <3>2. EntryOk(pending[j], received[j], arrived[j])
      BY DEF EnvelopeInv
    <3> QED
      BY <3>1, <3>2
  <2> QED
    BY <2>1, <2>2
<1> QED
  BY <1>2, <1>3 DEF EnvelopeInv, EntryOk

LEMMA EnvelopeStep == EnvelopeInv /\ [EnvelopeNext]_envelopeVars => EnvelopeInv'
<1> SUFFICES ASSUME EnvelopeInv, [EnvelopeNext]_envelopeVars PROVE EnvelopeInv'
  OBVIOUS
<1>0. ASSUME UNCHANGED <<pending, received, arrived, emitted>> PROVE EnvelopeInv'
  BY <1>0 DEF EnvelopeInv, EntryOk
<1>1. ASSUME NEW id \in MessageIds, NEW i \in 0 .. Total, NEW total \in {Total, Total + 1},
             FeedFragment(id, i, total)
      PROVE  EnvelopeInv'
  <2>0. Total \in Nat /\ i \in Nat /\ i < total
    BY <1>1, EnvelopeAssumption DEF FeedFragment
  <2>1. EntryOk(pending[id], received[id], arrived[id])
    BY DEF EnvelopeInv
  <2>2. CASE pending[id].total \notin {0, total}
    <3>1. /\ pending' = [pending EXCEPT ![id] = NoEntry] /\ received' = [received EXCEPT ![id] = 0]
          /\ arrived' = [arrived EXCEPT ![id] = {}] /\ emitted' = emitted
      BY <1>1, <2>2 DEF FeedFragment
    <3>2. emitted' # <<>> => emitted'[2] \in {0 .. Total - 1, 0 .. Total}
      BY <3>1 DEF EnvelopeInv
    <3>3. PICK p : p = NoEntry
      OBVIOUS
    <3>4. PICK r \in Nat : r = 0
      OBVIOUS
    <3>5. PICK a \in SUBSET (0 .. Total) : a = {}
      OBVIOUS
    <3>6. EntryOk(p, r, a)
      BY <3>3, <3>4, <3>5, NothingKept
    <3>7. /\ pending' = [pending EXCEPT ![id] = p] /\ received' = [received EXCEPT ![id] = r]
          /\ arrived' = [arrived EXCEPT ![id] = a]
      BY <3>1, <3>3, <3>4, <3>5
    <3> QED
      BY <3>2, <3>6, <3>7, EntryReplaced
  <2>3. CASE pending[id].total \in {0, total} /\ i \in pending[id].have
    BY <1>0, <1>1, <2>3 DEF FeedFragment
  <2>4. CASE pending[id].total \in {0, total} /\ i \notin pending[id].have
    <3>1. Keep(id, i, total)
      BY <1>1, <2>4 DEF FeedFragment
    <3> DEFINE h == pending[id].have \cup {i}
    <3>2. /\ received[id] + 1 = total => h = 0 .. total - 1
          /\ received[id] + 1 # total
             => EntryOk([total |-> total, have |-> h], received[id] + 1, arrived[id] \cup {i})
          /\ received[id] \in Nat /\ h \subseteq 0 .. Total
      <4>1. PICK p : p = pending[id]
        OBVIOUS
      <4>2. PICK r : r = received[id]
        OBVIOUS
      <4>3. PICK a : a = arrived[id]
        OBVIOUS
      <4>4. EntryOk(p, r, a) /\ p.total \in {0, total} /\ i \notin p.have
        BY <4>1, <4>2, <4>3, <2>1, <2>4
      <4>5. /\ r + 1 = total => p.have \cup {i} = 0 .. total - 1
            /\ r + 1 # total => EntryOk([total |-> total, have |-> p.have \cup {i}], r + 1, a \cup {i})
            /\ r \in Nat /\ p.have \cup {i} \subseteq 0 .. Total
        BY <4>4, <2>0, EntryStep
      <4> QED
        BY <4>1, <4>2, <4>3, <4>5
    <3>3. arrived[id] = pending[id].have
      BY <2>1 DEF EntryOk
    <3>4. CASE received[id] + 1 = total
      <4>1. /\ pending' = [pending EXCEPT ![id] = NoEntry] /\ received' = [received EXCEPT ![id] = 0]
            /\ arrived' = [arrived EXCEPT ![id] = {}] /\ emitted' = <<id, h>>
        BY <3>1, <3>4 DEF Keep
      <4>2. emitted'[2] = 0 .. total - 1
        BY <4>1, <3>2, <3>4
      <4>3. emitted'[2] \in {0 .. Total - 1, 0 .. Total}
        BY <4>2, <2>0
      <4>4. PICK p : p = NoEntry
        OBVIOUS
      <4>5. PICK r \in Nat : r = 0
        OBVIOUS
      <4>6. PICK a \in SUBSET (0 .. Total) : a = {}
        OBVIOUS
      <4>7. EntryOk(p, r, a)
        BY <4>4, <4>5, <4>6, NothingKept
      <4>8. /\ pending' = [pending EXCEPT ![id] = p] /\ received' = [received EXCEPT ![id] = r]
            /\ arrived' = [arrived EXCEPT ![id] = a]
        BY <4>1, <4>4, <4>5, <4>6
      <4> QED
        BY <4>3, <4>7, <4>8, EntryReplaced
    <3>5. CASE received[id] + 1 # total
      <4>1. /\ pending' = [pending EXCEPT ![id] = [total |-> total, have |-> h]]
            /\ received' = [received EXCEPT ![id] = received[id] + 1]
            /\ arrived' = [arrived EXCEPT ![id] = arrived[id] \cup {i}] /\ emitted' = emitted
        BY <3>1, <3>5 DEF Keep
      <4>2. emitted' # <<>> => emitted'[2] \in {0 .. Total - 1, 0 .. Total}
        BY <4>1 DEF EnvelopeInv
      <4>3. arrived[id] \cup {i} \in SUBSET (0 .. Total) /\ received[id] + 1 \in Nat
        BY <3>2, <3>3
      <4> HIDE DEF h
      <4> QED
        BY <4>1, <4>2, <4>3, <3>2, <3>5, EntryReplaced
    <3> QED
      BY <3>4, <3>5
  <2> QED
    BY <2>2, <2>3, <2>4
<1>2. CASE EnvelopeNext
  <2>1. CASE FeedOther
    BY <1>0, <2>1 DEF FeedOther
  <2> QED
    BY <1>1, <1>2, <2>1 DEF EnvelopeNext
<1>3. CASE UNCHANGED envelopeVars
  BY <1>0, <1>3 DEF envelopeVars
<1> QED
  BY <1>2, <1>3

(* However the fragments of fragmented events arrive - out of order, mixed *)
(* with those of other events, repeated, or announcing another number of   *)
(* fragments - the reassembler returns a message only when every fragment  *)
(* of it has come, each once, and what it keeps of an unfinished one is    *)
(* exactly what has come of it (EnvelopeReassembler::feed).                *)
THEOREM EnvelopeSafe == EnvelopeSafety => []MessagesComeOutWhole
<1>1. EnvelopeInit => EnvelopeInv
  <2> SUFFICES ASSUME EnvelopeInit PROVE EnvelopeInv
    OBVIOUS
  <2>0. NoEntry \in [total : {0, Total, Total + 1}, have : SUBSET (0 .. Total)]
    BY DEF NoEntry
  <2>1. /\ pending \in [MessageIds -> [total : {0, Total, Total + 1}, have : SUBSET (0 .. Total)]]
        /\ received \in [MessageIds -> Nat] /\ arrived \in [MessageIds -> SUBSET (0 .. Total)]
    BY <2>0 DEF EnvelopeInit
  <2>2. ASSUME NEW id \in MessageIds PROVE EntryOk(pending[id], received[id], arrived[id])
    <3>1. pending[id] = NoEntry /\ received[id] = 0 /\ arrived[id] = {}
      BY DEF EnvelopeInit
    <3> QED
      BY <3>1, NothingKept
  <2> QED
    BY <2>1, <2>2 DEF EnvelopeInit, EnvelopeInv
<1>2. EnvelopeInv => MessagesComeOutWhole
  <2> SUFFICES ASSUME EnvelopeInv, NEW id \in MessageIds, pending[id].total # 0
               PROVE  received[id] \in 1 .. pending[id].total - 1
    BY DEF EnvelopeInv, EntryOk, MessagesComeOutWhole
  <2>1. EntryOk(pending[id], received[id], arrived[id])
    BY DEF EnvelopeInv
  <2>2. PICK n \in Nat : n = pending[id].total
    BY <2>1, EnvelopeAssumption DEF EntryOk
  <2>3. PICK S : S = pending[id].have
    OBVIOUS
  <2>4. S \in SUBSET (0 .. n - 1) /\ S # {} /\ S # 0 .. n - 1 /\ received[id] = Cardinality(S)
    BY <2>1, <2>2, <2>3 DEF EntryOk
  <2>5. IsFiniteSet(S) /\ Cardinality(S) \in 0 .. n /\ Cardinality(S) # n
    BY <2>4, Filled
  <2>6. Cardinality(S) # 0
    BY <2>4, <2>5, FS_EmptySet
  <2> QED
    BY <2>2, <2>4, <2>5, <2>6
<1> QED
  BY <1>1, <1>2, EnvelopeStep, PTL DEF EnvelopeSafety
=============================================================================
