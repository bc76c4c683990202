------------------------------ MODULE SpscRing ------------------------------
(***************************************************************************)
(* The lock-free single-producer single-consumer ring between the audio    *)
(* callback and the pipeline's thread (audio/spsc_ring.hpp).               *)
(*                                                                         *)
(* Each access to an index the other thread writes is a step, and so is    *)
(* each access to a slot.  The indices are stored with release and loaded  *)
(* with acquire, so what one thread did before its store is visible after  *)
(* the other one's load: the steps may be taken as interleaved.            *)
(***************************************************************************)
EXTENDS Integers, Sequences

CONSTANTS
    RingCapacity,   \* Capacity, a power of two
    MaxSent         \* bound: items pushed

ASSUME RingAssumption == RingCapacity \in Nat /\ RingCapacity > 1 /\ MaxSent \in Nat

VARIABLES
    head, tail, slots,
    push,       \* the producer: idle, write, store
    pop,        \* the consumer: idle, read, store
    out,        \* the item pop() has moved out
    sent, got   \* history: items offered, the last item delivered

ringVars == <<head, tail, slots, push, pop, out, sent, got>>

Slots == 0 .. RingCapacity - 1

RingInit ==
    /\ head = 0 /\ tail = 0 /\ slots = [i \in Slots |-> 0]
    /\ push = "idle" /\ pop = "idle" /\ out = 0 /\ sent = 0 /\ got = 0

\* & kMask
Masked(i) == i % RingCapacity

(* Mutant of PushLoad: the last slot is used too, and full looks like empty. *)
PushLoadAll ==
    /\ push = "idle" /\ sent < MaxSent
    /\ push' = "write"
    /\ UNCHANGED <<head, tail, slots, pop, out, sent, got>>

PushLoad ==
    /\ push = "idle" /\ sent < MaxSent
    /\ IF Masked(tail + 1) = head
       THEN sent' = sent + 1 /\ UNCHANGED push
       ELSE push' = "write" /\ UNCHANGED sent
    /\ UNCHANGED <<head, tail, slots, pop, out, got>>

PushWrite ==
    /\ push = "write"
    /\ slots' = [slots EXCEPT ![tail] = sent + 1]
    /\ push' = "store"
    /\ UNCHANGED <<head, tail, pop, out, sent, got>>

PushStore ==
    /\ push = "store"
    /\ tail' = Masked(tail + 1) /\ sent' = sent + 1
    /\ push' = "idle"
    /\ UNCHANGED <<head, slots, pop, out, got>>

PopLoad ==
    /\ pop = "idle" /\ head # tail
    /\ pop' = "read"
    /\ UNCHANGED <<head, tail, slots, push, out, sent, got>>

PopRead ==
    /\ pop = "read"
    /\ out' = slots[head]
    /\ pop' = "store"
    /\ UNCHANGED <<head, tail, slots, push, sent, got>>

PopStore ==
    /\ pop = "store"
    /\ head' = Masked(head + 1) /\ got' = out
    /\ pop' = "idle"
    /\ UNCHANGED <<tail, slots, push, out, sent>>

RingNext == PushLoad \/ PushWrite \/ PushStore \/ PopLoad \/ PopRead \/ PopStore

-----------------------------------------------------------------------------
\* size(): the indices may be of different moments for a caller; here they are of one.
Size == Masked(tail - head)

(* The ring implements the queue: every step of push() and pop() is one    *)
(* Offer, one Take, or nothing at all.                                     *)
Queue == INSTANCE Fifo WITH
            Depth <- RingCapacity - 1,
            items <- [i \in 1 .. Size |-> slots[Masked(head + i - 1)]]

RingIsFifo == Queue!Spec
=============================================================================
