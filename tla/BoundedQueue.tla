---------------------------- MODULE BoundedQueue ----------------------------
(***************************************************************************)
(* The bounded multi-producer multi-consumer queue of event/queue.hpp.     *)
(*                                                                         *)
(* Every critical section under mu_ is one step.  The condition variables  *)
(* not_full_ and not_empty_ are modelled by their wait sets: a thread that *)
(* finds its predicate false joins the wait set, and it runs again only    *)
(* after notify_one, notify_all, a spurious wake-up or a deadline took it  *)
(* out, when it re-acquires the lock and re-evaluates the predicate.       *)
(* close() releases the lock before it notifies, hence its two steps.      *)
(*                                                                         *)
(* An item is <<p, k>>: what the k-th push call of producer p carries.     *)
(***************************************************************************)
EXTENDS Integers, Sequences, FiniteSets

CONSTANTS Producers,   \* threads that call push()
          Consumers,   \* threads that call pop() / pop_until() / try_pop()
          Capacity,    \* capacity_
          MaxCalls     \* bound: push() calls of one producer

Policies == {"DropOldest", "DropNewest", "Block"}

\* A queue of capacity 0 would pop_front() an empty deque under DropOldest;
\* no caller in the program builds one.
ASSUME QueueAssumption ==
    /\ IsFiniteSet(Producers) /\ IsFiniteSet(Consumers)
    /\ Producers \cap Consumers = {}
    /\ Capacity \in Nat \ {0}
    /\ MaxCalls \in Nat

VARIABLES
    policy,     \* policy_, fixed when the queue is built
    q,          \* q_
    closed,     \* closed_
    notified,   \* close() has run its two notify_all
    pushes, pops, drops,  \* the counters
    calls,      \* calls[p]: push() calls made by p so far
    inPush,     \* producers inside not_full_.wait
    waitFull,   \* those of them that are asleep
    inPop,      \* consumers inside not_empty_.wait
    waitEmpty,  \* those of them that are asleep
    ended,      \* consumers told nullopt because the queue is closed and empty
    got         \* history: the items popped, in order

threadVars == <<inPush, waitFull, inPop, waitEmpty>>
counters == <<pushes, pops, drops>>
vars == <<policy, q, closed, notified, counters, calls, threadVars, ended, got>>

Items == Producers \X (1..MaxCalls)

Init ==
    /\ policy \in Policies
    /\ q = <<>> /\ closed = FALSE /\ notified = FALSE
    /\ pushes = 0 /\ pops = 0 /\ drops = 0
    /\ calls = [p \in Producers |-> 0]
    /\ inPush = {} /\ waitFull = {} /\ inPop = {} /\ waitEmpty = {}
    /\ ended = {} /\ got = <<>>

-----------------------------------------------------------------------------
(* notify_one: wakes one of the threads asleep on the condition, if any. *)
NotifyNotEmpty(asleep) ==
    \/ asleep = {} /\ waitEmpty' = asleep
    \/ \E c \in asleep : waitEmpty' = asleep \ {c}

(* Mutant of NotifyNotFull: pop() forgets to notify. *)
NotifyNotFullForgotten(asleep) == waitFull' = asleep

NotifyNotFull(asleep) ==
    \/ asleep = {} /\ waitFull' = asleep
    \/ \E p \in asleep : waitFull' = asleep \ {p}

(* The tail of push(): append to what is left of the queue, count, notify. *)
Accept(kept, item) ==
    /\ q' = Append(kept, item)
    /\ pushes' = pushes + 1
    /\ NotifyNotEmpty(waitEmpty)
    /\ UNCHANGED <<pops, inPop>>

(* push() called on a closed queue. *)
PushClosed(p) ==
    /\ closed
    /\ UNCHANGED <<q, counters, threadVars>>

PushRoom(p) ==
    /\ ~closed /\ Len(q) < Capacity
    /\ Accept(q, <<p, calls'[p]>>)
    /\ UNCHANGED <<drops, inPush, waitFull>>

(* Mutant of PushFull: DropOldest forgets to count the eviction. *)
PushFullUncounted(p) ==
    /\ ~closed /\ Len(q) >= Capacity
    /\ Accept(Tail(q), <<p, calls'[p]>>)
    /\ UNCHANGED <<drops, inPush, waitFull>>

(* Mutant of PushFull: DropOldest evicts at the wrong end. *)
PushFullPopsBack(p) ==
    /\ ~closed /\ Len(q) >= Capacity
    /\ drops' = drops + 1
    /\ Accept(SubSeq(q, 1, Len(q) - 1), <<p, calls'[p]>>)
    /\ UNCHANGED <<inPush, waitFull>>

PushFull(p) ==
    /\ ~closed /\ Len(q) >= Capacity
    /\ \/ /\ policy = "DropOldest"
          /\ drops' = drops + 1
          /\ Accept(Tail(q), <<p, calls'[p]>>)
          /\ UNCHANGED <<inPush, waitFull>>
       \/ /\ policy = "DropNewest"
          /\ drops' = drops + 1
          /\ UNCHANGED <<q, pushes, pops, threadVars>>
       \/ /\ policy = "Block"
          /\ inPush' = inPush \cup {p}
          /\ waitFull' = waitFull \cup {p}
          /\ UNCHANGED <<q, counters, inPop, waitEmpty>>

Push(p) ==
    /\ p \notin inPush /\ calls[p] < MaxCalls
    /\ calls' = [calls EXCEPT ![p] = @ + 1]
    /\ PushClosed(p) \/ PushRoom(p) \/ PushFull(p)
    /\ UNCHANGED <<policy, closed, notified, ended, got>>

(* Mutant of PushResume: wait() without a predicate. *)
PushResumeUnchecked(p) ==
    /\ p \in inPush \ waitFull
    /\ inPush' = inPush \ {p}
    /\ Accept(q, <<p, calls[p]>>)
    /\ UNCHANGED <<policy, drops, waitFull, closed, notified, calls, ended, got>>

(* A producer that left the wait set re-evaluates the wait predicate. *)
PushResume(p) ==
    /\ p \in inPush \ waitFull
    /\ \/ /\ closed
          /\ inPush' = inPush \ {p}
          /\ UNCHANGED <<q, counters, waitFull, inPop, waitEmpty>>
       \/ /\ ~closed /\ Len(q) < Capacity
          /\ inPush' = inPush \ {p}
          /\ Accept(q, <<p, calls[p]>>)
          /\ UNCHANGED <<drops, waitFull>>
       \/ /\ ~closed /\ Len(q) >= Capacity
          /\ waitFull' = waitFull \cup {p}
          /\ UNCHANGED <<q, counters, inPush, inPop, waitEmpty>>
    /\ UNCHANGED <<policy, closed, notified, calls, ended, got>>

-----------------------------------------------------------------------------
(* The tail of pop(), pop_until() and try_pop(). *)
Take(c) ==
    /\ q # <<>>
    /\ q' = Tail(q)
    /\ got' = Append(got, Head(q))
    /\ pops' = pops + 1
    /\ NotifyNotFull(waitFull)
    /\ inPop' = inPop \ {c}
    /\ UNCHANGED <<waitEmpty, ended>>

ClosedAndEmpty(c) ==
    /\ q = <<>> /\ closed
    /\ inPop' = inPop \ {c}
    /\ ended' = ended \cup {c}
    /\ UNCHANGED <<q, got, pops, waitFull, waitEmpty>>

SleepEmpty(c) ==
    /\ q = <<>> /\ ~closed
    /\ inPop' = inPop \cup {c}
    /\ waitEmpty' = waitEmpty \cup {c}
    /\ UNCHANGED <<q, got, pops, waitFull, ended>>

(* A call of pop(), or a sleeping one that was woken. *)
Pop(c) ==
    /\ c \notin waitEmpty /\ c \notin ended
    /\ Take(c) \/ ClosedAndEmpty(c) \/ SleepEmpty(c)
    /\ UNCHANGED <<policy, closed, notified, pushes, drops, calls, inPush>>

(* pop_until(): the deadline passes, the predicate is still false. *)
PopTimeout(c) ==
    /\ c \in inPop /\ q = <<>> /\ ~closed
    /\ inPop' = inPop \ {c}
    /\ waitEmpty' = waitEmpty \ {c}
    /\ UNCHANGED <<policy, q, closed, notified, counters, calls, inPush, waitFull, ended, got>>

SpuriousWake ==
    /\ \/ \E p \in waitFull : waitFull' = waitFull \ {p} /\ UNCHANGED waitEmpty
       \/ \E c \in waitEmpty : waitEmpty' = waitEmpty \ {c} /\ UNCHANGED waitFull
    /\ UNCHANGED <<policy, q, closed, notified, counters, calls, inPush, inPop, ended, got>>

(* close() *)
CloseMark ==
    /\ ~closed /\ closed' = TRUE
    /\ UNCHANGED <<policy, q, notified, counters, calls, threadVars, ended, got>>

(* Mutant of CloseNotify: only the producers are notified. *)
CloseNotifyProducers ==
    /\ closed /\ ~notified /\ notified' = TRUE
    /\ waitFull' = {}
    /\ UNCHANGED <<policy, q, closed, counters, calls, inPush, inPop, waitEmpty, ended, got>>

CloseNotify ==
    /\ closed /\ ~notified /\ notified' = TRUE
    /\ waitFull' = {} /\ waitEmpty' = {}
    /\ UNCHANGED <<policy, q, closed, counters, calls, inPush, inPop, ended, got>>

Next ==
    \/ \E p \in Producers : Push(p) \/ PushResume(p)
    \/ \E c \in Consumers : Pop(c) \/ PopTimeout(c)
    \/ SpuriousWake \/ CloseMark \/ CloseNotify

Safety == Init /\ [][Next]_vars

(* A thread that may take the lock eventually gets it, consumers keep      *)
(* calling pop(), and a close() that began finishes.  Nothing makes        *)
(* producers call push(), a wait wake spuriously or anybody call close().  *)
Fairness ==
    /\ \A p \in Producers : WF_vars(PushResume(p))
    /\ \A c \in Consumers : WF_vars(Pop(c))
    /\ WF_vars(CloseNotify)

Spec == Safety /\ Fairness

-----------------------------------------------------------------------------
(* Shapes of the variables; the deque never outgrows capacity_. *)
TypeOK ==
    /\ policy \in Policies
    /\ q \in Seq(Items) /\ Len(q) <= Capacity
    /\ got \in Seq(Items)
    /\ closed \in BOOLEAN /\ notified \in BOOLEAN
    /\ pushes \in Nat /\ pops \in Nat /\ drops \in Nat
    /\ calls \in [Producers -> 0..MaxCalls]
    /\ inPush \subseteq Producers /\ waitFull \subseteq inPush
    /\ \A p \in inPush : calls[p] > 0
    /\ inPop \subseteq Consumers /\ waitEmpty \subseteq inPop
    /\ ended \subseteq Consumers /\ ended \cap inPop = {}

(* The counters account for every accepted item: it was popped, evicted by *)
(* DropOldest, or is still queued.  (queue.hpp: pushes/pops/drops.)        *)
Conservation ==
    pushes = pops + Len(q) + (IF policy = "DropOldest" THEN drops ELSE 0)

(* No lost wake-up: notify_one after each push and pop is enough.  While   *)
(* a consumer sleeps on not_empty_, every queued item has a consumer that  *)
(* was woken for it and did not run yet; while a producer sleeps on        *)
(* not_full_ of an open queue, so has every free slot; nobody sleeps on a closed queue     *)
(* once close() has notified.                                              *)
NoLostWakeup ==
    /\ waitEmpty # {} => Len(q) <= Cardinality(inPop \ waitEmpty)
    /\ waitFull # {} /\ ~closed => Capacity - Len(q) <= Cardinality(inPush \ waitFull)
    /\ notified => closed /\ waitFull = {} /\ waitEmpty = {}

(* What consumers received, followed by what is queued, holds the items of *)
(* each producer in the order of its push() calls, none twice.             *)
ProducerOrder ==
    LET s == got \o q IN
    \A i, j \in DOMAIN s : i < j /\ s[i][1] = s[j][1] => s[i][2] < s[j][2]

(* Under Block an item is lost only to close(): whatever a producer pushed *)
(* before its latest call is delivered or queued while the queue is open.  *)
BlockLosesNothing ==
    policy = "Block" /\ ~closed =>
        \A p \in Producers : \A k \in 1..calls[p] :
            \/ k = calls[p] /\ p \in inPush
            \/ \E i \in DOMAIN (got \o q) : (got \o q)[i] = <<p, k>>

(* DropOldest keeps the freshest: while the queue is open, the items of a  *)
(* producer that are queued are its latest push() calls, without a gap.    *)
FreshestSurvives ==
    policy = "DropOldest" /\ ~closed =>
        \A p \in Producers :
            LET queued == {k \in 1..MaxCalls : \E i \in DOMAIN q : q[i] = <<p, k>>}
            IN  queued = (calls[p] - Cardinality(queued) + 1)..calls[p]

(* Each policy loses what it says and nothing else, and never mixes up the *)
(* items of a producer (push on a full queue).                             *)
PolicyHonoured == ProducerOrder /\ BlockLosesNothing /\ FreshestSurvives

(* close() strands nobody: every push() in progress returns once the queue *)
(* is closed, and every consumer is told that the queue is finished only   *)
(* after the queued items were handed out.                                 *)
CloseReleasesAll ==
    closed ~> (inPush = {} /\ inPop = {} /\ ended = Consumers /\ q = <<>>)

(* A producer blocked on a full queue is let go. *)
BlockedPushReturns ==
    \A p \in Producers : []<>(p \notin inPush)

(* Nobody stays asleep: a push on a full queue returns, and close() lets   *)
(* everybody go (push, pop, close).                                        *)
NobodyIsStranded == CloseReleasesAll /\ BlockedPushReturns
=============================================================================
