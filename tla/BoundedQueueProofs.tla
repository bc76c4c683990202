------------------------- MODULE BoundedQueueProofs -------------------------
(***************************************************************************)
(* Proofs about BoundedQueue for every capacity, policy and set of         *)
(* threads: types, the accounting of the counters, that notify_one loses   *)
(* no wake-up, and what each overflow policy keeps.                        *)
(***************************************************************************)
EXTENDS BoundedQueue, Flows, FiniteSetTheorems, TLAPS

(* What waking one sleeper w, putting an awake thread x to sleep, and an   *)
(* awake thread leaving do to the number of awake threads S \ W.           *)
LEMMA AwakeCount ==
    ASSUME NEW S, NEW W, W \subseteq S, IsFiniteSet(S)
    PROVE  /\ Cardinality(S \ W) \in Nat
           /\ \A w \in W : Cardinality(S \ (W \ {w})) = Cardinality(S \ W) + 1
           /\ \A x \in S \ W : /\ Cardinality(S \ (W \cup {x})) = Cardinality(S \ W) - 1
                               /\ Cardinality((S \ {x}) \ W) = Cardinality(S \ W) - 1
<1>1. IsFiniteSet(S \ W)
  BY FS_Subset
<1>2. Cardinality(S \ W) \in Nat
  BY <1>1, FS_CardinalityType
<1>3. ASSUME NEW w \in W
      PROVE  Cardinality(S \ (W \ {w})) = Cardinality(S \ W) + 1
  <2>1. S \ (W \ {w}) = (S \ W) \cup {w} /\ w \notin S \ W
    BY <1>3
  <2> QED
    BY <2>1, <1>1, FS_AddElement
<1>4. ASSUME NEW x \in S \ W
      PROVE  /\ Cardinality(S \ (W \cup {x})) = Cardinality(S \ W) - 1
             /\ Cardinality((S \ {x}) \ W) = Cardinality(S \ W) - 1
  <2>1. S \ (W \cup {x}) = (S \ W) \ {x} /\ (S \ {x}) \ W = (S \ W) \ {x}
    OBVIOUS
  <2> QED
    BY <2>1, <1>1, <1>4, FS_RemoveElement
<1> QED
  BY <1>2, <1>3, <1>4

-----------------------------------------------------------------------------
(* One step keeps the types. *)
LEMMA TypeStep == TypeOK /\ [Next]_vars => TypeOK'
<1> USE QueueAssumption
<1> SUFFICES ASSUME TypeOK, [Next]_vars PROVE TypeOK'
  OBVIOUS
<1> USE DEF TypeOK, Items, threadVars, counters, QueueAssumption
<1>1. ASSUME NEW p \in Producers, Push(p) PROVE TypeOK'
  <2>0. /\ calls' \in [Producers -> 0..MaxCalls] /\ calls'[p] \in 1..MaxCalls
        /\ \A r \in Producers : calls[r] > 0 => calls'[r] > 0
    BY <1>1 DEF Push
  <2>1. CASE PushClosed(p)
    BY <1>1, <2>0, <2>1 DEF Push, PushClosed
  <2>2. CASE PushRoom(p)
    BY <1>1, <2>0, <2>2 DEF Push, PushRoom, Accept, NotifyNotEmpty
  <2>3. CASE PushFull(p)
    <3>1. Len(q) = Capacity /\ q # <<>> /\ Tail(q) \in Seq(Items) /\ Len(Tail(q)) = Len(q) - 1
      BY <2>3 DEF PushFull
    <3>2. CASE policy = "DropOldest"
      <4>1. q' = Append(Tail(q), <<p, calls'[p]>>)
        BY <2>3, <3>2 DEF PushFull, Accept, Policies
      <4>2. q' \in Seq(Items) /\ Len(q') = Len(q)
        BY <4>1, <3>1, <2>0
      <4> QED
        BY <1>1, <2>0, <2>3, <3>1, <3>2, <4>2 DEF Push, PushFull, Accept, NotifyNotEmpty
    <3>3. CASE policy = "DropNewest"
      BY <1>1, <2>0, <2>3, <3>3 DEF Push, PushFull
    <3>4. CASE policy = "Block"
      BY <1>1, <2>0, <2>3, <3>4 DEF Push, PushFull
    <3> QED
      BY <3>2, <3>3, <3>4 DEF Policies
  <2> QED
    BY <1>1, <2>1, <2>2, <2>3 DEF Push
<1>2. ASSUME NEW p \in Producers, PushResume(p) PROVE TypeOK'
  <2>1. CASE closed
    BY <1>2, <2>1 DEF PushResume
  <2>2. CASE ~closed /\ Len(q) < Capacity
    <3>1. <<p, calls[p]>> \in Items
      BY <1>2 DEF PushResume
    <3>2. q' = Append(q, <<p, calls[p]>>)
      BY <1>2, <2>2 DEF PushResume, Accept
    <3>3. q' \in Seq(Items) /\ Len(q') = Len(q) + 1
      BY <3>1, <3>2
    <3> QED
      BY <1>2, <2>2, <3>3 DEF PushResume, Accept, NotifyNotEmpty
  <2>3. CASE ~closed /\ Len(q) >= Capacity
    BY <1>2, <2>3, SMTT(60) DEF PushResume
  <2> QED
    BY <2>1, <2>2, <2>3
<1>3. ASSUME NEW c \in Consumers, Pop(c) PROVE TypeOK'
  <2>1. CASE Take(c)
    <3>1. q' \in Seq(Items) /\ Len(q') <= Capacity /\ got' \in Seq(Items) /\ pops' \in Nat
      BY <2>1 DEF Take
    <3>2. waitFull' \subseteq waitFull
      BY <2>1 DEF Take, NotifyNotFull
    <3> QED
      BY <1>3, <2>1, <3>1, <3>2 DEF Pop, Take
  <2>2. CASE ClosedAndEmpty(c)
    BY <1>3, <2>2 DEF Pop, ClosedAndEmpty
  <2>3. CASE SleepEmpty(c)
    BY <1>3, <2>3 DEF Pop, SleepEmpty
  <2> QED
    BY <1>3, <2>1, <2>2, <2>3 DEF Pop
<1>4. ASSUME NEW c \in Consumers, PopTimeout(c) PROVE TypeOK'
  BY <1>4 DEF PopTimeout
<1>5. CASE SpuriousWake
  BY <1>5 DEF SpuriousWake
<1>6. CASE CloseMark
  BY <1>6 DEF CloseMark
<1>7. CASE CloseNotify
  BY <1>7 DEF CloseNotify
<1>8. CASE UNCHANGED vars
  BY <1>8 DEF vars
<1> QED
  BY <1>1, <1>2, <1>3, <1>4, <1>5, <1>6, <1>7, <1>8 DEF Next

(* Every variable keeps its shape and the queue never outgrows capacity_,  *)
(* whatever the policy: a woken producer re-checks for room.               *)
THEOREM TypeCorrect == Safety => []TypeOK
<1> USE QueueAssumption
<1>1. Init => TypeOK
  <2> SUFFICES ASSUME Init PROVE TypeOK
    OBVIOUS
  <2>1. closed \in BOOLEAN /\ notified \in BOOLEAN
    BY DEF Init
  <2> QED
    BY <2>1 DEF Init, TypeOK, Items, QueueAssumption
<1> QED
  BY <1>1, TypeStep, PTL DEF Safety

-----------------------------------------------------------------------------
(* No accepted item goes missing: pushes_ always equals the pops, the      *)
(* items queued and, under DropOldest, the evictions counted in drops_.    *)
THEOREM ItemsConserved == Safety => []Conservation
<1> USE QueueAssumption DEF QueueAssumption
<1>1. Init => Conservation
  BY DEF Init, Conservation
<1>2. TypeOK /\ Conservation /\ [Next]_vars => Conservation'
  <2> SUFFICES ASSUME TypeOK, Conservation, [Next]_vars PROVE Conservation'
    OBVIOUS
  <2> USE DEF TypeOK, Conservation, threadVars, counters
  <2>0. /\ \A e : Len(Append(q, e)) = Len(q) + 1
        /\ q # <<>> => /\ Tail(q) \in Seq(Items) /\ Len(Tail(q)) = Len(q) - 1
                       /\ \A e : Len(Append(Tail(q), e)) = Len(q)
    OBVIOUS
  <2>1. ASSUME NEW p \in Producers, Push(p) PROVE Conservation'
    <3>0. policy' = policy
      BY <2>1 DEF Push
    <3>1. CASE PushClosed(p)
      BY <3>0, <3>1 DEF PushClosed
    <3>2. CASE PushRoom(p)
      BY <2>0, <3>0, <3>2 DEF PushRoom, Accept
    <3>3. CASE PushFull(p)
      <4>1. q # <<>>
        BY <3>3 DEF PushFull
      <4>2. CASE policy = "DropOldest"
        BY <2>0, <3>0, <3>3, <4>1, <4>2 DEF PushFull, Accept
      <4>3. CASE policy # "DropOldest"
        BY <3>0, <3>3, <4>3 DEF PushFull
      <4> QED
        BY <4>2, <4>3
    <3> QED
      BY <2>1, <3>1, <3>2, <3>3 DEF Push
  <2>2. ASSUME NEW p \in Producers, PushResume(p) PROVE Conservation'
    <3>1. CASE ~closed /\ Len(q) < Capacity
      <4>1. /\ Len(q') = Len(q) + 1 /\ pushes' = pushes + 1
            /\ UNCHANGED <<policy, pops, drops>> /\ Len(q) \in Nat
        BY <2>0, <2>2, <3>1 DEF PushResume, Accept
      <4> QED
        BY <4>1
    <3>2. CASE closed \/ Len(q) >= Capacity
      <4>1. UNCHANGED <<policy, q, counters>>
        BY <2>2, <3>2 DEF PushResume
      <4> QED
        BY <4>1
    <3> QED
      BY <3>1, <3>2
  <2>3. ASSUME NEW c \in Consumers, Pop(c) PROVE Conservation'
    <3>0. UNCHANGED <<policy, pushes, drops>>
      BY <2>3 DEF Pop
    <3>1. CASE Take(c)
      <4>1. Len(q') = Len(q) - 1 /\ pops' = pops + 1 /\ Len(q) \in Nat
        BY <2>0, <3>1 DEF Take
      <4> QED
        BY <3>0, <4>1
    <3>2. CASE ClosedAndEmpty(c) \/ SleepEmpty(c)
      BY <3>0, <3>2 DEF ClosedAndEmpty, SleepEmpty
    <3> QED
      BY <2>3, <3>1, <3>2 DEF Pop
  <2>4. ASSUME NEW c \in Consumers, PopTimeout(c) PROVE Conservation'
    BY <2>4 DEF PopTimeout
  <2>5. CASE SpuriousWake \/ CloseMark \/ CloseNotify \/ UNCHANGED vars
    BY <2>5 DEF SpuriousWake, CloseMark, CloseNotify, vars
  <2> QED
    BY <2>1, <2>2, <2>3, <2>4, <2>5 DEF Next
<1> QED
  BY <1>1, <1>2, TypeCorrect, PTL DEF Safety

-----------------------------------------------------------------------------
(* notify_one per push and per pop, and one notify_all in close(), lose no *)
(* wake-up: while somebody sleeps there are at least as many woken threads *)
(* on the way as there are items (or free slots) for them.                 *)
THEOREM WakeupsNotLost == Safety => []NoLostWakeup
<1> USE QueueAssumption DEF QueueAssumption
<1>1. Init => NoLostWakeup
  BY DEF Init, NoLostWakeup
<1>2. TypeOK /\ NoLostWakeup /\ [Next]_vars => NoLostWakeup'
  <2> SUFFICES ASSUME TypeOK, NoLostWakeup, [Next]_vars PROVE NoLostWakeup'
    OBVIOUS
  <2> DEFINE awakePop == Cardinality(inPop \ waitEmpty)
             awakePush == Cardinality(inPush \ waitFull)
  <2>a. IsFiniteSet(inPop) /\ IsFiniteSet(inPush)
    BY FS_Subset DEF TypeOK
  <2>b. /\ awakePop \in Nat
        /\ \A w \in waitEmpty : Cardinality(inPop \ (waitEmpty \ {w})) = awakePop + 1
        /\ \A x \in inPop \ waitEmpty :
              /\ Cardinality(inPop \ (waitEmpty \cup {x})) = awakePop - 1
              /\ Cardinality((inPop \ {x}) \ waitEmpty) = awakePop - 1
    BY <2>a, AwakeCount DEF TypeOK
  <2>c. /\ awakePush \in Nat
        /\ \A w \in waitFull : Cardinality(inPush \ (waitFull \ {w})) = awakePush + 1
        /\ \A x \in inPush \ waitFull :
              /\ Cardinality(inPush \ (waitFull \cup {x})) = awakePush - 1
              /\ Cardinality((inPush \ {x}) \ waitFull) = awakePush - 1
    BY <2>a, AwakeCount DEF TypeOK
  <2>d. /\ Len(q) \in Nat /\ Len(q) <= Capacity
        /\ \A e : Len(Append(q, e)) = Len(q) + 1
        /\ q # <<>> => /\ Len(Tail(q)) = Len(q) - 1 /\ Len(q) > 0
                       /\ \A e : Len(Append(Tail(q), e)) = Len(q)
        /\ q = <<>> => Len(q) = 0
    BY DEF TypeOK
  <2>l. Len(q) \in Nat
    BY <2>d
  <2> DEFINE Items1 == waitEmpty # {} => Len(q) <= Cardinality(inPop \ waitEmpty)
             Slots1 == waitFull # {} /\ ~closed => Capacity - Len(q) <= Cardinality(inPush \ waitFull)
             Closed1 == notified => closed /\ waitFull = {} /\ waitEmpty = {}
  <2>n. Cardinality((inPop \ waitEmpty)') \in Nat /\ Cardinality((inPush \ waitFull)') \in Nat
    <3>1. TypeOK'
      BY TypeStep
    <3> QED
      BY <3>1, FS_Subset, FS_CardinalityType DEF TypeOK
  <2>e. ASSUME NEW kept, NEW item, Accept(kept, item), Len(q') \in Nat, Len(q') <= Len(q) + 1
        PROVE  Items1' /\ waitEmpty' \subseteq waitEmpty
    <3>1. CASE waitEmpty = {}
      BY <2>e, <3>1 DEF Accept, NotifyNotEmpty
    <3>2. CASE waitEmpty # {}
      <4>1. PICK w \in waitEmpty : waitEmpty' = waitEmpty \ {w}
        BY <2>e, <3>2 DEF Accept, NotifyNotEmpty
      <4>2. Cardinality(inPop' \ waitEmpty') = awakePop + 1
        BY <2>e, <2>b, <4>1 DEF Accept
      <4> QED
        BY <2>b, <2>d, <2>e, <3>2, <4>1, <4>2 DEF NoLostWakeup
    <3> QED
      BY <3>1, <3>2
  <2>1. ASSUME NEW p \in Producers, Push(p) PROVE NoLostWakeup'
    <3>1. CASE PushClosed(p)
      BY <2>1, <3>1 DEF Push, PushClosed, NoLostWakeup, counters, threadVars
    <3>2. CASE PushRoom(p)
      <4>1. Len(q') = Len(q) + 1
        BY <2>d, <3>2 DEF PushRoom, Accept
      <4>2. Items1' /\ waitEmpty' \subseteq waitEmpty
        BY <2>d, <2>e, <3>2, <4>1 DEF PushRoom
      <4> QED
        BY <2>1, <2>c, <2>d, <3>2, <4>1, <4>2 DEF Push, PushRoom, NoLostWakeup
    <3>3. CASE PushFull(p) /\ policy = "DropOldest"
      <4>1. Len(q') = Len(q)
        BY <2>d, <3>3 DEF PushFull, Accept
      <4>2. Items1' /\ waitEmpty' \subseteq waitEmpty
        BY <2>d, <2>e, <3>3, <4>1 DEF PushFull
      <4> QED
        BY <2>1, <3>3, <4>1, <4>2 DEF Push, PushFull, NoLostWakeup
    <3>4. CASE PushFull(p) /\ policy = "DropNewest"
      BY <2>1, <3>4 DEF Push, PushFull, NoLostWakeup, threadVars
    <3>5. CASE PushFull(p) /\ policy = "Block"
      <4>1. Capacity - Len(q) <= 0 /\ UNCHANGED <<q, closed, notified, inPop, waitEmpty>>
        BY <2>1, <2>d, <3>5 DEF Push, PushFull
      <4>2. ~closed
        BY <3>5 DEF PushFull
      <4> QED
        BY <2>n, <2>d, <4>1, <4>2 DEF NoLostWakeup
    <3> QED
      BY <2>1, <3>1, <3>2, <3>3, <3>4, <3>5 DEF Push, TypeOK, Policies
  <2>2. ASSUME NEW p \in Producers, PushResume(p) PROVE NoLostWakeup'
    <3>0. p \in inPush \ waitFull /\ UNCHANGED <<closed, notified>>
      BY <2>2 DEF PushResume
    <3>1. CASE closed
      BY <2>2, <3>0, <3>1 DEF PushResume, NoLostWakeup
    <3>2. CASE ~closed /\ Len(q) < Capacity
      <4>1. Len(q') = Len(q) + 1 /\ UNCHANGED waitFull /\ inPush' = inPush \ {p}
            /\ Accept(q, <<p, calls[p]>>)
        BY <2>2, <2>d, <3>2 DEF PushResume, Accept
      <4>2. Items1' /\ waitEmpty' \subseteq waitEmpty
        BY <2>d, <2>e, <4>1
      <4>3. Cardinality(inPush' \ waitFull') = awakePush - 1
        BY <2>c, <3>0, <4>1
      <4> QED
        BY <2>c, <2>d, <3>0, <3>2, <4>1, <4>2, <4>3 DEF NoLostWakeup
    <3>3. CASE ~closed /\ Len(q) >= Capacity
      <4>1. Capacity - Len(q) <= 0 /\ UNCHANGED <<q, inPop, waitEmpty>>
        BY <2>2, <2>d, <3>3 DEF PushResume
      <4> QED
        BY <2>d, <2>n, <3>0, <3>3, <4>1 DEF NoLostWakeup
    <3> QED
      BY <2>d, <3>1, <3>2, <3>3
  <2>3. ASSUME NEW c \in Consumers, Pop(c) PROVE NoLostWakeup'
    <3>0. c \notin waitEmpty /\ UNCHANGED <<closed, notified, inPush>>
      BY <2>3 DEF Pop
    <3>1. CASE Take(c)
      <4>1. Len(q') = Len(q) - 1 /\ inPop' = inPop \ {c} /\ UNCHANGED waitEmpty
        BY <2>d, <3>1 DEF Take
      <4>2. Items1'
        <5>1. CASE c \in inPop
          <6>1. Cardinality(inPop' \ waitEmpty') = awakePop - 1 /\ awakePop \in Nat
            BY <2>b, <3>0, <4>1, <5>1
          <6>2. waitEmpty # {} => Len(q) <= awakePop
            BY DEF NoLostWakeup
          <6> QED
            BY <2>l, <4>1, <6>1, <6>2
        <5>2. CASE c \notin inPop
          <6>1. Cardinality(inPop' \ waitEmpty') = awakePop /\ awakePop \in Nat
            BY <2>b, <4>1, <5>2
          <6>2. waitEmpty # {} => Len(q) <= awakePop
            BY DEF NoLostWakeup
          <6> QED
            BY <2>l, <4>1, <6>1, <6>2
        <5> QED
          BY <5>1, <5>2
      <4>3. Slots1' /\ waitFull' \subseteq waitFull
        <5>1. CASE waitFull = {}
          BY <3>1, <5>1 DEF Take, NotifyNotFull
        <5>2. CASE waitFull # {}
          <6>1. PICK w \in waitFull : waitFull' = waitFull \ {w}
            BY <3>1, <5>2 DEF Take, NotifyNotFull
          <6>2. Cardinality(inPush' \ waitFull') = awakePush + 1
            BY <2>c, <3>0, <6>1
          <6> QED
            BY <2>c, <2>d, <3>0, <4>1, <5>2, <6>1, <6>2 DEF NoLostWakeup
        <5> QED
          BY <5>1, <5>2
      <4> QED
        BY <3>0, <4>1, <4>2, <4>3 DEF NoLostWakeup
    <3>2. CASE ClosedAndEmpty(c)
      BY <2>d, <2>n, <3>0, <3>2 DEF ClosedAndEmpty, NoLostWakeup
    <3>3. CASE SleepEmpty(c)
      BY <2>d, <2>n, <3>0, <3>3 DEF SleepEmpty, NoLostWakeup
    <3> QED
      BY <2>3, <3>1, <3>2, <3>3 DEF Pop
  <2>4. ASSUME NEW c \in Consumers, PopTimeout(c) PROVE NoLostWakeup'
    BY <2>4, <2>d, <2>n DEF PopTimeout, NoLostWakeup
  <2>5. CASE SpuriousWake
    <3>1. CASE \E p \in waitFull : waitFull' = waitFull \ {p} /\ UNCHANGED waitEmpty
      <4>1. PICK w \in waitFull : waitFull' = waitFull \ {w} /\ UNCHANGED waitEmpty
        BY <3>1
      <4>2. Cardinality(inPush' \ waitFull') = awakePush + 1
        BY <2>5, <2>c, <4>1 DEF SpuriousWake
      <4> QED
        BY <2>5, <2>c, <2>d, <4>1, <4>2 DEF SpuriousWake, NoLostWakeup
    <3>2. CASE \E c \in waitEmpty : waitEmpty' = waitEmpty \ {c} /\ UNCHANGED waitFull
      <4>1. PICK w \in waitEmpty : waitEmpty' = waitEmpty \ {w} /\ UNCHANGED waitFull
        BY <3>2
      <4>2. Cardinality(inPop' \ waitEmpty') = awakePop + 1
        BY <2>5, <2>b, <4>1 DEF SpuriousWake
      <4> QED
        BY <2>5, <2>b, <2>d, <4>1, <4>2 DEF SpuriousWake, NoLostWakeup
    <3> QED
      BY <2>5, <3>1, <3>2 DEF SpuriousWake
  <2>6. CASE CloseMark
    BY <2>6 DEF CloseMark, NoLostWakeup, threadVars
  <2>7. CASE CloseNotify
    BY <2>7 DEF CloseNotify, NoLostWakeup
  <2>8. CASE UNCHANGED vars
    BY <2>8 DEF vars, NoLostWakeup, threadVars
  <2> QED
    BY <2>1, <2>2, <2>3, <2>4, <2>5, <2>6, <2>7, <2>8 DEF Next
<1> QED
  BY <1>1, <1>2, TypeCorrect, PTL DEF Safety

-----------------------------------------------------------------------------
(* What the policies keep. *)

(* The pairs of items that may be delivered in this order. *)
Before == {r \in Items \X Items : r[1][1] = r[2][1] => r[1][2] < r[2][2]}

(* The items of each producer in s are its latest calls, without a gap. *)
Fresh(s, c) ==
    \A p \in Producers : \E m \in 1 .. c[p] + 1 : \A k \in 1 .. MaxCalls :
        <<p, k>> \in Range(s) <=> m <= k /\ k <= c[p]

(* Delivered and queued items are in order ... *)
FlowOrder ==
    /\ Ordered(got, Before) /\ Ordered(q, Before)
    /\ \A x \in Range(got), y \in Range(q) : <<x, y>> \in Before

(* ... none is younger than the latest call, and the item of a push() that *)
(* still waits is not among them; only Block waits.                        *)
FlowCalls ==
    /\ \A x \in Range(got) \cup Range(q) :
          x[2] <= calls[x[1]] /\ (x[1] \in inPush => x[2] < calls[x[1]])
    /\ inPush # {} => policy = "Block"

FlowKept ==
    /\ policy = "Block" /\ ~closed =>
          \A p \in Producers : \A k \in 1 .. calls[p] :
              (k = calls[p] /\ p \in inPush) \/ <<p, k>> \in Range(got) \cup Range(q)
    /\ policy = "DropOldest" /\ ~closed => Fresh(q, calls)

FlowInv == FlowOrder /\ FlowCalls /\ FlowKept

(* The relation on items, taken apart. *)
LEMMA BeforeIs ==
    \A x, y \in Items : /\ <<x, y>> \in Before <=> (x[1] = y[1] => x[2] < y[2])
                        /\ x[1] \in Producers /\ x[2] \in 1 .. MaxCalls /\ x = <<x[1], x[2]>>
BY DEF Before, Items

(* What is in a sequence of items is an item. *)
LEMMA ElemsAreItems == \A s \in Seq(Items) : Range(s) \subseteq Items
BY DEF Range

(* The front leaves, because it is popped or evicted. *)
LEMMA FrontLeaves ==
    ASSUME TypeOK, FlowOrder, q # <<>>
    PROVE  /\ Tail(q) \in Seq(Items) /\ Head(q) \in Items /\ Head(q) \notin Range(Tail(q))
           /\ Range(q) = {Head(q)} \cup Range(Tail(q))
           /\ Ordered(Tail(q), Before)
           /\ \A x \in Range(Tail(q)) : <<Head(q), x>> \in Before
           /\ Fresh(q, calls) => Fresh(Tail(q), calls)
<1> USE QueueAssumption DEF QueueAssumption
<1> DEFINE h == Head(q)  t == Tail(q)
<1>0. q \in Seq(Items) /\ calls \in [Producers -> 0..MaxCalls]
  BY DEF TypeOK
<1>1. t \in Seq(Items) /\ h \in Items /\ Range(q) = {h} \cup Range(t)
  BY <1>0, TailElems
<1>2. Ordered(t, Before) /\ \A x \in Range(t) : <<h, x>> \in Before
  BY <1>0, TailOrdered DEF FlowOrder
<1>3. Range(t) \subseteq Items
  BY <1>1, ElemsAreItems
<1>4. \A x \in Range(t) : x[1] = h[1] => h[2] < x[2]
  BY <1>1, <1>2, <1>3, BeforeIs
<1> HIDE DEF h, t
<1>5. h[1] \in Producers /\ h[2] \in 1 .. MaxCalls /\ h = <<h[1], h[2]>> /\ h[2] \in Int
  <2>1. h[1] \in Producers /\ h[2] \in 1 .. MaxCalls /\ h = <<h[1], h[2]>>
    BY <1>1, BeforeIs
  <2> QED
    BY <2>1
<1>6. h \notin Range(t)
  BY <1>4, <1>5
<1>7. ASSUME Fresh(q, calls) PROVE Fresh(t, calls)
  <2> SUFFICES ASSUME NEW p \in Producers
               PROVE  \E m \in 1 .. calls[p] + 1 : \A k \in 1 .. MaxCalls :
                         <<p, k>> \in Range(t) <=> m <= k /\ k <= calls[p]
    BY DEF Fresh
  <2>1. PICK m \in 1 .. calls[p] + 1 : \A k \in 1 .. MaxCalls :
           <<p, k>> \in Range(q) <=> m <= k /\ k <= calls[p]
    BY <1>7 DEF Fresh
  <2>2. calls[p] \in 0 .. MaxCalls /\ calls[p] \in Int /\ m \in Int
    BY <1>0
  <2>3. CASE h[1] # p
    <3>1. \A k \in 1 .. MaxCalls : <<p, k>> \in Range(t) <=> <<p, k>> \in Range(q)
      BY <1>1, <1>5, <2>3
    <3> QED
      BY <2>1, <3>1
  <2>4. CASE h[1] = p
    <3>1. m <= h[2] /\ h[2] <= calls[p]
      BY <1>1, <1>5, <2>1, <2>4
    <3>2. m = h[2]
      <4> SUFFICES ASSUME m # h[2] PROVE FALSE
        OBVIOUS
      <4>1. m < h[2] /\ m \in 1 .. MaxCalls /\ m <= calls[p] /\ m <= m
        BY <1>5, <2>2, <3>1
      <4>2. <<p, m>> \in Range(q)
        BY <2>1, <4>1
      <4>3. <<p, m>> \in Range(t)
        BY <1>1, <1>5, <4>1, <4>2
      <4>4. h[2] < m
        BY <1>4, <2>4, <4>3
      <4> QED
        BY <1>5, <2>2, <4>1, <4>4
    <3>3. m + 1 \in 1 .. calls[p] + 1
      BY <2>2, <3>1, <3>2
    <3>4. ASSUME NEW k \in 1 .. MaxCalls
          PROVE  <<p, k>> \in Range(t) <=> m + 1 <= k /\ k <= calls[p]
      <4>1. <<p, k>> \in Range(t) <=> <<p, k>> \in Range(q) /\ k # m
        BY <1>1, <1>5, <1>6, <2>4, <3>2
      <4>2. k \in Int
        OBVIOUS
      <4>3. (m <= k /\ k # m) <=> m + 1 <= k
        BY <2>2, <4>2
      <4> QED
        BY <2>1, <4>1, <4>3
    <3> QED
      BY <3>3, <3>4
  <2> QED
    BY <2>3, <2>4
<1> QED
  BY <1>1, <1>2, <1>6, <1>7 DEF h, t

(* The item of the latest call joins at the back. *)
LEMMA BackJoins ==
    ASSUME NEW s \in Seq(Items), Ordered(s, Before), NEW p \in Producers, NEW n \in 1 .. MaxCalls,
           \A x \in Range(s) : x[1] = p => x[2] < n
    PROVE  /\ <<p, n>> \in Items
           /\ Append(s, <<p, n>>) \in Seq(Items)
           /\ Range(Append(s, <<p, n>>)) = Range(s) \cup {<<p, n>>}
           /\ Ordered(Append(s, <<p, n>>), Before)
<1> DEFINE e == <<p, n>>
<1>1. e \in Items /\ e[1] = p /\ e[2] = n
  BY DEF Items
<1> HIDE DEF e
<1>2. Range(s) \subseteq Items
  BY ElemsAreItems
<1>3. \A x \in Range(s) : <<x, e>> \in Before
  BY <1>1, <1>2, BeforeIs
<1>4. Append(s, e) \in Seq(Items) /\ Range(Append(s, e)) = Range(s) \cup {e}
  BY <1>1, AppendElems
<1>5. Ordered(Append(s, e), Before)
  BY <1>1, <1>3, AppendOrdered
<1> QED
  BY <1>1, <1>4, <1>5 DEF e

(* ... and the freshest items stay the freshest. *)
LEMMA BackIsFresh ==
    ASSUME NEW s \in Seq(Items), NEW p \in Producers,
           NEW c \in [Producers -> 0 .. MaxCalls], NEW d, d = [c EXCEPT ![p] = @ + 1],
           c[p] < MaxCalls, Fresh(s, c)
    PROVE  Fresh(Append(s, <<p, d[p]>>), d)
<1> USE QueueAssumption DEF QueueAssumption
<1>0. c[p] \in Int /\ d[p] = c[p] + 1 /\ d[p] \in 1 .. MaxCalls /\ <<p, d[p]>> \in Items
  BY DEF Items
<1>1. Range(Append(s, <<p, d[p]>>)) = Range(s) \cup {<<p, d[p]>>}
  BY <1>0, AppendElems
<1> SUFFICES ASSUME NEW r \in Producers
             PROVE  \E m \in 1 .. d[r] + 1 : \A k \in 1 .. MaxCalls :
                       <<r, k>> \in Range(s) \cup {<<p, d[p]>>} <=> m <= k /\ k <= d[r]
  BY <1>1 DEF Fresh
<1>2. PICK m \in 1 .. c[r] + 1 : \A k \in 1 .. MaxCalls :
         <<r, k>> \in Range(s) <=> m <= k /\ k <= c[r]
  BY DEF Fresh
<1>3. m \in Int /\ c[r] \in Int
  OBVIOUS
<1>4. CASE r # p
  <2>1. d[r] = c[r]
    BY <1>4
  <2>2. \A k \in 1 .. MaxCalls : <<r, k>> \in Range(s) \cup {<<p, d[p]>>} <=> <<r, k>> \in Range(s)
    BY <1>4
  <2> QED
    BY <1>2, <2>1, <2>2
<1>5. CASE r = p
  <2>1. m \in 1 .. d[r] + 1 /\ m <= d[r] /\ d[r] \in Int
    BY <1>0, <1>3, <1>5
  <2>2. ASSUME NEW k \in 1 .. MaxCalls
        PROVE  <<r, k>> \in Range(s) \cup {<<p, d[p]>>} <=> m <= k /\ k <= d[r]
    <3>1. <<r, k>> \in Range(s) \cup {<<p, d[p]>>} <=> <<r, k>> \in Range(s) \/ k = d[r]
      BY <1>5
    <3>2. k \in Int
      OBVIOUS
    <3>3. ((m <= k /\ k <= c[r]) \/ k = d[r]) <=> m <= k /\ k <= d[r]
      BY <1>0, <1>3, <1>5, <2>1, <3>2
    <3> QED
      BY <1>2, <3>1, <3>3
  <2> QED
    BY <2>1, <2>2
<1> QED
  BY <1>4, <1>5

(* An accepted item, behind what is left of the queue. *)
LEMMA AcceptKeeps ==
    ASSUME TypeOK, FlowInv, NEW p \in Producers, NEW n \in 1 .. MaxCalls,
           NEW kept \in Seq(Items), Ordered(kept, Before), Range(kept) \subseteq Range(q),
           \A x \in Range(got) \cup Range(q) : x[1] = p => x[2] < n,
           q' = Append(kept, <<p, n>>), UNCHANGED got
    PROVE  /\ FlowOrder'
           /\ Range(q') = Range(kept) \cup {<<p, n>>} /\ <<p, n>> \in Items
<1> DEFINE e == <<p, n>>
<1>1. /\ e \in Items /\ Range(q') = Range(kept) \cup {e} /\ Ordered(q', Before)
  BY BackJoins
<1>2. e[1] = p /\ e[2] = n
  OBVIOUS
<1> HIDE DEF e
<1>3. Range(got) \subseteq Items
  BY ElemsAreItems DEF TypeOK
<1>4. \A x \in Range(got) : <<x, e>> \in Before
  BY <1>1, <1>2, <1>3, BeforeIs
<1>5. \A x \in Range(got), y \in Range(q') : <<x, y>> \in Before
  BY <1>1, <1>4 DEF FlowInv, FlowOrder
<1> QED
  BY <1>1, <1>5 DEF FlowInv, FlowOrder, e

(* One step keeps the invariant. *)
LEMMA FlowStep == TypeOK /\ FlowInv /\ [Next]_vars => FlowInv'
<1> SUFFICES ASSUME TypeOK, FlowInv, [Next]_vars PROVE FlowInv'
  OBVIOUS
<1> USE QueueAssumption DEF QueueAssumption, FlowInv
<1>t. /\ q \in Seq(Items) /\ got \in Seq(Items) /\ calls \in [Producers -> 0..MaxCalls]
      /\ Range(q) \subseteq Items /\ Range(got) \subseteq Items
      /\ inPush \subseteq Producers /\ policy \in Policies /\ Len(q) <= Capacity
  BY ElemsAreItems DEF TypeOK
<1>i. \A x \in Range(got) \cup Range(q) : /\ x[1] \in Producers /\ x[2] \in 1 .. MaxCalls
                                          /\ x[2] \in Int /\ calls[x[1]] \in Int
  <2>1. \A x \in Range(got) \cup Range(q) : x[1] \in Producers /\ x[2] \in 1 .. MaxCalls
    BY <1>t, BeforeIs
  <2> QED
    BY <1>t, <2>1
<1>1. ASSUME NEW p \in Producers, Push(p) PROVE FlowInv'
  <2>1. /\ p \notin inPush /\ calls[p] < MaxCalls /\ calls' = [calls EXCEPT ![p] = @ + 1]
        /\ UNCHANGED <<policy, closed, got>>
    BY <1>1 DEF Push
  <2>2. /\ calls'[p] \in 1 .. MaxCalls /\ calls'[p] = calls[p] + 1 /\ calls[p] \in 0 .. MaxCalls
        /\ calls[p] \in Int
        /\ \A r \in Producers : r # p => calls'[r] = calls[r]
    BY <1>t, <2>1
  <2>3. \A x \in Range(got) \cup Range(q) : x[1] = p => x[2] < calls'[p]
    BY <1>i, <2>2 DEF FlowCalls
  <2>4. \A x \in Range(got) \cup Range(q) : x[2] <= calls'[x[1]] /\ (x[1] \in inPush => x[2] < calls'[x[1]])
    <3> SUFFICES ASSUME NEW x \in Range(got) \cup Range(q)
                 PROVE  x[2] <= calls'[x[1]] /\ (x[1] \in inPush => x[2] < calls'[x[1]])
      OBVIOUS
    <3>1. CASE x[1] = p
      BY <1>i, <2>1, <2>2, <2>3, <3>1
    <3>2. CASE x[1] # p
      BY <1>i, <2>2, <3>2 DEF FlowCalls
    <3> QED
      BY <3>1, <3>2
  <2>5. CASE PushClosed(p)
    <3>1. closed /\ UNCHANGED <<q, inPush>>
      BY <2>5 DEF PushClosed, threadVars
    <3> QED
      BY <2>1, <2>4, <3>1 DEF FlowOrder, FlowCalls, FlowKept
  <2>6. ASSUME NEW kept \in Seq(Items), Ordered(kept, Before), Range(kept) \subseteq Range(q),
               q' = Append(kept, <<p, calls'[p]>>), UNCHANGED inPush,
               policy = "Block" => kept = q, Fresh(q, calls) => Fresh(kept, calls)
        PROVE  FlowInv'
    <3>1. FlowOrder' /\ Range(q') = Range(kept) \cup {<<p, calls'[p]>>}
      BY <2>1, <2>2, <2>3, <2>6, AcceptKeeps
    <3>2. FlowCalls'
      <4>1. ASSUME NEW x \in Range(got) \cup Range(q')
            PROVE  x[2] <= calls'[x[1]] /\ (x[1] \in inPush => x[2] < calls'[x[1]])
        <5>1. CASE x \in Range(got) \cup Range(q)
          BY <2>4, <5>1
        <5>2. CASE x = <<p, calls'[p]>>
          BY <2>1, <2>2, <5>2
        <5> QED
          BY <2>6, <3>1, <5>1, <5>2
      <4> QED
        BY <2>1, <2>6, <4>1 DEF FlowCalls
    <3>3. FlowKept'
      <4>1. ASSUME policy = "Block", ~closed, NEW r \in Producers, NEW k \in 1 .. calls'[r]
            PROVE  (k = calls'[r] /\ r \in inPush) \/ <<r, k>> \in Range(got) \cup Range(q')
        <5>1. CASE r # p
          BY <2>2, <2>6, <3>1, <4>1, <5>1 DEF FlowKept
        <5>2. CASE r = p /\ k = calls'[p]
          BY <3>1, <5>2
        <5>3. CASE r = p /\ k # calls'[p]
          <6>1. k \in 1 .. calls[p]
            BY <2>2, <5>3
          <6> QED
            BY <2>1, <2>6, <3>1, <4>1, <5>3, <6>1 DEF FlowKept
        <5> QED
          BY <5>1, <5>2, <5>3
      <4>2. policy = "DropOldest" /\ ~closed => Fresh(q', calls')
        BY <1>t, <2>1, <2>6, BackIsFresh DEF FlowKept
      <4> QED
        BY <2>1, <2>6, <4>1, <4>2 DEF FlowKept
    <3> QED
      BY <3>1, <3>2, <3>3
  <2>7. CASE PushRoom(p)
    BY <1>t, <2>6, <2>7 DEF PushRoom, Accept, FlowOrder
  <2>8. CASE PushFull(p) /\ policy = "DropOldest"
    <3>1. q # <<>>
      BY <1>t, <2>8 DEF PushFull
    <3>2. q' = Append(Tail(q), <<p, calls'[p]>>) /\ UNCHANGED inPush
      BY <2>8 DEF PushFull, Accept
    <3> QED
      BY <2>6, <2>8, <3>1, <3>2, FrontLeaves
  <2>9. CASE PushFull(p) /\ policy = "DropNewest"
    <3>1. UNCHANGED <<q, inPush>>
      BY <2>9 DEF PushFull, threadVars
    <3> QED
      BY <2>1, <2>4, <2>9, <3>1 DEF FlowOrder, FlowCalls, FlowKept
  <2>10. CASE PushFull(p) /\ policy = "Block"
    <3>1. UNCHANGED q /\ inPush' = inPush \cup {p}
      BY <2>10 DEF PushFull
    <3>2. FlowCalls'
      BY <2>1, <2>3, <2>4, <2>10, <3>1 DEF FlowCalls
    <3>3. FlowKept'
      <4>1. ASSUME ~closed, NEW r \in Producers, NEW k \in 1 .. calls'[r]
            PROVE  (k = calls'[r] /\ r \in inPush') \/ <<r, k>> \in Range(got) \cup Range(q)
        <5>1. CASE r # p
          BY <2>2, <2>10, <3>1, <4>1, <5>1 DEF FlowKept
        <5>2. CASE r = p /\ k # calls'[p]
          <6>1. k \in 1 .. calls[p]
            BY <2>2, <5>2
          <6> QED
            BY <2>1, <2>10, <4>1, <5>2, <6>1 DEF FlowKept
        <5>3. CASE r = p /\ k = calls'[p]
          BY <3>1, <5>3
        <5> QED
          BY <5>1, <5>2, <5>3
      <4> QED
        BY <2>1, <2>10, <3>1, <4>1 DEF FlowKept
    <3> QED
      BY <2>1, <3>1, <3>2, <3>3 DEF FlowOrder
  <2> QED
    BY <1>1, <1>t, <2>5, <2>7, <2>8, <2>9, <2>10 DEF Push, Policies
<1>2. ASSUME NEW p \in Producers, PushResume(p) PROVE FlowInv'
  <2>1. p \in inPush /\ policy = "Block" /\ UNCHANGED <<policy, closed, calls, got>>
    BY <1>2 DEF PushResume, FlowCalls
  <2>2. calls[p] \in 1 .. MaxCalls /\ calls[p] \in Int
    BY <1>t, <2>1 DEF TypeOK
  <2>3. CASE closed
    <3>1. UNCHANGED q /\ inPush' = inPush \ {p}
      BY <1>2, <2>3 DEF PushResume
    <3> QED
      BY <2>1, <2>3, <3>1 DEF FlowOrder, FlowCalls, FlowKept
  <2>4. CASE ~closed /\ Len(q) < Capacity
    <3>1. q' = Append(q, <<p, calls[p]>>) /\ inPush' = inPush \ {p}
      BY <1>2, <2>4 DEF PushResume, Accept
    <3>2. \A x \in Range(got) \cup Range(q) : x[1] = p => x[2] < calls[p]
      BY <2>1 DEF FlowCalls
    <3>3. FlowOrder' /\ Range(q') = Range(q) \cup {<<p, calls[p]>>}
      BY <1>t, <2>1, <2>2, <3>1, <3>2, AcceptKeeps DEF FlowOrder
    <3>4. FlowCalls'
      <4>1. ASSUME NEW x \in Range(got) \cup Range(q')
            PROVE  x[2] <= calls[x[1]] /\ (x[1] \in inPush' => x[2] < calls[x[1]])
        <5>1. CASE x \in Range(got) \cup Range(q)
          BY <3>1, <5>1 DEF FlowCalls
        <5>2. CASE x = <<p, calls[p]>>
          BY <2>2, <3>1, <5>2
        <5> QED
          BY <3>3, <5>1, <5>2
      <4> QED
        BY <2>1, <4>1 DEF FlowCalls
    <3>5. FlowKept'
      <4>1. ASSUME NEW r \in Producers, NEW k \in 1 .. calls[r]
            PROVE  (k = calls[r] /\ r \in inPush') \/ <<r, k>> \in Range(got) \cup Range(q')
        BY <2>1, <2>4, <3>1, <3>3 DEF FlowKept
      <4> QED
        BY <2>1, <4>1 DEF FlowKept
    <3> QED
      BY <3>3, <3>4, <3>5
  <2>5. CASE ~closed /\ Len(q) >= Capacity
    <3>1. UNCHANGED <<q, inPush>>
      BY <1>2, <2>5 DEF PushResume
    <3> QED
      BY <2>1, <3>1 DEF FlowOrder, FlowCalls, FlowKept
  <2>6. closed \/ (~closed /\ Len(q) < Capacity) \/ (~closed /\ Len(q) >= Capacity)
    BY <1>t
  <2> QED
    BY <2>3, <2>4, <2>5, <2>6
<1>3. ASSUME NEW c \in Consumers, Pop(c) PROVE FlowInv'
  <2>1. UNCHANGED <<policy, closed, calls, inPush>>
    BY <1>3 DEF Pop
  <2>2. CASE Take(c)
    <3>1. q # <<>> /\ q' = Tail(q) /\ got' = Append(got, Head(q))
      BY <2>2 DEF Take
    <3>2. /\ Tail(q) \in Seq(Items) /\ Head(q) \in Items /\ Head(q) \notin Range(Tail(q))
          /\ Range(q) = {Head(q)} \cup Range(Tail(q))
          /\ Ordered(Tail(q), Before)
          /\ \A x \in Range(Tail(q)) : <<Head(q), x>> \in Before
          /\ Fresh(q, calls) => Fresh(Tail(q), calls)
      BY <3>1, FrontLeaves
    <3>3. Range(got') = Range(got) \cup {Head(q)}
      BY <1>t, <3>1, <3>2, AppendElems
    <3>4. Ordered(got', Before)
      BY <1>t, <3>1, <3>2, AppendOrdered DEF FlowOrder
    <3>5. Range(got') \cup Range(q') = Range(got) \cup Range(q)
      BY <3>1, <3>2, <3>3
    <3>6. FlowOrder'
      BY <3>1, <3>2, <3>3, <3>4 DEF FlowOrder
    <3> QED
      BY <2>1, <3>1, <3>2, <3>5, <3>6 DEF FlowCalls, FlowKept
  <2>3. CASE ClosedAndEmpty(c) \/ SleepEmpty(c)
    <3>1. UNCHANGED <<q, got>>
      BY <2>3 DEF ClosedAndEmpty, SleepEmpty
    <3> QED
      BY <2>1, <3>1 DEF FlowOrder, FlowCalls, FlowKept
  <2> QED
    BY <1>3, <2>2, <2>3 DEF Pop
<1>4. CASE CloseMark
  <2>1. closed' = TRUE /\ UNCHANGED <<policy, q, got, calls, inPush>>
    BY <1>4 DEF CloseMark, threadVars
  <2> QED
    BY <2>1 DEF FlowOrder, FlowCalls, FlowKept
<1>5. CASE (\E c \in Consumers : PopTimeout(c)) \/ SpuriousWake \/ CloseNotify \/ UNCHANGED vars
  <2>1. UNCHANGED <<policy, closed, q, got, calls, inPush>>
    BY <1>5 DEF PopTimeout, SpuriousWake, CloseNotify, vars, threadVars
  <2> QED
    BY <2>1 DEF FlowOrder, FlowCalls, FlowKept
<1> QED
  BY <1>1, <1>2, <1>3, <1>4, <1>5 DEF Next

(* The invariant says what the policies promise. *)
LEMMA FlowHonours == TypeOK /\ FlowInv => PolicyHonoured
<1> USE QueueAssumption DEF QueueAssumption, FlowInv
<1> SUFFICES ASSUME TypeOK, FlowInv PROVE PolicyHonoured
  OBVIOUS
<1>1. /\ q \in Seq(Items) /\ got \in Seq(Items) /\ got \o q \in Seq(Items)
      /\ Range(got \o q) = Range(got) \cup Range(q)
      /\ calls \in [Producers -> 0 .. MaxCalls]
  BY ConcatElems DEF TypeOK
<1>2. ProducerOrder
  <2>1. Ordered(got \o q, Before)
    BY <1>1, ConcatOrdered DEF FlowOrder
  <2>2. \A i \in DOMAIN (got \o q) : (got \o q)[i] \in Items
    BY <1>1
  <2>3. ASSUME NEW i \in DOMAIN (got \o q), NEW j \in DOMAIN (got \o q), i < j,
               (got \o q)[i][1] = (got \o q)[j][1]
        PROVE  (got \o q)[i][2] < (got \o q)[j][2]
    <3>1. <<(got \o q)[i], (got \o q)[j]>> \in Before
      BY <2>1, <2>3 DEF Ordered
    <3> QED
      BY <2>2, <2>3, <3>1, BeforeIs
  <2> QED
    BY <2>3 DEF ProducerOrder
<1>3. BlockLosesNothing
  BY <1>1 DEF BlockLosesNothing, FlowKept, Range
<1>4. FreshestSurvives
  <2> SUFFICES ASSUME policy = "DropOldest", ~closed, NEW p \in Producers,
                      NEW queued, queued = {k \in 1..MaxCalls : \E i \in DOMAIN q : q[i] = <<p, k>>}
               PROVE  queued = (calls[p] - Cardinality(queued) + 1) .. calls[p]
    BY DEF FreshestSurvives
  <2>1. PICK m \in 1 .. calls[p] + 1 : \A k \in 1 .. MaxCalls :
           <<p, k>> \in Range(q) <=> m <= k /\ k <= calls[p]
    BY DEF FlowKept, Fresh
  <2>2. calls[p] \in 0 .. MaxCalls /\ calls[p] \in Int /\ m \in Int /\ m <= calls[p] + 1
    BY <1>1
  <2>3. queued = m .. calls[p]
    <3>1. queued = {k \in 1 .. MaxCalls : m <= k /\ k <= calls[p]}
      BY <2>1 DEF Range
    <3> QED
      BY <2>2, <3>1
  <2>4. Cardinality(m .. calls[p]) = IF m > calls[p] THEN 0 ELSE calls[p] - m + 1
    BY <2>2, FS_Interval
  <2>5. Cardinality(queued) = calls[p] - m + 1
    <3>1. Cardinality(queued) = IF m > calls[p] THEN 0 ELSE calls[p] - m + 1
      BY <2>3, <2>4
    <3>2. m > calls[p] => m = calls[p] + 1
      BY <2>2
    <3> QED
      BY <2>2, <3>1, <3>2
  <2>6. calls[p] - Cardinality(queued) + 1 = m
    BY <2>2, <2>5
  <2> QED
    BY <2>3, <2>6
<1> QED
  BY <1>2, <1>3, <1>4 DEF PolicyHonoured

(* For every capacity and however many threads: the items of a producer    *)
(* come out in the order of its calls, Block loses none to a full queue,   *)
(* and DropOldest keeps the latest calls without a gap.                    *)
THEOREM PoliciesHonoured == Safety => []PolicyHonoured
<1>1. Init => FlowInv
  <2> SUFFICES ASSUME Init PROVE FlowInv
    OBVIOUS
  <2>1. q = <<>> /\ got = <<>> /\ inPush = {} /\ calls = [p \in Producers |-> 0]
    BY DEF Init
  <2>2. Range(q) = {} /\ Range(got) = {} /\ Ordered(q, Before) /\ Ordered(got, Before)
    BY <2>1 DEF Range, Ordered
  <2>3. FlowKept
    <3>1. ASSUME NEW p \in Producers, NEW k \in 1 .. calls[p] PROVE FALSE
      BY <2>1
    <3>2. Fresh(q, calls)
      <4> SUFFICES ASSUME NEW p \in Producers
                   PROVE  \E m \in 1 .. calls[p] + 1 : \A k \in 1 .. MaxCalls :
                             ~(m <= k /\ k <= calls[p])
        BY <2>2 DEF Fresh
      <4>1. calls[p] = 0 /\ 1 \in 1 .. calls[p] + 1
        BY <2>1
      <4>2. \A k \in 1 .. MaxCalls : ~(1 <= k /\ k <= calls[p])
        BY <4>1, QueueAssumption DEF QueueAssumption
      <4> QED
        BY <4>1, <4>2
    <3> QED
      BY <3>1, <3>2 DEF FlowKept
  <2> QED
    BY <2>1, <2>2, <2>3 DEF FlowInv, FlowOrder, FlowCalls
<1> QED
  BY <1>1, FlowStep, FlowHonours, TypeCorrect, PTL DEF Safety
=============================================================================
