--------------------------- MODULE EventBusProofs ---------------------------
(***************************************************************************)
(* Proofs about EventBus for any subscriptions, publishers, capacities and *)
(* policies: what a subscriber handles is what was published, in order,    *)
(* and without a gap if its policy is Block.                               *)
(***************************************************************************)
EXTENDS EventBus, Flows, TLAPS

(* Every thread's publish keeps its shape when the thread does not step    *)
(* and subscriptions come, or all go with shutdown().                      *)
LEMMA OthersKeep ==
    ASSUME TypeOK, NEW t \in Threads, pub'[t] = pub[t], sent'[t] = sent[t],
           shut' \/ (shut' = shut /\ Range(subs) \subseteq Range(subs'))
    PROVE  PublishTypeOK(t)'
BY DEF TypeOK, PublishTypeOK

(* publish_event keeps the shapes, begun by a publisher or by a handler. *)
LEMMA BeginTypes ==
    ASSUME TypeOK, NEW t \in Threads, NEW type \in Types, PublishBegin(t, type),
           t \in Publishers => type = Script[t][sent[t] + 1], UNCHANGED busVars
    PROVE  sent' \in [Threads -> Nat] /\ DOMAIN pub' = Threads /\ \A r \in Threads : PublishTypeOK(r)'
<1>t. sent \in [Threads -> Nat] /\ DOMAIN pub = Threads /\ shut \in BOOLEAN
  BY DEF TypeOK
<1>1. CASE shut
  <2>1. UNCHANGED <<pub, sent, shut, subs>>
    BY <1>1 DEF PublishBegin, busVars
  <2> QED
    BY <1>t, <2>1, OthersKeep
<1>2. CASE ~shut
  <2> DEFINE e == [src |-> t, n |-> sent'[t], type |-> type]
             b == [step |-> "snapshot", event |-> <<e>>, to |-> <<>>, left |-> <<>>]
  <2>1. /\ sent' = [sent EXCEPT ![t] = @ + 1]
        /\ pub' = [pub EXCEPT ![t] = b] /\ UNCHANGED <<shut, subs>>
    BY <1>2 DEF PublishBegin, busVars
  <2>2. sent' \in [Threads -> Nat] /\ DOMAIN pub' = Threads /\ sent'[t] = sent[t] + 1
    BY <1>t, <2>1
  <2>3. pub'[t] = b
    BY <1>t, <2>1
  <2>4. e \in Events /\ e.src = t /\ e.n = sent'[t] /\ e.type = type
    BY <2>2 DEF Events
  <2> HIDE DEF e
  <2>5. <<e>> \in Seq(Events) /\ <<e>> # <<>> /\ <<e>>[1] = e
    BY <2>4
  <2>6. b \in [step : {"idle", "snapshot", "push"}, event : Seq(Events), to : Seq(Subs), left : Seq(Subs)]
        /\ b.step = "snapshot" /\ b.event = <<e>>
    BY <2>5
  <2> HIDE DEF b
  <2>7. PublishTypeOK(t)'
    BY <2>2, <2>3, <2>4, <2>5, <2>6 DEF PublishTypeOK
  <2>8. ASSUME NEW r \in Threads, r # t PROVE PublishTypeOK(r)'
    <3>1. pub'[r] = pub[r] /\ sent'[r] = sent[r]
      BY <1>t, <2>1, <2>8
    <3> QED
      BY <2>1, <3>1, OthersKeep
  <2> QED
    BY <2>2, <2>7, <2>8
<1> QED
  BY <1>1, <1>2

(* A push into one queue of the snapshot. *)
LEMMA PushTypes ==
    ASSUME TypeOK, NEW t \in Threads, PublishPush(t)
    PROVE  TypeOK'
<1> USE BusAssumption DEF BusAssumption
<1> DEFINE s == Head(pub[t].left)  e == pub[t].event[1]
<1>t. /\ sent \in [Threads -> Nat] /\ DOMAIN pub = Threads /\ queue \in [Subs -> Seq(Events)]
      /\ PublishTypeOK(t)
  BY DEF TypeOK
<1>1. /\ pub[t].left \in Seq(Subs) /\ pub[t].left # <<>> /\ IsInjective(pub[t].left)
      /\ pub[t].event \in Seq(Events) /\ pub[t].event # <<>>
      /\ pub[t] \in [step : {"idle", "snapshot", "push"}, event : Seq(Events),
                     to : Seq(Subs), left : Seq(Subs)]
      /\ pub[t].step = "push"
  BY <1>t DEF PublishPush, PublishTypeOK
<1>2. e \in Events /\ s \in Subs
  BY <1>1
<1>3. UNCHANGED <<policy, subs, shut, closed, running, worker, cur, seen, sent, stopping, joined>>
  BY DEF PublishPush, busVars, stopVars
<1>4. queue' \in [Subs -> Seq(Events)] /\ \A x \in Subs : Len(queue'[x]) <= Capacity[x]
  <2>1. queue' = IF Matches(s, e) THEN [queue EXCEPT ![s] = Pushed(s, e)] ELSE queue
    BY DEF PublishPush
  <2>2. queue[s] \in Seq(Events) /\ Len(queue[s]) <= Capacity[s] /\ Capacity[s] \in Nat \ {0}
    BY <1>2, <1>t DEF TypeOK
  <2> HIDE DEF s, e
  <2>3. Pushed(s, e) \in Seq(Events) /\ Len(Pushed(s, e)) <= Capacity[s]
    <3>1. CASE closed[s]
      BY <2>2, <3>1 DEF Pushed
    <3>2. CASE ~closed[s] /\ ~Full(s)
      BY <1>2, <2>2, <3>2 DEF Pushed, Full
    <3>3. CASE ~closed[s] /\ Full(s) /\ policy[s] = "DropOldest"
      <4>1. queue[s] # <<>>
        BY <2>2, <3>3 DEF Full
      <4>2. Tail(queue[s]) \in Seq(Events) /\ Len(Tail(queue[s])) = Len(queue[s]) - 1
        BY <2>2, <4>1
      <4>3. Append(Tail(queue[s]), e) \in Seq(Events) /\ Len(Append(Tail(queue[s]), e)) = Len(queue[s])
        BY <1>2, <2>2, <4>2
      <4> QED
        BY <2>2, <3>3, <4>3 DEF Pushed
    <3>4. CASE ~closed[s] /\ Full(s) /\ policy[s] # "DropOldest"
      BY <2>2, <3>4 DEF Pushed
    <3> QED
      BY <3>1, <3>2, <3>3, <3>4
  <2> QED
    BY <1>2, <1>t, <2>1, <2>3 DEF TypeOK
<1>5. /\ DOMAIN pub' = Threads
      /\ \A r \in Threads : r # t => pub'[r] = pub[r]
      /\ pub'[t] = IF Tail(pub[t].left) = <<>> THEN Idle
                   ELSE [pub[t] EXCEPT !.left = Tail(pub[t].left)]
  <2> DEFINE b == IF Tail(pub[t].left) = <<>> THEN Idle
                  ELSE [pub[t] EXCEPT !.left = Tail(pub[t].left)]
  <2>1. pub' = [pub EXCEPT ![t] = b]
    BY DEF PublishPush
  <2> HIDE DEF b
  <2>2. DOMAIN pub' = Threads /\ (\A r \in Threads : r # t => pub'[r] = pub[r]) /\ pub'[t] = b
    BY <1>t, <2>1
  <2> QED
    BY <2>2 DEF b
<1> HIDE DEF s, e
<1>6. PublishTypeOK(t)'
  <2>1. CASE Tail(pub[t].left) = <<>>
    <3>1. pub'[t] = Idle
      BY <1>5, <2>1
    <3>2. Idle \in [step : {"idle", "snapshot", "push"}, event : Seq(Events),
                    to : Seq(Subs), left : Seq(Subs)] /\ Idle.step = "idle"
      BY DEF Idle
    <3> QED
      BY <3>1, <3>2 DEF PublishTypeOK
  <2>2. CASE Tail(pub[t].left) # <<>>
    <3> DEFINE l == Tail(pub[t].left)
    <3>1. l \in Seq(Subs) /\ l # <<>> /\ Range(l) \subseteq Range(pub[t].left)
      BY <1>1, <2>2, TailElems
    <3>2. IsInjective(l)
      <4>1. /\ Len(pub[t].left) \in Nat /\ DOMAIN pub[t].left = 1 .. Len(pub[t].left)
            /\ DOMAIN l = 1 .. Len(pub[t].left) - 1
            /\ \A i \in 1 .. Len(pub[t].left) - 1 : l[i] = pub[t].left[i + 1]
        BY <1>1
      <4>2. ASSUME NEW i \in DOMAIN l, NEW j \in DOMAIN l, l[i] = l[j] PROVE i = j
        <5>1. /\ i \in Int /\ j \in Int
              /\ i + 1 \in DOMAIN pub[t].left /\ j + 1 \in DOMAIN pub[t].left
          BY <4>1
        <5>2. l[i] = pub[t].left[i + 1] /\ l[j] = pub[t].left[j + 1]
          BY <4>1
        <5>3. i + 1 = j + 1
          BY <1>1, <4>2, <5>1, <5>2 DEF IsInjective
        <5> QED
          BY <5>1, <5>3
      <4> QED
        BY <4>2 DEF IsInjective
    <3> HIDE DEF l
    <3>3. pub'[t] = [pub[t] EXCEPT !.left = l]
      BY <1>5, <2>2 DEF l
    <3>4. /\ pub'[t] \in [step : {"idle", "snapshot", "push"}, event : Seq(Events),
                          to : Seq(Subs), left : Seq(Subs)]
          /\ pub'[t].left = l /\ pub'[t].event = pub[t].event /\ pub'[t].step = "push"
      BY <1>1, <3>1, <3>3
    <3> QED
      BY <1>1, <1>3, <1>t, <3>1, <3>2, <3>4 DEF PublishTypeOK
  <2> QED
    BY <2>1, <2>2
<1>7. \A r \in Threads : PublishTypeOK(r)'
  BY <1>3, <1>5, <1>6, OthersKeep
<1> QED
  BY <1>3, <1>4, <1>5, <1>7 DEF TypeOK

(* One step keeps the shapes. *)
LEMMA TypeStep == TypeOK /\ [Next]_vars => TypeOK'
<1> SUFFICES ASSUME TypeOK, [Next]_vars PROVE TypeOK'
  OBVIOUS
<1> USE BusAssumption DEF BusAssumption
<1>t. /\ queue \in [Subs -> Seq(Events)] /\ seen \in [Subs -> Seq(Events)]
      /\ cur \in [Subs -> Seq(Events)]
      /\ worker \in [Subs -> {"test", "pop", "handle", "publish", "done"}]
      /\ sent \in [Threads -> Nat] /\ DOMAIN pub = Threads
      /\ closed \in [Subs -> BOOLEAN] /\ running \in [Subs -> BOOLEAN]
  BY DEF TypeOK
<1>p. UNCHANGED <<pub, sent, subs, shut>> => \A t \in Threads : PublishTypeOK(t)'
  BY OthersKeep
<1>1. CASE Subscribe
  <2>1. /\ subs' = Append(subs, Order[Len(subs) + 1]) /\ Len(subs) < Len(Order) /\ ~shut
        /\ UNCHANGED <<policy, shut, queue, closed, running, worker, cur, seen, pub, sent,
                       stopping, joined>>
    BY <1>1 DEF Subscribe, subVars, stopVars
  <2>2. subs \in Seq(Subs) /\ Order \in Seq(Subs) /\ \A i \in DOMAIN subs : subs[i] = Order[i]
    BY DEF TypeOK
  <2>3. Len(subs) + 1 \in 1 .. Len(Order) /\ Order[Len(subs) + 1] \in Subs
    BY <2>1, <2>2
  <2>4. /\ subs' \in Seq(Subs) /\ Range(subs) \subseteq Range(subs')
    BY <2>1, <2>2, <2>3, AppendElems
  <2>5. /\ Len(subs') = Len(subs) + 1 /\ DOMAIN subs' = 1 .. Len(subs) + 1
        /\ DOMAIN subs = 1 .. Len(subs) /\ Len(subs) \in Nat /\ Len(Order) \in Nat
        /\ \A i \in 1 .. Len(subs) : subs'[i] = subs[i]
        /\ subs'[Len(subs) + 1] = Order[Len(subs) + 1]
    BY <2>1, <2>2, <2>3
  <2>6. \A i \in DOMAIN subs' : subs'[i] = Order[i]
    BY <2>2, <2>5
  <2>7. Len(subs') <= Len(Order)
    BY <2>1, <2>5
  <2>8. \A t \in Threads : PublishTypeOK(t)'
    BY <2>1, <2>4, OthersKeep
  <2> QED
    BY <2>1, <2>4, <2>6, <2>7, <2>8 DEF TypeOK
<1>2. ASSUME NEW t \in Publishers, Publish(t) PROVE TypeOK'
  <2>1. /\ t \in Threads /\ UNCHANGED <<busVars, subVars, stopVars>>
        /\ PublishBegin(t, Script[t][sent[t] + 1]) /\ sent[t] < Len(Script[t])
    BY <1>2 DEF Publish, Threads
  <2>2. Script[t][sent[t] + 1] \in Types
    <3>1. Script[t] \in Seq(Types) /\ sent[t] \in Nat
      BY <1>t, <2>1
    <3> QED
      BY <2>1, <3>1
  <2>3. sent' \in [Threads -> Nat] /\ DOMAIN pub' = Threads /\ \A r \in Threads : PublishTypeOK(r)'
    BY <2>1, <2>2, BeginTypes
  <2> QED
    BY <2>1, <2>3 DEF TypeOK, busVars, subVars, stopVars
<1>3. ASSUME NEW t \in Threads, PublishSnapshot(t) PROVE TypeOK'
  <2>0. PublishTypeOK(t) /\ subs \in Seq(Subs) /\ IsInjective(subs)
    <3>1. /\ subs \in Seq(Subs) /\ Order \in Seq(Subs) /\ IsInjective(Order)
          /\ Len(subs) <= Len(Order) /\ \A i \in DOMAIN subs : subs[i] = Order[i]
      BY DEF TypeOK
    <3>2. DOMAIN subs \subseteq DOMAIN Order
      BY <3>1
    <3> QED
      BY <3>1, <3>2 DEF TypeOK, IsInjective
  <2> DEFINE b == IF subs = <<>> THEN Idle
                  ELSE [pub[t] EXCEPT !.step = "push", !.to = subs, !.left = subs]
  <2>1. pub' = [pub EXCEPT ![t] = b] /\ pub[t].step = "snapshot"
        /\ UNCHANGED <<busVars, subVars, sent, stopVars>>
    BY <1>3 DEF PublishSnapshot
  <2>2. PublishTypeOK(t)'
    <3>1. pub'[t] = b
      BY <1>t, <2>1
    <3>2. CASE subs = <<>>
      <4>1. Idle \in [step : {"idle", "snapshot", "push"}, event : Seq(Events),
                      to : Seq(Subs), left : Seq(Subs)] /\ Idle.step = "idle"
        BY DEF Idle
      <4> QED
        BY <3>1, <3>2, <4>1 DEF PublishTypeOK
    <3>3. CASE subs # <<>>
      <4>1. pub'[t] = [pub[t] EXCEPT !.step = "push", !.to = subs, !.left = subs]
        BY <3>1, <3>3
      <4>2. pub[t] \in [step : {"idle", "snapshot", "push"}, event : Seq(Events),
                        to : Seq(Subs), left : Seq(Subs)]
        BY <2>0 DEF PublishTypeOK
      <4>3. /\ pub'[t] \in [step : {"idle", "snapshot", "push"}, event : Seq(Events),
                            to : Seq(Subs), left : Seq(Subs)]
            /\ pub'[t].left = subs /\ pub'[t].event = pub[t].event /\ pub'[t].step = "push"
        BY <2>0, <4>1, <4>2
      <4> QED
        BY <2>0, <2>1, <3>3, <4>3 DEF PublishTypeOK, busVars
    <3> QED
      BY <3>2, <3>3
  <2> HIDE DEF b
  <2>3. DOMAIN pub' = Threads /\ \A r \in Threads : r # t => pub'[r] = pub[r]
    BY <1>t, <2>1
  <2>4. \A r \in Threads : PublishTypeOK(r)'
    BY <2>1, <2>2, <2>3, OthersKeep DEF busVars
  <2> QED
    BY <2>1, <2>3, <2>4 DEF TypeOK, busVars, subVars, stopVars
<1>4. ASSUME NEW t \in Threads, PublishPush(t) PROVE TypeOK'
  BY <1>4, PushTypes
<1>5. ASSUME NEW s \in Subs, WorkerTest(s) PROVE TypeOK'
  <2>1. /\ worker' = [worker EXCEPT ![s] = IF running[s] THEN "pop" ELSE "done"]
        /\ UNCHANGED <<policy, subs, shut, queue, closed, running, cur, seen, pub, sent, stopping, joined>>
    BY <1>5 DEF WorkerTest, busVars, stopVars
  <2>2. /\ worker' \in [Subs -> {"test", "pop", "handle", "publish", "done"}]
        /\ \A x \in Subs : worker'[x] = "handle" => worker[x] = "handle"
    BY <1>t, <2>1
  <2> QED
    BY <1>p, <2>1, <2>2 DEF TypeOK
<1>6. ASSUME NEW s \in Subs, WorkerPop(s) PROVE TypeOK'
  <2>1. UNCHANGED <<policy, subs, shut, closed, running, seen, pub, sent, stopping, joined>>
    BY <1>6 DEF WorkerPop, busVars, stopVars
  <2>2. queue[s] \in Seq(Events) /\ Len(queue[s]) <= Capacity[s] /\ Capacity[s] \in Nat
    BY DEF TypeOK
  <2>3. CASE queue[s] # <<>>
    <3>1. /\ cur' = [cur EXCEPT ![s] = <<Head(queue[s])>>]
          /\ queue' = [queue EXCEPT ![s] = Tail(queue[s])]
          /\ worker' = [worker EXCEPT ![s] = "handle"]
      BY <1>6, <2>3 DEF WorkerPop
    <3>2. /\ Tail(queue[s]) \in Seq(Events) /\ Len(Tail(queue[s])) <= Capacity[s]
          /\ <<Head(queue[s])>> \in Seq(Events) /\ Len(<<Head(queue[s])>>) = 1
      BY <2>2, <2>3
    <3>3. queue' \in [Subs -> Seq(Events)] /\ \A x \in Subs : Len(queue'[x]) <= Capacity[x]
      BY <1>t, <3>1, <3>2 DEF TypeOK
    <3>4. cur' \in [Subs -> Seq(Events)] /\ \A x \in Subs : worker'[x] = "handle" => Len(cur'[x]) = 1
      BY <1>t, <3>1, <3>2 DEF TypeOK
    <3>5. worker' \in [Subs -> {"test", "pop", "handle", "publish", "done"}]
      BY <1>t, <3>1
    <3> QED
      BY <1>p, <2>1, <3>3, <3>4, <3>5 DEF TypeOK
  <2>4. CASE queue[s] = <<>>
    <3>1. worker' = [worker EXCEPT ![s] = "done"] /\ UNCHANGED <<cur, queue>>
      BY <1>6, <2>4 DEF WorkerPop
    <3>2. /\ worker' \in [Subs -> {"test", "pop", "handle", "publish", "done"}]
          /\ \A x \in Subs : worker'[x] = "handle" => worker[x] = "handle"
      BY <1>t, <3>1
    <3> QED
      BY <1>p, <2>1, <3>1, <3>2 DEF TypeOK
  <2> QED
    BY <2>3, <2>4
<1>7. ASSUME NEW s \in Subs, WorkerHandle(s) PROVE TypeOK'
  <2> DEFINE e == cur[s][1]
  <2>1. UNCHANGED <<policy, subs, shut, queue, closed, running, stopping, joined>>
    BY <1>7 DEF WorkerHandle, busVars, stopVars
  <2>2. e \in Events
    BY <1>7, <1>t DEF WorkerHandle, TypeOK
  <2>3. seen' = [seen EXCEPT ![s] = Append(seen[s], e)]
    BY <1>7 DEF WorkerHandle
  <2>4. CASE e.type \in DOMAIN Reaction[s]
    <3>1. PublishBegin(s, Reaction[s][e.type]) /\ worker' = [worker EXCEPT ![s] = "publish"]
          /\ UNCHANGED cur
      BY <1>7, <2>4 DEF WorkerHandle
    <3>2. Reaction[s][e.type] \in Types /\ s \in Threads /\ s \notin Publishers
      <4>1. Reaction[s][e.type] \in Range(Reaction[s])
        BY <2>4 DEF Range
      <4>2. Reaction[s][e.type] \in UNION {Range(Reaction[x]) : x \in Subs}
        BY <4>1, Zenon
      <4>3. Reaction[s][e.type] \in Types
        BY <4>2, Zenon DEF Types
      <4>4. s \in Threads /\ s \notin Publishers
        BY DEF Threads
      <4> QED
        BY <4>3, <4>4
    <3>3. sent' \in [Threads -> Nat] /\ DOMAIN pub' = Threads /\ \A r \in Threads : PublishTypeOK(r)'
      BY <2>1, <3>1, <3>2, BeginTypes DEF busVars
    <3> HIDE DEF e
    <3>4. /\ worker' \in [Subs -> {"test", "pop", "handle", "publish", "done"}]
          /\ \A x \in Subs : worker'[x] = "handle" => worker[x] = "handle"
          /\ seen' \in [Subs -> Seq(Events)]
      BY <1>t, <2>2, <2>3, <3>1
    <3> QED
      BY <2>1, <3>1, <3>3, <3>4 DEF TypeOK
  <2>5. CASE e.type \notin DOMAIN Reaction[s]
    <3>1. /\ worker' = [worker EXCEPT ![s] = "test"] /\ cur' = [cur EXCEPT ![s] = <<>>]
          /\ UNCHANGED <<pub, sent>>
      BY <1>7, <2>5 DEF WorkerHandle
    <3> HIDE DEF e
    <3>2. /\ worker' \in [Subs -> {"test", "pop", "handle", "publish", "done"}]
          /\ \A x \in Subs : worker'[x] = "handle" => worker[x] = "handle" /\ x # s
          /\ \A x \in Subs : x # s => cur'[x] = cur[x]
          /\ cur' \in [Subs -> Seq(Events)]
      BY <1>t, <3>1
    <3>3. seen' \in [Subs -> Seq(Events)]
      BY <1>t, <2>2, <2>3
    <3> QED
      BY <1>p, <2>1, <3>1, <3>2, <3>3 DEF TypeOK
  <2> QED
    BY <2>4, <2>5
<1>8. ASSUME NEW s \in Subs, WorkerReturn(s) PROVE TypeOK'
  <2>1. /\ worker' = [worker EXCEPT ![s] = "test"] /\ cur' = [cur EXCEPT ![s] = <<>>]
        /\ UNCHANGED <<policy, subs, shut, queue, closed, running, seen, pub, sent, stopping, joined>>
    BY <1>8 DEF WorkerReturn, busVars, stopVars
  <2>2. /\ worker' \in [Subs -> {"test", "pop", "handle", "publish", "done"}]
        /\ \A x \in Subs : worker'[x] = "handle" => worker[x] = "handle" /\ x # s
        /\ \A x \in Subs : x # s => cur'[x] = cur[x]
        /\ cur' \in [Subs -> Seq(Events)]
    BY <1>t, <2>1
  <2> QED
    BY <1>p, <2>1, <2>2 DEF TypeOK
<1>s. ASSUME NEW s \in Subs, NEW left \in Seq(Subs), StopExchange(s, left)
      PROVE  /\ running' \in [Subs -> BOOLEAN]
             /\ stopping'.sub \in Seq(Subs) /\ stopping'.left \in Seq(Subs)
             /\ stopping'.step \in {"close", "join"} => stopping'.sub # <<>>
  <2>1. CASE running[s]
    <3>1. /\ running' = [running EXCEPT ![s] = FALSE]
          /\ stopping' = [step |-> "close", sub |-> <<s>>, left |-> left]
      BY <1>s, <2>1 DEF StopExchange
    <3>2. running' \in [Subs -> BOOLEAN]
      BY <1>t, <3>1
    <3> QED
      BY <3>1, <3>2
  <2>2. CASE ~running[s]
    <3>1. UNCHANGED running /\ stopping' = [step |-> "next", sub |-> <<>>, left |-> left]
      BY <1>s, <2>2 DEF StopExchange
    <3> QED
      BY <1>t, <3>1
  <2> QED
    BY <2>1, <2>2
<1>9. ASSUME NEW s \in Subs, Stop(s) PROVE TypeOK'
  <2>1. /\ StopExchange(s, <<>>) /\ <<>> \in Seq(Subs)
        /\ UNCHANGED <<policy, subs, shut, queue, closed, worker, cur, seen, pub, sent, joined>>
    BY <1>9 DEF Stop, busVars
  <2> QED
    BY <1>p, <1>s, <2>1 DEF TypeOK
<1>10. CASE StopClose
  <2>1. /\ closed' = [closed EXCEPT ![stopping.sub[1]] = TRUE]
        /\ stopping' = [stopping EXCEPT !.step = "join"] /\ stopping.step = "close"
        /\ UNCHANGED <<policy, subs, shut, queue, running, worker, cur, seen, pub, sent, joined>>
    BY <1>10 DEF StopClose, busVars
  <2>2. closed' \in [Subs -> BOOLEAN]
    BY <1>t, <2>1
  <2>3. /\ stopping'.sub \in Seq(Subs) /\ stopping'.left \in Seq(Subs) /\ stopping'.sub # <<>>
    BY <2>1 DEF TypeOK
  <2> QED
    BY <1>p, <2>1, <2>2, <2>3 DEF TypeOK
<1>11. CASE StopJoin
  <2>1. /\ joined' = joined \cup {stopping.sub[1]} /\ stopping.step = "join"
        /\ stopping' = [step |-> "next", sub |-> <<>>, left |-> stopping.left]
        /\ UNCHANGED <<policy, subs, shut, queue, closed, running, worker, cur, seen, pub, sent>>
    BY <1>11 DEF StopJoin, busVars, subVars
  <2>2. joined' \subseteq Subs
    <3>1. joined \subseteq Subs /\ stopping.sub \in Seq(Subs) /\ stopping.sub # <<>>
      BY <2>1 DEF TypeOK
    <3> QED
      BY <2>1, <3>1
  <2>3. stopping'.sub \in Seq(Subs) /\ stopping'.left \in Seq(Subs) /\ stopping'.step = "next"
    BY <2>1 DEF TypeOK
  <2> QED
    BY <1>p, <2>1, <2>2, <2>3 DEF TypeOK
<1>12. CASE Shutdown
  <2>1. /\ shut' = TRUE /\ subs' = <<>>
        /\ stopping' = [step |-> "next", sub |-> <<>>, left |-> subs]
        /\ UNCHANGED <<policy, queue, closed, running, worker, cur, seen, pub, sent, joined>>
    BY <1>12 DEF Shutdown, subVars
  <2>2. \A t \in Threads : PublishTypeOK(t)'
    BY <2>1, OthersKeep
  <2>3. /\ subs' \in Seq(Subs) /\ Len(subs') <= Len(Order) /\ \A i \in DOMAIN subs' : subs'[i] = Order[i]
    BY <2>1
  <2>4. stopping'.sub \in Seq(Subs) /\ stopping'.left \in Seq(Subs) /\ stopping'.step = "next"
    BY <2>1 DEF TypeOK
  <2>5. shut' \in BOOLEAN
    BY <2>1
  <2> QED
    BY <2>1, <2>2, <2>3, <2>4, <2>5 DEF TypeOK
<1>13. CASE ShutdownNext
  <2>1. UNCHANGED <<policy, subs, shut, queue, closed, worker, cur, seen, pub, sent, joined>>
    BY <1>13 DEF ShutdownNext, busVars
  <2>2. CASE stopping.left = <<>>
    <3>1. stopping' = NotStopping /\ UNCHANGED running
      BY <1>13, <2>2 DEF ShutdownNext
    <3>2. NotStopping.sub \in Seq(Subs) /\ NotStopping.left \in Seq(Subs) /\ NotStopping.step = "idle"
      BY DEF NotStopping
    <3> QED
      BY <1>p, <2>1, <3>1, <3>2 DEF TypeOK
  <2>3. CASE stopping.left # <<>>
    <3>0. stopping.left \in Seq(Subs)
      BY DEF TypeOK
    <3>1. Head(stopping.left) \in Subs /\ Tail(stopping.left) \in Seq(Subs)
      BY <2>3, <3>0
    <3>2. StopExchange(Head(stopping.left), Tail(stopping.left))
      BY <1>13, <2>3 DEF ShutdownNext
    <3> QED
      BY <1>p, <1>s, <2>1, <3>1, <3>2 DEF TypeOK
  <2> QED
    BY <2>2, <2>3
<1>14. CASE UNCHANGED vars
  <2>1. UNCHANGED <<policy, subs, shut, queue, closed, running, worker, cur, seen, pub, sent, stopping, joined>>
    BY <1>14 DEF vars, busVars, subVars, stopVars
  <2> QED
    BY <1>p, <2>1 DEF TypeOK
<1> QED
  BY <1>1, <1>2, <1>3, <1>4, <1>5, <1>6, <1>7, <1>8, <1>9, <1>10, <1>11, <1>12, <1>13, <1>14 DEF Next

(* Every variable keeps its shape, no queue outgrows its capacity, and a   *)
(* publish in progress goes on with subscriptions that differ.             *)
THEOREM BusTypeCorrect == Init /\ [][Next]_vars => []TypeOK
<1>1. Init => TypeOK
  <2> USE BusAssumption DEF BusAssumption
  <2> SUFFICES ASSUME Init PROVE TypeOK
    OBVIOUS
  <2>1. \A t \in Threads : PublishTypeOK(t)
    <3> SUFFICES ASSUME NEW t \in Threads PROVE PublishTypeOK(t)
      OBVIOUS
    <3>1. Idle \in [step : {"idle", "snapshot", "push"}, event : Seq(Events),
                    to : Seq(Subs), left : Seq(Subs)] /\ Idle.step = "idle"
      BY DEF Idle
    <3>2. pub[t] = Idle
      BY DEF Init
    <3> QED
      BY <3>1, <3>2 DEF PublishTypeOK
  <2>2. shut \in BOOLEAN /\ closed \in [Subs -> BOOLEAN] /\ running \in [Subs -> BOOLEAN]
    BY DEF Init
  <2>3. \A s \in Subs : Len(queue[s]) <= Capacity[s]
    <3> SUFFICES ASSUME NEW s \in Subs PROVE Len(queue[s]) <= Capacity[s]
      OBVIOUS
    <3>1. queue[s] = <<>> /\ Capacity[s] \in Nat
      BY DEF Init
    <3> QED
      BY <3>1
  <2>4. subs = <<>> /\ Len(subs) = 0 /\ Len(Order) \in Nat /\ policy \in Policies
    BY DEF Init
  <2>5. /\ queue \in [Subs -> Seq(Events)] /\ seen \in [Subs -> Seq(Events)]
        /\ cur \in [Subs -> Seq(Events)]
        /\ worker \in [Subs -> {"test", "pop", "handle", "publish", "done"}]
        /\ \A s \in Subs : worker[s] # "handle"
        /\ sent \in [Threads -> Nat] /\ DOMAIN pub = Threads
    BY DEF Init
  <2>6. /\ joined \subseteq Subs /\ stopping.sub \in Seq(Subs) /\ stopping.left \in Seq(Subs)
        /\ stopping.step = "idle"
    BY DEF Init, NotStopping
  <2> QED
    BY <2>1, <2>2, <2>3, <2>4, <2>5, <2>6 DEF TypeOK
<1> QED
  BY <1>1, TypeStep, PTL

-----------------------------------------------------------------------------
(* What subscribers are given. *)

(* The pairs of events that may be handled in this order. *)
Before == {r \in Events \X Events : r[1].src = r[2].src => r[1].n < r[2].n}

(* Thread t has begun its latest publish and not yet come to s. *)
Pending(t, s) ==
    pub[t].step = "snapshot" \/ (pub[t].step = "push" /\ s \in Range(pub[t].left))

(* The events of a thread are in order, no younger than its latest one,    *)
(* and the latest is not there before its push.                            *)
FlowOrder ==
    \A s \in Subs :
        /\ Ordered(InFlow(s), Before)
        /\ \A x \in Range(InFlow(s)) :
              x.n <= sent[x.src] /\ (Pending(x.src, s) => x.n < sent[x.src])

(* Whoever was given an event is on the list, until shutdown() empties it. *)
FlowListed == ~shut => \A s \in Subs : Range(InFlow(s)) # {} => s \in Range(subs)

(* What the loop over the snapshot has passed was pushed. *)
FlowPushed ==
    \A s \in Subs : policy[s] = "Block" /\ ~closed[s] =>
        \A t \in Threads : pub[t].step = "push" =>
            (Matches(s, pub[t].event[1]) /\ s \in Range(pub[t].to) \ Range(pub[t].left)
                => pub[t].event[1] \in Range(InFlow(s)))

(* From the first event of a publisher that reached s, all it wants did,   *)
(* but for the latest one: its publish may not have come to s yet, or have *)
(* found the list empty after shutdown().                                  *)
FlowNoGap ==
    \A s \in Subs : policy[s] = "Block" /\ ~closed[s] =>
        \A e \in Range(InFlow(s)) : e.src \in Publishers =>
            \A k \in e.n .. sent[e.src] : Script[e.src][k] \in Wants[s] =>
                \/ \E g \in Range(InFlow(s)) : g.src = e.src /\ g.n = k
                \/ k = sent[e.src] /\ (shut \/ Pending(e.src, s))

FlowInv == FlowOrder /\ FlowListed /\ FlowPushed /\ FlowNoGap

(* The relation on events, taken apart. *)
LEMMA BeforeIs ==
    \A x, y \in Events : /\ <<x, y>> \in Before <=> (x.src = y.src => x.n < y.n)
                         /\ x.src \in Threads /\ x.n \in Nat
BY DEF Before, Events

(* What a subscriber was given is a sequence of events. *)
LEMMA FlowIsSeq ==
    ASSUME TypeOK, NEW s \in Subs
    PROVE  InFlow(s) \in Seq(Events) /\ Range(InFlow(s)) \subseteq Events
<1>1. /\ seen[s] \in Seq(Events) /\ queue[s] \in Seq(Events) /\ cur[s] \in Seq(Events)
      /\ <<>> \in Seq(Events)
  BY DEF TypeOK
<1>2. (IF worker[s] = "handle" THEN cur[s] ELSE <<>>) \in Seq(Events)
  BY <1>1
<1>3. InFlow(s) \in Seq(Events)
  BY <1>1, <1>2, ConcatProperties DEF InFlow
<1> QED
  BY <1>3 DEF Range

(* Taking an event from the queue and handling it moves it along: what the *)
(* subscriber was given stays what it was.                                 *)
LEMMA WorkerMoves ==
    ASSUME TypeOK, NEW s \in Subs, NEW x \in Subs, WorkerTest(s) \/ WorkerPop(s) \/ WorkerHandle(s) \/ WorkerReturn(s)
    PROVE  InFlow(x)' = InFlow(x)
<1>t. /\ seen \in [Subs -> Seq(Events)] /\ queue \in [Subs -> Seq(Events)]
      /\ cur \in [Subs -> Seq(Events)] /\ DOMAIN worker = Subs
      /\ worker[s] = "handle" => Len(cur[s]) = 1
  BY DEF TypeOK
<1>1. CASE x # s
  <2>1. /\ seen'[x] = seen[x] /\ queue'[x] = queue[x] /\ worker'[x] = worker[x] /\ cur'[x] = cur[x]
    BY <1>t, <1>1 DEF WorkerTest, WorkerPop, WorkerHandle, WorkerReturn
  <2> QED
    BY <2>1 DEF InFlow
<1>2. CASE x = s /\ (WorkerTest(s) \/ WorkerReturn(s))
  <2>1. /\ worker[s] # "handle" /\ worker'[s] # "handle" /\ seen'[s] = seen[s] /\ queue'[s] = queue[s]
    BY <1>t, <1>2 DEF WorkerTest, WorkerReturn
  <2> QED
    BY <1>2, <2>1 DEF InFlow
<1>3. CASE x = s /\ WorkerPop(s)
  <2>1. CASE queue[s] # <<>>
    <3>1. /\ worker[s] # "handle" /\ worker'[s] = "handle" /\ seen'[s] = seen[s]
          /\ queue'[s] = Tail(queue[s]) /\ cur'[s] = <<Head(queue[s])>>
      BY <1>t, <1>3, <2>1 DEF WorkerPop
    <3>2. InFlow(s)' = (seen[s] \o <<Head(queue[s])>>) \o Tail(queue[s])
      BY <3>1 DEF InFlow
    <3>3. InFlow(s) = seen[s] \o queue[s]
      BY <1>t, <3>1, EmptyEnd DEF InFlow
    <3> QED
      BY <1>3, <1>t, <2>1, <3>2, <3>3, FrontMoves
  <2>2. CASE queue[s] = <<>>
    <3>1. /\ worker[s] # "handle" /\ worker'[s] # "handle" /\ seen'[s] = seen[s] /\ queue'[s] = queue[s]
      BY <1>t, <1>3, <2>2 DEF WorkerPop
    <3> QED
      BY <1>3, <3>1 DEF InFlow
  <2> QED
    BY <2>1, <2>2
<1>4. CASE x = s /\ WorkerHandle(s)
  <2>1. /\ worker[s] = "handle" /\ worker'[s] # "handle" /\ seen'[s] = Append(seen[s], cur[s][1])
        /\ queue'[s] = queue[s]
    BY <1>t, <1>4 DEF WorkerHandle
  <2>a. seen[s] \in Seq(Events) /\ cur[s] \in Seq(Events) /\ Len(cur[s]) = 1
    BY <1>t, <2>1
  <2>2. seen[s] \o cur[s] = Append(seen[s], cur[s][1])
    BY <2>a, SingleEnd
  <2>3. Append(seen[s], cur[s][1]) \in Seq(Events)
    BY <2>a
  <2> QED
    BY <1>4, <2>1, <2>2, <2>3, EmptyEnd DEF InFlow
<1> QED
  BY <1>1, <1>2, <1>3, <1>4

(* One more event behind what a subscription has taken and what is queued. *)
LEMMA OneMoreEvent ==
    ASSUME NEW b \in Seq(Events), NEW q \in Seq(Events), NEW e \in Events,
           Ordered(b \o q, Before), \A x \in Range(b \o q) : <<x, e>> \in Before
    PROVE  /\ Ordered(b \o Append(q, e), Before)
           /\ Range(b \o Append(q, e)) = Range(b \o q) \cup {e}
           /\ q # <<>> => /\ Ordered(b \o Append(Tail(q), e), Before)
                          /\ Range(b \o Append(Tail(q), e)) \subseteq Range(b \o q) \cup {e}
<1>1. /\ Ordered(b \o Append(q, e), Before)
      /\ Range(b \o Append(q, e)) = Range(b \o q) \cup {e}
  BY OneMore
<1>2. q # <<>> => /\ Ordered(b \o Append(Tail(q), e), Before)
                  /\ Range(b \o Append(Tail(q), e)) \subseteq Range(b \o q) \cup {e}
  BY OneMore, Zenon
<1> QED
  BY <1>1, <1>2

(* What the push of event e to the first subscription left does to what    *)
(* that subscription was given.                                            *)
LEMMA PushMoves ==
    ASSUME TypeOK, FlowInv, NEW t \in Threads, PublishPush(t),
           NEW s, s = Head(pub[t].left), NEW e, e = pub[t].event[1]
    PROVE  /\ s \in Subs /\ e \in Events /\ e.src = t /\ e.n = sent[t]
           /\ s \in Range(pub[t].left)
           /\ \A x \in Subs : x # s => InFlow(x)' = InFlow(x)
           /\ Ordered(InFlow(s)', Before)
           /\ Range(InFlow(s)') \subseteq Range(InFlow(s)) \cup {e}
           /\ policy[s] = "Block" /\ ~closed[s] =>
                 /\ Range(InFlow(s)) \subseteq Range(InFlow(s)')
                 /\ Matches(s, e) => e \in Range(InFlow(s)')
<1>1. /\ PublishTypeOK(t) /\ pub[t].step = "push" /\ queue \in [Subs -> Seq(Events)]
      /\ seen \in [Subs -> Seq(Events)] /\ cur \in [Subs -> Seq(Events)]
  BY DEF TypeOK, PublishPush
<1>2. /\ pub[t].left \in Seq(Subs) /\ pub[t].left # <<>>
      /\ pub[t].event \in Seq(Events) /\ pub[t].event # <<>>
  BY <1>1 DEF PublishTypeOK
<1>3. s \in Subs /\ e \in Events
  BY <1>2
<1>4. e.src = t /\ e.n = sent[t]
  BY <1>1 DEF PublishTypeOK
<1>5. s \in Range(pub[t].left)
  BY <1>2, TailElems
<1>6. /\ queue' = IF Matches(s, e) THEN [queue EXCEPT ![s] = Pushed(s, e)] ELSE queue
      /\ Matches(s, e) => ~PushBlocked(s)
      /\ UNCHANGED <<seen, cur, worker>>
  BY DEF PublishPush
<1>7. \A x \in Subs : x # s => InFlow(x)' = InFlow(x)
  BY <1>1, <1>6 DEF InFlow
<1> DEFINE b == seen[s] \o (IF worker[s] = "handle" THEN cur[s] ELSE <<>>)
<1>8. b \in Seq(Events) /\ queue[s] \in Seq(Events) /\ InFlow(s) = b \o queue[s]
  <2>1. /\ seen[s] \in Seq(Events) /\ (IF worker[s] = "handle" THEN cur[s] ELSE <<>>) \in Seq(Events)
    BY <1>1, <1>3
  <2>2. b \in Seq(Events)
    BY <2>1, ConcatProperties
  <2> QED
    BY <1>1, <1>3, <2>2 DEF InFlow
<1>9. InFlow(s)' = b \o queue'[s]
  BY <1>6 DEF InFlow
<1> HIDE DEF b
<1>10. \A x \in Range(InFlow(s)) : x \in Events /\ <<x, e>> \in Before
  <2>1. Pending(t, s)
    BY <1>1, <1>5 DEF Pending
  <2>2. ASSUME NEW x \in Range(InFlow(s)) PROVE x \in Events /\ <<x, e>> \in Before
    <3>1. x \in Events
      BY <1>3, FlowIsSeq
    <3>2. x.src = t => x.n < sent[t]
      BY <1>3, <2>1 DEF FlowInv, FlowOrder
    <3> QED
      BY <1>3, <1>4, <3>1, <3>2, BeforeIs
  <2> QED
    BY <2>2
<1>o. Ordered(InFlow(s), Before) /\ InFlow(s) \in Seq(Events)
  BY <1>3, FlowIsSeq DEF FlowInv, FlowOrder
<1>11. CASE queue'[s] = queue[s] /\ ~(policy[s] = "Block" /\ ~closed[s] /\ Matches(s, e))
  BY <1>3, <1>4, <1>5, <1>7, <1>8, <1>9, <1>11, <1>o
<1>r. /\ Ordered(b \o Append(queue[s], e), Before)
      /\ Range(b \o Append(queue[s], e)) = Range(InFlow(s)) \cup {e}
      /\ queue[s] # <<>> =>
            /\ Ordered(b \o Append(Tail(queue[s]), e), Before)
            /\ Range(b \o Append(Tail(queue[s]), e)) \subseteq Range(InFlow(s)) \cup {e}
  <2> DEFINE q == queue[s]
  <2>1. /\ q \in Seq(Events) /\ Ordered(b \o q, Before) /\ InFlow(s) = b \o q
        /\ \A x \in Range(b \o q) : <<x, e>> \in Before
    BY <1>8, <1>10, <1>o
  <2> HIDE DEF q
  <2>2. /\ Ordered(b \o Append(q, e), Before)
        /\ Range(b \o Append(q, e)) = Range(b \o q) \cup {e}
        /\ q # <<>> => /\ Ordered(b \o Append(Tail(q), e), Before)
                       /\ Range(b \o Append(Tail(q), e)) \subseteq Range(b \o q) \cup {e}
    <3>1. b \in Seq(Events) /\ q \in Seq(Events) /\ e \in Events
      BY <1>3, <1>8, <2>1
    <3>2. Ordered(b \o q, Before) /\ \A x \in Range(b \o q) : <<x, e>> \in Before
      BY <2>1, SMTT(60)
    <3> QED
      BY <3>1, <3>2, OneMoreEvent
  <2> QED
    BY <2>1, <2>2 DEF q
<1>12. CASE queue'[s] = Append(queue[s], e)
  BY <1>3, <1>4, <1>5, <1>7, <1>9, <1>12, <1>r
<1>13. CASE queue[s] # <<>> /\ policy[s] = "DropOldest" /\ queue'[s] = Append(Tail(queue[s]), e)
  BY <1>3, <1>4, <1>5, <1>7, <1>9, <1>13, <1>r
<1> QED
  <2>1. CASE ~Matches(s, e)
    BY <1>6, <1>11, <2>1
  <2>2. CASE Matches(s, e)
    <3>1. queue'[s] = Pushed(s, e) /\ ~PushBlocked(s)
      BY <1>1, <1>3, <1>6, <2>2
    <3>2. CASE closed[s]
      BY <1>11, <3>1, <3>2 DEF Pushed
    <3>3. CASE ~closed[s] /\ ~Full(s)
      BY <1>12, <3>1, <3>3, SMTT(60) DEF Pushed
    <3>4. CASE ~closed[s] /\ Full(s) /\ policy[s] = "DropOldest"
      <4>1. queue[s] # <<>>
        <5>1. Capacity[s] \in Nat \ {0} /\ Len(queue[s]) >= Capacity[s]
          BY <1>3, <3>4, BusAssumption DEF Full, BusAssumption
        <5> QED
          BY <1>8, <5>1
      <4> QED
        BY <1>13, <3>1, <3>4, <4>1 DEF Pushed
    <3>5. CASE ~closed[s] /\ Full(s) /\ policy[s] # "DropOldest"
      BY <1>11, <3>1, <3>5 DEF Pushed, PushBlocked
    <3> QED
      BY <3>2, <3>3, <3>4, <3>5
  <2> QED
    BY <2>1, <2>2

-----------------------------------------------------------------------------
(* A step that neither gives nor publishes anything. *)
LEMMA QuietKeeps ==
    ASSUME TypeOK, FlowInv, \A s \in Subs : InFlow(s)' = InFlow(s),
           UNCHANGED <<pub, sent, policy>>, \A s \in Subs : ~closed'[s] => ~closed[s],
           shut' \/ (shut' = shut /\ Range(subs) \subseteq Range(subs'))
    PROVE  FlowInv'
<1>0. \A t, s : Pending(t, s)' <=> Pending(t, s)
  BY DEF Pending
<1>1. FlowOrder'
  BY <1>0 DEF FlowInv, FlowOrder
<1>2. FlowListed'
  BY DEF FlowInv, FlowListed
<1>3. FlowPushed'
  BY DEF FlowInv, FlowPushed, Matches
<1>4. FlowNoGap'
  BY <1>0 DEF FlowInv, FlowNoGap
<1> QED
  BY <1>1, <1>2, <1>3, <1>4 DEF FlowInv

(* A publish begins. *)
LEMMA BeginKeeps ==
    ASSUME TypeOK, FlowInv, NEW t \in Threads, NEW type, PublishBegin(t, type),
           \A s \in Subs : InFlow(s)' = InFlow(s), UNCHANGED <<policy, closed, subs, shut>>
    PROVE  FlowInv'
<1>1. CASE shut
  <2>1. UNCHANGED <<pub, sent>>
    BY <1>1 DEF PublishBegin
  <2> QED
    BY <2>1, QuietKeeps
<1>2. CASE ~shut
  <2>t. sent \in [Threads -> Nat] /\ DOMAIN pub = Threads
    BY DEF TypeOK
  <2>1. /\ sent'[t] = sent[t] + 1 /\ sent[t] \in Nat /\ sent[t] \in Int
        /\ \A r \in Threads : r # t => sent'[r] = sent[r] /\ pub'[r] = pub[r]
        /\ pub[t].step = "idle" /\ pub'[t].step = "snapshot"
    BY <1>2, <2>t DEF PublishBegin, Idle
  <2>2. /\ \A s : Pending(t, s)' /\ ~Pending(t, s)
        /\ \A r \in Threads, s \in Subs : r # t => (Pending(r, s)' <=> Pending(r, s))
    BY <2>1 DEF Pending
  <2>3. ASSUME NEW s \in Subs, NEW x \in Range(InFlow(s))
        PROVE  /\ x.src \in Threads /\ x.n \in Nat
               /\ x.n <= sent[x.src] /\ (Pending(x.src, s) => x.n < sent[x.src])
               /\ sent[x.src] \in Nat
    <3>1. x \in Events
      BY FlowIsSeq
    <3> QED
      BY <2>t, <3>1, BeforeIs DEF FlowInv, FlowOrder
  <2>4. FlowOrder'
    <3>1. ASSUME NEW s \in Subs, NEW x \in Range(InFlow(s))
          PROVE  x.n <= sent'[x.src] /\ (Pending(x.src, s)' => x.n < sent'[x.src])
      <4>1. CASE x.src = t
        <5>1. x.n < sent[t] + 1 /\ x.n <= sent[t] + 1
          BY <2>1, <2>3, <4>1
        <5> QED
          BY <2>1, <4>1, <5>1
      <4>2. CASE x.src # t
        BY <2>1, <2>2, <2>3, <4>2
      <4> QED
        BY <4>1, <4>2
    <3> QED
      BY <3>1 DEF FlowInv, FlowOrder
  <2>5. FlowListed'
    BY DEF FlowInv, FlowListed
  <2>6. FlowPushed'
    BY <2>1 DEF FlowInv, FlowPushed, Matches
  <2>7. FlowNoGap'
    <3> SUFFICES ASSUME NEW s \in Subs, policy[s] = "Block", ~closed[s],
                        NEW e \in Range(InFlow(s)), e.src \in Publishers,
                        NEW k \in e.n .. sent'[e.src], Script[e.src][k] \in Wants[s]
                 PROVE  \/ \E g \in Range(InFlow(s)) : g.src = e.src /\ g.n = k
                        \/ k = sent'[e.src] /\ Pending(e.src, s)'
      BY DEF FlowNoGap
    <3>1. CASE e.src # t
      BY <1>2, <2>1, <2>2, <2>3, <3>1 DEF FlowInv, FlowNoGap
    <3>2. CASE e.src = t /\ k = sent'[t]
      BY <2>2, <3>2
    <3>3. CASE e.src = t /\ k # sent'[t]
      <4>1. k \in e.n .. sent[t]
        BY <2>1, <2>3, <3>3
      <4> QED
        BY <1>2, <2>2, <3>3, <4>1 DEF FlowInv, FlowNoGap
    <3> QED
      BY <3>1, <3>2, <3>3
  <2> QED
    BY <2>4, <2>5, <2>6, <2>7 DEF FlowInv
<1> QED
  BY <1>1, <1>2

(* The copy of the subscription list. *)
LEMMA SnapshotKeeps ==
    ASSUME TypeOK, FlowInv, NEW t \in Threads, PublishSnapshot(t)
    PROVE  FlowInv'
<1>t. DOMAIN pub = Threads /\ PublishTypeOK(t)
  BY DEF TypeOK
<1>1. /\ UNCHANGED <<policy, subs, shut, queue, closed, worker, cur, seen, sent>>
      /\ pub[t].step = "snapshot"
      /\ \A r \in Threads : r # t => pub'[r] = pub[r]
  BY <1>t DEF PublishSnapshot, busVars, subVars
<1>2. \/ subs = <<>> /\ pub'[t].step = "idle"
      \/ subs # <<>> /\ pub'[t].step = "push" /\ pub'[t].left = subs /\ pub'[t].to = subs
  <2>1. CASE subs = <<>>
    BY <1>t, <2>1 DEF PublishSnapshot, Idle
  <2>2. CASE subs # <<>>
    <3>1. pub'[t] = [pub[t] EXCEPT !.step = "push", !.to = subs, !.left = subs]
      BY <1>t, <2>2 DEF PublishSnapshot
    <3> QED
      BY <1>t, <2>2, <3>1 DEF PublishTypeOK
  <2> QED
    BY <2>1, <2>2
<1>3. \A s \in Subs : InFlow(s)' = InFlow(s)
  BY <1>1 DEF InFlow
<1>4. /\ \A s : Pending(t, s)
      /\ \A r \in Threads, s \in Subs : r # t => (Pending(r, s)' <=> Pending(r, s))
  BY <1>1 DEF Pending
<1>5. \A s \in Subs : \A x \in Range(InFlow(s)) : x.src \in Threads
  BY FlowIsSeq, BeforeIs
<1>6. FlowOrder'
  BY <1>1, <1>3, <1>4, <1>5 DEF FlowInv, FlowOrder
<1>7. FlowListed'
  BY <1>1, <1>3 DEF FlowInv, FlowListed
<1>8. FlowPushed'
  BY <1>1, <1>2, <1>3 DEF FlowInv, FlowPushed, Matches
<1>9. FlowNoGap'
  <2> SUFFICES ASSUME NEW s \in Subs, policy[s] = "Block", ~closed[s],
                      NEW e \in Range(InFlow(s)), e.src \in Publishers,
                      NEW k \in e.n .. sent[e.src], Script[e.src][k] \in Wants[s]
               PROVE  \/ \E g \in Range(InFlow(s)) : g.src = e.src /\ g.n = k
                      \/ k = sent[e.src] /\ (shut \/ Pending(e.src, s)')
    BY <1>1, <1>3 DEF FlowNoGap
  <2>1. \/ \E g \in Range(InFlow(s)) : g.src = e.src /\ g.n = k
        \/ k = sent[e.src] /\ (shut \/ Pending(e.src, s))
    BY DEF FlowInv, FlowNoGap
  <2>2. CASE e.src # t
    BY <1>4, <1>5, <2>1, <2>2
  <2>3. CASE e.src = t /\ ~shut
    <3>1. s \in Range(subs)
      BY <2>3 DEF FlowInv, FlowListed
    <3>2. subs # <<>>
      BY <3>1 DEF Range
    <3>3. Pending(t, s)'
      BY <1>2, <3>1, <3>2 DEF Pending
    <3> QED
      BY <2>1, <2>3, <3>3
  <2> QED
    BY <2>1, <2>2, <2>3
<1> QED
  BY <1>6, <1>7, <1>8, <1>9 DEF FlowInv

(* A push into one queue of the snapshot. *)
LEMMA PushKeeps ==
    ASSUME TypeOK, FlowInv, NEW t \in Threads, PublishPush(t)
    PROVE  FlowInv'
<1> SUFFICES ASSUME NEW s, s = Head(pub[t].left), NEW e, e = pub[t].event[1]
             PROVE  FlowInv'
  OBVIOUS
<1>1. /\ s \in Subs /\ e \in Events /\ e.src = t /\ e.n = sent[t]
      /\ s \in Range(pub[t].left)
      /\ \A x \in Subs : x # s => InFlow(x)' = InFlow(x)
      /\ Ordered(InFlow(s)', Before)
      /\ Range(InFlow(s)') \subseteq Range(InFlow(s)) \cup {e}
      /\ policy[s] = "Block" /\ ~closed[s] =>
            /\ Range(InFlow(s)) \subseteq Range(InFlow(s)')
            /\ Matches(s, e) => e \in Range(InFlow(s)')
  BY PushMoves
<1>2. /\ UNCHANGED <<policy, subs, shut, closed, sent>> /\ pub[t].step = "push"
      /\ DOMAIN pub = Threads /\ PublishTypeOK(t) /\ sent \in [Threads -> Nat]
  BY DEF PublishPush, TypeOK, busVars
<1>3. \A r \in Threads : r # t => pub'[r] = pub[r]
  BY <1>2 DEF PublishPush
<1> DEFINE l == Tail(pub[t].left)
<1>4. /\ pub[t].left \in Seq(Subs) /\ pub[t].left # <<>> /\ IsInjective(pub[t].left)
      /\ pub[t] \in [step : {"idle", "snapshot", "push"}, event : Seq(Events),
                     to : Seq(Subs), left : Seq(Subs)]
  BY <1>2 DEF PublishTypeOK
<1>5. /\ l \in Seq(Subs) /\ Range(pub[t].left) = {s} \cup Range(l)
  BY <1>4, TailElems
<1>6. s \notin Range(l)
  <2> SUFFICES ASSUME s \in Range(l) PROVE FALSE
    OBVIOUS
  <2>1. /\ Len(pub[t].left) \in Nat /\ DOMAIN pub[t].left = 1 .. Len(pub[t].left)
        /\ DOMAIN l = 1 .. Len(pub[t].left) - 1 /\ s = pub[t].left[1]
        /\ \A i \in 1 .. Len(pub[t].left) - 1 : l[i] = pub[t].left[i + 1]
    BY <1>4
  <2>2. PICK i \in DOMAIN l : l[i] = s
    BY DEF Range
  <2>3. /\ i \in Int /\ i + 1 # 1 /\ i + 1 \in DOMAIN pub[t].left /\ 1 \in DOMAIN pub[t].left
        /\ pub[t].left[i + 1] = s
    BY <2>1, <2>2
  <2> QED
    BY <1>4, <2>1, <2>3 DEF IsInjective
<1>7. \/ l = <<>> /\ pub'[t].step = "idle"
      \/ l # <<>> /\ pub'[t].step = "push" /\ pub'[t].left = l /\ pub'[t].event = pub[t].event
         /\ pub'[t].to = pub[t].to
  <2>1. CASE l = <<>>
    BY <1>2, <2>1 DEF PublishPush, Idle
  <2>2. CASE l # <<>>
    <3>1. pub'[t] = [pub[t] EXCEPT !.left = l]
      BY <1>2, <2>2 DEF PublishPush
    <3> QED
      BY <1>2, <1>4, <2>2, <3>1
  <2> QED
    BY <2>1, <2>2
<1>8. l = <<>> => Range(l) = {}
  BY DEF Range
<1> HIDE DEF l
<1>9. /\ \A x : Pending(t, x) <=> x = s \/ x \in Range(l)
      /\ \A x : Pending(t, x)' <=> x \in Range(l)
      /\ \A r \in Threads : \A x : r # t => (Pending(r, x)' <=> Pending(r, x))
  BY <1>2, <1>3, <1>5, <1>7, <1>8 DEF Pending
<1>10. \A x \in Subs : \A y \in Range(InFlow(x)) : y.src \in Threads /\ y.n \in Nat
  BY FlowIsSeq, BeforeIs
<1>11. FlowOrder'
  <2>1. ASSUME NEW x \in Subs, NEW y \in Range(InFlow(x)')
        PROVE  y.n <= sent[y.src] /\ (Pending(y.src, x)' => y.n < sent[y.src])
    <3>1. CASE y \in Range(InFlow(x))
      BY <1>9, <1>10, <3>1 DEF FlowInv, FlowOrder
    <3>2. CASE y \notin Range(InFlow(x))
      <4>1. x = s /\ y = e
        BY <1>1, <2>1, <3>2
      <4>2. ~Pending(t, s)'
        BY <1>6, <1>9
      <4> QED
        BY <1>1, <1>2, <4>1, <4>2
    <3> QED
      BY <3>1, <3>2
  <2>2. \A x \in Subs : Ordered(InFlow(x)', Before)
    BY <1>1 DEF FlowInv, FlowOrder
  <2> QED
    BY <1>2, <2>1, <2>2 DEF FlowOrder
<1>12. FlowListed'
  <2>1. ~shut => s \in Range(subs)
    BY <1>1, <1>2 DEF PublishTypeOK
  <2> QED
    BY <1>1, <1>2, <2>1 DEF FlowInv, FlowListed
<1>13. FlowPushed'
  <2> SUFFICES ASSUME NEW x \in Subs, policy[x] = "Block", ~closed[x], NEW r \in Threads,
                      pub'[r].step = "push", Matches(x, pub'[r].event[1]),
                      x \in Range(pub'[r].to), x \notin Range(pub'[r].left)
               PROVE  pub'[r].event[1] \in Range(InFlow(x)')
    BY <1>2 DEF FlowPushed, Matches
  <2>1. Range(InFlow(x)) \subseteq Range(InFlow(x)')
    BY <1>1
  <2>2. CASE r # t
    BY <1>3, <2>1, <2>2 DEF FlowInv, FlowPushed
  <2>3. CASE r = t /\ x = s
    BY <1>1, <1>7, <2>3
  <2>4. CASE r = t /\ x # s
    BY <1>2, <1>5, <1>7, <2>1, <2>4 DEF FlowInv, FlowPushed
  <2> QED
    BY <2>2, <2>3, <2>4
<1>14. FlowNoGap'
  <2> SUFFICES ASSUME NEW x \in Subs, policy[x] = "Block", ~closed[x],
                      NEW y \in Range(InFlow(x)'), y.src \in Publishers,
                      NEW k \in y.n .. sent[y.src], Script[y.src][k] \in Wants[x]
               PROVE  \/ \E g \in Range(InFlow(x)') : g.src = y.src /\ g.n = k
                      \/ k = sent[y.src] /\ (shut \/ Pending(y.src, x)')
    BY <1>2 DEF FlowNoGap
  <2>1. Range(InFlow(x)) \subseteq Range(InFlow(x)')
    BY <1>1
  <2>2. CASE y \in Range(InFlow(x))
    <3>1. \/ \E g \in Range(InFlow(x)) : g.src = y.src /\ g.n = k
          \/ k = sent[y.src] /\ (shut \/ Pending(y.src, x))
      BY <2>2 DEF FlowInv, FlowNoGap
    <3>2. CASE y.src # t \/ x # s
      BY <1>9, <1>10, <2>1, <2>2, <3>1, <3>2
    <3>3. CASE y.src = t /\ x = s /\ k = sent[t]
      <4>1. e.type = Script[t][k]
        BY <1>2, <3>3 DEF PublishTypeOK
      <4>2. e \in Range(InFlow(s)')
        BY <1>1, <3>3, <4>1 DEF Matches
      <4> QED
        BY <1>1, <3>3, <4>2
    <3> QED
      BY <2>1, <3>1, <3>2, <3>3
  <2>3. CASE y \notin Range(InFlow(x))
    <3>1. x = s /\ y = e
      BY <1>1, <2>3
    <3>2. k = e.n
      <4>1. sent[t] \in Nat /\ k \in sent[t] .. sent[t]
        BY <1>1, <1>2, <3>1
      <4> QED
        BY <1>1, <4>1
    <3> QED
      BY <3>1, <3>2
  <2> QED
    BY <2>2, <2>3
<1> QED
  BY <1>11, <1>12, <1>13, <1>14 DEF FlowInv

(* One step keeps the invariant. *)
LEMMA FlowStep == TypeOK /\ FlowInv /\ [Next]_vars => FlowInv'
<1> SUFFICES ASSUME TypeOK, FlowInv, [Next]_vars PROVE FlowInv'
  OBVIOUS
<1> DEFINE SameFlows == \A s \in Subs : InFlow(s)' = InFlow(s)
<1>f. UNCHANGED <<queue, seen, cur, worker>> => SameFlows
  BY DEF InFlow
<1>1. CASE Subscribe
  <2>1. /\ subs' = Append(subs, Order[Len(subs) + 1]) /\ Len(subs) < Len(Order)
        /\ UNCHANGED <<policy, shut, queue, closed, worker, cur, seen, pub, sent>>
    BY <1>1 DEF Subscribe, subVars
  <2>2. subs \in Seq(Subs) /\ Order[Len(subs) + 1] \in Subs
    <3>1. subs \in Seq(Subs) /\ Order \in Seq(Subs)
      BY BusAssumption DEF BusAssumption, TypeOK
    <3> QED
      BY <2>1, <3>1
  <2>3. Range(subs) \subseteq Range(subs')
    BY <2>1, <2>2, AppendElems
  <2> QED
    BY <1>f, <2>1, <2>3, QuietKeeps
<1>2. ASSUME NEW t \in Publishers, Publish(t) PROVE FlowInv'
  <2>1. /\ t \in Threads /\ PublishBegin(t, Script[t][sent[t] + 1])
        /\ UNCHANGED <<policy, subs, shut, queue, closed, worker, cur, seen>>
    BY <1>2 DEF Publish, Threads, busVars, subVars
  <2> QED
    BY <1>f, <2>1, BeginKeeps
<1>3. ASSUME NEW t \in Threads, PublishSnapshot(t) PROVE FlowInv'
  BY <1>3, SnapshotKeeps
<1>4. ASSUME NEW t \in Threads, PublishPush(t) PROVE FlowInv'
  BY <1>4, PushKeeps
<1>5. ASSUME NEW s \in Subs, WorkerTest(s) \/ WorkerPop(s) \/ WorkerReturn(s) PROVE FlowInv'
  <2>1. UNCHANGED <<policy, subs, shut, closed, pub, sent>>
    BY <1>5 DEF WorkerTest, WorkerPop, WorkerReturn, busVars
  <2>2. SameFlows
    BY <1>5, WorkerMoves
  <2> QED
    BY <2>1, <2>2, QuietKeeps
<1>6. ASSUME NEW s \in Subs, WorkerHandle(s) PROVE FlowInv'
  <2>1. UNCHANGED <<policy, subs, shut, closed>>
    BY <1>6 DEF WorkerHandle, busVars
  <2>2. SameFlows
    BY <1>6, WorkerMoves
  <2>3. CASE cur[s][1].type \in DOMAIN Reaction[s]
    <3>1. s \in Threads /\ PublishBegin(s, Reaction[s][cur[s][1].type])
      BY <1>6, <2>3 DEF WorkerHandle, Threads
    <3> QED
      BY <2>1, <2>2, <3>1, BeginKeeps
  <2>4. CASE cur[s][1].type \notin DOMAIN Reaction[s]
    <3>1. UNCHANGED <<pub, sent>>
      BY <1>6, <2>4 DEF WorkerHandle
    <3> QED
      BY <2>1, <2>2, <3>1, QuietKeeps
  <2> QED
    BY <2>3, <2>4
<1>7. CASE (\E s \in Subs : Stop(s)) \/ StopJoin \/ ShutdownNext \/ UNCHANGED vars
  <2>1. UNCHANGED <<policy, subs, shut, queue, closed, worker, cur, seen, pub, sent>>
    BY <1>7 DEF Stop, StopJoin, ShutdownNext, vars, busVars, subVars
  <2> QED
    BY <1>f, <2>1, QuietKeeps
<1>8. CASE StopClose
  <2>1. /\ UNCHANGED <<policy, subs, shut, queue, worker, cur, seen, pub, sent>>
        /\ closed' = [closed EXCEPT ![stopping.sub[1]] = TRUE]
    BY <1>8 DEF StopClose, busVars
  <2>2. \A s \in Subs : ~closed'[s] => ~closed[s]
    BY <2>1 DEF TypeOK
  <2> QED
    BY <1>f, <2>1, <2>2, QuietKeeps
<1>9. CASE Shutdown
  <2>1. UNCHANGED <<policy, queue, closed, worker, cur, seen, pub, sent>> /\ shut'
    BY <1>9 DEF Shutdown, subVars
  <2> QED
    BY <1>f, <2>1, QuietKeeps
<1> QED
  BY <1>1, <1>2, <1>3, <1>4, <1>5, <1>6, <1>7, <1>8, <1>9 DEF Next

(* The invariant says what was promised to the subscribers. *)
LEMMA FlowDelivers == TypeOK /\ FlowInv => DeliveredAsPublished
<1> SUFFICES ASSUME TypeOK, FlowInv PROVE DeliveredAsPublished
  OBVIOUS
<1>1. PublisherOrder
  <2> SUFFICES ASSUME NEW s \in Subs, NEW i \in DOMAIN InFlow(s), NEW j \in DOMAIN InFlow(s), i < j,
                      InFlow(s)[i].src = InFlow(s)[j].src
               PROVE  InFlow(s)[i].n < InFlow(s)[j].n
    BY DEF PublisherOrder
  <2>1. InFlow(s)[i] \in Events /\ InFlow(s)[j] \in Events
    BY FlowIsSeq DEF Range
  <2>2. <<InFlow(s)[i], InFlow(s)[j]>> \in Before
    BY DEF FlowInv, FlowOrder, Ordered
  <2> QED
    BY <2>1, <2>2, BeforeIs
<1>2. BlockLosesNothing
  <2> SUFFICES ASSUME NEW s \in Subs, policy[s] = "Block", ~closed[s]
               PROVE  /\ \A t \in Threads : pub[t].step = "push" =>
                           (Matches(s, pub[t].event[1]) /\ s \in Range(pub[t].to) \ Range(pub[t].left)
                               => pub[t].event[1] \in Range(InFlow(s)))
                      /\ \A e, f \in Range(InFlow(s)) : e.src = f.src /\ e.src \in Publishers =>
                           \A k \in e.n .. f.n : Script[e.src][k] \in Wants[s]
                               => \E g \in Range(InFlow(s)) : g.src = e.src /\ g.n = k
    BY DEF BlockLosesNothing
  <2>1. ASSUME NEW e \in Range(InFlow(s)), NEW f \in Range(InFlow(s)), e.src = f.src,
               e.src \in Publishers, NEW k \in e.n .. f.n, Script[e.src][k] \in Wants[s]
        PROVE  \E g \in Range(InFlow(s)) : g.src = e.src /\ g.n = k
    <3>1. /\ e \in Events /\ f \in Events /\ f.n <= sent[f.src]
      BY FlowIsSeq DEF FlowInv, FlowOrder
    <3>2. e.n \in Nat /\ f.n \in Nat /\ sent[e.src] \in Nat
      BY <3>1, BeforeIs DEF TypeOK
    <3>3. k \in e.n .. sent[e.src] /\ k \in Int
      BY <2>1, <3>1, <3>2
    <3>4. \/ \E g \in Range(InFlow(s)) : g.src = e.src /\ g.n = k
          \/ k = sent[e.src]
      BY <2>1, <3>3 DEF FlowInv, FlowNoGap
    <3>5. k = sent[e.src] => k = f.n
      BY <2>1, <3>1, <3>2, <3>3
    <3> QED
      BY <2>1, <3>4, <3>5
  <2> QED
    BY <2>1 DEF FlowInv, FlowPushed
<1> QED
  BY <1>1, <1>2 DEF DeliveredAsPublished

(* However many threads publish, and whatever handlers publish themselves: *)
(* every subscriber handles the events of a thread in the order of its     *)
(* publishes, and an open Block subscriber misses none in between.         *)
THEOREM BusDelivers == Init /\ [][Next]_vars => []DeliveredAsPublished
<1>1. Init => FlowInv
  <2> SUFFICES ASSUME Init PROVE FlowInv
    OBVIOUS
  <2>1. \A s \in Subs : InFlow(s) = <<>>
    <3>1. ASSUME NEW s \in Subs PROVE InFlow(s) = <<>>
      <4>1. seen[s] = <<>> /\ queue[s] = <<>> /\ worker[s] # "handle"
        BY DEF Init
      <4> QED
        BY <4>1 DEF InFlow
    <3> QED
      BY <3>1
  <2>2. \A s \in Subs : Range(InFlow(s)) = {} /\ Ordered(InFlow(s), Before)
    BY <2>1 DEF Range, Ordered
  <2>3. \A t \in Threads : pub[t].step = "idle"
    BY DEF Init, Idle
  <2> QED
    BY <2>2, <2>3 DEF FlowInv, FlowOrder, FlowListed, FlowPushed, FlowNoGap
<1> QED
  BY <1>1, FlowStep, FlowDelivers, BusTypeCorrect, PTL

(* Once stop() has returned no handler of the subscription runs: its       *)
(* worker was joined and a worker that is done takes no step.              *)
THEOREM StoppedIsSilent == Init /\ [][Next]_vars => []NoHandlerAfterStop
<1>1. Init => NoHandlerAfterStop
  BY DEF Init, NoHandlerAfterStop
<1>2. TypeOK /\ NoHandlerAfterStop /\ [Next]_vars => NoHandlerAfterStop'
  <2> SUFFICES ASSUME TypeOK, NoHandlerAfterStop, [Next]_vars PROVE NoHandlerAfterStop'
    OBVIOUS
  <2>t. DOMAIN worker = Subs /\ joined \subseteq Subs
    BY DEF TypeOK
  <2>1. CASE StopJoin
    BY <2>1 DEF StopJoin, NoHandlerAfterStop, subVars
  <2>2. ASSUME NEW s \in Subs, WorkerTest(s) \/ WorkerPop(s) \/ WorkerHandle(s) \/ WorkerReturn(s)
        PROVE  NoHandlerAfterStop'
    <3>1. /\ worker[s] # "done" /\ joined' = joined
          /\ \A x \in Subs : x # s => worker'[x] = worker[x]
      BY <2>2, <2>t DEF WorkerTest, WorkerPop, WorkerHandle, WorkerReturn, stopVars
    <3> QED
      BY <2>t, <3>1 DEF NoHandlerAfterStop
  <2>3. CASE \/ Subscribe \/ (\E t \in Publishers : Publish(t))
             \/ (\E t \in Threads : PublishSnapshot(t) \/ PublishPush(t))
             \/ (\E s \in Subs : Stop(s)) \/ StopClose \/ Shutdown \/ ShutdownNext \/ UNCHANGED vars
    <3>1. UNCHANGED <<worker, joined>>
      BY <2>3 DEF Subscribe, Publish, PublishSnapshot, PublishPush, Stop, StopClose, Shutdown,
                  ShutdownNext, vars, busVars, subVars, stopVars
    <3> QED
      BY <3>1, SMTT(60) DEF NoHandlerAfterStop
  <2> QED
    BY <2>1, <2>2, <2>3 DEF Next
<1> QED
  BY <1>1, <1>2, BusTypeCorrect, PTL
=============================================================================
