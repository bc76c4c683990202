------------------------------ MODULE EventBus ------------------------------
(***************************************************************************)
(* The publish/subscribe bus of event/bus.{hpp,cpp}.                       *)
(*                                                                         *)
(* A subscription is a BoundedQueue and a worker thread.  A publisher      *)
(* takes a snapshot of the subscription list and then pushes into one      *)
(* queue after the other, so a publish is many steps, other publishes run  *)
(* between them, and a full Block queue stops the publisher half way.      *)
(* Handlers run on the subscription's worker and may publish themselves.   *)
(* The queue is used through its interface (see BoundedQueue): a push is   *)
(* one step that is disabled while it would wait.                          *)
(*                                                                         *)
(* An event is [src, n, type]: the n-th event published by thread src.     *)
(***************************************************************************)
EXTENDS Integers, Sequences, FiniteSets, Functions

CONSTANTS
    Subs,        \* the subscriptions
    Order,       \* Order: a sequence, the order in which they are registered
    Capacity,    \* Capacity[s]: opts.queue_capacity
    Policies,    \* the ways opts.policy may be chosen: functions of the subscription
    Wants,       \* Wants[s]: the event types that match target()
    Publishers,  \* threads other than workers that publish
    Script,      \* Script[t]: bound: the event types t publishes, in order
    Reaction     \* Reaction[s]: what the handler of s publishes: type -> type

\* The event types there are: what publishers and handlers publish.
Types == (UNION {Range(Script[t]) : t \in Publishers}) \cup (UNION {Range(Reaction[s]) : s \in Subs})

\* Every subscribe() makes a subscription of its own: Order repeats none.
ASSUME BusAssumption ==
    /\ IsFiniteSet(Subs) /\ Publishers \cap Subs = {}
    /\ Order \in Seq(Subs) /\ IsInjective(Order)
    /\ \A t \in Publishers : Script[t] \in Seq(Types)
    /\ \A s \in Subs : Capacity[s] \in Nat \ {0}
    /\ \A f \in Policies : \A s \in Subs : f[s] \in {"DropOldest", "DropNewest", "Block"}
    /\ \A s \in Subs : DOMAIN Reaction[s] \subseteq Wants[s]

Threads == Publishers \cup Subs

VARIABLES
    policy,     \* policy[s]: opts.policy, fixed when s is subscribed
    subs,       \* subs_
    shut,       \* shutting_down_
    queue,      \* queue[s]: the contents of s's queue
    closed,     \* closed[s]
    running,    \* running[s]: running_
    worker,     \* worker[s]: where run() is: "test", "pop", "handle", "publish", "done"
    cur,        \* cur[s]: the event the handler was given (a sequence of at most one)
    pub,        \* pub[t]: the publish_event in progress on thread t
    sent,       \* sent[t]: publishes begun by t (published_ is their sum)
    seen,       \* history: seen[s]: the events handled by s
    stopping,   \* what the stopping thread is doing: [step, sub, left]
    joined      \* subscriptions whose stop() has returned

busVars == <<policy, subs, shut>>
subVars == <<queue, closed, running, worker, cur, seen>>
stopVars == <<stopping, joined>>
vars == <<busVars, subVars, pub, sent, stopVars>>

Idle == [step |-> "idle", event |-> <<>>, to |-> <<>>, left |-> <<>>]
NotStopping == [step |-> "idle", sub |-> <<>>, left |-> <<>>]

Init ==
    /\ policy \in Policies
    /\ subs = <<>> /\ shut = FALSE
    /\ queue = [s \in Subs |-> <<>>]
    /\ closed = [s \in Subs |-> FALSE]
    /\ running = [s \in Subs |-> TRUE]
    /\ worker = [s \in Subs |-> "test"]
    /\ cur = [s \in Subs |-> <<>>]
    /\ pub = [t \in Threads |-> Idle]
    /\ sent = [t \in Threads |-> 0]
    /\ seen = [s \in Subs |-> <<>>]
    /\ stopping = NotStopping /\ joined = {}

-----------------------------------------------------------------------------
(* register_sub, on the main thread; after shutdown() nobody subscribes. *)
Subscribe ==
    /\ stopping = NotStopping /\ ~shut
    /\ Len(subs) < Len(Order)
    /\ subs' = Append(subs, Order[Len(subs) + 1])
    /\ UNCHANGED <<policy, shut, subVars, pub, sent, stopVars>>

(* publish_event: the shutting_down_ test, the counter. *)
PublishBegin(t, type) ==
    /\ pub[t] = Idle
    /\ IF shut
       THEN UNCHANGED <<pub, sent>>
       ELSE /\ sent' = [sent EXCEPT ![t] = @ + 1]
            /\ pub' = [pub EXCEPT ![t] =
                 [step |-> "snapshot", event |-> <<[src |-> t, n |-> sent'[t], type |-> type]>>,
                  to |-> <<>>, left |-> <<>>]]

(* publish_event: the subscription list, copied under mu_. *)
PublishSnapshot(t) ==
    /\ pub[t].step = "snapshot"
    /\ pub' = [pub EXCEPT ![t] = IF subs = <<>> THEN Idle
                                 ELSE [@ EXCEPT !.step = "push", !.to = subs, !.left = subs]]
    /\ UNCHANGED <<busVars, subVars, sent, stopVars>>

Matches(s, e) == e.type \in Wants[s]
Full(s) == Len(queue[s]) >= Capacity[s]

(* Mutant of PushBlocked: nobody wakes the producers when the queue closes. *)
PushBlockedForever(s) == Full(s) /\ policy[s] = "Block"

(* Mutant of PushBlocked: Block does not wait, the event is given up. *)
PushNeverBlocks(s) == FALSE

(* BoundedQueue::push waits: Block policy, full, not closed. *)
PushBlocked(s) == ~closed[s] /\ Full(s) /\ policy[s] = "Block"

(* BoundedQueue::push once it does not wait: the queue it leaves. *)
Pushed(s, e) ==
    IF closed[s] THEN queue[s]
    ELSE IF ~Full(s) THEN Append(queue[s], e)
    ELSE IF policy[s] = "DropOldest" THEN Append(Tail(queue[s]), e)
    ELSE queue[s]

(* publish_event: one turn of the loop over the snapshot. *)
PublishPush(t) ==
    /\ pub[t].step = "push"
    /\ LET s == Head(pub[t].left)  e == pub[t].event[1] IN
       /\ Matches(s, e) => ~PushBlocked(s)
       /\ queue' = IF Matches(s, e) THEN [queue EXCEPT ![s] = Pushed(s, e)] ELSE queue
       /\ pub' = [pub EXCEPT ![t] = IF Tail(pub[t].left) = <<>> THEN Idle
                                    ELSE [pub[t] EXCEPT !.left = Tail(pub[t].left)]]
    /\ UNCHANGED <<busVars, closed, running, worker, cur, seen, sent, stopVars>>

(* A publisher publishes the next event of its script. *)
Publish(t) ==
    /\ sent[t] < Len(Script[t])
    /\ PublishBegin(t, Script[t][sent[t] + 1])
    /\ ~shut
    /\ UNCHANGED <<busVars, subVars, stopVars>>

-----------------------------------------------------------------------------
(* Subscription::run: the loop condition. *)
WorkerTest(s) ==
    /\ worker[s] = "test"
    /\ worker' = [worker EXCEPT ![s] = IF running[s] THEN "pop" ELSE "done"]
    /\ UNCHANGED <<busVars, queue, closed, running, cur, seen, pub, sent, stopVars>>

(* Subscription::run: queue_->pop(), which waits while the queue is empty and open. *)
WorkerPop(s) ==
    /\ worker[s] = "pop"
    /\ \/ /\ queue[s] # <<>>
          /\ cur' = [cur EXCEPT ![s] = <<Head(queue[s])>>]
          /\ queue' = [queue EXCEPT ![s] = Tail(@)]
          /\ worker' = [worker EXCEPT ![s] = "handle"]
       \/ /\ queue[s] = <<>> /\ closed[s]
          /\ worker' = [worker EXCEPT ![s] = "done"]
          /\ UNCHANGED <<cur, queue>>
    /\ UNCHANGED <<busVars, closed, running, seen, pub, sent, stopVars>>

(* Subscription::run: the handler; some handlers publish an event of their own. *)
WorkerHandle(s) ==
    /\ worker[s] = "handle"
    /\ LET e == cur[s][1] IN
       /\ seen' = [seen EXCEPT ![s] = Append(@, e)]
       /\ IF e.type \in DOMAIN Reaction[s]
          THEN /\ PublishBegin(s, Reaction[s][e.type])
               /\ worker' = [worker EXCEPT ![s] = "publish"]
               /\ UNCHANGED cur
          ELSE /\ worker' = [worker EXCEPT ![s] = "test"]
               /\ cur' = [cur EXCEPT ![s] = <<>>]
               /\ UNCHANGED <<pub, sent>>
    /\ UNCHANGED <<busVars, queue, closed, running, stopVars>>

(* The handler's publish returned, and so does the handler. *)
WorkerReturn(s) ==
    /\ worker[s] = "publish" /\ pub[s] = Idle
    /\ worker' = [worker EXCEPT ![s] = "test"]
    /\ cur' = [cur EXCEPT ![s] = <<>>]
    /\ UNCHANGED <<busVars, queue, closed, running, seen, pub, sent, stopVars>>

-----------------------------------------------------------------------------
(* Subscription::stop, called by the thread that tears the system down:    *)
(* the owner's own stop() for one subscription, or shutdown() for those    *)
(* that are left.  The exchange on running_ ...                            *)
StopExchange(s, left) ==
    IF running[s]
    THEN /\ running' = [running EXCEPT ![s] = FALSE]
         /\ stopping' = [step |-> "close", sub |-> <<s>>, left |-> left]
    ELSE /\ stopping' = [step |-> "next", sub |-> <<>>, left |-> left]
         /\ UNCHANGED running

Stop(s) ==
    /\ stopping = NotStopping /\ running[s] /\ s \in Range(subs)
    /\ StopExchange(s, <<>>)
    /\ UNCHANGED <<busVars, queue, closed, worker, cur, seen, pub, sent, joined>>

(* Mutant of StopClose: stop() does not close the queue. *)
StopCloseForgotten ==
    /\ stopping.step = "close"
    /\ stopping' = [stopping EXCEPT !.step = "join"]
    /\ UNCHANGED <<busVars, subVars, pub, sent, joined>>

(* ... queue_->close() ... *)
StopClose ==
    /\ stopping.step = "close"
    /\ closed' = [closed EXCEPT ![stopping.sub[1]] = TRUE]
    /\ stopping' = [stopping EXCEPT !.step = "join"]
    /\ UNCHANGED <<busVars, queue, running, worker, cur, seen, pub, sent, joined>>

(* ... and worker_.join(). *)
StopJoin ==
    /\ stopping.step = "join"
    /\ worker[stopping.sub[1]] = "done"
    /\ joined' = joined \cup {stopping.sub[1]}
    /\ stopping' = [step |-> "next", sub |-> <<>>, left |-> stopping.left]
    /\ UNCHANGED <<busVars, subVars, pub, sent>>

(* shutdown: the exchange on shutting_down_, the swap of subs_ ... *)
Shutdown ==
    /\ stopping = NotStopping /\ ~shut
    /\ shut' = TRUE /\ subs' = <<>>
    /\ stopping' = [step |-> "next", sub |-> <<>>, left |-> subs]
    /\ UNCHANGED <<policy, subVars, pub, sent, joined>>

(* ... and stop() for each subscription. *)
ShutdownNext ==
    /\ stopping.step = "next"
    /\ IF stopping.left = <<>>
       THEN stopping' = NotStopping /\ UNCHANGED running
       ELSE StopExchange(Head(stopping.left), Tail(stopping.left))
    /\ UNCHANGED <<busVars, queue, closed, worker, cur, seen, pub, sent, joined>>

ThreadStep(t) == PublishSnapshot(t) \/ PublishPush(t)
WorkerStep(s) == WorkerTest(s) \/ WorkerPop(s) \/ WorkerHandle(s) \/ WorkerReturn(s)
StopStep == StopClose \/ StopJoin \/ ShutdownNext

Next ==
    \/ Subscribe
    \/ \E t \in Publishers : Publish(t)
    \/ \E t \in Threads : PublishSnapshot(t) \/ PublishPush(t)
    \/ \E s \in Subs : \/ WorkerTest(s) \/ WorkerPop(s) \/ WorkerHandle(s) \/ WorkerReturn(s)
                       \/ Stop(s)
    \/ StopClose \/ StopJoin \/ Shutdown \/ ShutdownNext

(* Every started thread keeps running and a teardown that began goes on.   *)
(* Nothing forces a publish, a subscription or a teardown.                 *)
Fairness ==
    /\ \A t \in Threads : WF_vars(ThreadStep(t))
    /\ \A s \in Subs : WF_vars(WorkerStep(s))
    /\ WF_vars(StopStep)

Spec == Init /\ [][Next]_vars /\ Fairness

-----------------------------------------------------------------------------
Events == [src : Threads, n : Nat, type : Types]

(* The publish of thread t: once begun it carries the latest event of t;   *)
(* the queues it still has to push to differ, and belong to subscriptions  *)
(* of the bus until shutdown() takes the list away.                        *)
PublishTypeOK(t) ==
    /\ pub[t] \in [step : {"idle", "snapshot", "push"}, event : Seq(Events),
                   to : Seq(Subs), left : Seq(Subs)]
    /\ pub[t].step # "idle" =>
          /\ pub[t].event # <<>>
          /\ pub[t].event[1].src = t /\ pub[t].event[1].n = sent[t]
          /\ t \in Publishers => pub[t].event[1].type = Script[t][sent[t]]
    /\ pub[t].step = "push" =>
          /\ pub[t].left # <<>> /\ IsInjective(pub[t].left)
          /\ ~shut => Range(pub[t].left) \subseteq Range(subs)

(* Shapes of the variables and the bound of every queue. *)
TypeOK ==
    /\ policy \in Policies
    /\ shut \in BOOLEAN /\ (shut => subs = <<>>)
    /\ subs \in Seq(Subs) /\ Len(subs) <= Len(Order) /\ \A i \in DOMAIN subs : subs[i] = Order[i]
    /\ queue \in [Subs -> Seq(Events)] /\ seen \in [Subs -> Seq(Events)]
    /\ \A s \in Subs : Len(queue[s]) <= Capacity[s]
    /\ closed \in [Subs -> BOOLEAN] /\ running \in [Subs -> BOOLEAN]
    /\ worker \in [Subs -> {"test", "pop", "handle", "publish", "done"}]
    /\ cur \in [Subs -> Seq(Events)]
    /\ \A s \in Subs : worker[s] = "handle" => Len(cur[s]) = 1
    /\ sent \in [Threads -> Nat] /\ DOMAIN pub = Threads
    /\ \A t \in Threads : PublishTypeOK(t)
    /\ joined \subseteq Subs /\ stopping.sub \in Seq(Subs) /\ stopping.left \in Seq(Subs)
    /\ stopping.step \in {"close", "join"} => stopping.sub # <<>>

InFlow(s) == seen[s] \o (IF worker[s] = "handle" THEN cur[s] ELSE <<>>) \o queue[s]

(* Every subscriber handles the events of one publishing thread in the     *)
(* order in which that thread published them, none twice, although the     *)
(* publishes of several threads interleave push by push.                   *)
PublisherOrder ==
    \A s \in Subs : \A i, j \in DOMAIN InFlow(s) :
        i < j /\ InFlow(s)[i].src = InFlow(s)[j].src => InFlow(s)[i].n < InFlow(s)[j].n

(* stop() returns only when the worker is gone: no handler of a component  *)
(* runs after the component's stop() returned.                             *)
NoHandlerAfterStop == \A s \in joined : worker[s] = "done"

(* "FSM must not lose control events" (dialogue/fsm.cpp:51): whatever was  *)
(* pushed to an open Block subscription has been handled or still waits,   *)
(* and between two events of one publisher that reached it none is missing.*)
BlockLosesNothing ==
    \A s \in Subs : policy[s] = "Block" /\ ~closed[s] =>
        /\ \A t \in Threads : pub[t].step = "push" =>
             LET e == pub[t].event[1] IN
             Matches(s, e) /\ s \in Range(pub[t].to) \ Range(pub[t].left)
                => e \in Range(InFlow(s))
        /\ \A e, f \in Range(InFlow(s)) : e.src = f.src /\ e.src \in Publishers =>
             \A k \in e.n .. f.n : Script[e.src][k] \in Wants[s]
                => \E g \in Range(InFlow(s)) : g.src = e.src /\ g.n = k

(* What a subscriber handles is what was published: in the order of each   *)
(* publisher, and without a gap if its policy is Block (publish_event).    *)
DeliveredAsPublished == PublisherOrder /\ BlockLosesNothing

(* A publish returns, also one made by a handler: "push without lock to    *)
(* avoid deadlocks in handlers that touch the bus" (bus.cpp:76).           *)
PublishReturns == \A t \in Threads : []<>(pub[t] = Idle)

(* shutdown() joins every worker and returns, whatever is blocked on whom. *)
ShutdownCompletes == shut ~> (stopping = NotStopping)

(* stop() and shutdown() leave no worker behind, and return.               *)
StopIsFinal == []NoHandlerAfterStop /\ ShutdownCompletes
=============================================================================
