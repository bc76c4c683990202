----------------------------- MODULE SpeechJobs -----------------------------
(***************************************************************************)
(* The two workers that send recorded audio to the transcription service:  *)
(* the request/response path (orchestrator/stacks/stt_stack.cpp) and the   *)
(* self-listen check of the synthesised speech (tts_stack.cpp).  Both wait *)
(* on a condition variable for a queue under a mutex, and both are stopped *)
(* by an atomic flag that is set without that mutex.                       *)
(*                                                                         *)
(* The worker's evaluation of the predicate and its blocking are two       *)
(* steps: the mutex is held in between, so a producer cannot come between  *)
(* them, but stop() can.                                                   *)
(***************************************************************************)
EXTENDS Integers, Sequences, SequencesExt

CONSTANTS
    MaxJobs,        \* bound: jobs produced
    SelfListenCap   \* max_in_flight * 4: the self-listen queue drops its oldest

ASSUME JobsAssumption == MaxJobs \in Nat /\ SelfListenCap \in Nat \ {0}

VARIABLES
    kind,       \* request or selfListen
    queue,      \* queue_ or jobs
    worker,     \* loop, waiting (inside wait, to test the predicate), blocking, blocked,
                \* submitting, ended
    job,        \* the one being submitted
    stopFlag,
    stopper,    \* stop(): no, stored, notified, joined
    produced,
    outcome,    \* history, per job: answers it was given
    missed      \* history: stop() notified between the test of the predicate and the wait

jobsVars == <<kind, queue, worker, job, stopFlag, stopper, produced, outcome, missed>>

JobsInit ==
    /\ kind \in {"request", "selfListen"}
    /\ queue = <<>> /\ worker = "loop" /\ job = 0
    /\ stopFlag = FALSE /\ stopper = "no" /\ produced = 0
    /\ outcome = [j \in 1 .. MaxJobs |-> 0] /\ missed = FALSE

\* The subscriber of UtteranceReady, or the bridge's hook, under the mutex.
Enqueue ==
    /\ produced < MaxJobs /\ worker # "blocking" /\ stopper = "no"
    /\ produced' = produced + 1
    /\ queue' = Append(IF kind = "selfListen" /\ Len(queue) >= SelfListenCap
                       THEN Tail(queue) ELSE queue, produced + 1)
    /\ worker' = IF worker = "blocked" THEN "waiting" ELSE worker
    /\ UNCHANGED <<kind, job, stopFlag, stopper, outcome, missed>>

\* while (!stop)
WorkerTests ==
    /\ worker = "loop"
    /\ worker' = IF stopFlag THEN "ended" ELSE "waiting"
    /\ UNCHANGED <<kind, queue, job, stopFlag, stopper, produced, outcome, missed>>

\* The test after the wait: only the self-listen worker looks at the queue as well.
Leaves == stopFlag /\ (kind = "request" \/ queue = <<>>)

WorkerTakes ==
    /\ worker = "waiting" /\ ~Leaves /\ queue # <<>>
    /\ worker' = "submitting" /\ job' = Head(queue) /\ queue' = Tail(queue)
    /\ UNCHANGED <<kind, stopFlag, stopper, produced, outcome, missed>>

WorkerWaits ==
    /\ worker = "waiting" /\ ~stopFlag /\ queue = <<>>
    /\ worker' = "blocking"
    /\ UNCHANGED <<kind, queue, job, stopFlag, stopper, produced, outcome, missed>>

WorkerBlocks ==
    /\ worker = "blocking"
    /\ worker' = "blocked"
    /\ UNCHANGED <<kind, queue, job, stopFlag, stopper, produced, outcome, missed>>

WorkerEnds ==
    /\ worker = "waiting" /\ Leaves
    /\ worker' = "ended"
    /\ UNCHANGED <<kind, queue, job, stopFlag, stopper, produced, outcome, missed>>

\* OpenAiSttClient::submit returned, after exactly one of on_final and on_error.
Submitted ==
    /\ worker = "submitting"
    /\ worker' = "loop"
    /\ outcome' = [outcome EXCEPT ![job] = @ + 1]
    /\ UNCHANGED <<kind, queue, job, stopFlag, stopper, produced, missed>>

StopStores ==
    /\ stopper = "no"
    /\ stopper' = "stored" /\ stopFlag' = TRUE
    /\ UNCHANGED <<kind, queue, worker, job, produced, outcome, missed>>

(* Mutant of StopNotifies: a sleeping worker is not woken. *)
StopForgetsToNotify ==
    /\ stopper = "stored"
    /\ stopper' = "notified"
    /\ UNCHANGED <<kind, queue, worker, job, stopFlag, produced, outcome, missed>>

StopNotifies ==
    /\ stopper = "stored"
    /\ stopper' = "notified"
    /\ worker' = IF worker = "blocked" THEN "waiting" ELSE worker
    /\ missed' = (worker = "blocking")
    /\ UNCHANGED <<kind, queue, job, stopFlag, produced, outcome>>

StopJoins ==
    /\ stopper = "notified" /\ worker = "ended"
    /\ stopper' = "joined"
    /\ UNCHANGED <<kind, queue, worker, job, stopFlag, produced, outcome, missed>>

Worker == WorkerTests \/ WorkerTakes \/ WorkerWaits \/ WorkerBlocks \/ WorkerEnds \/ Submitted
Stopper == StopStores \/ StopNotifies \/ StopJoins

JobsNext == Enqueue \/ Worker \/ Stopper

-----------------------------------------------------------------------------
(* Every utterance handed to the request path is answered exactly once and *)
(* in order, and one that the self-listen queue had no room for is the     *)
(* oldest: what waits is always the newest part of what was produced.      *)
JobsOnceInOrder ==
    /\ \A j \in 1 .. MaxJobs : outcome[j] <= 1
    /\ queue = [i \in 1 .. Len(queue) |-> produced - Len(queue) + i]
    /\ kind = "request" => \A j \in 1 .. produced :
            outcome[j] = 1 \/ Contains(queue, j) \/ (worker = "submitting" /\ job = j)

(* A job that waits is taken, unless the worker is being stopped or a      *)
(* newer job pushed it out: no wake-up of a producer is lost.              *)
JobsAreTaken ==
    \A j \in 1 .. MaxJobs : Contains(queue, j) ~> (~Contains(queue, j) \/ stopFlag)

(* "request/response worker join (after notifying stop + cv)"              *)
(* (stt_stack.hpp): a stop that has begun comes to its end, with one       *)
(* exception: the flag and the notification can both fall between the      *)
(* worker's test of the predicate and its wait, because the flag is stored *)
(* without the mutex.  Then join() waits for ever.                         *)
StopsUnlessMissed == (stopper = "stored") ~> (stopper = "joined" \/ missed)

(* The worker takes every job once, in order and eventually, and ends.     *)
JobsServed == []JobsOnceInOrder /\ JobsAreTaken /\ StopsUnlessMissed
=============================================================================
