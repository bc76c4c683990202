------------------------------- MODULE Memory -------------------------------
(***************************************************************************)
(* What the program remembers: the turn writer (dialogue/turn_writer.cpp), *)
(* the session manager (dialogue/session.cpp), the summarizer              *)
(* (memory/summarizer.cpp) and the memory thread they share                *)
(* (memory/memory_thread.cpp), through start, warm restart, shutdown and   *)
(* crash (main.cpp, orchestrator/admin), with the offline memory command   *)
(* (cli/memory_cli.cpp) between two lives of the process.                  *)
(***************************************************************************)
EXTENDS Store

CONSTANTS
    Capacity,       \* cfg.memory.write_queue_capacity
    Threshold,      \* cfg.memory.summary.turn_threshold
    AdminOps,       \* the /new-session and /wipe requests that are made
    HttpDuringBoot, \* requests arrive before the first session is open
    Bounds          \* bounds: how much of everything a behaviour has

ASSUME MemoryAssumption ==
    /\ {Capacity, Threshold} \subseteq Nat \ {0}
    /\ Bounds \subseteq [turns : Nat, sentences : Nat, ops : Nat, starts : Nat, edits : Nat]
    /\ AdminOps \subseteq {"roll_over", "wipe_session", "wipe_all"}
    /\ HttpDuringBoot \in BOOLEAN

VARIABLES
    db,         \* the tables: all that outlives the process
    stage,      \* main(): down, read, adopt, clear, open, running, stopping
    restart,    \* stopping: for a warm restart
    resume,     \* the session of the checkpoint main() resumes, 0: none
    booting,    \* main waits for the memory thread
    jobs,       \* MemoryThread::queue_
    op,         \* the SessionManager operation that holds op_mtx_
    current,    \* SessionManager::current_
    sess,       \* session_ of the two writers
    inFlight,   \* TurnWriter::in_flight_
    talk,       \* the dialogue: the turn and how far it is
    sum,        \* the summarizer: counter, job_pending_ and its worker
    hist        \* history: eras of the turns, sentences heard, bounds used

vars == <<db, stage, restart, resume, booting, jobs, op, current, sess,
          inFlight, talk, sum, hist>>

NoOp == [kind |-> "none"]
NoRange == [session |-> 0, first |-> 0, last |-> 0, told |-> {}, era |-> 0]
IdleSummarizer == [count |-> 0, pending |-> FALSE, at |-> "idle", job |-> NoRange, own |-> FALSE]
Quiet == [turn |-> 0, at |-> "quiet", sent |-> 0, unheard |-> FALSE]

Up == stage # "down"
Serving == stage \in (IF HttpDuringBoot THEN {"read", "adopt", "clear", "open"} ELSE {})
                     \union {"running", "stopping"}

Init ==
    /\ db = EmptyTables(0) /\ stage = "down" /\ restart = FALSE /\ resume = 0
    /\ booting = FALSE /\ jobs = <<>> /\ op = NoOp /\ current = 0
    /\ sess = [w \in {"turn_writer", "summarizer"} |-> 0]
    /\ inFlight = NoRows /\ talk = Quiet /\ sum = IdleSummarizer
    /\ \E bound \in Bounds :
          hist = [era |-> NoRows, heard |-> {}, wiped |-> {},
                  ops |-> 0, starts |-> 0, edits |-> 0, bound |-> bound]

\* The era of the conversation that is going on, 0 when there is none.
EraNow == IF current \in DOMAIN db.sessions THEN db.sessions[current].era ELSE 0

-----------------------------------------------------------------------------
(* MemoryThread: post() is refused when the queue is full (DropNewest). *)
Accepts == Len(jobs) < Capacity
MainBusy == op # NoOp /\ op.by = "main"
Post(job) == jobs' = IF Accepts THEN Append(jobs, job) ELSE jobs

-----------------------------------------------------------------------------
(* TurnWriter.  A row is written with the session the writer has when the  *)
(* event is handled.                                                       *)
Row(role, turn, status, said) ==
    [kind |-> "turn",
     row |-> [session |-> sess["turn_writer"], role |-> role, turn |-> turn,
              status |-> status, said |-> said]]

HandleFinal ==
    /\ Up /\ stage # "stopping" /\ talk.at = "quiet" /\ talk.turn < hist.bound.turns
    /\ talk' = [turn |-> talk.turn + 1, at |-> "asked", sent |-> 0, unheard |-> FALSE]
    /\ hist' = [hist EXCEPT !.era = With(@, talk.turn + 1, EraNow)]
    /\ IF sess["turn_writer"] = 0 THEN UNCHANGED jobs
       ELSE Post(Row("user", talk.turn + 1, "committed", {}))
    /\ UNCHANGED <<db, stage, restart, resume, booting, op, current, sess, inFlight, sum>>

NoState == [sentences |-> {}, played |-> {}]

\* in_flight_[turn], which is there after it was asked for.
StateOf(turn) == IF turn \in DOMAIN inFlight THEN inFlight[turn] ELSE NoState

HandleStarted ==
    /\ Up /\ stage # "stopping" /\ talk.at = "asked"
    /\ talk' = [talk EXCEPT !.at = "replying"]
    /\ inFlight' = With(inFlight, talk.turn, StateOf(talk.turn))
    /\ UNCHANGED <<db, stage, restart, resume, booting, jobs, op, current, sess, sum, hist>>

HandleSentence ==
    /\ Up /\ stage # "stopping" /\ talk.at = "replying" /\ talk.sent < hist.bound.sentences
    /\ talk' = [talk EXCEPT !.sent = @ + 1]
    /\ inFlight' = With(inFlight, talk.turn,
                        [StateOf(talk.turn) EXCEPT !.sentences = @ \union {talk.sent}])
    /\ UNCHANGED <<db, stage, restart, resume, booting, jobs, op, current, sess, sum, hist>>

\* The engine plays the sentences in order; the bus keeps the order of one
\* publisher only, so this may overtake the LlmSentence of the same sentence.
HandlePlaybackFinished ==
    /\ Up /\ stage # "stopping" /\ talk.turn \in DOMAIN inFlight
    /\ \E seq \in 0 .. Min({talk.sent, hist.bound.sentences - 1}) :
          /\ seq \notin inFlight[talk.turn].played
          /\ \A s \in 0 .. seq - 1 : s \in inFlight[talk.turn].played
          /\ inFlight' = [inFlight EXCEPT ![talk.turn].played = @ \union {seq}]
          /\ hist' = [hist EXCEPT !.heard = @ \union {<<talk.turn, seq>>}]
    /\ UNCHANGED <<db, stage, restart, resume, booting, jobs, op, current, sess, talk, sum>>

(* Mutant of Persisted: the sentences that were not heard are kept. *)
PersistedUnheard(st, cancelled) == st.sentences

\* What handle_finished persists of a reply.
Persisted(st, cancelled) ==
    IF cancelled THEN st.sentences \intersect st.played ELSE st.sentences

HandleFinished ==
    /\ Up /\ stage # "stopping" /\ talk.at = "replying"
    /\ \E cancelled \in BOOLEAN :
          LET said == Persisted(inFlight[talk.turn], cancelled)
          IN  /\ talk' = [talk EXCEPT !.at = "quiet", !.unheard = ~cancelled]
              /\ IF sess["turn_writer"] = 0 \/ (cancelled /\ said = {}) THEN UNCHANGED jobs
                 ELSE Post(Row("assistant", talk.turn,
                               IF cancelled THEN "interrupted" ELSE "committed", said))
    /\ inFlight' = Restrict(inFlight, DOMAIN inFlight \ {talk.turn})
    /\ UNCHANGED <<db, stage, restart, resume, booting, op, current, sess, sum, hist>>

-----------------------------------------------------------------------------
(* Summarizer *)
\* on_event: the LlmFinished of a reply on the summarizer's subscription, or, as
\* nothing tells them apart, that of the summarizer's own request.  The counter is
\* kept up to the threshold only: nothing looks beyond.
SummarizerCounts ==
    LET counted == [sum EXCEPT !.count = Min({@ + 2, Threshold}),
                               !.pending = @ \/ sum.count + 2 >= Threshold]
    IN  /\ Up /\ stage # "stopping"
        /\ \/ /\ talk.unheard /\ talk' = [talk EXCEPT !.unheard = FALSE]
              /\ sum' = counted
           \/ sum.own /\ sum' = [counted EXCEPT !.own = FALSE] /\ UNCHANGED talk
        /\ UNCHANGED <<db, stage, restart, resume, booting, jobs, op, current, sess, inFlight, hist>>

\* worker_loop takes the job; run_one_summary posts its read.
SummarizerTakes ==
    /\ sum.at = "idle" /\ sum.pending /\ Up
    /\ sum' = [sum EXCEPT !.pending = FALSE,
                          !.at = IF sess["summarizer"] = 0 THEN "idle" ELSE "reading",
                          !.job = [NoRange EXCEPT !.session = sess["summarizer"]]]
    /\ IF sess["summarizer"] = 0 THEN UNCHANGED jobs
       ELSE Accepts /\ Post([kind |-> "summarizer"])
    /\ UNCHANGED <<db, stage, restart, resume, booting, op, current, sess, inFlight, talk, hist>>

(* Mutant of Snapshot: the range begins at the last turn already told. *)
SnapshotOverlaps(session) ==
    LET first == LatestSummaryEnd(db, session)
        last == MaxId({t \in RecentTurns(db, session) :
                          t >= first /\ db.turns[t].status \in {"committed", "interrupted"}})
    IN  [session |-> session, first |-> first, last |-> last,
         told |-> SourceHash(db, session, first, last),
         era |-> IF session \in DOMAIN db.sessions THEN db.sessions[session].era ELSE 0]

\* The snapshot the worker reads on the memory thread.
Snapshot(session) ==
    LET first == LatestSummaryEnd(db, session) + 1
        last == MaxId({t \in RecentTurns(db, session) :
                          t >= first /\ db.turns[t].status \in {"committed", "interrupted"}})
    IN  [session |-> session, first |-> first, last |-> last,
         told |-> SourceHash(db, session, first, last),
         era |-> IF session \in DOMAIN db.sessions THEN db.sessions[session].era ELSE 0]

\* The LLM has answered, or failed: a placeholder is stored just the same.
SummarizerAnswered ==
    /\ sum.at = "asking" /\ Accepts
    /\ sum' = [sum EXCEPT !.at = "storing", !.own = TRUE]
    /\ Post([kind |-> "summarizer"])
    /\ UNCHANGED <<db, stage, restart, resume, booting, op, current, sess, inFlight, talk, hist>>

\* The hash is computed when the row is stored.
SummaryRow(job) ==
    [session |-> job.session, first |-> job.first, last |-> job.last, told |-> job.told,
     era |-> job.era, hash |-> SourceHash(db, job.session, job.first, job.last)]

-----------------------------------------------------------------------------
(* SessionManager: an operation holds op_mtx_, makes its calls on the      *)
(* memory thread one after another, stores the new id and then tells the   *)
(* subscribers one by one.  A call the queue refuses throws: the operation *)
(* ends with what it has done.                                             *)
Operation(kind, by, arg) ==
    [kind |-> kind, by |-> by, arg |-> arg, sid |-> 0, waiting |-> FALSE,
     tell |-> <<"current", "turn_writer", "summarizer">>,
     calls |-> CASE kind = "open_initial" -> <<"insert">>
                 [] kind = "adopt" -> <<"get">>
                 [] kind = "roll_over" ->
                        IF current # 0 THEN <<"close", "insert">> ELSE <<"insert">>
                 [] kind = "wipe_session" -> <<"delete", "insert">>
                 [] kind = "wipe_all" -> <<"wipe", "insert">>]

\* privacy_handlers: /new-session, /wipe?session=id, /wipe?all=true.
HttpRequest ==
    /\ Serving /\ op = NoOp /\ hist.ops < hist.bound.ops
    /\ \E kind \in AdminOps :
          \E arg \in IF kind = "wipe_session" THEN DOMAIN db.sessions ELSE {0} :
             op' = Operation(kind, "http", arg)
    /\ hist' = [hist EXCEPT !.ops = @ + 1]
    /\ UNCHANGED <<db, stage, restart, resume, booting, jobs, current, sess, inFlight, talk, sum>>

(* Mutant of OpCall: the future of a refused job is never made ready. *)
OpCallHangs ==
    /\ op # NoOp /\ op.calls # <<>> /\ ~op.waiting /\ (MainBusy => Accepts)
    /\ op' = [op EXCEPT !.waiting = TRUE]
    /\ Post([kind |-> "session"])
    /\ UNCHANGED <<db, stage, restart, resume, booting, current, sess, inFlight, talk, sum, hist>>

OpCall ==
    /\ op # NoOp /\ op.calls # <<>> /\ ~op.waiting /\ (MainBusy => Accepts)
    /\ op' = IF Accepts THEN [op EXCEPT !.waiting = TRUE] ELSE NoOp
    /\ Post([kind |-> "session"])
    /\ UNCHANGED <<db, stage, restart, resume, booting, current, sess, inFlight, talk, sum, hist>>

\* The tables after a call of the operation.
OpDb(call) ==
    CASE call = "insert" -> InsertSession(db)
      [] call = "close" -> CloseSession(db, current)
      [] call = "delete" -> DeleteSession(db, op.arg)
      [] call = "wipe" -> WipeAll(db)
      [] call = "get" -> db

\* The operation after the call: a missing session ends adopt, and a wiped
\* session that is not the current one needs no successor.
OpAfter(call) ==
    LET rest == [op EXCEPT !.waiting = FALSE, !.calls = Tail(@)]
    IN  CASE call = "insert" -> [rest EXCEPT !.sid = db.lastSession + 1]
          [] call = "get" -> IF op.arg \in DOMAIN db.sessions
                             THEN [rest EXCEPT !.sid = op.arg] ELSE NoOp
          [] call = "delete" /\ op.arg # current -> NoOp
          [] OTHER -> rest

OpTell ==
    /\ op # NoOp /\ op.calls = <<>>
    /\ LET to == Head(op.tell)
       IN  /\ current' = IF to = "current" THEN op.sid ELSE current
           /\ sess' = IF to = "current" THEN sess ELSE [sess EXCEPT ![to] = op.sid]
           /\ op' = IF Len(op.tell) = 1 THEN NoOp ELSE [op EXCEPT !.tell = Tail(@)]
    /\ UNCHANGED <<db, stage, restart, resume, booting, jobs, inFlight, talk, sum, hist>>

-----------------------------------------------------------------------------
(* MemoryThread::run: one job at a time, in the order they were posted. *)
WipedBy(job) ==
    IF job.kind = "session" /\ op # NoOp /\ op.calls # <<>>
    THEN LET call == Head(op.calls)
         IN  IF call = "wipe" THEN {db.sessions[s].era : s \in DOMAIN db.sessions}
             ELSE IF call = "delete" /\ op.arg \in DOMAIN db.sessions
                  THEN {db.sessions[op.arg].era} ELSE {}
    ELSE {}

RunTurnJob ==
    /\ jobs # <<>> /\ Head(jobs).kind = "turn"
    /\ db' = InsertTurn(db, Head(jobs).row)
    /\ jobs' = Tail(jobs)
    /\ UNCHANGED <<stage, restart, resume, booting, op, current, sess, inFlight, talk, sum, hist>>

RunSessionJob ==
    /\ jobs # <<>> /\ Head(jobs).kind = "session"
    /\ db' = OpDb(Head(op.calls))
    /\ op' = OpAfter(Head(op.calls))
    /\ hist' = [hist EXCEPT !.wiped = @ \union WipedBy(Head(jobs))]
    /\ jobs' = Tail(jobs)
    /\ resume' = IF MainBusy /\ op' = NoOp THEN 0 ELSE resume
    /\ UNCHANGED <<stage, restart, booting, current, sess, inFlight, talk, sum>>

RunSummarizerRead ==
    /\ jobs # <<>> /\ Head(jobs).kind = "summarizer" /\ sum.at = "reading"
    /\ LET snap == Snapshot(sum.job.session)
       IN  sum' = IF snap.last < snap.first THEN [sum EXCEPT !.at = "idle", !.job = NoRange]
                  ELSE [sum EXCEPT !.at = "asking", !.job = snap]
    /\ jobs' = Tail(jobs)
    /\ UNCHANGED <<db, stage, restart, resume, booting, op, current, sess, inFlight, talk, hist>>

\* The counter is reset only when the row was stored.
RunSummarizerStore ==
    /\ jobs # <<>> /\ Head(jobs).kind = "summarizer" /\ sum.at = "storing"
    /\ db' = InsertSummary(db, SummaryRow(sum.job))
    /\ sum' = [sum EXCEPT !.at = "idle", !.job = NoRange,
                          !.count = IF db' # db THEN 0 ELSE @]
    /\ jobs' = Tail(jobs)
    /\ UNCHANGED <<stage, restart, resume, booting, op, current, sess, inFlight, talk, hist>>

-----------------------------------------------------------------------------
(* main(): start-up.  The recovery sweep runs before anything else is up.  *)
Start ==
    /\ stage = "down" /\ hist.starts < hist.bound.starts
    /\ db' = RunRecovery(db)
    /\ stage' = "read"
    /\ hist' = [hist EXCEPT !.starts = @ + 1]
    /\ UNCHANGED <<restart, resume, booting, jobs, op, current, sess, inFlight, talk, sum>>

\* try_warm_resume reads the checkpoint and, whatever became of it, clears it.
BootCall ==
    /\ stage \in {"read", "clear"} /\ ~booting /\ ~MainBusy /\ Accepts
    /\ booting' = TRUE
    /\ Post([kind |-> "boot"])
    /\ UNCHANGED <<db, stage, restart, resume, op, current, sess, inFlight, talk, sum, hist>>

\* The checkpoint counts when it is young enough and has our config hash.
RunBootJob ==
    /\ jobs # <<>> /\ Head(jobs).kind = "boot"
    /\ booting' = FALSE
    /\ jobs' = Tail(jobs)
    /\ \/ /\ stage = "read" /\ db.runtime = 0
          /\ stage' = "open"
          /\ UNCHANGED <<db, resume>>
       \/ /\ stage = "read" /\ db.runtime # 0
          /\ \E fresh, hash_ok \in BOOLEAN :
                IF fresh /\ hash_ok THEN stage' = "adopt" /\ resume' = db.runtime
                ELSE stage' = "clear" /\ resume' = 0
          /\ UNCHANGED db
       \/ /\ stage = "clear"
          /\ db' = ClearRuntimeState(db)
          /\ stage' = IF resume # 0 THEN "running" ELSE "open"
          /\ UNCHANGED resume
    /\ UNCHANGED <<restart, op, current, sess, inFlight, talk, sum, hist>>

BootOperation ==
    /\ op = NoOp
    /\ \/ /\ stage = "adopt"
          /\ op' = Operation("adopt", "main", resume)
          /\ stage' = "clear"
       \/ /\ stage = "open"
          /\ op' = IF current = 0 THEN Operation("open_initial", "main", 0) ELSE op
          /\ stage' = "running"
    /\ UNCHANGED <<db, restart, resume, booting, jobs, current, sess, inFlight, talk, sum, hist>>

(* Shutdown: the dialogue stack stops first, then the control server; both *)
(* wait for what they have under way.                                      *)
Stop ==
    /\ stage = "running" /\ ~MainBusy
    /\ stage' = "stopping"
    /\ restart' \in BOOLEAN
    /\ UNCHANGED <<db, resume, booting, jobs, op, current, sess, inFlight, talk, sum, hist>>

Volatile ==
    /\ stage' = "down" /\ restart' = FALSE /\ resume' = 0 /\ booting' = FALSE
    /\ jobs' = <<>> /\ op' = NoOp /\ current' = 0
    /\ sess' = [w \in DOMAIN sess |-> 0]
    /\ inFlight' = NoRows /\ sum' = IdleSummarizer
    /\ talk' = [Quiet EXCEPT !.turn = talk.turn]

\* ~MemoryThread clears running_, so what is still queued is not run; the
\* checkpoint is written over a connection of its own, and then execv.
Exit ==
    /\ stage = "stopping" /\ op = NoOp /\ sum.at = "idle" /\ ~sum.pending
    /\ Volatile
    /\ db' = IF restart THEN UpsertRuntimeState(db, current) ELSE db
    /\ UNCHANGED hist

Crash ==
    /\ Up
    /\ Volatile
    /\ UNCHANGED <<db, hist>>

\* A future of a refused job holds an exception: nothing catches it on the
\* summarizer's worker or in main(), and the process terminates.
Terminate ==
    /\ ~Accepts
    /\ \/ sum.at = "idle" /\ sum.pending /\ sess["summarizer"] # 0
       \/ sum.at = "asking"
       \/ stage \in {"read", "clear"} /\ ~booting /\ ~MainBusy
       \/ MainBusy /\ op.calls # <<>> /\ ~op.waiting
    /\ Volatile
    /\ UNCHANGED <<db, hist>>

(* acva memory delete-turn, delete-session, wipe: the process is not up. *)
MemoryCli ==
    /\ stage = "down" /\ hist.edits < hist.bound.edits
    /\ \/ \E id \in DOMAIN db.turns : db' = DeleteTurn(db, id)
       \/ \E id \in DOMAIN db.sessions : db' = DeleteSession(db, id)
       \/ db' = WipeAll(db)
    /\ hist' = [hist EXCEPT !.edits = @ + 1]
    /\ UNCHANGED <<stage, restart, resume, booting, jobs, op, current, sess, inFlight, talk, sum>>

MemoryThread == RunTurnJob \/ RunSessionJob \/ RunSummarizerRead \/ RunSummarizerStore
                \/ RunBootJob
Sessions == OpCall \/ OpTell
SummarizerWorker == SummarizerTakes \/ SummarizerAnswered
Boot == BootCall \/ BootOperation

Next ==
    \/ HandleFinal \/ HandleStarted \/ HandleSentence \/ HandlePlaybackFinished
    \/ HandleFinished \/ SummarizerCounts \/ HttpRequest
    \/ MemoryThread \/ Sessions \/ SummarizerWorker \/ Boot
    \/ Start \/ Stop \/ Exit \/ Crash \/ Terminate \/ MemoryCli

Spec ==
    /\ Init /\ [][Next]_vars
    /\ WF_vars(MemoryThread) /\ WF_vars(Sessions)
    /\ WF_vars(SummarizerWorker) /\ WF_vars(Boot)

-----------------------------------------------------------------------------
(* Every row has the session it belongs to, and the writers, the           *)
(* operation and the checkpoint have the shape the code gives them.        *)
TypeOK ==
    /\ stage \in {"down", "read", "adopt", "clear", "open", "running", "stopping"}
    /\ {restart, booting} \subseteq BOOLEAN
    /\ {resume, current, db.runtime} \subseteq 0 .. MaxId(DOMAIN db.sessions \union {db.lastSession, resume, current})
    /\ Len(jobs) <= Capacity
    /\ sum.at \in {"idle", "reading", "asking", "storing"}
    /\ \A t \in DOMAIN db.turns : db.turns[t].session \in DOMAIN db.sessions
    /\ \A s \in DOMAIN db.summaries : db.summaries[s].session \in DOMAIN db.sessions
    /\ db.runtime = 0 \/ db.runtime \in DOMAIN db.sessions

(* The store never claims more than the user heard: an interrupted reply   *)
(* is stored with sentences that were played to their end and with at      *)
(* least one of them, a committed one with all it had, without a gap       *)
(* (handle_playback_finished, handle_finished).                            *)
StoredAsHeard ==
    \A t \in DOMAIN db.turns :
        LET row == db.turns[t]
        IN  row.role = "assistant" =>
              IF row.status = "interrupted"
              THEN row.said # {} /\ \A s \in row.said : <<row.turn, s>> \in hist.heard
              ELSE row.said = 0 .. Cardinality(row.said) - 1

(* Within a session the rows are in the order of the dialogue, a question  *)
(* before its reply, whatever was dropped in between: writers of several   *)
(* threads go through one queue.                                           *)
RowsInOrder ==
    \A t, u \in DOMAIN db.turns :
        (t < u /\ db.turns[t].session = db.turns[u].session) =>
            \/ db.turns[t].turn < db.turns[u].turn
            \/ /\ db.turns[t].turn = db.turns[u].turn
               /\ db.turns[t].role = "user" /\ db.turns[u].role = "assistant"

(* The store tells the dialogue as the user heard it, in its order.        *)
StoreTellsTheDialogue == StoredAsHeard /\ RowsInOrder

(* Summaries of one session never overlap, and a summary made from the     *)
(* turns of its own session carries the hash of exactly these turns until  *)
(* an operator deletes one, although the hash is computed after the LLM    *)
(* call (run_one_summary).                                                 *)
SummariesTellTheirRange ==
    /\ \A s, u \in DOMAIN db.summaries :
          (s # u /\ db.summaries[s].session = db.summaries[u].session)
             => (db.summaries[s].last < db.summaries[u].first
                 \/ db.summaries[u].last < db.summaries[s].first)
    /\ \A s \in DOMAIN db.summaries :
          LET row == db.summaries[s]
          IN  row.era = db.sessions[row.session].era =>
                 row.hash = row.told /\ (s \in StaleSummaries(db) => hist.edits > 0)

(* Once the program runs and no session operation is under way, at most    *)
(* the current session is open in the store, whatever crash, restart or    *)
(* half-done operation came before; and the checkpoint is used up.         *)
OneOpenSession ==
    (stage = "running" /\ op = NoOp) =>
        /\ OpenSessions(db) \subseteq {current}
        /\ db.runtime = 0

(* A session operation that was begun ends: its caller gets an answer or   *)
(* an exception, also when the queue is full (submit).                     *)
OperationsEnd == (op # NoOp) ~> (op = NoOp)

(* What was said in a session that has been wiped is not in the store.     *)
WipeForgets ==
    /\ \A t \in DOMAIN db.turns : hist.era[db.turns[t].turn] \notin hist.wiped
    /\ \A s \in DOMAIN db.summaries : db.summaries[s].era \notin hist.wiped
=============================================================================
