------------------------------- MODULE Store --------------------------------
(***************************************************************************)
(* The SQLite store (memory/db.cpp, memory/schema.hpp,                     *)
(* memory/repository.cpp, memory/recovery.cpp): the tables as a record and *)
(* every Repository call as a function from one state of the tables to the *)
(* next.  A call is atomic: it is one statement, or one transaction.       *)
(*                                                                         *)
(* Ids are AUTOINCREMENT: an id is not used again after its row is         *)
(* deleted, but dropping the tables drops the counters with them.          *)
(*                                                                         *)
(* Texts are the pair of the dialogue turn and the sentences of its reply; *)
(* "era" numbers the session rows ever inserted and is never reused, so it *)
(* says which conversation a row belongs to when its id does not.  Facts   *)
(* and settings are read by the program and written by nothing in it.      *)
(***************************************************************************)
EXTENDS Integers, Sequences, FiniteSetsExt, Functions

NoRows == [id \in {} |-> 0]

EmptyTables(era) ==
    [sessions |-> NoRows, turns |-> NoRows, summaries |-> NoRows,
     runtime |-> 0, lastSession |-> 0, lastTurn |-> 0, lastEra |-> era]

MaxId(ids) == Max(ids \union {0})

\* The rows with one more.
With(f, id, row) == [x \in DOMAIN f \union {id} |-> IF x = id THEN row ELSE f[x]]

\* Rows of f that satisfy Keep(row).
Select(f, Keep(_)) == Restrict(f, {id \in DOMAIN f : Keep(f[id])})

-----------------------------------------------------------------------------
(* sessions *)
InsertSession(db) ==
    LET id == db.lastSession + 1
    IN  [db EXCEPT !.sessions = With(@, id, [open |-> TRUE, era |-> db.lastEra + 1]),
                   !.lastSession = id, !.lastEra = @ + 1]

\* UPDATE ... WHERE id: no row is no error.
CloseSession(db, id) ==
    IF id \in DOMAIN db.sessions THEN [db EXCEPT !.sessions[id].open = FALSE] ELSE db

OpenSessions(db) == {id \in DOMAIN db.sessions : db.sessions[id].open}

\* ON DELETE CASCADE removes the turns, the summaries and the checkpoint.
DeleteSession(db, id) ==
    [db EXCEPT !.sessions = Restrict(@, DOMAIN @ \ {id}),
               !.turns = Select(@, LAMBDA row : row.session # id),
               !.summaries = Select(@, LAMBDA row : row.session # id),
               !.runtime = IF @ = id THEN 0 ELSE @]

\* One transaction; the implicit DELETE of DROP TABLE sessions cascades too.
WipeAll(db) == EmptyTables(db.lastEra)

-----------------------------------------------------------------------------
(* turns.  foreign_keys = ON: no session, no row. *)
InsertTurn(db, row) ==
    IF row.session \in DOMAIN db.sessions
    THEN [db EXCEPT !.turns = With(@, db.lastTurn + 1, row),
                    !.lastTurn = @ + 1]
    ELSE db

DeleteTurn(db, id) == [db EXCEPT !.turns = Restrict(@, DOMAIN @ \ {id})]

RecentTurns(db, session) == {id \in DOMAIN db.turns : db.turns[id].session = session}

-----------------------------------------------------------------------------
(* summaries *)
InsertSummary(db, row) ==
    IF row.session \in DOMAIN db.sessions
    THEN [db EXCEPT !.summaries = With(@, MaxId(DOMAIN @) + 1, row)]
    ELSE db

\* The range_end_turn of the latest summary of a session, 0 when it has none.
LatestSummaryEnd(db, session) ==
    MaxId({db.summaries[id].last : id \in
              {s \in DOMAIN db.summaries : db.summaries[s].session = session}})

\* What compute_source_hash hashes: the turns of a session in a range.
SourceHash(db, session, first, last) ==
    {<<id, db.turns[id].turn, db.turns[id].role, db.turns[id].said>> :
        id \in {t \in RecentTurns(db, session) : first <= t /\ t <= last}}

-----------------------------------------------------------------------------
(* runtime_state: a single row that REFERENCES a session. *)
UpsertRuntimeState(db, session) ==
    IF session \in DOMAIN db.sessions THEN [db EXCEPT !.runtime = session] ELSE db

ClearRuntimeState(db) == [db EXCEPT !.runtime = 0]

-----------------------------------------------------------------------------
(* run_recovery: close dangling sessions, mark in-progress turns           *)
(* interrupted; stale summaries are only counted.                          *)
(* Mutant of RunRecovery: dangling sessions are left open. *)
RunRecoveryLeavesOpen(db) ==
    [db EXCEPT !.turns = [id \in DOMAIN @ |->
                   IF @[id].status = "in_progress"
                   THEN [@[id] EXCEPT !.status = "interrupted"] ELSE @[id]]]

RunRecovery(db) ==
    [db EXCEPT !.sessions = [id \in DOMAIN @ |-> [@[id] EXCEPT !.open = FALSE]],
               !.turns = [id \in DOMAIN @ |->
                   IF @[id].status = "in_progress"
                   THEN [@[id] EXCEPT !.status = "interrupted"] ELSE @[id]]]

StaleSummaries(db) ==
    {id \in DOMAIN db.summaries :
        LET s == db.summaries[id]
        IN  SourceHash(db, s.session, s.first, s.last) # s.hash}
=============================================================================
