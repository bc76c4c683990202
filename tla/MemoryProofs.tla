---------------------------- MODULE MemoryProofs ----------------------------
(***************************************************************************)
(* The store, for every capacity, threshold and length of a behaviour.     *)
(*                                                                         *)
(* MemoryBase is the shape of the state, with one fact more: a job of the  *)
(* session manager in the queue is that of the operation that waits for    *)
(* it.  Without it nothing could be said of what RunSessionJob does.       *)
(* Three invariants stand on it, each inductive with it alone.             *)
(*                                                                         *)
(* SessionsInv: how far main() and the operation are says which session    *)
(* may be open; none is while a successor is about to be inserted.         *)
(*                                                                         *)
(* DialogueInv: the rows stored and the rows queued behind them are one    *)
(* list in the order of the dialogue, and none is ahead of it; the reply   *)
(* under way has its sentences and which of them were heard.               *)
(*                                                                         *)
(* SummaryInv: a summary, stored or under way, whose session is still the  *)
(* one it was made from has a range that ended before it was read, and     *)
(* turns are only ever added behind; one of another era is never mistaken  *)
(* for it, because eras are not used again.                                *)
(***************************************************************************)
EXTENDS Memory, Flows, TLAPS

Tables == {"sessions", "turns", "summaries", "runtime", "lastSession", "lastTurn", "lastEra"}

\* The tables d and e differ in those of S at most.
OnlyIn(S, d, e) == DOMAIN e = Tables /\ \A t \in Tables \ S : e[t] = d[t]

(* What each call of the repository does to the tables: the row it puts    *)
(* there, and the tables it leaves alone.                                   *)
LEMMA Inserted ==
    ASSUME NEW d, DOMAIN d = Tables
    PROVE  /\ OnlyIn({"sessions", "lastSession", "lastEra"}, d, InsertSession(d))
           /\ InsertSession(d).sessions = With(d.sessions, d.lastSession + 1, [open |-> TRUE, era |-> d.lastEra + 1])
           /\ InsertSession(d).lastSession = d.lastSession + 1
           /\ InsertSession(d).lastEra = d.lastEra + 1
  BY DEF Tables, OnlyIn, InsertSession

(* UPDATE sessions: the row is closed, if there is one. *)
LEMMA ClosedRow ==
    ASSUME NEW d, DOMAIN d = Tables, NEW id
    PROVE  /\ OnlyIn({"sessions"}, d, CloseSession(d, id))
           /\ DOMAIN CloseSession(d, id).sessions = DOMAIN d.sessions
           /\ \A s \in DOMAIN d.sessions :
                  CloseSession(d, id).sessions[s] = IF s = id THEN [d.sessions[s] EXCEPT !.open = FALSE] ELSE d.sessions[s]
  BY DEF Tables, OnlyIn, CloseSession

(* DELETE FROM sessions, with what cascades from it. *)
LEMMA DeletedRow ==
    ASSUME NEW d, DOMAIN d = Tables, NEW id
    PROVE  /\ OnlyIn({"sessions", "turns", "summaries", "runtime"}, d, DeleteSession(d, id))
           /\ DeleteSession(d, id).sessions = [s \in DOMAIN d.sessions \ {id} |-> d.sessions[s]]
           /\ DeleteSession(d, id).turns = [t \in {t \in DOMAIN d.turns : d.turns[t].session # id} |-> d.turns[t]]
           /\ DeleteSession(d, id).summaries = [t \in {t \in DOMAIN d.summaries : d.summaries[t].session # id} |-> d.summaries[t]]
           /\ DeleteSession(d, id).runtime = IF d.runtime = id THEN 0 ELSE d.runtime
  BY DEF Tables, OnlyIn, DeleteSession, Restrict, Select

(* INSERT INTO turns: a row more, or nothing without its session. *)
LEMMA TurnRow ==
    ASSUME NEW d, DOMAIN d = Tables, NEW row
    PROVE  /\ OnlyIn({"turns", "lastTurn"}, d, InsertTurn(d, row))
           /\ row.session \in DOMAIN d.sessions =>
                /\ InsertTurn(d, row).turns = With(d.turns, d.lastTurn + 1, row)
                /\ InsertTurn(d, row).lastTurn = d.lastTurn + 1
           /\ row.session \notin DOMAIN d.sessions => InsertTurn(d, row) = d
  BY DEF Tables, OnlyIn, InsertTurn

(* The recovery sweep. *)
LEMMA Recovered ==
    ASSUME NEW d, DOMAIN d = Tables
    PROVE  /\ OnlyIn({"sessions", "turns"}, d, RunRecovery(d))
           /\ DOMAIN RunRecovery(d).sessions = DOMAIN d.sessions
           /\ \A s \in DOMAIN d.sessions : RunRecovery(d).sessions[s] = [d.sessions[s] EXCEPT !.open = FALSE]
           /\ DOMAIN RunRecovery(d).turns = DOMAIN d.turns
           /\ \A t \in DOMAIN d.turns : RunRecovery(d).turns[t] =
                  IF d.turns[t].status = "in_progress" THEN [d.turns[t] EXCEPT !.status = "interrupted"] ELSE d.turns[t]
  BY DEF Tables, OnlyIn, RunRecovery

(* INSERT INTO summaries: a row more, or nothing without its session. *)
LEMMA SummaryInserted ==
    ASSUME NEW d, DOMAIN d = Tables, NEW row
    PROVE  /\ OnlyIn({"summaries"}, d, InsertSummary(d, row))
           /\ row.session \in DOMAIN d.sessions =>
                InsertSummary(d, row).summaries = With(d.summaries, MaxId(DOMAIN d.summaries) + 1, row)
           /\ row.session \notin DOMAIN d.sessions => InsertSummary(d, row) = d
  BY DEF Tables, OnlyIn, InsertSummary

-----------------------------------------------------------------------------
MemorySafety == Init /\ [][Next]_vars

Roles == {"user", "assistant"}
Rows == [session : Nat, role : Roles, turn : Nat, status : {"committed", "interrupted"},
         said : SUBSET Nat]
Jobs == [kind : {"session", "boot", "summarizer"}] \union [kind : {"turn"}, row : Rows]

Ways == {<<>>, <<"insert">>, <<"get">>, <<"close", "insert">>, <<"delete", "insert">>,
         <<"wipe", "insert">>}
Telling == {<<"current", "turn_writer", "summarizer">>, <<"turn_writer", "summarizer">>,
            <<"summarizer">>}
Ops == [kind : {"open_initial", "adopt", "roll_over", "wipe_session", "wipe_all"},
        by : {"main", "http"}, arg : Nat, sid : Nat, waiting : BOOLEAN, tell : Telling,
        calls : Ways]

SessionRows == [open : BOOLEAN, era : Nat]

DbShape(d) ==
    /\ DOMAIN d = Tables
    /\ d.lastSession \in Nat /\ d.lastTurn \in Nat /\ d.lastEra \in Nat /\ d.runtime \in Nat
    /\ d.sessions \in [DOMAIN d.sessions -> SessionRows] /\ DOMAIN d.sessions \subseteq 1 .. d.lastSession
    /\ d.turns \in [DOMAIN d.turns -> Rows] /\ DOMAIN d.turns \subseteq 1 .. d.lastTurn
    /\ DOMAIN d.summaries \subseteq Nat
    /\ \A s \in DOMAIN d.summaries : /\ d.summaries[s].session \in Nat /\ d.summaries[s].first \in Nat
                                     /\ d.summaries[s].last \in Nat /\ d.summaries[s].era \in Nat
    /\ \E B \in Nat : \A s \in DOMAIN d.summaries : s <= B /\ d.summaries[s].last <= B

OpShape == op = NoOp \/ op \in Ops

WriterShape ==
    /\ jobs \in Seq(Jobs)
    /\ sess \in [{"turn_writer", "summarizer"} -> Nat]
    /\ stage \in {"down", "read", "adopt", "clear", "open", "running", "stopping"}
    /\ current \in Nat /\ resume \in Nat
    /\ talk \in [turn : Nat, at : {"quiet", "asked", "replying"}, sent : Nat, unheard : BOOLEAN]
    /\ inFlight \in [DOMAIN inFlight -> [sentences : SUBSET Nat, played : SUBSET Nat]]
    /\ talk.at = "replying" => talk.turn \in DOMAIN inFlight

SumShape ==
    /\ DOMAIN sum = {"count", "pending", "at", "job", "own"}
    /\ sum.at \in {"idle", "reading", "asking", "storing"} /\ (stage = "down" => sum.at = "idle")
    /\ sum.job.session \in Nat /\ sum.job.first \in Nat /\ sum.job.last \in Nat /\ sum.job.era \in Nat

HistShape ==
    /\ DOMAIN hist = {"era", "heard", "wiped", "ops", "starts", "edits", "bound"}
    /\ hist.bound \in Bounds /\ hist.edits \in Nat

MemoryShape == DbShape(db) /\ OpShape /\ WriterShape /\ SumShape /\ HistShape

Has(q, kind) == \E i \in DOMAIN q : q[i].kind = kind
Once(q, kind) == \A i, j \in DOMAIN q : q[i].kind = kind /\ q[j].kind = kind => i = j

\* A job of SessionManager is that of the operation that waits for it.
SessionJobs ==
    /\ Once(jobs, "session")
    /\ Has(jobs, "session") => op # NoOp /\ op.waiting
    /\ op # NoOp /\ op.waiting => op.calls # <<>>

(* What is left of a short list. *)
LEMMA Tuples ==
    ASSUME NEW x, NEW y, NEW z
    PROVE  /\ Len(<<>>) = 0 /\ Len(<<x>>) = 1 /\ Len(<<x, y>>) = 2 /\ Len(<<x, y, z>>) = 3
           /\ Head(<<x>>) = x /\ Head(<<x, y>>) = x /\ Head(<<x, y, z>>) = x
           /\ Tail(<<x>>) = <<>> /\ Tail(<<x, y>>) = <<y>> /\ Tail(<<x, y, z>>) = <<y, z>>
<1>1. Tail(<<x>>) = <<>>
  OBVIOUS
<1>2. Tail(<<x, y>>) = <<y>>
  OBVIOUS
<1>3. Tail(<<x, y, z>>) = <<y, z>>
  OBVIOUS
<1> QED
  BY <1>1, <1>2, <1>3

(* The calls an operation may have before it, and what is left after one. *)
LEMMA WaysOn ==
    ASSUME NEW c \in Ways, c # <<>>
    PROVE  /\ Head(c) \in {"insert", "get", "close", "delete", "wipe"} /\ Tail(c) \in Ways
           /\ Head(c) \in {"insert", "get"} => Tail(c) = <<>> /\ c = <<Head(c)>>
           /\ Head(c) \in {"close", "delete", "wipe"} => Tail(c) = <<"insert">> /\ Len(c) = 2
<1>1. \/ c = <<"insert">> \/ c = <<"get">>
      \/ c = <<"close", "insert">> \/ c = <<"delete", "insert">> \/ c = <<"wipe", "insert">>
  BY DEF Ways
<1>2. /\ Head(<<"insert">>) = "insert" /\ Tail(<<"insert">>) = <<>>
      /\ Head(<<"get">>) = "get" /\ Tail(<<"get">>) = <<>>
  BY Tuples
<1>3. \A x : /\ Head(<<x, "insert">>) = x /\ Tail(<<x, "insert">>) = <<"insert">>
             /\ Len(<<x, "insert">>) = 2
  BY Tuples
<1>4. <<>> \in Ways /\ <<"insert">> \in Ways
  BY DEF Ways
<1>5. CASE c = <<"insert">>
  BY <1>2, <1>4, <1>5, Zenon
<1>6. CASE c = <<"get">>
  BY <1>2, <1>4, <1>6, Zenon
<1>7. CASE c = <<"close", "insert">>
  <2>1. Head(c) = "close" /\ Tail(c) = <<"insert">> /\ Len(c) = 2
    BY <1>3, <1>7, Zenon
  <2> QED
    BY <1>4, <2>1
<1>8. CASE c = <<"delete", "insert">>
  <2>1. Head(c) = "delete" /\ Tail(c) = <<"insert">> /\ Len(c) = 2
    BY <1>3, <1>8, Zenon
  <2> QED
    BY <1>4, <2>1
<1>9. CASE c = <<"wipe", "insert">>
  <2>1. Head(c) = "wipe" /\ Tail(c) = <<"insert">> /\ Len(c) = 2
    BY <1>3, <1>9, Zenon
  <2> QED
    BY <1>4, <2>1
<1> QED
  BY <1>1, <1>5, <1>6, <1>7, <1>8, <1>9

(* The subscribers it may have still to tell. *)
LEMMA TellingOn ==
    ASSUME NEW c \in Telling
    PROVE  /\ Head(c) \in {"current", "turn_writer", "summarizer"}
           /\ Len(c) # 1 => Tail(c) \in Telling /\ Tail(c) # <<"current", "turn_writer", "summarizer">>
           /\ Head(c) = "current" <=> c = <<"current", "turn_writer", "summarizer">>
<1> DEFINE a == <<"current", "turn_writer", "summarizer">>
           b == <<"turn_writer", "summarizer">>
           e == <<"summarizer">>
<1>1. c = a \/ c = b \/ c = e
  BY DEF Telling
<1>2. /\ Head(a) = "current" /\ Tail(a) = b /\ Head(b) = "turn_writer" /\ Tail(b) = e
      /\ Head(e) = "summarizer" /\ Len(e) = 1 /\ Len(b) = 2 /\ Len(a) = 3
  BY Tuples
<1>3. b # a /\ e # a
  BY <1>2
<1>4. b \in Telling /\ e \in Telling
  BY DEF Telling
<1> HIDE DEF a, b, e
<1>5. CASE c = a
  BY <1>2, <1>3, <1>4, <1>5 DEF a
<1>6. CASE c = b
  BY <1>2, <1>3, <1>4, <1>6 DEF a
<1>7. CASE c = e
  BY <1>2, <1>3, <1>4, <1>7 DEF a
<1> QED
  BY <1>1, <1>5, <1>6, <1>7

(* The parts of an operation. *)
LEMMA OpKinds ==
    ASSUME NEW o \in Ops
    PROVE  /\ o # NoOp /\ o.calls \in Ways /\ o.tell \in Telling /\ o.sid \in Nat /\ o.arg \in Nat
           /\ o.by \in {"main", "http"} /\ o.waiting \in BOOLEAN
  BY DEF Ops, NoOp

(* The operations begin in their shape. *)
LEMMA NewOp ==
    ASSUME NEW kind \in {"open_initial", "adopt", "roll_over", "wipe_session", "wipe_all"},
           NEW by \in {"main", "http"}, NEW arg \in Nat
    PROVE  LET o == Operation(kind, by, arg)
           IN  /\ o \in Ops /\ o # NoOp /\ ~o.waiting /\ o.calls # <<>> /\ o.by = by /\ o.arg = arg
               /\ kind = "open_initial" => o.calls = <<"insert">>
               /\ kind = "adopt" => o.calls = <<"get">>
               /\ o.calls = <<"insert">> => kind = "open_initial" \/ current = 0
               /\ o.calls = <<"get">> => kind = "adopt"
  BY DEF Operation, Ops, NoOp, Ways, Telling

-----------------------------------------------------------------------------
(* MAX(id) of a bounded set of ids. *)
LEMMA Greatest ==
    ASSUME NEW S \in SUBSET Nat, NEW B \in Nat, \A x \in S : x <= B
    PROVE  MaxId(S) \in S \union {0} /\ \A x \in S : x <= MaxId(S)
<1> DEFINE T == S \union {0}
           U == {b \in Nat : \A x \in T : x <= b}
<1>1. B \in U
  OBVIOUS
<1>2. PICK m \in U : \A b \in U : m <= b
  BY <1>1, Least
<1>3. m \in T
  <2>1. SUFFICES ASSUME m \notin T PROVE FALSE
    OBVIOUS
  <2>2. m # 0 /\ m - 1 \in Nat
    BY <2>1
  <2>3. \A x \in T : x <= m - 1
    BY <1>2, <2>1, <2>2
  <2> QED
    BY <1>2, <2>2, <2>3
<1>4. MaxId(S) \in T /\ \A x \in T : MaxId(S) >= x
  BY <1>2, <1>3 DEF MaxId, Max
<1> QED
  BY <1>4

(* Where the rows of a summary and of a turn go. *)
LEMMA LatestEnd ==
    ASSUME NEW d, DbShape(d), NEW session \in Nat
    PROVE  /\ LatestSummaryEnd(d, session) \in Nat
           /\ \A s \in DOMAIN d.summaries :
                 d.summaries[s].session = session => d.summaries[s].last <= LatestSummaryEnd(d, session)
<1> DEFINE S == {d.summaries[id].last : id \in {s \in DOMAIN d.summaries : d.summaries[s].session = session}}
<1>1. S \in SUBSET Nat
  BY DEF DbShape
<1>2. PICK B \in Nat : \A s \in DOMAIN d.summaries : d.summaries[s].last <= B
  BY DEF DbShape
<1>3. MaxId(S) \in S \union {0} /\ \A x \in S : x <= MaxId(S)
  BY <1>1, <1>2, Greatest
<1> QED
  BY <1>1, <1>3 DEF LatestSummaryEnd

(* The range a summary is made from begins after the last summary. *)
LEMMA SnapshotShape ==
    ASSUME DbShape(db), NEW session \in Nat
    PROVE  LET r == Snapshot(session)
           IN  /\ r.session = session /\ r.first \in Nat /\ r.last \in 0 .. db.lastTurn /\ r.era \in Nat
               /\ r.first = LatestSummaryEnd(db, session) + 1
               /\ r.told = SourceHash(db, session, r.first, r.last)
               /\ session \in DOMAIN db.sessions => r.era = db.sessions[session].era
               /\ session \notin DOMAIN db.sessions => r.era = 0
<1> DEFINE first == LatestSummaryEnd(db, session) + 1
           S == {t \in RecentTurns(db, session) :
                          t >= first /\ db.turns[t].status \in {"committed", "interrupted"}}
<1>1. first \in Nat
  BY LatestEnd
<1>2. S \in SUBSET (1 .. db.lastTurn)
  BY DEF DbShape, RecentTurns
<1> HIDE DEF first, S
<1>3. db.lastTurn \in Nat /\ S \in SUBSET Nat /\ \A x \in S : x <= db.lastTurn
  BY <1>2 DEF DbShape
<1>4. MaxId(S) \in S \union {0}
  BY <1>3, Greatest
<1>5. MaxId(S) \in 0 .. db.lastTurn
  <2>1. \A x \in S \union {0} : x \in 0 .. db.lastTurn
    BY <1>3
  <2> QED
    BY <1>4, <2>1, Zenon
<1>6. session \in DOMAIN db.sessions => db.sessions[session].era \in Nat
  BY DEF DbShape, SessionRows
<1>7. Snapshot(session) = [session |-> session, first |-> first, last |-> MaxId(S),
         told |-> SourceHash(db, session, first, MaxId(S)),
         era |-> IF session \in DOMAIN db.sessions THEN db.sessions[session].era ELSE 0]
  BY DEF Snapshot, first, S
<1> QED
  BY <1>1, <1>5, <1>6, <1>7 DEF first

(* Every call of the repository leaves tables of this shape. *)
LEMMA EmptyShape == ASSUME NEW e \in Nat PROVE DbShape(EmptyTables(e))
  BY DEF DbShape, EmptyTables, Tables, NoRows, SessionRows, Rows

(* The calls about sessions. *)
LEMMA SessionCalls ==
    ASSUME NEW d, DbShape(d), NEW id \in Nat
    PROVE  /\ DbShape(InsertSession(d)) /\ DbShape(CloseSession(d, id))
           /\ DbShape(DeleteSession(d, id)) /\ DbShape(WipeAll(d))
<1>0. DOMAIN d = Tables /\ d.lastEra \in Nat
  BY DEF DbShape
<1>1. DbShape(InsertSession(d))
  <2> DEFINE e == InsertSession(d)
  <2>1. /\ DOMAIN e = Tables /\ e.turns = d.turns /\ e.summaries = d.summaries
        /\ e.runtime = d.runtime /\ e.lastTurn = d.lastTurn
    BY <1>0, Inserted DEF OnlyIn, Tables
  <2>2. /\ e.sessions = With(d.sessions, d.lastSession + 1, [open |-> TRUE, era |-> d.lastEra + 1])
        /\ e.lastSession = d.lastSession + 1 /\ e.lastEra = d.lastEra + 1
    BY <1>0, Inserted
  <2> HIDE DEF e
  <2>3. e.sessions \in [DOMAIN e.sessions -> SessionRows] /\ DOMAIN e.sessions \subseteq 1 .. e.lastSession
    BY <2>2 DEF DbShape, With, SessionRows
  <2>4. e.lastSession \in Nat /\ e.lastEra \in Nat
    BY <2>2 DEF DbShape
  <2>5. DbShape(e)
    BY <2>1, <2>3, <2>4 DEF DbShape
  <2> QED
    BY <2>5 DEF e
<1>2. DbShape(CloseSession(d, id))
  <2> DEFINE e == CloseSession(d, id)
  <2>1. /\ DOMAIN e = Tables /\ e.turns = d.turns /\ e.summaries = d.summaries
        /\ e.runtime = d.runtime /\ e.lastTurn = d.lastTurn /\ e.lastSession = d.lastSession
        /\ e.lastEra = d.lastEra
    BY <1>0, ClosedRow DEF OnlyIn, Tables
  <2>2. e.sessions \in [DOMAIN e.sessions -> SessionRows] /\ DOMAIN e.sessions = DOMAIN d.sessions
    <3>1. CASE id \in DOMAIN d.sessions
      BY <1>0, <3>1 DEF CloseSession, DbShape, SessionRows, Tables
    <3>2. CASE id \notin DOMAIN d.sessions
      BY <3>2 DEF CloseSession, DbShape
    <3> QED
      BY <3>1, <3>2
  <2> HIDE DEF e
  <2> QED
    BY <2>1, <2>2 DEF DbShape, e
<1>3. DbShape(DeleteSession(d, id))
  <2> DEFINE e == DeleteSession(d, id)
  <2> HIDE DEF e
  <2>0. OnlyIn({"sessions", "turns", "summaries", "runtime"}, d, e)
    BY <1>0, DeletedRow DEF e
  <2>1. /\ DOMAIN e = Tables /\ e.lastTurn = d.lastTurn /\ e.lastSession = d.lastSession
        /\ e.lastEra = d.lastEra
    BY <1>0, <2>0 DEF OnlyIn, Tables
  <2>2. /\ e.sessions = [s \in DOMAIN d.sessions \ {id} |-> d.sessions[s]]
        /\ e.turns = [t \in {t \in DOMAIN d.turns : d.turns[t].session # id} |-> d.turns[t]]
        /\ e.summaries = [t \in {t \in DOMAIN d.summaries : d.summaries[t].session # id} |-> d.summaries[t]]
        /\ e.runtime = IF d.runtime = id THEN 0 ELSE d.runtime
    BY <1>0 DEF e, DeleteSession, Restrict, Select, Tables
  <2>3. e.sessions \in [DOMAIN e.sessions -> SessionRows] /\ DOMAIN e.sessions \subseteq 1 .. e.lastSession
    BY <2>1, <2>2 DEF DbShape
  <2>4. e.turns \in [DOMAIN e.turns -> Rows] /\ DOMAIN e.turns \subseteq 1 .. e.lastTurn
    BY <2>1, <2>2 DEF DbShape
  <2>5. /\ DOMAIN e.summaries \subseteq Nat
        /\ \A s \in DOMAIN e.summaries : s \in DOMAIN d.summaries /\ e.summaries[s] = d.summaries[s]
    BY <2>2 DEF DbShape
  <2>6. \E B \in Nat : \A s \in DOMAIN e.summaries : s <= B /\ e.summaries[s].last <= B
    BY <2>5 DEF DbShape
  <2>7. e.runtime \in Nat
    BY <2>2 DEF DbShape
  <2> QED
    BY <2>1, <2>3, <2>4, <2>5, <2>6, <2>7 DEF DbShape, e
<1>4. DbShape(WipeAll(d))
  BY <1>0, EmptyShape DEF WipeAll
<1> QED
  BY <1>1, <1>2, <1>3, <1>4

(* The calls about turns and the checkpoint; no turn is ever in progress,  *)
(* so the recovery sweep changes none.                                     *)
LEMMA RowCalls ==
    ASSUME NEW d, DbShape(d), NEW row \in Rows, NEW id \in Nat
    PROVE  /\ DbShape(InsertTurn(d, row)) /\ DbShape(DeleteTurn(d, id))
           /\ DbShape(UpsertRuntimeState(d, id)) /\ DbShape(ClearRuntimeState(d))
           /\ DbShape(RunRecovery(d)) /\ RunRecovery(d).turns = d.turns
<1>0. DOMAIN d = Tables
  BY DEF DbShape
<1>1. DbShape(InsertTurn(d, row))
  <2>1. CASE row.session \in DOMAIN d.sessions
    <3> DEFINE e == InsertTurn(d, row)
    <3> HIDE DEF e
    <3>0. OnlyIn({"turns", "lastTurn"}, d, e)
      BY <1>0, TurnRow DEF e
    <3>1. /\ DOMAIN e = Tables /\ e.sessions = d.sessions /\ e.summaries = d.summaries
          /\ e.runtime = d.runtime /\ e.lastSession = d.lastSession /\ e.lastEra = d.lastEra
      BY <1>0, <3>0 DEF OnlyIn, Tables
    <3>2. e.turns = With(d.turns, d.lastTurn + 1, row) /\ e.lastTurn = d.lastTurn + 1
      BY <1>0, <2>1, TurnRow DEF e
    <3>3. e.turns \in [DOMAIN e.turns -> Rows] /\ DOMAIN e.turns \subseteq 1 .. e.lastTurn
      BY <3>2 DEF DbShape, With
    <3> QED
      BY <3>1, <3>2, <3>3 DEF DbShape, e
  <2>2. CASE row.session \notin DOMAIN d.sessions
    BY <2>2 DEF InsertTurn
  <2> QED
    BY <2>1, <2>2
<1>2. DbShape(DeleteTurn(d, id))
  <2> DEFINE e == DeleteTurn(d, id)
  <2>1. /\ DOMAIN e = Tables /\ e.sessions = d.sessions /\ e.summaries = d.summaries
        /\ e.runtime = d.runtime /\ e.lastSession = d.lastSession /\ e.lastEra = d.lastEra
        /\ e.lastTurn = d.lastTurn /\ e.turns = [t \in DOMAIN d.turns \ {id} |-> d.turns[t]]
    BY <1>0 DEF DeleteTurn, Tables, Restrict
  <2> HIDE DEF e
  <2>2. e.turns \in [DOMAIN e.turns -> Rows] /\ DOMAIN e.turns \subseteq 1 .. e.lastTurn
    BY <2>1 DEF DbShape
  <2> QED
    BY <2>1, <2>2 DEF DbShape, e
<1>3. ASSUME NEW r \in Nat PROVE DbShape([d EXCEPT !.runtime = r])
  <2> DEFINE e == [d EXCEPT !.runtime = r]
  <2>1. /\ DOMAIN e = Tables /\ e.sessions = d.sessions /\ e.summaries = d.summaries
        /\ e.runtime = r /\ e.lastSession = d.lastSession /\ e.lastEra = d.lastEra
        /\ e.lastTurn = d.lastTurn /\ e.turns = d.turns
    BY <1>0 DEF Tables
  <2> HIDE DEF e
  <2> QED
    BY <2>1 DEF DbShape, e
<1>4. DbShape(UpsertRuntimeState(d, id)) /\ DbShape(ClearRuntimeState(d))
  BY <1>3 DEF UpsertRuntimeState, ClearRuntimeState
<1>5. DbShape(RunRecovery(d)) /\ RunRecovery(d).turns = d.turns
  <2> DEFINE e == RunRecovery(d)
  <2>1. /\ DOMAIN e = Tables /\ e.summaries = d.summaries /\ e.runtime = d.runtime
        /\ e.lastSession = d.lastSession /\ e.lastEra = d.lastEra /\ e.lastTurn = d.lastTurn
    BY <1>0, Recovered DEF OnlyIn, Tables
  <2>2. e.turns = [t \in DOMAIN d.turns |-> IF d.turns[t].status = "in_progress"
                   THEN [d.turns[t] EXCEPT !.status = "interrupted"] ELSE d.turns[t]]
    BY <1>0 DEF RunRecovery, Tables
  <2>3. \A t \in DOMAIN d.turns : d.turns[t].status # "in_progress"
    BY DEF DbShape, Rows
  <2>4. e.sessions = [s \in DOMAIN d.sessions |-> [d.sessions[s] EXCEPT !.open = FALSE]]
    BY <1>0 DEF RunRecovery, Tables
  <2> HIDE DEF e
  <2>5. e.turns = d.turns
    BY <2>2, <2>3 DEF DbShape
  <2>6. e.sessions \in [DOMAIN e.sessions -> SessionRows] /\ DOMAIN e.sessions = DOMAIN d.sessions
    BY <2>4, ZenonT(60) DEF DbShape, SessionRows
  <2> QED
    BY <2>1, <2>5, <2>6 DEF DbShape, e
<1> QED
  BY <1>1, <1>2, <1>4, <1>5

(* The insertion of a summary, whose id is a new one. *)
LEMMA SummaryCall ==
    ASSUME NEW d, DbShape(d), NEW row, row.session \in Nat, row.first \in Nat, row.last \in Nat,
           row.era \in Nat
    PROVE  /\ DbShape(InsertSummary(d, row))
           /\ MaxId(DOMAIN d.summaries) + 1 \in Nat \ DOMAIN d.summaries
<1>0. DOMAIN d = Tables
  BY DEF DbShape
<1>1. PICK B \in Nat : \A s \in DOMAIN d.summaries : s <= B /\ d.summaries[s].last <= B
  BY DEF DbShape
<1>2. PICK m : m = MaxId(DOMAIN d.summaries)
  OBVIOUS
<1>3. m \in DOMAIN d.summaries \union {0} /\ \A x \in DOMAIN d.summaries : x <= m
  BY <1>1, <1>2, Greatest DEF DbShape
<1>4. m \in Nat /\ m + 1 \notin DOMAIN d.summaries
  BY <1>3 DEF DbShape
<1>5. CASE row.session \in DOMAIN d.sessions
  <2> DEFINE e == InsertSummary(d, row)
  <2>1. /\ DOMAIN e = Tables /\ e.sessions = d.sessions /\ e.turns = d.turns
        /\ e.runtime = d.runtime /\ e.lastSession = d.lastSession /\ e.lastEra = d.lastEra
        /\ e.lastTurn = d.lastTurn
    BY <1>0, SummaryInserted DEF OnlyIn, Tables
  <2>2. e.summaries = With(d.summaries, m + 1, row)
    BY <1>0, <1>2, <1>5, SummaryInserted
  <2> HIDE DEF e
  <2>3. /\ DOMAIN e.summaries = DOMAIN d.summaries \union {m + 1} /\ e.summaries[m + 1] = row
        /\ \A s \in DOMAIN d.summaries : e.summaries[s] = d.summaries[s]
    BY <1>4, <2>2 DEF With
  <2>4. B + m + 1 + row.last \in Nat
    BY <1>4
  <2>5. \A s \in DOMAIN d.summaries : s \in Nat /\ d.summaries[s].last \in Nat
    BY DEF DbShape
  <2>6. \A s \in DOMAIN e.summaries : s <= B + m + 1 + row.last /\ e.summaries[s].last <= B + m + 1 + row.last
    BY <1>1, <1>4, <2>3, <2>5
  <2>7. DOMAIN e.summaries \subseteq Nat
    BY <1>4, <2>3, <2>5
  <2>8. \A s \in DOMAIN e.summaries : /\ e.summaries[s].session \in Nat /\ e.summaries[s].first \in Nat
                                     /\ e.summaries[s].last \in Nat /\ e.summaries[s].era \in Nat
    BY <2>3 DEF DbShape
  <2>9. \E C \in Nat : \A s \in DOMAIN e.summaries : s <= C /\ e.summaries[s].last <= C
    BY <2>4, <2>6
  <2> QED
    BY <1>2, <1>4, <2>1, <2>7, <2>8, <2>9 DEF DbShape, e
<1>6. CASE row.session \notin DOMAIN d.sessions
  BY <1>2, <1>4, <1>6 DEF InsertSummary
<1> QED
  BY <1>5, <1>6

-----------------------------------------------------------------------------
(* The memory thread's queue takes a job, or refuses it, or runs one. *)
LEMMA Posted ==
    ASSUME jobs \in Seq(Jobs), NEW job \in Jobs, Post(job)
    PROVE  jobs' \in Seq(Jobs) /\ (jobs' = Append(jobs, job) \/ jobs' = jobs)
  BY DEF Post

(* The kinds of jobs there are. *)
LEMMA KindsOfJobs ==
    /\ \A k \in {"session", "boot", "summarizer"} : [kind |-> k] \in Jobs
    /\ \A r \in Rows : [kind |-> "turn", row |-> r] \in Jobs
    /\ \A j \in Jobs : /\ j.kind \in {"session", "boot", "summarizer", "turn"}
                       /\ j.kind = "turn" => j.row \in Rows
  BY DEF Jobs

(* A job is taken. *)
LEMMA Taken ==
    ASSUME jobs \in Seq(Jobs), jobs # <<>>
    PROVE  Tail(jobs) \in Seq(Jobs) /\ Head(jobs) \in Jobs
  OBVIOUS

(* The writer makes rows of the shape the table has. *)
LEMMA MadeRow ==
    ASSUME WriterShape, NEW role \in Roles, NEW turn \in Nat,
           NEW status \in {"committed", "interrupted"}, NEW said \in SUBSET Nat
    PROVE  Row(role, turn, status, said) \in Jobs
  BY DEF Row, WriterShape, Jobs, Rows

(* What kinds of jobs the queue has after that. *)
LEMMA PostedKinds ==
    ASSUME NEW q \in Seq(Jobs), NEW j \in Jobs, NEW k
    PROVE  /\ j.kind # k => (Has(Append(q, j), k) <=> Has(q, k)) /\ (Once(q, k) => Once(Append(q, j), k))
           /\ j.kind = k /\ ~Has(q, k) => Once(Append(q, j), k)
<1> DEFINE r == Append(q, j)
<1>1. /\ DOMAIN q = 1 .. Len(q) /\ Len(q) \in Nat /\ DOMAIN r = 1 .. Len(q) + 1
      /\ \A i \in 1 .. Len(q) : r[i] = q[i]
      /\ r[Len(q) + 1] = j
  OBVIOUS
<1> HIDE DEF r
<1>2. ASSUME NEW i \in DOMAIN r PROVE (i \in DOMAIN q /\ r[i] = q[i]) \/ (i = Len(q) + 1 /\ r[i] = j)
  BY <1>1
<1>3. \A i \in DOMAIN q : i \in DOMAIN r /\ r[i] = q[i]
  BY <1>1
<1>4. ASSUME j.kind # k
      PROVE  (Has(r, k) <=> Has(q, k)) /\ (Once(q, k) => Once(r, k))
  BY <1>2, <1>3, <1>4 DEF Has, Once
<1>5. ASSUME j.kind = k, ~Has(q, k) PROVE Once(r, k)
  BY <1>2, <1>5 DEF Has, Once
<1> QED
  BY <1>4, <1>5 DEF r

(* And when one is taken. *)
LEMMA TakenKinds ==
    ASSUME NEW q \in Seq(Jobs), q # <<>>, NEW k
    PROVE  /\ Has(Tail(q), k) => Has(q, k)
           /\ Once(q, k) => Once(Tail(q), k)
           /\ Once(q, k) /\ Head(q).kind = k => ~Has(Tail(q), k)
           /\ Head(q).kind = k => Has(q, k)
<1> DEFINE r == Tail(q)
<1>1. /\ Head(q) = q[1] /\ Len(q) \in Nat /\ Len(q) >= 1
      /\ DOMAIN q = 1 .. Len(q) /\ DOMAIN r = 1 .. Len(q) - 1
      /\ \A i \in 1 .. Len(q) - 1 : r[i] = q[i + 1]
  OBVIOUS
<1> HIDE DEF r
<1>2. \A i \in DOMAIN r : i \in Nat /\ i # 0 /\ i + 1 \in DOMAIN q /\ r[i] = q[i + 1]
  BY <1>1
<1>3. 1 \in DOMAIN q
  BY <1>1
<1>4. Has(r, k) => Has(q, k)
  BY <1>2 DEF Has
<1>5. ASSUME Once(q, k) PROVE Once(r, k)
  <2> SUFFICES ASSUME NEW i \in DOMAIN r, NEW j \in DOMAIN r, r[i].kind = k, r[j].kind = k
               PROVE  i = j
    BY DEF Once
  <2>1. i + 1 = j + 1
    BY <1>2, <1>5 DEF Once
  <2> QED
    BY <1>2, <2>1
<1>6. ASSUME Once(q, k), Head(q).kind = k, Has(r, k) PROVE FALSE
  <2>1. PICK i \in DOMAIN r : r[i].kind = k
    BY <1>6 DEF Has
  <2>2. i + 1 = 1
    BY <1>1, <1>2, <1>3, <1>6, <2>1 DEF Once
  <2> QED
    BY <1>2, <2>1, <2>2
<1>7. Head(q).kind = k => Has(q, k)
  BY <1>1, <1>3 DEF Has
<1> QED
  BY <1>4, <1>5, <1>6, <1>7 DEF r

(* The dialogue's events. *)
LEMMA WriterShaped ==
    ASSUME MemoryShape,
           HandleFinal \/ HandleStarted \/ HandleSentence \/ HandlePlaybackFinished \/ HandleFinished
    PROVE  MemoryShape'
<1> USE DEF MemoryShape
<1>1. CASE HandleFinal
  <2>1. talk.turn + 1 \in Nat
    BY DEF WriterShape
  <2>2. Row("user", talk.turn + 1, "committed", {}) \in Jobs
    BY <2>1, MadeRow DEF Roles
  <2>3. jobs' \in Seq(Jobs)
    BY <1>1, <2>2, Posted DEF HandleFinal, WriterShape
  <2>4. WriterShape'
    BY <1>1, <2>1, <2>3 DEF HandleFinal, WriterShape
  <2>5. HistShape'
    BY <1>1 DEF HandleFinal, HistShape
  <2> QED
    BY <1>1, <2>4, <2>5 DEF HandleFinal, OpShape, SumShape
<1>2. CASE HandleStarted
  <2>1. inFlight' = With(inFlight, talk.turn, StateOf(talk.turn)) /\ talk' = [talk EXCEPT !.at = "replying"]
        /\ UNCHANGED <<db, stage, restart, resume, booting, jobs, op, current, sess, sum, hist>>
    BY <1>2 DEF HandleStarted
  <2>2. StateOf(talk.turn) \in [sentences : SUBSET Nat, played : SUBSET Nat]
    BY DEF StateOf, NoState, WriterShape
  <2>3. WriterShape'
    BY <2>1, <2>2 DEF With, WriterShape
  <2> QED
    BY <2>1, <2>3 DEF OpShape, SumShape, HistShape
<1>3. CASE HandleSentence
  <2>1. /\ inFlight' = With(inFlight, talk.turn, [StateOf(talk.turn) EXCEPT !.sentences = @ \union {talk.sent}])
        /\ talk' = [talk EXCEPT !.sent = @ + 1]
        /\ UNCHANGED <<db, stage, restart, resume, booting, jobs, op, current, sess, sum, hist>>
    BY <1>3 DEF HandleSentence
  <2>2. StateOf(talk.turn) \in [sentences : SUBSET Nat, played : SUBSET Nat] /\ talk.sent \in Nat
    BY DEF StateOf, NoState, WriterShape
  <2>3. [StateOf(talk.turn) EXCEPT !.sentences = @ \union {talk.sent}] \in [sentences : SUBSET Nat, played : SUBSET Nat]
    BY <2>2
  <2>4. PICK st \in [sentences : SUBSET Nat, played : SUBSET Nat] : inFlight' = With(inFlight, talk.turn, st)
    BY <2>1, <2>3
  <2>5. /\ inFlight' \in [DOMAIN inFlight' -> [sentences : SUBSET Nat, played : SUBSET Nat]]
        /\ talk.turn \in DOMAIN inFlight'
    BY <2>4 DEF With, WriterShape
  <2>6. /\ talk' \in [turn : Nat, at : {"quiet", "asked", "replying"}, sent : Nat, unheard : BOOLEAN]
        /\ talk'.turn = talk.turn
    BY <2>1 DEF WriterShape
  <2>7. WriterShape'
    BY <2>1, <2>5, <2>6 DEF WriterShape
  <2> QED
    BY <2>1, <2>7 DEF OpShape, SumShape, HistShape
<1>4. CASE HandlePlaybackFinished
  <2>1. PICK seq \in 0 .. Min({talk.sent, hist.bound.sentences - 1}) :
          /\ inFlight' = [inFlight EXCEPT ![talk.turn].played = @ \union {seq}]
          /\ hist' = [hist EXCEPT !.heard = @ \union {<<talk.turn, seq>>}]
    BY <1>4 DEF HandlePlaybackFinished
  <2>2. seq \in Nat
    BY <2>1
  <2>3. /\ talk.turn \in DOMAIN inFlight
        /\ UNCHANGED <<db, stage, restart, resume, booting, jobs, op, current, sess, talk, sum>>
    BY <1>4 DEF HandlePlaybackFinished
  <2>4. WriterShape'
    BY <2>1, <2>2, <2>3 DEF WriterShape
  <2>5. HistShape'
    BY <2>1 DEF HistShape
  <2> QED
    BY <2>3, <2>4, <2>5 DEF OpShape, SumShape
<1>5. CASE HandleFinished
  <2>1. PICK cancelled \in BOOLEAN :
          LET said == Persisted(inFlight[talk.turn], cancelled)
          IN  /\ talk' = [talk EXCEPT !.at = "quiet", !.unheard = ~cancelled]
              /\ IF sess["turn_writer"] = 0 \/ (cancelled /\ said = {}) THEN UNCHANGED jobs
                 ELSE Post(Row("assistant", talk.turn,
                               IF cancelled THEN "interrupted" ELSE "committed", said))
    BY <1>5 DEF HandleFinished
  <2>2. /\ talk.turn \in DOMAIN inFlight
        /\ inFlight' = Restrict(inFlight, DOMAIN inFlight \ {talk.turn})
        /\ UNCHANGED <<db, stage, restart, resume, booting, op, current, sess, sum, hist>>
    BY <1>5 DEF HandleFinished, WriterShape
  <2>3. Persisted(inFlight[talk.turn], cancelled) \in SUBSET Nat
    BY <2>2 DEF Persisted, WriterShape
  <2>4. talk.turn \in Nat
    BY DEF WriterShape
  <2>5. Row("assistant", talk.turn, IF cancelled THEN "interrupted" ELSE "committed",
            Persisted(inFlight[talk.turn], cancelled)) \in Jobs
    BY <2>3, <2>4, MadeRow DEF Roles
  <2>6. jobs' \in Seq(Jobs)
    BY <2>1, <2>5, Posted DEF WriterShape
  <2>7. talk' = [talk EXCEPT !.at = "quiet", !.unheard = ~cancelled]
    BY <2>1
  <2>8. WriterShape'
    BY <2>2, <2>6, <2>7 DEF WriterShape, Restrict
  <2> QED
    BY <2>2, <2>8 DEF OpShape, SumShape, HistShape
<1> QED
  BY <1>1, <1>2, <1>3, <1>4, <1>5

(* The summarizer, and its jobs on the memory thread. *)
LEMMA SummarizerShaped ==
    ASSUME MemoryShape,
           SummarizerCounts \/ SummarizerTakes \/ SummarizerAnswered \/ RunSummarizerRead \/ RunSummarizerStore
    PROVE  MemoryShape'
<1> USE DEF MemoryShape
<1>0. [kind |-> "summarizer"] \in Jobs
  BY KindsOfJobs
<1>1. CASE SummarizerCounts
  <2>1. /\ UNCHANGED <<db, stage, restart, resume, booting, jobs, op, current, sess, inFlight, hist>>
        /\ talk' = [talk EXCEPT !.unheard = FALSE] \/ talk' = talk
    BY <1>1 DEF SummarizerCounts
  <2>2. sum'.at = sum.at /\ sum'.job = sum.job /\ DOMAIN sum' = DOMAIN sum
    BY <1>1 DEF SummarizerCounts, SumShape
  <2> QED
    BY <2>1, <2>2 DEF WriterShape, OpShape, SumShape, HistShape
<1>2. CASE SummarizerTakes
  <2>1. jobs' \in Seq(Jobs)
    BY <1>0, <1>2, Posted DEF SummarizerTakes, WriterShape
  <2>2. sess["summarizer"] \in Nat
    BY DEF WriterShape
  <2>3. SumShape'
    BY <1>2, <2>2 DEF SummarizerTakes, SumShape, NoRange, Up
  <2> QED
    BY <1>2, <2>1, <2>3 DEF SummarizerTakes, WriterShape, OpShape, HistShape
<1>3. CASE SummarizerAnswered
  <2>1. jobs' \in Seq(Jobs)
    BY <1>0, <1>3, Posted DEF SummarizerAnswered, WriterShape
  <2>2. SumShape'
    BY <1>3 DEF SummarizerAnswered, SumShape
  <2> QED
    BY <1>3, <2>1, <2>2 DEF SummarizerAnswered, WriterShape, OpShape, HistShape
<1>4. CASE RunSummarizerRead
  <2>1. jobs' \in Seq(Jobs)
    BY <1>4, Taken DEF RunSummarizerRead, WriterShape
  <2>2. PICK snap : /\ snap = Snapshot(sum.job.session)
                    /\ sum' = IF snap.last < snap.first THEN [sum EXCEPT !.at = "idle", !.job = NoRange]
                              ELSE [sum EXCEPT !.at = "asking", !.job = snap]
    BY <1>4 DEF RunSummarizerRead
  <2>3. snap.session \in Nat /\ snap.first \in Nat /\ snap.last \in Nat /\ snap.era \in Nat
    BY <2>2, SnapshotShape DEF SumShape
  <2>a. stage' = stage /\ sum.at = "reading"
    BY <1>4 DEF RunSummarizerRead
  <2>4. SumShape'
    BY <2>2, <2>3, <2>a DEF SumShape, NoRange
  <2> QED
    BY <1>4, <2>1, <2>4 DEF RunSummarizerRead, WriterShape, OpShape, HistShape
<1>5. CASE RunSummarizerStore
  <2>1. jobs' \in Seq(Jobs)
    BY <1>5, Taken DEF RunSummarizerStore, WriterShape
  <2>2. PICK row : row = SummaryRow(sum.job)
    OBVIOUS
  <2>3. row.session \in Nat /\ row.first \in Nat /\ row.last \in Nat /\ row.era \in Nat
    BY <2>2 DEF SummaryRow, SumShape
  <2>4. db' = InsertSummary(db, row)
    BY <1>5, <2>2 DEF RunSummarizerStore
  <2>5. DbShape(db')
    BY <2>3, <2>4, SummaryCall
  <2>6. SumShape'
    BY <1>5 DEF RunSummarizerStore, SumShape, NoRange
  <2>7. DbShape(db)'
    BY <2>5 DEF DbShape
  <2> QED
    BY <1>5, <2>1, <2>6, <2>7 DEF RunSummarizerStore, WriterShape, OpShape, HistShape
<1> QED
  BY <1>1, <1>2, <1>3, <1>4, <1>5

(* The session operations. *)
LEMMA OperationsShaped ==
    ASSUME MemoryShape, SessionJobs, HttpRequest \/ OpCall \/ OpTell \/ RunTurnJob \/ RunSessionJob
    PROVE  MemoryShape'
<1> USE DEF MemoryShape
<1>1. CASE HttpRequest
  <2>1. PICK kind \in AdminOps : \E arg \in IF kind = "wipe_session" THEN DOMAIN db.sessions ELSE {0} :
             op' = Operation(kind, "http", arg)
    BY <1>1 DEF HttpRequest
  <2>2. PICK arg \in IF kind = "wipe_session" THEN DOMAIN db.sessions ELSE {0} :
             op' = Operation(kind, "http", arg)
    BY <2>1
  <2>3. arg \in Nat
    BY <2>2 DEF DbShape
  <2>4. kind \in {"open_initial", "adopt", "roll_over", "wipe_session", "wipe_all"}
    BY <2>1, MemoryAssumption
  <2>5. op' \in Ops
    BY <2>2, <2>3, <2>4, NewOp
  <2>6. HistShape'
    BY <1>1 DEF HttpRequest, HistShape
  <2> QED
    BY <1>1, <2>5, <2>6 DEF HttpRequest, OpShape, WriterShape, SumShape
<1>2. CASE OpCall
  <2>1. jobs' \in Seq(Jobs)
    BY <1>2, KindsOfJobs, Posted DEF OpCall, WriterShape
  <2>2. OpShape'
    BY <1>2 DEF OpCall, OpShape, Ops
  <2> QED
    BY <1>2, <2>1, <2>2 DEF OpCall, WriterShape, SumShape, HistShape
<1>3. CASE OpTell
  <2>0. op \in Ops /\ op.sid \in Nat /\ op.tell \in Telling
    BY <1>3, OpKinds DEF OpTell, OpShape
  <2>1. PICK to : /\ to = Head(op.tell)
                  /\ current' = IF to = "current" THEN op.sid ELSE current
                  /\ sess' = IF to = "current" THEN sess ELSE [sess EXCEPT ![to] = op.sid]
                  /\ op' = IF Len(op.tell) = 1 THEN NoOp ELSE [op EXCEPT !.tell = Tail(@)]
    BY <1>3 DEF OpTell
  <2>2. to \in {"current", "turn_writer", "summarizer"} /\ (Len(op.tell) # 1 => Tail(op.tell) \in Telling)
    BY <2>0, <2>1, TellingOn
  <2>3. OpShape'
    BY <2>0, <2>1, <2>2 DEF OpShape, Ops
  <2>4. current' \in Nat /\ sess' \in [{"turn_writer", "summarizer"} -> Nat]
    BY <2>0, <2>1, <2>2 DEF WriterShape
  <2> QED
    BY <1>3, <2>3, <2>4 DEF OpTell, WriterShape, SumShape, HistShape
<1>4. CASE RunTurnJob
  <2>1. jobs' \in Seq(Jobs) /\ Head(jobs).row \in Rows
    BY <1>4, Taken, KindsOfJobs DEF RunTurnJob, WriterShape
  <2>2. DbShape(db')
    BY <1>4, <2>1, RowCalls DEF RunTurnJob
  <2>3. DbShape(db)'
    BY <2>2 DEF DbShape
  <2> QED
    BY <1>4, <2>1, <2>3 DEF RunTurnJob, WriterShape, OpShape, SumShape, HistShape
<1>5. CASE RunSessionJob
  <2>1. Has(jobs, "session") /\ jobs' \in Seq(Jobs)
    BY <1>5, Taken, TakenKinds DEF RunSessionJob, WriterShape
  <2>2. /\ op \in Ops /\ op.calls # <<>> /\ op.calls \in Ways /\ op.arg \in Nat /\ op # NoOp
        /\ current \in Nat
    BY <2>1, OpKinds DEF SessionJobs, OpShape, WriterShape
  <2>3. PICK call : call = Head(op.calls)
    OBVIOUS
  <2>4. call \in {"insert", "get", "close", "delete", "wipe"} /\ Tail(op.calls) \in Ways
    BY <2>2, <2>3, WaysOn
  <2>5. DbShape(db')
    <3>1. db' = OpDb(call)
      BY <1>5, <2>3 DEF RunSessionJob
    <3>2. DbShape(OpDb(call))
      BY <2>2, <2>4, SessionCalls DEF OpDb
    <3> QED
      BY <3>1, <3>2
  <2>6. op' = NoOp \/ op' \in Ops
    <3>1. op' = OpAfter(call)
      BY <1>5, <2>3 DEF RunSessionJob
    <3>2. [op EXCEPT !.waiting = FALSE, !.calls = Tail(@)] \in Ops
      BY <2>2, <2>4 DEF Ops
    <3>3. db.lastSession + 1 \in Nat
      BY DEF DbShape
    <3>4. \A n \in Nat : [[op EXCEPT !.waiting = FALSE, !.calls = Tail(@)] EXCEPT !.sid = n] \in Ops
      BY <3>2 DEF Ops
    <3> QED
      BY <2>2, <2>4, <3>1, <3>2, <3>3, <3>4 DEF OpAfter
  <2>7. resume' \in Nat
    BY <1>5 DEF RunSessionJob, WriterShape
  <2>8. HistShape'
    BY <1>5 DEF RunSessionJob, HistShape
  <2>9. DbShape(db)' /\ OpShape'
    BY <2>5, <2>6 DEF DbShape, OpShape
  <2> QED
    BY <1>5, <2>1, <2>7, <2>8, <2>9 DEF RunSessionJob, WriterShape, SumShape
<1> QED
  BY <1>1, <1>2, <1>3, <1>4, <1>5

(* main(), the end of the process and the offline command. *)
LEMMA ProcessShaped ==
    ASSUME MemoryShape,
           RunBootJob \/ BootCall \/ BootOperation \/ Start \/ Stop \/ Exit \/ Crash \/ Terminate \/ MemoryCli
    PROVE  MemoryShape'
<1> USE DEF MemoryShape
<1>1. CASE RunBootJob
  <2>1. jobs' \in Seq(Jobs)
    BY <1>1, Taken DEF RunBootJob, WriterShape
  <2>2. PICK row \in Rows : TRUE
    <3>1. [session |-> 0, role |-> "user", turn |-> 0, status |-> "committed", said |-> {}] \in Rows
      BY DEF Rows, Roles
    <3> QED
      BY <3>1
  <2>3. DbShape(ClearRuntimeState(db))
    BY <2>2, RowCalls
  <2>4. /\ db' = db \/ db' = ClearRuntimeState(db)
        /\ stage' \in {"open", "adopt", "clear", "running"}
        /\ resume' \in {resume, db.runtime, 0}
    BY <1>1 DEF RunBootJob
  <2>5. DbShape(db')
    BY <2>3, <2>4
  <2>6. DbShape(db)'
    BY <2>5 DEF DbShape
  <2>7. resume' \in Nat
    BY <2>4 DEF DbShape, WriterShape
  <2> QED
    BY <1>1, <2>1, <2>4, <2>6, <2>7 DEF RunBootJob, OpShape, WriterShape, SumShape, HistShape
<1>2. CASE BootCall
  <2>1. jobs' \in Seq(Jobs)
    BY <1>2, KindsOfJobs, Posted DEF BootCall, WriterShape
  <2> QED
    BY <1>2, <2>1 DEF BootCall, OpShape, WriterShape, SumShape, HistShape
<1>3. CASE BootOperation
  <2>1. Operation("adopt", "main", resume) \in Ops /\ Operation("open_initial", "main", 0) \in Ops
    BY NewOp DEF WriterShape
  <2>2. OpShape'
    BY <1>3, <2>1 DEF BootOperation, OpShape
  <2> QED
    BY <1>3, <2>2 DEF BootOperation, WriterShape, SumShape, HistShape
<1>4. CASE Start
  <2>1. DbShape(db')
    <3>1. [session |-> 0, role |-> "user", turn |-> 0, status |-> "committed", said |-> {}] \in Rows
      BY DEF Rows, Roles
    <3> QED
      BY <1>4, <3>1, RowCalls DEF Start
  <2>2. DbShape(db)'
    BY <2>1 DEF DbShape
  <2> QED
    BY <1>4, <2>2 DEF Start, OpShape, WriterShape, SumShape, HistShape
<1>5. CASE Stop
  BY <1>5 DEF Stop, OpShape, WriterShape, SumShape, HistShape
<1>6. ASSUME Volatile PROVE OpShape' /\ WriterShape' /\ SumShape'
  <2>1. SumShape' /\ OpShape'
    BY <1>6 DEF Volatile, SumShape, OpShape, IdleSummarizer, NoRange
  <2>2. jobs' \in Seq(Jobs)
    BY <1>6 DEF Volatile
  <2>3. sess' \in [{"turn_writer", "summarizer"} -> Nat]
    BY <1>6 DEF Volatile, WriterShape
  <2>4. talk' = [turn |-> talk.turn, at |-> "quiet", sent |-> 0, unheard |-> FALSE]
    BY <1>6 DEF Volatile, Quiet
  <2>5. inFlight' = [id \in {} |-> 0]
    BY <1>6 DEF Volatile, NoRows
  <2>6. /\ talk' \in [turn : Nat, at : {"quiet", "asked", "replying"}, sent : Nat, unheard : BOOLEAN]
        /\ talk'.at # "replying"
    BY <2>4 DEF WriterShape
  <2>7. inFlight' \in [DOMAIN inFlight' -> [sentences : SUBSET Nat, played : SUBSET Nat]]
    BY <2>5
  <2>8. stage' = "down" /\ current' = 0 /\ resume' = 0
    BY <1>6 DEF Volatile
  <2>9. WriterShape'
    BY <2>2, <2>3, <2>6, <2>7, <2>8 DEF WriterShape
  <2> QED
    BY <2>1, <2>9
<1>7. CASE Exit
  <2>1. DbShape(db')
    <3>1. [session |-> 0, role |-> "user", turn |-> 0, status |-> "committed", said |-> {}] \in Rows
      BY DEF Rows, Roles
    <3>2. current \in Nat
      BY DEF WriterShape
    <3> QED
      BY <1>7, <3>1, <3>2, RowCalls DEF Exit
  <2>2. DbShape(db)'
    BY <2>1 DEF DbShape
  <2> QED
    BY <1>6, <1>7, <2>2 DEF Exit, HistShape
<1>8. CASE Crash
  BY <1>6, <1>8 DEF Crash, HistShape
<1>9. CASE Terminate
  BY <1>6, <1>9 DEF Terminate, HistShape
<1>10. CASE MemoryCli
  <2>1. DbShape(db')
    <3>1. [session |-> 0, role |-> "user", turn |-> 0, status |-> "committed", said |-> {}] \in Rows
      BY DEF Rows, Roles
    <3>2. DOMAIN db.turns \subseteq Nat /\ DOMAIN db.sessions \subseteq Nat
      BY DEF DbShape
    <3>3. \A id \in DOMAIN db.turns : DbShape(DeleteTurn(db, id))
      BY <3>1, <3>2, RowCalls
    <3>4. \A id \in DOMAIN db.sessions : DbShape(DeleteSession(db, id))
      BY <3>2, SessionCalls
    <3>5. DbShape(WipeAll(db))
      BY SessionCalls
    <3> QED
      BY <1>10, <3>3, <3>4, <3>5 DEF MemoryCli
  <2>2. DbShape(db)'
    BY <2>1 DEF DbShape
  <2>3. HistShape'
    BY <1>10 DEF MemoryCli, HistShape
  <2> QED
    BY <1>10, <2>2, <2>3 DEF MemoryCli, OpShape, WriterShape, SumShape
<1> QED
  BY <1>1, <1>2, <1>3, <1>4, <1>5, <1>7, <1>8, <1>9, <1>10

(* What a step does to the queue, and which steps touch the jobs of a kind. *)
LEMMA QueueMoves ==
    ASSUME MemoryShape, [Next]_vars
    PROVE  \/ jobs' = jobs
           \/ \E j \in Jobs : /\ jobs' = Append(jobs, j) /\ Accepts
                              /\ j.kind = "session" => OpCall
                              /\ j.kind = "boot" => BootCall
                              /\ j.kind = "turn" => HandleFinal \/ HandleFinished
           \/ /\ jobs # <<>> /\ jobs' = Tail(jobs)
              /\ Head(jobs).kind = "session" => RunSessionJob
              /\ Head(jobs).kind = "boot" => RunBootJob
              /\ Head(jobs).kind = "turn" => RunTurnJob
           \/ jobs' = <<>> /\ Volatile
<1>0. jobs \in Seq(Jobs) /\ WriterShape
  BY DEF MemoryShape, WriterShape
<1>1. CASE HandleStarted \/ HandleSentence \/ HandlePlaybackFinished \/ SummarizerCounts \/ Start \/ Stop
           \/ MemoryCli \/ UNCHANGED vars
  BY <1>1 DEF HandleStarted, HandleSentence, HandlePlaybackFinished, SummarizerCounts, Start, Stop, MemoryCli, vars
<1>2. CASE HttpRequest \/ BootOperation \/ OpTell
  BY <1>2 DEF HttpRequest, BootOperation, OpTell
<1>3. CASE HandleFinal
  <2>0. talk.turn + 1 \in Nat
    BY <1>0 DEF WriterShape
  <2>1. Row("user", talk.turn + 1, "committed", {}) \in Jobs
    BY <1>0, <2>0, MadeRow DEF Roles
  <2>2. jobs' = jobs \/ Post(Row("user", talk.turn + 1, "committed", {}))
    BY <1>3 DEF HandleFinal
  <2>3. Row("user", talk.turn + 1, "committed", {}).kind = "turn"
    BY DEF Row
  <2>4. jobs' = jobs \/ (Accepts /\ jobs' = Append(jobs, Row("user", talk.turn + 1, "committed", {})))
    BY <2>2 DEF Post
  <2> QED
    BY <1>3, <2>1, <2>3, <2>4
<1>4. CASE HandleFinished
  <2>1. PICK cancelled \in BOOLEAN :
          \/ jobs' = jobs
          \/ Post(Row("assistant", talk.turn, IF cancelled THEN "interrupted" ELSE "committed",
                      Persisted(inFlight[talk.turn], cancelled)))
    BY <1>4 DEF HandleFinished
  <2>2. talk.turn \in Nat /\ Persisted(inFlight[talk.turn], cancelled) \in SUBSET Nat
    BY <1>0, <1>4 DEF WriterShape, Persisted, HandleFinished
  <2>3. PICK j : j = Row("assistant", talk.turn, IF cancelled THEN "interrupted" ELSE "committed",
                         Persisted(inFlight[talk.turn], cancelled))
    OBVIOUS
  <2>4. j \in Jobs /\ j.kind = "turn"
    BY <1>0, <2>2, <2>3, MadeRow DEF Roles, Row
  <2>5. jobs' = jobs \/ (Accepts /\ jobs' = Append(jobs, j))
    BY <2>1, <2>3 DEF Post
  <2> QED
    BY <1>4, <2>4, <2>5
<1>5. CASE SummarizerTakes \/ SummarizerAnswered
  <2>1. [kind |-> "summarizer"] \in Jobs
    BY KindsOfJobs
  <2>2. jobs' = jobs \/ (Accepts /\ jobs' = Append(jobs, [kind |-> "summarizer"]))
    BY <1>5 DEF SummarizerTakes, SummarizerAnswered, Post
  <2> QED
    BY <2>1, <2>2
<1>6. CASE BootCall
  <2>1. [kind |-> "boot"] \in Jobs
    BY KindsOfJobs
  <2>2. jobs' = jobs \/ (Accepts /\ jobs' = Append(jobs, [kind |-> "boot"]))
    BY <1>6 DEF BootCall, Post
  <2> QED
    BY <1>6, <2>1, <2>2
<1>7. CASE OpCall
  <2>1. [kind |-> "session"] \in Jobs
    BY KindsOfJobs
  <2>2. jobs' = jobs \/ (Accepts /\ jobs' = Append(jobs, [kind |-> "session"]))
    BY <1>7 DEF OpCall, Post
  <2> QED
    BY <1>7, <2>1, <2>2
<1>8. CASE RunTurnJob \/ RunSummarizerRead \/ RunSummarizerStore \/ RunBootJob \/ RunSessionJob
  BY <1>8 DEF RunTurnJob, RunSummarizerRead, RunSummarizerStore, RunBootJob, RunSessionJob
<1>9. CASE Exit \/ Crash \/ Terminate
  BY <1>9 DEF Exit, Crash, Terminate, Volatile
<1> QED
  BY <1>1, <1>2, <1>3, <1>4, <1>5, <1>6, <1>7, <1>8, <1>9
     DEF Next, MemoryThread, Sessions, SummarizerWorker, Boot

(* What the queue has of a kind stays that, unless it is put there or run. *)
LEMMA KindMoves ==
    ASSUME MemoryShape, [Next]_vars, NEW k \in {"session", "boot"}, Once(jobs, k),
           k = "session" => ~OpCall /\ ~RunSessionJob,
           k = "boot" => ~BootCall /\ ~RunBootJob
    PROVE  Once(jobs', k) /\ (Has(jobs', k) => Has(jobs, k))
<1>0. jobs \in Seq(Jobs)
  BY DEF MemoryShape, WriterShape
<1>1. ASSUME NEW j \in Jobs, j.kind # k, jobs' = Append(jobs, j)
      PROVE  Once(jobs', k) /\ (Has(jobs', k) => Has(jobs, k))
  BY <1>0, <1>1, PostedKinds
<1>2. CASE jobs # <<>> /\ jobs' = Tail(jobs)
  BY <1>0, <1>2, TakenKinds
<1>3. CASE jobs' = <<>>
  BY <1>3 DEF Once, Has
<1> QED
  BY <1>1, <1>2, <1>3, QueueMoves

(* The session jobs. *)
LEMMA SessionJobsKept ==
    ASSUME MemoryShape, SessionJobs, [Next]_vars
    PROVE  SessionJobs'
<1>0. jobs \in Seq(Jobs)
  BY DEF MemoryShape, WriterShape
<1>a. ~OpCall /\ ~RunSessionJob => Once(jobs', "session") /\ (Has(jobs', "session") => Has(jobs, "session"))
  BY KindMoves DEF SessionJobs
<1>1. CASE OpCall
  <2>1. /\ op # NoOp /\ op.calls # <<>> /\ ~op.waiting /\ op \in Ops
        /\ op' = IF Accepts THEN [op EXCEPT !.waiting = TRUE] ELSE NoOp
        /\ jobs' = IF Accepts THEN Append(jobs, [kind |-> "session"]) ELSE jobs
    BY <1>1 DEF OpCall, Post, MemoryShape, OpShape
  <2>2. ~Has(jobs, "session") /\ [kind |-> "session"] \in Jobs
    BY <2>1, KindsOfJobs DEF SessionJobs
  <2>3. CASE Accepts
    <3>1. Once(jobs', "session")
      BY <1>0, <2>1, <2>2, <2>3, PostedKinds
    <3>2. op' \in Ops /\ op'.waiting /\ op'.calls = op.calls
      BY <2>1, <2>3 DEF Ops
    <3> QED
      BY <2>1, <3>1, <3>2, OpKinds DEF SessionJobs
  <2>4. CASE ~Accepts
    BY <2>1, <2>2, <2>4 DEF SessionJobs
  <2> QED
    BY <2>3, <2>4
<1>2. CASE RunSessionJob
  <2>1. jobs # <<>> /\ Head(jobs).kind = "session" /\ jobs' = Tail(jobs) /\ op' = OpAfter(Head(op.calls))
    BY <1>2 DEF RunSessionJob
  <2>2. Has(jobs, "session") /\ ~Has(jobs', "session") /\ Once(jobs', "session")
    BY <1>0, <2>1, TakenKinds DEF SessionJobs
  <2>3. op \in Ops
    BY <2>2 DEF SessionJobs, MemoryShape, OpShape
  <2>4. op' = NoOp \/ op'.waiting = FALSE
    BY <2>1, <2>3 DEF OpAfter, Ops
  <2> QED
    BY <2>2, <2>4 DEF SessionJobs
<1>3. CASE ~OpCall /\ ~RunSessionJob /\ op' = op
  BY <1>3, <1>a DEF SessionJobs
<1>4. CASE ~OpCall /\ ~RunSessionJob /\ op' # op
  <2>1. CASE HttpRequest \/ BootOperation
    <3>1. op = NoOp /\ (op' = NoOp \/ op'.waiting = FALSE)
      BY <2>1 DEF HttpRequest, BootOperation, Operation
    <3> QED
      BY <1>4, <1>a, <3>1 DEF SessionJobs
  <2>2. CASE OpTell
    <3>1. op # NoOp /\ op.calls = <<>> /\ op \in Ops
      BY <2>2 DEF OpTell, MemoryShape, OpShape
    <3>2. op' = NoOp \/ op'.waiting = op.waiting
      BY <2>2, <3>1 DEF OpTell, Ops
    <3> QED
      BY <1>4, <1>a, <3>1, <3>2 DEF SessionJobs
  <2>3. CASE Volatile
    BY <2>3, SMTT(60) DEF SessionJobs, Volatile, Has, Once
  <2>4. HttpRequest \/ BootOperation \/ OpTell \/ Volatile
    BY <1>4 DEF Next, MemoryThread, Sessions, SummarizerWorker, Boot, HandleFinal, HandleStarted,
         HandleSentence, HandlePlaybackFinished, HandleFinished, SummarizerCounts, SummarizerTakes,
         SummarizerAnswered, RunTurnJob, RunSummarizerRead, RunSummarizerStore, RunBootJob, BootCall,
         Start, Stop, Exit, Crash, Terminate, MemoryCli, vars
  <2> QED
    BY <2>1, <2>2, <2>3, <2>4
<1> QED
  BY <1>1, <1>2, <1>3, <1>4

MemoryBase == MemoryShape /\ SessionJobs

(* Initially, and after every step. *)
LEMMA BaseInit == Init => MemoryBase
<1> SUFFICES ASSUME Init PROVE MemoryBase
  OBVIOUS
<1>1. DbShape(db)
  BY EmptyShape DEF Init
<1>2. WriterShape
  BY DEF Init, WriterShape, NoRows, Quiet
<1>3. SumShape /\ OpShape /\ SessionJobs
  BY DEF Init, SumShape, OpShape, IdleSummarizer, NoRange, SessionJobs, Has, Once
<1>4. HistShape
  BY DEF Init, HistShape
<1> QED
  BY <1>1, <1>2, <1>3, <1>4 DEF MemoryBase, MemoryShape

(* Every step keeps the shape. *)
LEMMA BaseKept == MemoryBase /\ [Next]_vars => MemoryBase'
<1> SUFFICES ASSUME MemoryBase, [Next]_vars PROVE MemoryBase'
  OBVIOUS
<1>1. SessionJobs'
  BY SessionJobsKept DEF MemoryBase
<1>2. CASE UNCHANGED vars
  BY <1>2 DEF vars, MemoryBase, MemoryShape, OpShape, WriterShape, SumShape, HistShape, SessionJobs
<1> QED
  BY <1>1, <1>2, WriterShaped, SummarizerShaped, OperationsShaped, ProcessShaped
     DEF MemoryBase, Next, MemoryThread, Sessions, SummarizerWorker, Boot

-----------------------------------------------------------------------------
(* The sessions. *)
AllTold == <<"current", "turn_writer", "summarizer">>

\* The jobs of main().
BootJobs ==
    /\ Once(jobs, "boot")
    /\ Has(jobs, "boot") => booting /\ stage \in {"read", "clear"} /\ op = NoOp

\* How far main() is.
MainInOrder ==
    /\ stage = "down" => jobs = <<>> /\ ~booting
    /\ stage \in {"down", "read", "adopt", "open"} => op = NoOp
    /\ stage = "clear" /\ op # NoOp => op.by = "main" /\ op.calls \in {<<"get">>, <<>>}
    /\ stage \in {"read", "adopt", "clear", "open"} => OpenSessions(db) = {}
    /\ stage \in {"open", "running", "stopping"} => db.runtime = 0

\* How far the operation is.
SessionsFollow ==
    /\ stage # "down" /\ op = NoOp => OpenSessions(db) \subseteq {current}
    /\ op # NoOp =>
         /\ op.calls = <<>> => OpenSessions(db) \subseteq {op.sid}
         /\ op.calls = <<>> /\ op.tell # AllTold => current = op.sid
         /\ op.calls # <<>> => op.tell = AllTold /\ OpenSessions(db) \subseteq {current}
         /\ op.calls \in {<<"insert">>, <<"get">>} => OpenSessions(db) = {}

SessionsInv == BootJobs /\ MainInOrder /\ SessionsFollow

(* What the calls do to the open sessions and to the checkpoint. *)
LEMMA OpenAfter ==
    ASSUME NEW d, DbShape(d), NEW id \in Nat, NEW row
    PROVE  /\ OpenSessions(d) \subseteq Nat \ {0}
           /\ OpenSessions(InsertSession(d)) \subseteq OpenSessions(d) \union {d.lastSession + 1}
           /\ OpenSessions(CloseSession(d, id)) = OpenSessions(d) \ {id}
           /\ OpenSessions(DeleteSession(d, id)) = OpenSessions(d) \ {id}
           /\ OpenSessions(WipeAll(d)) = {}
           /\ OpenSessions(RunRecovery(d)) = {}
           /\ OpenSessions(InsertTurn(d, row)) = OpenSessions(d)
           /\ OpenSessions(InsertSummary(d, row)) = OpenSessions(d)
           /\ OpenSessions(ClearRuntimeState(d)) = OpenSessions(d)
           /\ ClearRuntimeState(d).runtime = 0
           /\ d.runtime = 0 => /\ InsertSession(d).runtime = 0 /\ CloseSession(d, id).runtime = 0
                               /\ DeleteSession(d, id).runtime = 0 /\ WipeAll(d).runtime = 0
                               /\ InsertTurn(d, row).runtime = 0 /\ InsertSummary(d, row).runtime = 0
<1>0. DOMAIN d = Tables /\ DOMAIN d.sessions \subseteq Nat \ {0} /\ d.sessions \in [DOMAIN d.sessions -> SessionRows]
  BY DEF DbShape
<1>1. OpenSessions(d) \subseteq Nat \ {0}
  BY <1>0 DEF OpenSessions
<1>2. OpenSessions(InsertSession(d)) \subseteq OpenSessions(d) \union {d.lastSession + 1}
  <2>1. PICK e : e = InsertSession(d).sessions
    OBVIOUS
  <2>2. e = With(d.sessions, d.lastSession + 1, [open |-> TRUE, era |-> d.lastEra + 1])
    BY <1>0, <2>1, Inserted
  <2>3. \A s \in DOMAIN e : s = d.lastSession + 1 \/ (s \in DOMAIN d.sessions /\ e[s] = d.sessions[s])
    BY <2>2 DEF With
  <2> QED
    BY <2>1, <2>3 DEF OpenSessions
<1>3. OpenSessions(CloseSession(d, id)) = OpenSessions(d) \ {id}
  <2>1. PICK e : e = CloseSession(d, id).sessions
    OBVIOUS
  <2>2. /\ DOMAIN e = DOMAIN d.sessions
        /\ \A s \in DOMAIN d.sessions :
              e[s] = IF s = id THEN [d.sessions[s] EXCEPT !.open = FALSE] ELSE d.sessions[s]
    BY <1>0, <2>1, ClosedRow
  <2>3. \A s \in DOMAIN d.sessions : e[s].open = IF s = id THEN FALSE ELSE d.sessions[s].open
    BY <1>0, <2>2 DEF SessionRows
  <2> QED
    BY <2>1, <2>2, <2>3 DEF OpenSessions
<1>4. OpenSessions(DeleteSession(d, id)) = OpenSessions(d) \ {id}
  <2>1. PICK e : e = DeleteSession(d, id).sessions
    OBVIOUS
  <2>2. e = [s \in DOMAIN d.sessions \ {id} |-> d.sessions[s]]
    BY <1>0, <2>1 DEF DeleteSession, Restrict, Tables
  <2> QED
    BY <2>1, <2>2 DEF OpenSessions
<1>5. OpenSessions(WipeAll(d)) = {} /\ WipeAll(d).runtime = 0
  BY DEF OpenSessions, WipeAll, EmptyTables, NoRows
<1>6. OpenSessions(RunRecovery(d)) = {}
  <2>1. PICK e : e = RunRecovery(d).sessions
    OBVIOUS
  <2>2. DOMAIN e = DOMAIN d.sessions /\ \A s \in DOMAIN d.sessions : e[s] = [d.sessions[s] EXCEPT !.open = FALSE]
    BY <1>0, <2>1, Recovered
  <2>3. \A s \in DOMAIN d.sessions : ~e[s].open
    BY <1>0, <2>2 DEF SessionRows
  <2> QED
    BY <2>1, <2>2, <2>3 DEF OpenSessions
<1>7. InsertTurn(d, row).sessions = d.sessions /\ InsertTurn(d, row).runtime = d.runtime
  <2>1. PICK e : e = InsertTurn(d, row)
    OBVIOUS
  <2>2. OnlyIn({"turns", "lastTurn"}, d, e)
    BY <1>0, <2>1, TurnRow
  <2> QED
    BY <2>1, <2>2 DEF OnlyIn, Tables
<1>8. InsertSummary(d, row).sessions = d.sessions /\ InsertSummary(d, row).runtime = d.runtime
  BY <1>0, SummaryInserted DEF OnlyIn, Tables
<1>9. ClearRuntimeState(d).sessions = d.sessions /\ ClearRuntimeState(d).runtime = 0
  BY <1>0 DEF ClearRuntimeState, Tables
<1>10. InsertSession(d).runtime = d.runtime
  BY <1>0, Inserted DEF OnlyIn, Tables
<1>11. CloseSession(d, id).runtime = d.runtime
  BY <1>0, ClosedRow DEF OnlyIn, Tables
<1>12. DeleteSession(d, id).runtime = IF d.runtime = id THEN 0 ELSE d.runtime
  BY <1>0, DeletedRow
<1>13. /\ OpenSessions(InsertTurn(d, row)) = OpenSessions(d)
       /\ OpenSessions(InsertSummary(d, row)) = OpenSessions(d)
       /\ OpenSessions(ClearRuntimeState(d)) = OpenSessions(d)
  BY <1>7, <1>8, <1>9 DEF OpenSessions
<1> QED
  BY <1>1, <1>2, <1>3, <1>4, <1>5, <1>6, <1>7, <1>8, <1>9, <1>10, <1>11, <1>12, <1>13

(* The jobs of main(). *)
LEMMA BootJobsKept ==
    ASSUME MemoryBase, SessionsInv, ~HttpDuringBoot, [Next]_vars
    PROVE  BootJobs'
<1>0. jobs \in Seq(Jobs) /\ BootJobs /\ MemoryShape /\ MainInOrder
  BY DEF MemoryBase, MemoryShape, WriterShape, SessionsInv
<1>a. ~BootCall /\ ~RunBootJob => Once(jobs', "boot") /\ (Has(jobs', "boot") => Has(jobs, "boot"))
  BY <1>0, KindMoves DEF BootJobs
<1>1. CASE BootCall
  <2>1. /\ stage \in {"read", "clear"} /\ ~booting /\ ~MainBusy /\ booting' = TRUE
        /\ UNCHANGED <<stage, op>> /\ jobs' = IF Accepts THEN Append(jobs, [kind |-> "boot"]) ELSE jobs
    BY <1>1 DEF BootCall, Post
  <2>2. op = NoOp
    BY <1>0, <2>1 DEF MainInOrder, MainBusy
  <2>3. ~Has(jobs, "boot") /\ [kind |-> "boot"] \in Jobs
    BY <1>0, <2>1, KindsOfJobs DEF BootJobs
  <2>4. Once(jobs', "boot")
    BY <1>0, <2>1, <2>3, PostedKinds DEF BootJobs
  <2> QED
    BY <2>1, <2>2, <2>4 DEF BootJobs
<1>2. CASE RunBootJob
  <2>1. jobs # <<>> /\ Head(jobs).kind = "boot" /\ jobs' = Tail(jobs)
    BY <1>2 DEF RunBootJob
  <2>2. ~Has(jobs', "boot") /\ Once(jobs', "boot")
    BY <1>0, <2>1, TakenKinds DEF BootJobs
  <2> QED
    BY <2>2 DEF BootJobs
<1>3. CASE ~BootCall /\ ~RunBootJob /\ UNCHANGED <<stage, booting, op>>
  BY <1>0, <1>3, <1>a DEF BootJobs
<1>4. CASE ~BootCall /\ ~RunBootJob /\ ~UNCHANGED <<stage, booting, op>>
  <2>1. CASE Volatile
    BY <2>1 DEF Volatile, BootJobs, Has, Once
  <2>2. CASE HttpRequest \/ BootOperation \/ OpTell \/ OpCall \/ RunSessionJob \/ Start \/ Stop
    <3>1. ~Has(jobs, "boot")
      <4>1. CASE HttpRequest \/ BootOperation \/ Start \/ Stop
        BY <1>0, <4>1 DEF HttpRequest, Serving, BootOperation, Start, Stop, BootJobs
      <4>2. CASE OpTell \/ OpCall
        BY <1>0, <4>2 DEF OpTell, OpCall, BootJobs
      <4>3. CASE RunSessionJob
        <5>1. Has(jobs, "session")
          BY <1>0, <4>3, TakenKinds, SMTT(60) DEF RunSessionJob
        <5> QED
          BY <1>0, <5>1 DEF MemoryBase, SessionJobs, BootJobs
      <4> QED
        BY <2>2, <4>1, <4>2, <4>3
    <3> QED
      BY <1>4, <1>a, <3>1 DEF BootJobs
  <2>3. Volatile \/ HttpRequest \/ BootOperation \/ OpTell \/ OpCall \/ RunSessionJob \/ Start \/ Stop
    BY <1>4 DEF Next, MemoryThread, Sessions, SummarizerWorker, Boot, HandleFinal, HandleStarted,
         HandleSentence, HandlePlaybackFinished, HandleFinished, SummarizerCounts, SummarizerTakes,
         SummarizerAnswered, RunTurnJob, RunSummarizerRead, RunSummarizerStore,
         Exit, Crash, Terminate, MemoryCli, vars
  <2> QED
    BY <2>1, <2>2, <2>3
<1> QED
  BY <1>1, <1>2, <1>3, <1>4

(* Steps that leave the operation, the session and main() where they are. *)
LEMMA SessionsElsewhere ==
    ASSUME SessionsInv, UNCHANGED <<stage, booting, op, current>>,
           OpenSessions(db') = OpenSessions(db), db.runtime = 0 => db'.runtime = 0,
           stage # "down" \/ jobs' = jobs
    PROVE  MainInOrder' /\ SessionsFollow'
<1>1. OpenSessions(db)' = OpenSessions(db)
  BY DEF OpenSessions
<1> QED
  BY <1>1 DEF SessionsInv, MainInOrder, SessionsFollow

(* The steps that leave the sessions alone. *)
LEMMA SessionsQuiet ==
    ASSUME MemoryBase, SessionsInv,
           \/ HandleFinal \/ HandleStarted \/ HandleSentence \/ HandlePlaybackFinished \/ HandleFinished
           \/ SummarizerCounts \/ SummarizerTakes \/ SummarizerAnswered
           \/ RunTurnJob \/ RunSummarizerRead \/ RunSummarizerStore \/ UNCHANGED vars
    PROVE  MainInOrder' /\ SessionsFollow'
<1>0. DbShape(db) /\ SessionsInv /\ MainInOrder
  BY DEF MemoryBase, MemoryShape, SessionsInv
<1>1. CASE \/ HandleFinal \/ HandleStarted \/ HandleSentence \/ HandlePlaybackFinished \/ HandleFinished
           \/ SummarizerCounts
  <2>1. UNCHANGED <<db, stage, booting, op, current>> /\ stage # "down"
    BY <1>1 DEF HandleFinal, HandleStarted, HandleSentence, HandlePlaybackFinished, HandleFinished,
                SummarizerCounts, Up
  <2> QED
    BY <1>0, <2>1, SessionsElsewhere, SMTT(60)
<1>2. CASE SummarizerTakes \/ RunSummarizerRead \/ UNCHANGED vars
  <2>1. UNCHANGED <<db, stage, booting, op, current>> /\ (stage # "down" \/ jobs' = jobs)
    BY <1>0, <1>2 DEF SummarizerTakes, RunSummarizerRead, vars, Up, MainInOrder
  <2> QED
    BY <1>0, <2>1, SessionsElsewhere
<1>3. CASE SummarizerAnswered
  <2>1. UNCHANGED <<db, stage, booting, op, current>> /\ stage # "down"
    BY <1>3 DEF SummarizerAnswered, MemoryBase, MemoryShape, SumShape
  <2> QED
    BY <1>0, <2>1, SessionsElsewhere
<1>4. CASE RunTurnJob \/ RunSummarizerStore
  <2>1. UNCHANGED <<stage, booting, op, current>> /\ stage # "down"
    BY <1>0, <1>4 DEF RunTurnJob, RunSummarizerStore, MainInOrder
  <2>2. \E row : db' = InsertTurn(db, row) \/ db' = InsertSummary(db, row)
    BY <1>4 DEF RunTurnJob, RunSummarizerStore
  <2>3. OpenSessions(db') = OpenSessions(db) /\ (db.runtime = 0 => db'.runtime = 0)
    BY <1>0, <2>2, OpenAfter
  <2> QED
    BY <1>0, <2>1, <2>3, SessionsElsewhere
<1> QED
  BY <1>1, <1>2, <1>3, <1>4

(* The operations: what is open follows the calls that are left. *)
LEMMA SessionsOperate ==
    ASSUME MemoryBase, SessionsInv, ~HttpDuringBoot, HttpRequest \/ OpCall \/ OpTell
    PROVE  MainInOrder' /\ SessionsFollow'
<1>0. /\ DbShape(db) /\ MainInOrder /\ SessionsFollow /\ current \in Nat /\ OpShape
      /\ OpenSessions(db) \subseteq Nat \ {0}
  BY OpenAfter DEF MemoryBase, MemoryShape, SessionsInv, WriterShape
<1>1. CASE HttpRequest
  <2>0. /\ op = NoOp /\ stage \in {"running", "stopping"} /\ UNCHANGED <<db, stage, booting, jobs, current>>
    BY <1>1 DEF HttpRequest, Serving
  <2>1. PICK kind \in AdminOps : \E arg \in IF kind = "wipe_session" THEN DOMAIN db.sessions ELSE {0} :
             op' = Operation(kind, "http", arg)
    BY <1>1 DEF HttpRequest
  <2>2. PICK arg \in IF kind = "wipe_session" THEN DOMAIN db.sessions ELSE {0} :
             op' = Operation(kind, "http", arg)
    BY <2>1
  <2>3. arg \in Nat /\ kind \in {"roll_over", "wipe_session", "wipe_all"}
    BY <1>0, <2>1, <2>2, MemoryAssumption DEF DbShape
  <2>4. /\ op' # NoOp /\ op'.calls # <<>>
        /\ op'.calls = <<"insert">> => current = 0
        /\ op'.calls # <<"get">>
    BY <2>2, <2>3, NewOp
  <2>5. op'.tell = AllTold
    BY <2>2 DEF Operation, AllTold
  <2>6. OpenSessions(db) \subseteq {current}
    BY <1>0, <2>0 DEF SessionsFollow
  <2>7. current = 0 => OpenSessions(db) = {}
    BY <1>0, <2>6
  <2>8. OpenSessions(db)' = OpenSessions(db)
    BY <2>0
  <2> QED
    BY <1>0, <2>0, <2>4, <2>5, <2>6, <2>7, <2>8 DEF MainInOrder, SessionsFollow
<1>2. CASE OpCall
  <2>0. /\ op # NoOp /\ op.calls # <<>> /\ op \in Ops /\ UNCHANGED <<db, stage, booting, current>>
        /\ op' = NoOp \/ op' = [op EXCEPT !.waiting = TRUE]
    BY <1>0, <1>2 DEF OpCall, OpShape
  <2>1. stage # "down"
    BY <1>0, <2>0 DEF MainInOrder
  <2>2. OpenSessions(db)' = OpenSessions(db) /\ OpenSessions(db) \subseteq {current}
    BY <1>0, <2>0 DEF SessionsFollow
  <2>3. CASE op' = NoOp
    BY <1>0, <2>0, <2>1, <2>2, <2>3 DEF MainInOrder, SessionsFollow
  <2>4. CASE op' = [op EXCEPT !.waiting = TRUE]
    <3>1. op' \in Ops /\ op'.calls = op.calls /\ op'.tell = op.tell /\ op'.by = op.by /\ op'.sid = op.sid
      BY <2>0, <2>4 DEF Ops
    <3>2. op' # NoOp
      BY <3>1, OpKinds
    <3> QED
      BY <1>0, <2>0, <2>1, <2>2, <3>1, <3>2 DEF MainInOrder, SessionsFollow
  <2> QED
    BY <2>0, <2>3, <2>4
<1>3. CASE OpTell
  <2>0. /\ op # NoOp /\ op.calls = <<>> /\ op \in Ops /\ UNCHANGED <<db, stage, booting, jobs>>
        /\ op.tell \in Telling
    BY <1>0, <1>3, OpKinds DEF OpTell, OpShape
  <2>1. /\ current' = IF Head(op.tell) = "current" THEN op.sid ELSE current
        /\ op' = IF Len(op.tell) = 1 THEN NoOp ELSE [op EXCEPT !.tell = Tail(@)]
    BY <1>3 DEF OpTell
  <2>2. /\ Len(op.tell) # 1 => Tail(op.tell) # AllTold
        /\ Head(op.tell) = "current" <=> op.tell = AllTold
    BY <2>0, TellingOn DEF AllTold
  <2>3. stage # "down"
    BY <1>0, <2>0 DEF MainInOrder
  <2>4. current' = op.sid
    BY <1>0, <2>0, <2>1, <2>2 DEF SessionsFollow
  <2>5. OpenSessions(db)' = OpenSessions(db) /\ OpenSessions(db) \subseteq {op.sid}
    BY <1>0, <2>0 DEF SessionsFollow
  <2>6. CASE Len(op.tell) = 1
    BY <1>0, <2>0, <2>1, <2>3, <2>4, <2>5, <2>6 DEF MainInOrder, SessionsFollow
  <2>7. CASE Len(op.tell) # 1
    <3>1. op'.calls = <<>> /\ op'.sid = op.sid /\ op'.by = op.by
      BY <2>0, <2>1, <2>7 DEF Ops
    <3>2. op' # NoOp
      BY <2>0, <2>1, <2>7 DEF Ops, NoOp
    <3>3. op'.calls # <<"insert">> /\ op'.calls # <<"get">>
      BY <3>1
    <3> QED
      BY <1>0, <2>0, <2>3, <2>4, <2>5, <3>1, <3>2, <3>3 DEF MainInOrder, SessionsFollow
  <2> QED
    BY <2>6, <2>7
<1> QED
  BY <1>1, <1>2, <1>3

(* A call of the operation on the memory thread. *)
LEMMA SessionsCalled ==
    ASSUME MemoryBase, SessionsInv, RunSessionJob
    PROVE  MainInOrder' /\ SessionsFollow'
<1>0. DbShape(db) /\ MainInOrder /\ SessionsFollow /\ current \in Nat /\ OpShape
  BY DEF MemoryBase, MemoryShape, SessionsInv, WriterShape
<1>1. jobs \in Seq(Jobs) /\ Has(jobs, "session")
  BY TakenKinds DEF RunSessionJob, MemoryBase, MemoryShape, WriterShape
<1>2. op \in Ops /\ op # NoOp /\ op.calls # <<>> /\ op.calls \in Ways /\ op.arg \in Nat
  BY <1>0, <1>1, OpKinds DEF MemoryBase, SessionJobs, OpShape
<1>3. op.tell = AllTold /\ OpenSessions(db) \subseteq {current}
      /\ (op.calls \in {<<"insert">>, <<"get">>} => OpenSessions(db) = {})
  BY <1>0, <1>2 DEF SessionsFollow
<1>4. stage # "down" /\ stage \notin {"read", "adopt", "open"}
  BY <1>0, <1>2 DEF MainInOrder
<1>5. PICK call : call = Head(op.calls)
  OBVIOUS
<1>6. UNCHANGED <<stage, booting, current>> /\ db' = OpDb(call) /\ op' = OpAfter(call)
  BY <1>5 DEF RunSessionJob
<1>7. /\ call \in {"insert", "get", "close", "delete", "wipe"}
      /\ call \in {"insert", "get"} => Tail(op.calls) = <<>> /\ op.calls = <<call>>
      /\ call \in {"close", "delete", "wipe"} => Tail(op.calls) = <<"insert">> /\ Len(op.calls) = 2
  BY <1>2, <1>5, WaysOn
<1>b. PICK rest : rest = [op EXCEPT !.waiting = FALSE, !.calls = Tail(@)]
  OBVIOUS
<1>8. /\ rest = [op EXCEPT !.waiting = FALSE, !.calls = Tail(@)]
      /\ rest.calls = Tail(op.calls) /\ rest.tell = op.tell /\ rest.by = op.by
      /\ DOMAIN rest = DOMAIN op
  BY <1>2, <1>b DEF Ops
<1>a. /\ {"by", "sid", "tell", "calls"} \subseteq DOMAIN op /\ DOMAIN NoOp = {"kind"}
      /\ "sid" \in DOMAIN op /\ "sid" \notin DOMAIN NoOp
  BY <1>2 DEF Ops, NoOp
<1>9. \A n : /\ [rest EXCEPT !.sid = n].calls = rest.calls /\ [rest EXCEPT !.sid = n].tell = rest.tell
             /\ [rest EXCEPT !.sid = n].by = rest.by /\ [rest EXCEPT !.sid = n].sid = n
             /\ [rest EXCEPT !.sid = n] # NoOp /\ rest # NoOp
  <2>1. rest # NoOp
    BY <1>8, <1>a
  <2> SUFFICES ASSUME NEW n, NEW o, o = [rest EXCEPT !.sid = n]
               PROVE  o.calls = rest.calls /\ o.tell = rest.tell /\ o.by = rest.by /\ o.sid = n /\ o # NoOp
    BY <2>1, Zenon
  <2>2. DOMAIN o = DOMAIN op
    BY <1>8
  <2>3. o # NoOp
    BY <1>a, <2>2
  <2> QED
    BY <1>8, <1>a, <2>3
<1>10. OpenSessions(db)' = OpenSessions(db')
  BY DEF OpenSessions
<1>11. stage = "clear" => op.calls = <<"get">> /\ op.by = "main"
  BY <1>0, <1>2 DEF MainInOrder
<1>12. <<"insert">> # <<>> /\ <<"get">> # <<>> /\ <<"insert">> # <<"get">> /\ Len(<<"get">>) = 1
  OBVIOUS
<1>13. CASE call = "insert"
  <2>1. op' = [rest EXCEPT !.sid = db.lastSession + 1] /\ db' = InsertSession(db)
    BY <1>6, <1>8, <1>13 DEF OpAfter, OpDb
  <2>2. op.calls = <<"insert">> /\ rest.calls = <<>>
    BY <1>7, <1>8, <1>13
  <2>3. OpenSessions(db') \subseteq {db.lastSession + 1}
    BY <1>0, <1>3, <2>1, <2>2, OpenAfter
  <2>4. db.runtime = 0 => db'.runtime = 0
    BY <1>0, <2>1, OpenAfter
  <2>5. stage # "clear"
    BY <1>11, <1>12, <2>2
  <2>6. op' # NoOp /\ op'.calls = <<>> /\ op'.sid = db.lastSession + 1 /\ op'.tell = AllTold
    BY <1>3, <1>8, <1>9, <2>1, <2>2
  <2>7. MainInOrder'
    BY <1>0, <1>4, <1>6, <2>4, <2>5 DEF MainInOrder
  <2>8. SessionsFollow'
    BY <1>10, <1>12, <2>3, <2>6 DEF SessionsFollow
  <2> QED
    BY <2>7, <2>8
<1>14. CASE call = "get"
  <2>1. db' = db /\ op.calls = <<"get">> /\ rest.calls = <<>> /\ OpenSessions(db) = {}
    BY <1>3, <1>6, <1>7, <1>8, <1>14 DEF OpDb
  <2>2. op' = NoOp \/ op' = [rest EXCEPT !.sid = op.arg]
    BY <1>6, <1>8, <1>14 DEF OpAfter
  <2>3. op' # NoOp => op'.calls = <<>> /\ op'.tell = AllTold /\ op'.by = op.by
    BY <1>3, <1>8, <1>9, <2>1, <2>2, ZenonT(60)
  <2>4. OpenSessions(db)' = {}
    BY <2>1, <1>10
  <2>5. MainInOrder'
    BY <1>0, <1>4, <1>6, <1>11, <2>1, <2>3, <2>4 DEF MainInOrder
  <2>6. SessionsFollow'
    BY <1>12, <2>3, <2>4 DEF SessionsFollow
  <2> QED
    BY <2>5, <2>6
<1>15. CASE call \in {"close", "delete", "wipe"}
  <2>1. stage # "clear" /\ rest.calls = <<"insert">>
    BY <1>7, <1>8, <1>11, <1>12, <1>15
  <2>2. op' = rest \/ (op' = NoOp /\ call = "delete" /\ op.arg # current)
    BY <1>6, <1>8, <1>15 DEF OpAfter
  <2>3. \/ call = "close" /\ db' = CloseSession(db, current)
        \/ call = "delete" /\ db' = DeleteSession(db, op.arg)
        \/ call = "wipe" /\ db' = WipeAll(db)
    BY <1>6, <1>15 DEF OpDb
  <2>4. db.runtime = 0 => db'.runtime = 0
    BY <1>0, <1>2, <2>3, OpenAfter
  <2>5. /\ OpenSessions(db') \subseteq {current}
        /\ (call = "delete" /\ op.arg # current) \/ OpenSessions(db') = {}
    BY <1>0, <1>2, <1>3, <2>3, OpenAfter, SMTT(60)
  <2>6. MainInOrder'
    BY <1>0, <1>4, <1>6, <2>1, <2>4 DEF MainInOrder
  <2>7. CASE op' = NoOp
    BY <1>6, <1>10, <2>5, <2>6, <2>7 DEF SessionsFollow
  <2>8. CASE op' = rest /\ ~(call = "delete" /\ op.arg # current)
    BY <1>3, <1>6, <1>8, <1>9, <1>10, <1>12, <2>1, <2>5, <2>6, <2>8 DEF SessionsFollow
  <2>9. op' = NoOp \/ ~(call = "delete" /\ op.arg # current)
    BY <1>6 DEF OpAfter
  <2> QED
    BY <2>2, <2>7, <2>8, <2>9
<1> QED
  BY <1>7, <1>13, <1>14, <1>15

(* main() and the process. *)
LEMMA SessionsBoot ==
    ASSUME MemoryBase, SessionsInv,
           RunBootJob \/ BootCall \/ BootOperation \/ Start \/ Stop \/ Exit \/ Crash \/ Terminate \/ MemoryCli
    PROVE  MainInOrder' /\ SessionsFollow'
<1>0. DbShape(db) /\ MainInOrder /\ SessionsFollow /\ BootJobs /\ current \in Nat /\ resume \in Nat /\ OpShape
  BY DEF MemoryBase, MemoryShape, SessionsInv, WriterShape
<1>1. CASE RunBootJob
  <2>1. Has(jobs, "boot")
    BY <1>1, TakenKinds DEF RunBootJob, MemoryBase, MemoryShape, WriterShape
  <2>2. op = NoOp /\ stage \in {"read", "clear"}
    BY <1>0, <2>1 DEF BootJobs
  <2>3. OpenSessions(db) = {} /\ UNCHANGED <<op, current>> /\ stage' # "down"
    BY <1>0, <1>1, <2>2 DEF MainInOrder, RunBootJob
  <2>4. /\ db' = db \/ db' = ClearRuntimeState(db)
        /\ stage' \in {"open", "running"} => db'.runtime = 0
        /\ stage' \in {"open", "running", "adopt", "clear"}
    BY <1>0, <1>1, OpenAfter DEF RunBootJob
  <2>5. OpenSessions(db') = {}
    BY <1>0, <2>3, <2>4, OpenAfter
  <2>6. OpenSessions(db)' = {}
    BY <2>5 DEF OpenSessions
  <2> QED
    BY <2>2, <2>3, <2>4, <2>6 DEF MainInOrder, SessionsFollow
<1>2. CASE BootCall
  <2>1. stage # "down" /\ UNCHANGED <<db, stage, op, current>>
    BY <1>2 DEF BootCall
  <2> QED
    BY <1>0, <2>1 DEF MainInOrder, SessionsFollow, OpenSessions
<1>3. CASE BootOperation
  <2>1. op = NoOp /\ UNCHANGED <<db, booting, jobs, current>> /\ stage \in {"adopt", "open"}
    BY <1>3 DEF BootOperation
  <2>2. OpenSessions(db) = {} /\ OpenSessions(db)' = OpenSessions(db)
    BY <1>0, <2>1 DEF MainInOrder
  <2>3. CASE stage = "adopt"
    <3>1. op' = Operation("adopt", "main", resume) /\ stage' = "clear"
      BY <1>3, <2>3 DEF BootOperation
    <3>2. op' # NoOp /\ op'.calls = <<"get">> /\ op'.by = "main"
      BY <1>0, <3>1, NewOp
    <3>3. op'.tell = AllTold
      BY <3>1 DEF Operation, AllTold
    <3>4. <<"get">> # <<>>
      OBVIOUS
    <3> QED
      BY <2>2, <3>1, <3>2, <3>3, <3>4 DEF MainInOrder, SessionsFollow
  <2>4. CASE stage = "open"
    <3>1. stage' = "running" /\ (op' = NoOp \/ op' = Operation("open_initial", "main", 0))
      BY <1>3, <2>1, <2>4 DEF BootOperation
    <3>2. op' # NoOp => op'.calls = <<"insert">>
      BY <3>1, NewOp
    <3>3. op' # NoOp => op'.tell = AllTold
      BY <3>1 DEF Operation, AllTold
    <3>4. <<"insert">> # <<>>
      OBVIOUS
    <3>5. db'.runtime = 0
      BY <1>0, <2>1, <2>4 DEF MainInOrder
    <3> QED
      BY <2>2, <3>1, <3>2, <3>3, <3>4, <3>5 DEF MainInOrder, SessionsFollow
  <2> QED
    BY <2>1, <2>3, <2>4
<1>4. CASE Start
  <2>1. stage = "down" /\ stage' = "read" /\ db' = RunRecovery(db) /\ UNCHANGED <<op, current>>
    BY <1>4 DEF Start
  <2>2. op = NoOp
    BY <1>0, <2>1 DEF MainInOrder
  <2>3. OpenSessions(db') = {}
    BY <1>0, <2>1, OpenAfter
  <2>4. OpenSessions(db)' = {}
    BY <2>3 DEF OpenSessions
  <2> QED
    BY <2>1, <2>2, <2>4 DEF MainInOrder, SessionsFollow
<1>5. CASE Stop
  <2>1. stage = "running" /\ stage' = "stopping" /\ UNCHANGED <<db, op, current>>
    BY <1>5 DEF Stop
  <2> QED
    BY <1>0, <2>1 DEF MainInOrder, SessionsFollow, OpenSessions
<1>6. CASE Exit \/ Crash \/ Terminate
  <2>1. stage' = "down" /\ op' = NoOp /\ jobs' = <<>> /\ booting' = FALSE
    BY <1>6 DEF Exit, Crash, Terminate, Volatile
  <2> QED
    BY <2>1 DEF MainInOrder, SessionsFollow
<1>7. CASE MemoryCli
  <2>1. stage = "down" /\ UNCHANGED <<stage, booting, jobs, op>>
    BY <1>7 DEF MemoryCli
  <2> QED
    BY <1>0, <2>1 DEF MainInOrder, SessionsFollow
<1> QED
  BY <1>1, <1>2, <1>3, <1>4, <1>5, <1>6, <1>7

(* For any number of turns, operations, restarts and edits, any size of    *)
(* the queue and any threshold: once the program runs and no operation is  *)
(* under way, no session but the current one is open, and the checkpoint   *)
(* was used up (session.cpp, recovery.cpp, session_resume.cpp).  Requests  *)
(* during start-up are excluded, as in the run: with them it is false.     *)
THEOREM OneSessionIsOpen == ~HttpDuringBoot => (MemorySafety => []OneOpenSession)
<1> SUFFICES ASSUME ~HttpDuringBoot PROVE MemorySafety => []OneOpenSession
  OBVIOUS
<1> DEFINE Inv == MemoryBase /\ SessionsInv
<1>1. Init => Inv
  <2> SUFFICES ASSUME Init PROVE SessionsInv
    BY BaseInit
  <2>1. jobs = <<>> /\ stage = "down" /\ op = NoOp /\ booting = FALSE
    BY DEF Init
  <2> QED
    BY <2>1 DEF SessionsInv, BootJobs, MainInOrder, SessionsFollow, Has, Once
<1>2. Inv /\ [Next]_vars => Inv'
  <2> SUFFICES ASSUME MemoryBase, SessionsInv, [Next]_vars PROVE SessionsInv'
    BY BaseKept
  <2>1. BootJobs'
    BY BootJobsKept
  <2>2. MainInOrder' /\ SessionsFollow'
    BY SessionsQuiet, SessionsOperate, SessionsCalled, SessionsBoot
       DEF Next, MemoryThread, Sessions, SummarizerWorker, Boot
  <2> QED
    BY <2>1, <2>2 DEF SessionsInv
<1>3. Inv => OneOpenSession
  BY DEF SessionsInv, MainInOrder, SessionsFollow, OneOpenSession
<1> QED
  BY <1>1, <1>2, <1>3, PTL DEF MemorySafety

-----------------------------------------------------------------------------
(* The dialogue. *)
\* The place of a row in the dialogue: its turn, the question before the reply.
Key(row) == 2 * row.turn + (IF row.role = "assistant" THEN 1 ELSE 0)

\* How far the dialogue is in this order.
Reached == 2 * talk.turn + (IF talk.at = "quiet" THEN 1 ELSE 0)

\* A row has what was heard, H being the sentences played to their end.
HeardSo(row, H) ==
    row.role = "assistant" =>
        IF row.status = "interrupted"
        THEN row.said # {} /\ \A s \in row.said : <<row.turn, s>> \in H
        ELSE row.said = 0 .. Cardinality(row.said) - 1

\* The rows stored and then those queued have what was heard, in the order
\* of the dialogue up to the place L.
RowsGood(tab, H, L) ==
    /\ \A t \in DOMAIN tab : HeardSo(tab[t], H) /\ Key(tab[t]) <= L
    /\ \A t, u \in DOMAIN tab : t < u => Key(tab[t]) < Key(tab[u])
JobsGood(q, H, L) ==
    /\ \A i \in DOMAIN q : q[i].kind = "turn" => HeardSo(q[i].row, H) /\ Key(q[i].row) <= L
    /\ \A i, j \in DOMAIN q :
          i < j /\ q[i].kind = "turn" /\ q[j].kind = "turn" => Key(q[i].row) < Key(q[j].row)
JobsLater(tab, q) ==
    \A t \in DOMAIN tab, i \in DOMAIN q : q[i].kind = "turn" => Key(tab[t]) < Key(q[i].row)
Good(tab, q, H, L) == RowsGood(tab, H, L) /\ JobsGood(q, H, L) /\ JobsLater(tab, q)

TableOf(tab, n) == tab \in [DOMAIN tab -> Rows] /\ DOMAIN tab \subseteq 1 .. n

(* The place of a row is a number. *)
LEMMA KeyType == ASSUME NEW r \in Rows PROVE Key(r) \in Nat
  BY DEF Key, Rows

(* More is heard, and the dialogue goes on. *)
LEMMA GoodGrows ==
    ASSUME NEW n \in Nat, NEW tab, TableOf(tab, n), NEW q \in Seq(Jobs), NEW H, NEW K, H \subseteq K,
           NEW L \in Nat, NEW M \in Nat, L <= M, Good(tab, q, H, L)
    PROVE  Good(tab, q, K, M)
<1>1. \A r : HeardSo(r, H) => HeardSo(r, K)
  BY DEF HeardSo
<1>2. \A r \in Rows : Key(r) <= L => Key(r) <= M
  BY KeyType
<1>3. \A t \in DOMAIN tab : tab[t] \in Rows
  BY DEF TableOf
<1>4. \A i \in DOMAIN q : q[i].kind = "turn" => q[i].row \in Rows
  BY KindsOfJobs
<1>5. RowsGood(tab, K, M)
  BY <1>1, <1>2, <1>3 DEF Good, RowsGood
<1>6. JobsGood(q, K, M)
  BY <1>1, <1>2, <1>4 DEF Good, JobsGood
<1> QED
  BY <1>5, <1>6 DEF Good

(* A job is queued. *)
LEMMA GoodPosted ==
    ASSUME NEW n \in Nat, NEW tab, TableOf(tab, n), NEW q \in Seq(Jobs), NEW H, NEW L \in Nat, NEW M \in Nat,
           L <= M, Good(tab, q, H, L), NEW j \in Jobs,
           j.kind = "turn" => HeardSo(j.row, H) /\ L < Key(j.row) /\ Key(j.row) <= M
    PROVE  Good(tab, Append(q, j), H, M)
<1> DEFINE r == Append(q, j)
<1>1. /\ DOMAIN q = 1 .. Len(q) /\ Len(q) \in Nat /\ DOMAIN r = 1 .. Len(q) + 1
      /\ \A i \in 1 .. Len(q) : r[i] = q[i]
      /\ r[Len(q) + 1] = j
  OBVIOUS
<1> HIDE DEF r
<1>2. \A i \in DOMAIN r : (i \in DOMAIN q /\ r[i] = q[i] /\ i < Len(q) + 1) \/ (i = Len(q) + 1 /\ r[i] = j)
  BY <1>1
<1>3. \A i \in DOMAIN q : q[i].kind = "turn" => q[i].row \in Rows /\ Key(q[i].row) \in Nat
  BY KindsOfJobs, KeyType
<1>4. j.kind = "turn" => Key(j.row) \in Nat
  BY KindsOfJobs, KeyType
<1>5. \A t \in DOMAIN tab : Key(tab[t]) \in Nat
  BY KeyType DEF TableOf
<1>6. Good(tab, q, H, M)
  BY GoodGrows
<1>7. JobsGood(r, H, M)
  <2>1. ASSUME NEW i \in DOMAIN r, r[i].kind = "turn" PROVE HeardSo(r[i].row, H) /\ Key(r[i].row) <= M
    BY <1>2, <1>6, <2>1 DEF Good, JobsGood
  <2>2. ASSUME NEW i \in DOMAIN r, NEW k \in DOMAIN r, i < k, r[i].kind = "turn", r[k].kind = "turn"
        PROVE  Key(r[i].row) < Key(r[k].row)
    <3>1. CASE k \in DOMAIN q /\ r[k] = q[k] /\ k < Len(q) + 1
      <4>1. i \in DOMAIN q /\ r[i] = q[i]
        BY <1>1, <1>2, <2>2, <3>1
      <4> QED
        BY <1>6, <2>2, <3>1, <4>1 DEF Good, JobsGood
    <3>2. CASE k = Len(q) + 1 /\ r[k] = j
      <4>1. i \in DOMAIN q /\ r[i] = q[i]
        BY <1>1, <1>2, <2>2, <3>2
      <4>2. Key(q[i].row) <= L /\ Key(q[i].row) \in Nat
        BY <1>3, <2>2, <4>1 DEF Good, JobsGood
      <4>3. L < Key(j.row) /\ Key(j.row) \in Nat
        BY <1>4, <2>2, <3>2
      <4> QED
        BY <3>2, <4>1, <4>2, <4>3
    <3> QED
      BY <1>2, <3>1, <3>2
  <2> QED
    BY <2>1, <2>2 DEF JobsGood
<1>8. JobsLater(tab, r)
  <2> SUFFICES ASSUME NEW t \in DOMAIN tab, NEW i \in DOMAIN r, r[i].kind = "turn"
               PROVE  Key(tab[t]) < Key(r[i].row)
    BY DEF JobsLater
  <2>1. CASE i \in DOMAIN q /\ r[i] = q[i]
    BY <2>1 DEF Good, JobsLater
  <2>2. CASE i = Len(q) + 1 /\ r[i] = j
    <3>1. Key(tab[t]) <= L /\ Key(tab[t]) \in Nat
      BY <1>5 DEF Good, RowsGood
    <3>2. L < Key(j.row) /\ Key(j.row) \in Nat
      BY <1>4, <2>2
    <3> QED
      BY <2>2, <3>1, <3>2
  <2> QED
    BY <1>2, <2>1, <2>2
<1> QED
  BY <1>6, <1>7, <1>8 DEF Good, r

(* A job is run: its row may go to the end of the table. *)
LEMMA GoodTaken ==
    ASSUME NEW n \in Nat, NEW tab, TableOf(tab, n), NEW q \in Seq(Jobs), q # <<>>, NEW H, NEW L \in Nat,
           Good(tab, q, H, L)
    PROVE  /\ Good(tab, Tail(q), H, L)
           /\ Head(q).kind = "turn" => Good(With(tab, n + 1, Head(q).row), Tail(q), H, L)
<1> DEFINE r == Tail(q)
           tab2 == With(tab, n + 1, Head(q).row)
<1>1. /\ Head(q) = q[1] /\ Len(q) \in Nat /\ Len(q) >= 1
      /\ DOMAIN q = 1 .. Len(q) /\ DOMAIN r = 1 .. Len(q) - 1
      /\ \A i \in 1 .. Len(q) - 1 : r[i] = q[i + 1]
  OBVIOUS
<1> HIDE DEF r
<1>2. \A i \in DOMAIN r : i \in Nat /\ i # 0 /\ i + 1 \in DOMAIN q /\ r[i] = q[i + 1] /\ 1 < i + 1
  BY <1>1
<1>3. 1 \in DOMAIN q
  BY <1>1
<1>4. JobsGood(r, H, L)
  <2>1. \A i \in DOMAIN r : r[i].kind = "turn" => HeardSo(r[i].row, H) /\ Key(r[i].row) <= L
    BY <1>2 DEF Good, JobsGood
  <2>2. ASSUME NEW i \in DOMAIN r, NEW j \in DOMAIN r, i < j, r[i].kind = "turn", r[j].kind = "turn"
        PROVE  Key(r[i].row) < Key(r[j].row)
    <3>1. i + 1 < j + 1 /\ i + 1 \in DOMAIN q /\ j + 1 \in DOMAIN q
      BY <1>2, <2>2
    <3>2. q[i + 1].kind = "turn" /\ q[j + 1].kind = "turn"
      BY <1>2, <2>2
    <3>3. Key(q[i + 1].row) < Key(q[j + 1].row)
      BY <3>1, <3>2 DEF Good, JobsGood
    <3> QED
      BY <1>2, <3>3
  <2> QED
    BY <2>1, <2>2 DEF JobsGood
<1>5. JobsLater(tab, r)
  BY <1>2 DEF Good, JobsLater
<1>6. ASSUME q[1].kind = "turn" PROVE Good(tab2, r, H, L)
  <2>1. PICK row : row = q[1].row
    OBVIOUS
  <2>2. /\ HeardSo(row, H) /\ Key(row) <= L
        /\ \A t \in DOMAIN tab : Key(tab[t]) < Key(row)
        /\ \A i \in DOMAIN r : r[i].kind = "turn" => Key(row) < Key(r[i].row)
    BY <1>2, <1>3, <1>6, <2>1 DEF Good, JobsGood, JobsLater
  <2>3. /\ DOMAIN tab2 = DOMAIN tab \union {n + 1} /\ tab2[n + 1] = row
        /\ \A t \in DOMAIN tab : tab2[t] = tab[t] /\ t \in Nat /\ t < n + 1
    BY <1>1, <2>1 DEF With, TableOf
  <2> HIDE DEF tab2
  <2>4. RowsGood(tab2, H, L)
    <3>1. \A t \in DOMAIN tab2 : HeardSo(tab2[t], H) /\ Key(tab2[t]) <= L
      BY <2>2, <2>3 DEF Good, RowsGood
    <3>2. ASSUME NEW t \in DOMAIN tab2, NEW u \in DOMAIN tab2, t < u PROVE Key(tab2[t]) < Key(tab2[u])
      <4>1. t \in DOMAIN tab
        BY <2>3, <3>2
      <4>2. CASE u \in DOMAIN tab
        BY <2>3, <3>2, <4>1, <4>2 DEF Good, RowsGood
      <4>3. CASE u = n + 1
        BY <2>2, <2>3, <4>1, <4>3
      <4> QED
        BY <2>3, <4>2, <4>3
    <3> QED
      BY <3>1, <3>2 DEF RowsGood
  <2>5. JobsLater(tab2, r)
    BY <1>5, <2>2, <2>3 DEF JobsLater
  <2> QED
    BY <1>4, <2>4, <2>5 DEF Good
<1> QED
  BY <1>1, <1>4, <1>5, <1>6 DEF Good, r

(* Rows are deleted, or all jobs lost. *)
LEMMA GoodShrinks ==
    ASSUME NEW tab, NEW less, DOMAIN less \subseteq DOMAIN tab, \A t \in DOMAIN less : less[t] = tab[t],
           NEW q, NEW H, NEW L, Good(tab, q, H, L)
    PROVE  Good(less, q, H, L) /\ Good(less, <<>>, H, L)
<1>1. RowsGood(less, H, L) /\ JobsLater(less, q)
  BY DEF Good, RowsGood, JobsLater
<1>2. JobsGood(<<>>, H, L) /\ JobsLater(less, <<>>)
  BY DEF JobsGood, JobsLater
<1> QED
  BY <1>1, <1>2 DEF Good

\* The tables e have no turns that d does not have.
FewerTurns(d, e) == DOMAIN e.turns \subseteq DOMAIN d.turns /\ \A t \in DOMAIN e.turns : e.turns[t] = d.turns[t]

(* No call but the insertion of a turn adds one. *)
LEMMA TurnsAfter ==
    ASSUME NEW d, DbShape(d), NEW id \in Nat, NEW row
    PROVE  /\ FewerTurns(d, InsertSession(d)) /\ FewerTurns(d, CloseSession(d, id))
           /\ FewerTurns(d, DeleteSession(d, id)) /\ FewerTurns(d, WipeAll(d))
           /\ FewerTurns(d, InsertSummary(d, row)) /\ FewerTurns(d, ClearRuntimeState(d))
           /\ FewerTurns(d, UpsertRuntimeState(d, id)) /\ FewerTurns(d, RunRecovery(d))
           /\ FewerTurns(d, DeleteTurn(d, id))
<1>0. DOMAIN d = Tables
  BY DEF DbShape
<1>1. InsertSession(d).turns = d.turns
  BY <1>0, Inserted DEF OnlyIn, Tables
<1>2. CloseSession(d, id).turns = d.turns
  BY <1>0, ClosedRow DEF OnlyIn, Tables
<1>3. DeleteSession(d, id).turns = [t \in {t \in DOMAIN d.turns : d.turns[t].session # id} |-> d.turns[t]]
  BY <1>0 DEF DeleteSession, Restrict, Select, Tables
<1>4. DOMAIN WipeAll(d).turns = {}
  BY DEF WipeAll, EmptyTables, NoRows
<1>5. InsertSummary(d, row).turns = d.turns
  BY <1>0, SummaryInserted DEF OnlyIn, Tables
<1>6. ClearRuntimeState(d).turns = d.turns /\ UpsertRuntimeState(d, id).turns = d.turns
  BY <1>0 DEF ClearRuntimeState, UpsertRuntimeState, Tables
<1>7. RunRecovery(d).turns = d.turns
  <2>1. [session |-> 0, role |-> "user", turn |-> 0, status |-> "committed", said |-> {}] \in Rows
    BY DEF Rows, Roles
  <2> QED
    BY <2>1, RowCalls
<1>8. DeleteTurn(d, id).turns = [t \in DOMAIN d.turns \ {id} |-> d.turns[t]]
  BY <1>0 DEF DeleteTurn, Restrict, Tables
<1>9. FewerTurns(d, DeleteSession(d, id))
  BY <1>3 DEF FewerTurns
<1>10. FewerTurns(d, WipeAll(d))
  BY <1>4 DEF FewerTurns
<1>11. FewerTurns(d, DeleteTurn(d, id))
  BY <1>8 DEF FewerTurns
<1>12. FewerTurns(d, InsertSession(d)) /\ FewerTurns(d, CloseSession(d, id))
  BY <1>1, <1>2 DEF FewerTurns
<1>13. FewerTurns(d, InsertSummary(d, row)) /\ FewerTurns(d, RunRecovery(d))
  BY <1>5, <1>7 DEF FewerTurns
<1>14. FewerTurns(d, ClearRuntimeState(d)) /\ FewerTurns(d, UpsertRuntimeState(d, id))
  BY <1>6 DEF FewerTurns
<1> QED
  BY <1>9, <1>10, <1>11, <1>12, <1>13, <1>14

(* The reply under way: its state is there while it is under way, with its *)
(* sentences and those of them that were heard.                            *)
ReplyInHand ==
    /\ DOMAIN inFlight = IF talk.at = "replying" THEN {talk.turn} ELSE {}
    /\ talk.at = "asked" => talk.sent = 0
    /\ talk.at = "replying" => /\ inFlight[talk.turn].sentences = 0 .. talk.sent - 1
                               /\ \A s \in inFlight[talk.turn].played : <<talk.turn, s>> \in hist.heard

DialogueInv == ReplyInHand /\ Good(db.turns, jobs, hist.heard, Reached)

(* What of the shape the dialogue needs. *)
LEMMA DialogueShape ==
    ASSUME MemoryBase
    PROVE  /\ db.lastTurn \in Nat /\ TableOf(db.turns, db.lastTurn) /\ jobs \in Seq(Jobs)
           /\ talk \in [turn : Nat, at : {"quiet", "asked", "replying"}, sent : Nat, unheard : BOOLEAN]
           /\ Reached \in Nat
  BY DEF MemoryBase, MemoryShape, DbShape, WriterShape, TableOf, Reached

(* The events of the dialogue. *)
LEMMA DialogueGoesOn ==
    ASSUME MemoryBase, DialogueInv,
           HandleFinal \/ HandleStarted \/ HandleSentence \/ HandlePlaybackFinished \/ HandleFinished
    PROVE  DialogueInv'
<1>0. /\ db.lastTurn \in Nat /\ TableOf(db.turns, db.lastTurn) /\ jobs \in Seq(Jobs)
      /\ talk \in [turn : Nat, at : {"quiet", "asked", "replying"}, sent : Nat, unheard : BOOLEAN]
      /\ Reached \in Nat /\ ReplyInHand /\ Good(db.turns, jobs, hist.heard, Reached) /\ WriterShape
  BY DialogueShape DEF DialogueInv, MemoryBase, MemoryShape
<1>a. \A T, Q, H, L : T = db'.turns /\ Q = jobs' /\ H = hist'.heard /\ L = Reached' /\ Good(T, Q, H, L)
          => Good(db.turns, jobs, hist.heard, Reached)'
  BY DEF Good, RowsGood, JobsGood, JobsLater
<1>1. CASE HandleFinal
  <2>1. /\ talk.at = "quiet" /\ talk' = [turn |-> talk.turn + 1, at |-> "asked", sent |-> 0, unheard |-> FALSE]
        /\ UNCHANGED <<db, inFlight>> /\ hist'.heard = hist.heard
    BY <1>1 DEF HandleFinal, MemoryBase, MemoryShape, HistShape
  <2>2. Reached = 2 * talk.turn + 1 /\ Reached' = 2 * (talk.turn + 1) /\ talk.turn \in Nat
    BY <1>0, <2>1 DEF Reached
  <2>3. PICK j : j = Row("user", talk.turn + 1, "committed", {})
    OBVIOUS
  <2>4. j \in Jobs /\ j.kind = "turn" /\ j.row.role = "user" /\ j.row.turn = talk.turn + 1
    BY <1>0, <2>2, <2>3, MadeRow DEF Row, Roles
  <2>5. HeardSo(j.row, hist.heard) /\ Key(j.row) = 2 * (talk.turn + 1)
    BY <2>2, <2>4 DEF HeardSo, Key
  <2>6. jobs' = jobs \/ jobs' = Append(jobs, j)
    BY <1>1, <2>3 DEF HandleFinal, Post
  <2>7. Reached' \in Nat /\ Reached <= Reached' /\ Reached < Key(j.row) /\ Key(j.row) <= Reached'
    BY <2>2, <2>5
  <2>8. Good(db.turns, jobs, hist.heard, Reached') /\ Good(db.turns, Append(jobs, j), hist.heard, Reached')
    BY <1>0, <2>4, <2>5, <2>7, GoodGrows, GoodPosted
  <2>9. Good(db'.turns, jobs', hist'.heard, Reached')
    BY <2>1, <2>6, <2>8
  <2>10. ReplyInHand'
    BY <1>0, <2>1 DEF ReplyInHand
  <2> QED
    BY <1>a, <2>9, <2>10 DEF DialogueInv
<1>2. CASE HandleStarted
  <2>1. /\ talk.at = "asked" /\ talk' = [talk EXCEPT !.at = "replying"]
        /\ inFlight' = With(inFlight, talk.turn, StateOf(talk.turn)) /\ UNCHANGED <<db, jobs, hist>>
    BY <1>2 DEF HandleStarted
  <2>2. DOMAIN inFlight = {} /\ talk.sent = 0
    BY <1>0, <2>1 DEF ReplyInHand
  <2>3. StateOf(talk.turn) = [sentences |-> {}, played |-> {}]
    BY <2>2 DEF StateOf, NoState
  <2>4. DOMAIN inFlight' = {talk.turn} /\ inFlight'[talk.turn] = [sentences |-> {}, played |-> {}]
    BY <2>1, <2>2, <2>3 DEF With
  <2>5. talk'.at = "replying" /\ talk'.turn = talk.turn /\ talk'.sent = 0
    BY <1>0, <2>1, <2>2
  <2>6. {} = 0 .. 0 - 1
    OBVIOUS
  <2>7. ReplyInHand'
    BY <2>4, <2>5, <2>6 DEF ReplyInHand
  <2>8. Reached' = Reached
    BY <2>1, <2>5 DEF Reached
  <2> QED
    BY <1>0, <1>a, <2>1, <2>7, <2>8 DEF DialogueInv
<1>3. CASE HandleSentence
  <2>1. /\ talk.at = "replying" /\ talk' = [talk EXCEPT !.sent = @ + 1] /\ UNCHANGED <<db, jobs, hist>>
        /\ inFlight' = With(inFlight, talk.turn, [StateOf(talk.turn) EXCEPT !.sentences = @ \union {talk.sent}])
    BY <1>3 DEF HandleSentence
  <2>2. PICK st \in [sentences : SUBSET Nat, played : SUBSET Nat] :
          /\ st = StateOf(talk.turn) /\ st.sentences = 0 .. talk.sent - 1
          /\ \A s \in st.played : <<talk.turn, s>> \in hist.heard
    BY <1>0, <2>1 DEF ReplyInHand, StateOf, WriterShape
  <2>3. PICK new : new = [st EXCEPT !.sentences = @ \union {talk.sent}]
    OBVIOUS
  <2>4. new.sentences = 0 .. talk.sent /\ new.played = st.played
    BY <1>0, <2>2, <2>3
  <2>5. inFlight' = With(inFlight, talk.turn, new) /\ DOMAIN inFlight = {talk.turn}
    BY <1>0, <2>1, <2>2, <2>3 DEF ReplyInHand
  <2>6. DOMAIN inFlight' = {talk.turn} /\ inFlight'[talk.turn] = new
    BY <2>5 DEF With
  <2>7. talk'.at = "replying" /\ talk'.turn = talk.turn /\ talk'.sent - 1 = talk.sent
    BY <1>0, <2>1
  <2>8. ReplyInHand'
    BY <2>1, <2>2, <2>4, <2>6, <2>7 DEF ReplyInHand
  <2>9. Reached' = Reached
    BY <2>1, <2>7 DEF Reached
  <2> QED
    BY <1>0, <1>a, <2>1, <2>8, <2>9 DEF DialogueInv
<1>4. CASE HandlePlaybackFinished
  <2>1. PICK seq : /\ inFlight' = [inFlight EXCEPT ![talk.turn].played = @ \union {seq}]
                   /\ hist' = [hist EXCEPT !.heard = @ \union {<<talk.turn, seq>>}]
    BY <1>4 DEF HandlePlaybackFinished
  <2>2. talk.turn \in DOMAIN inFlight /\ UNCHANGED <<db, jobs, talk>>
    BY <1>4 DEF HandlePlaybackFinished
  <2>3. talk.at = "replying" /\ DOMAIN inFlight = {talk.turn}
    BY <1>0, <2>2 DEF ReplyInHand
  <2>4. hist'.heard = hist.heard \union {<<talk.turn, seq>>}
    BY <2>1 DEF MemoryBase, MemoryShape, HistShape
  <2>5. /\ DOMAIN inFlight' = {talk.turn}
        /\ inFlight'[talk.turn].sentences = inFlight[talk.turn].sentences
        /\ inFlight'[talk.turn].played = inFlight[talk.turn].played \union {seq}
    BY <1>0, <2>1, <2>2, <2>3 DEF WriterShape
  <2>6. ReplyInHand'
    BY <1>0, <2>2, <2>3, <2>4, <2>5 DEF ReplyInHand
  <2>7. Reached' = Reached
    BY <2>2 DEF Reached
  <2>8. Good(db.turns, jobs, hist'.heard, Reached)
    BY <1>0, <2>4, GoodGrows
  <2> QED
    BY <1>a, <2>2, <2>6, <2>7, <2>8 DEF DialogueInv
<1>5. CASE HandleFinished
  <2>1. PICK cancelled \in BOOLEAN :
          LET said == Persisted(inFlight[talk.turn], cancelled)
          IN  /\ talk' = [talk EXCEPT !.at = "quiet", !.unheard = ~cancelled]
              /\ IF sess["turn_writer"] = 0 \/ (cancelled /\ said = {}) THEN UNCHANGED jobs
                 ELSE Post(Row("assistant", talk.turn,
                               IF cancelled THEN "interrupted" ELSE "committed", said))
    BY <1>5 DEF HandleFinished
  <2>2. /\ talk.at = "replying" /\ inFlight' = Restrict(inFlight, DOMAIN inFlight \ {talk.turn})
        /\ UNCHANGED <<db, hist>>
    BY <1>5 DEF HandleFinished
  <2>3. DOMAIN inFlight = {talk.turn} /\ talk.turn \in Nat
    BY <1>0, <2>2 DEF ReplyInHand
  <2>4. PICK said : said = Persisted(inFlight[talk.turn], cancelled)
    OBVIOUS
  <2>5. said \in SUBSET Nat
    BY <1>0, <2>3, <2>4 DEF Persisted, WriterShape
  <2>6. /\ cancelled => \A s \in said : <<talk.turn, s>> \in hist.heard
        /\ ~cancelled => said = 0 .. talk.sent - 1
    BY <1>0, <2>2, <2>4 DEF ReplyInHand, Persisted
  <2>7. ~cancelled => said = 0 .. Cardinality(said) - 1
    <3>1. Cardinality(0 .. talk.sent - 1) = talk.sent
      <4>1. talk.sent \in Nat
        BY <1>0
      <4>2. CASE talk.sent = 0
        <5>1. 0 .. talk.sent - 1 = {}
          BY <4>2
        <5> QED
          BY <4>2, <5>1, FS_EmptySet
      <4>3. CASE talk.sent # 0
        BY <4>1, <4>3, FS_Interval
      <4> QED
        BY <4>2, <4>3
    <3> QED
      BY <2>6, <3>1
  <2>8. PICK j : j = Row("assistant", talk.turn, IF cancelled THEN "interrupted" ELSE "committed", said)
    OBVIOUS
  <2>9. j \in Jobs
    BY <1>0, <2>3, <2>5, <2>8, MadeRow DEF Roles
  <2>10. /\ j.kind = "turn" /\ j.row.role = "assistant" /\ j.row.turn = talk.turn /\ j.row.said = said
         /\ j.row.status = IF cancelled THEN "interrupted" ELSE "committed"
    BY <2>8 DEF Row
  <2>11. jobs' = jobs \/ (~(cancelled /\ said = {}) /\ jobs' = Append(jobs, j))
    BY <2>1, <2>4, <2>8 DEF Post
  <2>12. ~(cancelled /\ said = {}) => HeardSo(j.row, hist.heard)
    BY <2>6, <2>7, <2>10 DEF HeardSo
  <2>13. talk' = [talk EXCEPT !.at = "quiet", !.unheard = ~cancelled]
    BY <2>1
  <2>14. Reached = 2 * talk.turn /\ Reached' = 2 * talk.turn + 1 /\ Key(j.row) = 2 * talk.turn + 1
    BY <1>0, <2>2, <2>10, <2>13 DEF Reached, Key
  <2>15. Reached' \in Nat /\ Reached <= Reached' /\ Reached < Key(j.row) /\ Key(j.row) <= Reached'
    BY <2>3, <2>14
  <2>16. Good(db.turns, jobs, hist.heard, Reached')
    BY <1>0, <2>15, GoodGrows
  <2>17. ~(cancelled /\ said = {}) => Good(db.turns, Append(jobs, j), hist.heard, Reached')
    BY <1>0, <2>9, <2>12, <2>15, GoodPosted
  <2>18. Good(db.turns, jobs', hist.heard, Reached')
    BY <2>11, <2>16, <2>17
  <2>19. ReplyInHand'
    BY <1>0, <2>2, <2>3, <2>13 DEF ReplyInHand, Restrict
  <2> QED
    BY <1>a, <2>2, <2>18, <2>19 DEF DialogueInv
<1> QED
  BY <1>1, <1>2, <1>3, <1>4, <1>5

-----------------------------------------------------------------------------
(* What a step does to the tables. *)
LEMMA StoreMoves ==
    ASSUME MemoryBase, [Next]_vars
    PROVE  \/ db' = db
           \/ RunTurnJob
           \/ RunSummarizerStore
           \/ MemoryCli /\ \E id \in Nat : db' = DeleteTurn(db, id)
           \/ \E id \in Nat : \/ db' = InsertSession(db) \/ db' = CloseSession(db, id)
                              \/ db' = DeleteSession(db, id) \/ db' = WipeAll(db)
                              \/ db' = ClearRuntimeState(db) \/ db' = UpsertRuntimeState(db, id)
                              \/ db' = RunRecovery(db)
<1>0. DbShape(db) /\ current \in Nat /\ OpShape /\ jobs \in Seq(Jobs) /\ SessionJobs
  BY SMTT(60) DEF MemoryBase, MemoryShape, WriterShape
<1>1. CASE HandleFinal \/ HandleStarted \/ HandleSentence \/ HandlePlaybackFinished \/ HandleFinished
           \/ SummarizerCounts \/ HttpRequest
  BY <1>1 DEF HandleFinal, HandleStarted, HandleSentence, HandlePlaybackFinished, HandleFinished,
              SummarizerCounts, HttpRequest
<1>2. CASE OpCall \/ OpTell \/ SummarizerTakes \/ SummarizerAnswered \/ BootCall \/ BootOperation \/ Stop
           \/ UNCHANGED vars
  BY <1>2 DEF OpCall, OpTell, SummarizerTakes, SummarizerAnswered, BootCall, BootOperation, Stop, vars
<1>3. CASE RunSummarizerRead \/ Crash \/ Terminate
  BY <1>3 DEF RunSummarizerRead, Crash, Terminate
<1>4. CASE RunSessionJob
  <2>1. Has(jobs, "session")
    BY <1>0, <1>4, TakenKinds DEF RunSessionJob
  <2>2. op \in Ops /\ op.calls # <<>> /\ op.calls \in Ways /\ op.arg \in Nat
    BY <1>0, <2>1, OpKinds DEF SessionJobs, OpShape
  <2>3. PICK call : call = Head(op.calls)
    OBVIOUS
  <2>4. call \in {"insert", "get", "close", "delete", "wipe"}
    BY <2>2, <2>3, WaysOn
  <2>5. db' = OpDb(call)
    BY <1>4, <2>3 DEF RunSessionJob
  <2>6. \/ db' = db \/ db' = InsertSession(db) \/ db' = CloseSession(db, current)
        \/ db' = DeleteSession(db, op.arg) \/ db' = WipeAll(db)
    BY <2>4, <2>5 DEF OpDb
  <2> QED
    BY <1>0, <2>2, <2>6
<1>5. CASE RunBootJob
  BY <1>5 DEF RunBootJob
<1>6. CASE Start
  BY <1>6 DEF Start
<1>7. CASE Exit
  BY <1>0, <1>7 DEF Exit
<1>8. CASE MemoryCli
  <2>1. DOMAIN db.turns \subseteq Nat /\ DOMAIN db.sessions \subseteq Nat
    BY <1>0 DEF DbShape
  <2> QED
    BY <1>8, <2>1 DEF MemoryCli
<1> QED
  BY <1>1, <1>2, <1>3, <1>4, <1>5, <1>6, <1>7, <1>8
     DEF Next, MemoryThread, Sessions, SummarizerWorker, Boot

(* Every other step: the dialogue stays where it is, or ends with the      *)
(* process.                                                                *)
LEMMA DialogueElsewhere ==
    ASSUME MemoryBase, [Next]_vars,
           ~(HandleFinal \/ HandleStarted \/ HandleSentence \/ HandlePlaybackFinished \/ HandleFinished)
    PROVE  /\ hist'.heard = hist.heard
           /\ \/ /\ inFlight' = inFlight /\ talk'.turn = talk.turn /\ talk'.at = talk.at
                 /\ talk'.sent = talk.sent
              \/ Volatile
<1>0. HistShape /\ talk \in [turn : Nat, at : {"quiet", "asked", "replying"}, sent : Nat, unheard : BOOLEAN]
  BY DEF MemoryBase, MemoryShape, WriterShape
<1>1. CASE SummarizerCounts \/ HttpRequest
  BY <1>0, <1>1 DEF SummarizerCounts, HttpRequest, HistShape
<1>2. CASE OpCall \/ OpTell \/ SummarizerTakes \/ SummarizerAnswered \/ BootCall \/ BootOperation \/ Stop
           \/ UNCHANGED vars
  BY <1>2 DEF OpCall, OpTell, SummarizerTakes, SummarizerAnswered, BootCall, BootOperation, Stop, vars
<1>3. CASE RunTurnJob \/ RunSummarizerRead \/ RunSummarizerStore \/ RunBootJob
  BY <1>3 DEF RunTurnJob, RunSummarizerRead, RunSummarizerStore, RunBootJob
<1>4. CASE RunSessionJob \/ Start \/ MemoryCli
  BY <1>0, <1>4 DEF RunSessionJob, Start, MemoryCli, HistShape
<1>5. CASE Exit \/ Crash \/ Terminate
  BY <1>5 DEF Exit, Crash, Terminate
<1> QED
  BY <1>1, <1>2, <1>3, <1>4, <1>5 DEF Next, MemoryThread, Sessions, SummarizerWorker, Boot

(* Every step keeps the dialogue in order. *)
LEMMA DialogueKept ==
    ASSUME MemoryBase, DialogueInv, [Next]_vars
    PROVE  DialogueInv'
<1>0. /\ db.lastTurn \in Nat /\ TableOf(db.turns, db.lastTurn) /\ jobs \in Seq(Jobs)
      /\ talk \in [turn : Nat, at : {"quiet", "asked", "replying"}, sent : Nat, unheard : BOOLEAN]
      /\ Reached \in Nat /\ ReplyInHand /\ Good(db.turns, jobs, hist.heard, Reached) /\ DbShape(db)
  BY DialogueShape DEF DialogueInv, MemoryBase, MemoryShape
<1>1. SUFFICES ASSUME ~(HandleFinal \/ HandleStarted \/ HandleSentence \/ HandlePlaybackFinished \/ HandleFinished)
               PROVE  DialogueInv'
  BY DialogueGoesOn
<1>2. Good(db'.turns, jobs', hist.heard, Reached)
  <2>1. Good(db.turns, jobs', hist.heard, Reached)
    <3>1. CASE jobs' = jobs
      BY <1>0, <3>1
    <3>2. ASSUME NEW j \in Jobs, j.kind # "turn", jobs' = Append(jobs, j)
          PROVE  Good(db.turns, jobs', hist.heard, Reached)
      BY <1>0, <3>2, GoodPosted
    <3>3. CASE jobs # <<>> /\ jobs' = Tail(jobs)
      BY <1>0, <3>3, GoodTaken
    <3>4. CASE jobs' = <<>>
      BY <1>0, <3>4, GoodShrinks
    <3> QED
      BY <1>1, <3>1, <3>2, <3>3, <3>4, QueueMoves DEF MemoryBase
  <2>2. CASE RunTurnJob
    <3>1. jobs # <<>> /\ Head(jobs).kind = "turn" /\ jobs' = Tail(jobs)
      BY <2>2 DEF RunTurnJob
    <3>2. PICK row : row = Head(jobs).row
      OBVIOUS
    <3>3. db' = InsertTurn(db, row)
      BY <2>2, <3>2 DEF RunTurnJob
    <3>4. db'.turns = db.turns \/ db'.turns = With(db.turns, db.lastTurn + 1, row)
      BY <1>0, <3>3, TurnRow DEF DbShape
    <3>5. Good(With(db.turns, db.lastTurn + 1, row), jobs', hist.heard, Reached)
      BY <1>0, <3>1, <3>2, GoodTaken
    <3> QED
      BY <2>1, <3>4, <3>5
  <2>3. ASSUME FewerTurns(db, db') PROVE Good(db'.turns, jobs', hist.heard, Reached)
    BY <2>1, <2>3, GoodShrinks DEF FewerTurns
  <2>4. FewerTurns(db, db') \/ RunTurnJob
    <3>1. FewerTurns(db, db)
      BY DEF FewerTurns
    <3>2. RunSummarizerStore => FewerTurns(db, db')
      <4>1. PICK row : row = SummaryRow(sum.job)
        OBVIOUS
      <4>2. RunSummarizerStore => db' = InsertSummary(db, row)
        BY <4>1 DEF RunSummarizerStore
      <4>3. FewerTurns(db, InsertSummary(db, row))
        BY <1>0, TurnsAfter
      <4> QED
        BY <4>2, <4>3
    <3>3. \A id \in Nat : /\ FewerTurns(db, InsertSession(db)) /\ FewerTurns(db, CloseSession(db, id))
           /\ FewerTurns(db, DeleteSession(db, id)) /\ FewerTurns(db, WipeAll(db))
           /\ FewerTurns(db, ClearRuntimeState(db))
           /\ FewerTurns(db, UpsertRuntimeState(db, id)) /\ FewerTurns(db, RunRecovery(db))
           /\ FewerTurns(db, DeleteTurn(db, id))
      BY <1>0, TurnsAfter
    <3> QED
      BY <3>1, <3>2, <3>3, StoreMoves
  <2> QED
    BY <2>2, <2>3, <2>4
<1>3. TableOf(db'.turns, db'.lastTurn) /\ db'.lastTurn \in Nat /\ jobs' \in Seq(Jobs)
  <2>1. MemoryBase'
    BY BaseKept
  <2> QED
    BY <2>1 DEF MemoryBase, MemoryShape, DbShape, WriterShape, TableOf
<1>4. Good(db'.turns, jobs', hist'.heard, Reached') /\ ReplyInHand'
  <2>1. hist'.heard = hist.heard
    BY <1>1, DialogueElsewhere
  <2>2. CASE inFlight' = inFlight /\ talk'.turn = talk.turn /\ talk'.at = talk.at /\ talk'.sent = talk.sent
    BY <1>0, <1>2, <2>1, <2>2 DEF Reached, ReplyInHand
  <2>3. CASE Volatile
    <3>1. talk'.turn = talk.turn /\ talk'.at = "quiet" /\ DOMAIN inFlight' = {}
      BY <2>3 DEF Volatile, Quiet, NoRows
    <3>2. Reached' \in Nat /\ Reached <= Reached'
      BY <1>0, <3>1 DEF Reached
    <3>3. ReplyInHand'
      BY <3>1 DEF ReplyInHand
    <3> QED
      BY <1>0, <1>2, <1>3, <2>1, <3>2, <3>3, GoodGrows
  <2> QED
    BY <1>1, <2>2, <2>3, DialogueElsewhere
<1>5. \A T, Q, H, L : T = db'.turns /\ Q = jobs' /\ H = hist'.heard /\ L = Reached' /\ Good(T, Q, H, L)
          => Good(db.turns, jobs, hist.heard, Reached)'
  BY DEF Good, RowsGood, JobsGood, JobsLater
<1> QED
  BY <1>4, <1>5 DEF DialogueInv

(* The store tells the dialogue as the user heard it and in its order,     *)
(* through every crash, restart, wipe and full queue.                      *)
THEOREM DialogueIsTold == MemorySafety => []StoreTellsTheDialogue
<1>1. Init => MemoryBase /\ DialogueInv
  <2> SUFFICES ASSUME Init PROVE DialogueInv
    BY BaseInit
  <2>1. ReplyInHand
    BY DEF Init, ReplyInHand, Quiet, NoRows
  <2>2. DOMAIN db.turns = {} /\ jobs = <<>>
    BY DEF Init, EmptyTables, NoRows
  <2> QED
    BY <2>1, <2>2 DEF DialogueInv, Good, RowsGood, JobsGood, JobsLater
<1>2. MemoryBase /\ DialogueInv /\ [Next]_vars => (MemoryBase /\ DialogueInv)'
  BY BaseKept, DialogueKept
<1>3. MemoryBase /\ DialogueInv => StoreTellsTheDialogue
  <2> SUFFICES ASSUME MemoryBase, DialogueInv PROVE StoreTellsTheDialogue
    OBVIOUS
  <2>1. RowsGood(db.turns, hist.heard, Reached) /\ TableOf(db.turns, db.lastTurn)
    BY DialogueShape DEF DialogueInv, Good
  <2>2. StoredAsHeard
    BY <2>1 DEF RowsGood, HeardSo, StoredAsHeard
  <2>3. RowsInOrder
    <3> SUFFICES ASSUME NEW t \in DOMAIN db.turns, NEW u \in DOMAIN db.turns, t < u
                 PROVE  \/ db.turns[t].turn < db.turns[u].turn
                        \/ /\ db.turns[t].turn = db.turns[u].turn
                           /\ db.turns[t].role = "user" /\ db.turns[u].role = "assistant"
      BY DEF RowsInOrder
    <3>1. PICK r \in Rows : r = db.turns[t]
      BY <2>1 DEF TableOf
    <3>2. PICK v \in Rows : v = db.turns[u]
      BY <2>1 DEF TableOf
    <3>3. Key(r) < Key(v)
      BY <2>1, <3>1, <3>2 DEF RowsGood
    <3>4. r.turn < v.turn \/ (r.turn = v.turn /\ r.role = "user" /\ v.role = "assistant")
      BY <3>3 DEF Key, Rows, Roles
    <3> QED
      BY <3>1, <3>2, <3>4
  <2> QED
    BY <2>2, <2>3 DEF StoreTellsTheDialogue
<1> QED
  BY <1>1, <1>2, <1>3, PTL DEF MemorySafety

-----------------------------------------------------------------------------
(* The summaries. *)
\* A row about a session that is still the one it was made from.
Same(d, row) == row.session \in DOMAIN d.sessions /\ d.sessions[row.session].era = row.era
Source(d, row) == SourceHash(d, row.session, row.first, row.last)

ErasGood(d) == \A s \in DOMAIN d.sessions : d.sessions[s].era \in 1 .. d.lastEra

\* A stored summary, n turns having been deleted by the operator.
StoredGood(d, n, row) ==
    /\ row.session \in DOMAIN d.sessions /\ row.era <= d.lastEra
    /\ Same(d, row) => /\ row.last <= d.lastTurn /\ row.hash = row.told
                       /\ n = 0 => Source(d, row) = row.hash

\* Two summaries of a session do not overlap.
Apart(r, u) == r.session = u.session => r.last < u.first \/ u.last < r.first

SummariesGood(d, n) ==
    /\ ErasGood(d)
    /\ \A s \in DOMAIN d.summaries : StoredGood(d, n, d.summaries[s])
    /\ \A s, u \in DOMAIN d.summaries : s # u => Apart(d.summaries[s], d.summaries[u])

\* A summary under way: it begins after every stored one, and its turns are still there.
PendingGood(d, job) ==
    /\ job.era <= d.lastEra
    /\ \A s \in DOMAIN d.summaries : d.summaries[s].session = job.session => d.summaries[s].last < job.first
    /\ Same(d, job) => job.last <= d.lastTurn /\ job.told = Source(d, job)

SummaryInv ==
    /\ SummariesGood(db, hist.edits)
    /\ sum.at \in {"asking", "storing"} => PendingGood(db, sum.job)

\* The turns of session s up to the last one of d are the same in e.
TurnsStay(d, e, s) ==
    /\ d.lastTurn <= e.lastTurn
    /\ \A t \in 1 .. d.lastTurn :
          /\ (t \in RecentTurns(e, s)) = (t \in RecentTurns(d, s))
          /\ t \in RecentTurns(d, s) => e.turns[t] = d.turns[t]

\* The tables go on from d to e: no new summaries, no session of an earlier
\* era, and the sessions of earlier eras keep their turns.
GoesOn(d, e) ==
    /\ ErasGood(e) /\ d.lastEra <= e.lastEra
    /\ DOMAIN e.summaries \subseteq DOMAIN d.summaries
    /\ \A s \in DOMAIN e.summaries : e.summaries[s] = d.summaries[s] /\ e.summaries[s].session \in DOMAIN e.sessions
    /\ \A s \in DOMAIN e.sessions : e.sessions[s].era <= d.lastEra =>
          s \in DOMAIN d.sessions /\ d.sessions[s].era = e.sessions[s].era /\ TurnsStay(d, e, s)

(* A range of turns that is there stays as it is. *)
LEMMA SourceStays ==
    ASSUME NEW d, NEW e, DbShape(d), DbShape(e), GoesOn(d, e), NEW row, row.first \in Nat, row.last \in Nat,
           row.era \in Nat, row.era <= d.lastEra, Same(e, row)
    PROVE  Same(d, row) /\ (row.last <= d.lastTurn => row.last <= e.lastTurn /\ Source(e, row) = Source(d, row))
<1>1. Same(d, row) /\ TurnsStay(d, e, row.session)
  BY DEF Same, GoesOn
<1>2. ASSUME row.last <= d.lastTurn PROVE row.last <= e.lastTurn
  BY <1>1, <1>2 DEF TurnsStay, DbShape
<1>3. ASSUME row.last <= d.lastTurn PROVE Source(e, row) = Source(d, row)
  <2> DEFINE S(f) == {t \in RecentTurns(f, row.session) : row.first <= t /\ t <= row.last}
  <2>1. \A t \in S(d) \union S(e) : t \in 1 .. d.lastTurn
    BY <1>3 DEF RecentTurns, DbShape
  <2>2. S(e) = S(d) /\ \A t \in S(d) : e.turns[t] = d.turns[t]
    BY <1>1, <2>1 DEF TurnsStay
  <2>3. /\ Source(d, row) = {<<id, d.turns[id].turn, d.turns[id].role, d.turns[id].said>> : id \in S(d)}
        /\ Source(e, row) = {<<id, e.turns[id].turn, e.turns[id].role, e.turns[id].said>> : id \in S(e)}
    BY DEF Source, SourceHash
  <2> HIDE DEF S
  <2> QED
    BY <2>2, <2>3
<1> QED
  BY <1>1, <1>2, <1>3

(* Then the summaries stay good, the stored ones and the one under way. *)
LEMMA SummariesStay ==
    ASSUME NEW d, NEW e, DbShape(d), DbShape(e), GoesOn(d, e), NEW n, NEW m, m = 0 => n = 0
    PROVE  /\ SummariesGood(d, n) => SummariesGood(e, m)
           /\ \A job : /\ job.first \in Nat /\ job.last \in Nat /\ job.era \in Nat /\ PendingGood(d, job)
                       => PendingGood(e, job)
<1>1. ASSUME SummariesGood(d, n) PROVE SummariesGood(e, m)
  <2>1. ASSUME NEW s \in DOMAIN e.summaries PROVE StoredGood(e, m, e.summaries[s])
    <3>1. PICK row : row = e.summaries[s]
      OBVIOUS
    <3>2. s \in DOMAIN d.summaries /\ row = d.summaries[s] /\ row.session \in DOMAIN e.sessions
      BY <2>1, <3>1 DEF GoesOn
    <3>3. row.first \in Nat /\ row.last \in Nat /\ row.era \in Nat /\ d.lastEra \in Nat /\ e.lastEra \in Nat
      BY <3>2 DEF DbShape
    <3>4. StoredGood(d, n, row)
      BY <1>1, <3>2 DEF SummariesGood
    <3>5. row.era <= e.lastEra
      BY <3>3, <3>4 DEF StoredGood, GoesOn
    <3>6. Same(e, row) => /\ Same(d, row)
                          /\ row.last <= d.lastTurn => row.last <= e.lastTurn /\ Source(e, row) = Source(d, row)
      BY <3>3, <3>4, SourceStays DEF StoredGood
    <3> QED
      BY <3>1, <3>2, <3>4, <3>5, <3>6 DEF StoredGood
  <2>2. \A s, u \in DOMAIN e.summaries : s # u => Apart(e.summaries[s], e.summaries[u])
    BY <1>1 DEF SummariesGood, GoesOn
  <2> QED
    BY <2>1, <2>2 DEF SummariesGood, GoesOn
<1>2. ASSUME NEW job, job.first \in Nat, job.last \in Nat, job.era \in Nat, PendingGood(d, job)
      PROVE  PendingGood(e, job)
  <2>1. job.era <= e.lastEra /\ job.era <= d.lastEra
    BY <1>2 DEF PendingGood, GoesOn, DbShape
  <2>2. Same(e, job) => /\ Same(d, job)
                        /\ job.last <= d.lastTurn => job.last <= e.lastTurn /\ Source(e, job) = Source(d, job)
    BY <1>2, <2>1, SourceStays
  <2>3. \A s \in DOMAIN e.summaries : e.summaries[s].session = job.session => e.summaries[s].last < job.first
    BY <1>2 DEF PendingGood, GoesOn
  <2> QED
    BY <1>2, <2>1, <2>2, <2>3 DEF PendingGood
<1> QED
  BY <1>1, <1>2

\* The tables e have the sessions and summaries of d, and its turns.
SameEras(d, e) ==
    /\ DOMAIN e.sessions = DOMAIN d.sessions /\ \A s \in DOMAIN d.sessions : e.sessions[s].era = d.sessions[s].era
    /\ e.lastEra = d.lastEra /\ e.summaries = d.summaries /\ d.lastTurn <= e.lastTurn
    /\ DOMAIN d.turns = DOMAIN e.turns \intersect 1 .. d.lastTurn
    /\ \A t \in DOMAIN d.turns : e.turns[t] = d.turns[t]

(* That is one way to go on. *)
LEMMA SameErasGoOn ==
    ASSUME NEW d, DbShape(d), NEW n, SummariesGood(d, n), NEW e, SameEras(d, e)
    PROVE  GoesOn(d, e)
<1>1. ErasGood(e) /\ d.lastEra <= e.lastEra
  BY DEF SameEras, SummariesGood, ErasGood, DbShape
<1>2. \A s : TurnsStay(d, e, s)
  BY DEF SameEras, TurnsStay, RecentTurns
<1>3. \A s \in DOMAIN d.summaries : d.summaries[s].session \in DOMAIN d.sessions
  BY DEF SummariesGood, StoredGood
<1> QED
  BY <1>1, <1>2, <1>3 DEF GoesOn, SameEras

(* Every call but the insertion of a summary and the deletion of a turn is *)
(* one from which the tables go on.                                        *)
LEMMA CallsGoOn ==
    ASSUME NEW d, DbShape(d), NEW n, SummariesGood(d, n), NEW id \in Nat, NEW row \in Rows
    PROVE  /\ GoesOn(d, d) /\ GoesOn(d, InsertSession(d)) /\ GoesOn(d, CloseSession(d, id))
           /\ GoesOn(d, DeleteSession(d, id)) /\ GoesOn(d, WipeAll(d)) /\ GoesOn(d, InsertTurn(d, row))
           /\ GoesOn(d, ClearRuntimeState(d)) /\ GoesOn(d, UpsertRuntimeState(d, id))
           /\ GoesOn(d, RunRecovery(d))
<1>0. /\ DOMAIN d = Tables /\ d.lastTurn \in Nat /\ d.lastEra \in Nat /\ d.lastSession \in Nat
      /\ DOMAIN d.turns \subseteq 1 .. d.lastTurn /\ DOMAIN d.sessions \subseteq 1 .. d.lastSession
      /\ ErasGood(d) /\ \A s \in DOMAIN d.summaries : d.summaries[s].session \in DOMAIN d.sessions
      /\ d.sessions \in [DOMAIN d.sessions -> SessionRows]
  BY DEF DbShape, SummariesGood, StoredGood
<1>1. SameEras(d, d)
  BY <1>0 DEF SameEras
<1>2. SameEras(d, CloseSession(d, id))
  <2>1. PICK e : e = CloseSession(d, id)
    OBVIOUS
  <2>2. /\ e.turns = d.turns /\ e.summaries = d.summaries /\ e.lastEra = d.lastEra /\ e.lastTurn = d.lastTurn
        /\ DOMAIN e.sessions = DOMAIN d.sessions
        /\ \A s \in DOMAIN d.sessions : e.sessions[s] = IF s = id THEN [d.sessions[s] EXCEPT !.open = FALSE] ELSE d.sessions[s]
    BY <1>0, <2>1, ClosedRow DEF OnlyIn, Tables
  <2>3. \A s \in DOMAIN d.sessions : e.sessions[s].era = d.sessions[s].era
    BY <1>0, <2>2 DEF SessionRows
  <2> QED
    BY <1>1, <2>1, <2>2, <2>3 DEF SameEras
<1>3. SameEras(d, RunRecovery(d))
  <2>1. PICK e : e = RunRecovery(d)
    OBVIOUS
  <2>2. /\ e.summaries = d.summaries /\ e.lastEra = d.lastEra /\ e.lastTurn = d.lastTurn
        /\ DOMAIN e.sessions = DOMAIN d.sessions
        /\ \A s \in DOMAIN d.sessions : e.sessions[s] = [d.sessions[s] EXCEPT !.open = FALSE]
    BY <1>0, <2>1, Recovered DEF OnlyIn, Tables
  <2>3. \A s \in DOMAIN d.sessions : e.sessions[s].era = d.sessions[s].era
    BY <1>0, <2>2 DEF SessionRows
  <2>4. e.turns = d.turns
    BY <2>1, RowCalls
  <2> QED
    BY <1>1, <2>1, <2>2, <2>3, <2>4 DEF SameEras
<1>4. SameEras(d, ClearRuntimeState(d)) /\ SameEras(d, UpsertRuntimeState(d, id))
  BY <1>0, <1>1 DEF SameEras, ClearRuntimeState, UpsertRuntimeState, Tables
<1>5. SameEras(d, InsertTurn(d, row))
  <2>1. PICK e : e = InsertTurn(d, row)
    OBVIOUS
  <2>2. CASE row.session \in DOMAIN d.sessions
    <3>1. /\ e.summaries = d.summaries /\ e.lastEra = d.lastEra /\ e.lastTurn = d.lastTurn + 1
          /\ e.sessions = d.sessions /\ e.turns = With(d.turns, d.lastTurn + 1, row)
      <4>1. OnlyIn({"turns", "lastTurn"}, d, e)
        BY <1>0, <2>1, TurnRow
      <4>2. e.lastTurn = d.lastTurn + 1 /\ e.turns = With(d.turns, d.lastTurn + 1, row)
        BY <1>0, <2>1, <2>2, TurnRow
      <4> QED
        BY <4>1, <4>2 DEF OnlyIn, Tables
    <3>2. /\ DOMAIN e.turns = DOMAIN d.turns \union {d.lastTurn + 1} /\ d.lastTurn + 1 \notin 1 .. d.lastTurn
          /\ \A t \in DOMAIN d.turns : e.turns[t] = d.turns[t]
      BY <1>0, <3>1 DEF With
    <3>3. DOMAIN d.turns = DOMAIN e.turns \intersect 1 .. d.lastTurn
      BY <1>0, <3>2
    <3> QED
      BY <1>0, <2>1, <3>1, <3>2, <3>3 DEF SameEras
  <2>3. CASE row.session \notin DOMAIN d.sessions
    BY <1>0, <1>1, <2>3, TurnRow
  <2> QED
    BY <2>2, <2>3
<1>6. GoesOn(d, InsertSession(d))
  <2>1. PICK e : e = InsertSession(d)
    OBVIOUS
  <2>2. /\ e.summaries = d.summaries /\ e.turns = d.turns /\ e.lastTurn = d.lastTurn /\ e.lastEra = d.lastEra + 1
        /\ e.sessions = With(d.sessions, d.lastSession + 1, [open |-> TRUE, era |-> d.lastEra + 1])
    BY <1>0, <2>1, Inserted DEF OnlyIn, Tables
  <2>3. /\ DOMAIN e.sessions = DOMAIN d.sessions \union {d.lastSession + 1}
        /\ e.sessions[d.lastSession + 1].era = d.lastEra + 1
        /\ \A s \in DOMAIN d.sessions : e.sessions[s] = d.sessions[s]
    BY <1>0, <2>2 DEF With
  <2>4. ErasGood(e)
    <3>1. \A s \in DOMAIN d.sessions : e.sessions[s].era \in 1 .. e.lastEra
      <4>1. \A s \in DOMAIN d.sessions : d.sessions[s].era \in 1 .. d.lastEra
        BY <1>0 DEF ErasGood
      <4>2. d.lastEra \in Nat /\ e.lastEra = d.lastEra + 1
        BY <1>0, <2>2
      <4>3. \A x \in 1 .. d.lastEra : x \in 1 .. e.lastEra
        BY <4>2
      <4> QED
        BY <2>3, <4>1, <4>3
    <3>2. d.lastEra + 1 \in 1 .. e.lastEra
      BY <1>0, <2>2
    <3> QED
      BY <2>3, <3>1, <3>2 DEF ErasGood
  <2>5. \A s : TurnsStay(d, e, s)
    BY <1>0, <2>2 DEF TurnsStay, RecentTurns
  <2>6. \A s \in DOMAIN e.sessions : e.sessions[s].era <= d.lastEra =>
            s \in DOMAIN d.sessions /\ d.sessions[s].era = e.sessions[s].era
    BY <1>0, <2>3
  <2> QED
    <3>1. d.lastEra <= e.lastEra
      BY <1>0, <2>2
    <3>2. \A s \in DOMAIN e.summaries : e.summaries[s] = d.summaries[s] /\ e.summaries[s].session \in DOMAIN e.sessions
      BY <1>0, <2>2, <2>3
    <3>3. DOMAIN e.summaries \subseteq DOMAIN d.summaries
      BY <2>2
    <3> QED
      BY <2>1, <2>4, <2>5, <2>6, <3>1, <3>2, <3>3 DEF GoesOn
<1>7. GoesOn(d, WipeAll(d))
  <2>1. PICK e : e = WipeAll(d)
    OBVIOUS
  <2>2. DOMAIN e.summaries = {} /\ DOMAIN e.sessions = {} /\ e.lastEra = d.lastEra
    BY <2>1 DEF WipeAll, EmptyTables, NoRows
  <2> QED
    BY <1>0, <2>1, <2>2 DEF GoesOn, ErasGood
<1>8. GoesOn(d, DeleteSession(d, id))
  <2>1. PICK e : e = DeleteSession(d, id)
    OBVIOUS
  <2>2. /\ e.lastTurn = d.lastTurn /\ e.lastEra = d.lastEra
        /\ e.sessions = [s \in DOMAIN d.sessions \ {id} |-> d.sessions[s]]
    BY <1>0, <2>1 DEF DeleteSession, Restrict, Select, Tables
  <2>3. e.turns = [t \in {t \in DOMAIN d.turns : d.turns[t].session # id} |-> d.turns[t]]
    BY <1>0, <2>1 DEF DeleteSession, Restrict, Select, Tables
  <2>4. e.summaries = [t \in {t \in DOMAIN d.summaries : d.summaries[t].session # id} |-> d.summaries[t]]
    BY <1>0, <2>1 DEF DeleteSession, Restrict, Select, Tables
  <2>5. \A s \in DOMAIN e.sessions : s # id /\ s \in DOMAIN d.sessions /\ e.sessions[s] = d.sessions[s]
    BY <2>2
  <2>6. \A s : s # id => TurnsStay(d, e, s)
    <3> SUFFICES ASSUME NEW s, s # id PROVE TurnsStay(d, e, s)
      OBVIOUS
    <3>1. RecentTurns(e, s) = RecentTurns(d, s) /\ \A t \in RecentTurns(d, s) : e.turns[t] = d.turns[t]
      BY <2>3 DEF RecentTurns
    <3> QED
      BY <1>0, <2>2, <3>1 DEF TurnsStay
  <2>7. ErasGood(e)
    BY <1>0, <2>2, <2>5 DEF ErasGood
  <2>8. \A s \in DOMAIN e.summaries : s \in DOMAIN d.summaries /\ e.summaries[s] = d.summaries[s]
                                       /\ e.summaries[s].session \in DOMAIN e.sessions
    BY <1>0, <2>2, <2>4
  <2> QED
    BY <1>0, <2>1, <2>2, <2>5, <2>6, <2>7, <2>8 DEF GoesOn
<1> QED
  BY <1>1, <1>2, <1>3, <1>4, <1>5, <1>6, <1>7, <1>8, SameErasGoOn

(* Which steps touch the summary under way and the count of edits. *)
LEMMA SummarizerMoves ==
    ASSUME MemoryBase, [Next]_vars
    PROVE  /\ sum'.at \in {"asking", "storing"} =>
                 \/ RunSummarizerRead
                 \/ /\ ~MemoryCli /\ ~RunSummarizerStore
                    /\ sum.at \in {"asking", "storing"} /\ sum'.job = sum.job
           /\ ~MemoryCli => hist'.edits = hist.edits
           /\ MemoryCli => hist'.edits \in Nat /\ hist'.edits # 0 /\ sum'.at = "idle"
<1>0. SumShape /\ HistShape
  BY DEF MemoryBase, MemoryShape
<1>1. CASE MemoryCli
  BY <1>0, <1>1 DEF MemoryCli, SumShape, HistShape
<1>2. CASE RunSummarizerStore
  <2>1. sum'.at = "idle" /\ hist' = hist
    BY <1>0, <1>2 DEF RunSummarizerStore, SumShape
  <2> QED
    BY <1>1, <2>1
<1>3. CASE RunSummarizerRead
  BY <1>1, <1>3 DEF RunSummarizerRead
<1>4. ASSUME ~MemoryCli, ~RunSummarizerStore, ~RunSummarizerRead
      PROVE  /\ hist'.edits = hist.edits
             /\ sum'.at \in {"asking", "storing"} => sum.at \in {"asking", "storing"} /\ sum'.job = sum.job
  <2>1. CASE HandleFinal \/ HandlePlaybackFinished
    BY <1>0, <2>1 DEF HandleFinal, HandlePlaybackFinished, HistShape
  <2>2. CASE HttpRequest \/ RunSessionJob \/ Start
    BY <1>0, <2>2 DEF HttpRequest, RunSessionJob, Start, HistShape
  <2>3. CASE HandleStarted \/ HandleSentence \/ HandleFinished
    BY <2>3 DEF HandleStarted, HandleSentence, HandleFinished
  <2>4. CASE SummarizerCounts
    <3>1. sum'.at = sum.at /\ sum'.job = sum.job /\ hist' = hist
      BY <1>0, <2>4 DEF SummarizerCounts, SumShape
    <3> QED
      BY <3>1
  <2>5. CASE SummarizerTakes
    <3>1. sum'.at \in {"idle", "reading"} /\ hist' = hist
      BY <1>0, <2>5 DEF SummarizerTakes, SumShape
    <3> QED
      BY <3>1
  <2>6. CASE SummarizerAnswered
    <3>1. sum.at = "asking" /\ sum'.job = sum.job /\ hist' = hist
      BY <1>0, <2>6 DEF SummarizerAnswered, SumShape
    <3> QED
      BY <3>1
  <2>7. CASE OpCall \/ OpTell \/ BootCall \/ BootOperation \/ Stop \/ UNCHANGED vars
    BY <2>7 DEF OpCall, OpTell, BootCall, BootOperation, Stop, vars
  <2>8. CASE RunTurnJob \/ RunBootJob
    BY <2>8 DEF RunTurnJob, RunBootJob
  <2>9. CASE Exit \/ Crash \/ Terminate
    <3>1. sum'.at = "idle" /\ hist' = hist
      BY <2>9 DEF Exit, Crash, Terminate, Volatile, IdleSummarizer
    <3> QED
      BY <3>1
  <2> QED
    BY <1>4, <2>1, <2>2, <2>3, <2>4, <2>5, <2>6, <2>7, <2>8, <2>9
       DEF Next, MemoryThread, Sessions, SummarizerWorker, Boot
<1> QED
  BY <1>1, <1>2, <1>3, <1>4

(* A summary is stored: it begins after all others of its session. *)
LEMMA SummaryStored ==
    ASSUME MemoryBase, SummaryInv, RunSummarizerStore
    PROVE  SummariesGood(db', hist.edits)
<1>0. DbShape(db) /\ SummariesGood(db, hist.edits) /\ PendingGood(db, sum.job) /\ SumShape /\ DOMAIN db = Tables
  BY DEF MemoryBase, MemoryShape, SummaryInv, RunSummarizerStore, DbShape
<1>1. PICK job : job = sum.job
  OBVIOUS
<1>2. PICK row : row = SummaryRow(job)
  OBVIOUS
<1>3. /\ row.session = job.session /\ row.first = job.first /\ row.last = job.last /\ row.era = job.era
      /\ row.told = job.told /\ row.hash = Source(db, job)
  BY <1>2 DEF SummaryRow, Source
<1>4. job.session \in Nat /\ job.first \in Nat /\ job.last \in Nat /\ job.era \in Nat
  BY <1>0, <1>1 DEF SumShape
<1>5. db' = InsertSummary(db, row)
  BY <1>1, <1>2 DEF RunSummarizerStore
<1>6. CASE row.session \notin DOMAIN db.sessions
  BY <1>0, <1>5, <1>6, SummaryInserted
<1>7. CASE row.session \in DOMAIN db.sessions
  <2>1. PICK e : e = db'
    OBVIOUS
  <2>2. PICK id : id = MaxId(DOMAIN db.summaries) + 1
    OBVIOUS
  <2>3. id \notin DOMAIN db.summaries
    BY <1>0, <1>3, <1>4, <2>2, SummaryCall
  <2>4. e.summaries = With(db.summaries, id, row) /\ OnlyIn({"summaries"}, db, e)
    BY <1>0, <1>5, <1>7, <2>1, <2>2, SummaryInserted
  <2>5. e.sessions = db.sessions /\ e.turns = db.turns /\ e.lastTurn = db.lastTurn /\ e.lastEra = db.lastEra
    BY <2>4 DEF OnlyIn, Tables
  <2>6. /\ DOMAIN e.summaries = DOMAIN db.summaries \union {id} /\ e.summaries[id] = row
        /\ \A s \in DOMAIN db.summaries : e.summaries[s] = db.summaries[s]
    BY <2>3, <2>4 DEF With
  <2>7. \A r : Source(e, r) = Source(db, r) /\ Same(e, r) = Same(db, r)
    BY <2>5 DEF Source, SourceHash, RecentTurns, Same
  <2>8. \A s \in DOMAIN db.summaries : StoredGood(e, hist.edits, db.summaries[s])
    BY <1>0, <2>5, <2>7 DEF SummariesGood, StoredGood
  <2>9. StoredGood(e, hist.edits, row)
    <3>1. Source(db, row) = Source(db, job) /\ Same(db, row) = Same(db, job)
      BY <1>3 DEF Source, Same
    <3>2. row.era <= e.lastEra /\ (Same(db, job) => job.last <= db.lastTurn /\ job.told = Source(db, job))
      BY <1>0, <1>1, <1>3, <2>5 DEF PendingGood
    <3> QED
      BY <1>3, <1>7, <2>5, <2>7, <3>1, <3>2 DEF StoredGood
  <2>10. \A s \in DOMAIN db.summaries : Apart(db.summaries[s], row) /\ Apart(row, db.summaries[s])
    BY <1>0, <1>1, <1>3 DEF PendingGood, Apart
  <2>11. \A s, u \in DOMAIN e.summaries : s # u => Apart(e.summaries[s], e.summaries[u])
    BY <1>0, <2>6, <2>10 DEF SummariesGood
  <2>12. ErasGood(e)
    BY <1>0, <2>5 DEF SummariesGood, ErasGood
  <2> QED
    BY <2>1, <2>6, <2>8, <2>9, <2>11, <2>12 DEF SummariesGood
<1> QED
  BY <1>6, <1>7

(* The operator deletes a turn: the hash of its summary may be stale now. *)
LEMMA TurnDeleted ==
    ASSUME NEW d, DbShape(d), NEW n, SummariesGood(d, n), NEW id \in Nat, NEW m, m # 0
    PROVE  SummariesGood(DeleteTurn(d, id), m)
<1>1. PICK e : e = DeleteTurn(d, id)
  OBVIOUS
<1>2. /\ e.sessions = d.sessions /\ e.summaries = d.summaries /\ e.lastTurn = d.lastTurn
      /\ e.lastEra = d.lastEra
  BY <1>1 DEF DeleteTurn, DbShape, Tables
<1>3. ErasGood(e)
  BY <1>2 DEF SummariesGood, ErasGood
<1>4. \A s \in DOMAIN d.summaries : StoredGood(e, m, d.summaries[s])
  BY <1>2 DEF SummariesGood, StoredGood, Same
<1> QED
  BY <1>1, <1>2, <1>3, <1>4 DEF SummariesGood

(* The summarizer takes its snapshot: it begins after the last summary. *)
LEMMA SnapshotTaken ==
    ASSUME MemoryBase, SummaryInv, RunSummarizerRead, sum'.at \in {"asking", "storing"}
    PROVE  PendingGood(db, sum'.job)
<1>0. DbShape(db) /\ ErasGood(db) /\ SumShape
  BY DEF MemoryBase, MemoryShape, SummaryInv, SummariesGood
<1>1. PICK session \in Nat : session = sum.job.session
  BY <1>0 DEF SumShape
<1>2. PICK r : r = Snapshot(session)
  OBVIOUS
<1>3. sum'.job = r
  <2>1. sum' = IF r.last < r.first THEN [sum EXCEPT !.at = "idle", !.job = NoRange]
               ELSE [sum EXCEPT !.at = "asking", !.job = r]
    BY <1>1, <1>2 DEF RunSummarizerRead
  <2> QED
    BY <1>0, <2>1 DEF SumShape
<1>4. /\ r.session = session /\ r.first \in Nat /\ r.last \in 0 .. db.lastTurn
      /\ r.first = LatestSummaryEnd(db, session) + 1
      /\ r.told = SourceHash(db, session, r.first, r.last)
      /\ session \in DOMAIN db.sessions => r.era = db.sessions[session].era
      /\ session \notin DOMAIN db.sessions => r.era = 0
  BY <1>0, <1>2, SnapshotShape
<1>5. r.era <= db.lastEra
  BY <1>0, <1>4 DEF ErasGood, DbShape
<1>6. \A s \in DOMAIN db.summaries : db.summaries[s].session = session => db.summaries[s].last < r.first
  <2>1. /\ LatestSummaryEnd(db, session) \in Nat
        /\ \A s \in DOMAIN db.summaries :
              db.summaries[s].session = session => db.summaries[s].last <= LatestSummaryEnd(db, session)
    BY <1>0, LatestEnd
  <2>2. \A s \in DOMAIN db.summaries : db.summaries[s].last \in Nat
    BY <1>0 DEF DbShape
  <2> QED
    BY <1>4, <2>1, <2>2
<1>7. r.last <= db.lastTurn /\ r.told = Source(db, r)
  BY <1>0, <1>4 DEF Source, DbShape
<1> QED
  BY <1>3, <1>4, <1>5, <1>6, <1>7 DEF PendingGood

(* Every step keeps the summaries good. *)
LEMMA SummariesKept ==
    ASSUME MemoryBase, SummaryInv, [Next]_vars
    PROVE  SummaryInv'
<1>0. DbShape(db) /\ SummariesGood(db, hist.edits) /\ SumShape /\ HistShape /\ WriterShape
  BY DEF MemoryBase, MemoryShape, SummaryInv
<1>1. DbShape(db')
  <2>1. MemoryBase'
    BY BaseKept
  <2> QED
    BY <2>1 DEF MemoryBase, MemoryShape, DbShape
<1>2. hist'.edits = 0 => hist.edits = 0
  BY SummarizerMoves
<1>3. \/ GoesOn(db, db')
      \/ RunSummarizerStore
      \/ MemoryCli /\ \E id \in Nat : db' = DeleteTurn(db, id)
  <2>1. PICK r \in Rows : TRUE
    <3>1. [session |-> 0, role |-> "user", turn |-> 0, status |-> "committed", said |-> {}] \in Rows
      BY DEF Rows, Roles
    <3> QED
      BY <3>1
  <2>2. \A id \in Nat : /\ GoesOn(db, db) /\ GoesOn(db, InsertSession(db)) /\ GoesOn(db, CloseSession(db, id))
           /\ GoesOn(db, DeleteSession(db, id)) /\ GoesOn(db, WipeAll(db))
           /\ GoesOn(db, ClearRuntimeState(db)) /\ GoesOn(db, UpsertRuntimeState(db, id))
           /\ GoesOn(db, RunRecovery(db))
    BY <1>0, <2>1, CallsGoOn
  <2>3. RunTurnJob => GoesOn(db, db')
    <3> SUFFICES ASSUME RunTurnJob PROVE GoesOn(db, db')
      OBVIOUS
    <3>1. PICK row \in Rows : row = Head(jobs).row
      BY <1>0, Taken, KindsOfJobs DEF RunTurnJob, WriterShape
    <3>2. db' = InsertTurn(db, row)
      BY <3>1 DEF RunTurnJob
    <3>3. 0 \in Nat
      OBVIOUS
    <3> QED
      BY <1>0, <3>2, <3>3, CallsGoOn
  <2>4. GoesOn(db, db)
    <3>1. 0 \in Nat
      OBVIOUS
    <3> QED
      BY <2>2, <3>1
  <2> QED
    BY <2>2, <2>3, <2>4, StoreMoves
<1>4. SummariesGood(db', hist'.edits)
  <2>1. CASE GoesOn(db, db')
    BY <1>0, <1>1, <1>2, <2>1, SummariesStay
  <2>2. CASE RunSummarizerStore
    <3>1. hist' = hist
      BY <2>2 DEF RunSummarizerStore
    <3> QED
      BY <2>2, <3>1, SummaryStored
  <2>3. CASE MemoryCli /\ \E id \in Nat : db' = DeleteTurn(db, id)
    <3>1. hist'.edits # 0
      BY <2>3, SummarizerMoves
    <3> QED
      BY <1>0, <2>3, <3>1, TurnDeleted
  <2> QED
    BY <1>3, <2>1, <2>2, <2>3
<1>5. ASSUME sum'.at \in {"asking", "storing"} PROVE PendingGood(db', sum'.job)
  <2>1. CASE RunSummarizerRead
    <3>1. db' = db
      BY <2>1 DEF RunSummarizerRead
    <3> QED
      BY <1>5, <2>1, <3>1, SnapshotTaken
  <2>2. CASE ~MemoryCli /\ ~RunSummarizerStore /\ sum.at \in {"asking", "storing"} /\ sum'.job = sum.job
    <3>1. PendingGood(db, sum.job) /\ GoesOn(db, db')
      BY <1>3, <2>2 DEF SummaryInv
    <3>2. sum.job.first \in Nat /\ sum.job.last \in Nat /\ sum.job.era \in Nat
      BY <1>0 DEF SumShape
    <3>3. PendingGood(db', sum.job)
      BY <1>0, <1>1, <1>2, <3>1, <3>2, SummariesStay
    <3> QED
      BY <2>2, <3>3
  <2> QED
    BY <1>5, <2>1, <2>2, SummarizerMoves
<1>6. /\ SummariesGood(db', hist'.edits) => SummariesGood(db, hist.edits)'
      /\ PendingGood(db', sum'.job) => PendingGood(db, sum.job)'
  BY DEF SummariesGood, PendingGood, ErasGood, StoredGood, Same, Source, SourceHash, RecentTurns, Apart
<1> QED
  BY <1>4, <1>5, <1>6 DEF SummaryInv

(* Summaries of one session never overlap, and a summary of the session it *)
(* was made from has the hash of exactly the turns it was told, until an   *)
(* operator deletes one: the turns of a range are there when it is read,   *)
(* and none of them comes later or changes (run_one_summary).              *)
THEOREM SummariesAreTrue == MemorySafety => []SummariesTellTheirRange
<1>1. Init => MemoryBase /\ SummaryInv
  <2> SUFFICES ASSUME Init PROVE SummaryInv
    BY BaseInit
  <2>1. DOMAIN db.sessions = {} /\ DOMAIN db.summaries = {} /\ sum.at = "idle"
    BY DEF Init, EmptyTables, NoRows, IdleSummarizer
  <2> QED
    BY <2>1 DEF SummaryInv, SummariesGood, ErasGood
<1>2. MemoryBase /\ SummaryInv /\ [Next]_vars => (MemoryBase /\ SummaryInv)'
  BY BaseKept, SummariesKept
<1>3. MemoryBase /\ SummaryInv => SummariesTellTheirRange
  <2> SUFFICES ASSUME MemoryBase, SummaryInv PROVE SummariesTellTheirRange
    OBVIOUS
  <2>1. SummariesGood(db, hist.edits) /\ hist.edits \in Nat
    BY DEF SummaryInv, MemoryBase, MemoryShape, HistShape
  <2>2. \A s, u \in DOMAIN db.summaries :
          (s # u /\ db.summaries[s].session = db.summaries[u].session)
             => (db.summaries[s].last < db.summaries[u].first
                 \/ db.summaries[u].last < db.summaries[s].first)
    BY <2>1 DEF SummariesGood, Apart
  <2>3. ASSUME NEW s \in DOMAIN db.summaries, NEW row, row = db.summaries[s],
               row.era = db.sessions[row.session].era
        PROVE  row.hash = row.told /\ (s \in StaleSummaries(db) => hist.edits > 0)
    <3>1. StoredGood(db, hist.edits, row)
      BY <2>1, <2>3 DEF SummariesGood
    <3>2. row.hash = row.told /\ (hist.edits = 0 => Source(db, row) = row.hash)
      BY <2>3, <3>1 DEF StoredGood, Same
    <3>3. s \in StaleSummaries(db) => Source(db, row) # row.hash
      BY <2>3 DEF StaleSummaries, Source
    <3> QED
      BY <2>1, <3>2, <3>3
  <2> QED
    BY <2>2, <2>3 DEF SummariesTellTheirRange
<1> QED
  BY <1>1, <1>2, <1>3, PTL DEF MemorySafety

-----------------------------------------------------------------------------
(* Every row has its session. *)
References(d) ==
    /\ \A t \in DOMAIN d.turns : d.turns[t].session \in DOMAIN d.sessions
    /\ \A s \in DOMAIN d.summaries : d.summaries[s].session \in DOMAIN d.sessions
    /\ d.runtime = 0 \/ d.runtime \in DOMAIN d.sessions

(* No call of the repository leaves a row without its session. *)
LEMMA ReferencesKept ==
    ASSUME NEW d, DbShape(d), References(d), NEW id \in Nat, NEW row
    PROVE  /\ References(InsertSession(d)) /\ References(CloseSession(d, id))
           /\ References(DeleteSession(d, id)) /\ References(WipeAll(d))
           /\ References(InsertTurn(d, row)) /\ References(DeleteTurn(d, id))
           /\ References(InsertSummary(d, row)) /\ References(ClearRuntimeState(d))
           /\ References(UpsertRuntimeState(d, id)) /\ References(RunRecovery(d))
<1>0. DOMAIN d = Tables
  BY DEF DbShape
<1>1. References(InsertSession(d))
  <2>1. PICK e : e = InsertSession(d)
    OBVIOUS
  <2>2. e.turns = d.turns /\ e.summaries = d.summaries /\ e.runtime = d.runtime
    BY <1>0, <2>1, Inserted DEF OnlyIn, Tables
  <2>3. DOMAIN d.sessions \subseteq DOMAIN e.sessions
    BY <1>0, <2>1, Inserted DEF With
  <2> QED
    BY <2>1, <2>2, <2>3 DEF References
<1>2. References(CloseSession(d, id))
  <2>1. PICK e : e = CloseSession(d, id)
    OBVIOUS
  <2>2. e.turns = d.turns /\ e.summaries = d.summaries /\ e.runtime = d.runtime
    BY <1>0, <2>1, ClosedRow DEF OnlyIn, Tables
  <2>3. DOMAIN d.sessions = DOMAIN e.sessions
    BY <1>0, <2>1, ClosedRow
  <2> QED
    BY <2>1, <2>2, <2>3 DEF References
<1>3. References(DeleteSession(d, id))
  <2>1. PICK e : e = DeleteSession(d, id)
    OBVIOUS
  <2>2. /\ e.runtime = (IF d.runtime = id THEN 0 ELSE d.runtime)
        /\ DOMAIN e.sessions = DOMAIN d.sessions \ {id}
    BY <1>0, <2>1 DEF DeleteSession, Restrict, Select, Tables
  <2>3. e.turns = [t \in {t \in DOMAIN d.turns : d.turns[t].session # id} |-> d.turns[t]]
    BY <1>0, <2>1 DEF DeleteSession, Restrict, Select, Tables
  <2>4. e.summaries = [t \in {t \in DOMAIN d.summaries : d.summaries[t].session # id} |-> d.summaries[t]]
    BY <1>0, <2>1 DEF DeleteSession, Restrict, Select, Tables
  <2> QED
    BY <2>1, <2>2, <2>3, <2>4 DEF References
<1>4. References(WipeAll(d))
  BY DEF References, WipeAll, EmptyTables, NoRows
<1>5. References(InsertTurn(d, row))
  <2>1. PICK e : e = InsertTurn(d, row)
    OBVIOUS
  <2>2. CASE row.session \in DOMAIN d.sessions
    <3>1. e.sessions = d.sessions /\ e.summaries = d.summaries /\ e.runtime = d.runtime
      BY <1>0, <2>1, TurnRow, ZenonT(60) DEF OnlyIn, Tables
    <3>2. e.turns = With(d.turns, d.lastTurn + 1, row)
      BY <1>0, <2>1, <2>2, TurnRow
    <3>3. \A t \in DOMAIN e.turns : e.turns[t].session \in DOMAIN d.sessions
      BY <2>2, <3>2 DEF With, References
    <3> QED
      BY <2>1, <3>1, <3>3 DEF References
  <2>3. CASE row.session \notin DOMAIN d.sessions
    BY <1>0, <2>3, TurnRow
  <2> QED
    BY <2>2, <2>3
<1>6. References(InsertSummary(d, row))
  <2>1. PICK e : e = InsertSummary(d, row)
    OBVIOUS
  <2>2. CASE row.session \in DOMAIN d.sessions
    <3>1. e.sessions = d.sessions /\ e.turns = d.turns /\ e.runtime = d.runtime
      BY <1>0, <2>1, SummaryInserted DEF OnlyIn, Tables
    <3>2. e.summaries = With(d.summaries, MaxId(DOMAIN d.summaries) + 1, row)
      BY <1>0, <2>1, <2>2, SummaryInserted
    <3>3. \A s \in DOMAIN e.summaries : e.summaries[s].session \in DOMAIN d.sessions
      BY <2>2, <3>2 DEF With, References
    <3> QED
      BY <2>1, <3>1, <3>3 DEF References
  <2>3. CASE row.session \notin DOMAIN d.sessions
    BY <1>0, <2>3, SummaryInserted
  <2> QED
    BY <2>2, <2>3
<1>7. References(DeleteTurn(d, id))
  <2>1. PICK e : e = DeleteTurn(d, id)
    OBVIOUS
  <2>2. /\ e.sessions = d.sessions /\ e.summaries = d.summaries /\ e.runtime = d.runtime
        /\ e.turns = [t \in DOMAIN d.turns \ {id} |-> d.turns[t]]
    BY <1>0, <2>1 DEF DeleteTurn, Restrict, Tables
  <2> QED
    BY <2>1, <2>2 DEF References
<1>8. References(ClearRuntimeState(d)) /\ References(UpsertRuntimeState(d, id))
  BY <1>0 DEF References, ClearRuntimeState, UpsertRuntimeState, Tables
<1>9. References(RunRecovery(d))
  <2>1. PICK e : e = RunRecovery(d)
    OBVIOUS
  <2>2. e.summaries = d.summaries /\ e.runtime = d.runtime /\ DOMAIN e.sessions = DOMAIN d.sessions
    BY <1>0, <2>1, Recovered DEF OnlyIn, Tables
  <2>3. [session |-> 0, role |-> "user", turn |-> 0, status |-> "committed", said |-> {}] \in Rows
    BY DEF Rows, Roles
  <2>4. e.turns = d.turns
    BY <2>1, <2>3, RowCalls
  <2> QED
    BY <2>1, <2>2, <2>4 DEF References
<1> QED
  BY <1>1, <1>2, <1>3, <1>4, <1>5, <1>6, <1>7, <1>8, <1>9

\* The rest of the shape, which nothing above depends on.
TypeInv == References(db) /\ restart \in BOOLEAN /\ booting \in BOOLEAN /\ Len(jobs) <= Capacity

(* Every step keeps the references. *)
LEMMA TypeKept ==
    ASSUME MemoryBase, TypeInv, [Next]_vars
    PROVE  TypeInv'
<1>0. DbShape(db) /\ jobs \in Seq(Jobs) /\ Capacity \in Nat
  BY MemoryAssumption DEF MemoryBase, MemoryShape, WriterShape
<1>1. References(db')
  <2>1. RunTurnJob \/ RunSummarizerStore => References(db')
    <3>1. \A row : References(InsertTurn(db, row)) /\ References(InsertSummary(db, row))
      <4>1. 0 \in Nat
        OBVIOUS
      <4> QED
        BY <1>0, <4>1, ReferencesKept DEF TypeInv
    <3>2. RunTurnJob => \E row : db' = InsertTurn(db, row)
      BY DEF RunTurnJob
    <3>3. RunSummarizerStore => \E row : db' = InsertSummary(db, row)
      BY DEF RunSummarizerStore
    <3> QED
      BY <3>1, <3>2, <3>3
  <2>2. \A id \in Nat : /\ References(InsertSession(db)) /\ References(CloseSession(db, id))
           /\ References(DeleteSession(db, id)) /\ References(WipeAll(db))
           /\ References(DeleteTurn(db, id)) /\ References(ClearRuntimeState(db))
           /\ References(UpsertRuntimeState(db, id)) /\ References(RunRecovery(db))
    BY <1>0, ReferencesKept DEF TypeInv
  <2>3. References(db)
    BY DEF TypeInv
  <2> QED
    BY <2>1, <2>2, <2>3, StoreMoves
<1>2. References(db)'
  BY <1>1 DEF References
<1>3. Len(jobs') <= Capacity
  <2>1. CASE jobs' = jobs
    BY <2>1 DEF TypeInv
  <2>2. ASSUME NEW j \in Jobs, Accepts, jobs' = Append(jobs, j) PROVE Len(jobs') <= Capacity
    BY <1>0, <2>2 DEF Accepts
  <2>3. CASE jobs # <<>> /\ jobs' = Tail(jobs)
    BY <1>0, <2>3 DEF TypeInv
  <2>4. CASE jobs' = <<>>
    BY <1>0, <2>4
  <2> QED
    BY <2>1, <2>2, <2>3, <2>4, QueueMoves DEF MemoryBase
<1>4. restart' \in BOOLEAN /\ booting' \in BOOLEAN
  <2>0. restart \in BOOLEAN /\ booting \in BOOLEAN
    BY SMTT(60) DEF TypeInv
  <2>1. CASE HandleFinal \/ HandleStarted \/ HandleSentence \/ HandlePlaybackFinished \/ HandleFinished
             \/ SummarizerCounts \/ HttpRequest \/ UNCHANGED vars
    BY <2>0, <2>1 DEF HandleFinal, HandleStarted, HandleSentence, HandlePlaybackFinished, HandleFinished,
                      SummarizerCounts, HttpRequest, vars
  <2>2. CASE OpCall \/ OpTell \/ SummarizerTakes \/ SummarizerAnswered \/ BootCall \/ BootOperation \/ Stop
             \/ Start \/ MemoryCli
    BY <2>0, <2>2 DEF OpCall, OpTell, SummarizerTakes, SummarizerAnswered, BootCall, BootOperation, Stop,
                      Start, MemoryCli
  <2>3. CASE RunTurnJob \/ RunSummarizerRead \/ RunSummarizerStore \/ RunBootJob \/ RunSessionJob
    BY <2>0, <2>3 DEF RunTurnJob, RunSummarizerRead, RunSummarizerStore, RunBootJob, RunSessionJob
  <2>4. CASE Exit \/ Crash \/ Terminate
    BY <2>4 DEF Exit, Crash, Terminate, Volatile
  <2> QED
    BY <2>1, <2>2, <2>3, <2>4 DEF Next, MemoryThread, Sessions, SummarizerWorker, Boot
<1> QED
  BY <1>2, <1>3, <1>4 DEF TypeInv

(* Every row of the store has the session it belongs to, the queue never   *)
(* has more jobs than its capacity, and the state has its shape.           *)
THEOREM MemoryTypeCorrect == MemorySafety => []TypeOK
<1>1. Init => MemoryBase /\ TypeInv
  <2> SUFFICES ASSUME Init PROVE TypeInv
    BY BaseInit
  <2>1. References(db)
    BY DEF Init, References, EmptyTables, NoRows
  <2>2. restart = FALSE /\ booting = FALSE /\ jobs = <<>>
    BY DEF Init
  <2>3. Len(<<>>) = 0 /\ Capacity \in Nat
    BY MemoryAssumption
  <2> QED
    <3>1. restart \in BOOLEAN /\ booting \in BOOLEAN
      BY <2>2, Zenon
    <3>2. Len(jobs) <= Capacity
      BY <2>2, <2>3
    <3> QED
      BY <2>1, <3>1, <3>2 DEF TypeInv
<1>2. MemoryBase /\ TypeInv /\ [Next]_vars => (MemoryBase /\ TypeInv)'
  BY BaseKept, TypeKept
<1>3. MemoryBase /\ TypeInv => TypeOK
  <2> SUFFICES ASSUME MemoryBase, TypeInv PROVE TypeOK
    OBVIOUS
  <2>0. DbShape(db) /\ WriterShape /\ SumShape /\ References(db)
    BY DEF MemoryBase, MemoryShape, TypeInv
  <2> DEFINE S == DOMAIN db.sessions \union {db.lastSession, resume, current}
  <2>1. PICK B \in Nat : B = db.lastSession + resume + current
    BY <2>0, SMTT(60) DEF DbShape, WriterShape
  <2>2. S \in SUBSET Nat /\ \A x \in S : x <= B
    <3>1. /\ db.lastSession \in Nat /\ resume \in Nat /\ current \in Nat
          /\ DOMAIN db.sessions \subseteq 1 .. db.lastSession
      BY <2>0 DEF DbShape, WriterShape
    <3>2. \A x \in DOMAIN db.sessions : x \in Nat /\ x <= B
      BY <2>1, <3>1
    <3>3. db.lastSession <= B /\ resume <= B /\ current <= B
      BY <2>1, <3>1
    <3> QED
      BY <3>1, <3>2, <3>3
  <2>3. MaxId(S) \in S \union {0} /\ \A x \in S : x <= MaxId(S)
    BY <2>1, <2>2, Greatest
  <2>4. {resume, current, db.runtime} \subseteq S \union {0}
    BY <2>0 DEF References
  <2> HIDE DEF S
  <2>5. \A x \in S \union {0} : x \in 0 .. MaxId(S)
    <3>1. PICK m : m = MaxId(S)
      OBVIOUS
    <3>2. m \in Nat /\ \A x \in S : x \in Nat /\ x <= m
      <4>1. \A x \in S \union {0} : x \in Nat
        BY <2>2
      <4>2. m \in Nat
        BY <2>3, <3>1, <4>1, Zenon
      <4> QED
        BY <2>3, <3>1, <4>1, <4>2, Zenon
    <3>3. \A x \in S \union {0} : x \in 0 .. m
      BY <3>2
    <3> QED
      BY <3>1, <3>3
  <2>6. {resume, current, db.runtime} \subseteq 0 .. MaxId(S)
    BY <2>4, <2>5
  <2> QED
    BY <2>0, <2>6 DEF S, TypeOK, TypeInv, WriterShape, SumShape, References
<1> QED
  BY <1>1, <1>2, <1>3, PTL DEF MemorySafety
=============================================================================
