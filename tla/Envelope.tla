------------------------------ MODULE Envelope ------------------------------
(***************************************************************************)
(* The reassembler of fragmented server events (stt/realtime_envelope.cpp, *)
(* EnvelopeReassembler).  A message is its id; its fragments are numbered  *)
(* and may arrive in any order, mixed with those of other messages, and    *)
(* again.  A fragment says how many there are, and may say so wrongly.     *)
(***************************************************************************)
EXTENDS Integers, FiniteSets

CONSTANTS
    MessageIds,
    Total,          \* fragments of a message
    MaxFed          \* bound: envelopes fed

ASSUME EnvelopeAssumption == Total \in Nat \ {0} /\ MaxFed \in Nat

VARIABLES
    pending,    \* per id: the announced total (0: no entry) and the fragments kept
    received,   \* per id: Pending::received
    fed,        \* history: envelopes fed
    arrived,    \* history, per id: fragments seen since the entry was made
    emitted     \* history: <<id, fragments>> of the message returned last

envelopeVars == <<pending, received, fed, arrived, emitted>>

NoEntry == [total |-> 0, have |-> {}]

EnvelopeInit ==
    /\ pending = [id \in MessageIds |-> NoEntry] /\ received = [id \in MessageIds |-> 0]
    /\ fed = 0 /\ arrived = [id \in MessageIds |-> {}] /\ emitted = <<>>

\* try_emplace and the bookkeeping of one accepted fragment.
Keep(id, i, total) ==
    LET have == pending[id].have \cup {i}
        whole == received[id] + 1 = total
    IN  /\ pending' = [pending EXCEPT ![id] = IF whole THEN NoEntry
                                              ELSE [total |-> total, have |-> have]]
        /\ received' = [received EXCEPT ![id] = IF whole THEN 0 ELSE @ + 1]
        /\ emitted' = IF whole THEN <<id, have>> ELSE emitted
        /\ arrived' = [arrived EXCEPT ![id] = IF whole THEN {} ELSE @ \cup {i}]

(* Mutant of FeedFragment: a duplicate is counted. *)
FeedFragmentTwice(id, i, total) ==
    /\ fed < MaxFed /\ fed' = fed + 1 /\ i < total
    /\ IF pending[id].total \notin {0, total}
       THEN /\ pending' = [pending EXCEPT ![id] = NoEntry]
            /\ received' = [received EXCEPT ![id] = 0]
            /\ arrived' = [arrived EXCEPT ![id] = {}]
            /\ UNCHANGED emitted
       ELSE Keep(id, i, total)

FeedFragment(id, i, total) ==
    /\ fed < MaxFed /\ fed' = fed + 1 /\ i < total
    /\ CASE pending[id].total \notin {0, total} ->
                /\ pending' = [pending EXCEPT ![id] = NoEntry]
                /\ received' = [received EXCEPT ![id] = 0]
                /\ arrived' = [arrived EXCEPT ![id] = {}]
                /\ UNCHANGED emitted
         [] pending[id].total \in {0, total} /\ i \in pending[id].have ->
                UNCHANGED <<pending, received, arrived, emitted>>
         [] OTHER -> Keep(id, i, total)

\* full_message, an unknown type, or an index out of range: no state is touched.
FeedOther == fed < MaxFed /\ fed' = fed + 1 /\ UNCHANGED <<pending, received, arrived, emitted>>

EnvelopeNext ==
    \/ \E id \in MessageIds, i \in 0 .. Total, total \in {Total, Total + 1} : FeedFragment(id, i, total)
    \/ FeedOther

(* A message comes out exactly when its last fragment arrives, and whole:  *)
(* every fragment once, whatever the order, the repetitions and the        *)
(* messages in between (feed).                                             *)
MessagesComeOutWhole ==
    /\ emitted # <<>> => emitted[2] \in {0 .. Total - 1, 0 .. Total}
    /\ \A id \in MessageIds :
        /\ received[id] = Cardinality(pending[id].have) /\ pending[id].have = arrived[id]
        /\ pending[id].total # 0 => received[id] \in 1 .. pending[id].total - 1
=============================================================================
