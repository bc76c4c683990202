------------------------------ MODULE MCMemory ------------------------------
(***************************************************************************)
(* Memory for TLC: a turn and a session operation through two lives of the *)
(* process; a turn, a restart and the offline command; a turn with two     *)
(* operations; and two turns of two sentences with none.                   *)
(***************************************************************************)
EXTENDS Memory

Lives == [turns |-> 1, sentences |-> 1, ops |-> 1, starts |-> 2, edits |-> 0]
Edits == [turns |-> 1, sentences |-> 1, ops |-> 0, starts |-> 2, edits |-> 1]
Operations == [turns |-> 1, sentences |-> 1, ops |-> 2, starts |-> 1, edits |-> 0]
Turns == [turns |-> 2, sentences |-> 2, ops |-> 0, starts |-> 1, edits |-> 0]

const_Bounds == {Lives, Edits, Operations, Turns}
=============================================================================
