-------------------------------- MODULE Fifo --------------------------------
(***************************************************************************)
(* What CaptureRing promises its two threads: items come out in the order  *)
(* they went in, and an item is refused only when Depth of them are held.  *)
(***************************************************************************)
EXTENDS Naturals, Sequences

CONSTANT Depth

VARIABLES items, sent, got

Init == items = <<>> /\ sent = 0 /\ got = 0

\* The sent-th item is offered: accepted, or refused by a full queue.
Offer ==
    /\ sent' = sent + 1
    /\ \/ Len(items) < Depth /\ items' = Append(items, sent + 1)
       \/ Len(items) = Depth /\ items' = items
    /\ UNCHANGED got

Take ==
    /\ items # <<>>
    /\ got' = Head(items) /\ items' = Tail(items)
    /\ UNCHANGED sent

Next == Offer \/ Take

Spec == Init /\ [][Next]_<<items, sent, got>>
=============================================================================
