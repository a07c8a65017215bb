----------------------------- MODULE BoundedFifo -----------------------------
(***************************************************************************)
(* What the event queue promises: items come out in the order they went    *)
(* in, and there are never more than Capacity of them.  Several may go in  *)
(* at once; one that finds no room leaves no trace.                        *)
(***************************************************************************)
EXTENDS Naturals, Sequences

CONSTANT Capacity
VARIABLE items

Init == items = << >>

Put ==
  /\ Len(items') \in Len(items)..Capacity
  /\ SubSeq(items', 1, Len(items)) = items

Take ==
  /\ items # << >>
  /\ items' = Tail(items)

Spec == Init /\ [][Put \/ Take]_items
=============================================================================
