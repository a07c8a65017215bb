----------------------------- MODULE EventQueue -----------------------------
(***************************************************************************)
(* The fixed-capacity ring buffer of r2-engine, as operators on its value. *)
(***************************************************************************)
EXTENDS Naturals, Sequences

CONSTANTS
  Capacity,   \* N, the slots of the ring (DEFAULT_QUEUE_CAPACITY is 32)
  NoEvent     \* an empty slot

ASSUME CapacityAssumption == Capacity \in Nat \ {0}

Indices == 0..(Capacity - 1)
EmptyQueue ==
  [events |-> [i \in Indices |-> NoEvent], head |-> 0, tail |-> 0, count |-> 0]

\* Wrapping round is forgotten for the write position.
MutPush(q, event) ==
  IF q.count >= Capacity THEN q
  ELSE [q EXCEPT !.events[q.tail] = event,
                 !.tail = IF @ + 1 = Capacity THEN @ ELSE @ + 1,
                 !.count = @ + 1]

\* An event that finds the ring full is refused.
Push(q, event) ==
  IF q.count >= Capacity THEN q
  ELSE [q EXCEPT !.events[q.tail] = event,
                 !.tail = (@ + 1) % Capacity,
                 !.count = @ + 1]
IsFull(q) == q.count >= Capacity

Oldest(q) == q.events[q.head]
Pop(q) ==
  IF q.count = 0 THEN q
  ELSE [q EXCEPT !.events[q.head] = NoEvent,
                 !.head = (@ + 1) % Capacity,
                 !.count = @ - 1]

\* What the ring holds, oldest first.
Contents(q) == [i \in 1..q.count |-> q.events[(q.head + i - 1) % Capacity]]
=============================================================================
