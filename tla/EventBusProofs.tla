---------------------------- MODULE EventBusProofs ----------------------------
(***************************************************************************)
(* Proofs about EventQueue and EventBus, for any sentants and              *)
(* subscriptions, any number of plugins and any capacity, budget and limit *)
(* of the loop.                                                            *)
(***************************************************************************)
EXTENDS EventBus, IndexInduction

-----------------------------------------------------------------------------
(* The ring buffer is a bounded FIFO queue for every capacity: what its    *)
(* indices wrap round to is the sequence a reader of the code has in mind. *)

\* Wrapping round, for an index that went past the end by less than a round.
LEMMA Wrap ==
  ASSUME NEW x \in Nat, x < 2 * Capacity
  PROVE  x % Capacity = IF x < Capacity THEN x ELSE x - Capacity
<1> USE CapacityAssumption
<1>1. /\ x % Capacity \in 0..(Capacity - 1)
      /\ x = (Capacity * (x \div Capacity)) + (x % Capacity)
      /\ x \div Capacity \in Int
  OBVIOUS
<1>2. PICK q \in Int, r \in 0..(Capacity - 1) : x = (Capacity * q) + r /\ r = x % Capacity
  BY <1>1
<1>3. q < 2
  BY <1>2
<1>4. q > -1
  BY <1>2
<1>5. CASE q = 0
  BY <1>2, <1>5
<1>6. CASE q = 1
  BY <1>2, <1>6
<1> QED BY <1>3, <1>4, <1>5, <1>6

\* The index x comes down to, one round at most past the end.
Round(x) == IF x < Capacity THEN x ELSE x - Capacity

\* A ring of events of S as pushes and pops leave it: the write position is as far
\* past the read position as there are events.
RingRecords(S) == [events : [Indices -> S \cup {NoEvent}],
                   head : Indices, tail : Indices, count : 0..Capacity]
Rings(S) == {q \in RingRecords(S) : q.tail = (q.head + q.count) % Capacity}

\* Going on one and then the rest of the way round is going on all the way.
LEMMA RoundTwice ==
  ASSUME NEW h \in 0..(Capacity - 1), NEW n \in 0..(Capacity - 1)
  PROVE  Round(Round(h + 1) + n) = Round(h + (n + 1))
  BY CapacityAssumption DEF Round

\* The fields of a ring, in terms the provers can add up.
LEMMA RingFacts ==
  ASSUME NEW S, NEW q \in RingRecords(S)
  PROVE  /\ q.events \in [0..(Capacity - 1) -> S \cup {NoEvent}]
         /\ q.head \in 0..(Capacity - 1) /\ q.tail \in 0..(Capacity - 1)
         /\ q.count \in 0..Capacity
         /\ q \in Rings(S) <=> q.tail = Round(q.head + q.count)
<1> USE CapacityAssumption
<1>1. /\ q.events \in [0..(Capacity - 1) -> S \cup {NoEvent}]
      /\ q.head \in 0..(Capacity - 1) /\ q.tail \in 0..(Capacity - 1)
      /\ q.count \in 0..Capacity
  BY DEF RingRecords, Indices
<1>2. PICK x \in Nat : x = q.head + q.count /\ x < 2 * Capacity
  BY <1>1
<1>3. (q.head + q.count) % Capacity = Round(q.head + q.count)
  BY <1>2, Wrap DEF Round
<1> QED BY <1>1, <1>3 DEF Rings

\* Contents is a sequence of as many events as are counted.
LEMMA ContentsFacts ==
  ASSUME NEW S, NEW q \in RingRecords(S)
  PROVE  /\ Contents(q) \in Seq(S \cup {NoEvent})
         /\ Len(Contents(q)) = q.count
         /\ \A i \in 1..q.count : Contents(q)[i] = q.events[Round(q.head + i - 1)]
<1> USE CapacityAssumption
<1>1. PICK n \in 0..Capacity, h \in 0..(Capacity - 1) : n = q.count /\ h = q.head
  BY RingFacts
<1>2. \A i \in 1..n : /\ (h + i - 1) % Capacity = Round(h + i - 1)
                      /\ Round(h + i - 1) \in 0..(Capacity - 1)
  <2> TAKE i \in 1..n
  <2>1. PICK x \in Nat : x = h + i - 1 /\ x < 2 * Capacity
    BY <1>1
  <2> QED BY <2>1, Wrap DEF Round
<1>3. Contents(q) = [i \in 1..n |-> q.events[Round(h + i - 1)]]
  BY <1>1, <1>2 DEF Contents
<1>4. PICK f \in [0..(Capacity - 1) -> S \cup {NoEvent}] : f = q.events
  BY RingFacts
<1>5. \A i \in 1..n : f[Round(h + i - 1)] \in S \cup {NoEvent}
  BY <1>2
<1>6. [i \in 1..n |-> f[Round(h + i - 1)]] \in [1..n -> S \cup {NoEvent}]
  BY <1>5
<1>7. \A s \in [1..n -> S \cup {NoEvent}] : s \in Seq(S \cup {NoEvent}) /\ Len(s) = n
  BY <1>1
<1>8. \A i \in 1..n : Contents(q)[i] = q.events[Round(h + i - 1)]
  BY <1>3
<1> QED BY <1>1, <1>3, <1>4, <1>6, <1>7, <1>8

\* A push fills the slot at the write position and moves that position on.
LEMMA PushFields ==
  ASSUME NEW S, NEW q \in RingRecords(S), NEW event \in S, ~IsFull(q)
  PROVE  LET p == Push(q, event)
         IN /\ p \in RingRecords(S)
            /\ p.events = [q.events EXCEPT ![q.tail] = event]
            /\ p.head = q.head /\ p.tail = Round(q.tail + 1) /\ p.count = q.count + 1
<1> USE CapacityAssumption
<1>1. q.count < Capacity /\ q.count \in Nat
  BY RingFacts DEF IsFull
<1>2. PICK x \in Nat : x = q.tail + 1 /\ x < 2 * Capacity
  BY RingFacts
<1>3. (q.tail + 1) % Capacity = Round(q.tail + 1)
  BY <1>2, Wrap DEF Round
<1>4. PICK t : t = Round(q.tail + 1)
  OBVIOUS
<1>5. t \in Indices
  BY <1>4, RingFacts DEF Round, Indices
<1>6. Push(q, event) = [q EXCEPT !.events[q.tail] = event, !.tail = t, !.count = @ + 1]
  <2>1. ~(q.count >= Capacity)
    BY <1>1
  <2> QED BY <2>1, <1>3, <1>4, Zenon DEF Push
<1>7. q.count + 1 \in 0..Capacity
  BY <1>1
<1>8. [q.events EXCEPT ![q.tail] = event] \in [Indices -> S \cup {NoEvent}]
  BY DEF RingRecords
<1> QED BY <1>4, <1>5, <1>6, <1>7, <1>8 DEF RingRecords

\* A pop empties the slot at the read position and moves that position on.
LEMMA PopFields ==
  ASSUME NEW S, NEW q \in RingRecords(S), q.count > 0
  PROVE  LET p == Pop(q)
         IN /\ p \in RingRecords(S)
            /\ p.events = [q.events EXCEPT ![q.head] = NoEvent]
            /\ p.head = Round(q.head + 1) /\ p.tail = q.tail /\ p.count = q.count - 1
<1> USE CapacityAssumption
<1>1. q.count \in 1..Capacity
  BY RingFacts
<1>2. PICK x \in Nat : x = q.head + 1 /\ x < 2 * Capacity
  BY RingFacts
<1>3. (q.head + 1) % Capacity = Round(q.head + 1)
  BY <1>2, Wrap DEF Round
<1>4. PICK h : h = Round(q.head + 1)
  OBVIOUS
<1>5. h \in Indices
  BY <1>4, RingFacts DEF Round, Indices
<1>6. Pop(q) = [q EXCEPT !.events[q.head] = NoEvent, !.head = h, !.count = @ - 1]
  <2>1. q.count # 0
    BY <1>1
  <2> QED BY <2>1, <1>3, <1>4, Zenon DEF Pop
<1>7. q.count - 1 \in 0..Capacity
  BY <1>1
<1>8. [q.events EXCEPT ![q.head] = NoEvent] \in [Indices -> S \cup {NoEvent}]
  BY DEF RingRecords
<1> QED BY <1>4, <1>5, <1>6, <1>7, <1>8 DEF RingRecords

\* A new ring is empty.
THEOREM EmptyIsEmpty ==
  ASSUME NEW S PROVE EmptyQueue \in Rings(S) /\ Contents(EmptyQueue) = << >>
<1> USE CapacityAssumption
<1>1. EmptyQueue \in RingRecords(S) /\ EmptyQueue.count = 0
      /\ EmptyQueue.head = 0 /\ EmptyQueue.tail = 0
  BY DEF EmptyQueue, RingRecords, Indices
<1>2. EmptyQueue \in Rings(S)
  BY <1>1, RingFacts DEF Round
<1>3. Len(Contents(EmptyQueue)) = 0 /\ Contents(EmptyQueue) \in Seq(S \cup {NoEvent})
  BY <1>1, ContentsFacts
<1> QED BY <1>2, <1>3

\* An event that finds room joins the end of what the ring holds, wherever in the
\* ring that end is; one that finds none changes nothing.
THEOREM PushAppends ==
  ASSUME NEW S, NEW q \in Rings(S), NEW event \in S
  PROVE  /\ Push(q, event) \in Rings(S)
         /\ Contents(Push(q, event)) =
              IF IsFull(q) THEN Contents(q) ELSE Append(Contents(q), event)
<1> USE CapacityAssumption
<1>1. /\ q \in RingRecords(S) /\ q.count \in 0..Capacity
      /\ q.head \in 0..(Capacity - 1) /\ q.tail \in 0..(Capacity - 1)
      /\ q.events \in [0..(Capacity - 1) -> S \cup {NoEvent}]
      /\ q.tail = Round(q.head + q.count)
  <2>1. q \in RingRecords(S)
    BY DEF Rings
  <2> QED BY <2>1, RingFacts
<1>2. CASE IsFull(q)
  BY <1>2 DEF IsFull, Push
<1>3. CASE ~IsFull(q)
  <2>1. q.count < Capacity
    BY <1>1, <1>3 DEF IsFull
  <2>2. PICK p : p = Push(q, event)
    OBVIOUS
  <2>3. /\ p \in RingRecords(S) /\ p.events = [q.events EXCEPT ![q.tail] = event]
        /\ p.head = q.head /\ p.tail = Round(q.tail + 1) /\ p.count = q.count + 1
    BY <1>1, <1>3, <2>2, PushFields
  <2>4. p \in Rings(S)
    <3>1. Round(q.tail + 1) = Round(q.head + (q.count + 1))
      BY <1>1, <2>1 DEF Round
    <3> QED BY <2>3, <3>1, RingFacts
  <2>5. \A i \in 1..(q.count + 1) :
          Contents(p)[i] = IF i = q.count + 1 THEN event ELSE Contents(q)[i]
    <3> TAKE i \in 1..(q.count + 1)
    <3>1. Contents(p)[i] = p.events[Round(q.head + i - 1)]
      <4>1. i \in 1..p.count
        BY <2>3
      <4>2. Contents(p)[i] = p.events[Round(p.head + i - 1)]
        <5>1. \A j \in 1..p.count : Contents(p)[j] = p.events[Round(p.head + j - 1)]
          BY <2>3, ContentsFacts, Zenon
        <5> QED BY <4>1, <5>1, Zenon
      <4> QED BY <4>2, <2>3
    <3>2. CASE i = q.count + 1
      <4>1. q.head + i - 1 = q.head + q.count
        BY <3>2, <1>1
      <4> QED BY <3>1, <3>2, <4>1, <2>3, <1>1
    <3>3. CASE i # q.count + 1
      <4>1. i \in 1..q.count
        BY <3>3, <1>1
      <4>2. Round(q.head + i - 1) # q.tail /\ Round(q.head + i - 1) \in 0..(Capacity - 1)
        <5>1. PICK h \in 0..(Capacity - 1), n \in 0..(Capacity - 1) : h = q.head /\ n = q.count
          BY <1>1, <2>1
        <5>2. i \in 1..n
          BY <4>1, <5>1
        <5>3. Round(h + i - 1) # Round(h + n) /\ Round(h + i - 1) \in 0..(Capacity - 1)
          BY <5>2 DEF Round
        <5> QED BY <5>1, <5>3, <1>1, Zenon
      <4>3. Contents(q)[i] = q.events[Round(q.head + i - 1)]
        BY <1>1, <4>1, ContentsFacts
      <4> QED BY <3>1, <3>3, <4>2, <4>3, <2>3, <1>1
    <3> QED BY <3>2, <3>3
  <2>6. /\ Contents(p) \in Seq(S \cup {NoEvent}) /\ Len(Contents(p)) = q.count + 1
        /\ Contents(q) \in Seq(S \cup {NoEvent}) /\ Len(Contents(q)) = q.count
    BY <1>1, <2>3, ContentsFacts
  <2>7. /\ Append(Contents(q), event) \in Seq(S \cup {NoEvent})
        /\ Len(Append(Contents(q), event)) = q.count + 1
        /\ \A i \in 1..(q.count + 1) :
             Append(Contents(q), event)[i] = IF i = q.count + 1 THEN event ELSE Contents(q)[i]
    BY <2>6, <1>1
  <2>8. Contents(p) = Append(Contents(q), event)
    BY <2>5, <2>6, <2>7
  <2> QED BY <2>2, <2>4, <2>8, <1>3
<1> QED BY <1>2, <1>3

\* The oldest event is the first of what the ring holds, and a pop leaves the others
\* in their order.
THEOREM PopTakesTheOldest ==
  ASSUME NEW S, NEW q \in Rings(S), q.count > 0
  PROVE  /\ Pop(q) \in Rings(S)
         /\ Contents(q) # << >> /\ Oldest(q) = Head(Contents(q))
         /\ Contents(Pop(q)) = Tail(Contents(q))
<1> USE CapacityAssumption
<1>1. /\ q \in RingRecords(S) /\ q.count \in 1..Capacity
      /\ q.head \in 0..(Capacity - 1) /\ q.tail \in 0..(Capacity - 1)
      /\ q.events \in [0..(Capacity - 1) -> S \cup {NoEvent}]
      /\ q.tail = Round(q.head + q.count)
  <2>1. q \in RingRecords(S)
    BY DEF Rings
  <2> QED BY <2>1, RingFacts
<1>2. PICK p : p = Pop(q)
  OBVIOUS
<1>3. /\ p \in RingRecords(S) /\ p.events = [q.events EXCEPT ![q.head] = NoEvent]
      /\ p.head = Round(q.head + 1) /\ p.tail = q.tail /\ p.count = q.count - 1
  BY <1>1, <1>2, PopFields
<1>4. p \in Rings(S)
  <2>1. q.tail = Round(Round(q.head + 1) + (q.count - 1))
    <3>1. PICK n \in 0..(Capacity - 1) : n = q.count - 1
      BY <1>1
    <3>2. n + 1 = q.count
      BY <3>1, <1>1
    <3>3. Round(Round(q.head + 1) + n) = Round(q.head + (n + 1))
      BY <1>1, RoundTwice, Zenon
    <3> QED BY <3>1, <3>2, <3>3, <1>1, Zenon
  <2> QED BY <1>3, <2>1, RingFacts
<1>5. /\ Contents(q) \in Seq(S \cup {NoEvent}) /\ Len(Contents(q)) = q.count
      /\ Contents(p) \in Seq(S \cup {NoEvent}) /\ Len(Contents(p)) = q.count - 1
  BY <1>1, <1>3, ContentsFacts
<1>6. Contents(q) # << >> /\ Oldest(q) = Head(Contents(q))
  <2>1. Round(q.head + 1 - 1) = q.head
    BY <1>1 DEF Round
  <2>2. Contents(q)[1] = q.events[q.head]
    <3>1. 1 \in 1..q.count
      BY <1>1
    <3>2. Contents(q)[1] = q.events[Round(q.head + 1 - 1)]
      BY <1>1, <3>1, ContentsFacts
    <3> QED BY <3>2, <2>1
  <2> QED BY <1>1, <1>5, <2>2 DEF Oldest
<1>7. \A i \in 1..(q.count - 1) : Contents(p)[i] = Contents(q)[i + 1]
  <2> TAKE i \in 1..(q.count - 1)
  <2>1. Contents(p)[i] = p.events[Round(p.head + i - 1)]
    <3>1. i \in 1..p.count
      BY <1>3
    <3>2. \A j \in 1..p.count : Contents(p)[j] = p.events[Round(p.head + j - 1)]
      BY <1>3, ContentsFacts, Zenon
    <3> QED BY <3>1, <3>2, Zenon
  <2>2. i + 1 \in 1..q.count
    BY <1>1
  <2>3. Contents(q)[i + 1] = q.events[Round(q.head + (i + 1) - 1)]
    BY <1>1, <2>2, ContentsFacts
  <2>4. /\ Round(p.head + i - 1) = Round(q.head + (i + 1) - 1)
        /\ Round(q.head + (i + 1) - 1) \in 0..(Capacity - 1)
        /\ Round(q.head + (i + 1) - 1) # q.head
    <3>1. PICK h \in 0..(Capacity - 1), n \in 1..(Capacity - 1) : h = q.head /\ n = i
      BY <1>1
    <3>2. PICK g \in 0..(Capacity - 1) : g = p.head /\ g = Round(h + 1)
      BY <1>1, <1>3, <3>1 DEF Round
    <3>3. Round(g + n - 1) = Round(h + (n + 1) - 1)
      BY <3>2 DEF Round
    <3>4. Round(h + (n + 1) - 1) \in 0..(Capacity - 1) /\ Round(h + (n + 1) - 1) # h
      BY DEF Round
    <3> QED BY <3>1, <3>2, <3>3, <3>4
  <2> QED BY <2>1, <2>3, <2>4, <1>1, <1>3
<1>8. /\ Tail(Contents(q)) \in Seq(S \cup {NoEvent}) /\ Len(Tail(Contents(q))) = q.count - 1
      /\ \A i \in 1..(q.count - 1) : Tail(Contents(q))[i] = Contents(q)[i + 1]
  BY <1>5, <1>6
<1>9. Contents(p) = Tail(Contents(q))
  BY <1>5, <1>7, <1>8
<1> QED BY <1>2, <1>4, <1>6, <1>9

-----------------------------------------------------------------------------
(* The actions of a handler, one after the other. *)

\* What the processing of a list of actions passes through.
LEMMA ProcessActionsSteps ==
  ASSUME NEW b, NEW actions, Len(actions) \in Nat
  PROVE  \E after :
           /\ after[0] = b
           /\ \A i \in 1..Len(actions) : after[i] = Perform(after[i - 1], actions[i])
           /\ ProcessActions(b, actions) = after[Len(actions)]
<1> DEFINE n == Len(actions)
           IsRun(f, k) == f = [i \in 0..k |-> IF i = 0 THEN b
                                              ELSE Perform(f[i - 1], actions[i])]
           S == {k \in 0..n : \E f : IsRun(f, k)}
<1>1. 0 \in S
  <2>1. IsRun([i \in 0..0 |-> b], 0)
    <3>1. \A i \in 0..0 : i = 0
      OBVIOUS
    <3> QED BY <3>1
  <2>2. 0 \in 0..n
    OBVIOUS
  <2> HIDE DEF IsRun
  <2> QED BY <2>1, <2>2
<1>2. ASSUME NEW k \in 0..(n - 1), k \in S PROVE k + 1 \in S
  <2>1. PICK f : IsRun(f, k)
    BY <1>2
  <2> DEFINE g == [i \in 0..(k + 1) |-> IF i = k + 1 THEN Perform(f[k], actions[k + 1])
                                        ELSE f[i]]
  <2>2. \A i \in 0..(k + 1) :
          g[i] = IF i = 0 THEN b ELSE Perform(g[i - 1], actions[i])
    <3> TAKE i \in 0..(k + 1)
    <3>1. CASE i = k + 1
      <4>1. i # 0 /\ k \in 0..(k + 1) /\ k # k + 1 /\ i - 1 = k
        BY <3>1
      <4>2. g[k] = f[k] /\ g[i] = Perform(f[k], actions[i])
        BY <3>1, <4>1
      <4> QED BY <4>1, <4>2
    <3>2. CASE i = 0
      <4>1. g[i] = f[0] /\ 0 \in 0..k
        BY <3>2
      <4>2. f[0] = b
        BY <2>1, <4>1
      <4> QED BY <3>2, <4>1, <4>2
    <3>3. CASE i \in 1..k
      <4>1. /\ i \in 0..(k + 1) /\ i # k + 1 /\ i # 0 /\ i \in 0..k
            /\ i - 1 \in 0..(k + 1) /\ i - 1 # k + 1
        BY <3>3
      <4>2. g[i] = f[i] /\ g[i - 1] = f[i - 1]
        BY <4>1
      <4>3. f[i] = Perform(f[i - 1], actions[i])
        <5> HIDE DEF g
        <5> QED BY <2>1, <4>1
      <4> HIDE DEF g
      <4> QED BY <4>1, <4>2, <4>3
    <3> QED BY <3>1, <3>2, <3>3
  <2>3. IsRun(g, k + 1)
    <3>1. g = [i \in 0..(k + 1) |-> g[i]]
      OBVIOUS
    <3> HIDE DEF g
    <3> QED BY <2>2, <3>1
  <2>4. k + 1 \in 0..n
    BY <1>2
  <2> HIDE DEF g, IsRun
  <2> QED BY <2>3, <2>4
<1>3. n \in S
  <2> HIDE DEF S
  <2>1. n \in Nat /\ n \in 0..n
    OBVIOUS
  <2>2. 0..n \subseteq S
    BY <1>1, <1>2, <2>1, IndexInduction
  <2> QED BY <2>1, <2>2
<1> DEFINE after == CHOOSE f : IsRun(f, n)
<1>4. IsRun(after, n)
  <2>1. \E f : IsRun(f, n)
    BY <1>3
  <2> HIDE DEF IsRun
  <2> QED BY <2>1
<1>5. ProcessActions(b, actions) = after[n]
  BY DEF ProcessActions
<1>6. 0 \in 0..n /\ \A i \in 1..n : i \in 0..n /\ i # 0
  OBVIOUS
<1>7. after[0] = b /\ \A i \in 1..n : after[i] = Perform(after[i - 1], actions[i])
  <2> HIDE DEF after
  <2> QED BY <1>4, <1>6
<1> HIDE DEF after
<1> QED BY <1>5, <1>7

\* Processing goes through the sets B[0], B[1], ... when each action leads from one to
\* the next.
LEMMA ProcessActionsKeeps ==
  ASSUME NEW b, NEW actions, Len(actions) \in Nat, NEW B, b \in B[0],
         \A i \in 1..Len(actions) : \A c \in B[i - 1] : Perform(c, actions[i]) \in B[i]
  PROVE  ProcessActions(b, actions) \in B[Len(actions)]
<1>1. PICK after : /\ after[0] = b
                   /\ \A i \in 1..Len(actions) : after[i] = Perform(after[i - 1], actions[i])
                   /\ ProcessActions(b, actions) = after[Len(actions)]
  BY ProcessActionsSteps
<1> DEFINE n == Len(actions)
           S == {i \in 0..n : after[i] \in B[i]}
<1>2. 0 \in S
  BY <1>1
<1>3. ASSUME NEW i \in 0..(n - 1), i \in S PROVE i + 1 \in S
  <2>1. i + 1 \in 1..n /\ i + 1 \in 0..n /\ (i + 1) - 1 = i
    OBVIOUS
  <2>2. after[i + 1] = Perform(after[i], actions[i + 1])
    BY <1>1, <2>1
  <2>3. after[i] \in B[i]
    BY <1>3
  <2>4. Perform(after[i], actions[i + 1]) \in B[i + 1]
    BY <2>1, <2>3
  <2> QED BY <2>1, <2>2, <2>4
<1>4. 0..n \subseteq S
  <2> HIDE DEF S
  <2> QED BY <1>2, <1>3, IndexInduction
<1>5. n \in 0..n
  OBVIOUS
<1> QED BY <1>1, <1>4, <1>5

-----------------------------------------------------------------------------
(* The inductive invariant.  The events with the ids up to the last one sent *)
(* are, in this order: processed, about to be handled by the rest of their   *)
(* subscribers, waiting in the queue; or refused or lost.                    *)

BusRecords == [queue : Rings(Events), timers : Seq(Timers), outbound : Seq(Events)]
EventIds == Nat

LogRecords ==
  [hashes : Seq(Hashes), refused : SUBSET EventIds, lost : SUBSET EventIds, remote : Seq(EventIds),
   shipped : Seq(EventIds), handled : [Sentants -> Seq(EventIds)], due : [Sentants -> [Hashes -> Nat]]]
Pairs == [bus : BusRecords, log : LogRecords]

Held(b) == Contents(b.bus.queue)
Missed(b) == b.log.refused \cup b.log.lost
Processed(b) ==
  {id \in 1..Len(b.log.hashes) :
     id \notin Missed(b) /\ \A i \in 1..Len(Held(b)) : Held(b)[i].id # id}

\* What waits in the queue was sent in that order, and after all that was processed.
QueueInOrder(b) ==
  /\ Held(b) \in Seq(Events)
  /\ Missed(b) \subseteq 1..Len(b.log.hashes)
  /\ \A i \in 1..Len(Held(b)) :
       /\ Held(b)[i].id \in 1..Len(b.log.hashes) \ Missed(b)
       /\ b.log.hashes[Held(b)[i].id] = Held(b)[i].hash
       /\ \A id \in Processed(b) : id < Held(b)[i].id
  /\ \A i, j \in 1..Len(Held(b)) : i < j => Held(b)[i].id < Held(b)[j].id

\* TimersKeepLastRequest, for one sentant and hash.
TimerKept(timers, due, s, h) ==
  LET mine == {i \in DOMAIN timers : timers[i].source = s /\ timers[i].hash = h}
  IN IF due = 0 THEN mine = {}
     ELSE \E i \in DOMAIN timers : mine = {i} /\ timers[i].remaining = due
TimersKept(b) ==
  \A s \in Sentants, h \in Hashes : TimerKept(b.bus.timers, b.log.due[s][h], s, h)

\* What was sent to remote targets and what went to the transport, or waits for it.
AllShippedOf(remote, shipped, outbound) ==
  /\ Len(remote) = Len(shipped) + Len(outbound)
  /\ \A i \in 1..Len(shipped) : remote[i] = shipped[i]
  /\ \A i \in 1..Len(outbound) : remote[Len(shipped) + i] = outbound[i].id

AllShipped(b) == AllShippedOf(b.log.remote, b.log.shipped, b.bus.outbound)

PairInv(b) == b \in Pairs /\ QueueInOrder(b) /\ TimersKept(b) /\ AllShipped(b)

LoopRecords ==
  [pc : {"drain", "tick", "deliver", "poll", "time", "outbound"}, drained : 0..DrainLimit,
   budget : 0..Budget, current : Events \cup {NoEvent}, todo : SUBSET Sentants]

\* The state of the loop, with b the pair of the bus and the log.
LoopInv(l, b) ==
  /\ l \in LoopRecords
  /\ l.pc \in {"tick", "deliver"} => l.budget > 0
  /\ l.pc = "deliver" =>
       /\ l.current \in Events
       /\ l.todo # {} /\ l.todo \subseteq Subscribers(l.current)
       /\ l.current.id \in Processed(b)
       /\ b.log.hashes[l.current.id] = l.current.hash
       /\ \A id \in Processed(b) : id <= l.current.id

\* What sentant s has yet to handle of the event that others handle now.
Waiting(l, s) == IF l.pc = "deliver" /\ s \in l.todo THEN {l.current.id} ELSE {}

HandledBy(s, b, waiting) ==
  /\ \A i, j \in 1..Len(b.log.handled[s]) :
       i < j => b.log.handled[s][i] < b.log.handled[s][j]
  /\ {b.log.handled[s][i] : i \in 1..Len(b.log.handled[s])} =
       {id \in Processed(b) : b.log.hashes[id] \in Subscriptions[s]} \ waiting

\* How many events have been sent or wait for their time.
Load(b) == Len(b.log.hashes) + Len(b.bus.timers)

StateInv(channel, b, l) ==
  /\ channel \in Seq(Hashes) /\ Len(channel) <= ChannelCap
  /\ Load(b) + Len(channel) <= MaxEvents
  /\ PairInv(b)
  /\ LoopInv(l, b)
  /\ \A s \in Sentants : HandledBy(s, b, Waiting(l, s))

Inv == StateInv(inbound, Now, loop)

\* What the processing of actions leaves of the pair it starts from: the queue grows at
\* its end, and no event counts as processed by being sent.
Continues(b, c) ==
  /\ c.log.handled = b.log.handled /\ c.log.shipped = b.log.shipped
  /\ Len(b.log.hashes) <= Len(c.log.hashes)
  /\ \A id \in 1..Len(b.log.hashes) : c.log.hashes[id] = b.log.hashes[id]
  /\ Processed(c) = Processed(b)
  /\ Len(Held(b)) <= Len(Held(c))
  /\ \A i \in 1..Len(Held(b)) : Held(c)[i] = Held(b)[i]

QueueGrows(b, c) ==
  /\ Len(Held(b)) <= Len(Held(c))
  /\ \A i \in 1..Len(Held(b)) : Held(c)[i] = Held(b)[i]

LEMMA ContinuesItself == ASSUME NEW b \in Pairs, Held(b) \in Seq(Events) PROVE Continues(b, b)
<1>1. Len(b.log.hashes) \in Nat /\ Len(Held(b)) \in Nat
  <2>1. b.log.hashes \in Seq(Hashes)
    BY DEF Pairs, LogRecords
  <2> QED BY <2>1
<1> QED BY <1>1 DEF Continues

LEMMA ContinuesOn ==
  ASSUME NEW a \in Pairs, NEW b \in Pairs, NEW c \in Pairs,
         Held(a) \in Seq(Events), Held(b) \in Seq(Events), Held(c) \in Seq(Events),
         Continues(a, b), Continues(b, c)
  PROVE  Continues(a, c)
<1>1. /\ Len(a.log.hashes) \in Nat /\ Len(b.log.hashes) \in Nat /\ Len(c.log.hashes) \in Nat
      /\ Len(Held(a)) \in Nat /\ Len(Held(b)) \in Nat /\ Len(Held(c)) \in Nat
  <2>1. a.log.hashes \in Seq(Hashes) /\ b.log.hashes \in Seq(Hashes) /\ c.log.hashes \in Seq(Hashes)
    BY DEF Pairs, LogRecords
  <2> QED BY <2>1
<1>2. PICK l \in Nat, m \in Nat, n \in Nat :
        l = Len(a.log.hashes) /\ m = Len(b.log.hashes) /\ n = Len(c.log.hashes)
  BY <1>1
<1>3. PICK u \in Nat, v \in Nat, w \in Nat :
        u = Len(Held(a)) /\ v = Len(Held(b)) /\ w = Len(Held(c))
  BY <1>1
<1>4. l <= m /\ m <= n /\ u <= v /\ v <= w
  BY <1>2, <1>3 DEF Continues
<1>5. l <= n /\ 1..l \subseteq 1..m /\ u <= w /\ 1..u \subseteq 1..v
  BY <1>4
<1>6. /\ \A id \in 1..l : b.log.hashes[id] = a.log.hashes[id]
      /\ \A id \in 1..m : c.log.hashes[id] = b.log.hashes[id]
      /\ \A i \in 1..u : Held(b)[i] = Held(a)[i]
      /\ \A i \in 1..v : Held(c)[i] = Held(b)[i]
  BY <1>2, <1>3 DEF Continues
<1>7. /\ \A id \in 1..l : c.log.hashes[id] = a.log.hashes[id]
      /\ \A i \in 1..u : Held(c)[i] = Held(a)[i]
  BY <1>5, <1>6
<1> QED BY <1>2, <1>3, <1>5, <1>7 DEF Continues

\* A new event joins the end of the queue or is counted as refused; either way what was
\* processed stays so.
LEMMA SentFacts ==
  ASSUME NEW c \in Pairs, NEW d \in Pairs, QueueInOrder(c), NEW event \in Events,
         event.id = Len(c.log.hashes) + 1,
         d.log.hashes = Append(c.log.hashes, event.hash), d.log.lost = c.log.lost,
         d.log.handled = c.log.handled, d.log.shipped = c.log.shipped,
         \/ d.log.refused = c.log.refused \cup {event.id} /\ Held(d) = Held(c)
         \/ d.log.refused = c.log.refused /\ Held(d) = Append(Held(c), event)
  PROVE  /\ QueueInOrder(d) /\ Continues(c, d)
         /\ Len(d.log.hashes) = Len(c.log.hashes) + 1
<1>1. PICK n \in Nat : n = Len(c.log.hashes)
  <2>1. c.log.hashes \in Seq(Hashes)
    BY DEF Pairs, LogRecords
  <2> QED BY <2>1
<1>0. PICK C \in Seq(Events), k \in Nat : C = Held(c) /\ k = Len(C)
  BY LenProperties DEF QueueInOrder
<1>2. PICK D : C = Held(c) /\ D = Held(d) /\ k = Len(C)
  BY <1>0
<1>3. event.hash \in Hashes /\ event.id = n + 1
  BY <1>1 DEF Events
<1>4. /\ d.log.hashes \in Seq(Hashes) /\ Len(d.log.hashes) = n + 1
      /\ d.log.hashes[n + 1] = event.hash
      /\ \A id \in 1..n : d.log.hashes[id] = c.log.hashes[id]
  <2>1. PICK s \in Seq(Hashes), x \in Hashes : s = c.log.hashes /\ x = event.hash
    BY <1>3 DEF Pairs, LogRecords
  <2>2. /\ Append(s, x) \in Seq(Hashes) /\ Len(Append(s, x)) = n + 1
        /\ Append(s, x)[n + 1] = x /\ \A id \in 1..n : Append(s, x)[id] = s[id]
    BY <1>1, <2>1
  <2> QED BY <2>1, <2>2
<1>5. /\ Append(C, event) \in Seq(Events) /\ Len(Append(C, event)) = k + 1
      /\ Append(C, event)[k + 1] = event
      /\ \A i \in 1..k : Append(C, event)[i] = C[i]
  BY <1>2
<1>6. PICK M : M = Missed(c) /\ M \subseteq 1..n
  BY <1>1 DEF QueueInOrder
<1>7. PICK P : P = Processed(c) /\ P = {id \in 1..n : id \notin M /\ \A i \in 1..k : C[i].id # id}
  BY <1>1, <1>2, <1>6 DEF Processed
<1>8. /\ \A i \in 1..k : /\ C[i].id \in 1..n \ M
                         /\ c.log.hashes[C[i].id] = C[i].hash
                         /\ \A id \in P : id < C[i].id
      /\ \A i, j \in 1..k : i < j => C[i].id < C[j].id
  BY <1>1, <1>2, <1>6, <1>7 DEF QueueInOrder
<1>9. CASE d.log.refused = c.log.refused \cup {event.id} /\ Held(d) = Held(c)
  <2>1. D = C /\ Missed(d) = M \cup {n + 1}
    BY <1>2, <1>3, <1>6, <1>9 DEF Missed
  <2>2. Processed(d) = P
    <3>1. Processed(d) = {id \in 1..(n + 1) : id \notin M \cup {n + 1} /\ \A i \in 1..k : C[i].id # id}
      BY <1>2, <1>4, <2>1 DEF Processed
    <3>2. \A id : id \in 1..(n + 1) /\ id \notin M \cup {n + 1} <=> id \in 1..n /\ id \notin M
      OBVIOUS
    <3> QED BY <1>7, <3>1, <3>2
  <2>3. QueueInOrder(d)
    <3>1. Missed(d) \subseteq 1..(n + 1)
      BY <1>6, <2>1
    <3>2. \A i \in 1..k : /\ C[i].id \in 1..(n + 1) \ Missed(d)
                          /\ d.log.hashes[C[i].id] = C[i].hash
                          /\ \A id \in P : id < C[i].id
      <4> TAKE i \in 1..k
      <4>1. /\ C[i].id \in 1..n /\ C[i].id \notin M
            /\ c.log.hashes[C[i].id] = C[i].hash /\ \A id \in P : id < C[i].id
        BY <1>8
      <4>2. C[i].id \in 1..(n + 1) /\ C[i].id # n + 1
        BY <4>1
      <4> QED BY <4>1, <4>2, <1>4, <2>1
    <3> QED BY <1>2, <1>4, <1>8, <2>1, <2>2, <3>1, <3>2 DEF QueueInOrder
  <2>4. Continues(c, d)
    <3>1. n <= n + 1 /\ k <= k
      OBVIOUS
    <3> QED BY <1>1, <1>2, <1>4, <1>7, <2>1, <2>2, <3>1 DEF Continues
  <2> QED BY <1>1, <1>4, <2>3, <2>4
<1>10. CASE d.log.refused = c.log.refused /\ Held(d) = Append(Held(c), event)
  <2>1. /\ D \in Seq(Events) /\ Len(D) = k + 1 /\ D[k + 1] = event
        /\ \A i \in 1..k : D[i] = C[i]
        /\ Missed(d) = M
    BY <1>2, <1>5, <1>6, <1>10 DEF Missed
  <2>2. Processed(d) = P
    <3>1. Processed(d) = {id \in 1..(n + 1) : id \notin M /\ \A i \in 1..(k + 1) : D[i].id # id}
      BY <1>2, <1>4, <2>1 DEF Processed
    <3>2. ASSUME NEW id \in 1..(n + 1), id \notin M
          PROVE  (\A i \in 1..(k + 1) : D[i].id # id) <=>
                 id \in 1..n /\ \A i \in 1..k : C[i].id # id
      <4>1. \A i \in 1..(k + 1) : i = k + 1 \/ i \in 1..k
        OBVIOUS
      <4>2. k + 1 \in 1..(k + 1) /\ \A i \in 1..k : i \in 1..(k + 1)
        OBVIOUS
      <4>3. id \in 1..n <=> id # n + 1
        OBVIOUS
      <4> QED BY <4>1, <4>2, <4>3, <2>1, <1>3
    <3> QED BY <1>7, <3>1, <3>2
  <2>3. QueueInOrder(d)
    <3>1. Missed(d) \subseteq 1..(n + 1)
      BY <1>6, <2>1
    <3>2. ASSUME NEW i \in 1..(k + 1)
          PROVE  /\ D[i].id \in 1..(n + 1) \ Missed(d)
                 /\ d.log.hashes[D[i].id] = D[i].hash
                 /\ \A id \in P : id < D[i].id
      <4>1. CASE i = k + 1
        <5>1. n + 1 \in 1..(n + 1) \ M /\ \A id \in P : id < n + 1
          BY <1>6, <1>7
        <5> QED BY <4>1, <5>1, <2>1, <1>3, <1>4
      <4>2. CASE i # k + 1
        <5>1. i \in 1..k /\ D[i] = C[i]
          BY <4>2, <2>1
        <5>2. /\ C[i].id \in 1..n /\ C[i].id \notin M
              /\ c.log.hashes[C[i].id] = C[i].hash /\ \A id \in P : id < C[i].id
          BY <5>1, <1>8
        <5>3. C[i].id \in 1..(n + 1) /\ d.log.hashes[C[i].id] = c.log.hashes[C[i].id]
          BY <5>2, <1>4
        <5> QED BY <5>1, <5>2, <5>3, <2>1
      <4> QED BY <4>1, <4>2
    <3>3. ASSUME NEW i \in 1..(k + 1), NEW j \in 1..(k + 1), i < j
          PROVE  D[i].id < D[j].id
      <4>1. i \in 1..k /\ D[i] = C[i] /\ C[i].id \in 1..n
        BY <3>3, <2>1, <1>8
      <4>2. CASE j = k + 1
        BY <4>1, <4>2, <2>1, <1>3
      <4>3. CASE j # k + 1
        BY <4>1, <4>3, <3>3, <2>1, <1>8
      <4> QED BY <4>2, <4>3
    <3> QED BY <1>2, <1>4, <2>1, <2>2, <3>1, <3>2, <3>3 DEF QueueInOrder
  <2>4. Continues(c, d)
    <3>1. n <= n + 1 /\ k <= k + 1
      OBVIOUS
    <3> QED BY <1>1, <1>2, <1>4, <1>7, <2>1, <2>2, <3>1 DEF Continues
  <2> QED BY <1>1, <1>4, <2>3, <2>4
<1> QED BY <1>9, <1>10

-----------------------------------------------------------------------------
(* One action. *)

\* The event that a send makes.
LEMMA StampFacts ==
  ASSUME NEW c \in Pairs, Len(c.log.hashes) < MaxEvents,
         NEW hash \in Hashes, NEW source \in Sentants \cup {External}
  PROVE  /\ Stamp(c, hash, source) \in Events
         /\ Stamp(c, hash, source).id = Len(c.log.hashes) + 1
         /\ Stamp(c, hash, source).hash = hash
<1>1. PICK s \in Seq(Hashes) : s = c.log.hashes
  BY DEF Pairs, LogRecords
<1>2. Len(s) + 1 \in 1..MaxEvents
  BY <1>1, LoopAssumption
<1> QED BY <1>1, <1>2 DEF Stamp, Events

\* Both grow together.
LEMMA ShippedGrows ==
  ASSUME NEW remote \in Seq(EventIds), NEW shipped \in Seq(EventIds),
         NEW outbound \in Seq(Events), NEW event \in Events, event.id \in EventIds,
         AllShippedOf(remote, shipped, outbound)
  PROVE  AllShippedOf(Append(remote, event.id), shipped, Append(outbound, event))
<1>1. PICK k \in Nat, m \in Nat : k = Len(outbound) /\ m = Len(shipped)
  BY LenProperties
<1>2. /\ Len(remote) = m + k
      /\ \A i \in 1..m : remote[i] = shipped[i]
      /\ \A i \in 1..k : remote[m + i] = outbound[i].id
  BY <1>1 DEF AllShippedOf
<1>3. PICK r : r = Append(remote, event.id)
  OBVIOUS
<1>4. PICK o : o = Append(outbound, event)
  OBVIOUS
<1>5. /\ Len(r) = (m + k) + 1 /\ r[(m + k) + 1] = event.id
      /\ \A i \in 1..(m + k) : r[i] = remote[i]
  BY <1>2, <1>3, AppendProperties
<1>6. /\ Len(o) = k + 1 /\ o[k + 1] = event
      /\ \A i \in 1..k : o[i] = outbound[i]
  BY <1>1, <1>4, AppendProperties
<1>7. \A i \in 1..m : r[i] = shipped[i]
  <2>1. 1..m \subseteq 1..(m + k)
    OBVIOUS
  <2> QED BY <1>2, <1>5, <2>1
<1>8. ASSUME NEW i \in 1..(k + 1) PROVE r[m + i] = o[i].id
  <2>1. CASE i = k + 1
    <3>1. m + i = (m + k) + 1
      BY <2>1
    <3> QED BY <2>1, <3>1, <1>5, <1>6
  <2>2. CASE i # k + 1
    <3>1. i \in 1..k /\ m + i \in 1..(m + k)
      BY <2>2
    <3>2. r[m + i] = remote[m + i] /\ o[i] = outbound[i]
      BY <3>1, <1>5, <1>6
    <3> QED BY <3>1, <3>2, <1>2
  <2> QED BY <2>1, <2>2
<1>9. Len(r) = m + (k + 1)
  BY <1>5
<1> QED BY <1>1, <1>3, <1>4, <1>6, <1>7, <1>8, <1>9 DEF AllShippedOf

\* EventBus::enqueue.
LEMMA EnqueueFacts ==
  ASSUME NEW c, PairInv(c), NEW event \in Events, event.id = Len(c.log.hashes) + 1,
         NEW d, d = Enqueue(c, event)
  PROVE  /\ PairInv(d) /\ Continues(c, d)
         /\ d.bus.timers = c.bus.timers /\ d.bus.outbound = c.bus.outbound
         /\ d.log.due = c.log.due /\ d.log.remote = c.log.remote
         /\ Len(d.log.hashes) = Len(c.log.hashes) + 1
<1>1. PICK q \in Rings(Events), timers \in Seq(Timers), outbound \in Seq(Events) :
        q = c.bus.queue /\ timers = c.bus.timers /\ outbound = c.bus.outbound
  BY DEF PairInv, Pairs, BusRecords
<1>2. PICK hashes \in Seq(Hashes), refused \in SUBSET EventIds :
        hashes = c.log.hashes /\ refused = c.log.refused
  BY DEF PairInv, Pairs, LogRecords
<1>3. event.hash \in Hashes /\ event.id \in EventIds
  BY LoopAssumption DEF Events, EventIds
<1>4. PICK p \in Rings(Events) : p = Push(q, event)
  BY PushAppends
<1>5. PICK r \in SUBSET EventIds : r = IF IsFull(q) THEN refused \cup {event.id} ELSE refused
  BY <1>3
<1>6. PICK l \in Seq(Hashes) : l = Append(hashes, event.hash)
  BY <1>3, AppendProperties
<1>7. /\ d.bus = [c.bus EXCEPT !.queue = p]
      /\ d.log = [c.log EXCEPT !.hashes = l, !.refused = r]
      /\ d = [bus |-> d.bus, log |-> d.log]
  BY <1>1, <1>2, <1>4, <1>5, <1>6 DEF Enqueue
<1>8. /\ d.bus \in BusRecords
      /\ d.bus.queue = p /\ d.bus.timers = timers /\ d.bus.outbound = outbound
  <2>1. c.bus \in BusRecords
    BY DEF PairInv, Pairs
  <2> QED BY <1>1, <1>7, <2>1 DEF BusRecords
<1>9. /\ d.log \in LogRecords
      /\ d.log.hashes = l /\ d.log.refused = r /\ d.log.lost = c.log.lost
      /\ d.log.remote = c.log.remote /\ d.log.shipped = c.log.shipped
      /\ d.log.handled = c.log.handled /\ d.log.due = c.log.due
  <2>1. c.log \in LogRecords
    BY DEF PairInv, Pairs
  <2> QED BY <1>7, <2>1 DEF LogRecords
<1>10. d \in Pairs
  BY <1>7, <1>8, <1>9 DEF Pairs
<1>11. Held(d) = IF IsFull(q) THEN Held(c) ELSE Append(Held(c), event)
  <2>1. Held(d) = Contents(p) /\ Held(c) = Contents(q)
    BY <1>1, <1>8 DEF Held
  <2>2. Contents(p) = IF IsFull(q) THEN Contents(q) ELSE Append(Contents(q), event)
    BY <1>4, PushAppends
  <2> QED BY <2>1, <2>2
<1>12. /\ QueueInOrder(d) /\ Continues(c, d)
       /\ Len(d.log.hashes) = Len(c.log.hashes) + 1
  <2>1. c \in Pairs /\ QueueInOrder(c)
    BY DEF PairInv
  <2>2. \/ d.log.refused = c.log.refused \cup {event.id} /\ Held(d) = Held(c)
        \/ d.log.refused = c.log.refused /\ Held(d) = Append(Held(c), event)
    BY <1>2, <1>5, <1>9, <1>11
  <2> QED BY <2>1, <2>2, <1>2, <1>6, <1>9, <1>10, SentFacts, ZenonT(40)
<1>13. TimersKept(d) /\ AllShipped(d)
  BY <1>1, <1>8, <1>9 DEF PairInv, TimersKept, AllShipped
<1> QED BY <1>1, <1>8, <1>9, <1>10, <1>12, <1>13 DEF PairInv

\* The copy of an event for the transport.
LEMMA ShipFacts ==
  ASSUME NEW c, PairInv(c), NEW event \in Events, NEW d, d = Ship(c, event)
  PROVE  /\ PairInv(d) /\ Continues(c, d)
         /\ d.bus.timers = c.bus.timers /\ d.log.due = c.log.due
         /\ d.log.hashes = c.log.hashes
<1>1. PICK outbound \in Seq(Events) : outbound = c.bus.outbound
  BY DEF PairInv, Pairs, BusRecords
<1>2. PICK remote \in Seq(EventIds), shipped \in Seq(EventIds) :
        remote = c.log.remote /\ shipped = c.log.shipped
  BY DEF PairInv, Pairs, LogRecords
<1>3. event.id \in EventIds
  BY LoopAssumption DEF Events, EventIds
<1>4. PICK o \in Seq(Events) : o = Append(outbound, event)
  BY AppendProperties
<1>5. PICK r \in Seq(EventIds) : r = Append(remote, event.id)
  BY <1>3, AppendProperties
<1>6. /\ d.bus = [c.bus EXCEPT !.outbound = o]
      /\ d.log = [c.log EXCEPT !.remote = r]
      /\ d = [bus |-> d.bus, log |-> d.log]
  BY <1>1, <1>2, <1>4, <1>5 DEF Ship
<1>7. /\ d.bus \in BusRecords
      /\ d.bus.queue = c.bus.queue /\ d.bus.timers = c.bus.timers /\ d.bus.outbound = o
  <2>1. c.bus \in BusRecords
    BY DEF PairInv, Pairs
  <2> QED BY <1>6, <2>1 DEF BusRecords
<1>8. /\ d.log \in LogRecords
      /\ d.log.hashes = c.log.hashes /\ d.log.refused = c.log.refused
      /\ d.log.lost = c.log.lost /\ d.log.remote = r /\ d.log.shipped = shipped
      /\ d.log.handled = c.log.handled /\ d.log.due = c.log.due
  <2>1. c.log \in LogRecords
    BY DEF PairInv, Pairs
  <2> QED BY <1>2, <1>6, <2>1 DEF LogRecords
<1>9. d \in Pairs
  BY <1>6, <1>7, <1>8 DEF Pairs
<1>10. Held(d) = Held(c) /\ Missed(d) = Missed(c) /\ Processed(d) = Processed(c)
  BY <1>7, <1>8 DEF Held, Missed, Processed
<1>11. QueueInOrder(d) /\ TimersKept(d)
  BY <1>7, <1>8, <1>10 DEF PairInv, QueueInOrder, TimersKept
<1>12. AllShipped(d)
  <2>1. AllShippedOf(remote, shipped, outbound)
    BY <1>1, <1>2 DEF PairInv, AllShipped
  <2>2. AllShippedOf(r, shipped, o)
    BY <2>1, <1>3, <1>4, <1>5, ShippedGrows
  <2> QED BY <2>2, <1>7, <1>8 DEF AllShipped
<1>13. Continues(c, d)
  <2>1. Len(c.log.hashes) <= Len(c.log.hashes) /\ Len(Held(c)) <= Len(Held(c))
    <3>1. c.log.hashes \in Seq(Hashes) /\ Held(c) \in Seq(Events)
      BY DEF PairInv, QueueInOrder, Pairs, LogRecords
    <3> QED BY <3>1
  <2> QED BY <2>1, <1>2, <1>8, <1>10 DEF Continues
<1> QED BY <1>7, <1>8, <1>9, <1>11, <1>12, <1>13 DEF PairInv

\* An event that is counted and does not enter the queue.
LEMMA CountFacts ==
  ASSUME NEW c, PairInv(c), NEW event \in Events, event.id = Len(c.log.hashes) + 1,
         NEW d, d = [c EXCEPT !.log.hashes = Append(@, event.hash),
                              !.log.refused = @ \cup {event.id}]
  PROVE  /\ PairInv(d) /\ Continues(c, d)
         /\ d.bus = c.bus /\ d.log.due = c.log.due
         /\ Len(d.log.hashes) = Len(c.log.hashes) + 1
<1>1. PICK hashes \in Seq(Hashes), refused \in SUBSET EventIds :
        hashes = c.log.hashes /\ refused = c.log.refused
  BY DEF PairInv, Pairs, LogRecords
<1>2. event.hash \in Hashes /\ event.id \in EventIds
  BY LoopAssumption DEF Events, EventIds
<1>3. PICK l \in Seq(Hashes) : l = Append(hashes, event.hash)
  BY <1>2, AppendProperties
<1>4. PICK r \in SUBSET EventIds : r = refused \cup {event.id}
  BY <1>2
<1>5. /\ c.bus \in BusRecords /\ c.log \in LogRecords
      /\ c = [bus |-> c.bus, log |-> c.log]
  BY DEF PairInv, Pairs
<1>6. /\ d.bus = c.bus
      /\ d.log = [c.log EXCEPT !.hashes = l, !.refused = r]
      /\ d = [bus |-> d.bus, log |-> d.log]
  BY <1>1, <1>3, <1>4, <1>5 DEF LogRecords
<1>7. /\ d.log \in LogRecords
      /\ d.log.hashes = l /\ d.log.refused = r /\ d.log.lost = c.log.lost
      /\ d.log.remote = c.log.remote /\ d.log.shipped = c.log.shipped
      /\ d.log.handled = c.log.handled /\ d.log.due = c.log.due
  BY <1>5, <1>6 DEF LogRecords
<1>8. d \in Pairs /\ Held(d) = Held(c)
  BY <1>5, <1>6, <1>7 DEF Pairs, Held
<1>9. /\ QueueInOrder(d) /\ Continues(c, d)
      /\ Len(d.log.hashes) = Len(c.log.hashes) + 1
  <2>1. c \in Pairs /\ QueueInOrder(c)
    BY DEF PairInv
  <2>2. \/ d.log.refused = c.log.refused \cup {event.id} /\ Held(d) = Held(c)
        \/ d.log.refused = c.log.refused /\ Held(d) = Append(Held(c), event)
    BY <1>1, <1>4, <1>7, <1>8
  <2> QED BY <2>1, <2>2, <1>1, <1>3, <1>7, <1>8, SentFacts, ZenonT(40)
<1>10. TimersKept(d) /\ AllShipped(d)
  BY <1>6, <1>7 DEF PairInv, TimersKept, AllShipped
<1> QED BY <1>6, <1>7, <1>8, <1>9, <1>10 DEF PairInv

\* EventBus::dispatch_send: one more event, in the queue or not.
LEMMA DispatchSendFacts ==
  ASSUME NEW c, PairInv(c), Len(c.log.hashes) < MaxEvents,
         NEW source \in Sentants \cup {External}, NEW target \in Targets, NEW hash \in Hashes,
         NEW d, d = DispatchSend(c, source, target, hash)
  PROVE  /\ PairInv(d) /\ Continues(c, d)
         /\ d.bus.timers = c.bus.timers /\ d.log.due = c.log.due
         /\ Len(d.log.hashes) = Len(c.log.hashes) + 1
<1> DEFINE event == Stamp(c, hash, source)
           counted == [c EXCEPT !.log.hashes = Append(@, event.hash),
                                !.log.refused = @ \cup {event.id}]
<1>1. c \in Pairs /\ Held(c) \in Seq(Events)
  BY DEF PairInv, QueueInOrder
<1>2. event \in Events /\ event.id = Len(c.log.hashes) + 1 /\ event.hash = hash
  BY <1>1, StampFacts
<1>3. CASE target = "local"
  <2>1. d = Enqueue(c, event)
    BY <1>3 DEF DispatchSend
  <2> HIDE DEF event
  <2> QED BY <1>2, <2>1, EnqueueFacts
<1>4. CASE target = "broadcast"
  <2>1. PICK e : e = Enqueue(c, event)
    OBVIOUS
  <2>2. d = Ship(e, event)
    BY <1>4, <2>1 DEF DispatchSend
  <2> HIDE DEF event
  <2>3. /\ PairInv(e) /\ Continues(c, e)
        /\ e.bus.timers = c.bus.timers /\ e.log.due = c.log.due
        /\ Len(e.log.hashes) = Len(c.log.hashes) + 1
    BY <1>2, <2>1, EnqueueFacts
  <2>4. /\ PairInv(d) /\ Continues(e, d)
        /\ d.bus.timers = e.bus.timers /\ d.log.due = e.log.due
        /\ d.log.hashes = e.log.hashes
    BY <1>2, <2>2, <2>3, ShipFacts
  <2>5. /\ e \in Pairs /\ Held(e) \in Seq(Events)
        /\ d \in Pairs /\ Held(d) \in Seq(Events)
    BY <2>3, <2>4 DEF PairInv, QueueInOrder
  <2>6. Continues(c, d)
    BY <1>1, <2>3, <2>4, <2>5, ContinuesOn
  <2> QED BY <2>3, <2>4, <2>6
<1>5. CASE target = "sender"
  <2>1. PICK e : e = counted
    OBVIOUS
  <2>2. d = Ship(e, event)
    BY <1>2, <1>5, <2>1 DEF DispatchSend
  <2>3. /\ PairInv(e) /\ Continues(c, e)
        /\ e.bus = c.bus /\ e.log.due = c.log.due
        /\ Len(e.log.hashes) = Len(c.log.hashes) + 1
    <3> HIDE DEF event
    <3> QED BY <1>2, <2>1, CountFacts
  <2> HIDE DEF event
  <2>4. /\ PairInv(d) /\ Continues(e, d)
        /\ d.bus.timers = e.bus.timers /\ d.log.due = e.log.due
        /\ d.log.hashes = e.log.hashes
    BY <1>2, <2>2, <2>3, ShipFacts
  <2>5. /\ e \in Pairs /\ Held(e) \in Seq(Events)
        /\ d \in Pairs /\ Held(d) \in Seq(Events)
    BY <2>3, <2>4 DEF PairInv, QueueInOrder
  <2>6. Continues(c, d)
    BY <1>1, <2>3, <2>4, <2>5, ContinuesOn
  <2> QED BY <2>3, <2>4, <2>6
<1> QED BY <1>3, <1>4, <1>5 DEF Targets

\* TimerRegistry::schedule: a timer takes the place of the one for its sentant and hash.
LEMMA ScheduleKeeps ==
  ASSUME NEW timers \in Seq(Timers), NEW timer \in Timers, timer.remaining > 0,
         NEW due \in [Sentants -> [Hashes -> Nat]],
         \A s \in Sentants, h \in Hashes : TimerKept(timers, due[s][h], s, h),
         NEW to, to = Schedule(timers, timer),
         NEW later, later = [due EXCEPT ![timer.source][timer.hash] = timer.remaining]
  PROVE  /\ to \in Seq(Timers) /\ Len(to) <= Len(timers) + 1
         /\ later \in [Sentants -> [Hashes -> Nat]]
         /\ \A s \in Sentants, h \in Hashes : TimerKept(to, later[s][h], s, h)
<1> DEFINE Same(t) == t.source = timer.source /\ t.hash = timer.hash
<1>1. PICK n \in Nat : n = Len(timers) /\ DOMAIN timers = 1..n
  BY LenProperties
<1>2. timer.source \in Sentants /\ timer.hash \in Hashes /\ timer.remaining \in Nat
  BY DEF Timers
<1>3. later \in [Sentants -> [Hashes -> Nat]]
  BY <1>2
<1>4. \A s \in Sentants, h \in Hashes :
        later[s][h] = IF s = timer.source /\ h = timer.hash THEN timer.remaining ELSE due[s][h]
  BY <1>2
<1>5. CASE \E i \in 1..n : Same(timers[i])
  <2>1. to = [i \in 1..n |-> IF Same(timers[i]) THEN timer ELSE timers[i]]
    BY <1>1, <1>5 DEF Schedule
  <2>2. \A i \in 1..n : timers[i] \in Timers
    BY <1>1
  <2>3. to \in [1..n -> Timers]
    BY <2>1, <2>2
  <2>4. to \in Seq(Timers) /\ Len(to) = n /\ DOMAIN to = 1..n
    BY <2>3, FunctionIsSeq
  <2>5. \A i \in 1..n : to[i] = IF Same(timers[i]) THEN timer ELSE timers[i]
    BY <2>1
  <2>6. ASSUME NEW s \in Sentants, NEW h \in Hashes
        PROVE  TimerKept(to, later[s][h], s, h)
    <3> DEFINE mine == {i \in 1..n : timers[i].source = s /\ timers[i].hash = h}
    <3>1. {i \in 1..n : to[i].source = s /\ to[i].hash = h} = mine
      BY <2>5
    <3>2. IF due[s][h] = 0 THEN mine = {}
          ELSE \E i \in 1..n : mine = {i} /\ timers[i].remaining = due[s][h]
      BY <1>1 DEF TimerKept
    <3>3. CASE s = timer.source /\ h = timer.hash
      <4>1. \A i \in 1..n : i \in mine <=> Same(timers[i])
        BY <3>3
      <4>2. PICK k \in 1..n : k \in mine
        BY <1>5, <4>1
      <4>3. mine = {k}
        <5> HIDE DEF mine
        <5> QED BY <3>2, <4>2
      <4>4. to[k] = timer
        <5> HIDE DEF mine
        <5> QED BY <2>5, <4>1, <4>2
      <4>5. later[s][h] = timer.remaining /\ later[s][h] # 0
        BY <1>2, <1>4, <3>3
      <4>6. \E i \in 1..n : mine = {i} /\ to[i].remaining = later[s][h]
        <5> HIDE DEF mine
        <5> QED BY <4>3, <4>4, <4>5
      <4> HIDE DEF mine
      <4> QED BY <2>4, <3>1, <4>5, <4>6 DEF TimerKept
    <3>4. CASE ~(s = timer.source /\ h = timer.hash)
      <4>1. \A i \in mine : to[i] = timers[i]
        BY <2>5, <3>4
      <4>2. later[s][h] = due[s][h]
        BY <1>4, <3>4
      <4>3. IF later[s][h] = 0 THEN mine = {}
            ELSE \E i \in 1..n : mine = {i} /\ to[i].remaining = later[s][h]
        <5> HIDE DEF mine
        <5> QED BY <3>2, <4>1, <4>2
      <4> HIDE DEF mine
      <4> QED BY <2>4, <3>1, <4>3 DEF TimerKept
    <3> QED BY <3>3, <3>4
  <2>7. Len(to) <= Len(timers) + 1
    BY <1>1, <2>4
  <2> QED BY <1>3, <2>4, <2>6, <2>7
<1>6. CASE ~\E i \in 1..n : Same(timers[i])
  <2>1. to = Append(timers, timer)
    BY <1>1, <1>6 DEF Schedule
  <2>2. /\ to \in Seq(Timers) /\ Len(to) = n + 1 /\ DOMAIN to = 1..(n + 1)
        /\ to[n + 1] = timer /\ \A i \in 1..n : to[i] = timers[i]
    <3>1. /\ to \in Seq(Timers) /\ Len(to) = n + 1
          /\ to[n + 1] = timer /\ \A i \in 1..n : to[i] = timers[i]
      BY <1>1, <2>1, AppendProperties
    <3> QED BY <3>1, LenProperties
  <2>3. ASSUME NEW s \in Sentants, NEW h \in Hashes
        PROVE  TimerKept(to, later[s][h], s, h)
    <3> DEFINE mine == {i \in 1..n : timers[i].source = s /\ timers[i].hash = h}
               now == {i \in 1..(n + 1) : to[i].source = s /\ to[i].hash = h}
    <3>1. IF due[s][h] = 0 THEN mine = {}
          ELSE \E i \in 1..n : mine = {i} /\ timers[i].remaining = due[s][h]
      BY <1>1 DEF TimerKept
    <3>2. \A i \in 1..(n + 1) : i = n + 1 \/ i \in 1..n
      OBVIOUS
    <3>3. n + 1 \in 1..(n + 1) /\ 1..n \subseteq 1..(n + 1)
      OBVIOUS
    <3>4. CASE s = timer.source /\ h = timer.hash
      <4>1. now = {n + 1}
        <5>1. \A i \in 1..n : i \notin now
          BY <1>6, <2>2, <3>4
        <5>2. n + 1 \in now
          BY <2>2, <3>3, <3>4
        <5>3. now \subseteq 1..(n + 1)
          OBVIOUS
        <5> HIDE DEF now
        <5> QED BY <3>2, <5>1, <5>2, <5>3
      <4>2. later[s][h] = timer.remaining /\ later[s][h] # 0
        BY <1>2, <1>4, <3>4
      <4> HIDE DEF now
      <4>3. \E i \in 1..(n + 1) : now = {i} /\ to[i].remaining = later[s][h]
        BY <2>2, <3>3, <4>1, <4>2
      <4> QED BY <2>2, <4>2, <4>3 DEF TimerKept, now
    <3>5. CASE ~(s = timer.source /\ h = timer.hash)
      <4>1. now = mine
        <5>1. n + 1 \notin now
          BY <2>2, <3>5
        <5>2. \A i \in 1..n : i \in now <=> i \in mine
          BY <2>2, <3>3
        <5>3. now \subseteq 1..(n + 1) /\ mine \subseteq 1..n
          OBVIOUS
        <5> HIDE DEF now, mine
        <5> QED BY <3>2, <5>1, <5>2, <5>3
      <4>2. later[s][h] = due[s][h]
        BY <1>4, <3>5
      <4>3. IF later[s][h] = 0 THEN now = {}
            ELSE \E i \in 1..(n + 1) : now = {i} /\ to[i].remaining = later[s][h]
        <5> HIDE DEF now, mine
        <5> QED BY <2>2, <3>1, <3>3, <4>1, <4>2
      <4> QED BY <2>2, <4>3 DEF TimerKept
    <3> QED BY <3>4, <3>5
  <2>4. Len(to) <= Len(timers) + 1
    BY <1>1, <2>2
  <2> QED BY <1>3, <2>2, <2>3, <2>4
<1> QED BY <1>5, <1>6

\* What an action asks for; a delayed one comes from a sentant.
Actions ==
  {a \in [source : Sentants \cup {External}, delay : Nat, target : Targets, hash : Hashes] :
     a.delay > 0 => a.source \in Sentants}

LEMMA LoadType == ASSUME NEW b \in Pairs
  PROVE  Load(b) \in Nat /\ Len(b.log.hashes) \in Nat /\ Len(b.bus.timers) \in Nat
         /\ Len(b.log.hashes) <= Load(b)
<1>1. b.log.hashes \in Seq(Hashes) /\ b.bus.timers \in Seq(Timers)
  BY DEF Pairs, LogRecords, BusRecords
<1>2. Len(b.log.hashes) \in Nat /\ Len(b.bus.timers) \in Nat
  BY <1>1, LenProperties
<1>3. PICK x \in Nat, y \in Nat : x = Len(b.log.hashes) /\ y = Len(b.bus.timers)
  BY <1>2
<1>4. x + y \in Nat /\ x <= x + y
  OBVIOUS
<1> QED BY <1>3, <1>4 DEF Load

\* One action of process_actions.
LEMMA PerformFacts ==
  ASSUME NEW c, PairInv(c), Len(c.log.hashes) < MaxEvents, NEW action \in Actions,
         NEW d, d = Perform(c, action)
  PROVE  PairInv(d) /\ Continues(c, d) /\ Load(d) <= Load(c) + 1
<1>1. /\ action.source \in Sentants \cup {External} /\ action.delay \in Nat
      /\ action.target \in Targets /\ action.hash \in Hashes
      /\ action.delay > 0 => action.source \in Sentants
  BY DEF Actions
<1>2. c \in Pairs
  BY DEF PairInv
<1>3. CASE action.delay = 0
  <2>1. d = DispatchSend(c, action.source, action.target, action.hash)
    BY <1>3 DEF Perform
  <2>2. /\ PairInv(d) /\ Continues(c, d)
        /\ d.bus.timers = c.bus.timers
        /\ Len(d.log.hashes) = Len(c.log.hashes) + 1
    <3>1. PICK source \in Sentants \cup {External}, target \in Targets, hash \in Hashes :
            source = action.source /\ target = action.target /\ hash = action.hash
      BY <1>1
    <3>2. d = DispatchSend(c, source, target, hash)
      BY <2>1, <3>1
    <3> QED BY <3>2, DispatchSendFacts
  <2>3. Load(d) = Load(c) + 1
    <3>1. PICK x \in Nat, y \in Nat : x = Len(c.log.hashes) /\ y = Len(c.bus.timers)
      BY <1>2, LoadType
    <3>2. (x + 1) + y = (x + y) + 1
      OBVIOUS
    <3> QED BY <2>2, <3>1, <3>2 DEF Load
  <2> QED BY <1>2, <2>2, <2>3, LoadType
<1>4. CASE action.delay # 0
  <2>1. PICK timer : timer = [source |-> action.source, hash |-> action.hash,
                              target |-> action.target, remaining |-> action.delay]
    OBVIOUS
  <2>2. action.delay > 0
    BY <1>1, <1>4
  <2>3. /\ timer \in Timers /\ timer.remaining > 0 /\ timer.source = action.source
        /\ timer.hash = action.hash /\ timer.remaining = action.delay
    BY <1>1, <2>1, <2>2 DEF Timers
  <2>4. PICK timers \in Seq(Timers) : timers = c.bus.timers
    BY <1>2 DEF Pairs, BusRecords
  <2>5. PICK due \in [Sentants -> [Hashes -> Nat]] : due = c.log.due
    BY <1>2 DEF Pairs, LogRecords
  <2>6. PICK to : to = Schedule(timers, timer)
    OBVIOUS
  <2>7. PICK later : later = [due EXCEPT ![timer.source][timer.hash] = timer.remaining]
    OBVIOUS
  <2>8. \A s \in Sentants, h \in Hashes : TimerKept(timers, due[s][h], s, h)
    BY <2>4, <2>5 DEF PairInv, TimersKept
  <2>9. /\ to \in Seq(Timers) /\ Len(to) <= Len(timers) + 1
        /\ later \in [Sentants -> [Hashes -> Nat]]
        /\ \A s \in Sentants, h \in Hashes : TimerKept(to, later[s][h], s, h)
    <3>1. later \in [Sentants -> [Hashes -> Nat]]
      BY <1>1, <2>3, <2>7
    <3>3. to \in Seq(Timers)
      BY <2>3, <2>6, <2>7, <2>8, ScheduleKeeps
    <3>4. Len(to) <= Len(timers) + 1
      BY <2>3, <2>6, <2>7, <2>8, ScheduleKeeps, Zenon
    <3>2. \A s \in Sentants, h \in Hashes : TimerKept(to, later[s][h], s, h)
      BY <2>3, <2>6, <2>7, <2>8, ScheduleKeeps
    <3> QED BY <3>1, <3>2, <3>3, <3>4
  <2>10. /\ c.bus \in BusRecords /\ c.log \in LogRecords
    BY <1>2 DEF Pairs
  <2>11. /\ d.bus = [c.bus EXCEPT !.timers = to]
         /\ d.log = [c.log EXCEPT !.due = later]
         /\ d = [bus |-> d.bus, log |-> d.log]
    <3>1. d = [bus |-> [c.bus EXCEPT !.timers = Schedule(@, timer)],
               log |-> [c.log EXCEPT !.due[action.source][action.hash] = action.delay]]
      BY <1>4, <2>1 DEF Perform
    <3>2. [c.log EXCEPT !.due[action.source][action.hash] = action.delay]
            = [c.log EXCEPT !.due = [c.log.due EXCEPT ![action.source][action.hash] = action.delay]]
      BY <2>10 DEF LogRecords
    <3> QED BY <3>1, <3>2, <2>3, <2>4, <2>5, <2>6, <2>7
  <2>12. /\ d.bus \in BusRecords /\ d.bus.queue = c.bus.queue
         /\ d.bus.timers = to /\ d.bus.outbound = c.bus.outbound
    BY <2>9, <2>10, <2>11 DEF BusRecords
  <2>13. /\ d.log \in LogRecords
         /\ d.log.hashes = c.log.hashes /\ d.log.refused = c.log.refused
         /\ d.log.lost = c.log.lost /\ d.log.remote = c.log.remote
         /\ d.log.shipped = c.log.shipped /\ d.log.handled = c.log.handled
         /\ d.log.due = later
    BY <2>9, <2>10, <2>11 DEF LogRecords
  <2>14. d \in Pairs
    BY <2>11, <2>12, <2>13 DEF Pairs
  <2>15. Held(d) = Held(c) /\ Missed(d) = Missed(c) /\ Processed(d) = Processed(c)
    BY <2>12, <2>13 DEF Held, Missed, Processed
  <2>16. QueueInOrder(d) /\ AllShipped(d)
    BY <2>12, <2>13, <2>15 DEF PairInv, QueueInOrder, AllShipped
  <2>17. TimersKept(d)
    BY <2>9, <2>12, <2>13 DEF TimersKept
  <2>18. Continues(c, d)
    <3>1. Len(c.log.hashes) <= Len(c.log.hashes) /\ Len(Held(c)) <= Len(Held(c))
      <4>1. c.log.hashes \in Seq(Hashes) /\ Held(c) \in Seq(Events)
        BY DEF PairInv, QueueInOrder, Pairs, LogRecords
      <4> QED BY <4>1, LenProperties
    <3> QED BY <3>1, <2>13, <2>15 DEF Continues
  <2>19. Load(d) <= Load(c) + 1
    <3>1. Len(d.log.hashes) = Len(c.log.hashes) /\ Len(d.bus.timers) <= Len(c.bus.timers) + 1
      BY <2>4, <2>9, <2>12, <2>13
    <3>2. PICK x \in Nat, y \in Nat, z \in Nat :
            x = Len(c.log.hashes) /\ y = Len(c.bus.timers) /\ z = Len(d.bus.timers)
      BY <1>2, <2>14, LoadType
    <3>3. z <= y + 1
      BY <3>1, <3>2
    <3>4. x + z <= (x + y) + 1
      BY <3>3
    <3> QED BY <3>1, <3>2, <3>4 DEF Load
  <2> QED BY <2>14, <2>16, <2>17, <2>18, <2>19 DEF PairInv
<1> QED BY <1>3, <1>4

\* All actions of a handler, all events of a poll, all timers that fire.
LEMMA ProcessActionsFacts ==
  ASSUME NEW b, PairInv(b), NEW actions \in Seq(Actions),
         Load(b) + Len(actions) <= MaxEvents,
         NEW d, d = ProcessActions(b, actions)
  PROVE  PairInv(d) /\ Continues(b, d) /\ Load(d) <= Load(b) + Len(actions)
<1>1. PICK n \in Nat : n = Len(actions)
  BY LenProperties
<1>2. b \in Pairs /\ Held(b) \in Seq(Events)
  BY DEF PairInv, QueueInOrder
<1>3. PICK base \in Nat : base = Load(b) /\ base + n <= MaxEvents
  BY <1>1, <1>2, LoadType
<1> DEFINE Reached(i) == {c \in Pairs : PairInv(c) /\ Continues(b, c) /\ Load(c) <= base + i}
           B == [i \in 0..n |-> Reached(i)]
<1>4. b \in B[0]
  <2>1. Load(b) <= base + 0 /\ 0 \in 0..n
    BY <1>3
  <2>2. b \in Reached(0)
    BY <1>2, <2>1, ContinuesItself
  <2> QED BY <2>1, <2>2
<1>5. ASSUME NEW i \in 1..n, NEW c \in B[i - 1] PROVE Perform(c, actions[i]) \in B[i]
  <2>1. i \in 0..n /\ i - 1 \in 0..n /\ actions[i] \in Actions
    BY <1>1, ElementOfSeq
  <2>2. c \in Reached(i - 1)
    BY <1>5, <2>1
  <2>3. /\ c \in Pairs /\ PairInv(c) /\ Continues(b, c) /\ Load(c) <= base + (i - 1)
    BY <2>2
  <2>4. Len(c.log.hashes) < MaxEvents
    <3>1. base + (i - 1) < base + n
      BY <2>1
    <3>2. PICK x \in Nat, y \in Nat : x = Len(c.log.hashes) /\ y = Load(c) /\ x <= y
      BY <2>3, LoadType
    <3>3. y < base + n
      BY <2>3, <3>1, <3>2
    <3> QED BY <1>3, <3>2, <3>3, LoopAssumption
  <2>5. PICK e : e = Perform(c, actions[i])
    OBVIOUS
  <2>6. PairInv(e) /\ Continues(c, e) /\ Load(e) <= Load(c) + 1
    BY <2>1, <2>3, <2>4, <2>5, PerformFacts
  <2>7. /\ e \in Pairs /\ Held(c) \in Seq(Events) /\ Held(e) \in Seq(Events)
    BY <2>3, <2>6 DEF PairInv, QueueInOrder
  <2>8. Continues(b, e)
    BY <1>2, <2>3, <2>6, <2>7, ContinuesOn
  <2>9. Load(e) <= base + i
    BY <2>3, <2>6, <2>7, LoadType
  <2>10. e \in Reached(i)
    BY <2>6, <2>7, <2>8, <2>9
  <2> HIDE DEF Reached
  <2> QED BY <2>1, <2>5, <2>10
<1>6. ProcessActions(b, actions) \in B[n]
  <2> HIDE DEF B
  <2>1. Len(actions) \in Nat
    BY <1>1
  <2>2. \A i \in 1..Len(actions) : \A c \in B[i - 1] : Perform(c, actions[i]) \in B[i]
    BY <1>1, <1>5
  <2> QED BY <1>1, <1>4, <2>1, <2>2, ProcessActionsKeeps
<1>7. d \in Reached(n)
  <2>1. n \in 0..n
    OBVIOUS
  <2> HIDE DEF Reached
  <2> QED BY <1>6, <2>1
<1> QED BY <1>1, <1>3, <1>7

-----------------------------------------------------------------------------
(* The steps of the loop. *)

LEMMA PairInvFacts ==
  ASSUME NEW b, PairInv(b)
  PROVE  /\ b \in Pairs /\ b.bus \in BusRecords /\ b.log \in LogRecords
         /\ b = [bus |-> b.bus, log |-> b.log] /\ Held(b) \in Seq(Events)
  BY DEF PairInv, Pairs, QueueInOrder

\* A pair that goes on from another has processed the same events.
LEMMA ProcessedAndHashes ==
  ASSUME NEW b, NEW c, PairInv(b), Continues(b, c)
  PROVE  /\ Processed(c) = Processed(b)
         /\ \A id \in Processed(b) : c.log.hashes[id] = b.log.hashes[id]
  BY DEF Continues, Processed

\* Sending leaves what was handled, and what is being handled.
LEMMA HandledStays ==
  ASSUME NEW b, NEW c, PairInv(b), Continues(b, c),
         NEW s \in Sentants, NEW waiting, HandledBy(s, b, waiting)
  PROVE  HandledBy(s, c, waiting)
<1>1. /\ Processed(c) = Processed(b) /\ c.log.handled = b.log.handled
      /\ \A id \in Processed(b) : c.log.hashes[id] = b.log.hashes[id]
  BY ProcessedAndHashes DEF Continues
<1>2. {id \in Processed(c) : c.log.hashes[id] \in Subscriptions[s]}
        = {id \in Processed(b) : b.log.hashes[id] \in Subscriptions[s]}
  BY <1>1
<1> QED BY <1>1, <1>2 DEF HandledBy

LEMMA LoopStays ==
  ASSUME NEW b, NEW c, PairInv(b), Continues(b, c), NEW l, LoopInv(l, b)
  PROVE  LoopInv(l, c)
<1>1. /\ Processed(c) = Processed(b)
      /\ \A id \in Processed(b) : c.log.hashes[id] = b.log.hashes[id]
  BY ProcessedAndHashes
<1> QED BY <1>1 DEF LoopInv

LEMMA InitInv == Init => Inv
<1> SUFFICES ASSUME Init PROVE Inv
  OBVIOUS
<1>1. /\ << >> \in Seq(Hashes) /\ << >> \in Seq(Timers) /\ << >> \in Seq(EventIds)
      /\ << >> \in Seq(Events) /\ Len(<< >>) = 0
  OBVIOUS
<1>2. PICK b : b = Now
  OBVIOUS
<1>3. /\ b.bus = [queue |-> EmptyQueue, timers |-> << >>, outbound |-> << >>]
      /\ b.log = InitLog /\ b = [bus |-> b.bus, log |-> b.log]
  BY <1>2 DEF Init, Now
<1>4. EmptyQueue \in Rings(Events) /\ Contents(EmptyQueue) = << >>
  BY EmptyIsEmpty
<1>5. b.bus \in BusRecords
  BY <1>1, <1>3, <1>4 DEF BusRecords
<1>6. /\ b.log \in LogRecords
      /\ b.log.hashes = << >> /\ b.log.refused = {} /\ b.log.lost = {}
      /\ b.log.remote = << >> /\ b.log.shipped = << >>
      /\ \A s \in Sentants : b.log.handled[s] = << >>
      /\ \A s \in Sentants, h \in Hashes : b.log.due[s][h] = 0
  BY <1>1, <1>3 DEF InitLog, LogRecords
<1>7. b \in Pairs /\ Held(b) = << >> /\ Missed(b) = {} /\ Processed(b) = {}
  <2>1. b \in Pairs
    BY <1>3, <1>5, <1>6 DEF Pairs
  <2>2. Held(b) = << >> /\ Missed(b) = {}
    BY <1>3, <1>4, <1>6 DEF Held, Missed
  <2>3. 1..Len(b.log.hashes) = {}
    BY <1>1, <1>6
  <2> QED BY <2>1, <2>2, <2>3 DEF Processed
<1>8. \A i \in 1..0 : FALSE
  OBVIOUS
<1>9. QueueInOrder(b)
  BY <1>1, <1>6, <1>7, <1>8 DEF QueueInOrder
<1>10. TimersKept(b)
  <2>1. b.bus.timers = << >> /\ DOMAIN << >> = {}
    BY <1>3
  <2>2. \A s, h : {i \in DOMAIN b.bus.timers : b.bus.timers[i].source = s
                                                /\ b.bus.timers[i].hash = h} = {}
    BY <2>1
  <2>3. ASSUME NEW s \in Sentants, NEW h \in Hashes
        PROVE  TimerKept(b.bus.timers, b.log.due[s][h], s, h)
    <3>1. b.log.due[s][h] = 0
      BY <1>6
    <3> QED BY <2>2, <3>1 DEF TimerKept
  <2> QED BY <2>3 DEF TimersKept
<1>11. AllShipped(b)
  BY <1>1, <1>3, <1>6, <1>8 DEF AllShipped, AllShippedOf
<1>12. LoopInv(loop, b)
  <2>1. loop.pc = "drain" /\ loop \in LoopRecords
    BY LoopAssumption DEF Init, LoopRecords
  <2> QED BY <2>1 DEF LoopInv
<1>13. \A s \in Sentants : HandledBy(s, b, Waiting(loop, s))
  BY <1>1, <1>6, <1>7, <1>8 DEF HandledBy
<1>14. Load(b) + Len(inbound) <= MaxEvents /\ inbound \in Seq(Hashes) /\ Len(inbound) <= ChannelCap
  BY <1>1, <1>3, <1>6, LoopAssumption DEF Init, Load
<1> QED BY <1>2, <1>7, <1>9, <1>10, <1>11, <1>12, <1>13, <1>14 DEF Inv, StateInv, PairInv

\* A client's event waits in the channel.
LEMMA SubmitKeeps == ASSUME Inv, NEW hash \in Hashes, Submit(hash) PROVE Inv'
<1>1. UNCHANGED <<bus, loop, log>> /\ Now' = Now
  BY DEF Submit, Now
<1>2. PICK chan \in Seq(Hashes) : chan = inbound /\ Len(chan) < ChannelCap
  BY DEF Inv, StateInv, Submit
<1>3. PICK n \in Nat, x \in Nat, y \in Nat :
        n = Len(chan) /\ x = Len(log.hashes) /\ y = Len(bus.timers)
  <2>1. PICK b : b = Now
    OBVIOUS
  <2>2. Len(b.log.hashes) \in Nat /\ Len(b.bus.timers) \in Nat
    BY <2>1, PairInvFacts, LoadType DEF Inv, StateInv
  <2>3. b.log.hashes = log.hashes /\ b.bus.timers = bus.timers
    BY <2>1 DEF Now
  <2> QED BY <2>2, <2>3, LenProperties
<1>4. PICK to \in Seq(Hashes) : to = inbound' /\ Len(to) = n + 1
  BY <1>2, <1>3, AppendProperties DEF Submit
<1>5. x + n + y + 1 <= MaxEvents /\ n < ChannelCap
  BY <1>2, <1>3 DEF Submit, Room
<1>6. (x + y) + (n + 1) <= MaxEvents /\ n + 1 <= ChannelCap
  BY <1>5, LoopAssumption
<1>7. Load(Now) = x + y
  BY <1>3 DEF Load, Now
<1>8. PICK b : b = Now
  OBVIOUS
<1>9. StateInv(inbound', b, loop)
  <2>1. StateInv(inbound, b, loop)
    BY <1>8 DEF Inv
  <2> QED BY <2>1, <1>4, <1>6, <1>7, <1>8 DEF StateInv
<1> QED BY <1>1, <1>8, <1>9 DEF Inv

\* What the steps of the loop start from.
LEMMA NowFacts ==
  ASSUME Inv
  PROVE  \E b : /\ b = Now /\ StateInv(inbound, b, loop) /\ PairInv(b) /\ b \in Pairs
                /\ b.bus = bus /\ b.log = log
<1>1. PICK b : b = Now
  OBVIOUS
<1>2. StateInv(inbound, b, loop) /\ PairInv(b)
  BY <1>1 DEF Inv, StateInv
<1> QED BY <1>1, <1>2, PairInvFacts DEF Now

\* A step that only sends, while no event is being handled.
LEMMA SendingKeeps ==
  ASSUME NEW channel \in Seq(Hashes), NEW b, NEW c, NEW l, NEW m, StateInv(channel, b, l),
         l.pc # "deliver", PairInv(c), Continues(b, c),
         m \in LoopRecords, m.pc # "deliver", m.pc = "tick" => m.budget > 0,
         NEW to \in Seq(Hashes), Len(to) <= ChannelCap, Load(c) + Len(to) <= MaxEvents
  PROVE  StateInv(to, c, m)
<1>1. PairInv(b)
  BY DEF StateInv
<1>2. LoopInv(m, c)
  BY DEF LoopInv
<1>3. ASSUME NEW s \in Sentants PROVE HandledBy(s, c, Waiting(m, s))
  <2>1. HandledBy(s, b, Waiting(l, s))
    BY DEF StateInv
  <2>2. Waiting(l, s) = {} /\ Waiting(m, s) = {}
    BY DEF Waiting
  <2>3. HandledBy(s, b, {})
    BY <2>1, <2>2
  <2>4. HandledBy(s, c, {})
    BY <1>1, <2>3, HandledStays
  <2> QED BY <2>2, <2>4
<1> QED BY <1>2, <1>3 DEF StateInv

\* Draining moves an event from the channel to the queue, or drops it there.
LEMMA DrainKeeps == ASSUME Inv, Drain PROVE Inv' /\ QueueGrows(Now, Now')
<1>1. PICK b : /\ b = Now /\ StateInv(inbound, b, loop) /\ PairInv(b) /\ b \in Pairs
               /\ b.bus = bus /\ b.log = log
  BY NowFacts
<1>2. PICK channel \in Seq(Hashes) : channel = inbound /\ channel # << >>
                                     /\ Len(channel) <= ChannelCap
  BY <1>1 DEF StateInv, Drain
<1>3. PICK hash \in Hashes : hash = Head(channel)
  BY <1>2, HeadTailProperties
<1>4. PICK to \in Seq(Hashes) : to = Tail(channel) /\ Len(to) = Len(channel) - 1
  BY <1>2, HeadTailProperties
<1>5. PICK n \in Nat : n = Len(channel) /\ n > 0
  <2>1. Len(channel) \in Nat \ {0}
    BY <1>2, EmptySeq
  <2> QED BY <2>1
<1>6. Load(b) + n <= MaxEvents
  BY <1>1, <1>2, <1>5 DEF StateInv
<1>7. Len(b.log.hashes) < MaxEvents
  BY <1>1, <1>5, <1>6, LoadType, LoopAssumption
<1>8. PICK event : event = Stamp(b, hash, External)
  OBVIOUS
<1>9. event \in Events /\ event.id = Len(b.log.hashes) + 1
  <2>1. External \in Sentants \cup {External}
    OBVIOUS
  <2> QED BY <1>1, <1>7, <1>8, <2>1, StampFacts
<1>10. PICK c : c = Enqueue(b, event)
  OBVIOUS
<1>11. /\ PairInv(c) /\ Continues(b, c) /\ c.bus.timers = b.bus.timers
       /\ Len(c.log.hashes) = Len(b.log.hashes) + 1
  BY <1>1, <1>9, <1>10, EnqueueFacts
<1>12. Load(c) = Load(b) + 1
  <2>1. PICK x \in Nat, y \in Nat : x = Len(b.log.hashes) /\ y = Len(b.bus.timers)
    BY <1>1, LoadType
  <2>2. (x + 1) + y = (x + y) + 1
    OBVIOUS
  <2> QED BY <1>11, <2>1, <2>2 DEF Load
<1>13. bus' = c.bus /\ log' = c.log /\ inbound' = to
  BY <1>1, <1>2, <1>3, <1>4, <1>8, <1>10 DEF Drain, Become
<1>14. Now' = c
  BY <1>11, <1>13, PairInvFacts DEF Now
<1>15. loop \in LoopRecords /\ loop.pc = "drain" /\ loop.drained < DrainLimit
  BY <1>1 DEF StateInv, LoopInv, Drain
<1>16. loop' \in LoopRecords /\ loop'.pc = "drain"
  <2>1. loop' = [loop EXCEPT !.drained = @ + 1]
    BY DEF Drain
  <2>2. loop.drained + 1 \in 0..DrainLimit
    BY <1>15, LoopAssumption DEF LoopRecords
  <2> QED BY <1>15, <2>1, <2>2 DEF LoopRecords
<1>17. Len(to) <= ChannelCap /\ Load(c) + Len(to) <= MaxEvents
  <2>1. PICK x \in Nat : x = Load(b)
    BY <1>1, LoadType
  <2>2. Len(to) = n - 1 /\ Load(c) = x + 1 /\ x + n <= MaxEvents /\ n <= ChannelCap
    BY <1>2, <1>4, <1>5, <1>6, <1>12, <2>1
  <2> QED BY <2>2, LoopAssumption
<1>18. StateInv(to, c, loop')
  <2>1. StateInv(channel, b, loop)
    BY <1>1, <1>2
  <2> QED BY <1>11, <1>15, <1>16, <1>17, <2>1, SendingKeeps
<1>19. QueueGrows(b, c)
  BY <1>1, <1>11 DEF Continues, QueueGrows
<1> QED BY <1>13, <1>14, <1>18, <1>19, <1>1 DEF Inv

\* A step that leaves all but the loop alone, while no event is being handled.
LEMMA GoingOnKeeps ==
  ASSUME Inv, UNCHANGED <<inbound, bus, log>>, loop.pc # "deliver",
         loop' \in LoopRecords, loop'.pc # "deliver", loop'.pc = "tick" => loop'.budget > 0
  PROVE  Inv'
<1>1. PICK b : /\ b = Now /\ StateInv(inbound, b, loop) /\ PairInv(b) /\ b \in Pairs
               /\ b.bus = bus /\ b.log = log
  BY NowFacts
<1>2. Now' = b
  BY <1>1 DEF Now
<1>3. LoopInv(loop', b)
  BY DEF LoopInv
<1>4. ASSUME NEW s \in Sentants PROVE HandledBy(s, b, Waiting(loop', s))
  <2>1. HandledBy(s, b, Waiting(loop, s))
    BY <1>1 DEF StateInv
  <2>2. Waiting(loop, s) = {} /\ Waiting(loop', s) = {}
    BY DEF Waiting
  <2> QED BY <2>1, <2>2
<1>5. StateInv(inbound, b, loop')
  BY <1>1, <1>3, <1>4 DEF StateInv
<1> QED BY <1>2, <1>5 DEF Inv

LEMMA DrainDoneKeeps == ASSUME Inv, DrainDone PROVE Inv'
<1>1. loop \in LoopRecords /\ loop.pc = "drain"
  BY DEF Inv, StateInv, LoopInv, DrainDone
<1>2. loop' = [loop EXCEPT !.pc = "tick", !.drained = 0, !.budget = Budget]
  BY DEF DrainDone
<1>3. 0 \in 0..DrainLimit /\ Budget \in 0..Budget /\ Budget > 0
  BY LoopAssumption
<1>4. loop' \in LoopRecords /\ loop'.pc = "tick" /\ loop'.budget > 0
  BY <1>1, <1>2, <1>3 DEF LoopRecords
<1> QED BY <1>1, <1>4, GoingOnKeeps DEF DrainDone

LEMMA TickDoneKeeps == ASSUME Inv, TickDone PROVE Inv'
<1>1. loop \in LoopRecords /\ loop.pc = "tick"
  BY DEF Inv, StateInv, LoopInv, TickDone
<1>2. loop' \in LoopRecords /\ loop'.pc = "poll"
  BY <1>1 DEF LoopRecords, TickDone, Goto
<1> QED BY <1>1, <1>2, GoingOnKeeps DEF TickDone

\* A list of no more than n is a list.
LEMMA BoundedSeqType ==
  ASSUME NEW S, NEW n \in Nat, NEW seq \in BoundedSeq(S, n) PROVE seq \in Seq(S)
<1>1. PICK m \in 0..n : seq \in [1..m -> S]
  BY DEF BoundedSeq, SeqOf
<1> QED BY <1>1, FunctionIsSeq

\* The plugins' events enter the queue.
LEMMA PollPluginsKeeps == ASSUME Inv, PollPlugins PROVE Inv' /\ QueueGrows(Now, Now')
<1>1. PICK b : /\ b = Now /\ StateInv(inbound, b, loop) /\ PairInv(b) /\ b \in Pairs
               /\ b.bus = bus /\ b.log = log
  BY NowFacts
<1>2. PICK events \in BoundedSeq(PluginEvents, Plugins) :
        Room(Len(events)) /\ Become(ProcessActions(b, events))
  BY <1>1 DEF PollPlugins
<1>3. PluginEvents \subseteq Actions
  BY DEF PluginEvents, Actions, Targets
<1>4. events \in Seq(Actions)
  <2>1. events \in Seq(PluginEvents)
    BY LoopAssumption, BoundedSeqType
  <2> QED BY <1>3, <2>1, SeqMonotonic
<1>5. PICK channel \in Seq(Hashes) : channel = inbound /\ Len(channel) <= ChannelCap
  BY <1>1 DEF StateInv
<1>6. PICK n \in Nat, k \in Nat, x \in Nat, y \in Nat :
        /\ n = Len(channel) /\ k = Len(events)
        /\ x = Len(b.log.hashes) /\ y = Len(b.bus.timers)
  BY <1>1, <1>4, LoadType, LenProperties
<1>7. Load(b) = x + y /\ x + n + y + k <= MaxEvents
  BY <1>1, <1>2, <1>5, <1>6 DEF Load, Room
<1>8. PICK c : c = ProcessActions(b, events)
  OBVIOUS
<1>9. PairInv(c) /\ Continues(b, c) /\ Load(c) <= Load(b) + k
  <2>1. Load(b) + Len(events) <= MaxEvents
    <3>1. (x + y) + k <= MaxEvents
      BY <1>7, LoopAssumption
    <3> QED BY <1>6, <1>7, <3>1
  <2> QED BY <1>1, <1>4, <1>6, <1>8, <2>1, ProcessActionsFacts
<1>10. bus' = c.bus /\ log' = c.log /\ inbound' = channel
  BY <1>2, <1>5, <1>8 DEF PollPlugins, Become
<1>11. Now' = c
  BY <1>9, <1>10, PairInvFacts DEF Now
<1>12. loop \in LoopRecords /\ loop.pc = "poll"
  BY <1>1 DEF StateInv, LoopInv, PollPlugins
<1>13. loop' \in LoopRecords /\ loop'.pc = "time"
  BY <1>12 DEF LoopRecords, PollPlugins, Goto
<1>14. Load(c) + Len(channel) <= MaxEvents
  <2>1. PICK z \in Nat : z = Load(c)
    BY <1>9, PairInvFacts, LoadType
  <2>2. z <= (x + y) + k
    BY <1>7, <1>9, <2>1
  <2>3. z + n <= MaxEvents
    BY <1>7, <2>2, LoopAssumption
  <2> QED BY <1>6, <2>1, <2>3
<1>15. StateInv(channel, c, loop')
  <2>1. StateInv(channel, b, loop)
    BY <1>1, <1>5
  <2> QED BY <1>5, <1>9, <1>12, <1>13, <1>14, <2>1, SendingKeeps
<1>16. QueueGrows(b, c)
  BY <1>9 DEF Continues, QueueGrows
<1> QED BY <1>10, <1>11, <1>15, <1>16, <1>1 DEF Inv

\* What depends on the queue alone and on what is counted.
LEMMA SameQueue ==
  ASSUME NEW b, NEW c, c.bus.queue = b.bus.queue, c.log.hashes = b.log.hashes,
         c.log.refused = b.log.refused, c.log.lost = b.log.lost
  PROVE  /\ Held(c) = Held(b) /\ Processed(c) = Processed(b)
         /\ QueueInOrder(b) => QueueInOrder(c)
<1>1. Held(c) = Held(b) /\ Missed(c) = Missed(b)
  BY DEF Held, Missed
<1>2. Processed(c) = Processed(b)
  BY <1>1 DEF Processed
<1> QED BY <1>1, <1>2 DEF QueueInOrder

\* The ids of what waits for the transport.
LEMMA OutboundIds ==
  ASSUME NEW outbound \in Seq(Events), NEW k \in Nat, k = Len(outbound), DOMAIN outbound = 1..k
  PROVE  \E ids \in Seq(EventIds) :
           /\ ids = [i \in DOMAIN outbound |-> outbound[i].id] /\ Len(ids) = k
           /\ \A i \in 1..k : ids[i] = outbound[i].id
<1>1. PICK f : f = [i \in 1..k |-> outbound[i].id]
  OBVIOUS
<1>2. \A e \in Events : e.id \in EventIds
  BY LoopAssumption DEF Events, EventIds
<1>3. f \in [1..k -> EventIds] /\ \A i \in 1..k : f[i] = outbound[i].id
  BY <1>1, <1>2
<1>4. f \in Seq(EventIds) /\ Len(f) = k
  BY <1>3, FunctionIsSeq
<1>5. f = [i \in DOMAIN outbound |-> outbound[i].id]
  BY <1>1
<1> QED BY <1>3, <1>4, <1>5

\* The transport takes what waits for it.
LEMMA DrainOutboundKeeps == ASSUME Inv, DrainOutbound PROVE Inv'
<1>1. PICK b : /\ b = Now /\ StateInv(inbound, b, loop) /\ PairInv(b) /\ b \in Pairs
               /\ b.bus = bus /\ b.log = log
  BY NowFacts
<1>2. PICK remote \in Seq(EventIds), shipped \in Seq(EventIds), outbound \in Seq(Events) :
        /\ remote = b.log.remote /\ shipped = b.log.shipped /\ outbound = b.bus.outbound
        /\ AllShippedOf(remote, shipped, outbound)
  <2>1. /\ b.log.remote \in Seq(EventIds) /\ b.log.shipped \in Seq(EventIds)
        /\ b.bus.outbound \in Seq(Events)
    BY <1>1 DEF Pairs, LogRecords, BusRecords
  <2> QED BY <1>1, <2>1 DEF PairInv, AllShipped
<1>3. PICK k \in Nat, m \in Nat : k = Len(outbound) /\ DOMAIN outbound = 1..k /\ m = Len(shipped)
  BY LenProperties
<1>4. PICK ids \in Seq(EventIds) :
        /\ ids = [i \in DOMAIN outbound |-> outbound[i].id] /\ Len(ids) = k
        /\ \A i \in 1..k : ids[i] = outbound[i].id
  BY <1>3, OutboundIds
<1>5. PICK now \in Seq(EventIds) :
        /\ now = shipped \o ids /\ Len(now) = m + k
        /\ \A i \in 1..(m + k) : now[i] = IF i <= m THEN shipped[i] ELSE ids[i - m]
  <2>1. Len(shipped) + Len(ids) = m + k
    BY <1>3, <1>4
  <2>2. PICK f : f = shipped \o ids
    OBVIOUS
  <2>3. /\ f \in Seq(EventIds) /\ Len(f) = Len(shipped) + Len(ids)
        /\ \A i \in 1..(Len(shipped) + Len(ids)) :
             f[i] = IF i <= Len(shipped) THEN shipped[i] ELSE ids[i - Len(shipped)]
    BY <2>2, ConcatProperties
  <2> QED BY <1>3, <2>1, <2>2, <2>3
<1>6. AllShippedOf(remote, now, << >>)
  <2>1. /\ Len(remote) = m + k
        /\ \A i \in 1..m : remote[i] = shipped[i]
        /\ \A i \in 1..k : remote[m + i] = outbound[i].id
    BY <1>2, <1>3 DEF AllShippedOf
  <2>2. ASSUME NEW i \in 1..(m + k) PROVE remote[i] = now[i]
    <3>1. CASE i <= m
      BY <1>5, <2>1, <3>1
    <3>2. CASE ~(i <= m)
      <4>1. PICK j \in 1..k : j = i - m /\ m + j = i
        BY <3>2
      <4>2. now[i] = ids[j]
        BY <1>5, <3>2, <4>1
      <4> QED BY <1>4, <2>1, <4>1, <4>2
    <3> QED BY <3>1, <3>2
  <2>3. Len(<< >>) = 0 /\ (m + k) + 0 = m + k
    OBVIOUS
  <2>4. \A i \in 1..0 : FALSE
    OBVIOUS
  <2> QED BY <1>5, <2>1, <2>2, <2>3, <2>4 DEF AllShippedOf
<1>7. PICK c : c = Now'
  OBVIOUS
<1>8. /\ c = [bus |-> c.bus, log |-> c.log]
      /\ c.bus = [b.bus EXCEPT !.outbound = << >>]
      /\ c.log = [b.log EXCEPT !.shipped = now]
  <2>1. bus' = [bus EXCEPT !.outbound = << >>] /\ log' = [log EXCEPT !.shipped = @ \o ids]
    BY <1>1, <1>2, <1>4 DEF DrainOutbound
  <2>2. log' = [log EXCEPT !.shipped = now]
    BY <1>1, <1>2, <1>5, <2>1
  <2> QED BY <1>1, <1>7, <2>1, <2>2 DEF Now
<1>9. /\ c.bus \in BusRecords /\ c.bus.queue = b.bus.queue
      /\ c.bus.timers = b.bus.timers /\ c.bus.outbound = << >>
  <2>1. b.bus \in BusRecords /\ << >> \in Seq(Events)
    BY <1>1, PairInvFacts, EmptySeq
  <2> QED BY <1>8, <2>1 DEF BusRecords
<1>10. /\ c.log \in LogRecords
       /\ c.log.hashes = b.log.hashes /\ c.log.refused = b.log.refused
       /\ c.log.lost = b.log.lost /\ c.log.remote = b.log.remote /\ c.log.shipped = now
       /\ c.log.handled = b.log.handled /\ c.log.due = b.log.due
  <2>1. b.log \in LogRecords
    BY <1>1, PairInvFacts
  <2> QED BY <1>8, <2>1 DEF LogRecords
<1>11. PairInv(c) /\ Processed(c) = Processed(b) /\ Load(c) = Load(b)
  <2>1. c \in Pairs
    BY <1>8, <1>9, <1>10 DEF Pairs
  <2>2. QueueInOrder(c) /\ Processed(c) = Processed(b)
    BY <1>1, <1>9, <1>10, SameQueue DEF PairInv
  <2>3. TimersKept(c)
    BY <1>1, <1>9, <1>10 DEF PairInv, TimersKept
  <2>4. AllShipped(c)
    BY <1>2, <1>6, <1>9, <1>10 DEF AllShipped
  <2>5. Load(c) = Load(b)
    BY <1>9, <1>10 DEF Load
  <2> QED BY <2>1, <2>2, <2>3, <2>4, <2>5 DEF PairInv
<1>12. loop \in LoopRecords /\ loop.pc = "outbound"
  BY <1>1 DEF StateInv, LoopInv, DrainOutbound
<1>13. loop' \in LoopRecords /\ loop'.pc = "drain"
  BY <1>12 DEF LoopRecords, DrainOutbound, Goto
<1>14. ASSUME NEW s \in Sentants PROVE HandledBy(s, c, Waiting(loop', s))
  <2>1. HandledBy(s, b, Waiting(loop, s))
    BY <1>1 DEF StateInv
  <2>2. Waiting(loop, s) = {} /\ Waiting(loop', s) = {}
    BY <1>12, <1>13 DEF Waiting
  <2> QED BY <1>10, <1>11, <2>1, <2>2 DEF HandledBy
<1>15. StateInv(inbound, c, loop')
  BY <1>1, <1>11, <1>13, <1>14 DEF StateInv, LoopInv
<1>16. inbound' = inbound
  BY DEF DrainOutbound
<1> QED BY <1>7, <1>15, <1>16 DEF Inv

\* The oldest event leaves the queue; it is processed next, unless it is lost.
Taken(b, dropped) ==
  [bus |-> [b.bus EXCEPT !.queue = Pop(@)],
   log |-> [b.log EXCEPT !.lost = @ \cup dropped]]

TakenInOrder(b, event, dropped, c) ==
  /\ PairInv(c) /\ event \in Events
  /\ c.log.hashes = b.log.hashes /\ c.bus.timers = b.bus.timers
  /\ c.log.handled = b.log.handled
  /\ event.id \notin Processed(b) /\ b.log.hashes[event.id] = event.hash
  /\ \A id \in Processed(b) : id < event.id
  /\ Processed(c) = (Processed(b) \cup {event.id}) \ dropped

LEMMA PopFacts ==
  ASSUME NEW b, PairInv(b), b.bus.queue.count > 0,
         NEW event, event = Oldest(b.bus.queue),
         NEW dropped \in SUBSET {event.id}, NEW c, c = Taken(b, dropped)
  PROVE  TakenInOrder(b, event, dropped, c)
<1>0. /\ c = [bus |-> c.bus, log |-> c.log]
      /\ c.bus = [b.bus EXCEPT !.queue = Pop(@)]
      /\ c.log = [b.log EXCEPT !.lost = @ \cup dropped]
  BY DEF Taken
<1>1. /\ b \in Pairs /\ b.bus \in BusRecords /\ b.log \in LogRecords
      /\ QueueInOrder(b)
  BY PairInvFacts DEF PairInv
<1>2. PICK q \in Rings(Events), lost \in SUBSET EventIds :
        q = b.bus.queue /\ lost = b.log.lost
  BY <1>1 DEF BusRecords, LogRecords
<1>3. PICK p \in Rings(Events) : p = Pop(q)
  BY <1>2, PopTakesTheOldest
<1>4. PICK C \in Seq(Events), n \in Nat : C = Held(b) /\ n = Len(b.log.hashes)
  BY <1>1, LoadType DEF QueueInOrder
<1>5. /\ Contents(q) = C /\ C # << >> /\ event = Head(C) /\ Contents(p) = Tail(C)
  <2>1. q.count > 0
    BY <1>2
  <2>2. Contents(q) = C
    BY <1>2, <1>4 DEF Held
  <2> QED BY <1>2, <1>3, <2>1, <2>2, PopTakesTheOldest
<1>6. PICK k \in Nat : Len(C) = k + 1
  <2>1. Len(C) \in Nat \ {0}
    BY <1>5, EmptySeq
  <2>2. PICK l \in Nat \ {0} : l = Len(C)
    BY <2>1
  <2>3. l - 1 \in Nat /\ l = (l - 1) + 1
    OBVIOUS
  <2> QED BY <2>2, <2>3
<1>7. PICK D \in Seq(Events) : D = Tail(C) /\ Len(D) = k /\ \A i \in 1..k : D[i] = C[i + 1]
  <2>1. PICK D : D = Tail(C)
    OBVIOUS
  <2>2. /\ D \in Seq(Events) /\ Len(D) = Len(C) - 1
        /\ \A i \in 1..Len(D) : D[i] = C[i + 1]
    BY <1>5, <2>1, HeadTailProperties
  <2>3. Len(D) = k
    BY <1>6, <2>2
  <2> QED BY <2>1, <2>2, <2>3
<1>8. event = C[1] /\ event \in Events
  BY <1>5, <1>6
<1>9. PICK M : M = Missed(b) /\ M \subseteq 1..n
  BY <1>1, <1>4 DEF QueueInOrder
<1>10. PICK P : P = Processed(b)
               /\ P = {id \in 1..n : id \notin M /\ \A i \in 1..(k + 1) : C[i].id # id}
  BY <1>4, <1>6, <1>9 DEF Processed
<1>11. /\ \A i \in 1..(k + 1) : /\ C[i].id \in 1..n \ M
                                /\ b.log.hashes[C[i].id] = C[i].hash
                                /\ \A id \in P : id < C[i].id
       /\ \A i, j \in 1..(k + 1) : i < j => C[i].id < C[j].id
  BY <1>1, <1>4, <1>6, <1>9, <1>10 DEF QueueInOrder
<1>12. /\ event.id \in 1..n \ M /\ b.log.hashes[event.id] = event.hash
       /\ \A id \in P : id < event.id
       /\ event.id \notin P
  <2>1. 1 \in 1..(k + 1)
    OBVIOUS
  <2> QED BY <1>8, <1>10, <1>11, <2>1
<1>13. \A i \in 1..k : /\ i + 1 \in 1..(k + 1)
                       /\ D[i].id \in 1..n \ M /\ b.log.hashes[D[i].id] = D[i].hash
                       /\ \A id \in P : id < D[i].id
                       /\ event.id < D[i].id
  <2> TAKE i \in 1..k
  <2>1. i + 1 \in 1..(k + 1) /\ 1 \in 1..(k + 1) /\ 1 < i + 1
    OBVIOUS
  <2>2. D[i] = C[i + 1]
    BY <1>7
  <2> QED BY <1>8, <1>11, <2>1, <2>2
<1>14. \A i, j \in 1..k : i < j => D[i].id < D[j].id
  <2> TAKE i, j \in 1..k
  <2> HAVE i < j
  <2>1. i + 1 \in 1..(k + 1) /\ j + 1 \in 1..(k + 1) /\ i + 1 < j + 1
    OBVIOUS
  <2> QED BY <1>7, <1>11, <2>1
<1>15. /\ c.bus \in BusRecords /\ c.bus.queue = p
       /\ c.bus.timers = b.bus.timers /\ c.bus.outbound = b.bus.outbound
  BY <1>0, <1>1, <1>2, <1>3 DEF BusRecords
<1>16. /\ c.log \in LogRecords
       /\ c.log.hashes = b.log.hashes /\ c.log.refused = b.log.refused
       /\ c.log.lost = lost \cup dropped
       /\ c.log.remote = b.log.remote /\ c.log.shipped = b.log.shipped
       /\ c.log.handled = b.log.handled /\ c.log.due = b.log.due
  <2>1. event.id \in EventIds
    BY <1>8, LoopAssumption DEF Events, EventIds
  <2>2. PICK more \in SUBSET EventIds : more = lost \cup dropped
    BY <2>1
  <2>3. c.log = [b.log EXCEPT !.lost = more]
    BY <1>0, <1>2, <2>2
  <2> QED BY <1>1, <2>2, <2>3 DEF LogRecords
<1>17. Held(c) = D /\ Missed(c) = M \cup dropped
  <2>1. Held(c) = D
    BY <1>5, <1>7, <1>15 DEF Held
  <2>2. Missed(c) = M \cup dropped
    BY <1>2, <1>9, <1>16 DEF Missed
  <2> QED BY <2>1, <2>2
<1>18. Processed(c) = (P \cup {event.id}) \ dropped
  <2>1. Processed(c) = {id \in 1..n : id \notin Missed(c) /\ \A i \in 1..k : D[i].id # id}
    BY <1>4, <1>7, <1>16, <1>17 DEF Processed
  <2>2. ASSUME NEW id \in 1..n
        PROVE  (\A i \in 1..(k + 1) : C[i].id # id)
                 <=> id # event.id /\ \A i \in 1..k : D[i].id # id
    <3>1. ASSUME \A i \in 1..(k + 1) : C[i].id # id
          PROVE  id # event.id /\ \A i \in 1..k : D[i].id # id
      <4>1. 1 \in 1..(k + 1)
        OBVIOUS
      <4>2. id # event.id
        BY <1>8, <3>1, <4>1
      <4>3. ASSUME NEW i \in 1..k PROVE D[i].id # id
        BY <1>7, <1>13, <3>1
      <4> QED BY <4>2, <4>3
    <3>2. ASSUME id # event.id, \A i \in 1..k : D[i].id # id, NEW i \in 1..(k + 1)
          PROVE  C[i].id # id
      <4>1. CASE i = 1
        BY <1>8, <3>2, <4>1
      <4>2. CASE i # 1
        <5>1. PICK j \in 1..k : j = i - 1 /\ j + 1 = i
          BY <4>2
        <5> QED BY <1>7, <3>2, <5>1
      <4> QED BY <4>1, <4>2
    <3> QED BY <3>1, <3>2
  <2>3. \A i \in 1..k : D[i].id # event.id
    BY <1>13
  <2>4. ASSUME NEW id \in 1..n
        PROVE  id \in Processed(c)
                 <=> id \in (P \cup {event.id}) \ dropped
    <3>1. id \in P <=> id \notin M /\ id # event.id /\ \A i \in 1..k : D[i].id # id
      BY <1>10, <2>2
    <3>2. id \in Processed(c) <=> id \notin Missed(c) /\ \A i \in 1..k : D[i].id # id
      BY <2>1
    <3> QED BY <1>12, <1>17, <2>3, <3>1, <3>2
  <2>5. Processed(c) \subseteq 1..n /\ P \cup {event.id} \subseteq 1..n
    BY <1>10, <1>12, <2>1
  <2> QED BY <2>4, <2>5
<1>19. QueueInOrder(c)
  <2>1. Missed(c) \subseteq 1..n
    BY <1>9, <1>12, <1>17
  <2>2. \A i \in 1..k : /\ D[i].id \in 1..n \ Missed(c)
                        /\ c.log.hashes[D[i].id] = D[i].hash
                        /\ \A id \in Processed(c) : id < D[i].id
    <3> TAKE i \in 1..k
    <3>1. /\ D[i].id \in 1..n \ M /\ b.log.hashes[D[i].id] = D[i].hash
          /\ \A id \in P : id < D[i].id
          /\ event.id < D[i].id
      BY <1>13
    <3>2. D[i].id # event.id
      BY <3>1, <1>12
    <3> QED BY <3>1, <3>2, <1>16, <1>17, <1>18
  <2> QED BY <1>4, <1>7, <1>14, <1>16, <1>17, <2>1, <2>2 DEF QueueInOrder
<1>20. TimersKept(c) /\ AllShipped(c)
  BY <1>15, <1>16 DEF PairInv, TimersKept, AllShipped
<1>21. PairInv(c)
  BY <1>0, <1>15, <1>16, <1>19, <1>20 DEF PairInv, Pairs
<1> QED BY <1>8, <1>10, <1>12, <1>15, <1>16, <1>18, <1>21 DEF TakenInOrder

\* The tick takes the oldest event; the last one of its budget is lost.
LEMMA TickPopKeeps == ASSUME Inv, TickPop PROVE Inv'
<1>1. PICK b : /\ b = Now /\ StateInv(inbound, b, loop) /\ PairInv(b) /\ b \in Pairs
               /\ b.bus = bus /\ b.log = log
  BY NowFacts
<1>2. PICK event, todo : event = Oldest(b.bus.queue) /\ todo = Subscribers(event)
  OBVIOUS
<1>3. PICK c : c = Now'
  OBVIOUS
<1>4. /\ b.bus.queue.count > 0 /\ inbound' = inbound
      /\ c = [bus |-> [b.bus EXCEPT !.queue = Pop(@)], log |-> log']
  BY <1>1, <1>3 DEF TickPop, Now
<1>5. loop \in LoopRecords /\ loop.pc = "tick" /\ loop.budget > 0
  BY <1>1 DEF StateInv, LoopInv, TickPop
<1>6. ASSUME NEW s \in Sentants
      PROVE  /\ HandledBy(s, b, {})
             /\ \A i, j \in 1..Len(b.log.handled[s]) :
                  i < j => b.log.handled[s][i] < b.log.handled[s][j]
             /\ {b.log.handled[s][i] : i \in 1..Len(b.log.handled[s])} =
                  {id \in Processed(b) : b.log.hashes[id] \in Subscriptions[s]}
  <2>1. HandledBy(s, b, Waiting(loop, s))
    BY <1>1 DEF StateInv
  <2>2. Waiting(loop, s) = {}
    BY <1>5 DEF Waiting
  <2>3. HandledBy(s, b, {})
    BY <2>1, <2>2
  <2> QED BY <2>3 DEF HandledBy
<1>7. ASSUME NEW l, PairInv(c), c.log.hashes = b.log.hashes, c.bus.timers = b.bus.timers,
             LoopInv(l, c), \A s \in Sentants : HandledBy(s, c, Waiting(l, s))
      PROVE  StateInv(inbound, c, l)
  <2>1. Load(c) = Load(b)
    BY <1>7 DEF Load
  <2> QED BY <1>1, <1>7, <2>1 DEF StateInv
<1>8. CASE loop.budget = 1
  <2>10. PICK dropped \in SUBSET {event.id} : dropped = {event.id}
    OBVIOUS
  <2>1. c = Taken(b, dropped)
    <3>1. log' = [b.log EXCEPT !.lost = @ \cup {event.id}]
      BY <1>1, <1>2, <1>8 DEF TickPop
    <3> QED BY <1>4, <2>10, <3>1 DEF Taken
  <2>2. loop' = [loop EXCEPT !.pc = "poll", !.budget = 0]
    BY <1>8 DEF TickPop
  <2>3. /\ PairInv(c) /\ c.log.hashes = b.log.hashes /\ c.bus.timers = b.bus.timers
        /\ c.log.handled = b.log.handled
        /\ Processed(c) = Processed(b)
    <3>1. TakenInOrder(b, event, dropped, c)
      BY <1>1, <1>2, <1>4, <2>1, PopFacts
    <3> QED BY <2>10, <3>1 DEF TakenInOrder
  <2>6. loop' \in LoopRecords /\ loop'.pc = "poll"
    <3>1. 0 \in 0..Budget
      BY LoopAssumption
    <3> QED BY <1>5, <2>2, <3>1 DEF LoopRecords
  <2>7. LoopInv(loop', c)
    BY <2>6 DEF LoopInv
  <2>8. ASSUME NEW s \in Sentants PROVE HandledBy(s, c, Waiting(loop', s))
    <3>1. Waiting(loop', s) = {}
      BY <2>6 DEF Waiting
    <3> QED BY <1>6, <2>3, <3>1 DEF HandledBy
  <2>9. StateInv(inbound, c, loop')
    BY <1>7, <2>3, <2>7, <2>8
  <2> QED BY <1>3, <1>4, <2>9 DEF Inv
<1>9. CASE loop.budget # 1
  <2>10. PICK dropped \in SUBSET {event.id} : dropped = {}
    OBVIOUS
  <2>1. c = Taken(b, dropped) /\ c.log = b.log
    <3>1. log' = b.log
      BY <1>1, <1>9 DEF TickPop
    <3>2. b.log = [b.log EXCEPT !.lost = @ \cup {}]
      BY <1>1, PairInvFacts DEF LogRecords
    <3> QED BY <1>4, <2>10, <3>1, <3>2 DEF Taken
  <2>2. loop' = [loop EXCEPT !.budget = @ - 1, !.current = event, !.todo = todo,
                             !.pc = IF todo = {} THEN "tick" ELSE "deliver"]
    BY <1>1, <1>2, <1>9 DEF TickPop
  <2>3. /\ PairInv(c) /\ event \in Events
        /\ c.log.hashes = b.log.hashes /\ c.bus.timers = b.bus.timers
        /\ event.id \notin Processed(b) /\ b.log.hashes[event.id] = event.hash
        /\ \A id \in Processed(b) : id < event.id
        /\ Processed(c) = Processed(b) \cup {event.id}
    <3>1. TakenInOrder(b, event, dropped, c)
      BY <1>1, <1>2, <1>4, <2>1, PopFacts
    <3> QED BY <2>10, <3>1 DEF TakenInOrder
  <2>4. /\ todo \subseteq Sentants
        /\ \A s \in Sentants : s \in todo <=> event.hash \in Subscriptions[s]
    BY <1>2 DEF Subscribers
  <2>5. /\ loop' \in LoopRecords /\ loop'.budget > 0 /\ loop'.current = event
        /\ loop'.todo = todo /\ loop'.pc = IF todo = {} THEN "tick" ELSE "deliver"
    <3>1. loop.budget - 1 \in 0..Budget /\ loop.budget - 1 > 0
      BY <1>5, <1>9, LoopAssumption DEF LoopRecords
    <3>2. PICK m \in 0..Budget : m = loop.budget - 1
      BY <3>1
    <3>3. PICK pc \in {"tick", "deliver"} : pc = IF todo = {} THEN "tick" ELSE "deliver"
      OBVIOUS
    <3>4. loop' = [loop EXCEPT !.budget = m, !.current = event, !.todo = todo, !.pc = pc]
      BY <2>2, <3>2, <3>3
    <3>5. /\ loop' \in LoopRecords /\ loop'.budget = m /\ loop'.current = event
          /\ loop'.todo = todo /\ loop'.pc = pc
      BY <1>5, <2>3, <2>4, <3>4 DEF LoopRecords
    <3> QED BY <3>1, <3>2, <3>3, <3>5
  <2>6. LoopInv(loop', c)
    <3>1. \A id \in Processed(c) : id <= event.id
      <4>1. event.id \in Nat
        BY <2>3, LoopAssumption DEF Events
      <4>2. Processed(b) \subseteq Nat
        BY <1>1, LoadType DEF Processed
      <4> QED BY <2>3, <4>1, <4>2
    <3>2. todo \subseteq Subscribers(event)
      BY <1>2
    <3> QED BY <2>3, <2>5, <3>1, <3>2 DEF LoopInv
  <2>7. ASSUME NEW s \in Sentants PROVE HandledBy(s, c, Waiting(loop', s))
    <3>1. Waiting(loop', s) = IF s \in todo THEN {event.id} ELSE {}
      <4>1. s \in todo => todo # {}
        OBVIOUS
      <4> QED BY <2>5, <4>1 DEF Waiting
    <3>2. {id \in Processed(c) : c.log.hashes[id] \in Subscriptions[s]}
            = {id \in Processed(b) : b.log.hashes[id] \in Subscriptions[s]}
                \cup IF s \in todo THEN {event.id} ELSE {}
      BY <2>3, <2>4
    <3>3. {id \in Processed(c) : c.log.hashes[id] \in Subscriptions[s]} \ Waiting(loop', s)
            = {id \in Processed(b) : b.log.hashes[id] \in Subscriptions[s]}
      BY <2>3, <3>1, <3>2
    <3> QED BY <1>6, <2>1, <3>3 DEF HandledBy
  <2>8. StateInv(inbound, c, loop')
    BY <1>7, <2>3, <2>6, <2>7
  <2> QED BY <1>3, <1>4, <2>8 DEF Inv
<1> QED BY <1>8, <1>9

\* There is a next subscriber.
LEMMA NextSubscriber ==
  ASSUME NEW todo \in SUBSET Sentants, todo # {}
  PROVE  Min(todo) \in todo
<1>1. PICK n \in Nat : n = Len(Subscriptions) /\ Sentants = 1..n
  BY LoopAssumption, LenProperties DEF Sentants
<1>2. todo \in SUBSET (1..n)
  BY <1>1
<1>3. \E s \in todo : \A t \in todo : s <= t
  BY <1>2, FirstIndex
<1> QED BY <1>3 DEF Min

\* A handler takes note of the event.
Seen(b, s, id) == [bus |-> b.bus, log |-> [b.log EXCEPT !.handled[s] = Append(@, id)]]

LEMMA SeenFacts ==
  ASSUME NEW b, PairInv(b), NEW s \in Sentants, NEW id \in Processed(b),
         NEW seen, seen = Seen(b, s, id),
         \A x \in Processed(b) : x <= id, b.log.hashes[id] \in Subscriptions[s],
         HandledBy(s, b, {id})
  PROVE  /\ PairInv(seen) /\ Load(seen) = Load(b)
         /\ Processed(seen) = Processed(b) /\ seen.log.hashes = b.log.hashes
         /\ HandledBy(s, seen, {})
         /\ \A t \in Sentants \ {s} : seen.log.handled[t] = b.log.handled[t]
<1>1. /\ b \in Pairs /\ b.bus \in BusRecords /\ b.log \in LogRecords
  BY PairInvFacts
<1>2. id \in EventIds /\ Processed(b) \subseteq Nat
  BY <1>1, LoadType DEF Processed, EventIds
<1>3. PICK handled \in [Sentants -> Seq(EventIds)] : handled = b.log.handled
  BY <1>1 DEF LogRecords
<1>4. PICK h \in Seq(EventIds), n \in Nat : h = handled[s] /\ n = Len(h)
  BY LenProperties
<1>5. PICK to \in Seq(EventIds) : /\ to = Append(h, id) /\ Len(to) = n + 1
                                  /\ to[n + 1] = id /\ \A i \in 1..n : to[i] = h[i]
  <2>1. PICK to : to = Append(h, id)
    OBVIOUS
  <2>2. /\ to \in Seq(EventIds) /\ Len(to) = Len(h) + 1
        /\ \A i \in 1..Len(h) : to[i] = h[i]
        /\ to[Len(h) + 1] = id
    BY <1>2, <2>1, AppendProperties
  <2> QED BY <1>4, <2>1, <2>2
<1>6. PICK all \in [Sentants -> Seq(EventIds)] : all = [handled EXCEPT ![s] = to]
  OBVIOUS
<1>7. seen.bus = b.bus /\ seen.log = [b.log EXCEPT !.handled = all]
      /\ seen = [bus |-> seen.bus, log |-> seen.log]
  <2>1. [b.log EXCEPT !.handled[s] = Append(@, id)]
          = [b.log EXCEPT !.handled = [handled EXCEPT ![s] = Append(handled[s], id)]]
    BY <1>1, <1>3 DEF LogRecords
  <2> QED BY <2>1, <1>4, <1>5, <1>6 DEF Seen
<1>8. /\ seen.log \in LogRecords
      /\ seen.log.hashes = b.log.hashes /\ seen.log.refused = b.log.refused
      /\ seen.log.lost = b.log.lost /\ seen.log.remote = b.log.remote
      /\ seen.log.shipped = b.log.shipped /\ seen.log.handled = all
      /\ seen.log.due = b.log.due
  BY <1>1, <1>7 DEF LogRecords
<1>9. QueueInOrder(seen) /\ Processed(seen) = Processed(b)
  <2>1. /\ seen.bus.queue = b.bus.queue /\ seen.log.hashes = b.log.hashes
        /\ seen.log.refused = b.log.refused /\ seen.log.lost = b.log.lost
    BY <1>7, <1>8
  <2>2. QueueInOrder(b)
    BY DEF PairInv
  <2> QED BY <2>1, <2>2, SameQueue
<1>10. PairInv(seen) /\ Load(seen) = Load(b)
  <2>1. seen \in Pairs
    BY <1>1, <1>7, <1>8 DEF Pairs
  <2>2. TimersKept(seen) /\ AllShipped(seen) /\ Load(seen) = Load(b)
    BY <1>7, <1>8 DEF PairInv, TimersKept, AllShipped, Load
  <2> QED BY <1>9, <2>1, <2>2 DEF PairInv
<1>11. all[s] = to /\ \A t \in Sentants \ {s} : all[t] = handled[t]
  BY <1>6
<1>12. /\ \A i, j \in 1..n : i < j => h[i] < h[j]
       /\ {h[i] : i \in 1..n}
            = {x \in Processed(b) : b.log.hashes[x] \in Subscriptions[s]} \ {id}
  BY <1>3, <1>4 DEF HandledBy
<1>13. \A i \in 1..n : h[i] < id
  <2> TAKE i \in 1..n
  <2>1. h[i] \in Processed(b) \ {id}
    BY <1>12
  <2> QED BY <1>2, <2>1 DEF EventIds
<1>17. \A i \in 1..(n + 1) : i = n + 1 \/ i \in 1..n
  OBVIOUS
<1>14. \A i, j \in 1..(n + 1) : i < j => to[i] < to[j]
  <2> TAKE i, j \in 1..(n + 1)
  <2> HAVE i < j
  <2>1. i \in 1..n
    OBVIOUS
  <2>2. CASE j = n + 1
    BY <1>5, <1>13, <2>1, <2>2
  <2>3. CASE j # n + 1
    <3>1. j \in 1..n
      BY <1>17, <2>3
    <3> QED BY <1>5, <1>12, <2>1, <3>1
  <2> QED BY <2>2, <2>3
<1>15. {to[i] : i \in 1..(n + 1)} = {x \in Processed(b) : b.log.hashes[x] \in Subscriptions[s]}
  <2>1. {to[i] : i \in 1..(n + 1)} = {h[i] : i \in 1..n} \cup {id}
    <3>1. n + 1 \in 1..(n + 1) /\ 1..n \subseteq 1..(n + 1)
      OBVIOUS
    <3> QED BY <1>5, <1>17, <3>1
  <2> QED BY <1>12, <2>1
<1>16. HandledBy(s, seen, {})
  <2>1. /\ seen.log.handled[s] = to /\ Len(to) = n + 1
        /\ Processed(seen) = Processed(b) /\ seen.log.hashes = b.log.hashes
    BY <1>5, <1>8, <1>9, <1>11
  <2>2. PICK X : X = {x \in Processed(b) : b.log.hashes[x] \in Subscriptions[s]}
    OBVIOUS
  <2>3. {x \in Processed(seen) : seen.log.hashes[x] \in Subscriptions[s]} = X
    BY <2>1, <2>2
  <2>4. X \ {} = X /\ {to[i] : i \in 1..(n + 1)} = X
    BY <1>15, <2>2
  <2>5. PICK l : l = n + 1
    OBVIOUS
  <2>6. /\ \A i, j \in 1..l : i < j => to[i] < to[j]
        /\ {to[i] : i \in 1..l} = X
    BY <1>14, <2>4, <2>5
  <2>7. Len(to) = l
    BY <2>1, <2>5
  <2>8. /\ \A i, j \in 1..Len(seen.log.handled[s]) :
             i < j => seen.log.handled[s][i] < seen.log.handled[s][j]
        /\ {seen.log.handled[s][i] : i \in 1..Len(seen.log.handled[s])} = X
    BY <2>1, <2>6, <2>7
  <2> QED BY <2>3, <2>4, <2>8 DEF HandledBy
<1> QED BY <1>3, <1>8, <1>9, <1>10, <1>11, <1>16

\* A subscriber handles the event, and what it asks for is done.
LEMMA DeliverKeeps == ASSUME Inv, Deliver PROVE Inv' /\ QueueGrows(Now, Now')
<1>1. PICK b : /\ b = Now /\ StateInv(inbound, b, loop) /\ PairInv(b) /\ b \in Pairs
               /\ b.bus = bus /\ b.log = log
  BY NowFacts
<1>2. /\ loop \in LoopRecords /\ loop.pc = "deliver" /\ loop.budget > 0
      /\ LoopInv(loop, b)
  BY <1>1 DEF StateInv, LoopInv, Deliver
<1>3. PICK event \in Events, id \in Nat, todo \in SUBSET Sentants :
        /\ event = loop.current /\ id = event.id /\ todo = loop.todo
        /\ todo # {} /\ todo \subseteq Subscribers(event)
        /\ id \in Processed(b) /\ b.log.hashes[id] = event.hash
        /\ \A x \in Processed(b) : x <= id
  <2>1. loop.current \in Events /\ loop.current.id \in Nat
    BY <1>2, LoopAssumption DEF LoopInv, Events
  <2>2. loop.todo \in SUBSET Sentants
    BY <1>2 DEF LoopRecords
  <2> QED BY <1>2, <2>1, <2>2 DEF LoopInv
<1>4. PICK s \in Sentants : s = Min(todo) /\ s \in todo
  BY <1>3, NextSubscriber
<1>5. PICK seen : seen = Seen(b, s, id)
  OBVIOUS
<1>6. PICK actions \in BoundedSeq(SendActions(s), MaxActions) :
        Room(Len(actions)) /\ Become(ProcessActions(seen, actions))
  BY <1>1, <1>3, <1>4, <1>5 DEF Deliver, Seen
<1>7. b.log.hashes[id] \in Subscriptions[s]
  BY <1>3, <1>4 DEF Subscribers
<1>8. /\ PairInv(seen) /\ Load(seen) = Load(b)
      /\ Processed(seen) = Processed(b) /\ seen.log.hashes = b.log.hashes
      /\ HandledBy(s, seen, {})
      /\ \A t \in Sentants \ {s} : seen.log.handled[t] = b.log.handled[t]
  <2>1. HandledBy(s, b, Waiting(loop, s))
    BY <1>1 DEF StateInv
  <2>2. Waiting(loop, s) = {id}
    BY <1>2, <1>3, <1>4 DEF Waiting
  <2>3. HandledBy(s, b, {id})
    BY <2>1, <2>2
  <2> QED BY <1>1, <1>3, <1>5, <1>7, <2>3, SeenFacts
<1>9. actions \in Seq(Actions)
  <2>1. SendActions(s) \subseteq Actions
    <3> SUFFICES ASSUME NEW a \in SendActions(s) PROVE a \in Actions
      OBVIOUS
    <3>1. /\ a = [source |-> a.source, delay |-> a.delay, target |-> a.target, hash |-> a.hash]
          /\ a.source = s /\ a.delay \in {0} \cup Delays
          /\ a.target \in Targets /\ a.hash \in Hashes
      BY DEF SendActions
    <3>2. a.delay \in Nat
      BY <3>1, LoopAssumption
    <3> QED BY <3>1, <3>2 DEF Actions
  <2>2. actions \in Seq(SendActions(s))
    BY LoopAssumption, BoundedSeqType
  <2> QED BY <2>1, <2>2, SeqMonotonic
<1>10. PICK channel \in Seq(Hashes) : channel = inbound /\ Len(channel) <= ChannelCap
  BY <1>1 DEF StateInv
<1>11. PICK n \in Nat, k \in Nat, x \in Nat, y \in Nat :
         /\ n = Len(channel) /\ k = Len(actions)
         /\ x = Len(b.log.hashes) /\ y = Len(b.bus.timers)
  BY <1>1, <1>9, LoadType, LenProperties
<1>12. Load(b) = x + y /\ x + n + y + k <= MaxEvents
  BY <1>1, <1>6, <1>10, <1>11 DEF Load, Room
<1>13. PICK c : c = ProcessActions(seen, actions)
  OBVIOUS
<1>14. PairInv(c) /\ Continues(seen, c) /\ Load(c) <= Load(seen) + k
  <2>1. Load(seen) + Len(actions) <= MaxEvents
    <3>1. (x + y) + k <= MaxEvents
      BY <1>12, LoopAssumption
    <3> QED BY <1>8, <1>11, <1>12, <3>1
  <2> QED BY <1>8, <1>9, <1>11, <1>13, <2>1, ProcessActionsFacts
<1>15. bus' = c.bus /\ log' = c.log /\ inbound' = channel
  BY <1>6, <1>10, <1>13 DEF Deliver, Become
<1>16. Now' = c
  BY <1>14, <1>15, PairInvFacts DEF Now
<1>17. Load(c) + Len(channel) <= MaxEvents
  <2>1. PICK z \in Nat : z = Load(c)
    BY <1>14, PairInvFacts, LoadType
  <2>2. z <= (x + y) + k
    BY <1>8, <1>12, <1>14, <2>1
  <2>3. z + n <= MaxEvents
    BY <1>12, <2>2, LoopAssumption
  <2> QED BY <1>11, <2>1, <2>3
<1>18. /\ loop' \in LoopRecords /\ loop'.budget = loop.budget /\ loop'.current = event
       /\ loop'.todo = todo \ {s}
       /\ loop'.pc = IF todo = {s} THEN "tick" ELSE "deliver"
  <2>1. loop' = [loop EXCEPT !.todo = todo \ {s},
                             !.pc = IF todo = {s} THEN "tick" ELSE "deliver"]
    BY <1>3, <1>4 DEF Deliver
  <2>2. PICK pc \in {"tick", "deliver"} : pc = IF todo = {s} THEN "tick" ELSE "deliver"
    OBVIOUS
  <2>3. PICK rest \in SUBSET Sentants : rest = todo \ {s}
    BY <1>3
  <2>4. loop' = [loop EXCEPT !.todo = rest, !.pc = pc]
    BY <2>1, <2>2, <2>3
  <2>5. /\ loop' \in LoopRecords /\ loop'.budget = loop.budget
        /\ loop'.current = loop.current /\ loop'.todo = rest /\ loop'.pc = pc
    BY <1>2, <2>4 DEF LoopRecords
  <2> QED BY <1>3, <2>2, <2>3, <2>5
<1>19. LoopInv(loop', c)
  <2>1. /\ Processed(c) = Processed(b)
        /\ \A i \in Processed(b) : c.log.hashes[i] = b.log.hashes[i]
    BY <1>8, <1>14, ProcessedAndHashes
  <2>2. todo # {s} => todo \ {s} # {} /\ todo \ {s} \subseteq Subscribers(event)
    BY <1>3
  <2> QED BY <1>2, <1>3, <1>18, <2>1, <2>2 DEF LoopInv
<1>20. ASSUME NEW t \in Sentants PROVE HandledBy(t, c, Waiting(loop', t))
  <2>1. CASE t = s
    <3>1. Waiting(loop', s) = {}
      BY <1>18 DEF Waiting
    <3>2. HandledBy(s, c, {})
      BY <1>8, <1>14, HandledStays
    <3> QED BY <2>1, <3>1, <3>2
  <2>2. CASE t # s
    <3>1. PICK waiting : waiting = Waiting(loop, t)
      OBVIOUS
    <3>2. Waiting(loop', t) = waiting
      BY <1>2, <1>3, <1>18, <2>2, <3>1 DEF Waiting
    <3>3. HandledBy(t, b, waiting)
      BY <1>1, <3>1 DEF StateInv
    <3>4. seen.log.handled[t] = b.log.handled[t]
      BY <1>8, <2>2
    <3>5. HandledBy(t, seen, waiting)
      BY <1>8, <3>3, <3>4 DEF HandledBy
    <3>6. HandledBy(t, c, waiting)
      BY <1>8, <1>14, <3>5, HandledStays
    <3> QED BY <3>2, <3>6
  <2> QED BY <2>1, <2>2
<1>21. StateInv(channel, c, loop')
  BY <1>10, <1>14, <1>17, <1>19, <1>20 DEF StateInv
<1>22. QueueGrows(b, c)
  BY <1>5, <1>14 DEF Seen, Held, Continues, QueueGrows
<1> QED BY <1>15, <1>16, <1>21, <1>22, <1>1 DEF Inv

\* TimerRegistry::advance: of a sentant's timers for a hash the one that is left, if any,
\* has what is left of its delay.
LEMMA AdvancedKeeps ==
  ASSUME NEW timers \in Seq(Timers), NEW due \in [Sentants -> [Hashes -> Nat]],
         NEW I \in SUBSET (1..Len(timers)),
         \A i \in 1..Len(timers) : i \in I <=> ~(timers[i].remaining <= TickMs),
         NEW kept, kept = ElementsAt(timers, I), NEW to, to = Advanced(kept),
         NEW s \in Sentants, NEW h \in Hashes, TimerKept(timers, due[s][h], s, h),
         NEW later, later = IF due[s][h] > TickMs THEN due[s][h] - TickMs ELSE 0
  PROVE  TimerKept(to, later, s, h)
<1>1. PICK n \in Nat : n = Len(timers) /\ DOMAIN timers = 1..n
  BY LenProperties
<1>2. PICK m \in 0..n : \E at \in [1..m -> I] :
        /\ kept = [k \in 1..m |-> timers[at[k]]]
        /\ \A j, k \in 1..m : j < k => at[j] < at[k]
        /\ \A i \in I : \E k \in 1..m : at[k] = i
  <2>1. TakesInOrder(kept, timers, I)
    BY ElementsAtFacts
  <2> QED BY <1>1, <2>1 DEF TakesInOrder
<1>3. PICK at \in [1..m -> I] :
        /\ kept = [k \in 1..m |-> timers[at[k]]]
        /\ \A j, k \in 1..m : j < k => at[j] < at[k]
        /\ \A i \in I : \E k \in 1..m : at[k] = i
  BY <1>2
<1>4. /\ m \in Nat /\ DOMAIN to = 1..m
      /\ \A k \in 1..m : to[k] = [timers[at[k]] EXCEPT !.remaining = @ - TickMs]
  BY <1>3 DEF Advanced
<1>5. \A k \in 1..m : at[k] \in I /\ at[k] \in 1..n /\ timers[at[k]] \in Timers
  BY <1>1, <1>3, ElementOfSeq
<1>6. \A k \in 1..m : /\ to[k].source = timers[at[k]].source
                      /\ to[k].hash = timers[at[k]].hash
                      /\ to[k].remaining = timers[at[k]].remaining - TickMs
  BY <1>4, <1>5 DEF Timers
<1>7. \A j, k \in 1..m : at[j] = at[k] => j = k
  <2> TAKE j, k \in 1..m
  <2>1. j < k \/ k < j \/ j = k
    OBVIOUS
  <2>2. at[j] \in Nat /\ at[k] \in Nat
    BY <1>1, <1>5
  <2>3. at[j] < at[k] => at[j] # at[k]
    BY <2>2
  <2>4. at[k] < at[j] => at[j] # at[k]
    BY <2>2
  <2> QED BY <1>3, <2>1, <2>3, <2>4
<1>8. PICK mine : mine = {i \in 1..n : timers[i].source = s /\ timers[i].hash = h}
  OBVIOUS
<1>9. PICK now : now = {k \in 1..m : to[k].source = s /\ to[k].hash = h}
  OBVIOUS
<1>10. now \subseteq 1..m /\ \A k \in 1..m : k \in now <=> at[k] \in mine
  BY <1>5, <1>6, <1>8, <1>9
<1>11. PICK d \in Nat : d = due[s][h]
  OBVIOUS
<1>12. IF d = 0 THEN mine = {} ELSE \E i \in 1..n : mine = {i} /\ timers[i].remaining = d
  BY <1>1, <1>8, <1>11 DEF TimerKept
<1>13. TickMs \in Nat
  BY LoopAssumption
<1>14. CASE d > TickMs
  <2>1. d # 0 /\ d - TickMs # 0 /\ later = d - TickMs
    BY <1>11, <1>13, <1>14
  <2>2. PICK i \in 1..n : mine = {i} /\ timers[i].remaining = d
    BY <1>12, <2>1
  <2>3. i \in I
    BY <1>1, <1>13, <1>14, <2>2
  <2>4. PICK k \in 1..m : at[k] = i
    BY <1>3, <2>3
  <2>5. now = {k}
    BY <1>7, <1>10, <2>2, <2>4
  <2>6. to[k].remaining = later
    BY <1>6, <2>1, <2>2, <2>4
  <2> QED BY <1>4, <1>9, <2>1, <2>5, <2>6 DEF TimerKept
<1>15. CASE ~(d > TickMs)
  <2>1. later = 0
    BY <1>11, <1>15
  <2>2. \A i \in mine : i \notin I
    <3> TAKE i \in mine
    <3>1. i \in 1..n /\ timers[i].remaining = d
      BY <1>12
    <3>2. d <= TickMs
      BY <1>13, <1>15
    <3> QED BY <1>1, <3>1, <3>2
  <2>3. now = {}
    BY <1>5, <1>10, <2>2
  <2> QED BY <1>4, <1>9, <2>1, <2>3 DEF TimerKept
<1> QED BY <1>14, <1>15

\* The timers that stay and the events of those that fire are as many as the timers.
LEMMA AdvanceFacts ==
  ASSUME NEW timers \in Seq(Timers), NEW I \in SUBSET (1..Len(timers)),
         NEW kept, kept = ElementsAt(timers, I), NEW to, to = Advanced(kept),
         \A i \in I : ~(timers[i].remaining <= TickMs),
         NEW fired, fired = ElementsAt(timers, DOMAIN timers \ I)
  PROVE  /\ to \in Seq(Timers) /\ FiredSends(fired) \in Seq(Actions)
         /\ Len(to) + Len(FiredSends(fired)) = Len(timers)
<1>1. PICK n \in Nat : n = Len(timers) /\ DOMAIN timers = 1..n
  BY LenProperties
<1>2. /\ kept \in Seq(Timers) /\ fired \in Seq(Timers)
      /\ Len(kept) + Len(fired) = n
  BY <1>1, ElementsAtSplits
<1>3. PICK m \in Nat, f \in Nat :
        /\ m = Len(kept) /\ DOMAIN kept = 1..m
        /\ f = Len(fired) /\ DOMAIN fired = 1..f
  BY <1>2, LenProperties
<1>4. \A k \in 1..m : kept[k] \in Timers /\ ~(kept[k].remaining <= TickMs)
  <2>1. PICK l \in 0..n : \E at \in [1..l -> I] :
          /\ kept = [k \in 1..l |-> timers[at[k]]]
          /\ \A j, k \in 1..l : j < k => at[j] < at[k]
          /\ \A i \in I : \E k \in 1..l : at[k] = i
    <3>1. TakesInOrder(kept, timers, I)
      BY ElementsAtFacts
    <3> QED BY <1>1, <3>1 DEF TakesInOrder
  <2>2. PICK at \in [1..l -> I] : kept = [k \in 1..l |-> timers[at[k]]]
    BY <2>1
  <2>3. 1..m = 1..l
    BY <1>3, <2>2
  <2> QED BY <1>2, <1>3, <2>2, <2>3, ElementOfSeq
<1>5. to \in Seq(Timers) /\ Len(to) = m
  <2>1. PICK g : g = [k \in 1..m |-> [kept[k] EXCEPT !.remaining = @ - TickMs]]
    OBVIOUS
  <2>2. ASSUME NEW k \in 1..m PROVE [kept[k] EXCEPT !.remaining = @ - TickMs] \in Timers
    <3>1. kept[k].remaining \in Nat /\ kept[k].remaining - TickMs \in Nat
      BY <1>4, LoopAssumption DEF Timers
    <3>2. PICK r \in Nat : r = kept[k].remaining - TickMs
      BY <3>1
    <3>3. [kept[k] EXCEPT !.remaining = r] \in Timers
      BY <1>4, <3>2 DEF Timers
    <3> QED BY <3>2, <3>3
  <2>3. g \in [1..m -> Timers]
    BY <2>1, <2>2
  <2>4. to = g
    BY <1>3, <2>1 DEF Advanced
  <2> QED BY <2>3, <2>4, FunctionIsSeq
<1>6. FiredSends(fired) \in Seq(Actions) /\ Len(FiredSends(fired)) = f
  <2>1. PICK g : g = [i \in 1..f |-> [source |-> fired[i].source, delay |-> 0,
                                      target |-> fired[i].target, hash |-> fired[i].hash]]
    OBVIOUS
  <2>2. ASSUME NEW i \in 1..f
        PROVE  [source |-> fired[i].source, delay |-> 0,
                target |-> fired[i].target, hash |-> fired[i].hash] \in Actions
    <3>1. fired[i] \in Timers
      BY <1>2, <1>3, ElementOfSeq
    <3> QED BY <3>1 DEF Timers, Actions
  <2>3. g \in [1..f -> Actions]
    BY <2>1, <2>2
  <2>4. FiredSends(fired) = g
    BY <1>3, <2>1 DEF FiredSends
  <2> QED BY <2>3, <2>4, FunctionIsSeq
<1> QED BY <1>1, <1>2, <1>3, <1>5, <1>6

\* Time passes: the timers that are due fire, in their order.
LEMMA AdvanceTimeKeeps == ASSUME Inv, AdvanceTime PROVE Inv' /\ QueueGrows(Now, Now')
<1>1. PICK b : /\ b = Now /\ StateInv(inbound, b, loop) /\ PairInv(b) /\ b \in Pairs
               /\ b.bus = bus /\ b.log = log
  BY NowFacts
<1>2. b.bus \in BusRecords /\ b.log \in LogRecords
  BY <1>1, PairInvFacts
<1>3. PICK timers \in Seq(Timers), due \in [Sentants -> [Hashes -> Nat]] :
        timers = b.bus.timers /\ due = b.log.due
  BY <1>2 DEF BusRecords, LogRecords
<1>4. PICK fires : fires = {i \in DOMAIN timers : timers[i].remaining <= TickMs}
  OBVIOUS
<1>5. PICK I \in SUBSET (1..Len(timers)) : I = DOMAIN timers \ fires
  BY LenProperties
<1>6. /\ fires = DOMAIN timers \ I
      /\ \A i \in 1..Len(timers) : i \in I <=> ~(timers[i].remaining <= TickMs)
  <2>1. DOMAIN timers = 1..Len(timers)
    BY LenProperties
  <2> QED BY <1>4, <1>5, <2>1
<1>7. PICK kept, fired : kept = ElementsAt(timers, I) /\ fired = ElementsAt(timers, fires)
  OBVIOUS
<1>8. PICK to, sends : to = Advanced(kept) /\ sends = FiredSends(fired)
  OBVIOUS
<1>9. /\ to \in Seq(Timers) /\ sends \in Seq(Actions)
      /\ Len(to) + Len(sends) = Len(timers)
  <2>1. fired = ElementsAt(timers, DOMAIN timers \ I)
    BY <1>6, <1>7
  <2>2. \A i \in I : ~(timers[i].remaining <= TickMs)
    BY <1>6
  <2>3. kept = ElementsAt(timers, I) /\ to = Advanced(kept)
    BY <1>7, <1>8
  <2>4. /\ to \in Seq(Timers) /\ FiredSends(fired) \in Seq(Actions)
        /\ Len(to) + Len(FiredSends(fired)) = Len(timers)
    BY <2>1, <2>2, <2>3, AdvanceFacts
  <2> QED BY <1>8, <2>4, Zenon
<1>10. PICK later : later = [s \in Sentants |-> [h \in Hashes |->
                               IF due[s][h] > TickMs THEN due[s][h] - TickMs ELSE 0]]
  OBVIOUS
<1>11. later \in [Sentants -> [Hashes -> Nat]]
  <2>1. ASSUME NEW s \in Sentants, NEW h \in Hashes
        PROVE  (IF due[s][h] > TickMs THEN due[s][h] - TickMs ELSE 0) \in Nat
    <3>1. PICK d \in Nat : d = due[s][h]
      OBVIOUS
    <3>2. (IF d > TickMs THEN d - TickMs ELSE 0) \in Nat
      BY LoopAssumption
    <3> QED BY <3>1, <3>2
  <2> QED BY <1>10, <2>1
<1>12. PICK base : base = [bus |-> [b.bus EXCEPT !.timers = to],
                           log |-> [b.log EXCEPT !.due = later]]
  OBVIOUS
<1>13. Become(ProcessActions(base, sends))
  <2>1. base = [bus |-> [bus EXCEPT !.timers = to],
                log |-> [log EXCEPT !.due =
                  [s \in Sentants |-> [h \in Hashes |->
                    IF @[s][h] > TickMs THEN @[s][h] - TickMs ELSE 0]]]]
    BY <1>1, <1>3, <1>10, <1>12
  <2>2. /\ fires = {i \in DOMAIN bus.timers : bus.timers[i].remaining <= TickMs}
        /\ kept = ElementsAt(bus.timers, DOMAIN bus.timers \ fires)
        /\ fired = ElementsAt(bus.timers, fires)
    BY <1>1, <1>3, <1>4, <1>5, <1>7
  <2> QED BY <1>8, <2>1, <2>2 DEF AdvanceTime
<1>14. /\ base.bus \in BusRecords /\ base.bus.queue = b.bus.queue
       /\ base.bus.timers = to /\ base.bus.outbound = b.bus.outbound
  BY <1>2, <1>9, <1>12 DEF BusRecords
<1>15. /\ base.log \in LogRecords
       /\ base.log.hashes = b.log.hashes /\ base.log.refused = b.log.refused
       /\ base.log.lost = b.log.lost /\ base.log.remote = b.log.remote
       /\ base.log.shipped = b.log.shipped /\ base.log.handled = b.log.handled
       /\ base.log.due = later
  BY <1>2, <1>11, <1>12 DEF LogRecords
<1>16. TimersKept(base)
  <2>1. ASSUME NEW s \in Sentants, NEW h \in Hashes
        PROVE  TimerKept(to, later[s][h], s, h)
    <3>1. TimerKept(timers, due[s][h], s, h)
      BY <1>1, <1>3 DEF PairInv, TimersKept
    <3>2. PICK l : l = IF due[s][h] > TickMs THEN due[s][h] - TickMs ELSE 0
      OBVIOUS
    <3>3. TimerKept(to, l, s, h)
      BY <1>6, <1>7, <1>8, <3>1, <3>2, AdvancedKeeps
    <3>4. later[s][h] = l
      BY <1>10, <3>2
    <3> QED BY <3>3, <3>4
  <2> QED BY <1>14, <1>15, <2>1 DEF TimersKept
<1>17. PairInv(base) /\ Processed(base) = Processed(b)
  <2>1. base \in Pairs
    BY <1>12, <1>14, <1>15 DEF Pairs
  <2>2. QueueInOrder(b) /\ AllShipped(b)
    BY <1>1 DEF PairInv
  <2>3. QueueInOrder(base) /\ Processed(base) = Processed(b)
    BY <1>14, <1>15, <2>2, SameQueue
  <2>4. AllShipped(base)
    BY <1>14, <1>15, <2>2 DEF AllShipped
  <2> QED BY <1>16, <2>1, <2>3, <2>4 DEF PairInv
<1>18. PICK channel \in Seq(Hashes) : channel = inbound /\ Len(channel) <= ChannelCap
  BY <1>1 DEF StateInv
<1>19. PICK n \in Nat, k \in Nat, x \in Nat, y \in Nat :
         /\ n = Len(channel) /\ k = Len(sends)
         /\ x = Len(b.log.hashes) /\ y = Len(to)
  BY <1>1, <1>9, LoadType, LenProperties
<1>20. Load(b) = x + (y + k) /\ Load(base) = x + y /\ (x + (y + k)) + n <= MaxEvents
  <2>1. Load(b) + Len(channel) <= MaxEvents
    BY <1>1, <1>18 DEF StateInv
  <2>2. Load(b) = x + (y + k)
    BY <1>3, <1>9, <1>19 DEF Load
  <2>3. Load(base) = x + y
    BY <1>14, <1>15, <1>19 DEF Load
  <2> QED BY <1>19, <2>1, <2>2, <2>3
<1>21. PICK c : c = ProcessActions(base, sends)
  OBVIOUS
<1>22. PairInv(c) /\ Continues(base, c) /\ Load(c) <= Load(base) + k
  <2>1. Load(base) + Len(sends) <= MaxEvents
    <3>1. (x + y) + k <= MaxEvents
      BY <1>20, LoopAssumption
    <3> QED BY <1>19, <1>20, <3>1
  <2> QED BY <1>9, <1>17, <1>19, <1>21, <2>1, ProcessActionsFacts
<1>23. bus' = c.bus /\ log' = c.log /\ inbound' = channel
  BY <1>13, <1>18, <1>21 DEF AdvanceTime, Become
<1>24. Now' = c
  BY <1>22, <1>23, PairInvFacts DEF Now
<1>25. loop \in LoopRecords /\ loop.pc = "time"
  BY <1>1 DEF StateInv, LoopInv, AdvanceTime
<1>26. loop' \in LoopRecords /\ loop'.pc = "outbound"
  BY <1>25 DEF LoopRecords, AdvanceTime, Goto
<1>27. Load(c) + Len(channel) <= MaxEvents
  <2>1. PICK z \in Nat : z = Load(c)
    BY <1>22, PairInvFacts, LoadType
  <2>2. z <= (x + y) + k
    BY <1>20, <1>22, <2>1
  <2>3. z + n <= MaxEvents
    BY <1>20, <2>2, LoopAssumption
  <2> QED BY <1>19, <2>1, <2>3
<1>28. LoopInv(loop', c)
  BY <1>26 DEF LoopInv
<1>29. ASSUME NEW s \in Sentants PROVE HandledBy(s, c, Waiting(loop', s))
  <2>1. HandledBy(s, b, Waiting(loop, s))
    BY <1>1 DEF StateInv
  <2>2. Waiting(loop, s) = {} /\ Waiting(loop', s) = {}
    BY <1>25, <1>26 DEF Waiting
  <2>3. HandledBy(s, b, {})
    BY <2>1, <2>2
  <2>4. HandledBy(s, base, {})
    BY <1>15, <1>17, <2>3 DEF HandledBy
  <2>5. HandledBy(s, c, {})
    BY <1>17, <1>22, <2>4, HandledStays
  <2> QED BY <2>2, <2>5
<1>30. StateInv(channel, c, loop')
  BY <1>18, <1>22, <1>27, <1>28, <1>29 DEF StateInv
<1>31. QueueGrows(b, c)
  BY <1>14, <1>22 DEF Held, Continues, QueueGrows
<1> QED BY <1>23, <1>24, <1>30, <1>31, <1>1 DEF Inv

LEMMA NextInv == Inv /\ [Next]_vars => Inv'
<1> SUFFICES ASSUME Inv, [Next]_vars PROVE Inv'
  OBVIOUS
<1>1. CASE Next
  BY <1>1, SubmitKeeps, DrainKeeps, DrainDoneKeeps, TickPopKeeps, TickDoneKeeps, DeliverKeeps,
     PollPluginsKeeps, AdvanceTimeKeeps, DrainOutboundKeeps DEF Next
<1>2. CASE UNCHANGED vars
  BY <1>2 DEF vars, Inv, Now
<1> QED BY <1>1, <1>2

\* The invariant of the bus and the loop, whatever the sentants do.
THEOREM EventBusInv == Spec => []Inv
<1>1. Init => Inv
  BY InitInv
<1>2. Inv /\ [Next]_vars => Inv'
  BY NextInv
<1> QED BY <1>1, <1>2, PTL DEF Spec

-----------------------------------------------------------------------------
(* The properties. *)

LEMMA InvFacts ==
  ASSUME Inv
  PROVE  /\ bus \in BusRecords /\ log \in LogRecords
         /\ QueueInOrder(Now) /\ TimersKept(Now) /\ AllShipped(Now)
         /\ Now.bus = bus /\ Now.log = log /\ Held(Now) = Contents(bus.queue)
<1>1. PICK b : /\ b = Now /\ StateInv(inbound, b, loop) /\ PairInv(b) /\ b \in Pairs
               /\ b.bus = bus /\ b.log = log
  BY NowFacts
<1>2. Held(b) = Contents(bus.queue)
  BY <1>1 DEF Held
<1> QED BY <1>1, <1>2, PairInvFacts DEF PairInv

LEMMA InvTypeOK == Inv => TypeOK
<1> SUFFICES ASSUME Inv PROVE TypeOK
  OBVIOUS
<1>1. bus.queue \in Rings(Events) /\ bus.timers \in Seq(Timers) /\ bus.outbound \in Seq(Events)
  BY InvFacts DEF BusRecords
<1>2. bus.queue \in [events : [Indices -> Events \cup {NoEvent}],
                     head : Indices, tail : Indices, count : 0..Capacity]
  BY <1>1 DEF Rings, RingRecords
<1>3. /\ inbound \in Seq(Hashes) /\ Len(inbound) <= ChannelCap /\ loop \in LoopRecords
      /\ loop.pc = "deliver" => loop.current \in Events /\ loop.todo # {}
  BY DEF Inv, StateInv, LoopInv
<1>4. /\ loop.pc \in {"drain", "tick", "deliver", "poll", "time", "outbound"}
      /\ loop.drained \in 0..DrainLimit /\ loop.budget \in 0..Budget
      /\ loop.todo \in SUBSET Sentants
  BY <1>3 DEF LoopRecords
<1>5. loop.pc = "deliver" => loop.current \in Events /\ loop.todo \in (SUBSET Sentants) \ {{}}
  BY <1>3, <1>4
<1>6. inbound \in Seq(Hashes) /\ Len(inbound) <= ChannelCap
  BY <1>3
<1> QED BY <1>1, <1>2, <1>4, <1>5, <1>6 DEF TypeOK

\* The state of the bus, the loop and the channel has the shape the code gives it.
THEOREM EventBusTypeOK == Spec => []TypeOK
  BY EventBusInv, InvTypeOK, PTL

LEMMA InvHandled == Inv => HandledOnceInOrder
<1> SUFFICES ASSUME Inv, NEW s \in Sentants
    PROVE  LET handled == log.handled[s]
               delivering == loop.pc = "deliver" /\ s \in loop.todo
           IN /\ \A i, j \in DOMAIN handled : i < j => handled[i] < handled[j]
              /\ {handled[i] : i \in DOMAIN handled} =
                   {id \in DOMAIN log.hashes :
                      /\ log.hashes[id] \in Subscriptions[s]
                      /\ id \notin log.refused \cup log.lost \cup Ids(Contents(bus.queue))
                      /\ ~(delivering /\ id = loop.current.id)}
  BY DEF HandledOnceInOrder
<1>1. PICK b : /\ b = Now /\ StateInv(inbound, b, loop) /\ PairInv(b) /\ b \in Pairs
               /\ b.bus = bus /\ b.log = log
  BY NowFacts
<1>2. PICK handled \in Seq(EventIds) : handled = log.handled[s] /\ DOMAIN handled = 1..Len(handled)
  <2>1. log.handled[s] \in Seq(EventIds)
    BY InvFacts DEF LogRecords
  <2> QED BY <2>1, LenProperties
<1>3. /\ \A i, j \in 1..Len(handled) : i < j => handled[i] < handled[j]
      /\ {handled[i] : i \in 1..Len(handled)} =
           {id \in Processed(b) : log.hashes[id] \in Subscriptions[s]} \ Waiting(loop, s)
  BY <1>1, <1>2 DEF StateInv, HandledBy
<1>4. PICK C \in Seq(Events) : C = Contents(bus.queue) /\ C = Held(b) /\ DOMAIN C = 1..Len(C)
  <2>1. Held(b) = Contents(bus.queue)
    BY <1>1 DEF Held
  <2> QED BY <1>1, <2>1, PairInvFacts, LenProperties
<1>5. DOMAIN log.hashes = 1..Len(log.hashes)
  <2>1. log.hashes \in Seq(Hashes)
    BY InvFacts DEF LogRecords
  <2> QED BY <2>1, LenProperties
<1>6. \A id : id \in Processed(b) <=>
        id \in DOMAIN log.hashes /\ id \notin log.refused \cup log.lost \cup Ids(Contents(bus.queue))
  <2>1. Processed(b) = {id \in DOMAIN log.hashes :
          id \notin log.refused \cup log.lost /\ \A i \in 1..Len(C) : C[i].id # id}
    BY <1>1, <1>4, <1>5 DEF Processed, Missed
  <2>2. Ids(Contents(bus.queue)) = {C[i].id : i \in 1..Len(C)}
    BY <1>4 DEF Ids
  <2> QED BY <2>1, <2>2
<1>7. Waiting(loop, s) = IF loop.pc = "deliver" /\ s \in loop.todo THEN {loop.current.id} ELSE {}
  BY DEF Waiting
<1>8. {id \in Processed(b) : log.hashes[id] \in Subscriptions[s]} \ Waiting(loop, s) =
        {id \in DOMAIN log.hashes :
           /\ log.hashes[id] \in Subscriptions[s]
           /\ id \notin log.refused \cup log.lost \cup Ids(Contents(bus.queue))
           /\ ~(loop.pc = "deliver" /\ s \in loop.todo /\ id = loop.current.id)}
  BY <1>6, <1>7
<1>9. /\ \A i, j \in DOMAIN handled : i < j => handled[i] < handled[j]
      /\ {handled[i] : i \in DOMAIN handled} =
           {id \in Processed(b) : log.hashes[id] \in Subscriptions[s]} \ Waiting(loop, s)
  BY <1>2, <1>3
<1> QED BY <1>2, <1>8, <1>9

\* Every sentant handles the events of its subscriptions that were sent, accepted and
\* not cut short, each once and in the order they were sent, however many there are.
THEOREM EventsAreHandledOnceInOrder == Spec => []HandledOnceInOrder
  BY EventBusInv, InvHandled, PTL

LEMMA InvTimers == Inv => TimersKeepLastRequest
<1> SUFFICES ASSUME Inv PROVE TimersKeepLastRequest
  OBVIOUS
<1>1. \A s \in Sentants, h \in Hashes : TimerKept(bus.timers, log.due[s][h], s, h)
  BY InvFacts DEF TimersKept
<1> QED BY <1>1 DEF TimerKept, TimersKeepLastRequest

\* A timer that is replaced never fires; the one that stays is never late.
THEOREM TimersFollowTheLastRequest == Spec => []TimersKeepLastRequest
  BY EventBusInv, InvTimers, PTL

LEMMA InvShipped == Inv => RemoteSendsAreShipped
<1> SUFFICES ASSUME Inv PROVE RemoteSendsAreShipped
  OBVIOUS
<1>1. PICK remote \in Seq(EventIds), shipped \in Seq(EventIds), outbound \in Seq(Events) :
        /\ remote = log.remote /\ shipped = log.shipped /\ outbound = bus.outbound
        /\ AllShippedOf(remote, shipped, outbound)
  BY InvFacts DEF AllShipped, BusRecords, LogRecords
<1>2. PICK k \in Nat, m \in Nat : k = Len(outbound) /\ DOMAIN outbound = 1..k /\ m = Len(shipped)
  BY LenProperties
<1>3. PICK ids \in Seq(EventIds) :
        /\ ids = [i \in DOMAIN outbound |-> outbound[i].id] /\ Len(ids) = k
        /\ \A i \in 1..k : ids[i] = outbound[i].id
  BY <1>2, OutboundIds
<1>4. /\ Len(remote) = m + k
      /\ \A i \in 1..m : remote[i] = shipped[i]
      /\ \A i \in 1..k : remote[m + i] = ids[i]
  BY <1>1, <1>2, <1>3 DEF AllShippedOf
<1>5. PICK all \in Seq(EventIds) :
        /\ all = shipped \o ids /\ Len(all) = m + k
        /\ \A i \in 1..(m + k) : all[i] = IF i <= m THEN shipped[i] ELSE ids[i - m]
  <2>1. Len(shipped) + Len(ids) = m + k
    BY <1>2, <1>3
  <2>2. PICK f : f = shipped \o ids
    OBVIOUS
  <2>3. /\ f \in Seq(EventIds) /\ Len(f) = Len(shipped) + Len(ids)
        /\ \A i \in 1..(Len(shipped) + Len(ids)) :
             f[i] = IF i <= Len(shipped) THEN shipped[i] ELSE ids[i - Len(shipped)]
    BY <2>2, ConcatProperties
  <2> QED BY <1>2, <2>1, <2>2, <2>3
<1>6. ASSUME NEW i \in 1..(m + k) PROVE remote[i] = all[i]
  <2>1. CASE i <= m
    BY <1>4, <1>5, <2>1
  <2>2. CASE ~(i <= m)
    <3>1. PICK j \in 1..k : j = i - m /\ m + j = i
      BY <2>2
    <3> QED BY <1>4, <1>5, <2>2, <3>1
  <2> QED BY <2>1, <2>2
<1>7. remote = all
  BY <1>4, <1>5, <1>6, SeqEqual
<1> QED BY <1>1, <1>3, <1>5, <1>7 DEF RemoteSendsAreShipped

\* The transport is handed every event sent to a remote target, once and in order.
THEOREM EveryRemoteSendIsShipped == Spec => []RemoteSendsAreShipped
  BY EventBusInv, InvShipped, PTL

-----------------------------------------------------------------------------
(* The ring buffer under the loop implements the bounded FIFO queue. *)

LEMMA PutOrStutter ==
  ASSUME NEW old \in Seq(Events), NEW new \in Seq(Events), Len(new) <= Capacity,
         Len(old) <= Len(new), \A i \in 1..Len(old) : new[i] = old[i]
  PROVE  Len(new) \in Len(old)..Capacity /\ SubSeq(new, 1, Len(old)) = old
<1>1. PICK n \in Nat, m \in Nat : n = Len(old) /\ m = Len(new)
  BY LenProperties
<1>2. n <= m /\ m <= Capacity
  BY <1>1
<1>3. PICK part : part = SubSeq(new, 1, n)
  OBVIOUS
<1>4. part \in Seq(Events) /\ Len(part) = n /\ \A i \in 1..n : part[i] = new[i]
  <2>1. n = 0 \/ n \in 1..m
    BY <1>2
  <2>2. \A i \in 1..n : new[i] \in Events
    BY <1>1, <1>2
  <2>3. part = [i \in 1..n |-> new[i]]
    BY <1>3
  <2> QED BY <2>2, <2>3, FunctionIsSeq
<1>5. part = old
  BY <1>1, <1>4, SeqEqual
<1>6. m \in n..Capacity
  BY <1>2, CapacityAssumption
<1> QED BY <1>1, <1>3, <1>5, <1>6

LEMMA HeldFits ==
  ASSUME NEW b, PairInv(b) PROVE Held(b) \in Seq(Events) /\ Len(Held(b)) <= Capacity
<1>1. PICK q \in RingRecords(Events) : q = b.bus.queue
  BY PairInvFacts DEF BusRecords, Rings
<1>2. Held(b) = Contents(q) /\ Held(b) \in Seq(Events)
  BY <1>1, PairInvFacts DEF Held
<1>3. Len(Contents(q)) = q.count /\ q.count \in 0..Capacity
  BY ContentsFacts, RingFacts
<1> QED BY <1>2, <1>3, CapacityAssumption

\* What is sent goes in at the end.
LEMMA GrowingIsPut == ASSUME Inv, Inv', QueueGrows(Now, Now') PROVE Fifo!Put
<1>1. PICK b, c : b = Now /\ c = Now'
  OBVIOUS
<1>2. PairInv(b) /\ PairInv(c) /\ QueueGrows(b, c)
  BY <1>1 DEF Inv, StateInv
<1>3. Held(b) = Contents(bus.queue) /\ Held(c) = Contents(bus'.queue)
  BY <1>1 DEF Held, Now
<1>4. PICK old \in Seq(Events), new \in Seq(Events) :
        old = Held(b) /\ new = Held(c) /\ Len(new) <= Capacity
  BY <1>2, HeldFits
<1>5. Len(old) <= Len(new) /\ \A i \in 1..Len(old) : new[i] = old[i]
  BY <1>2, <1>4 DEF QueueGrows
<1>6. Len(new) \in Len(old)..Capacity /\ SubSeq(new, 1, Len(old)) = old
  BY <1>4, <1>5, PutOrStutter
<1> QED BY <1>3, <1>4, <1>6 DEF Fifo!Put

\* The tick takes the oldest.
LEMMA TickPopIsTake == ASSUME Inv, TickPop PROVE Fifo!Take
<1>1. bus.queue \in Rings(Events)
  BY InvFacts DEF BusRecords
<1>2. bus.queue.count > 0 /\ bus'.queue = Pop(bus.queue)
  <2>1. bus \in BusRecords /\ bus' = [bus EXCEPT !.queue = Pop(@)]
    BY InvFacts DEF TickPop
  <2> QED BY <2>1 DEF TickPop, BusRecords
<1>3. Contents(bus.queue) # << >> /\ Contents(Pop(bus.queue)) = Tail(Contents(bus.queue))
  BY <1>1, <1>2, PopTakesTheOldest
<1> QED BY <1>2, <1>3 DEF Fifo!Take

LEMMA QueueStep ==
  ASSUME Inv, [Next]_vars PROVE [Fifo!Put \/ Fifo!Take]_(Contents(bus.queue))
<1>1. Inv'
  BY NextInv
<1>2. ASSUME bus'.queue = bus.queue PROVE UNCHANGED Contents(bus.queue)
  BY <1>2
<1>3. CASE UNCHANGED vars
  BY <1>2, <1>3 DEF vars
<1>4. CASE \E hash \in Hashes : Submit(hash)
  BY <1>2, <1>4 DEF Submit
<1>5. CASE DrainDone \/ TickDone
  BY <1>2, <1>5 DEF DrainDone, TickDone
<1>6. CASE DrainOutbound
  <2>1. bus \in BusRecords /\ bus' = [bus EXCEPT !.outbound = << >>]
    BY <1>6, InvFacts DEF DrainOutbound
  <2>2. bus'.queue = bus.queue
    BY <2>1 DEF BusRecords
  <2> QED BY <1>2, <2>2
<1>7. CASE TickPop
  BY <1>7, TickPopIsTake
<1>8. CASE Drain \/ Deliver \/ PollPlugins \/ AdvanceTime
  <2>1. QueueGrows(Now, Now')
    BY <1>8, DrainKeeps, DeliverKeeps, PollPluginsKeeps, AdvanceTimeKeeps
  <2> QED BY <1>1, <2>1, GrowingIsPut
<1> QED BY <1>3, <1>4, <1>5, <1>6, <1>7, <1>8 DEF Next

\* The ring buffer, used as the loop uses it, is a bounded FIFO queue.
THEOREM TheQueueIsFifo == Spec => QueueIsFifo
<1>1. Init => Fifo!Init
  BY EmptyIsEmpty DEF Init, Fifo!Init
<1>2. Inv /\ [Next]_vars => [Fifo!Put \/ Fifo!Take]_(Contents(bus.queue))
  BY QueueStep
<1> QED BY <1>1, <1>2, EventBusInv, PTL DEF Spec, QueueIsFifo, Fifo!Spec
=============================================================================
