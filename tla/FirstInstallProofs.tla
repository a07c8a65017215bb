------------------------- MODULE FirstInstallProofs -------------------------
(***************************************************************************)
(* Proofs about FirstInstall, for any slots, any number of starts and any  *)
(* number of lines.  The inductive invariant follows a start request: it   *)
(* waits in the bus, or it has a session the plugin listens to, or its     *)
(* outcome is at the head of the bus, or it has been answered or dropped;  *)
(* never two of these.                                                     *)
(***************************************************************************)
EXTENDS FirstInstall, TLAPS

USE FirstInstallAssumption

-----------------------------------------------------------------------------
(* What a queue holds. *)

In(q) == {q[k] : k \in DOMAIN q}

\* Nothing is in the empty queue.
LEMMA InEmpty == In(<< >>) = {}
  BY DEF In

\* Appending an event adds that event, at the end.
LEMMA InAppend ==
  ASSUME NEW S, NEW q \in Seq(S), NEW e \in S
  PROVE  /\ Append(q, e) \in Seq(S)
         /\ In(Append(q, e)) = In(q) \cup {e}
         /\ DOMAIN q = 1..Len(q) /\ Len(q) \in Nat
         /\ DOMAIN Append(q, e) = 1..(Len(q) + 1)
         /\ Append(q, e)[Len(q) + 1] = e
         /\ \A k \in 1..Len(q) : Append(q, e)[k] = q[k]
<1>1. /\ Append(q, e) \in Seq(S)
      /\ DOMAIN q = 1..Len(q) /\ Len(q) \in Nat
      /\ DOMAIN Append(q, e) = 1..(Len(q) + 1)
      /\ Append(q, e)[Len(q) + 1] = e
      /\ \A k \in 1..Len(q) : Append(q, e)[k] = q[k]
  OBVIOUS
<1>2. \A k \in 1..(Len(q) + 1) : k \in 1..Len(q) \/ k = Len(q) + 1
  BY <1>1
<1>3. 1..Len(q) \subseteq 1..(Len(q) + 1) /\ Len(q) + 1 \in 1..(Len(q) + 1)
  BY <1>1
<1> QED BY <1>1, <1>2, <1>3 DEF In

\* A queue that is not empty holds its head and what is left without it.
LEMMA InTail ==
  ASSUME NEW S, NEW q \in Seq(S), q # << >>
  PROVE  /\ Head(q) \in S /\ Head(q) \in In(q)
         /\ Tail(q) \in Seq(S) /\ In(Tail(q)) \subseteq In(q)
         /\ DOMAIN q = 1..Len(q) /\ Len(q) \in Nat \ {0}
         /\ Head(q) = q[1] /\ 1 \in DOMAIN q
         /\ \A k \in DOMAIN Tail(q) :
              k \in Nat \ {0} /\ k + 1 \in DOMAIN q /\ Tail(q)[k] = q[k + 1]
<1>1. /\ Head(q) \in S /\ Tail(q) \in Seq(S)
      /\ DOMAIN q = 1..Len(q) /\ Len(q) \in Nat \ {0}
      /\ Head(q) = q[1]
      /\ DOMAIN Tail(q) = 1..(Len(q) - 1)
      /\ \A k \in 1..(Len(q) - 1) : Tail(q)[k] = q[k + 1]
  OBVIOUS
<1>2. /\ 1 \in DOMAIN q
      /\ \A k \in DOMAIN Tail(q) :
           k \in Nat \ {0} /\ k + 1 \in DOMAIN q /\ Tail(q)[k] = q[k + 1]
  BY <1>1
<1> QED BY <1>1, <1>2 DEF In

-----------------------------------------------------------------------------
(* Type correctness. *)

\* The type of `session`.
Sessions ==
  [slot_id : Slots \cup {None},
   child : {"none", "running", "succeeded", "failed", "flashed", "gone"},
   reader : {"none", "reading", "ended"}, lines : 0..MaxLines]

\* A session that reads or runs is for a slot.
SessionsHaveSlots ==
  \A i \in Requests :
    session[i].slot_id = None => session[i].child = "none" /\ session[i].reader = "none"

TypeInv == TypeOK /\ SessionsHaveSlots

\* The initial states have the types.
LEMMA InitTypeInv == Init => TypeInv
<1> SUFFICES ASSUME Init PROVE TypeInv
  OBVIOUS
<1>1. NoSession \in Sessions
  BY DEF NoSession, Sessions
<1>2. /\ bus \in Seq(Events) /\ channel \in Seq(Events) /\ answers \in Seq(Events)
      /\ asked \in Seq(Slots) /\ Len(asked) = 0
  BY DEF Init
<1> QED BY <1>1, <1>2 DEF Init, TypeInv, TypeOK, SessionsHaveSlots, NoSession, Sessions

\* Broadcasting an event again makes an event like it that is not the plugin's.
LEMMA AgainType ==
  ASSUME NEW e \in Events
  PROVE  /\ Again(e) \in Events /\ ~Again(e).plugin
         /\ Again(e).type = e.type /\ Again(e).id = e.id /\ Again(e).slot_id = e.slot_id
  BY DEF Again, Events

\* A report is an event of the plugin about the session it comes from.
LEMMA ReportType ==
  ASSUME TypeOK, NEW i \in Requests, session[i].slot_id # None,
         NEW type \in {"progress", "done", "error"}
  PROVE  LET e == Event(type, TRUE, ParamsOf(i)) IN
         /\ e \in Events /\ e.plugin /\ e.type = type
         /\ e.id = i /\ e.slot_id = session[i].slot_id
  BY DEF TypeOK, Events, Event, ParamsOf

\* The request that is handled is that of the head of the bus.
LEMMA RequestType ==
  ASSUME TypeOK, bus # << >>
  PROVE  /\ Request \in Params
         /\ Request.id = Head(bus).id /\ Request.slot_id = Head(bus).slot_id
         /\ LET e == Event("error", FALSE, Request) IN
            /\ e \in Events /\ ~e.plugin /\ e.type = "error"
            /\ e.id = Head(bus).id /\ e.slot_id = Head(bus).slot_id
<1>1. Head(bus) \in Events
  BY InTail DEF TypeOK
<1> QED BY <1>1 DEF Request, Params, Events, Event

\* Every step keeps the types.
LEMMA NextTypeInv == TypeInv /\ [Next]_vars => TypeInv'
<1> SUFFICES ASSUME TypeInv, [Next]_vars PROVE TypeInv'
  OBVIOUS
<1> USE DEF TypeInv
<1>1. ASSUME NEW s \in Slots, RequestStart(s) PROVE TypeInv'
  <2> DEFINE e == Event("start", TRUE, [slot_id |-> s, id |-> Len(asked) + 1])
  <2>1. Len(asked) \in Nat /\ Len(asked) + 1 \in Requests
    BY <1>1 DEF RequestStart, TypeOK, Requests
  <2>2. e \in Events
    BY <2>1 DEF Events, Event
  <2>3. asked' \in Seq(Slots) /\ Len(asked') = Len(asked) + 1
    BY <1>1 DEF RequestStart, TypeOK
  <2>4. bus' \in Seq(Events)
    <3> HIDE DEF e
    <3>1. bus' = Append(bus, e)
      BY <1>1 DEF RequestStart, e
    <3> QED BY <3>1, <2>2 DEF TypeOK
  <2>5. Len(asked') <= MaxStarts
    BY <2>1, <2>3 DEF Requests
  <2> QED BY <1>1, <2>3, <2>4, <2>5
         DEF RequestStart, TypeOK, SessionsHaveSlots, threads
<1>2. CASE DrainDone
  BY <1>2 DEF DrainDone, TypeOK, SessionsHaveSlots, threads
<1>3. CASE TickDone
  BY <1>3 DEF TickDone, TypeOK, SessionsHaveSlots, threads
<1>4. CASE Poll
  <2>1. bus' \in Seq(Events) /\ channel' \in Seq(Events)
    <3>1. CASE channel = << >>
      BY <1>4, <3>1 DEF Poll, TypeOK
    <3>2. CASE channel # << >>
      <4>1. Head(channel) \in Events /\ Tail(channel) \in Seq(Events) /\ << >> \in Seq(Events)
        BY <3>2, InTail DEF TypeOK
      <4>2. bus' = Append(bus, Head(channel)) /\ channel' \in {Tail(channel), << >>}
        BY <1>4, <3>2 DEF Poll
      <4> QED BY <4>1, <4>2, InAppend DEF TypeOK
    <3> QED BY <3>1, <3>2
  <2>2. rx' \in {rx, None}
    BY <1>4 DEF Poll
  <2> QED BY <1>4, <2>1, <2>2 DEF Poll, TypeOK, SessionsHaveSlots
<1>5. CASE Starting
  <2>1. bus # << >> /\ hive' = hive /\ asked' = asked
    BY <1>5 DEF Starting, RefuseStart, StartWhenBusy, SpawnFails, Spawn, Handling
  <2>2. /\ Tail(bus) \in Seq(Events)
        /\ Request \in Params /\ Event("error", FALSE, Request) \in Events
    BY <2>1, RequestType, InTail DEF TypeOK
  <2>3. CASE RefuseStart
    <3>1. bus' \in Seq(Events) /\ answers' \in Seq(Events)
      BY <2>3, <2>2, InAppend DEF RefuseStart, TypeOK
    <3> QED BY <2>3, <2>1, <3>1 DEF RefuseStart, TypeOK, SessionsHaveSlots, threads
  <2>4. CASE StartWhenBusy
    BY <2>4, <2>1, <2>2 DEF StartWhenBusy, TypeOK, SessionsHaveSlots, threads
  <2>5. CASE SpawnFails
    BY <2>5, <2>1, <2>2 DEF SpawnFails, TypeOK, SessionsHaveSlots, threads
  <2>6. CASE Spawn
    <3> DEFINE new == [slot_id |-> Request.slot_id, child |-> "running",
                       reader |-> "reading", lines |-> 0]
    <3>1. new \in Sessions /\ new.slot_id # None /\ Request.id \in Requests
      BY <2>2 DEF Params, Sessions
    <3>2. session' = [session EXCEPT ![Request.id] = new] /\ rx' = Request.id
      BY <2>6 DEF Spawn
    <3> HIDE DEF new
    <3>3. session \in [Requests -> Sessions]
      BY DEF TypeOK, Sessions
    <3>4. session' \in [Requests -> Sessions]
      BY <3>1, <3>2, <3>3
    <3>5. SessionsHaveSlots'
      BY <3>1, <3>2, <3>3 DEF SessionsHaveSlots
    <3>6. channel' \in Seq(Events)
      BY <2>6 DEF Spawn
    <3> QED BY <2>6, <2>1, <2>2, <3>1, <3>2, <3>4, <3>5, <3>6 DEF Spawn, TypeOK, Sessions
  <2> QED BY <1>5, <2>3, <2>4, <2>5, <2>6 DEF Starting
<1>6. CASE HandleProgress \/ HandleError \/ HandleDone
  <2>1. bus # << >> /\ hive' = hive /\ asked' = asked /\ UNCHANGED <<cell, rx, threads>>
    BY <1>6 DEF HandleProgress, HandleError, HandleDone, Handling
  <2>2. Tail(bus) \in Seq(Events) /\ Head(bus) \in Events /\ Again(Head(bus)) \in Events
    BY <2>1, InTail, AgainType DEF TypeOK
  <2>3. bus' \in Seq(Events)
    <3>1. bus' \in {Tail(bus), Append(Tail(bus), Again(Head(bus)))}
      BY <1>6 DEF HandleProgress, HandleError, HandleDone
    <3>2. Append(Tail(bus), Again(Head(bus))) \in Seq(Events)
      BY <2>2, InAppend
    <3> QED BY <2>2, <3>1, <3>2
  <2>4. answers' \in Seq(Events) /\ deploy' \in {"idle", "flashing"}
    <3>1. answers' \in {answers, Append(answers, Again(Head(bus)))}
      BY <1>6 DEF HandleProgress, HandleError, HandleDone
    <3>2. deploy' \in {deploy, "idle"}
      BY <1>6 DEF HandleProgress, HandleError, HandleDone
    <3>3. answers \in Seq(Events) /\ \A e \in Events : Append(answers, e) \in Seq(Events)
      BY DEF TypeOK
    <3>4. deploy \in {"idle", "flashing"}
      BY DEF TypeOK
    <3>5. answers' \in Seq(Events)
      BY <3>1, <3>3, <2>2
    <3> QED BY <3>2, <3>4, <3>5
  <2>5. roster' \in [Slots -> {"placeholder", "flashed_pending_pk"}]
    <3>1. Head(bus).slot_id \in Slots
      BY <2>2 DEF Events
    <3> QED BY <1>6, <3>1 DEF HandleProgress, HandleError, HandleDone, TypeOK
  <2> QED BY <2>1, <2>3, <2>4, <2>5 DEF TypeOK, SessionsHaveSlots, threads
<1>7. ASSUME NEW i \in Requests, Threads(i) PROVE TypeInv'
  <2>1. session[i] \in Sessions /\ session[i].slot_id # None
    BY <1>7 DEF Threads, ReadLine, ReadFails, ReadEnds, ChildExits, WaitReports, TypeOK,
              SessionsHaveSlots, Sessions
  <2>2. UNCHANGED idle
    BY <1>7 DEF Threads, ReadLine, ReadFails, ReadEnds, ChildExits, WaitReports
  <2>3. Outcome(i) \in {"done", "error"}
    BY DEF Outcome
  <2>4. channel' \in Seq(Events)
    <3>1. \A type \in {"progress", "done", "error"} :
            Event(type, TRUE, ParamsOf(i)) \in Events
      BY <2>1, ReportType
    <3>2. channel' = channel \/ \E type \in {"progress", "done", "error"} : Report(i, type)
      BY <1>7, <2>3 DEF Threads, ReadLine, ReadFails, ReadEnds, ChildExits, WaitReports
    <3>3. channel' = channel
            \/ \E type \in {"progress", "done", "error"} :
                 channel' = Append(channel, Event(type, TRUE, ParamsOf(i)))
      BY <3>2 DEF Report
    <3>4. channel \in Seq(Events) /\ \A e \in Events : Append(channel, e) \in Seq(Events)
      BY DEF TypeOK
    <3> QED BY <3>1, <3>3, <3>4
  <2>5. PICK new \in Sessions :
          session' = [session EXCEPT ![i] = new] /\ new.slot_id = session[i].slot_id
    <3>1. CASE ReadLine(i)
      <4>1. [session[i] EXCEPT !.lines = @ + 1] \in Sessions
        BY <3>1, <2>1 DEF ReadLine, Sessions
      <4>2. session' = [session EXCEPT ![i] = [session[i] EXCEPT !.lines = @ + 1]]
        BY <3>1 DEF ReadLine
      <4> QED BY <4>1, <4>2, <2>1 DEF Sessions
    <3>2. CASE ReadFails(i) \/ ReadEnds(i)
      <4>1. [session[i] EXCEPT !.reader = "ended"] \in Sessions
        BY <2>1 DEF Sessions
      <4>2. session' = [session EXCEPT ![i] = [session[i] EXCEPT !.reader = "ended"]]
        BY <3>2 DEF ReadFails, ReadEnds
      <4> QED BY <4>1, <4>2, <2>1 DEF Sessions
    <3>3. CASE ChildExits(i) \/ WaitReports(i)
      <4>1. PICK c \in {"succeeded", "failed", "flashed", "gone"} :
              session' = [session EXCEPT ![i].child = c]
        BY <3>3 DEF ChildExits, WaitReports
      <4>2. [session[i] EXCEPT !.child = c] \in Sessions
        BY <2>1 DEF Sessions
      <4> QED BY <4>1, <4>2, <2>1 DEF Sessions
    <3> QED BY <1>7, <3>1, <3>2, <3>3 DEF Threads
  <2>6. session' \in [Requests -> Sessions] /\ SessionsHaveSlots'
    BY <2>1, <2>5 DEF TypeOK, SessionsHaveSlots, Sessions
  <2> QED BY <2>2, <2>4, <2>6 DEF idle, TypeOK, Sessions
<1>8. CASE UNCHANGED vars
  BY <1>8 DEF vars, TypeOK, SessionsHaveSlots, threads
<1> QED BY <1>1, <1>2, <1>3, <1>4, <1>5, <1>6, <1>7, <1>8 DEF Next, Hive

-----------------------------------------------------------------------------
(* The inductive invariant. *)

Ran(i) == session[i].child # "none"
Ending(e) == e.plugin /\ e.type \in {"done", "error"}

\* A session is for the slot of its request.
SessionsWereAsked ==
  \A i \in Requests : Ran(i) => i \in DOMAIN asked /\ session[i].slot_id = asked[i]

\* A start that waits has no session, and waits once.
Once(q) ==
  \A k, l \in DOMAIN q :
    q[k].type = "start" /\ q[l].type = "start" /\ q[k].id = q[l].id => k = l
StartsAreNew ==
  /\ Once(bus)
  /\ \A e \in In(bus) :
       e.type = "start" =>
         e.id \in DOMAIN asked /\ e.slot_id = asked[e.id] /\ ~Ran(e.id)

\* What the plugin reports of a session is so.
Truthful(e) ==
  /\ Ran(e.id) /\ e.slot_id = session[e.id].slot_id
  /\ e.type = "done" => session[e.id].child = "flashed"
ReportsAreTrue ==
  /\ \A e \in In(channel) : e.plugin /\ e.type # "start" /\ e.id = rx /\ Truthful(e)
  /\ \A e \in In(bus) : e.plugin /\ e.type # "start" => Truthful(e)

\* The bus is drained before the plugin is polled, so an outcome comes first in it,
\* and the plugin has let go of the session by then.
AtHead(q) == \A k \in DOMAIN q : Ending(q[k]) => k = 1
OutcomesComeFirst ==
  /\ hive = "poll" => bus = << >>
  /\ AtHead(bus)
  /\ (\E e \in In(bus) : Ending(e)) => rx = None

Listening ==
  /\ rx = None => channel = << >>
  /\ rx # None => Ran(rx) /\ deploy = "flashing"

\* An answered request has nothing to come.
AnswersAreFinal ==
  /\ \A a \in In(answers) :
       /\ a.id \in DOMAIN asked /\ a.slot_id = asked[a.id] /\ a.id # rx
       /\ \A e \in In(bus) : e.id = a.id => e.type # "start" /\ ~Ending(e)
  /\ \A i, j \in DOMAIN answers : answers[i].id = answers[j].id => i = j

\* A reader at work has reported lines only; a success is reported last.
ReportsAreInOrder ==
  /\ NothingAfterOutcome
  /\ rx # None =>
       /\ session[rx].reader = "reading" => \A e \in In(channel) : e.type = "progress"
       /\ session[rx].child # "flashed" => \A e \in In(channel) : e.type # "done"

Ledger ==
  /\ SessionsWereAsked /\ StartsAreNew /\ ReportsAreTrue /\ OutcomesComeFirst
  /\ Listening /\ AnswersAreFinal /\ ReportsAreInOrder /\ FlashedSlotsWereWritten

IInv == TypeInv /\ Ledger

-----------------------------------------------------------------------------
(* What the queue operations do to the invariant's parts. *)

\* The events that come into the bus after those it holds: the starts wait once,
\* and the outcomes are at the head, unless the new event says otherwise.
LEMMA BusAppend ==
  ASSUME NEW q \in Seq(Events), NEW e \in Events
  PROVE  /\ In(Append(q, e)) = In(q) \cup {e}
         /\ Once(q) /\ (e.type = "start" =>
              \A f \in In(q) : f.type = "start" => f.id # e.id) => Once(Append(q, e))
         /\ AtHead(q) /\ ~Ending(e) => AtHead(Append(q, e))
<1> DEFINE r == Append(q, e)
<1>1. /\ In(r) = In(q) \cup {e}
      /\ DOMAIN q = 1..Len(q) /\ Len(q) \in Nat
      /\ DOMAIN r = 1..(Len(q) + 1)
      /\ r[Len(q) + 1] = e /\ \A k \in 1..Len(q) : r[k] = q[k]
  BY InAppend
<1>2. \A k \in DOMAIN r :
        \/ k = Len(q) + 1 /\ r[k] = e
        \/ k \in DOMAIN q /\ r[k] = q[k] /\ r[k] \in In(q)
  BY <1>1 DEF In
<1> HIDE DEF r
<1>3. Once(q) /\ (e.type = "start" => \A f \in In(q) : f.type = "start" => f.id # e.id)
        => Once(r)
  BY <1>2 DEF Once
<1>4. AtHead(q) /\ ~Ending(e) => AtHead(r)
  BY <1>2 DEF AtHead
<1> QED BY <1>1, <1>3, <1>4 DEF r

\* What is left of the bus when its head is handled.
LEMMA BusTail ==
  ASSUME NEW q \in Seq(Events), q # << >>
  PROVE  /\ Head(q) \in Events /\ Head(q) \in In(q)
         /\ Tail(q) \in Seq(Events) /\ In(Tail(q)) \subseteq In(q)
         /\ Once(q) => Once(Tail(q))
         /\ Once(q) /\ Head(q).type = "start" =>
              \A f \in In(Tail(q)) : f.type = "start" => f.id # Head(q).id
         /\ AtHead(q) => \A f \in In(Tail(q)) : ~Ending(f)
<1> DEFINE r == Tail(q)
<1>1. /\ Head(q) \in Events /\ Head(q) \in In(q)
      /\ r \in Seq(Events) /\ In(r) \subseteq In(q)
      /\ Head(q) = q[1] /\ 1 \in DOMAIN q
      /\ \A k \in DOMAIN r : k \in Nat \ {0} /\ k + 1 \in DOMAIN q /\ r[k] = q[k + 1]
  BY InTail
<1>2. \A k, l \in Nat \ {0} : k + 1 # 1 /\ (k + 1 = l + 1 => k = l)
  OBVIOUS
<1> HIDE DEF r
<1>3. Once(q) => Once(r)
  <2> SUFFICES ASSUME Once(q), NEW k \in DOMAIN r, NEW l \in DOMAIN r,
                      r[k].type = "start", r[l].type = "start", r[k].id = r[l].id
               PROVE  k = l
    BY DEF Once
  <2>1. k + 1 = l + 1
    BY <1>1 DEF Once
  <2> QED BY <2>1, <1>1, <1>2
<1>4. Once(q) /\ Head(q).type = "start" =>
        \A f \in In(r) : f.type = "start" => f.id # Head(q).id
  <2> SUFFICES ASSUME Once(q), Head(q).type = "start", NEW k \in DOMAIN r,
                      r[k].type = "start", r[k].id = Head(q).id
               PROVE  FALSE
    BY DEF In
  <2>1. k + 1 = 1
    BY <1>1 DEF Once
  <2> QED BY <2>1, <1>1, <1>2
<1>5. AtHead(q) => \A f \in In(r) : ~Ending(f)
  BY <1>1, <1>2 DEF AtHead, In
<1> QED BY <1>1, <1>3, <1>4, <1>5 DEF r

\* A queue without outcomes has none past its head.
LEMMA NoneAtHead ==
  ASSUME NEW q, \A e \in In(q) : ~Ending(e)
  PROVE  AtHead(q)
  BY DEF AtHead, In

\* A new answer to a request that had none keeps the answers apart.
LEMMA AnswersAppend ==
  ASSUME NEW q \in Seq(Events), NEW e \in Events,
         \A i, j \in DOMAIN q : q[i].id = q[j].id => i = j,
         \A f \in In(q) : f.id # e.id
  PROVE  LET r == Append(q, e) IN
         /\ In(r) = In(q) \cup {e}
         /\ \A i, j \in DOMAIN r : r[i].id = r[j].id => i = j
<1> DEFINE r == Append(q, e)
<1>1. /\ In(r) = In(q) \cup {e}
      /\ DOMAIN q = 1..Len(q) /\ Len(q) \in Nat
      /\ DOMAIN r = 1..(Len(q) + 1)
      /\ r[Len(q) + 1] = e /\ \A k \in 1..Len(q) : r[k] = q[k]
  BY InAppend
<1>2. \A k \in DOMAIN r :
        \/ k = Len(q) + 1 /\ r[k] = e
        \/ k \in DOMAIN q /\ r[k] = q[k] /\ r[k] \in In(q)
  BY <1>1 DEF In
<1> HIDE DEF r
<1>3. \A i, j \in DOMAIN r : r[i].id = r[j].id => i = j
  BY <1>2
<1> QED BY <1>1, <1>3 DEF r

-----------------------------------------------------------------------------
(* The steps of the engine loop outside the handlers. *)

\* Nothing has happened at first.
LEMMA InitLedger == Init => Ledger
<1> SUFFICES ASSUME Init PROVE Ledger
  OBVIOUS
<1>1. /\ DOMAIN bus = {} /\ DOMAIN answers = {} /\ DOMAIN channel = {}
      /\ In(bus) = {} /\ In(answers) = {} /\ In(channel) = {}
  BY InEmpty DEF Init
<1>2. \A i \in Requests : ~Ran(i)
  BY DEF Init, Ran, NoSession
<1>3. rx = None /\ channel = << >> /\ hive = "drain"
      /\ \A s \in Slots : roster[s] = "placeholder"
  BY DEF Init
<1> QED BY <1>1, <1>2, <1>3
       DEF Ledger, SessionsWereAsked, StartsAreNew, Once, ReportsAreTrue, OutcomesComeFirst,
           AtHead, Listening, AnswersAreFinal, ReportsAreInOrder, NothingAfterOutcome,
           FlashedSlotsWereWritten

\* A step that leaves the sessions, the bus and what is listened to alone.
LEMMA QuietLedger ==
  ASSUME Ledger, UNCHANGED <<roster, bus, deploy, rx, threads, asked, answers>>,
         hive' = "poll" => bus = << >>
  PROVE  Ledger'
  BY DEF Ledger, SessionsWereAsked, StartsAreNew, ReportsAreTrue, Truthful,
         OutcomesComeFirst, Listening, AnswersAreFinal, ReportsAreInOrder,
         NothingAfterOutcome, FlashedSlotsWereWritten, Ran, threads

\* A request comes in under a number that has no session and no answer.
LEMMA RequestLedger ==
  ASSUME IInv, NEW s \in Slots, RequestStart(s)
  PROVE  Ledger'
<1> DEFINE n == Len(asked) + 1
           e == Event("start", TRUE, [slot_id |-> s, id |-> n])
<1>1. /\ asked \in Seq(Slots) /\ Len(asked) \in Nat /\ DOMAIN asked = 1..Len(asked)
      /\ n \in Requests /\ n \notin DOMAIN asked
      /\ bus \in Seq(Events)
  BY DEF IInv, TypeInv, TypeOK, RequestStart, Requests
<1>2. /\ DOMAIN asked' = 1..n /\ DOMAIN asked \subseteq DOMAIN asked' /\ n \in DOMAIN asked'
      /\ asked'[n] = s /\ \A i \in DOMAIN asked : asked'[i] = asked[i]
  BY <1>1 DEF RequestStart
<1>3. /\ e \in Events /\ e.type = "start" /\ e.id = n /\ e.slot_id = s /\ ~Ending(e)
  BY <1>1 DEF Event, Events, Ending
<1>4. bus' = Append(bus, e) /\ hive = "drain" /\ UNCHANGED <<roster, hive, deploy, rx, threads, answers>>
  BY DEF RequestStart
<1>5. ~Ran(n)
  BY <1>1 DEF IInv, Ledger, SessionsWereAsked
<1>6. \A f \in In(bus) : f.type = "start" => f.id # n
  BY <1>1 DEF IInv, Ledger, StartsAreNew
<1>7. \A a \in In(answers) : a.id # n
  BY <1>1 DEF IInv, Ledger, AnswersAreFinal
<1> HIDE DEF e, n
<1>8. In(bus') = In(bus) \cup {e} /\ Once(bus') /\ AtHead(bus')
  BY <1>1, <1>3, <1>4, <1>6, BusAppend DEF IInv, Ledger, StartsAreNew, OutcomesComeFirst
<1>9. SessionsWereAsked'
  BY <1>2, <1>4 DEF IInv, Ledger, SessionsWereAsked, Ran, threads
<1>10. StartsAreNew'
  BY <1>2, <1>3, <1>4, <1>5, <1>8 DEF IInv, Ledger, StartsAreNew, Ran, threads
<1>11. ReportsAreTrue'
  BY <1>3, <1>4, <1>8 DEF IInv, Ledger, ReportsAreTrue, Truthful, Ran, threads
<1>12. OutcomesComeFirst'
  BY <1>3, <1>4, <1>8 DEF IInv, Ledger, OutcomesComeFirst
<1>13. AnswersAreFinal'
  BY <1>2, <1>3, <1>4, <1>7, <1>8 DEF IInv, Ledger, AnswersAreFinal
<1>14. Listening' /\ ReportsAreInOrder' /\ FlashedSlotsWereWritten'
  BY <1>4 DEF IInv, Ledger, Listening, ReportsAreInOrder, NothingAfterOutcome,
              FlashedSlotsWereWritten, Ran, threads
<1> QED BY <1>9, <1>10, <1>11, <1>12, <1>13, <1>14 DEF Ledger

\* A poll takes the first report to a bus that is empty; an outcome ends the listening.
LEMMA PollLedger ==
  ASSUME IInv, Poll
  PROVE  Ledger'
<1>1. /\ bus = << >> /\ hive' = "drain"
      /\ UNCHANGED <<roster, deploy, cell, session, asked, answers>>
  BY DEF Poll, IInv, Ledger, OutcomesComeFirst
<1>2. CASE channel = << >>
  <2>1. UNCHANGED <<bus, channel, rx>>
    BY <1>2 DEF Poll
  <2> QED BY <1>1, <2>1, QuietLedger DEF IInv, threads
<1>3. CASE channel # << >>
  <2> DEFINE e == Head(channel)
  <2>1. channel \in Seq(Events) /\ bus \in Seq(Events) /\ rx \in Requests \cup {None}
    BY DEF IInv, TypeInv, TypeOK
  <2>2. e \in Events /\ e \in In(channel) /\ Tail(channel) \in Seq(Events)
        /\ In(Tail(channel)) \subseteq In(channel)
    BY <2>1, <1>3, InTail
  <2>3. rx # None /\ Ran(rx) /\ deploy = "flashing" /\ rx \in Requests
    BY <1>3, <2>1 DEF IInv, Ledger, Listening
  <2>4. e.plugin /\ e.type # "start" /\ e.id = rx /\ Truthful(e)
    BY <2>2 DEF IInv, Ledger, ReportsAreTrue
  <2>5. bus' = Append(bus, e)
    BY <1>3 DEF Poll
  <2>6. /\ e.type = "progress" => channel' = Tail(channel) /\ rx' = rx
        /\ e.type # "progress" => channel' = << >> /\ rx' = None
    BY <1>3 DEF Poll
  <2> HIDE DEF e
  <2>7. In(bus') = {e} /\ In(channel') \subseteq In(channel) /\ (rx' = rx \/ In(channel') = {})
    <3>1. In(bus') = In(bus) \cup {e}
      BY <2>1, <2>2, <2>5, BusAppend
    <3> QED BY <3>1, <1>1, <2>2, <2>6, InEmpty
  <2>8. Len(bus') = 1 /\ DOMAIN bus' = {1} /\ bus'[1] = e
    BY <1>1, <2>1, <2>2, <2>5
  <2>9. SessionsWereAsked' /\ FlashedSlotsWereWritten'
    BY <1>1 DEF IInv, Ledger, SessionsWereAsked, FlashedSlotsWereWritten, Ran
  <2>10. StartsAreNew'
    BY <2>4, <2>7, <2>8 DEF StartsAreNew, Once
  <2>11. ReportsAreTrue'
    BY <1>1, <2>4, <2>7 DEF IInv, Ledger, ReportsAreTrue, Truthful, Ran
  <2>12. OutcomesComeFirst'
    BY <1>1, <2>6, <2>7, <2>8 DEF OutcomesComeFirst, AtHead, Ending
  <2>13. Listening'
    BY <1>1, <2>3, <2>6 DEF Listening, Ran
  <2>14. AnswersAreFinal'
    <3>1. \A a \in In(answers) : a.id # rx /\ a.id \in DOMAIN asked
      BY DEF IInv, Ledger, AnswersAreFinal
    <3>2. \A a \in In(answers) : a.id # None
      <4>1. \A a \in In(answers) : a \in Events
        BY DEF IInv, TypeInv, TypeOK, In
      <4> QED BY <4>1 DEF Events, Requests
    <3>3. \A a \in In(answers) : a.id # rx'
      BY <2>6, <3>1, <3>2
    <3> QED BY <1>1, <2>4, <2>7, <3>1, <3>3 DEF IInv, Ledger, AnswersAreFinal
  <2>15. ReportsAreInOrder'
    <3>1. NothingAfterOutcome'
      <4>1. CASE e.type # "progress"
        BY <4>1, <2>6 DEF NothingAfterOutcome
      <4>2. CASE e.type = "progress"
        <5>1. channel' = Tail(channel) /\ NothingAfterOutcome
          BY <4>2, <2>6 DEF IInv, Ledger, ReportsAreInOrder
        <5>2. \A k \in DOMAIN channel' :
                k \in Nat \ {0} /\ k + 1 \in DOMAIN channel /\ channel'[k] = channel[k + 1]
          BY <5>1, <2>1, <1>3, InTail
        <5>3. \A i, j \in DOMAIN channel' : i < j => i + 1 < j + 1
          BY <5>2
        <5> QED BY <5>1, <5>2, <5>3 DEF NothingAfterOutcome
      <4> QED BY <4>1, <4>2
    <3> QED BY <3>1, <1>1, <2>6, <2>7 DEF IInv, Ledger, ReportsAreInOrder
  <2> QED BY <2>9, <2>10, <2>11, <2>12, <2>13, <2>14, <2>15 DEF Ledger
<1> QED BY <1>2, <1>3

-----------------------------------------------------------------------------
(* The handlers. *)

\* A handler takes the head off the bus and adds at most an event that is not the
\* plugin's: no outcome is left, and what held of the waiting events still does.
LEMMA HandledBus ==
  ASSUME IInv, bus # << >>,
         \/ bus' = Tail(bus)
         \/ \E e \in Events : bus' = Append(Tail(bus), e) /\ ~e.plugin /\ e.type # "start"
  PROVE  /\ Head(bus) \in Events /\ Head(bus) \in In(bus)
         /\ Once(bus') /\ AtHead(bus')
         /\ \A f \in In(bus') : ~Ending(f)
         /\ \A f \in In(bus') : f.type = "start" \/ f.plugin => f \in In(bus)
         /\ Head(bus).type = "start" =>
              \A f \in In(bus') : f.type = "start" => f.id # Head(bus).id
<1>1. bus \in Seq(Events) /\ Once(bus) /\ AtHead(bus)
  BY DEF IInv, TypeInv, TypeOK, Ledger, StartsAreNew, OutcomesComeFirst
<1>2. /\ Head(bus) \in Events /\ Head(bus) \in In(bus)
      /\ Tail(bus) \in Seq(Events) /\ In(Tail(bus)) \subseteq In(bus) /\ Once(Tail(bus))
      /\ Head(bus).type = "start" =>
           \A f \in In(Tail(bus)) : f.type = "start" => f.id # Head(bus).id
      /\ \A f \in In(Tail(bus)) : ~Ending(f)
  BY <1>1, BusTail
<1>3. CASE bus' = Tail(bus)
  BY <1>2, <1>3, NoneAtHead
<1>4. ASSUME NEW e \in Events, bus' = Append(Tail(bus), e), ~e.plugin, e.type # "start"
      PROVE  /\ Once(bus') /\ In(bus') = In(Tail(bus)) \cup {e} /\ ~Ending(e)
  BY <1>2, <1>4, BusAppend DEF Ending
<1>5. ASSUME NEW e \in Events, bus' = Append(Tail(bus), e), ~e.plugin, e.type # "start"
      PROVE  /\ AtHead(bus') /\ \A f \in In(bus') : ~Ending(f)
             /\ \A f \in In(bus') : f.type = "start" \/ f.plugin => f \in In(bus)
             /\ Head(bus).type = "start" =>
                  \A f \in In(bus') : f.type = "start" => f.id # Head(bus).id
  BY <1>2, <1>4, <1>5, NoneAtHead
<1> QED BY <1>2, <1>3, <1>4, <1>5

\* A start is handled: refused, dropped or given a session of its own.
LEMMA StartLedger ==
  ASSUME IInv, Starting
  PROVE  Ledger'
<1>0. PICK n : n = Head(bus).id
  OBVIOUS
<1>1. bus # << >> /\ Head(bus).type = "start" /\ hive = "tick" /\ hive' = hive
      /\ asked' = asked /\ roster' = roster
  BY DEF Starting, RefuseStart, StartWhenBusy, SpawnFails, Spawn, Handling
<1>2. /\ Request.id = n /\ Request.slot_id = Head(bus).slot_id
      /\ LET e == Event("error", FALSE, Request) IN
         /\ e \in Events /\ ~e.plugin /\ e.type = "error"
         /\ e.id = n /\ e.slot_id = Head(bus).slot_id
  BY <1>0, <1>1, RequestType DEF IInv, TypeInv
<1>3. bus' = Tail(bus) \/ (RefuseStart /\ bus' = Append(Tail(bus), Event("error", FALSE, Request)))
  BY DEF Starting, RefuseStart, StartWhenBusy, SpawnFails, Spawn
<1>4. /\ Head(bus) \in Events /\ Head(bus) \in In(bus)
      /\ Once(bus') /\ AtHead(bus') /\ \A f \in In(bus') : ~Ending(f)
      /\ \A f \in In(bus') : f.type = "start" \/ f.plugin => f \in In(bus)
      /\ \A f \in In(bus') : f.type = "start" => f.id # n
  BY <1>0, <1>1, <1>2, <1>3, HandledBus
<1>5. /\ n \in DOMAIN asked /\ Head(bus).slot_id = asked[n] /\ ~Ran(n) /\ n \in Requests
      /\ n # None
  BY <1>0, <1>1, <1>4 DEF IInv, Ledger, StartsAreNew, Events, Requests
<1>6. \A a \in In(answers) : a.id # n
  BY <1>0, <1>1, <1>4 DEF IInv, Ledger, AnswersAreFinal
<1>7. OutcomesComeFirst'
  BY <1>1, <1>4 DEF OutcomesComeFirst
<1>8. rx # n
  BY <1>5 DEF IInv, Ledger, Listening
<1>9. CASE UNCHANGED <<session, channel, rx>> /\ (rx # None => deploy' = "flashing")
  <2>1. SessionsWereAsked' /\ FlashedSlotsWereWritten'
    BY <1>1, <1>9 DEF IInv, Ledger, SessionsWereAsked, FlashedSlotsWereWritten, Ran
  <2>2. StartsAreNew'
    BY <1>1, <1>4, <1>9 DEF IInv, Ledger, StartsAreNew, Ran
  <2>3. ReportsAreTrue'
    BY <1>4, <1>9 DEF IInv, Ledger, ReportsAreTrue, Truthful, Ran
  <2>4. Listening' /\ ReportsAreInOrder'
    BY <1>9 DEF IInv, Ledger, Listening, ReportsAreInOrder, NothingAfterOutcome, Ran
  <2>5. AnswersAreFinal'
    <3>1. CASE answers' = answers
      BY <1>1, <1>4, <1>9, <3>1 DEF IInv, Ledger, AnswersAreFinal
    <3>2. CASE RefuseStart
      <4> DEFINE e == Event("error", FALSE, Request)
      <4>1. answers' = Append(answers, e) /\ e \in Events /\ e.id = n
            /\ e.slot_id = Head(bus).slot_id /\ answers \in Seq(Events)
        BY <1>2, <3>2 DEF RefuseStart, IInv, TypeInv, TypeOK
      <4> HIDE DEF e
      <4>2. /\ In(answers') = In(answers) \cup {e}
            /\ \A i, j \in DOMAIN answers' : answers'[i].id = answers'[j].id => i = j
        BY <1>6, <4>1, AnswersAppend DEF IInv, Ledger, AnswersAreFinal
      <4> QED BY <1>1, <1>4, <1>5, <1>8, <1>9, <4>1, <4>2 DEF IInv, Ledger, AnswersAreFinal
    <3> QED BY <3>1, <3>2 DEF Starting, StartWhenBusy, SpawnFails, Spawn
  <2> QED BY <1>7, <2>1, <2>2, <2>3, <2>4, <2>5 DEF Ledger
<1>10. CASE Spawn
  <2> DEFINE new == [slot_id |-> Request.slot_id, child |-> "running",
                     reader |-> "reading", lines |-> 0]
  <2>1. /\ rx = None /\ rx' = n /\ channel' = << >> /\ deploy' = "flashing"
        /\ session' = [session EXCEPT ![n] = new] /\ answers' = answers
    BY <1>2, <1>10 DEF Spawn
  <2>2. /\ new.slot_id = asked[n] /\ new.child = "running" /\ new.reader = "reading"
    BY <1>2, <1>5
  <2> HIDE DEF new
  <2>3. session'[n] = new /\ \A i \in Requests \ {n} : session'[i] = session[i]
    BY <1>5, <2>1 DEF IInv, TypeInv, TypeOK
  <2>4. Ran(n)' /\ \A i \in Requests \ {n} : Ran(i)' <=> Ran(i)
    BY <2>2, <2>3 DEF Ran
  <2>5. \A f \in In(bus) : f.id \in Requests
    <3>1. \A f \in In(bus) : f \in Events
      BY DEF IInv, TypeInv, TypeOK, In
    <3> QED BY <3>1 DEF Events
  <2>6. SessionsWereAsked'
    BY <1>1, <1>5, <2>2, <2>3, <2>4 DEF IInv, Ledger, SessionsWereAsked
  <2>7. StartsAreNew'
    BY <1>1, <1>4, <2>4, <2>5 DEF IInv, Ledger, StartsAreNew
  <2>8. ReportsAreTrue'
    <3>1. \A f \in In(bus') : f.plugin /\ f.type # "start" => f \in In(bus) /\ Truthful(f)
      BY <1>4 DEF IInv, Ledger, ReportsAreTrue
    <3>2. \A f \in In(bus') : f.plugin /\ f.type # "start" =>
            f.id \in Requests \ {n} /\ Truthful(f)
      BY <1>5, <2>5, <3>1 DEF Truthful
    <3>3. \A f \in In(bus') : f.plugin /\ f.type # "start" => Truthful(f)'
      BY <3>2, <2>3, <2>4 DEF Truthful
    <3> QED BY <2>1, <3>3, InEmpty DEF ReportsAreTrue
  <2>9. Listening'
    BY <2>1, <2>4, <1>5 DEF Listening
  <2>10. AnswersAreFinal'
    BY <1>1, <1>4, <1>6, <2>1 DEF IInv, Ledger, AnswersAreFinal
  <2>11. ReportsAreInOrder'
    BY <2>1, InEmpty DEF ReportsAreInOrder, NothingAfterOutcome
  <2>12. FlashedSlotsWereWritten'
    BY <1>1, <1>5, <2>3 DEF IInv, Ledger, FlashedSlotsWereWritten, Ran
  <2> QED BY <1>7, <2>6, <2>7, <2>8, <2>9, <2>10, <2>11, <2>12 DEF Ledger
<1> QED BY <1>9, <1>10 DEF Starting, RefuseStart, StartWhenBusy, SpawnFails, threads, IInv,
                           Ledger, Listening

\* An event comes back: the plugin's outcome is broadcast once and makes Deploy idle,
\* and any other event changes nothing but the bus.
LEMMA EventLedger ==
  ASSUME IInv, HandleProgress \/ HandleError \/ HandleDone
  PROVE  Ledger'
<1>0. PICK e : e = Head(bus)
  OBVIOUS
<1>1. /\ bus # << >> /\ hive = "tick" /\ hive' = hive /\ e.type \in {"progress", "error", "done"}
      /\ UNCHANGED <<rx, channel, session, asked>>
  BY <1>0 DEF HandleProgress, HandleError, HandleDone, Handling, threads
<1>2. e \in Events /\ e \in In(bus)
  BY <1>0, <1>1, InTail DEF IInv, TypeInv, TypeOK
<1>3. /\ Again(e) \in Events /\ ~Again(e).plugin /\ Again(e).type = e.type
      /\ Again(e).id = e.id /\ Again(e).slot_id = e.slot_id
  BY <1>2, AgainType
<1>4. bus' \in {Tail(bus), Append(Tail(bus), Again(e))}
  BY <1>0 DEF HandleProgress, HandleError, HandleDone
<1>5. /\ Once(bus') /\ AtHead(bus') /\ \A f \in In(bus') : ~Ending(f)
      /\ \A f \in In(bus') : f.type = "start" \/ f.plugin => f \in In(bus)
  BY <1>0, <1>1, <1>3, <1>4, HandledBus
<1>6. OutcomesComeFirst'
  BY <1>1, <1>5 DEF OutcomesComeFirst
<1>7. SessionsWereAsked' /\ ReportsAreInOrder'
  BY <1>1 DEF IInv, Ledger, SessionsWereAsked, ReportsAreInOrder, NothingAfterOutcome, Ran
<1>8. StartsAreNew'
  BY <1>1, <1>5 DEF IInv, Ledger, StartsAreNew, Ran
<1>9. ReportsAreTrue'
  BY <1>1, <1>5 DEF IInv, Ledger, ReportsAreTrue, Truthful, Ran
<1>10. CASE ~Ending(e)
  <2>1. UNCHANGED <<roster, deploy, answers>>
    BY <1>0, <1>1, <1>10 DEF HandleProgress, HandleError, HandleDone, Handling, Ending
  <2>2. Listening' /\ FlashedSlotsWereWritten'
    BY <1>1, <2>1 DEF IInv, Ledger, Listening, FlashedSlotsWereWritten, Ran
  <2>3. AnswersAreFinal'
    BY <1>1, <1>5, <2>1 DEF IInv, Ledger, AnswersAreFinal
  <2> QED BY <1>6, <1>7, <1>8, <1>9, <2>2, <2>3 DEF Ledger
<1>11. CASE Ending(e)
  <2>1. rx = None /\ Truthful(e) /\ e.id \in Requests
    BY <1>2, <1>11 DEF IInv, Ledger, OutcomesComeFirst, ReportsAreTrue, Ending, Events
  <2>2. e.id \in DOMAIN asked /\ e.slot_id = asked[e.id] /\ Ran(e.id)
    BY <2>1 DEF IInv, Ledger, SessionsWereAsked, Truthful
  <2>3. answers' = Append(answers, Again(e))
    BY <1>0, <1>1, <1>11 DEF HandleProgress, HandleError, HandleDone, Handling, Ending
  <2>4. Listening'
    BY <1>1, <2>1 DEF IInv, Ledger, Listening
  <2>5. FlashedSlotsWereWritten'
    <3>1. \/ roster' = roster
          \/ e.type = "done" /\ roster' = [roster EXCEPT ![e.slot_id] = "flashed_pending_pk"]
      BY <1>0, <1>1 DEF HandleProgress, HandleError, HandleDone, Handling
    <3>2. e.type = "done" =>
            e.id \in Requests /\ session[e.id].slot_id = e.slot_id
              /\ session[e.id].child = "flashed"
      BY <2>1 DEF Truthful
    <3>3. roster \in [Slots -> {"placeholder", "flashed_pending_pk"}]
      BY DEF IInv, TypeInv, TypeOK
    <3> QED BY <1>1, <3>1, <3>2, <3>3 DEF IInv, Ledger, FlashedSlotsWereWritten
  <2>6. AnswersAreFinal'
    <3>1. \A a \in In(answers) : a.id # e.id
      BY <1>2, <1>11 DEF IInv, Ledger, AnswersAreFinal
    <3>2. answers \in Seq(Events)
      BY DEF IInv, TypeInv, TypeOK
    <3>3. /\ In(answers') = In(answers) \cup {Again(e)}
          /\ \A i, j \in DOMAIN answers' : answers'[i].id = answers'[j].id => i = j
      BY <1>3, <2>3, <3>1, <3>2, AnswersAppend DEF IInv, Ledger, AnswersAreFinal
    <3>4. \A f \in In(bus') : f.id = e.id => f.type # "start"
      BY <1>5, <2>2 DEF IInv, Ledger, StartsAreNew
    <3>5. e.id # None
      BY <2>1 DEF Requests
    <3> QED BY <1>1, <1>3, <1>5, <2>1, <2>2, <3>3, <3>4, <3>5 DEF IInv, Ledger, AnswersAreFinal
  <2> QED BY <1>6, <1>7, <1>8, <1>9, <2>4, <2>5, <2>6 DEF Ledger
<1> QED BY <1>10, <1>11

-----------------------------------------------------------------------------
(* esptool and the threads of a session. *)

\* A session keeps its slot and what it has achieved, and other sessions are left alone.
LEMMA ThreadStep ==
  ASSUME TypeInv, NEW i \in Requests, Threads(i)
  PROVE  /\ UNCHANGED idle
         /\ \A j \in Requests \ {i} : session'[j] = session[j]
         /\ \A j \in Requests :
              /\ session'[j].slot_id = session[j].slot_id
              /\ session'[j].child = "none" <=> session[j].child = "none"
              /\ session[j].child = "flashed" => session'[j].child = "flashed"
<1>1. session \in [Requests -> Sessions] /\ session[i] \in Sessions
  BY DEF TypeInv, TypeOK, Sessions
<1>2. CASE ReadLine(i)
  BY <1>1, <1>2 DEF ReadLine, Sessions
<1>3. CASE ReadFails(i) \/ ReadEnds(i)
  BY <1>1, <1>3 DEF ReadFails, ReadEnds, Sessions
<1>4. CASE ChildExits(i)
  BY <1>1, <1>4 DEF ChildExits, Sessions
<1>5. CASE WaitReports(i)
  BY <1>1, <1>5 DEF WaitReports, Sessions
<1> QED BY <1>2, <1>3, <1>4, <1>5 DEF Threads

\* A report keeps the channel in order when nothing but lines came before it, or when
\* it is an outcome and no success came before it.
LEMMA OrderAppend ==
  ASSUME channel \in Seq(Events), NEW e \in Events, NothingAfterOutcome,
         channel' = Append(channel, e),
         \A f \in In(channel) :
           f.type = "progress" \/ (f.type = "error" /\ e.type # "progress")
  PROVE  NothingAfterOutcome'
<1>1. /\ DOMAIN channel = 1..Len(channel) /\ Len(channel) \in Nat
      /\ DOMAIN channel' = 1..(Len(channel) + 1)
      /\ channel'[Len(channel) + 1] = e
      /\ \A k \in 1..Len(channel) : channel'[k] = channel[k]
  BY InAppend
<1>2. SUFFICES ASSUME NEW k \in DOMAIN channel', NEW l \in DOMAIN channel', k < l
               PROVE  \/ channel'[k].type = "progress"
                      \/ channel'[k].type = "error" /\ channel'[l].type # "progress"
  BY DEF NothingAfterOutcome
<1>3. k \in DOMAIN channel /\ channel'[k] = channel[k] /\ channel[k] \in In(channel)
  BY <1>1, <1>2 DEF In
<1>4. CASE l \in DOMAIN channel
  BY <1>1, <1>2, <1>3, <1>4 DEF NothingAfterOutcome
<1>5. CASE l = Len(channel) + 1
  BY <1>1, <1>3, <1>5
<1> QED BY <1>1, <1>4, <1>5

\* A thread reports the truth about its session, and in order.
LEMMA ThreadLedger ==
  ASSUME IInv, NEW i \in Requests, Threads(i)
  PROVE  Ledger'
<1>1. /\ UNCHANGED <<roster, hive, bus, deploy, rx, asked, answers>>
      /\ \A j \in Requests \ {i} : session'[j] = session[j]
      /\ \A j \in Requests :
           /\ session'[j].slot_id = session[j].slot_id
           /\ Ran(j)' <=> Ran(j)
           /\ session[j].child = "flashed" => session'[j].child = "flashed"
  BY ThreadStep DEF IInv, idle, Ran
<1>2. SessionsWereAsked' /\ OutcomesComeFirst' /\ AnswersAreFinal'
  BY <1>1 DEF IInv, Ledger, SessionsWereAsked, OutcomesComeFirst, AnswersAreFinal
<1>3. FlashedSlotsWereWritten'
  BY <1>1 DEF IInv, Ledger, FlashedSlotsWereWritten
<1>4. (\A e \in In(bus) : e.id \in Requests) /\ (\A e \in In(channel) : e.id \in Requests)
  <2>1. (\A e \in In(bus) : e \in Events) /\ (\A e \in In(channel) : e \in Events)
    BY DEF IInv, TypeInv, TypeOK, In
  <2> QED BY <2>1 DEF Events
<1>5. StartsAreNew'
  BY <1>1, <1>4 DEF IInv, Ledger, StartsAreNew
<1>6. \A e \in In(bus) \cup In(channel) : Truthful(e) => Truthful(e)'
  BY <1>1, <1>4 DEF Truthful
<1>7. CASE channel' = channel
  <2>1. ReportsAreTrue'
    BY <1>1, <1>6, <1>7 DEF IInv, Ledger, ReportsAreTrue
  <2>2. Listening'
    BY <1>1, <1>7 DEF IInv, TypeInv, TypeOK, Ledger, Listening
  <2>3. rx # None =>
          /\ session'[rx].reader = "reading" => session[rx].reader = "reading"
          /\ session'[rx].child # "flashed" => session[rx].child # "flashed"
    <3>1. session'[i].reader \in {session[i].reader, "ended"}
      BY DEF Threads, ReadLine, ReadFails, ReadEnds, ChildExits, WaitReports, IInv, TypeInv,
             TypeOK, Sessions
    <3> QED BY <1>1, <3>1 DEF IInv, TypeInv, TypeOK
  <2>4. ReportsAreInOrder'
    BY <1>1, <1>7, <2>3 DEF IInv, Ledger, ReportsAreInOrder, NothingAfterOutcome
  <2> QED BY <1>2, <1>3, <1>5, <2>1, <2>2, <2>4 DEF Ledger
<1>8. CASE channel' # channel
  <2>1. PICK type \in {"progress", "done", "error"} :
          /\ rx = i /\ channel' = Append(channel, Event(type, TRUE, ParamsOf(i)))
          /\ \/ ReadLine(i) /\ type = "progress"
             \/ ReadFails(i) /\ type = "error"
             \/ WaitReports(i) /\ type = Outcome(i)
    BY <1>8 DEF Threads, ReadLine, ReadFails, ReadEnds, ChildExits, WaitReports, Report, Outcome
  <2>2. rx # None /\ Ran(i) /\ deploy = "flashing" /\ session[i].slot_id # None
    BY <2>1 DEF IInv, Ledger, Listening, TypeInv, SessionsHaveSlots, Ran, Requests
  <2>3. PICK e : e = Event(type, TRUE, ParamsOf(i))
    OBVIOUS
  <2>4. /\ e \in Events /\ e.plugin /\ e.type = type /\ e.id = i
        /\ e.slot_id = session[i].slot_id
    <3>1. session[i].slot_id \in Slots
      BY <2>2 DEF IInv, TypeInv, TypeOK
    <3> QED BY <3>1, <2>3 DEF Events, Event, ParamsOf
  <2>5. channel \in Seq(Events) /\ channel' = Append(channel, e)
        /\ In(channel') = In(channel) \cup {e}
    <3>1. channel \in Seq(Events) /\ channel' = Append(channel, e)
      BY <2>1, <2>3 DEF IInv, TypeInv, TypeOK
    <3> QED BY <3>1, <2>4, InAppend
  <2>6. session[i] \in Sessions /\ session \in [Requests -> Sessions]
    BY DEF IInv, TypeInv, TypeOK, Sessions
  <2>7. e.type = "done" => session'[i].child = "flashed"
    BY <2>1, <2>4, <2>6 DEF WaitReports, Outcome, Sessions
  <2>8. ReportsAreTrue'
    <3>1. Truthful(e)'
      BY <1>1, <2>2, <2>4, <2>7 DEF Truthful
    <3>2. \A f \in In(channel) : f.plugin /\ f.type # "start" /\ f.id = rx /\ Truthful(f)'
      BY <1>6 DEF IInv, Ledger, ReportsAreTrue
    <3>3. \A f \in In(bus) : f.plugin /\ f.type # "start" => Truthful(f)'
      BY <1>6 DEF IInv, Ledger, ReportsAreTrue
    <3>4. In(bus') = In(bus) /\ rx' = rx /\ e.plugin /\ e.type # "start" /\ e.id = rx
      BY <1>1, <2>1, <2>4
    <3> QED BY <2>5, <3>1, <3>2, <3>3, <3>4 DEF ReportsAreTrue
  <2>9. Listening'
    BY <1>1, <2>1, <2>2 DEF Listening
  <2>10. \A f \in In(channel) : f.type \in {"progress", "done", "error"}
    <3>1. \A f \in In(channel) : f \in Events /\ f.type # "start"
      BY DEF IInv, TypeInv, TypeOK, In, Ledger, ReportsAreTrue
    <3> QED BY <3>1 DEF Events
  <2>11. CASE ReadLine(i) \/ ReadFails(i)
    <3>1. /\ session[i].reader = "reading" /\ session'[i].child = session[i].child
          /\ e.type \in {"progress", "error"}
          /\ session'[i].reader = "reading" => e.type = "progress"
      BY <2>1, <2>4, <2>6, <2>11 DEF ReadLine, ReadFails, WaitReports, Sessions
    <3>2. \A f \in In(channel) : f.type = "progress"
      BY <2>1, <2>2, <3>1 DEF IInv, Ledger, ReportsAreInOrder
    <3>3. NothingAfterOutcome'
      BY <2>4, <2>5, <3>2, OrderAppend DEF IInv, Ledger, ReportsAreInOrder
    <3>4. ReportsAreInOrder'
      BY <1>1, <2>1, <2>5, <3>1, <3>2, <3>3 DEF ReportsAreInOrder
    <3> QED BY <1>2, <1>3, <1>5, <2>8, <2>9, <3>4 DEF Ledger
  <2>12. CASE WaitReports(i)
    <3>1. /\ session[i].child # "flashed" /\ session'[i].reader = "ended"
          /\ e.type \in {"done", "error"}
      BY <2>1, <2>4, <2>6, <2>12 DEF WaitReports, ReadLine, ReadFails, Outcome, Sessions
    <3>2. \A f \in In(channel) : f.type # "done"
      BY <2>1, <2>2, <3>1 DEF IInv, Ledger, ReportsAreInOrder
    <3>3. NothingAfterOutcome'
      BY <2>4, <2>5, <2>10, <3>1, <3>2, OrderAppend DEF IInv, Ledger, ReportsAreInOrder
    <3>4. ReportsAreInOrder'
      BY <1>1, <2>1, <2>5, <2>7, <3>1, <3>2, <3>3 DEF ReportsAreInOrder
    <3> QED BY <1>2, <1>3, <1>5, <2>8, <2>9, <3>4 DEF Ledger
  <2> QED BY <2>1, <2>11, <2>12
<1> QED BY <1>7, <1>8

-----------------------------------------------------------------------------
(* The theorems. *)

\* Every step keeps the inductive invariant.
LEMMA NextIInv == IInv /\ [Next]_vars => IInv'
<1> SUFFICES ASSUME IInv, [Next]_vars PROVE Ledger'
  BY NextTypeInv DEF IInv
<1>1. ASSUME NEW s \in Slots, RequestStart(s) PROVE Ledger'
  BY <1>1, RequestLedger
<1>2. CASE DrainDone
  BY <1>2, QuietLedger DEF DrainDone, IInv
<1>3. CASE TickDone
  BY <1>3, QuietLedger DEF TickDone, IInv
<1>4. CASE Poll
  BY <1>4, PollLedger
<1>5. CASE Starting
  BY <1>5, StartLedger
<1>6. CASE HandleProgress \/ HandleError \/ HandleDone
  BY <1>6, EventLedger
<1>7. ASSUME NEW i \in Requests, Threads(i) PROVE Ledger'
  BY <1>7, ThreadLedger
<1>8. CASE UNCHANGED vars
  BY <1>8, QuietLedger DEF vars, threads, IInv, Ledger, OutcomesComeFirst
<1> QED BY <1>1, <1>2, <1>3, <1>4, <1>5, <1>6, <1>7, <1>8 DEF Next, Hive

\* The inductive invariant holds in every reachable state.
LEMMA SpecIInv == Spec => []IInv
<1>1. Init => IInv
  BY InitTypeInv, InitLedger DEF IInv
<1> QED BY <1>1, NextIInv, PTL DEF Spec

\* The state of the first install keeps its types (flasher.rs, deploy.rs).
THEOREM TypeCorrect == Spec => []TypeOK
  BY SpecIInv, PTL DEF IInv, TypeInv

\* A slot waits for its board only if an esptool run for it succeeded: the roster
\* (sentants/roster.rs) never records an install that did not happen.
THEOREM OnlyWrittenSlots == Spec => []FlashedSlotsWereWritten
  BY SpecIInv, PTL DEF IInv, Ledger

\* The webapp gets at most one outcome of a request, for the slot it asked for, although
\* all requests pass through one cell (flasher.rs).
THEOREM OneAnswer == Spec => []OneAnswerPerStart
<1>1. IInv => OneAnswerPerStart
  BY DEF IInv, Ledger, AnswersAreFinal, OneAnswerPerStart, In
<1> QED BY <1>1, SpecIInv, PTL

\* Deploy is never idle while the plugin listens to a session (deploy.rs, flasher.rs).
THEOREM ListenersFlash == Spec => []ListeningIsFlashing
<1>1. IInv => ListeningIsFlashing
  BY DEF IInv, Ledger, Listening, ListeningIsFlashing
<1> QED BY <1>1, SpecIInv, PTL

\* The reports of the two threads of a session arrive in order (flasher.rs).
THEOREM OutcomesComeLast == Spec => []NothingAfterOutcome
<1>1. IInv => NothingAfterOutcome
  BY DEF IInv, Ledger, ReportsAreInOrder
<1> QED BY <1>1, SpecIInv, PTL
=============================================================================
