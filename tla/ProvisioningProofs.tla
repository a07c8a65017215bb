------------------------ MODULE ProvisioningProofs ------------------------
(***************************************************************************)
(* Proofs about Provisioning, for any set of boards and slots and any      *)
(* bounds.  The heart of the inductive invariant is that the right to a    *)
(* slot travels as a token: once a board is admitted, exactly one of the   *)
(* worker, an event in `outcomes`, an event in `bus` and a row of the      *)
(* roster may carry it, and a restart can only lose it.                    *)
(***************************************************************************)
EXTENDS Provisioning, TLAPS

-----------------------------------------------------------------------------
(* Events that carry the right of board d to a slot. *)

Certifies(event, d) ==
  event.type \in {"identity_observed", "device.enrolled"} /\ event.ble_addr = d
Has(queue, d) == \E i \in DOMAIN queue : Certifies(queue[i], d)
Single(queue, d) ==
  \A i, j \in DOMAIN queue : Certifies(queue[i], d) /\ Certifies(queue[j], d) => i = j

\* An empty queue carries no right to a slot.
LEMMA HasEmpty == \A d : ~Has(<< >>, d) /\ Single(<< >>, d)
<1>1. DOMAIN << >> = {}
  OBVIOUS
<1> QED BY <1>1 DEF Has, Single

\* Appending an event adds its own right and no other.
LEMMA HasAppend ==
  ASSUME NEW S, NEW q \in Seq(S), NEW e \in S, NEW d
  PROVE  /\ Append(q, e) \in Seq(S)
         /\ Has(Append(q, e), d) => Has(q, d) \/ Certifies(e, d)
         /\ Single(q, d) /\ ~(Has(q, d) /\ Certifies(e, d)) => Single(Append(q, e), d)
<1>1. /\ Append(q, e) \in Seq(S)
      /\ DOMAIN Append(q, e) = 1..(Len(q) + 1)
      /\ Append(q, e)[Len(q) + 1] = e
      /\ \A i \in 1..Len(q) : Append(q, e)[i] = q[i]
      /\ DOMAIN q = 1..Len(q) /\ Len(q) \in Nat
  OBVIOUS
<1>2. \A i \in DOMAIN Append(q, e) : i \in DOMAIN q \/ i = Len(q) + 1
  BY <1>1
<1>3. Has(Append(q, e), d) => Has(q, d) \/ Certifies(e, d)
  BY <1>1, <1>2 DEF Has
<1>4. ASSUME Single(q, d), ~(Has(q, d) /\ Certifies(e, d))
      PROVE  Single(Append(q, e), d)
  <2> SUFFICES ASSUME NEW i \in DOMAIN Append(q, e), NEW j \in DOMAIN Append(q, e),
                      Certifies(Append(q, e)[i], d), Certifies(Append(q, e)[j], d)
               PROVE  i = j
    BY DEF Single
  <2>1. CASE i \in DOMAIN q /\ j \in DOMAIN q
    BY <2>1, <1>1, <1>4 DEF Single
  <2>2. CASE i = Len(q) + 1 /\ j = Len(q) + 1
    BY <2>2
  <2>3. CASE i \in DOMAIN q /\ j = Len(q) + 1
    BY <2>3, <1>1, <1>4 DEF Has
  <2>4. CASE i = Len(q) + 1 /\ j \in DOMAIN q
    BY <2>4, <1>1, <1>4 DEF Has
  <2> QED BY <2>1, <2>2, <2>3, <2>4, <1>2
<1> QED BY <1>1, <1>3, <1>4

\* Taking the head off a queue takes its right with it.
LEMMA HasTail ==
  ASSUME NEW S, NEW q \in Seq(S), q # << >>, NEW d
  PROVE  /\ Tail(q) \in Seq(S) /\ Head(q) \in S
         /\ Has(Tail(q), d) => Has(q, d)
         /\ Certifies(Head(q), d) => Has(q, d)
         /\ Single(q, d) => Single(Tail(q), d)
         /\ Single(q, d) /\ Certifies(Head(q), d) => ~Has(Tail(q), d)
<1>1. /\ Tail(q) \in Seq(S) /\ Head(q) \in S
      /\ Len(q) \in Nat \ {0} /\ DOMAIN q = 1..Len(q)
      /\ DOMAIN Tail(q) = 1..(Len(q) - 1)
      /\ Head(q) = q[1]
      /\ \A i \in 1..(Len(q) - 1) : Tail(q)[i] = q[i + 1]
  OBVIOUS
<1>2. /\ 1 \in DOMAIN q
      /\ \A i \in DOMAIN Tail(q) : i + 1 \in DOMAIN q /\ i + 1 # 1 /\ Tail(q)[i] = q[i + 1]
  BY <1>1
<1>3. Has(Tail(q), d) => Has(q, d)
  BY <1>2 DEF Has
<1>4. Certifies(Head(q), d) => Has(q, d)
  BY <1>1, <1>2 DEF Has
<1>5. ASSUME Single(q, d) PROVE Single(Tail(q), d)
  <2> SUFFICES ASSUME NEW i \in DOMAIN Tail(q), NEW j \in DOMAIN Tail(q),
                      Certifies(Tail(q)[i], d), Certifies(Tail(q)[j], d)
               PROVE  i = j
    BY DEF Single
  <2>1. i + 1 = j + 1
    BY <1>2, <1>5 DEF Single
  <2> QED BY <2>1, <1>1
<1>6. Single(q, d) /\ Certifies(Head(q), d) => ~Has(Tail(q), d)
  BY <1>1, <1>2 DEF Has, Single
<1> QED BY <1>1, <1>3, <1>4, <1>5, <1>6

-----------------------------------------------------------------------------
(* Type correctness. *)

USE NoneAssumption, BoundsAssumption

\* When the orchestrator is first started the state has its types.
LEMMA InitTypeOK == Init => TypeOK
  BY DEF Init, TypeOK, Rows, SlotStates, TrustGroups, NewTrustGroup, Unspawned, Workers,
         WorkerStates, BusEvents, OutcomeEvents, BeaconEvents

\* Observing a board and forgetting a fingerprint keep the types.
LEMMA ScannerTypeOK ==
  ASSUME TypeOK, Scanner PROVE TypeOK'
<1>1. ASSUME NEW d \in Devices, Observe(d) PROVE TypeOK'
  <2>1. observed' \in Seq(BeaconEvents)
    <3> DEFINE beacon == [type |-> "beacon", ble_addr |-> d, provisioning |-> ~Joined(d)]
    <3>1. beacon \in BeaconEvents
      BY DEF BeaconEvents
    <3>2. observed' = observed \/ observed' = Append(observed, beacon)
      BY <1>1 DEF Observe
    <3>3. observed \in Seq(BeaconEvents)
      BY DEF TypeOK
    <3> HIDE DEF beacon
    <3> QED BY <3>1, <3>2, <3>3
  <2> QED BY <2>1, <1>1 DEF Observe, TypeOK, disk, provision, handshake, engine
<1>2. ASSUME NEW d \in Devices, Rotate(d) PROVE TypeOK'
  BY <1>2 DEF Rotate, TypeOK, disk, provision, handshake, engine
<1> QED BY <1>1, <1>2 DEF Scanner

\* Declaring a slot and flashing it keep the types.
LEMMA OperatorTypeOK ==
  ASSUME TypeOK, Operator PROVE TypeOK'
<1>1. ASSUME NEW s \in Slots, SlotCreate(s) PROVE TypeOK'
  <2>1. [state |-> "placeholder", device_pk |-> None] \in Rows
    BY DEF Rows, SlotStates
  <2>2. roster' \in [Slots -> Rows]
    BY <2>1, <1>1 DEF SlotCreate, Save, TypeOK
  <2> QED BY <2>2, <1>1 DEF SlotCreate, TypeOK, observer, provision, handshake, engine
<1>2. ASSUME NEW s \in Slots, FirstInstallDone(s) PROVE TypeOK'
  <2>1. [roster[s] EXCEPT !.state = "flashed_pending_pk"] \in Rows
    <3>1. PICK row \in Rows : row = roster[s]
      BY DEF TypeOK
    <3>2. [row EXCEPT !.state = "flashed_pending_pk"] \in Rows
      BY DEF Rows, SlotStates
    <3> QED BY <3>1, <3>2
  <2>2. roster' \in [Slots -> Rows]
    BY <2>1, <1>2 DEF FirstInstallDone, Save, TypeOK
  <2> QED BY <2>2, <1>2 DEF FirstInstallDone, TypeOK, observer, provision, handshake, engine
<1> QED BY <1>1, <1>2 DEF Operator

\* What a handler step has in hand.
LEMMA HandlingFacts ==
  ASSUME TypeOK, NEW type, Handling(type)
  PROVE  /\ Head(bus) \in BusEvents /\ Tail(bus) \in Seq(BusEvents)
         /\ Head(bus).type = type
         /\ Head(bus).ble_addr \in Devices
         /\ type \in {"identity_observed", "device.enrolled"} => Head(bus).slot_id \in Slots
         /\ UNCHANGED <<hive, drops, restarts>>
<1>1. Head(bus) \in BusEvents /\ Tail(bus) \in Seq(BusEvents)
  BY DEF TypeOK, Handling
<1> QED BY <1>1 DEF Handling, BusEvents, BeaconEvents, OutcomeEvents, IdentityEvents,
                    ErrorEvents, EnrolledEvents

\* The engine loop and every handler keep the types, also when an event is lost.
LEMMA HiveTypeOK ==
  ASSUME TypeOK, Hive \/ TickBudgetSpent PROVE TypeOK'
<1>1. CASE TickDone
  BY <1>1 DEF TickDone, TypeOK, disk, observer, provision, handshake
<1>2. CASE PollObserver
  <2>1. bus' \in Seq(BusEvents) /\ observed' \in Seq(BeaconEvents)
    <3>1. CASE observed = << >>
      BY <3>1, <1>2 DEF PollObserver, TypeOK
    <3>2. CASE observed # << >>
      <4>1. Head(observed) \in BeaconEvents /\ Tail(observed) \in Seq(BeaconEvents)
        BY <3>2 DEF TypeOK
      <4>2. Head(observed) \in BusEvents
        BY <4>1 DEF BusEvents
      <4>3. bus \in Seq(BusEvents)
        BY DEF TypeOK
      <4>4. bus' = Append(bus, Head(observed)) /\ observed' = Tail(observed)
        BY <3>2, <1>2 DEF PollObserver
      <4> QED BY <4>1, <4>2, <4>3, <4>4
    <3> QED BY <3>1, <3>2
  <2> QED BY <2>1, <1>2 DEF PollObserver, TypeOK, disk, provision, handshake
<1>3. CASE PollHandshake
  <2>1. bus' \in Seq(BusEvents) /\ outcomes' \in Seq(OutcomeEvents)
    <3>1. CASE outcomes = << >>
      BY <3>1, <1>3 DEF PollHandshake, TypeOK
    <3>2. CASE outcomes # << >>
      <4>1. Head(outcomes) \in OutcomeEvents /\ Tail(outcomes) \in Seq(OutcomeEvents)
        BY <3>2 DEF TypeOK
      <4>2. Head(outcomes) \in BusEvents
        BY <4>1 DEF BusEvents
      <4>3. bus \in Seq(BusEvents)
        BY DEF TypeOK
      <4>4. bus' = Append(bus, Head(outcomes)) /\ outcomes' = Tail(outcomes)
        BY <3>2, <1>3 DEF PollHandshake
      <4> QED BY <4>1, <4>2, <4>3, <4>4
    <3> QED BY <3>1, <3>2
  <2> QED BY <2>1, <1>3 DEF PollHandshake, TypeOK, disk, observer, provision
<1>4. CASE HandleBeacon
  <2>1. Head(bus).ble_addr \in Devices /\ bus' \in Seq(BusEvents)
        /\ UNCHANGED <<hive, drops, restarts>>
    BY <1>4, HandlingFacts DEF HandleBeacon
  <2>2. handshakeSlot' \in Requests \cup {None} /\ inFlight' \subseteq Devices
    BY <1>4, <2>1 DEF HandleBeacon, provision, TypeOK, Requests
  <2>3. worker' \in Workers /\ (worker'.pc \notin {"unspawned", "idle"} => worker'.req \in Requests)
    <3>1. Idle \in Workers /\ Idle.pc = "idle"
      BY DEF Idle, Unspawned, Workers, WorkerStates, TrustGroups, NewTrustGroup
    <3>2. worker' = Idle \/ worker' = worker
      BY <1>4 DEF HandleBeacon
    <3> HIDE DEF Idle
    <3> QED BY <3>1, <3>2 DEF TypeOK
  <2> QED BY <1>4, <2>1, <2>2, <2>3 DEF HandleBeacon, TypeOK, disk, observer
<1>5. CASE HandleIdentity
  <2>1. /\ Head(bus).ble_addr \in Devices /\ Head(bus).slot_id \in Slots
        /\ Tail(bus) \in Seq(BusEvents)
        /\ UNCHANGED <<hive, drops, restarts>>
    BY <1>5, HandlingFacts DEF HandleIdentity
  <2>2. bus' \in Seq(BusEvents)
    <3> DEFINE enrolled == [type |-> "device.enrolled", ble_addr |-> Head(bus).ble_addr,
                            slot_id |-> Head(bus).slot_id]
    <3>1. enrolled \in BusEvents
      BY <2>1 DEF BusEvents, EnrolledEvents
    <3>2. bus' = Append(Tail(bus), enrolled)
      BY <1>5 DEF HandleIdentity
    <3> HIDE DEF enrolled
    <3> QED BY <2>1, <3>1, <3>2
  <2> QED BY <1>5, <2>1, <2>2 DEF HandleIdentity, TypeOK, observer, handshake
<1>6. CASE HandleHandshakeError
  BY <1>6, HandlingFacts DEF HandleHandshakeError, TypeOK, disk, observer, handshake
<1>7. CASE HandleDeviceEnrolled
  <2>1. /\ Head(bus).ble_addr \in Devices /\ Head(bus).slot_id \in Slots
        /\ Tail(bus) \in Seq(BusEvents)
        /\ UNCHANGED <<hive, drops, restarts>>
    BY <1>7, HandlingFacts DEF HandleDeviceEnrolled
  <2>2. roster' \in [Slots -> Rows]
    BY <1>7, <2>1 DEF HandleDeviceEnrolled, Save, TypeOK, Rows, SlotStates
  <2> QED BY <1>7, <2>1, <2>2 DEF HandleDeviceEnrolled, TypeOK, observer, provision, handshake
<1>8. CASE TickBudgetSpent
  BY <1>8 DEF TickBudgetSpent, TypeOK, disk, observer, provision, handshake
<1> QED BY <1>1, <1>2, <1>3, <1>4, <1>5, <1>6, <1>7, <1>8 DEF Hive, Handlers

\* The steps of a handshake keep the types: the worker is busy with a request.
LEMMA WorkerTypeOK ==
  ASSUME TypeOK, Handshaking \/ HandshakeFails PROVE TypeOK'
<1> USE DEF At, Target, Goto, Workers, WorkerStates, TrustGroups
<1>1. CASE TakeRequest
  BY <1>1 DEF TakeRequest, TypeOK, disk, observer, engine
<1>2. CASE LoadTrustGroup
  BY <1>2 DEF LoadTrustGroup, TypeOK, disk, observer, provision, engine
<1>3. CASE SendInvite
  BY <1>3 DEF SendInvite, TypeOK, disk, observer, provision, engine
<1>4. CASE ProcessJoinRequest
  <2>1. worker.req \in Requests /\ worker.req.ble_addr \in Devices
    BY <1>4 DEF ProcessJoinRequest, TypeOK, Requests
  <2>2. worker' \in Workers /\ worker'.req = worker.req
    <3>1. /\ worker \in [pc : WorkerStates, req : Requests \cup {None}, tg : TrustGroups]
          /\ worker.tg.members \cup {worker.req.ble_addr} \in SUBSET Devices
          /\ worker.tg.sequence + 1 \in Nat
      BY <2>1 DEF TypeOK
    <3>2. worker' = [pc |-> "persist", req |-> worker.req,
                     tg |-> [members |-> worker.tg.members \cup {worker.req.ble_addr},
                             sequence |-> worker.tg.sequence + 1]]
      BY <1>4, <3>1 DEF ProcessJoinRequest
    <3> QED BY <3>1, <3>2
  <2> QED BY <1>4, <2>1, <2>2 DEF ProcessJoinRequest, TypeOK, disk, observer, provision, engine
<1>5. CASE PersistTrustGroup
  BY <1>5 DEF PersistTrustGroup, TypeOK, observer, provision, engine
<1>6. CASE SendJoinResponse
  BY <1>6 DEF SendJoinResponse, TypeOK, disk, observer, provision, engine
<1>7. CASE ReportIdentity \/ HandshakeFails
  <2>1. worker.req \in Requests /\ worker.req.ble_addr \in Devices /\ worker.req.slot_id_hint \in Slots
    BY <1>7 DEF ReportIdentity, HandshakeFails, TypeOK, Requests
  <2>2. outcomes' \in Seq(OutcomeEvents)
    <3> DEFINE identity == [type |-> "identity_observed", ble_addr |-> worker.req.ble_addr,
                            slot_id |-> worker.req.slot_id_hint]
               error == [type |-> "handshake.error", ble_addr |-> worker.req.ble_addr]
    <3>1. identity \in OutcomeEvents /\ error \in OutcomeEvents
      BY <2>1 DEF OutcomeEvents, IdentityEvents, ErrorEvents
    <3>2. outcomes' = Append(outcomes, identity) \/ outcomes' = Append(outcomes, error)
      BY <1>7 DEF ReportIdentity, HandshakeFails
    <3>3. outcomes \in Seq(OutcomeEvents)
      BY DEF TypeOK
    <3> HIDE DEF identity, error
    <3> QED BY <3>1, <3>2, <3>3
  <2>3. worker' \in Workers /\ worker'.pc = "idle"
    BY <1>7 DEF ReportIdentity, HandshakeFails, Idle, Unspawned, NewTrustGroup
  <2> QED BY <1>7, <2>2, <2>3 DEF ReportIdentity, HandshakeFails, TypeOK, disk, observer,
                                   provision, engine
<1> QED BY <1>1, <1>2, <1>3, <1>4, <1>5, <1>6, <1>7 DEF Handshaking

\* A restart brings the state in memory back to that of a first start.
LEMMA RestartTypeOK ==
  ASSUME TypeOK, Restart PROVE TypeOK'
  BY DEF Restart, TypeOK, disk, Unspawned, Workers, WorkerStates, TrustGroups, NewTrustGroup

\* The state keeps its types: in particular the worker has a request whenever it
\* is busy, and the sequence number stays a natural number.
THEOREM TypeCorrect == Spec => []TypeOK
<1>1. ASSUME TypeOK, [Next]_vars PROVE TypeOK'
  <2>1. CASE Next
    BY <1>1, <2>1, ScannerTypeOK, OperatorTypeOK, HiveTypeOK, WorkerTypeOK, RestartTypeOK DEF Next
  <2>2. CASE UNCHANGED vars
    BY <1>1, <2>2 DEF vars, disk, observer, provision, handshake, engine, TypeOK
  <2> QED BY <1>1, <2>1, <2>2
<1> QED BY <1>1, InitTypeOK, PTL DEF Spec

-----------------------------------------------------------------------------
(* The inductive invariant. *)

Reporting(d) == worker.pc \in {"respond", "report"} /\ worker.req.ble_addr = d
Held(d) == \E s \in Slots : roster[s].device_pk = d

\* How the group the worker holds relates to the file it was loaded from.
WorkerInv ==
  /\ worker.pc \in {"connect", "await", "respond", "report"} => worker.tg = tgFile
  /\ worker.pc = "persist" =>
       /\ worker.req.ble_addr \notin tgFile.members
       /\ worker.tg = [members |-> tgFile.members \cup {worker.req.ble_addr},
                       sequence |-> tgFile.sequence + 1]
  /\ worker.pc = "respond" => \A d \in Devices : accepted[d] < tgFile.sequence

\* Whatever speaks for board d does so after d was admitted on disk.
MemberInv ==
  \A d \in Devices :
    Joined(d) \/ d \in certs \/ Held(d) \/ Reporting(d) \/ Has(outcomes, d) \/ Has(bus, d)
      => d \in tgFile.members

\* The right of board d to a slot is in one place at most.
TokenInv ==
  \A d \in Devices :
    /\ Single(outcomes, d) /\ Single(bus, d)
    /\ ~(Has(outcomes, d) /\ Has(bus, d))
    /\ Reporting(d) => ~Has(outcomes, d) /\ ~Has(bus, d) /\ ~Held(d)
    /\ Has(outcomes, d) \/ Has(bus, d) => ~Held(d)

RosterInv ==
  /\ \A s \in Slots : roster[s].state = "enrolled" <=> roster[s].device_pk # None
  /\ \A s, t \in Slots :
       roster[s].device_pk = roster[t].device_pk /\ roster[s].device_pk # None => s = t

IInv ==
  TypeOK /\ WorkerInv /\ MemberInv /\ TokenInv /\ RosterInv /\ ResponseSequencesDistinct

\* Nobody is a member and nobody has a right when the orchestrator is first started.
LEMMA InitIInv == Init => IInv
<1> SUFFICES ASSUME Init PROVE IInv
  OBVIOUS
<1>1. worker.pc = "unspawned" /\ outcomes = << >> /\ bus = << >> /\ certs = {}
  BY DEF Init, Unspawned
<1>2. \A d \in Devices : ~Has(outcomes, d) /\ ~Has(bus, d) /\ ~Joined(d)
                         /\ Single(outcomes, d) /\ Single(bus, d)
  BY <1>1, HasEmpty DEF Joined, Init
<1>3. \A s \in Slots : roster[s].device_pk = None /\ roster[s].state = "absent"
  BY DEF Init
<1>4. \A d \in Devices : ~Held(d) /\ ~Reporting(d)
  BY <1>1, <1>3 DEF Held, Reporting
<1>5. ResponseSequencesDistinct
  BY DEF Init, ResponseSequencesDistinct, NewTrustGroup, Joined
<1>6. WorkerInv /\ RosterInv
  BY <1>1, <1>3 DEF WorkerInv, RosterInv
<1>7. MemberInv /\ TokenInv
  BY <1>1, <1>2, <1>4 DEF MemberInv, TokenInv
<1> QED BY <1>5, <1>6, <1>7, InitTypeOK DEF IInv

\* A step that gives nobody a right and leaves the group and the boards alone.
RightsShrink ==
  /\ UNCHANGED <<tgFile, accepted>> /\ certs' \subseteq certs
  /\ \A d \in Devices :
       /\ Has(outcomes, d)' => Has(outcomes, d)
       /\ Has(bus, d)' => Has(bus, d)
       /\ Single(outcomes, d) => Single(outcomes, d)'
       /\ Single(bus, d) => Single(bus, d)'
       /\ Reporting(d)' => Reporting(d)
       /\ Held(d)' => Held(d)

\* A step that creates no right, and keeps the worker and the roster consistent,
\* preserves the invariant.
LEMMA ShrinkIInv ==
  ASSUME IInv, TypeOK', WorkerInv', RosterInv', RightsShrink PROVE IInv'
<1>1. \A d \in Devices : Joined(d)' <=> Joined(d)
  BY DEF RightsShrink, Joined
<1>2. MemberInv'
  BY <1>1 DEF IInv, MemberInv, RightsShrink
<1>3. TokenInv'
  BY DEF IInv, TokenInv, RightsShrink
<1>4. ResponseSequencesDistinct'
  BY <1>1 DEF IInv, ResponseSequencesDistinct, RightsShrink
<1> QED BY <1>2, <1>3, <1>4 DEF IInv

\* Parts of RightsShrink that follow from what a step leaves unchanged.
LEMMA SameQueues ==
  /\ UNCHANGED outcomes => \A d : /\ Has(outcomes, d)' <=> Has(outcomes, d)
                                  /\ Single(outcomes, d)' <=> Single(outcomes, d)
  /\ UNCHANGED bus => \A d : /\ Has(bus, d)' <=> Has(bus, d)
                             /\ Single(bus, d)' <=> Single(bus, d)
  BY DEF Has, Single

\* A step that leaves the worker alone moves no right of its.
LEMMA SameWorker == UNCHANGED worker => \A d : Reporting(d)' <=> Reporting(d)
  BY DEF Reporting

\* A step that leaves the roster alone gives or takes no slot.
LEMMA SameRoster == UNCHANGED roster => \A d : Held(d)' <=> Held(d)
  BY DEF Held

\* What the worker knows of the group stays true when neither changes.
LEMMA SameWorkerInv ==
  IInv /\ UNCHANGED <<worker, tgFile, accepted>> => WorkerInv'
  BY DEF IInv, WorkerInv

\* The rows agree with their states as long as the roster stays as it is.
LEMMA SameRosterInv == IInv /\ UNCHANGED roster => RosterInv'
  BY DEF IInv, RosterInv

\* Taking the head off the bus, or off outcomes, only loses rights.
LEMMA PopShrinks ==
  ASSUME TypeOK, NEW d \in Devices
  PROVE  /\ bus # << >> /\ bus' = Tail(bus) =>
              /\ Has(bus, d)' => Has(bus, d)
              /\ Single(bus, d) => Single(bus, d)'
         /\ outcomes # << >> /\ outcomes' = Tail(outcomes) =>
              /\ Has(outcomes, d)' => Has(outcomes, d)
              /\ Single(outcomes, d) => Single(outcomes, d)'
<1>1. ASSUME bus # << >>, bus' = Tail(bus)
      PROVE  (Has(bus, d)' => Has(bus, d)) /\ (Single(bus, d) => Single(bus, d)')
  <2>1. (Has(bus, d)' <=> Has(Tail(bus), d)) /\ (Single(bus, d)' <=> Single(Tail(bus), d))
    BY <1>1 DEF Has, Single
  <2>2. bus \in Seq(BusEvents)
    BY DEF TypeOK
  <2> QED BY <1>1, <2>1, <2>2, HasTail
<1>2. ASSUME outcomes # << >>, outcomes' = Tail(outcomes)
      PROVE  /\ Has(outcomes, d)' => Has(outcomes, d)
             /\ Single(outcomes, d) => Single(outcomes, d)'
  <2>1. /\ Has(outcomes, d)' <=> Has(Tail(outcomes), d)
        /\ Single(outcomes, d)' <=> Single(Tail(outcomes), d)
    BY <1>2 DEF Has, Single
  <2>2. outcomes \in Seq(OutcomeEvents)
    BY DEF TypeOK
  <2> QED BY <1>2, <2>1, <2>2, HasTail
<1> QED BY <1>1, <1>2

-----------------------------------------------------------------------------
(* Every action preserves the inductive invariant: first the steps after   *)
(* which no right to a slot is anywhere it was not before.                 *)

\* The scanner touches no right.
LEMMA ScannerIInv ==
  ASSUME IInv, Scanner PROVE IInv'
<1>1. UNCHANGED <<roster, tgFile, certs, accepted, worker, outcomes, bus>>
  BY DEF Scanner, Observe, Rotate, disk, provision, handshake, engine
<1>2. TypeOK'
  BY ScannerTypeOK DEF IInv
<1> QED BY <1>1, <1>2, SameQueues, SameWorker, SameRoster, SameWorkerInv, SameRosterInv,
           ShrinkIInv DEF RightsShrink

\* Declaring and flashing a slot enrols nobody.
LEMMA OperatorIInv ==
  ASSUME IInv, Operator PROVE IInv'
<1>1. UNCHANGED <<tgFile, certs, accepted, worker, outcomes, bus>>
  BY DEF Operator, SlotCreate, FirstInstallDone, observer, provision, handshake, engine
<1>2. TypeOK'
  BY OperatorTypeOK DEF IInv
<1>3. \A t \in Slots :
        /\ roster'[t].device_pk = roster[t].device_pk
        /\ roster'[t].state = "enrolled" <=> roster[t].state = "enrolled"
  <2>1. roster \in [Slots -> Rows] /\ RosterInv
    BY DEF IInv, TypeOK
  <2>2. ASSUME NEW s \in Slots, SlotCreate(s)
        PROVE  \A t \in Slots :
                 /\ roster'[t].device_pk = roster[t].device_pk
                 /\ roster'[t].state = "enrolled" <=> roster[t].state = "enrolled"
    BY <2>1, <2>2 DEF SlotCreate, Save, RosterInv, Rows
  <2>3. ASSUME NEW s \in Slots, FirstInstallDone(s)
        PROVE  \A t \in Slots :
                 /\ roster'[t].device_pk = roster[t].device_pk
                 /\ roster'[t].state = "enrolled" <=> roster[t].state = "enrolled"
    BY <2>1, <2>3 DEF FirstInstallDone, Save, Rows
  <2> QED BY <2>2, <2>3 DEF Operator
<1>4. RosterInv' /\ \A d \in Devices : Held(d)' => Held(d)
  BY <1>3 DEF IInv, RosterInv, Held
<1> QED BY <1>1, <1>2, <1>4, SameQueues, SameWorker, SameWorkerInv, ShrinkIInv DEF RightsShrink

\* Handlers and polls that move no right, and the loss of an event.
LEMMA HiveShrinks ==
  ASSUME IInv, TickDone \/ PollObserver \/ HandleBeacon \/ HandleHandshakeError \/ TickBudgetSpent
  PROVE  IInv'
<1> USE DEF disk, observer, provision, handshake
<1>1. TypeOK /\ TypeOK'
  BY HiveTypeOK DEF IInv, Hive, Handlers
<1>2. UNCHANGED <<roster, tgFile, certs, accepted, outcomes>>
  BY DEF TickDone, PollObserver, HandleBeacon, HandleHandshakeError, TickBudgetSpent
<1>3. \A d \in Devices : (Has(bus, d)' => Has(bus, d)) /\ (Single(bus, d) => Single(bus, d)')
  <2>1. CASE UNCHANGED bus
    BY <2>1, SameQueues
  <2>2. CASE bus # << >> /\ bus' = Tail(bus)
    BY <2>2, <1>1, PopShrinks
  <2>3. CASE observed # << >> /\ bus' = Append(bus, Head(observed))
    <3> SUFFICES ASSUME NEW d \in Devices
                 PROVE  (Has(bus, d)' => Has(bus, d)) /\ (Single(bus, d) => Single(bus, d)')
      OBVIOUS
    <3>1. Head(observed) \in BeaconEvents /\ bus \in Seq(BusEvents)
      BY <2>3, <1>1 DEF TypeOK
    <3>2. Head(observed) \in BusEvents /\ ~Certifies(Head(observed), d)
      BY <3>1 DEF BusEvents, BeaconEvents, Certifies
    <3>3. /\ Has(bus, d)' <=> Has(Append(bus, Head(observed)), d)
          /\ Single(bus, d)' <=> Single(Append(bus, Head(observed)), d)
      BY <2>3 DEF Has, Single
    <3> QED BY <3>1, <3>2, <3>3, HasAppend
  <2> QED BY <2>1, <2>2, <2>3 DEF TickDone, PollObserver, HandleBeacon, HandleHandshakeError,
                                  TickBudgetSpent, Handling
<1>4. /\ WorkerInv' /\ \A d \in Devices : Reporting(d)' => Reporting(d)
  <2>1. CASE UNCHANGED worker
    BY <2>1, <1>2, SameWorkerInv, SameWorker
  <2>2. CASE worker' = Idle
    BY <2>2 DEF Idle, Unspawned, WorkerInv, Reporting
  <2> QED BY <2>1, <2>2 DEF TickDone, PollObserver, HandleBeacon, HandleHandshakeError,
                            TickBudgetSpent
<1> QED BY <1>1, <1>2, <1>3, <1>4, SameQueues, SameRoster, SameRosterInv, ShrinkIInv
        DEF RightsShrink

\* A restart loses the rights in memory; those on disk stay.
LEMMA RestartIInv ==
  ASSUME IInv, Restart PROVE IInv'
<1>1. TypeOK'
  BY RestartTypeOK DEF IInv
<1>2. UNCHANGED <<roster, tgFile, certs, accepted>> /\ bus' = << >> /\ outcomes' = << >>
      /\ worker' = Unspawned
  BY DEF Restart, disk
<1>3. \A d \in Devices : ~Has(bus, d)' /\ ~Has(outcomes, d)' /\ Single(bus, d)' /\ Single(outcomes, d)'
  BY <1>2, HasEmpty
<1>4. WorkerInv' /\ \A d \in Devices : ~Reporting(d)'
  BY <1>2 DEF Unspawned, WorkerInv, Reporting
<1> QED BY <1>1, <1>2, <1>3, <1>4, SameRoster, SameRosterInv, ShrinkIInv DEF RightsShrink

\* The steps of a handshake that do not yet, or no longer, admit the board.
LEMMA WorkerShrinks ==
  ASSUME IInv,
         TakeRequest \/ LoadTrustGroup \/ SendInvite \/ ProcessJoinRequest \/ HandshakeFails
  PROVE  IInv'
<1> USE DEF At, Target, Goto, disk, observer, provision, engine
<1>1. TypeOK /\ TypeOK' /\ WorkerInv
  BY WorkerTypeOK DEF IInv, Handshaking
<1>2. UNCHANGED <<roster, tgFile, certs, accepted, bus>>
  BY DEF TakeRequest, LoadTrustGroup, SendInvite, ProcessJoinRequest, HandshakeFails
<1>3. \A d \in Devices : /\ Has(outcomes, d)' => Has(outcomes, d)
                         /\ Single(outcomes, d) => Single(outcomes, d)'
  <2>1. CASE UNCHANGED outcomes
    BY <2>1, SameQueues
  <2>2. CASE HandshakeFails
    <3> DEFINE error == [type |-> "handshake.error", ble_addr |-> worker.req.ble_addr]
    <3>1. worker.req.ble_addr \in Devices
      BY <2>2, <1>1 DEF HandshakeFails, TypeOK, Requests
    <3>2. error \in OutcomeEvents /\ outcomes \in Seq(OutcomeEvents)
      BY <3>1, <1>1 DEF OutcomeEvents, ErrorEvents, TypeOK
    <3>3. \A d : ~Certifies(error, d)
      BY DEF Certifies
    <3>4. outcomes' = Append(outcomes, error)
      BY <2>2 DEF HandshakeFails
    <3> HIDE DEF error
    <3>5. \A d : /\ Has(outcomes, d)' <=> Has(Append(outcomes, error), d)
                 /\ Single(outcomes, d)' <=> Single(Append(outcomes, error), d)
      BY <3>4 DEF Has, Single
    <3> QED BY <3>2, <3>3, <3>5, HasAppend
  <2> QED BY <2>1, <2>2 DEF TakeRequest, LoadTrustGroup, SendInvite, ProcessJoinRequest
<1>4. WorkerInv' /\ worker'.pc \notin {"respond", "report"}
  <2>1. CASE TakeRequest
    BY <2>1, <1>1 DEF TakeRequest, TypeOK, Workers, WorkerInv
  <2>2. CASE LoadTrustGroup
    BY <2>2, <1>1 DEF LoadTrustGroup, TypeOK, Workers, WorkerInv
  <2>3. CASE SendInvite
    BY <2>3, <1>1 DEF SendInvite, TypeOK, Workers, WorkerInv
  <2>4. CASE ProcessJoinRequest
    <3>1. worker.tg = tgFile /\ worker.req.ble_addr \notin tgFile.members
      BY <2>4, <1>1 DEF ProcessJoinRequest, WorkerInv
    <3>2. worker \in Workers /\ tgFile \in TrustGroups
      BY <1>1 DEF TypeOK
    <3>3. worker' = [pc |-> "persist", req |-> worker.req,
                     tg |-> [members |-> worker.tg.members \cup {worker.req.ble_addr},
                             sequence |-> worker.tg.sequence + 1]]
      BY <2>4, <3>2 DEF ProcessJoinRequest, Workers, TrustGroups
    <3> QED BY <3>1, <3>3, <1>2 DEF WorkerInv
  <2>5. CASE HandshakeFails
    BY <2>5 DEF HandshakeFails, Idle, Unspawned, WorkerInv
  <2> QED BY <2>1, <2>2, <2>3, <2>4, <2>5
<1>5. \A d \in Devices : ~Reporting(d)'
  BY <1>4 DEF Reporting
<1> QED BY <1>1, <1>2, <1>3, <1>4, <1>5, SameQueues, SameRoster, SameRosterInv, ShrinkIInv
        DEF RightsShrink

(* The steps that create a right, or hand it on. *)

\* Saving the group is what admits the board, which had no right before.
LEMMA PersistIInv ==
  ASSUME IInv, PersistTrustGroup PROVE IInv'
<1> DEFINE d0 == worker.req.ble_addr
<1>1. TypeOK /\ TypeOK' /\ WorkerInv /\ MemberInv /\ TokenInv /\ ResponseSequencesDistinct
  BY WorkerTypeOK DEF IInv, Handshaking
<1>2. /\ worker.pc = "persist" /\ worker'.pc = "respond"
      /\ worker'.req = worker.req /\ worker'.tg = worker.tg /\ tgFile' = worker.tg
      /\ UNCHANGED <<roster, certs, accepted, outcomes, bus>>
  BY <1>1 DEF PersistTrustGroup, At, Goto, TypeOK, Workers, observer, provision, engine
<1>3. /\ d0 \notin tgFile.members
      /\ tgFile'.members = tgFile.members \cup {d0}
      /\ tgFile'.sequence = tgFile.sequence + 1
  BY <1>1, <1>2 DEF WorkerInv
<1>4. \A d \in Devices : accepted[d] \in Nat /\ accepted[d] <= tgFile.sequence
  BY <1>1 DEF TypeOK, ResponseSequencesDistinct
<1>5. tgFile.sequence \in Nat
  BY <1>1 DEF TypeOK, TrustGroups
<1>6. \A d \in Devices : Reporting(d)' <=> d = d0
  BY <1>2 DEF Reporting
<1>7. \A d \in Devices : /\ Held(d)' <=> Held(d)
                         /\ Joined(d)' <=> Joined(d)
  BY <1>2, SameRoster DEF Joined
<1>8. WorkerInv'
  BY <1>2, <1>3, <1>4, <1>5 DEF WorkerInv
<1>9. MemberInv'
  <2>1. \A d \in Devices : ~Reporting(d)
    BY <1>2 DEF Reporting
  <2> QED BY <1>1, <1>2, <1>3, <1>6, <1>7, SameQueues DEF MemberInv
<1>10. TokenInv'
  BY <1>1, <1>2, <1>3, <1>6, <1>7, SameQueues DEF TokenInv, MemberInv
<1>11. ResponseSequencesDistinct'
  BY <1>1, <1>2, <1>3, <1>4, <1>5, <1>7 DEF ResponseSequencesDistinct
<1> QED BY <1>1, <1>2, <1>8, <1>9, <1>10, <1>11, SameRosterInv DEF IInv

\* The board takes its JoinResponse under a sequence number nobody has taken.
LEMMA ResponseIInv ==
  ASSUME IInv, SendJoinResponse PROVE IInv'
<1> DEFINE d0 == worker.req.ble_addr
<1>1. TypeOK /\ TypeOK' /\ WorkerInv /\ MemberInv /\ TokenInv /\ ResponseSequencesDistinct
  BY WorkerTypeOK DEF IInv, Handshaking
<1>2. /\ worker.pc = "respond" /\ worker'.pc = "report"
      /\ worker'.req = worker.req /\ worker'.tg = worker.tg
      /\ UNCHANGED <<roster, tgFile, certs, outcomes, bus>>
      /\ accepted' = accepted \/ accepted' = [accepted EXCEPT ![d0] = worker.tg.sequence]
  BY <1>1 DEF SendJoinResponse, At, Goto, Target, TypeOK, Workers, disk, provision, engine
<1>3. worker.tg = tgFile /\ \A d \in Devices : accepted[d] < tgFile.sequence
  BY <1>1, <1>2 DEF WorkerInv
<1>4. /\ tgFile.sequence \in Nat /\ accepted \in [Devices -> Nat] /\ d0 \in Devices
  BY <1>1, <1>2 DEF TypeOK, TrustGroups, Requests
<1>5. Reporting(d0) /\ \A d \in Devices : Reporting(d)' <=> Reporting(d)
  BY <1>2 DEF Reporting
<1>6. \A d \in Devices : Joined(d)' => Joined(d) \/ d = d0
  BY <1>2, <1>4 DEF Joined
<1>7. WorkerInv'
  BY <1>2, <1>3 DEF WorkerInv
<1>8. MemberInv'
  BY <1>1, <1>2, <1>4, <1>5, <1>6, SameQueues, SameRoster DEF MemberInv
<1>9. TokenInv'
  BY <1>1, <1>2, <1>5, SameQueues, SameRoster DEF TokenInv
<1>10. ResponseSequencesDistinct'
  BY <1>1, <1>2, <1>3, <1>4 DEF ResponseSequencesDistinct, Joined
<1> QED BY <1>1, <1>2, <1>7, <1>8, <1>9, <1>10, SameRosterInv DEF IInv

\* The right goes from the worker to an event in outcomes.
LEMMA ReportIInv ==
  ASSUME IInv, ReportIdentity PROVE IInv'
<1> DEFINE d0 == worker.req.ble_addr
           identity == [type |-> "identity_observed", ble_addr |-> d0,
                        slot_id |-> worker.req.slot_id_hint]
<1>1. TypeOK /\ TypeOK' /\ WorkerInv /\ MemberInv /\ TokenInv /\ ResponseSequencesDistinct
  BY WorkerTypeOK DEF IInv, Handshaking
<1>2. /\ worker.pc = "report" /\ worker' = Idle
      /\ outcomes' = Append(outcomes, identity)
      /\ UNCHANGED <<roster, tgFile, certs, accepted, bus>>
  BY DEF ReportIdentity, At, Target, disk, observer, provision, engine
<1>3. d0 \in Devices /\ identity \in OutcomeEvents /\ outcomes \in Seq(OutcomeEvents)
  BY <1>1, <1>2 DEF TypeOK, Requests, OutcomeEvents, IdentityEvents
<1>4. \A d : Certifies(identity, d) <=> d = d0
  BY DEF Certifies
<1>5. Reporting(d0)
  BY <1>2 DEF Reporting
<1>6. \A d \in Devices : ~Reporting(d)'
  BY <1>2 DEF Reporting, Idle, Unspawned
<1> HIDE DEF identity
<1>7. \A d \in Devices : /\ Has(outcomes, d)' => Has(outcomes, d) \/ d = d0
                         /\ Single(outcomes, d)'
  <2>1. \A d : /\ Has(outcomes, d)' <=> Has(Append(outcomes, identity), d)
               /\ Single(outcomes, d)' <=> Single(Append(outcomes, identity), d)
    BY <1>2 DEF Has, Single
  <2>2. \A d \in Devices : Single(outcomes, d) /\ ~(Has(outcomes, d) /\ d = d0)
    BY <1>1, <1>5 DEF TokenInv
  <2> QED BY <2>1, <2>2, <1>3, <1>4, HasAppend
<1>8. WorkerInv'
  BY <1>2 DEF WorkerInv, Idle, Unspawned
<1>9. \A d \in Devices : Joined(d)' <=> Joined(d)
  BY <1>2 DEF Joined
<1>10. MemberInv'
  BY <1>1, <1>2, <1>3, <1>5, <1>6, <1>7, <1>9, SameQueues, SameRoster DEF MemberInv
<1>11. TokenInv'
  BY <1>1, <1>2, <1>3, <1>5, <1>6, <1>7, SameQueues, SameRoster DEF TokenInv
<1>12. ResponseSequencesDistinct'
  BY <1>1, <1>2, <1>9 DEF ResponseSequencesDistinct
<1> QED BY <1>1, <1>2, <1>8, <1>10, <1>11, <1>12, SameRosterInv DEF IInv

\* The right goes from outcomes to the bus.
LEMMA PollHandshakeIInv ==
  ASSUME IInv, PollHandshake PROVE IInv'
<1>1. TypeOK /\ TypeOK' /\ MemberInv /\ TokenInv /\ ResponseSequencesDistinct
  BY HiveTypeOK DEF IInv, Hive
<1>2. UNCHANGED <<roster, tgFile, certs, accepted, worker>>
  BY DEF PollHandshake, disk, observer, provision
<1>3. CASE outcomes = << >>
  <2>1. UNCHANGED <<outcomes, bus>>
    BY <1>3 DEF PollHandshake
  <2> QED BY <2>1, <1>1, <1>2, SameQueues, SameRoster, SameWorker, SameWorkerInv,
             SameRosterInv, ShrinkIInv DEF RightsShrink
<1>4. CASE outcomes # << >>
  <2> DEFINE event == Head(outcomes)
  <2>1. /\ outcomes \in Seq(OutcomeEvents) /\ bus \in Seq(BusEvents)
        /\ event \in OutcomeEvents /\ event \in BusEvents
    <3>1. outcomes \in Seq(OutcomeEvents) /\ bus \in Seq(BusEvents)
      BY <1>1 DEF TypeOK
    <3>2. event \in OutcomeEvents
      BY <3>1, <1>4
    <3> QED BY <3>1, <3>2 DEF BusEvents
  <2>2. outcomes' = Tail(outcomes) /\ bus' = Append(bus, event)
    BY <1>4 DEF PollHandshake
  <2> HIDE DEF event
  <2>3. \A d : /\ Has(outcomes, d)' <=> Has(Tail(outcomes), d)
               /\ Single(outcomes, d)' <=> Single(Tail(outcomes), d)
               /\ Has(bus, d)' <=> Has(Append(bus, event), d)
               /\ Single(bus, d)' <=> Single(Append(bus, event), d)
    BY <2>2 DEF Has, Single
  <2>4. \A d \in Devices :
          /\ Has(outcomes, d)' => Has(outcomes, d)
          /\ Certifies(event, d) => Has(outcomes, d) /\ ~Has(outcomes, d)'
          /\ Single(outcomes, d)'
    <3>1. \A d \in Devices : Single(outcomes, d)
      BY <1>1 DEF TokenInv
    <3> QED BY <3>1, <2>1, <2>3, <1>4, HasTail DEF event
  <2>5. \A d \in Devices :
          /\ Has(bus, d)' => Has(bus, d) \/ Certifies(event, d)
          /\ Single(bus, d)'
    <3>1. \A d \in Devices : Single(bus, d) /\ ~(Has(bus, d) /\ Certifies(event, d))
      BY <1>1, <2>4 DEF TokenInv
    <3> QED BY <3>1, <2>1, <2>3, HasAppend
  <2>6. \A d \in Devices : Joined(d)' <=> Joined(d)
    BY <1>2 DEF Joined
  <2>7. MemberInv'
    BY <1>1, <1>2, <2>4, <2>5, <2>6, SameRoster, SameWorker DEF MemberInv
  <2>8. TokenInv'
    BY <1>1, <1>2, <2>4, <2>5, SameRoster, SameWorker DEF TokenInv
  <2>9. ResponseSequencesDistinct'
    BY <1>1, <1>2, <2>6 DEF ResponseSequencesDistinct
  <2> QED BY <1>1, <1>2, <2>7, <2>8, <2>9, SameWorkerInv, SameRosterInv DEF IInv
<1> QED BY <1>3, <1>4

\* The right stays on the bus, as device.enrolled now; the certificate file is
\* one of a board that was admitted.
LEMMA HandleIdentityIInv ==
  ASSUME IInv, HandleIdentity PROVE IInv'
<1> DEFINE d0 == Head(bus).ble_addr
           enrolled == [type |-> "device.enrolled", ble_addr |-> d0,
                        slot_id |-> Head(bus).slot_id]
<1>1. TypeOK /\ TypeOK' /\ MemberInv /\ TokenInv /\ ResponseSequencesDistinct
  BY HiveTypeOK DEF IInv, Hive, Handlers
<1>2. /\ UNCHANGED <<roster, tgFile, accepted, outcomes, worker>>
      /\ bus # << >> /\ bus' = Append(Tail(bus), enrolled)
      /\ certs' \in {certs, certs \cup {d0}}
  BY DEF HandleIdentity, Handling, observer, handshake
<1>3. /\ Head(bus).type = "identity_observed" /\ d0 \in Devices /\ Head(bus).slot_id \in Slots
      /\ bus \in Seq(BusEvents) /\ Tail(bus) \in Seq(BusEvents)
  BY <1>1, HandlingFacts DEF HandleIdentity, TypeOK
<1>4. enrolled \in BusEvents /\ \A d : Certifies(enrolled, d) <=> d = d0
  BY <1>3 DEF BusEvents, EnrolledEvents, Certifies
<1>5. \A d : Certifies(Head(bus), d) <=> d = d0
  BY <1>3 DEF Certifies
<1> HIDE DEF enrolled
<1>6. \A d : /\ Has(bus, d)' <=> Has(Append(Tail(bus), enrolled), d)
             /\ Single(bus, d)' <=> Single(Append(Tail(bus), enrolled), d)
  BY <1>2 DEF Has, Single
<1>7. Has(bus, d0)
  BY <1>2, <1>3, <1>5, HasTail
<1>8. \A d \in Devices : (Has(bus, d)' => Has(bus, d)) /\ Single(bus, d)'
  <2>1. \A d \in Devices : /\ Has(Tail(bus), d) => Has(bus, d)
                           /\ Single(Tail(bus), d)
                           /\ ~(Has(Tail(bus), d) /\ Certifies(enrolled, d))
    BY <1>1, <1>2, <1>3, <1>4, <1>5, HasTail DEF TokenInv
  <2> QED BY <2>1, <1>3, <1>4, <1>6, <1>7, HasAppend
<1>9. \A d \in Devices : Joined(d)' <=> Joined(d)
  BY <1>2 DEF Joined
<1>10. MemberInv'
  BY <1>1, <1>2, <1>7, <1>8, <1>9, SameQueues, SameRoster, SameWorker DEF MemberInv
<1>11. TokenInv'
  BY <1>1, <1>2, <1>8, SameQueues, SameRoster, SameWorker DEF TokenInv
<1>12. ResponseSequencesDistinct'
  BY <1>1, <1>2, <1>9 DEF ResponseSequencesDistinct
<1> QED BY <1>1, <1>2, <1>10, <1>11, <1>12, SameWorkerInv, SameRosterInv DEF IInv

\* The right is turned into a row of the roster, or lost.
LEMMA DeviceEnrolledIInv ==
  ASSUME IInv, HandleDeviceEnrolled PROVE IInv'
<1>1. /\ TypeOK /\ TypeOK' /\ MemberInv /\ TokenInv /\ RosterInv /\ ResponseSequencesDistinct
  BY HiveTypeOK DEF IInv, Hive, Handlers
<1>2. /\ UNCHANGED <<tgFile, certs, accepted, outcomes, worker>>
      /\ bus # << >> /\ bus' = Tail(bus)
  BY DEF HandleDeviceEnrolled, Handling, observer, provision, handshake
<1>3a. /\ Head(bus).type = "device.enrolled"
       /\ Head(bus).ble_addr \in Devices /\ Head(bus).slot_id \in Slots
       /\ bus \in Seq(BusEvents)
  BY <1>1, HandlingFacts DEF HandleDeviceEnrolled, TypeOK
<1>3b. PICK d0 \in Devices, s0 \in Slots : d0 = Head(bus).ble_addr /\ s0 = Head(bus).slot_id
  BY <1>3a
<1>3. /\ Head(bus).type = "device.enrolled" /\ bus \in Seq(BusEvents)
      /\ d0 = Head(bus).ble_addr /\ s0 = Head(bus).slot_id
  BY <1>3a, <1>3b
<1>4. \A d : Certifies(Head(bus), d) <=> d = d0
  BY <1>3 DEF Certifies
<1>5. \A d : /\ Has(bus, d)' <=> Has(Tail(bus), d)
             /\ Single(bus, d)' <=> Single(Tail(bus), d)
  BY <1>2 DEF Has, Single
<1>6. /\ Has(bus, d0) /\ ~Has(bus, d0)'
      /\ \A d \in Devices : (Has(bus, d)' => Has(bus, d)) /\ Single(bus, d)'
  <2>1. \A d \in Devices : Single(bus, d)
    BY <1>1 DEF TokenInv
  <2> QED BY <2>1, <1>2, <1>3, <1>4, <1>5, HasTail
<1>7. ~Has(outcomes, d0) /\ ~Held(d0) /\ ~Reporting(d0) /\ d0 \in tgFile.members
  BY <1>1, <1>3, <1>6 DEF TokenInv, MemberInv
<1>8. \/ UNCHANGED roster
      \/ roster' = [roster EXCEPT ![s0] = [state |-> "enrolled", device_pk |-> d0]]
  BY <1>3 DEF HandleDeviceEnrolled, Save
<1>9. \A d \in Devices : Held(d)' => Held(d) \/ d = d0
  <2>1. roster \in [Slots -> Rows]
    BY <1>1 DEF TypeOK
  <2> QED BY <2>1, <1>8 DEF Held
<1>10. RosterInv'
  <2>1. roster \in [Slots -> Rows] /\ RosterInv
    BY <1>1 DEF TypeOK
  <2>2. \A s \in Slots : roster[s].device_pk # d0
    BY <1>7 DEF Held
  <2>3. CASE UNCHANGED roster
    BY <2>1, <2>3 DEF RosterInv
  <2>4. CASE roster' = [roster EXCEPT ![s0] = [state |-> "enrolled", device_pk |-> d0]]
    <3>1. /\ roster'[s0].state = "enrolled" /\ roster'[s0].device_pk = d0
          /\ \A s \in Slots \ {s0} : roster'[s] = roster[s]
      BY <2>1, <2>4
    <3> QED BY <2>1, <2>2, <3>1 DEF RosterInv
  <2> QED BY <1>8, <2>3, <2>4
<1>11. \A d \in Devices : Joined(d)' <=> Joined(d)
  BY <1>2 DEF Joined
<1>12. MemberInv'
  BY <1>1, <1>2, <1>6, <1>7, <1>9, <1>11, SameQueues, SameWorker DEF MemberInv
<1>13. TokenInv'
  BY <1>1, <1>2, <1>6, <1>7, <1>9, SameQueues, SameWorker DEF TokenInv
<1>14. ResponseSequencesDistinct'
  BY <1>1, <1>2, <1>11 DEF ResponseSequencesDistinct
<1> QED BY <1>1, <1>2, <1>10, <1>12, <1>13, <1>14, SameWorkerInv DEF IInv

\* Every step preserves the inductive invariant, by the lemmas above.
LEMMA NextIInv ==
  ASSUME IInv, [Next]_vars PROVE IInv'
<1>1. CASE Next
  BY <1>1, ScannerIInv, OperatorIInv, HiveShrinks, RestartIInv, WorkerShrinks, PersistIInv,
     ResponseIInv, ReportIInv, PollHandshakeIInv, HandleIdentityIInv, DeviceEnrolledIInv
     DEF Next, Hive, Handlers, Handshaking
<1>2. CASE UNCHANGED vars
  <2>1. UNCHANGED <<roster, tgFile, certs, accepted, worker, outcomes, bus>>
    BY <1>2 DEF vars, disk, observer, provision, handshake, engine
  <2>2. TypeOK'
    BY <1>2 DEF IInv, vars, disk, observer, provision, handshake, engine, TypeOK
  <2> QED BY <2>1, <2>2, SameQueues, SameRoster, SameWorker, SameWorkerInv, SameRosterInv,
             ShrinkIInv DEF RightsShrink
<1> QED BY <1>1, <1>2

\* The inductive invariant: each member has at most one right to a slot, be it in
\* the worker, in an event or in a row of the roster, and each right is a member's.
THEOREM Inductive == Spec => []IInv
  BY InitIInv, NextIInv, PTL DEF Spec

-----------------------------------------------------------------------------
(* What follows. *)

\* A board that joined, a slot that is enrolled and a certificate file all find
\* the membership they rely on in tg_state.bin, after any crash.
THEOREM DurableEnrolment == Spec => []EnrolmentIsDurable
<1>1. IInv => EnrolmentIsDurable
  <2> SUFFICES ASSUME IInv PROVE EnrolmentIsDurable
    OBVIOUS
  <2>1. TypeOK /\ MemberInv /\ RosterInv
    BY DEF IInv
  <2>2. \A d \in Devices : Joined(d) => d \in tgFile.members
    BY <2>1 DEF MemberInv
  <2>3. certs \subseteq tgFile.members
    BY <2>1 DEF MemberInv, TypeOK
  <2>4. ASSUME NEW s \in Slots, roster[s].state = "enrolled"
        PROVE  roster[s].device_pk \in tgFile.members
    <3>1. roster[s].device_pk \in Devices
      BY <2>1, <2>4 DEF TypeOK, Rows, RosterInv
    <3> QED BY <3>1, <2>1 DEF MemberInv, Held
  <2> QED BY <2>2, <2>3, <2>4 DEF EnrolmentIsDurable
<1> QED BY <1>1, Inductive, PTL

\* A board never holds two slots.
THEOREM OneSlot == Spec => []OneSlotPerDevice
<1>1. IInv => OneSlotPerDevice
  BY DEF IInv, RosterInv, OneSlotPerDevice
<1> QED BY <1>1, Inductive, PTL

\* No two boards join under the same sequence number, across restarts.
THEOREM DistinctSequences == Spec => []ResponseSequencesDistinct
<1>1. IInv => ResponseSequencesDistinct
  BY DEF IInv
<1> QED BY <1>1, Inductive, PTL

-----------------------------------------------------------------------------
(* Refinement: saving the group is Admit, taking a row is Bind.            *)

\* The first start of the chain is the first state of Enrolment.
LEMMA InitRefines == Init => E!Init
  BY DEF Init, E!Init, NewTrustGroup

\* A step that changes none of what Enrolment talks about.
LEMMA StutterRefines ==
  UNCHANGED <<roster, tgFile>> => UNCHANGED E!vars
  BY DEF E!vars

\* Every step of the chain is a step of Enrolment or leaves what it sees alone.
LEMMA NextRefines ==
  ASSUME IInv, [Next]_vars PROVE [E!Next]_(E!vars)
<1>1. TypeOK /\ WorkerInv /\ MemberInv /\ TokenInv /\ RosterInv
  BY DEF IInv
<1>2. roster \in [Slots -> Rows]
  BY <1>1 DEF TypeOK
<1>3. CASE UNCHANGED <<roster, tgFile>>
  BY <1>3, StutterRefines
<1>4. ASSUME NEW s \in Slots, SlotCreate(s) PROVE [E!Next]_(E!vars)
  <2>1. CASE roster' = [roster EXCEPT ![s] = [state |-> "placeholder", device_pk |-> None]]
    <3>1. tgFile' = tgFile /\ roster[s].state = "absent" /\ roster[s].device_pk = None
      BY <1>1, <1>2, <1>4 DEF SlotCreate, RosterInv, Rows
    <3>2. E!Declare(s)
      BY <1>2, <2>1, <3>1 DEF E!Declare
    <3> QED BY <3>2 DEF E!Next
  <2> QED BY <1>3, <1>4, <2>1 DEF SlotCreate, Save
<1>5. ASSUME NEW s \in Slots, FirstInstallDone(s) PROVE [E!Next]_(E!vars)
  <2>1. CASE roster' = [roster EXCEPT ![s] = [roster[s] EXCEPT !.state = "flashed_pending_pk"]]
    <3>1. tgFile' = tgFile /\ roster[s].state = "placeholder"
      BY <1>5 DEF FirstInstallDone
    <3>2. E!Flash(s)
      BY <1>2, <2>1, <3>1 DEF E!Flash, Rows
    <3> QED BY <3>2 DEF E!Next
  <2> QED BY <1>3, <1>5, <2>1 DEF FirstInstallDone, Save
<1>6. CASE PersistTrustGroup
  <2>1. /\ worker.req.ble_addr \in Devices
        /\ worker.req.ble_addr \notin tgFile.members
        /\ tgFile'.members = tgFile.members \cup {worker.req.ble_addr}
        /\ UNCHANGED roster
    BY <1>1, <1>6 DEF PersistTrustGroup, At, WorkerInv, TypeOK, Requests
  <2>2. E!Admit(worker.req.ble_addr)
    BY <2>1 DEF E!Admit
  <2> QED BY <2>1, <2>2 DEF E!Next
<1>7. CASE HandleDeviceEnrolled
  <2>1. PICK d0 \in Devices, s0 \in Slots :
          d0 = Head(bus).ble_addr /\ s0 = Head(bus).slot_id
    BY <1>1, <1>7, HandlingFacts DEF HandleDeviceEnrolled
  <2>2. /\ Certifies(Head(bus), d0) /\ bus # << >> /\ bus \in Seq(BusEvents)
    BY <1>1, <1>7, <2>1 DEF HandleDeviceEnrolled, Handling, Certifies, TypeOK
  <2>3. d0 \in tgFile.members /\ \A s \in Slots : roster[s].device_pk # d0
    BY <1>1, <2>2, HasTail DEF MemberInv, TokenInv, Held
  <2>4. CASE /\ roster[s0].state = "flashed_pending_pk"
             /\ roster' = [roster EXCEPT ![s0] = [state |-> "enrolled", device_pk |-> d0]]
    <3>1. tgFile' = tgFile
      BY <1>7 DEF HandleDeviceEnrolled
    <3>2. E!Bind(s0, d0)
      BY <1>2, <2>3, <2>4, <3>1 DEF E!Bind
    <3> QED BY <3>2 DEF E!Next
  <2> QED BY <1>3, <1>7, <2>1, <2>4 DEF HandleDeviceEnrolled, Save
<1>8. CASE UNCHANGED vars
  BY <1>3, <1>8 DEF vars, disk
<1>9. CASE Scanner \/ TickDone \/ PollObserver \/ PollHandshake \/ HandleBeacon \/ HandleIdentity
           \/ HandleHandshakeError \/ TickBudgetSpent \/ Restart
  BY <1>3, <1>9 DEF Scanner, Observe, Rotate, TickDone, PollObserver, PollHandshake, HandleBeacon,
     HandleIdentity, HandleHandshakeError, TickBudgetSpent, Restart, disk
<1>10. CASE TakeRequest \/ LoadTrustGroup \/ SendInvite \/ ProcessJoinRequest \/ SendJoinResponse
            \/ ReportIdentity \/ HandshakeFails
  BY <1>3, <1>10 DEF TakeRequest, LoadTrustGroup, SendInvite, ProcessJoinRequest,
     SendJoinResponse, ReportIdentity, HandshakeFails, disk
<1> QED BY <1>4, <1>5, <1>6, <1>7, <1>8, <1>9, <1>10 DEF Next, Operator, Hive, Handlers, Handshaking

\* The provisioning chain implements Enrolment: one board, one slot, for good,
\* and only for boards that were admitted.
THEOREM Refinement == Spec => Enrolls
  BY Inductive, InitRefines, NextRefines, PTL DEF Spec, Enrolls, E!Spec

-----------------------------------------------------------------------------
(* A board has one handshake attempt at a time.  An attempt travels as a token *)
(* does: from the cell to the worker, from there as an outcome to the pending  *)
(* list and to the bus, and its address stays in in_flight all the way.  The   *)
(* cell may lose it to another board's; no step makes a second one.            *)

Waiting(d) == handshakeSlot # None /\ handshakeSlot.ble_addr = d
Running(d) == worker.req # None /\ worker.req.ble_addr = d
Ended(queue, d) == \E i \in DOMAIN queue : Outcome(queue[i], d)
OneEnd(queue, d) ==
  \A i, j \in DOMAIN queue : Outcome(queue[i], d) /\ Outcome(queue[j], d) => i = j

\* An attempt is in one place, and in_flight knows of it.
OnePlace(d) ==
  /\ OneEnd(outcomes, d) /\ OneEnd(bus, d)
  /\ Waiting(d) => ~Running(d) /\ ~Ended(outcomes, d) /\ ~Ended(bus, d)
  /\ Running(d) => ~Ended(outcomes, d) /\ ~Ended(bus, d)
  /\ Ended(outcomes, d) => ~Ended(bus, d)
  /\ Waiting(d) \/ Running(d) \/ Ended(outcomes, d) \/ Ended(bus, d) => d \in inFlight

\* The worker has a request exactly while it is busy.
BusyInv == worker.req = None <=> worker.pc \in {"unspawned", "idle"}

AttemptInv == TypeOK /\ BusyInv /\ \A d \in Devices : OnePlace(d)

-----------------------------------------------------------------------------
(* Queues of events. *)

\* Appending an event ends the attempt it is an outcome of, and no other.
LEMMA EndedAppend ==
  ASSUME NEW S, NEW q \in Seq(S), NEW e \in S, NEW d
  PROVE  /\ Ended(Append(q, e), d) => Ended(q, d) \/ Outcome(e, d)
         /\ OneEnd(q, d) /\ ~(Ended(q, d) /\ Outcome(e, d)) => OneEnd(Append(q, e), d)
<1>1. /\ DOMAIN Append(q, e) = 1..(Len(q) + 1)
      /\ Append(q, e)[Len(q) + 1] = e
      /\ \A i \in 1..Len(q) : Append(q, e)[i] = q[i]
      /\ DOMAIN q = 1..Len(q) /\ Len(q) \in Nat
  OBVIOUS
<1>2. \A i \in DOMAIN Append(q, e) : i \in DOMAIN q \/ i = Len(q) + 1
  BY <1>1
<1>3. Ended(Append(q, e), d) => Ended(q, d) \/ Outcome(e, d)
  BY <1>1, <1>2 DEF Ended
<1>4. ASSUME OneEnd(q, d), ~(Ended(q, d) /\ Outcome(e, d))
      PROVE  OneEnd(Append(q, e), d)
  <2> SUFFICES ASSUME NEW i \in DOMAIN Append(q, e), NEW j \in DOMAIN Append(q, e),
                      Outcome(Append(q, e)[i], d), Outcome(Append(q, e)[j], d)
               PROVE  i = j
    BY DEF OneEnd
  <2>1. CASE i \in DOMAIN q /\ j \in DOMAIN q
    BY <2>1, <1>1, <1>4 DEF OneEnd
  <2>2. CASE i = Len(q) + 1 /\ j = Len(q) + 1
    BY <2>2
  <2>3. CASE i \in DOMAIN q /\ j = Len(q) + 1
    BY <2>3, <1>1, <1>4 DEF Ended
  <2>4. CASE i = Len(q) + 1 /\ j \in DOMAIN q
    BY <2>4, <1>1, <1>4 DEF Ended
  <2> QED BY <2>1, <2>2, <2>3, <2>4, <1>2
<1> QED BY <1>3, <1>4

\* Taking the head off a queue takes the only outcome of its attempt with it.
LEMMA EndedTail ==
  ASSUME NEW S, NEW q \in Seq(S), q # << >>, NEW d
  PROVE  /\ Ended(Tail(q), d) => Ended(q, d)
         /\ Outcome(Head(q), d) => Ended(q, d)
         /\ OneEnd(q, d) => OneEnd(Tail(q), d)
         /\ OneEnd(q, d) /\ Outcome(Head(q), d) => ~Ended(Tail(q), d)
<1>1. /\ Len(q) \in Nat \ {0} /\ DOMAIN q = 1..Len(q)
      /\ DOMAIN Tail(q) = 1..(Len(q) - 1)
      /\ Head(q) = q[1]
      /\ \A i \in 1..(Len(q) - 1) : Tail(q)[i] = q[i + 1]
  OBVIOUS
<1>2. /\ 1 \in DOMAIN q
      /\ \A i \in DOMAIN Tail(q) : i + 1 \in DOMAIN q /\ i + 1 # 1 /\ Tail(q)[i] = q[i + 1]
  BY <1>1
<1>3. Ended(Tail(q), d) => Ended(q, d)
  BY <1>2 DEF Ended
<1>4. Outcome(Head(q), d) => Ended(q, d)
  BY <1>1, <1>2 DEF Ended
<1>5. ASSUME OneEnd(q, d) PROVE OneEnd(Tail(q), d)
  <2> SUFFICES ASSUME NEW i \in DOMAIN Tail(q), NEW j \in DOMAIN Tail(q),
                      Outcome(Tail(q)[i], d), Outcome(Tail(q)[j], d)
               PROVE  i = j
    BY DEF OneEnd
  <2>1. i + 1 = j + 1
    BY <1>2, <1>5 DEF OneEnd
  <2> QED BY <2>1, <1>1
<1>6. OneEnd(q, d) /\ Outcome(Head(q), d) => ~Ended(Tail(q), d)
  BY <1>1, <1>2 DEF Ended, OneEnd
<1> QED BY <1>3, <1>4, <1>5, <1>6

-----------------------------------------------------------------------------
(* Steps that move no attempt, and steps that lose one. *)

\* A step after which every place holds at most what it held.
AttemptsShrink ==
  \A d \in Devices :
    /\ Waiting(d)' => Waiting(d)
    /\ Running(d)' => Running(d)
    /\ Ended(outcomes, d)' => Ended(outcomes, d)
    /\ Ended(bus, d)' => Ended(bus, d)
    /\ OneEnd(outcomes, d)' /\ OneEnd(bus, d)'
    /\ (Waiting(d) \/ Running(d) \/ Ended(outcomes, d) \/ Ended(bus, d))' /\ d \in inFlight
         => d \in inFlight'

\* Such a step preserves the invariant.
LEMMA ShrinkAttempts ==
  ASSUME AttemptInv, TypeOK', BusyInv', AttemptsShrink
  PROVE  AttemptInv'
<1>1. \A d \in Devices : OnePlace(d)'
  BY DEF AttemptInv, AttemptsShrink, OnePlace
<1> QED BY <1>1 DEF AttemptInv

\* The scanner, the operator, and the steps of a handshake before it ends.
LEMMA QuietSteps ==
  ASSUME AttemptInv, TypeOK',
         UNCHANGED <<handshakeSlot, outcomes, bus, inFlight>>, worker'.req = worker.req,
         worker.pc = worker'.pc \/ {worker.pc, worker'.pc} \cap {"unspawned", "idle"} = {}
  PROVE  AttemptInv'
<1>1. BusyInv'
  BY DEF AttemptInv, BusyInv
<1>2. \A d : /\ Waiting(d)' <=> Waiting(d)
             /\ Running(d)' <=> Running(d)
             /\ Ended(outcomes, d)' <=> Ended(outcomes, d)
             /\ Ended(bus, d)' <=> Ended(bus, d)
             /\ OneEnd(outcomes, d)' <=> OneEnd(outcomes, d)
             /\ OneEnd(bus, d)' <=> OneEnd(bus, d)
  BY DEF Waiting, Running, Ended, OneEnd
<1>3. AttemptsShrink
  BY <1>2 DEF AttemptsShrink, AttemptInv, OnePlace
<1> QED BY <1>1, <1>3, ShrinkAttempts

\* The head of the bus is dropped, and is no outcome of what stays in flight.
LEMMA BusShrinks ==
  ASSUME AttemptInv, TypeOK', UNCHANGED <<handshakeSlot, worker, outcomes>>,
         bus # << >>, bus' = Tail(bus),
         \A d \in Devices : d \in inFlight => d \in inFlight' \/ Outcome(Head(bus), d)
  PROVE  AttemptInv'
<1>1. bus \in Seq(BusEvents) /\ \A d \in Devices : OnePlace(d)
  BY DEF AttemptInv, TypeOK
<1>2. BusyInv'
  BY DEF AttemptInv, BusyInv
<1>3. \A d : /\ Waiting(d)' <=> Waiting(d)
             /\ Running(d)' <=> Running(d)
             /\ Ended(outcomes, d)' <=> Ended(outcomes, d)
             /\ OneEnd(outcomes, d)' <=> OneEnd(outcomes, d)
             /\ Ended(bus, d)' <=> Ended(Tail(bus), d)
             /\ OneEnd(bus, d)' <=> OneEnd(Tail(bus), d)
  BY DEF Waiting, Running, Ended, OneEnd
<1>4. \A d \in Devices : /\ Ended(Tail(bus), d) => Ended(bus, d)
                         /\ Outcome(Head(bus), d) => Ended(bus, d)
                         /\ OneEnd(Tail(bus), d)
                         /\ Outcome(Head(bus), d) => ~Ended(Tail(bus), d)
  BY <1>1, EndedTail DEF OnePlace
<1>5. AttemptsShrink
  BY <1>1, <1>3, <1>4 DEF AttemptsShrink, OnePlace
<1> QED BY <1>2, <1>5, ShrinkAttempts

\* An event that is no outcome joins the bus.
LEMMA BusGrows ==
  ASSUME AttemptInv, NEW q \in Seq(BusEvents), NEW e \in BusEvents,
         \A d : ~Outcome(e, d), bus' = Append(q, e)
  PROVE  \A d \in Devices : /\ Ended(bus, d)' => Ended(q, d)
                            /\ OneEnd(q, d) => OneEnd(bus, d)'
<1>1. \A d : /\ Ended(bus, d)' <=> Ended(Append(q, e), d)
             /\ OneEnd(bus, d)' <=> OneEnd(Append(q, e), d)
  BY DEF Ended, OneEnd
<1> QED BY <1>1, EndedAppend

\* A beacon joins the bus, or nothing does.
LEMMA PollObserverAttempts ==
  ASSUME AttemptInv, PollObserver PROVE AttemptInv'
<1>1. TypeOK /\ TypeOK' /\ UNCHANGED <<handshakeSlot, worker, outcomes, inFlight>>
  BY HiveTypeOK DEF AttemptInv, Hive, PollObserver, provision, handshake
<1>2. CASE observed = << >>
  BY <1>1, <1>2, QuietSteps DEF PollObserver
<1>3. CASE observed # << >>
  <2>1. observed \in Seq(BeaconEvents) /\ bus \in Seq(BusEvents)
    BY <1>1 DEF TypeOK
  <2>2. PICK e \in BeaconEvents : e = Head(observed)
    BY <2>1, <1>3
  <2>3. e \in BusEvents /\ \A d : ~Outcome(e, d)
    BY <2>2 DEF BusEvents, BeaconEvents, Outcome
  <2>4. bus' = Append(bus, e)
    BY <1>3, <2>2 DEF PollObserver
  <2>5. \A d \in Devices : (Ended(bus, d)' => Ended(bus, d)) /\ OneEnd(bus, d)'
    BY <2>1, <2>3, <2>4, BusGrows DEF AttemptInv, OnePlace
  <2>6. \A d : /\ Waiting(d)' <=> Waiting(d)
               /\ Running(d)' <=> Running(d)
               /\ Ended(outcomes, d)' <=> Ended(outcomes, d)
               /\ OneEnd(outcomes, d)' <=> OneEnd(outcomes, d)
    BY <1>1 DEF Waiting, Running, Ended, OneEnd
  <2>7. AttemptsShrink
    BY <1>1, <2>5, <2>6 DEF AttemptsShrink, AttemptInv, OnePlace
  <2>8. BusyInv'
    BY <1>1 DEF AttemptInv, BusyInv
  <2> QED BY <1>1, <2>7, <2>8, ShrinkAttempts
<1> QED BY <1>2, <1>3

\* The outcome of an attempt, and the address with it, gives way to device.enrolled.
LEMMA HandleIdentityAttempts ==
  ASSUME AttemptInv, HandleIdentity PROVE AttemptInv'
<1> DEFINE enrolled == [type |-> "device.enrolled", ble_addr |-> Head(bus).ble_addr,
                        slot_id |-> Head(bus).slot_id]
<1>1. TypeOK /\ TypeOK' /\ bus \in Seq(BusEvents)
  BY HiveTypeOK DEF AttemptInv, Hive, Handlers, TypeOK
<1>2. /\ UNCHANGED <<handshakeSlot, worker, outcomes>>
      /\ bus # << >> /\ bus' = Append(Tail(bus), enrolled)
      /\ inFlight' = inFlight \ {Head(bus).ble_addr}
  BY DEF HandleIdentity, Handling, handshake
<1>3. /\ Head(bus).type = "identity_observed" /\ Tail(bus) \in Seq(BusEvents)
      /\ enrolled \in BusEvents /\ \A d : ~Outcome(enrolled, d)
  BY <1>1, HandlingFacts DEF HandleIdentity, BusEvents, EnrolledEvents, Outcome
<1>4. \A d : Outcome(Head(bus), d) <=> d = Head(bus).ble_addr
  BY <1>3 DEF Outcome
<1> HIDE DEF enrolled
<1>5. \A d \in Devices : /\ Ended(bus, d)' => Ended(Tail(bus), d)
                         /\ OneEnd(Tail(bus), d) => OneEnd(bus, d)'
  BY <1>2, <1>3, BusGrows
<1>6. \A d \in Devices : /\ Ended(Tail(bus), d) => Ended(bus, d)
                         /\ Outcome(Head(bus), d) => Ended(bus, d)
                         /\ OneEnd(Tail(bus), d)
                         /\ Outcome(Head(bus), d) => ~Ended(Tail(bus), d)
  BY <1>1, <1>2, EndedTail DEF AttemptInv, OnePlace
<1>7. \A d : /\ Waiting(d)' <=> Waiting(d)
             /\ Running(d)' <=> Running(d)
             /\ Ended(outcomes, d)' <=> Ended(outcomes, d)
             /\ OneEnd(outcomes, d)' <=> OneEnd(outcomes, d)
  BY <1>2 DEF Waiting, Running, Ended, OneEnd
<1>8. AttemptsShrink
  BY <1>2, <1>4, <1>5, <1>6, <1>7 DEF AttemptsShrink, AttemptInv, OnePlace
<1>9. BusyInv'
  BY <1>2 DEF AttemptInv, BusyInv
<1> QED BY <1>1, <1>8, <1>9, ShrinkAttempts

\* A restart ends every attempt.
LEMMA RestartAttempts ==
  ASSUME AttemptInv, Restart PROVE AttemptInv'
<1>1. /\ TypeOK' /\ worker' = Unspawned
      /\ handshakeSlot' = None /\ outcomes' = << >> /\ bus' = << >>
  BY RestartTypeOK DEF AttemptInv, Restart
<1>2. DOMAIN << >> = {}
  OBVIOUS
<1>3. \A d : ~Waiting(d)' /\ ~Running(d)'
  BY <1>1 DEF Waiting, Running, Unspawned
<1>4. \A d : /\ ~Ended(outcomes, d)' /\ ~Ended(bus, d)'
             /\ OneEnd(outcomes, d)' /\ OneEnd(bus, d)'
  BY <1>1, <1>2 DEF Ended, OneEnd
<1>5. AttemptsShrink
  BY <1>3, <1>4 DEF AttemptsShrink
<1>6. BusyInv'
  BY <1>1 DEF BusyInv, Unspawned
<1> QED BY <1>1, <1>5, <1>6, ShrinkAttempts

-----------------------------------------------------------------------------
(* Steps that move an attempt on. *)

\* A board not in flight has no attempt: a beacon of it puts one into the cell.
LEMMA HandleBeaconAttempts ==
  ASSUME AttemptInv, HandleBeacon PROVE AttemptInv'
<1>1. TypeOK /\ TypeOK' /\ bus \in Seq(BusEvents) /\ bus # << >> /\ bus' = Tail(bus)
      /\ Head(bus).type = "beacon" /\ UNCHANGED outcomes
  BY HiveTypeOK DEF AttemptInv, Hive, Handlers, TypeOK, HandleBeacon, Handling
<1>2. \A d : ~Outcome(Head(bus), d)
  BY <1>1 DEF Outcome
<1>3. CASE UNCHANGED <<provision, worker>>
  BY <1>1, <1>3, BusShrinks DEF provision
<1>4. ASSUME Unattempted(Head(bus)),
             NEW s \in Slots, handshakeSlot' = [ble_addr |-> Head(bus).ble_addr, slot_id_hint |-> s],
             inFlight' = inFlight \cup {Head(bus).ble_addr},
             worker' = IF worker.pc = "unspawned" THEN Idle ELSE worker
      PROVE  AttemptInv'
  <2>1. PICK d0 : d0 = Head(bus).ble_addr
    OBVIOUS
  <2>2. d0 \notin inFlight
    BY <1>4, <2>1 DEF Unattempted
  <2>3. worker'.req = worker.req /\ BusyInv'
    BY <1>4 DEF AttemptInv, BusyInv, Idle, Unspawned
  <2>4. \A d : /\ Waiting(d)' => d = d0
               /\ Running(d)' <=> Running(d)
               /\ Ended(outcomes, d)' <=> Ended(outcomes, d)
               /\ OneEnd(outcomes, d)' <=> OneEnd(outcomes, d)
               /\ Ended(bus, d)' <=> Ended(Tail(bus), d)
               /\ OneEnd(bus, d)' <=> OneEnd(Tail(bus), d)
    BY <1>1, <1>4, <2>1, <2>3 DEF Waiting, Running, Ended, OneEnd
  <2>5. \A d \in Devices : /\ Ended(Tail(bus), d) => Ended(bus, d)
                           /\ OneEnd(Tail(bus), d)
    BY <1>1, EndedTail DEF AttemptInv, OnePlace
  <2>6. \A d : d \in inFlight' <=> d \in inFlight \/ d = d0
    BY <1>4, <2>1
  <2>7. \A d \in Devices : OnePlace(d)'
    BY <2>2, <2>4, <2>5, <2>6 DEF AttemptInv, OnePlace
  <2> QED BY <1>1, <2>3, <2>7 DEF AttemptInv
<1> QED BY <1>3, <1>4 DEF HandleBeacon

\* The attempt goes from the cell to the worker.
LEMMA TakeRequestAttempts ==
  ASSUME AttemptInv, TakeRequest PROVE AttemptInv'
<1>1. /\ TypeOK /\ TypeOK' /\ worker.pc = "idle" /\ handshakeSlot # None
      /\ handshakeSlot' = None
      /\ UNCHANGED <<outcomes, bus, inFlight>>
  BY WorkerTypeOK DEF AttemptInv, Handshaking, TakeRequest, At, engine
<1>2. worker'.req = handshakeSlot /\ worker'.pc = "load" /\ worker.req = None
  BY <1>1 DEF TakeRequest, TypeOK, Workers, AttemptInv, BusyInv
<1>3. \A d : /\ ~Waiting(d)' /\ ~Running(d)
             /\ Running(d)' <=> Waiting(d)
             /\ Ended(outcomes, d)' <=> Ended(outcomes, d)
             /\ OneEnd(outcomes, d)' <=> OneEnd(outcomes, d)
             /\ Ended(bus, d)' <=> Ended(bus, d)
             /\ OneEnd(bus, d)' <=> OneEnd(bus, d)
  BY <1>1, <1>2 DEF Waiting, Running, Ended, OneEnd
<1>4. \A d \in Devices : OnePlace(d)'
  BY <1>1, <1>3 DEF AttemptInv, OnePlace
<1> QED BY <1>1, <1>2, <1>4 DEF AttemptInv, BusyInv

\* The attempt goes from the worker to its outcome.
LEMMA EndAttempts ==
  ASSUME AttemptInv, ReportIdentity \/ HandshakeFails PROVE AttemptInv'
<1>1. /\ TypeOK /\ TypeOK' /\ worker' = Idle
      /\ worker.pc \notin {"unspawned", "idle"}
      /\ UNCHANGED <<handshakeSlot, bus, inFlight>>
  BY WorkerTypeOK
     DEF AttemptInv, Handshaking, ReportIdentity, HandshakeFails, At, provision, engine
<1>2. worker.req \in Requests /\ worker.req # None /\ outcomes \in Seq(OutcomeEvents)
  BY <1>1 DEF TypeOK, AttemptInv, BusyInv
<1>3. PICK e \in OutcomeEvents :
        outcomes' = Append(outcomes, e) /\ \A d : Outcome(e, d) <=> Running(d)
  <2>1. CASE ReportIdentity
    <3> DEFINE e == [type |-> "identity_observed", ble_addr |-> worker.req.ble_addr,
                     slot_id |-> worker.req.slot_id_hint]
    <3>1. e \in OutcomeEvents /\ outcomes' = Append(outcomes, e)
      BY <1>2, <2>1 DEF OutcomeEvents, IdentityEvents, Requests, ReportIdentity, Target
    <3>2. \A d : Outcome(e, d) <=> Running(d)
      BY <1>2 DEF Outcome, Running
    <3> QED BY <3>1, <3>2
  <2>2. CASE HandshakeFails
    <3> DEFINE e == [type |-> "handshake.error", ble_addr |-> worker.req.ble_addr]
    <3>1. e \in OutcomeEvents /\ outcomes' = Append(outcomes, e)
      BY <1>2, <2>2 DEF OutcomeEvents, ErrorEvents, Requests, HandshakeFails, Target
    <3>2. \A d : Outcome(e, d) <=> Running(d)
      BY <1>2 DEF Outcome, Running
    <3> QED BY <3>1, <3>2
  <2> QED BY <2>1, <2>2
<1>4. \A d : /\ ~Running(d)'
             /\ Waiting(d)' <=> Waiting(d)
             /\ Ended(outcomes, d)' <=> Ended(Append(outcomes, e), d)
             /\ OneEnd(outcomes, d)' <=> OneEnd(Append(outcomes, e), d)
             /\ Ended(bus, d)' <=> Ended(bus, d)
             /\ OneEnd(bus, d)' <=> OneEnd(bus, d)
  BY <1>1, <1>3 DEF Waiting, Running, Ended, OneEnd, Idle, Unspawned
<1>5. \A d \in Devices :
        /\ Ended(outcomes, d)' => Ended(outcomes, d) \/ Running(d)
        /\ OneEnd(outcomes, d)'
  BY <1>2, <1>3, <1>4, EndedAppend DEF AttemptInv, OnePlace
<1>6. \A d \in Devices : OnePlace(d)'
  BY <1>1, <1>4, <1>5 DEF AttemptInv, OnePlace
<1>7. BusyInv'
  BY <1>1 DEF BusyInv, Idle, Unspawned
<1> QED BY <1>1, <1>6, <1>7 DEF AttemptInv

\* The outcome goes from the pending list to the bus.
LEMMA PollHandshakeAttempts ==
  ASSUME AttemptInv, PollHandshake PROVE AttemptInv'
<1>1. TypeOK /\ TypeOK' /\ UNCHANGED <<handshakeSlot, worker, inFlight>>
  BY HiveTypeOK DEF AttemptInv, Hive, PollHandshake, provision
<1>2. CASE outcomes = << >>
  BY <1>1, <1>2, QuietSteps DEF PollHandshake
<1>3. CASE outcomes # << >>
  <2>1. outcomes \in Seq(OutcomeEvents) /\ bus \in Seq(BusEvents)
    BY <1>1 DEF TypeOK
  <2>2. PICK e \in OutcomeEvents : e = Head(outcomes)
    BY <2>1, <1>3
  <2>3. e \in BusEvents
    BY <2>2 DEF BusEvents
  <2>4. bus' = Append(bus, e) /\ outcomes' = Tail(outcomes)
    BY <1>3, <2>2 DEF PollHandshake
  <2>5. \A d : /\ Waiting(d)' <=> Waiting(d)
               /\ Running(d)' <=> Running(d)
               /\ Ended(outcomes, d)' <=> Ended(Tail(outcomes), d)
               /\ OneEnd(outcomes, d)' <=> OneEnd(Tail(outcomes), d)
               /\ Ended(bus, d)' <=> Ended(Append(bus, e), d)
               /\ OneEnd(bus, d)' <=> OneEnd(Append(bus, e), d)
    BY <1>1, <2>4 DEF Waiting, Running, Ended, OneEnd
  <2>6. \A d \in Devices : /\ Ended(Tail(outcomes), d) => Ended(outcomes, d)
                           /\ Outcome(e, d) => Ended(outcomes, d)
                           /\ OneEnd(Tail(outcomes), d)
                           /\ Outcome(e, d) => ~Ended(Tail(outcomes), d)
    BY <1>3, <2>1, <2>2, EndedTail DEF AttemptInv, OnePlace
  <2>7. \A d \in Devices : /\ Ended(bus, d)' => Ended(bus, d) \/ Outcome(e, d)
                           /\ OneEnd(bus, d)'
    BY <2>1, <2>3, <2>5, <2>6, EndedAppend DEF AttemptInv, OnePlace
  <2>8. \A d \in Devices : OnePlace(d)'
    BY <1>1, <2>5, <2>6, <2>7 DEF AttemptInv, OnePlace
  <2> QED BY <1>1, <2>8 DEF AttemptInv, BusyInv
<1> QED BY <1>2, <1>3

-----------------------------------------------------------------------------
(* The theorem. *)

\* Every step preserves the invariant, by the lemmas above.
LEMMA NextAttempts ==
  ASSUME AttemptInv, [Next]_vars PROVE AttemptInv'
<1>1. TypeOK /\ bus \in Seq(BusEvents)
  BY DEF AttemptInv, TypeOK
<1>2. CASE Scanner
  BY <1>1, <1>2, ScannerTypeOK, QuietSteps
     DEF Scanner, Observe, Rotate, provision, handshake, engine
<1>3. CASE Operator
  BY <1>1, <1>3, OperatorTypeOK, QuietSteps
     DEF Operator, SlotCreate, FirstInstallDone, provision, handshake, engine
<1>4. CASE TickDone
  BY <1>1, <1>4, HiveTypeOK, QuietSteps DEF Hive, TickDone, provision, handshake
<1>5. CASE TickBudgetSpent
  BY <1>1, <1>5, HiveTypeOK, BusShrinks DEF TickBudgetSpent, provision, handshake
<1>6. CASE HandleHandshakeError
  <2>1. \A d : Outcome(Head(bus), d) <=> d = Head(bus).ble_addr
    BY <1>6 DEF HandleHandshakeError, Handling, Outcome
  <2>2. /\ UNCHANGED <<handshakeSlot, worker, outcomes>> /\ bus # << >> /\ bus' = Tail(bus)
        /\ inFlight' = inFlight \ {Head(bus).ble_addr} /\ TypeOK'
    BY <1>1, <1>6, HiveTypeOK DEF Hive, Handlers, HandleHandshakeError, Handling, handshake
  <2> QED BY <2>1, <2>2, BusShrinks
<1>7. CASE HandleDeviceEnrolled
  BY <1>1, <1>7, HiveTypeOK, BusShrinks
     DEF Hive, Handlers, HandleDeviceEnrolled, Handling, provision, handshake
<1>8. CASE LoadTrustGroup \/ SendInvite \/ ProcessJoinRequest \/ PersistTrustGroup
           \/ SendJoinResponse
  <2>1. /\ UNCHANGED <<handshakeSlot, outcomes, bus, inFlight>> /\ TypeOK'
        /\ worker.pc \notin {"unspawned", "idle"}
    BY <1>1, <1>8, WorkerTypeOK
       DEF Handshaking, LoadTrustGroup, SendInvite, ProcessJoinRequest, PersistTrustGroup,
           SendJoinResponse, At, provision, engine
  <2>2. worker'.req = worker.req /\ worker'.pc \notin {"unspawned", "idle"}
    <3>1. worker \in Workers
      BY <1>1 DEF TypeOK
    <3> QED BY <1>8, <3>1 DEF LoadTrustGroup, SendInvite, ProcessJoinRequest,
                              PersistTrustGroup, SendJoinResponse, Goto, Workers
  <2> QED BY <2>1, <2>2, QuietSteps
<1>9. CASE UNCHANGED vars
  <2>1. TypeOK'
    BY <1>1, <1>9 DEF vars, disk, observer, provision, handshake, engine, TypeOK
  <2> QED BY <2>1, <1>9, QuietSteps DEF vars, provision, handshake, engine
<1> QED BY <1>2, <1>3, <1>4, <1>5, <1>6, <1>7, <1>8, <1>9, PollObserverAttempts,
           HandleIdentityAttempts, RestartAttempts, HandleBeaconAttempts, TakeRequestAttempts,
           EndAttempts, PollHandshakeAttempts
        DEF Next, Hive, Handlers, Handshaking

\* A board has one attempt at a time, whatever is retried, dropped or restarted, and no
\* beacon starts another while its address is in in_flight.
THEOREM OneAttempt == Spec => []OneAttemptPerDevice
<1>1. Init => AttemptInv
  <2>1. DOMAIN << >> = {}
    OBVIOUS
  <2> QED BY <2>1, InitTypeOK
          DEF Init, AttemptInv, BusyInv, OnePlace, Waiting, Running, Ended, OneEnd, Unspawned
<1>2. AttemptInv => OneAttemptPerDevice
  <2> SUFFICES ASSUME AttemptInv, NEW d \in Devices
               PROVE  /\ \A a, b \in Attempts(d) : a = b
                      /\ Attempts(d) # {} => d \in inFlight
    BY DEF OneAttemptPerDevice
  <2>1. OnePlace(d)
    BY DEF AttemptInv
  <2>2. \A a \in Attempts(d) :
          \/ a = <<"cell", 1>> /\ Waiting(d)
          \/ a = <<"worker", 1>> /\ Running(d)
          \/ \E i \in DOMAIN outcomes : a = <<"outcomes", i>> /\ Outcome(outcomes[i], d)
          \/ \E i \in DOMAIN bus : a = <<"bus", i>> /\ Outcome(bus[i], d)
    BY DEF Attempts, Waiting, Running, Target
  <2> HIDE DEF Attempts
  <2> QED BY <2>1, <2>2 DEF OnePlace, Ended, OneEnd
<1> QED BY <1>1, <1>2, NextAttempts, PTL DEF Spec
=============================================================================
