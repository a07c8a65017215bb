---------------------------- MODULE Provisioning ----------------------------
(***************************************************************************)
(* How a freshly flashed board becomes an enrolled device of an apiary.    *)
(*                                                                         *)
(*   beacon-observer thread --beacon--> bus --> Provision sentant          *)
(*   Provision sentant --handshake_slot--> provision-handshake worker      *)
(*   worker --JoinInvite/JoinRequest/JoinResponse--> board                 *)
(*   worker --identity / error--> bus --> Provision --enrolled--> Roster   *)
(*                                                                         *)
(* Three threads interleave: the scanner, the handshake worker, and the    *)
(* hive thread, which runs the bus and every sentant.  The handlers of one *)
(* bus event run without interruption; everything else may come between    *)
(* two of them.  The roster, the trust-group state and the certificates    *)
(* are on disk and survive a restart; all the rest is lost.                *)
(*                                                                         *)
(* A board is identified with its BLE address and with its DEV_PK.  The    *)
(* bus carries only the events that some handler here acts on.             *)
(*                                                                         *)
(* A definition named Mut... is a plausible bug in the one it precedes.    *)
(* No specification here uses it: it shows what a property would notice.   *)
(***************************************************************************)
EXTENDS Naturals, Sequences

CONSTANTS
  Devices,        \* the boards in radio range
  Slots,          \* the slot_ids the operator may declare
  None,           \* the absent value (an Option's None)
  MaxPending,     \* bound: beacons waiting in the observer's pending list
  MaxDrops,       \* bound: events of this chain that EventBus::tick loses
  MaxRestarts     \* bound: restarts of the orchestrator

ASSUME NoneAssumption == None \notin Devices /\ None \notin Slots
ASSUME BoundsAssumption ==
  MaxPending \in Nat \ {0} /\ MaxDrops \in Nat /\ MaxRestarts \in Nat

VARIABLES
  roster,         \* disk: devices/roster.toml
  tgFile,         \* disk: devices/tg_state.bin (an absent file is the empty group)
  certs,          \* disk: devices/certs/<device_pk>.bin
  accepted,       \* external: the sequence number each board joined under, 0 before
  reported,       \* beacon-observer: boards whose present fingerprint is in `seen`
  observed,       \* beacon-observer: pending events, drained by poll
  inFlight,       \* Provision sentant: addresses with a handshake dispatched
  handshakeSlot,  \* the one-request cell between Provision and the worker
  worker,         \* the handshake worker thread
  outcomes,       \* provision-handshake: pending events, drained by poll
  bus,            \* hive thread: the event queue of the bus
  hive,           \* hive thread: where the engine loop is
  drops,          \* events lost by the tick budget so far
  restarts        \* restarts so far

disk == <<roster, tgFile, certs>>
observer == <<reported, observed>>
provision == <<inFlight, handshakeSlot>>
handshake == <<worker, outcomes>>
engine == <<bus, hive, drops>>
vars == <<disk, accepted, observer, provision, handshake, engine, restarts>>

-----------------------------------------------------------------------------
(* The values the state ranges over. *)

SlotStates == {"absent", "placeholder", "flashed_pending_pk", "enrolled"}
Rows == [state : SlotStates, device_pk : Devices \cup {None}]

\* The part of a TrustGroup that is persisted and that this chain uses.
TrustGroups == [members : SUBSET Devices, sequence : Nat]
NewTrustGroup == [members |-> {}, sequence |-> 0]

Requests == [ble_addr : Devices, slot_id_hint : Slots]
WorkerStates ==
  {"unspawned", "idle", "load", "connect", "await", "persist", "respond", "report"}
Workers == [pc : WorkerStates, req : Requests \cup {None}, tg : TrustGroups]

BeaconEvents == [type : {"beacon"}, ble_addr : Devices, provisioning : BOOLEAN]
IdentityEvents ==
  [type : {"identity_observed"}, ble_addr : Devices, slot_id : Slots]
ErrorEvents == [type : {"handshake.error"}, ble_addr : Devices]
EnrolledEvents == [type : {"device.enrolled"}, ble_addr : Devices, slot_id : Slots]
OutcomeEvents == IdentityEvents \cup ErrorEvents
BusEvents == BeaconEvents \cup OutcomeEvents \cup EnrolledEvents

Unspawned == [pc |-> "unspawned", req |-> None, tg |-> NewTrustGroup]
Idle == [Unspawned EXCEPT !.pc = "idle"]

Init ==
  /\ roster = [s \in Slots |-> [state |-> "absent", device_pk |-> None]]
  /\ tgFile = NewTrustGroup
  /\ certs = {}
  /\ accepted = [d \in Devices |-> 0]
  /\ reported = {}
  /\ observed = << >>
  /\ inFlight = {}
  /\ handshakeSlot = None
  /\ worker = Unspawned
  /\ outcomes = << >>
  /\ bus = << >>
  /\ hive = "tick"
  /\ drops = 0
  /\ restarts = 0

-----------------------------------------------------------------------------
(* The boards and the scanner thread of beacon-observer.  A board that is  *)
(* off or out of range is one that is not heard and whose handshake fails. *)
(* Once it has taken a JoinResponse it advertises provisioning=false.      *)

Joined(d) == accepted[d] # 0

\* What one scan window does about a board it hears: a beacon event is
\* queued only if the board is new or its fingerprint has changed.
Observe(d) ==
  /\ Len(observed) < MaxPending
  /\ reported' = reported \cup {d}
  /\ observed' =
       IF d \in reported THEN observed
       ELSE Append(observed, [type |-> "beacon", ble_addr |-> d,
                              provisioning |-> ~Joined(d)])
  /\ UNCHANGED <<disk, accepted, provision, handshake, engine, restarts>>

\* A fingerprint that leaves out the RBID, and no sweep of lost boards.
MutRotate(d) == d \in reported /\ UNCHANGED vars

\* The fingerprint in `seen` is out of date: the board has rotated its RBID,
\* or has been dropped after LOST_AFTER_SECS of silence.
Rotate(d) ==
  /\ d \in reported
  /\ reported' = reported \ {d}
  /\ UNCHANGED <<disk, accepted, observed, provision, handshake, engine, restarts>>

-----------------------------------------------------------------------------
(* The engine loop of the hive thread: tick until the queue is empty, then *)
(* poll each plugin for one event, in the order they are registered.       *)

\* A handler step: the tick takes the head of the queue.
Handling(type) ==
  /\ hive = "tick"
  /\ bus # << >>
  /\ Head(bus).type = type
  /\ UNCHANGED <<hive, drops, restarts>>

TickDone ==
  /\ hive = "tick"
  /\ bus = << >>
  /\ hive' = "poll_observer"
  /\ UNCHANGED <<disk, accepted, observer, provision, handshake, bus, drops, restarts>>

\* Other traffic has used up the budget of the tick: the event popped next is
\* lost, and the tick ends with whatever the queue still holds.
TickBudgetSpent ==
  /\ hive = "tick"
  /\ bus # << >>
  /\ drops < MaxDrops
  /\ drops' = drops + 1
  /\ bus' = Tail(bus)
  /\ hive' = "poll_observer"
  /\ UNCHANGED <<disk, accepted, observer, provision, handshake, restarts>>

PollObserver ==
  /\ hive = "poll_observer"
  /\ hive' = "poll_handshake"
  /\ \/ /\ observed = << >>
        /\ UNCHANGED <<bus, observed>>
     \/ /\ observed # << >>
        /\ bus' = Append(bus, Head(observed))
        /\ observed' = Tail(observed)
  /\ UNCHANGED <<disk, accepted, reported, provision, handshake, drops, restarts>>

PollHandshake ==
  /\ hive = "poll_handshake"
  /\ hive' = "tick"
  /\ \/ /\ outcomes = << >>
        /\ UNCHANGED <<bus, outcomes>>
     \/ /\ outcomes # << >>
        /\ bus' = Append(bus, Head(outcomes))
        /\ outcomes' = Tail(outcomes)
  /\ UNCHANGED <<disk, accepted, observer, provision, worker, drops, restarts>>

-----------------------------------------------------------------------------
(* The Provision sentant, on the hive thread. *)

PendingSlots == {s \in Slots : roster[s].state = "flashed_pending_pk"}
UniquePending(s) == PendingSlots = {s}

\* Whether a beacon asks for a handshake that is not under way yet.
MutUnattempted(event) == event.provisioning
Unattempted(event) == event.provisioning /\ event.ble_addr \notin inFlight

\* A beacon of a board in provisioning mode starts a handshake, unless one is
\* in flight for that address or no slot is the only one pending.  The request
\* replaces whatever the cell holds; the first CMD_START spawns the worker.
HandleBeacon ==
  /\ Handling("beacon")
  /\ bus' = Tail(bus)
  /\ LET event == Head(bus)
         d == event.ble_addr
     IN \/ /\ Unattempted(event)
           /\ \E s \in Slots :
                /\ UniquePending(s)
                /\ handshakeSlot' = [ble_addr |-> d, slot_id_hint |-> s]
           /\ inFlight' = inFlight \cup {d}
           /\ worker' = IF worker.pc = "unspawned"
                        THEN Idle ELSE worker
        \/ /\ ~Unattempted(event) \/ \A s \in Slots : ~UniquePending(s)
           /\ UNCHANGED <<provision, worker>>
  /\ UNCHANGED <<disk, accepted, observer, outcomes>>

\* The certificate goes to disk (a failed write is only logged) and the slot
\* named by the hint is announced as enrolled.  The hint is never None here:
\* HandleBeacon dispatches no request without one.
HandleIdentity ==
  /\ Handling("identity_observed")
  /\ LET event == Head(bus)
     IN /\ bus' = Append(Tail(bus), [type |-> "device.enrolled",
                                     ble_addr |-> event.ble_addr,
                                     slot_id |-> event.slot_id])
        /\ inFlight' = inFlight \ {event.ble_addr}
        /\ certs' \in {certs, certs \cup {event.ble_addr}}
  /\ UNCHANGED <<roster, tgFile, accepted, observer, handshakeSlot, handshake>>

\* The address stays in in_flight.
MutHandleHandshakeError ==
  /\ Handling("handshake.error")
  /\ bus' = Tail(bus)
  /\ UNCHANGED <<disk, accepted, observer, provision, handshake>>

\* The address is free again.  The error is broadcast for the webapp; no
\* sentant acts on that copy, which is not plugin-sourced.
HandleHandshakeError ==
  /\ Handling("handshake.error")
  /\ bus' = Tail(bus)
  /\ inFlight' = inFlight \ {Head(bus).ble_addr}
  /\ UNCHANGED <<disk, accepted, observer, handshakeSlot, handshake>>

-----------------------------------------------------------------------------
(* The Roster sentant, on the hive thread: each handler loads roster.toml, *)
(* changes a row and saves it.  A save that fails leaves the file as it    *)
(* was, and the handler goes on.  The operator's two events arrive at any  *)
(* time, so their way through the bus is left out.                         *)

Save(s, row) == roster' \in {roster, [roster EXCEPT ![s] = row]}

SlotCreate(s) ==
  /\ roster[s].state = "absent"
  /\ Save(s, [state |-> "placeholder", device_pk |-> None])
  /\ UNCHANGED <<tgFile, certs, accepted, observer, provision, handshake, engine, restarts>>

\* placeholder -> built -> flashed_pending_pk, saved once.
FirstInstallDone(s) ==
  /\ roster[s].state = "placeholder"
  /\ Save(s, [roster[s] EXCEPT !.state = "flashed_pending_pk"])
  /\ UNCHANGED <<tgFile, certs, accepted, observer, provision, handshake, engine, restarts>>

\* apply_transition without the check that the transition is valid.
MutHandleDeviceEnrolled ==
  /\ Handling("device.enrolled")
  /\ bus' = Tail(bus)
  /\ Save(Head(bus).slot_id, [state |-> "enrolled", device_pk |-> Head(bus).ble_addr])
  /\ UNCHANGED <<tgFile, certs, accepted, observer, provision, handshake>>

\* Only a slot still in flashed_pending_pk takes the board.
HandleDeviceEnrolled ==
  /\ Handling("device.enrolled")
  /\ bus' = Tail(bus)
  /\ LET event == Head(bus)
     IN IF roster[event.slot_id].state = "flashed_pending_pk"
        THEN Save(event.slot_id, [state |-> "enrolled", device_pk |-> event.ble_addr])
        ELSE UNCHANGED roster
  /\ UNCHANGED <<tgFile, certs, accepted, observer, provision, handshake>>

-----------------------------------------------------------------------------
(* provision-handshake: the worker thread. *)

At(pc) == worker.pc = pc
Target == worker.req.ble_addr
Goto(pc) == worker' = [worker EXCEPT !.pc = pc]

\* The cell is emptied before it is read.
MutTakeRequest ==
  /\ At("idle")
  /\ handshakeSlot # None
  /\ handshakeSlot' = None
  /\ worker' = [worker EXCEPT !.pc = "load", !.req = handshakeSlot']
  /\ UNCHANGED <<disk, accepted, observer, inFlight, outcomes, engine, restarts>>

TakeRequest ==
  /\ At("idle")
  /\ handshakeSlot # None
  /\ worker' = [worker EXCEPT !.pc = "load", !.req = handshakeSlot]
  /\ handshakeSlot' = None
  /\ UNCHANGED <<disk, accepted, observer, inFlight, outcomes, engine, restarts>>

\* The members are restored but the sequence number starts again.
MutLoadTrustGroup ==
  /\ At("load")
  /\ worker' = [worker EXCEPT !.pc = "connect", !.tg = [tgFile EXCEPT !.sequence = 0]]
  /\ UNCHANGED <<disk, accepted, observer, provision, outcomes, engine, restarts>>

\* tg_state::load: the worker is the only thread that touches the file.
LoadTrustGroup ==
  /\ At("load")
  /\ worker' = [worker EXCEPT !.pc = "connect", !.tg = tgFile]
  /\ UNCHANGED <<disk, accepted, observer, provision, outcomes, engine, restarts>>

\* ACL and L2CAP connections, then the JoinInvite.
SendInvite ==
  /\ At("connect")
  /\ Goto("await")
  /\ UNCHANGED <<disk, accepted, observer, provision, outcomes, engine, restarts>>

\* The check for a DuplicateMember is gone.
MutProcessJoinRequest ==
  /\ At("await")
  /\ worker' = [worker EXCEPT !.pc = "persist",
                              !.tg.members = @ \cup {Target},
                              !.tg.sequence = @ + 1]
  /\ UNCHANGED <<disk, accepted, observer, provision, outcomes, engine, restarts>>

\* The JoinRequest arrives and TrustGroup::process_join_request admits its
\* sender, in memory; a board that is a member already is DuplicateMember.
ProcessJoinRequest ==
  /\ At("await")
  /\ Target \notin worker.tg.members
  /\ worker' = [worker EXCEPT !.pc = "persist",
                              !.tg.members = @ \cup {Target},
                              !.tg.sequence = @ + 1]
  /\ UNCHANGED <<disk, accepted, observer, provision, outcomes, engine, restarts>>

\* A failed save is only logged, as that of a certificate is.
MutPersistTrustGroup ==
  /\ At("persist")
  /\ tgFile' \in {tgFile, worker.tg}
  /\ Goto("respond")
  /\ UNCHANGED <<roster, certs, accepted, observer, provision, outcomes, engine, restarts>>

\* tg_state::save, before the board can see the JoinResponse.
PersistTrustGroup ==
  /\ At("persist")
  /\ tgFile' = worker.tg
  /\ Goto("respond")
  /\ UNCHANGED <<roster, certs, accepted, observer, provision, outcomes, engine, restarts>>

\* The JoinResponse is written; the board may be gone before it takes it.
SendJoinResponse ==
  /\ At("respond")
  /\ Goto("report")
  /\ \/ UNCHANGED <<accepted, reported>>
     \/ /\ accepted' = [accepted EXCEPT ![Target] = worker.tg.sequence]
        /\ reported' = reported \ {Target}
  /\ UNCHANGED <<disk, observed, provision, outcomes, engine, restarts>>

ReportIdentity ==
  /\ At("report")
  /\ outcomes' = Append(outcomes, [type |-> "identity_observed", ble_addr |-> Target,
                                   slot_id |-> worker.req.slot_id_hint])
  /\ worker' = Idle
  /\ UNCHANGED <<disk, accepted, observer, provision, engine, restarts>>

\* Any step up to the write of the JoinResponse may fail: no signing key, a
\* state file that does not load or save, no radio, a timeout, a bad frame,
\* DuplicateMember.  The group in memory is dropped.
HandshakeFails ==
  /\ worker.pc \in {"load", "connect", "await", "persist", "respond"}
  /\ outcomes' = Append(outcomes, [type |-> "handshake.error", ble_addr |-> Target])
  /\ worker' = Idle
  /\ UNCHANGED <<disk, accepted, observer, provision, engine, restarts>>

-----------------------------------------------------------------------------
\* The orchestrator stops and starts again: only the disk and the boards stay.
Restart ==
  /\ restarts < MaxRestarts
  /\ restarts' = restarts + 1
  /\ reported' = {}
  /\ observed' = << >>
  /\ inFlight' = {}
  /\ handshakeSlot' = None
  /\ worker' = Unspawned
  /\ outcomes' = << >>
  /\ bus' = << >>
  /\ hive' = "tick"
  /\ UNCHANGED <<disk, accepted, drops>>

Scanner == \E d \in Devices : Observe(d) \/ Rotate(d)
Operator == \E s \in Slots : SlotCreate(s) \/ FirstInstallDone(s)
Handlers == HandleBeacon \/ HandleIdentity \/ HandleHandshakeError \/ HandleDeviceEnrolled
Hive == TickDone \/ PollObserver \/ PollHandshake \/ Handlers
Handshaking ==
  \/ TakeRequest \/ LoadTrustGroup \/ SendInvite \/ ProcessJoinRequest
  \/ PersistTrustGroup \/ SendJoinResponse \/ ReportIdentity

Next ==
  \/ Scanner \/ Operator
  \/ Hive \/ TickBudgetSpent
  \/ Handshaking \/ HandshakeFails
  \/ Restart

Spec == Init /\ [][Next]_vars

\* The threads run: the engine loop never blocks, every wait of the worker ends
\* in an answer, an error or a timeout, and the scanner goes on scanning boards
\* that rotate their RBID every 15 minutes.
Fairness ==
  /\ WF_vars(Hive)
  /\ WF_vars(Handshaking \/ HandshakeFails)
  /\ \A d \in Devices : WF_vars(Observe(d)) /\ WF_vars(Rotate(d))

\* The world is not hopeless: a radio, disk or board that is tried for ever
\* does not fail for ever.
HandshakesCanSucceed ==
  /\ SF_vars(LoadTrustGroup)
  /\ SF_vars(SendInvite)
  /\ SF_vars(ProcessJoinRequest)
  /\ SF_vars(PersistTrustGroup)

FairSpec == Spec /\ Fairness
HopefulSpec == FairSpec /\ HandshakesCanSucceed

-----------------------------------------------------------------------------
(* Invariants. *)

TypeOK ==
  /\ roster \in [Slots -> Rows]
  /\ tgFile \in TrustGroups
  /\ certs \subseteq Devices
  /\ accepted \in [Devices -> Nat]
  /\ reported \subseteq Devices
  /\ observed \in Seq(BeaconEvents)
  /\ inFlight \subseteq Devices
  /\ handshakeSlot \in Requests \cup {None}
  /\ worker \in Workers
  /\ worker.pc \notin {"unspawned", "idle"} => worker.req \in Requests
  /\ outcomes \in Seq(OutcomeEvents)
  /\ bus \in Seq(BusEvents)
  /\ hive \in {"tick", "poll_observer", "poll_handshake"}
  /\ drops \in 0..MaxDrops
  /\ restarts \in 0..MaxRestarts

\* Whoever relies on a membership finds it in tg_state.bin, whatever the
\* orchestrator has lost since: a board that took its JoinResponse, a slot
\* enrolled to a board, a certificate file.  This is what saving the group
\* before the JoinResponse is for.
EnrolmentIsDurable ==
  /\ \A d \in Devices : Joined(d) => d \in tgFile.members
  /\ \A s \in Slots : roster[s].state = "enrolled" => roster[s].device_pk \in tgFile.members
  /\ certs \subseteq tgFile.members

\* A board never holds two slots, although its handshake may be retried, two
\* slots may name it in turn and the orchestrator may restart in between:
\* process_join_request refuses a member, and the refusal outlives a restart.
OneSlotPerDevice ==
  \A s, t \in Slots :
    /\ roster[s].state = "enrolled" /\ roster[t].state = "enrolled"
    /\ roster[s].device_pk = roster[t].device_pk
    => s = t

\* No two boards have taken JoinResponses under the same sequence number, and
\* the number on disk is at least the highest taken: a restart cannot reuse one.
ResponseSequencesDistinct ==
  /\ \A d \in Devices : accepted[d] <= tgFile.sequence
  /\ \A d, e \in Devices :
       Joined(d) /\ accepted[d] = accepted[e] => d = e

\* The places an attempt for board d can be in: waiting in the cell, running in
\* the worker, or ended, its outcome on the way back to the Provision sentant.
Outcome(event, d) ==
  event.type \in {"identity_observed", "handshake.error"} /\ event.ble_addr = d
Attempts(d) ==
  (IF handshakeSlot # None /\ handshakeSlot.ble_addr = d THEN {<<"cell", 1>>} ELSE {})
  \cup (IF worker.req # None /\ Target = d THEN {<<"worker", 1>>} ELSE {})
  \cup {<<"outcomes", i>> : i \in {j \in DOMAIN outcomes : Outcome(outcomes[j], d)}}
  \cup {<<"bus", i>> : i \in {j \in DOMAIN bus : Outcome(bus[j], d)}}

\* At most one attempt per board is under way, and its address is in in_flight
\* until the outcome is handled: no beacon in between starts a second one.
OneAttemptPerDevice ==
  \A d \in Devices :
    /\ \A a, b \in Attempts(d) : a = b
    /\ Attempts(d) # {} => d \in inFlight

-----------------------------------------------------------------------------
(* Action properties. *)

\* What comment provision.rs:107 counts on: once an error is handled, the next
\* scan window re-attempts.  When the address of a board still in provisioning
\* mode leaves in_flight for an error, a beacon of it is under way or the next
\* scan window will report one.
Beaconed(d) ==
  \/ \E i \in DOMAIN observed : observed[i].ble_addr = d
  \/ \E i \in DOMAIN bus : bus[i].type = "beacon" /\ bus[i].ble_addr = d
ErrorRearmsScan ==
  [][\A d \in inFlight \ inFlight' :
       HandleHandshakeError /\ ~Joined(d) => d \notin reported \/ Beaconed(d)]_vars

\* What comment provision.rs:214 says of the hint: when it is stale, the slot is
\* the unique one pending.  Handling an identity while one slot is the only one
\* pending announces that slot.
StaleHintFallsBack ==
  [][\A s \in Slots :
       HandleIdentity /\ UniquePending(s) => bus'[Len(bus')].slot_id = s]_vars

\* What comment provision_handshake.rs:151 counts on: a request put into the
\* cell waits there until the worker picks it up, or the orchestrator stops.
RequestsArePickedUp ==
  [][handshakeSlot # None => handshakeSlot' \in {None, handshakeSlot}]_vars

-----------------------------------------------------------------------------
(* Liveness. *)

\* No address stays in in_flight for ever: as long as it is there every beacon
\* of the board is ignored.
AttemptEnds == \A d \in Devices : d \in inFlight ~> d \notin inFlight

\* A board in range is admitted while a slot waits for it alone, however often
\* its handshake fails and although the failure itself starts no new attempt.
PendingBoardIsAdmitted ==
  \A d \in Devices, s \in Slots :
    UniquePending(s) ~> (d \in tgFile.members \/ ~UniquePending(s))

-----------------------------------------------------------------------------
(* Refinement: the chain implements Enrolment. *)

E == INSTANCE Enrolment WITH
       members <- tgFile.members,
       state <- [s \in Slots |-> roster[s].state],
       holder <- [s \in Slots |-> roster[s].device_pk]
Enrolls == E!Spec

=============================================================================
