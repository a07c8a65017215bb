------------------------------ MODULE EventBus ------------------------------
(***************************************************************************)
(* The event bus of r2-engine under the engine loop of the composer:       *)
(*                                                                         *)
(*   drain the inbound channel -> tick -> poll the plugins ->              *)
(*   advance the timers -> drain the outbound events -> again              *)
(*                                                                         *)
(* The sentants are any: a handler returns any short list of actions.  The *)
(* loop is one thread; only the WebSocket side of the inbound channel runs *)
(* beside it.  Payloads are left out.  An event is identified by the order *)
(* in which it was sent, which the code does not record; `log` keeps what  *)
(* the properties compare the bus with and no action reads it.             *)
(*                                                                         *)
(* A definition named Mut... is a plausible bug in the one it precedes.    *)
(* No specification here uses it: it shows what a property would notice.   *)
(***************************************************************************)
EXTENDS EventQueue, Subsequences, FiniteSets, SequencesExt

CONSTANTS
  Hashes,         \* event hashes
  Subscriptions,  \* for each sentant, in the order of registration, its hashes
  Plugins,        \* how many plugins are polled
  Budget,         \* events popped by one tick, the last of them lost (64)
  DrainLimit,     \* events drained from the channel per iteration (32)
  ChannelCap,     \* the inbound channel's capacity (256)
  TickMs,         \* time that passes per iteration (10)
  Delays,         \* the delays, in ms, that handlers ask for
  MaxActions,     \* bound: actions per handler call
  MaxEvents       \* bound: events sent in a behaviour

ASSUME LoopAssumption ==
  /\ Subscriptions \in Seq(SUBSET Hashes)
  /\ Plugins \in Nat /\ MaxActions \in Nat /\ MaxEvents \in Nat
  /\ Budget \in Nat \ {0} /\ DrainLimit \in Nat \ {0}
  /\ ChannelCap \in Nat \ {0} /\ TickMs \in Nat \ {0}
  /\ Delays \subseteq Nat

Sentants == DOMAIN Subscriptions
External == 0                      \* source_id 0xFF: a plugin or a client
Events == [id : 1..MaxEvents, hash : Hashes, source : Sentants \cup {External}]

\* Target::Sentant is delivered as Local is: the id it names is not used.
Targets == {"local", "broadcast", "sender"}
SendActions(s) == [source : {s}, delay : {0} \cup Delays, target : Targets, hash : Hashes]
\* What a plugin's poll returns enters the queue as a local send does.
PluginEvents == [source : {External}, delay : {0}, target : {"local"}, hash : Hashes]
Timers == [source : Sentants, hash : Hashes, target : Targets, remaining : Nat]

VARIABLES
  inbound,    \* hashes in the channel from the WebSocket clients
  bus,        \* EventBus: [queue, timers, outbound]
  loop,       \* the engine loop: [pc, drained, budget, current, todo], where todo
              \* are the subscribers that have yet to handle the current event
  log         \* history: see InitLog

vars == <<inbound, bus, loop, log>>

InitLog ==
  [hashes   |-> << >>,     \* of every event sent, by id
   refused  |-> {},        \* ids of events that did not enter the queue
   lost     |-> {},        \* ids of events popped and not processed
   remote   |-> << >>,     \* ids of events sent to remote targets
   shipped  |-> << >>,     \* ids of events handed to the transport
   handled  |-> [s \in Sentants |-> << >>],
   due      |-> [s \in Sentants |-> [h \in Hashes |-> 0]]]
                           \* time left of the last delayed send asked for

Init ==
  /\ inbound = << >>
  /\ bus = [queue |-> EmptyQueue, timers |-> << >>, outbound |-> << >>]
  /\ loop = [pc |-> "drain", drained |-> 0, budget |-> 0,
             current |-> NoEvent, todo |-> {}]
  /\ log = InitLog

Goto(pc) == loop' = [loop EXCEPT !.pc = pc]

\* The bound on events leaves room for those that wait to be sent.
Room(n) == Len(log.hashes) + Len(inbound) + Len(bus.timers) + n <= MaxEvents

-----------------------------------------------------------------------------
(* Sending.  b is [bus, log]. *)

Stamp(b, hash, source) == [id |-> Len(b.log.hashes) + 1, hash |-> hash, source |-> source]

Enqueue(b, event) ==
  [bus |-> [b.bus EXCEPT !.queue = Push(@, event)],
   log |-> [b.log EXCEPT !.hashes = Append(@, event.hash),
                         !.refused = IF IsFull(b.bus.queue) THEN @ \cup {event.id} ELSE @]]

\* The copy for the transport is made only of an event the queue accepts.
MutShip(b, event) ==
  [bus |-> [b.bus EXCEPT !.outbound =
              IF event.id \in b.log.refused THEN @ ELSE Append(@, event)],
   log |-> [b.log EXCEPT !.remote = Append(@, event.id)]]

Ship(b, event) ==
  [bus |-> [b.bus EXCEPT !.outbound = Append(@, event)],
   log |-> [b.log EXCEPT !.remote = Append(@, event.id)]]

\* dispatch_send.  An event for the Sender goes to the transport alone.
DispatchSend(b, source, target, hash) ==
  LET event == Stamp(b, hash, source)
      counted == [b EXCEPT !.log.hashes = Append(@, hash),
                           !.log.refused = @ \cup {event.id}]
  IN CASE target = "local"     -> Enqueue(b, event)
       [] target = "broadcast" -> Ship(Enqueue(b, event), event)
       [] target = "sender"    -> Ship(counted, event)

\* TimerRegistry::schedule without the replacement.
MutSchedule(timers, timer) == Append(timers, timer)

\* TimerRegistry::schedule: one timer for each sentant and hash.
Schedule(timers, timer) ==
  LET Same(t) == t.source = timer.source /\ t.hash = timer.hash
  IN IF \E i \in DOMAIN timers : Same(timers[i])
     THEN [i \in DOMAIN timers |-> IF Same(timers[i]) THEN timer ELSE timers[i]]
     ELSE Append(timers, timer)

\* One action of process_actions, or an event sent on its own.
Perform(b, action) ==
  IF action.delay = 0 THEN DispatchSend(b, action.source, action.target, action.hash)
  ELSE [bus |-> [b.bus EXCEPT !.timers = Schedule(@,
                   [source |-> action.source, hash |-> action.hash,
                    target |-> action.target, remaining |-> action.delay])],
        log |-> [b.log EXCEPT !.due[action.source][action.hash] = action.delay]]

ProcessActions(b, actions) ==
  LET after[i \in 0..Len(actions)] ==
        IF i = 0 THEN b ELSE Perform(after[i - 1], actions[i])
  IN after[Len(actions)]

Now == [bus |-> bus, log |-> log]
Become(b) == bus' = b.bus /\ log' = b.log

-----------------------------------------------------------------------------
(* The engine loop. *)

\* A WebSocket client: its event is refused when the channel is full.
Submit(hash) ==
  /\ Len(inbound) < ChannelCap
  /\ Room(1)
  /\ inbound' = Append(inbound, hash)
  /\ UNCHANGED <<bus, loop, log>>

\* The channel is drained to the end, however many clients keep writing.
MutDrain ==
  /\ loop.pc = "drain"
  /\ inbound # << >>
  /\ Become(Enqueue(Now, Stamp(Now, Head(inbound), External)))
  /\ inbound' = Tail(inbound)
  /\ loop' = [loop EXCEPT !.drained = @ + 1]

Drain ==
  /\ loop.pc = "drain"
  /\ inbound # << >>
  /\ loop.drained < DrainLimit
  /\ Become(Enqueue(Now, Stamp(Now, Head(inbound), External)))
  /\ inbound' = Tail(inbound)
  /\ loop' = [loop EXCEPT !.drained = @ + 1]

DrainDone ==
  /\ loop.pc = "drain"
  /\ inbound = << >> \/ loop.drained = DrainLimit
  /\ loop' = [loop EXCEPT !.pc = "tick", !.drained = 0, !.budget = Budget]
  /\ UNCHANGED <<inbound, bus, log>>

Subscribers(event) == {s \in Sentants : event.hash \in Subscriptions[s]}

\* The event that exhausts the budget is put back, at the tail.
MutTickPop ==
  /\ loop.pc = "tick"
  /\ bus.queue.count > 0
  /\ LET event == Oldest(bus.queue)
         rest == Pop(bus.queue)
         todo == Subscribers(event)
     IN IF loop.budget = 1
        THEN /\ Goto("poll")
             /\ bus' = [bus EXCEPT !.queue = Push(rest, event)]
        ELSE /\ bus' = [bus EXCEPT !.queue = rest]
             /\ loop' = [loop EXCEPT !.budget = @ - 1, !.current = event, !.todo = todo,
                                     !.pc = IF todo = {} THEN "tick" ELSE "deliver"]
  /\ UNCHANGED <<inbound, log>>

\* The tick takes an event from the queue.  The one that exhausts the budget is
\* dropped, and the tick ends.
TickPop ==
  /\ loop.pc = "tick"
  /\ bus.queue.count > 0
  /\ bus' = [bus EXCEPT !.queue = Pop(@)]
  /\ LET event == Oldest(bus.queue)
         todo == Subscribers(event)
     IN IF loop.budget = 1
        THEN /\ loop' = [loop EXCEPT !.pc = "poll", !.budget = 0]
             /\ log' = [log EXCEPT !.lost = @ \cup {event.id}]
        ELSE /\ loop' = [loop EXCEPT !.budget = @ - 1, !.current = event, !.todo = todo,
                                     !.pc = IF todo = {} THEN "tick" ELSE "deliver"]
             /\ UNCHANGED log
  /\ UNCHANGED inbound

TickDone ==
  /\ loop.pc = "tick"
  /\ bus.queue.count = 0
  /\ Goto("poll")
  /\ UNCHANGED <<inbound, bus, log>>

\* The next subscriber, in the order of registration, handles the event; what it
\* asks for is done at once.
Deliver ==
  /\ loop.pc = "deliver"
  /\ LET s == Min(loop.todo)
         seen == [bus |-> bus, log |-> [log EXCEPT !.handled[s] = Append(@, loop.current.id)]]
     IN /\ \E actions \in BoundedSeq(SendActions(s), MaxActions) :
             /\ Room(Len(actions))
             /\ Become(ProcessActions(seen, actions))
        /\ loop' = [loop EXCEPT !.todo = @ \ {s},
                                !.pc = IF loop.todo = {s} THEN "tick" ELSE "deliver"]
  /\ UNCHANGED inbound

\* Each plugin gives at most one event.
PollPlugins ==
  /\ loop.pc = "poll"
  /\ \E events \in BoundedSeq(PluginEvents, Plugins) :
       /\ Room(Len(events))
       /\ Become(ProcessActions(Now, events))
  /\ Goto("time")
  /\ UNCHANGED inbound

\* The events of the timers that fire, sent as if they had just been asked for.
FiredSends(fired) ==
  [i \in DOMAIN fired |-> [source |-> fired[i].source, delay |-> 0,
                           target |-> fired[i].target, hash |-> fired[i].hash]]

\* TimerRegistry::advance: the timers that stay, with less time left.
Advanced(kept) == [i \in DOMAIN kept |-> [kept[i] EXCEPT !.remaining = @ - TickMs]]

\* A timer that is due fires and leaves the registry; the order of the others stays.
AdvanceTime ==
  /\ loop.pc = "time"
  /\ LET fires == {i \in DOMAIN bus.timers : bus.timers[i].remaining <= TickMs}
         kept == ElementsAt(bus.timers, DOMAIN bus.timers \ fires)
         b == [bus |-> [bus EXCEPT !.timers = Advanced(kept)],
               log |-> [log EXCEPT !.due =
                 [s \in Sentants |-> [h \in Hashes |->
                   IF @[s][h] > TickMs THEN @[s][h] - TickMs ELSE 0]]]]
     IN Become(ProcessActions(b, FiredSends(ElementsAt(bus.timers, fires))))
  /\ Goto("outbound")
  /\ UNCHANGED inbound

DrainOutbound ==
  /\ loop.pc = "outbound"
  /\ bus' = [bus EXCEPT !.outbound = << >>]
  /\ log' = [log EXCEPT !.shipped = @ \o [i \in DOMAIN bus.outbound |-> bus.outbound[i].id]]
  /\ Goto("drain")
  /\ UNCHANGED inbound

Next ==
  \/ \E hash \in Hashes : Submit(hash)
  \/ Drain \/ DrainDone \/ TickPop \/ TickDone \/ Deliver
  \/ PollPlugins \/ AdvanceTime \/ DrainOutbound

Spec == Init /\ [][Next]_vars

-----------------------------------------------------------------------------
(* Properties. *)

Ids(events) == {events[i].id : i \in DOMAIN events}

TypeOK ==
  /\ inbound \in Seq(Hashes) /\ Len(inbound) <= ChannelCap
  /\ bus.queue \in [events : [Indices -> Events \cup {NoEvent}],
                    head : Indices, tail : Indices, count : 0..Capacity]
  /\ bus.timers \in Seq(Timers)
  /\ bus.outbound \in Seq(Events)
  /\ loop.pc \in {"drain", "tick", "deliver", "poll", "time", "outbound"}
  /\ loop.pc = "deliver" => loop.current \in Events /\ loop.todo \in (SUBSET Sentants) \ {{}}
  /\ loop.drained \in 0..DrainLimit /\ loop.budget \in 0..Budget

\* Every sentant has handled, exactly once and in the order they were sent, the
\* events of its subscriptions that have left the queue: nothing is lost or
\* overtaken except the events the queue refused and those a tick cut short,
\* and a handler's reaction comes after every handler of its cause.
HandledOnceInOrder ==
  \A s \in Sentants :
    LET handled == log.handled[s]
        delivering == loop.pc = "deliver" /\ s \in loop.todo
    IN /\ \A i, j \in DOMAIN handled : i < j => handled[i] < handled[j]
       /\ {handled[i] : i \in DOMAIN handled} =
            {id \in DOMAIN log.hashes :
               /\ log.hashes[id] \in Subscriptions[s]
               /\ id \notin log.refused \cup log.lost \cup Ids(Contents(bus.queue))
               /\ ~(delivering /\ id = loop.current.id)}

\* For each sentant and hash the registry holds one timer, set to what is left
\* of the last delay the sentant asked for, or none: a timer is never late, a
\* replaced one never fires.
TimersKeepLastRequest ==
  \A s \in Sentants, h \in Hashes :
    LET mine == {i \in DOMAIN bus.timers : bus.timers[i].source = s /\ bus.timers[i].hash = h}
    IN IF log.due[s][h] = 0 THEN mine = {}
       ELSE \E i \in DOMAIN bus.timers : mine = {i} /\ bus.timers[i].remaining = log.due[s][h]

\* The transport is handed every event sent to a remote target, once and in
\* order, also those the full queue refuses to the local sentants.
RemoteSendsAreShipped ==
  log.remote = log.shipped \o [i \in DOMAIN bus.outbound |-> bus.outbound[i].id]

\* What the comment bus.rs:150 says of a tick, that it processes all pending
\* events: none is taken from the queue without being processed.
TickProcessesAll == log.lost = {}

\* The ring buffer is a bounded FIFO queue.
Fifo == INSTANCE BoundedFifo WITH items <- Contents(bus.queue)
QueueIsFifo == Fifo!Spec
=============================================================================
