----------------------------- MODULE RouteMesh -----------------------------
(***************************************************************************)
(* A mesh of nodes that forward by r2-route.  The decisions are those of   *)
(* RouteEngine; the node around an engine is not part of this repository   *)
(* and does what the crate asks of its caller: every frame that is not for *)
(* the node itself goes through plan_forward, a relay appends itself to    *)
(* the route stack, the destination of a message may reply along that      *)
(* stack, and a reply teaches a path to every node it passes.              *)
(*                                                                         *)
(* The radio delivers frames in any order, some never, some twice.         *)
(***************************************************************************)
EXTENDS RouteEngine, SequencesExt

CONSTANTS
  Nodes,           \* hives that take part
  Strangers,       \* hives that are heard and never answer
  Links,           \* pairs of nodes in radio range
  Compressed,      \* the upper half of each node's hash, kept in route stacks
  Relays,          \* nodes with relaying enabled
  Sizes,           \* payload sizes
  FitsOf,          \* for each hive, the sizes its transports take
  DefaultTtl,      \* DEFAULT_TTL
  StackLimit,      \* entries of a route stack, 8
  Congested,       \* nodes that find their part of the mesh congested
  Requests,        \* what is originated, once each: [origin, dest, mgmt, size, k]
  MaxTime,         \* bound: the clock
  MaxWorld         \* bound: messages, ticks, lessons and repeated frames together

ASSUME MeshAssumption ==
  /\ \A l \in Links : l \subseteq Nodes /\ Cardinality(l) = 2
  /\ IsFiniteSet(Nodes) /\ IsFiniteSet(Requests) /\ Nodes \cap Strangers = {}
  /\ Relays \subseteq Nodes /\ Congested \subseteq Nodes
  /\ FitsOf \in [Nodes \cup Strangers -> SUBSET Sizes]
  /\ DefaultTtl \in Nat /\ StackLimit \in Nat \ {0} /\ DefaultTtl <= StackLimit + 1
  /\ MaxTime \in Nat /\ MaxWorld \in Nat
  /\ Requests \subseteq [origin : Nodes, dest : Nodes \cup {"all"}, mgmt : BOOLEAN,
                          size : Sizes, k : 0..FloodK]
  /\ \A req \in Requests : req.dest # req.origin

\* What the slots of the three tables can hold.
Hives == Nodes \cup Strangers
NeighbourEntries ==
  [hive : Hives, conf : 0..Full, seen : 0..MaxTime, mcu : BOOLEAN, fits : SUBSET Sizes]
PathEntries == [dest : Nodes, hop : Hives, conf : 0..Full, updated : 0..MaxTime]
DedupEntries == [key : Nat \X {Compressed[n] : n \in Nodes}, expires : Nat]

ASSUME FreeAssumption == Free \notin NeighbourEntries \cup PathEntries \cup DedupEntries

VARIABLES
  engine,      \* for each node, its RouteEngine
  now,         \* the clock, in seconds, the same for every node
  messages,    \* the requests originated so far
  air,         \* frames under way
  answered,    \* <<node, id>>: the reply to a message has come home to node
  misrouted,   \* replies a node could not route on
  log          \* history: what the properties compare the rest with

vars == <<engine, now, messages, air, answered, misrouted, log>>

Destinations == {req.dest : req \in Requests} \cap Nodes
Heard(n) == Strangers \cup {m \in Nodes : {n, m} \in Links}

\* A copy of message id on its way to node `to`; `route` starts at the origin and
\* ends at the sender.
Copy(id, to, route, ttl, k) ==
  [kind |-> "copy", id |-> id, to |-> to, route |-> route, ttl |-> ttl, k |-> k]
\* A reply on its way back, with what is left of the stack.
Reply(id, from, to, stack) ==
  [kind |-> "reply", id |-> id, from |-> from, to |-> to, stack |-> stack]

\* taken: what each node's cache let pass, [key, at]; sent: how many copies of each
\* message were put on the air; repeats: frames received twice; learned: lessons.
InitLog ==
  [taken |-> [n \in Nodes |-> << >>], sent |-> [id \in 1..Cardinality(Requests) |-> 0],
   repeats |-> 0, learned |-> 0]

\* The bound on what the world does.
Room == Len(messages) + now + log.repeats + log.learned < MaxWorld

EmptyEngine ==
  [neighbours |-> EmptyTable(NeighbourSlots), paths |-> EmptyTable(PathSlots),
   dedup |-> EmptyDedup]

\* The engine of a node that has heard its neighbours once.
Introduced(n) ==
  LET order == SetToSeq(Heard(n) \cap Nodes)
      after[i \in 0..Len(order)] ==
        IF i = 0 THEN EmptyEngine ELSE Observe(after[i - 1], order[i], FitsOf[order[i]], 0)
  IN after[Len(order)]

Init ==
  /\ now = 0
  /\ engine = [n \in Nodes |-> Introduced(n)]
  /\ messages = << >> /\ air = {} /\ answered = {} /\ misrouted = {}
  /\ log = InitLog

-----------------------------------------------------------------------------
(* Messages. *)

\* The entry is written at the length of the stack less one.
MutStacked(route, n) ==
  IF route = << >> THEN <<n>> ELSE [route EXCEPT ![Len(route)] = n]
\* append_compact: a full stack takes no more entries, and the frame goes on without.
Stacked(route, n) == IF Len(route) < StackLimit THEN Append(route, n) ELSE route

\* Node n plans what to do with a copy; `rest` is the air it leaves behind.
Forward(n, id, req, copy, rest) ==
  LET sender == IF copy.route = << >> THEN n ELSE Last(copy.route)
      plan == PlanForward(engine[n],
        [now |-> now, id |-> id, from |-> Compressed[sender], ttl |-> copy.ttl, k |-> copy.k,
         dest |-> req.dest, mgmt |-> req.mgmt, size |-> req.size,
         relay |-> n \in Relays, congested |-> n \in Congested])
      taken == [key |-> <<id, Compressed[sender]>>, at |-> now]
  IN /\ engine' = [engine EXCEPT ![n] = plan.engine]
     /\ air' = rest \cup {Copy(id, m, Stacked(copy.route, n), plan.ttl, plan.k) :
                            m \in plan.hops \cap Nodes}
     /\ log' = [log EXCEPT
          !.taken[n] = IF plan.accepted THEN Append(@, taken) ELSE @,
          !.sent[id] = @ + Cardinality(plan.hops),
          !.repeats = IF copy \in rest THEN @ + 1 ELSE @]

Originate(req) ==
  /\ Room /\ \A id \in DOMAIN messages : messages[id] # req
  /\ messages' = Append(messages, req)
  /\ LET id == Len(messages) + 1 IN
     Forward(req.origin, id, req, Copy(id, req.origin, << >>, DefaultTtl, req.k), air)
  /\ UNCHANGED <<now, answered, misrouted>>

\* What is left of the air once a frame is received: the frame too, if the radio
\* is to deliver it again.
Leaves(frame, rest) ==
  \/ rest = air \ {frame}
  \/ rest = air /\ Room

\* A copy that is not for the node itself is planned.
Relay(copy) ==
  LET req == messages[copy.id] IN
  /\ req.dest # copy.to
  /\ \E rest \in {air, air \ {copy}} :
       /\ Leaves(copy, rest)
       /\ Forward(copy.to, copy.id, req, copy, rest)
  /\ UNCHANGED <<now, messages, answered, misrouted>>

\* The destination answers along the stack, from its top (peek_next_hop).
Answer(copy) ==
  /\ messages[copy.id].dest = copy.to
  /\ \E rest \in {air, air \ {copy}} :
       /\ Leaves(copy, rest)
       /\ air' = rest \cup {Reply(copy.id, copy.to, Last(copy.route),
                                  [i \in DOMAIN copy.route |-> Compressed[copy.route[i]]])}
       /\ log' = [log EXCEPT !.repeats = IF copy \in rest THEN @ + 1 ELSE @]
  /\ UNCHANGED <<engine, now, messages, answered, misrouted>>

\* pop_for_reply_compact: the top is the node itself, the next is where the reply
\* goes; none is left at the origin.  The reply shows that its sender is a hop
\* towards the destination.
PassReply(reply) ==
  LET n == reply.to
      stack == reply.stack
      rest == air \ {reply}
  IN /\ IF stack = << >> \/ Last(stack) # Compressed[n]
        THEN /\ misrouted' = misrouted \cup {<<n, reply.id>>}
             /\ air' = rest
             /\ UNCHANGED <<engine, answered>>
        ELSE /\ engine' = [engine EXCEPT ![n] =
                  Learn(@, "delivered", messages[reply.id].dest, reply.from, now)]
             /\ UNCHANGED misrouted
             /\ IF Len(stack) = 1
                THEN air' = rest /\ answered' = answered \cup {<<n, reply.id>>}
                ELSE /\ \E m \in Heard(n) \cap Nodes :
                          /\ Compressed[m] = stack[Len(stack) - 1]
                          /\ air' = rest \cup {Reply(reply.id, n, m, Front(stack))}
                     /\ UNCHANGED answered
  /\ UNCHANGED <<now, messages, log>>

-----------------------------------------------------------------------------
(* Learning and forgetting. *)

Lesson == Room /\ log' = [log EXCEPT !.learned = @ + 1]

Hear(n, m) ==
  /\ Lesson
  /\ engine' = [engine EXCEPT ![n] = Observe(@, m, FitsOf[m], now)]
  /\ UNCHANGED <<now, messages, air, answered, misrouted>>

\* record_indirect_success or seed_path, of a path to dest.
Teach(n, lesson, dest, via) ==
  /\ Lesson
  /\ engine' = [engine EXCEPT ![n] = Learn(@, lesson, dest, via, now)]
  /\ UNCHANGED <<now, messages, air, answered, misrouted>>

\* The caller decays the tables whenever it likes.
Decay(n) ==
  /\ engine' = [engine EXCEPT ![n] = DecayPaths(DecayNeighbours(@, now), now)]
  /\ UNCHANGED <<now, messages, air, answered, misrouted, log>>

Tick ==
  /\ Room /\ now < MaxTime
  /\ now' = now + 1
  /\ UNCHANGED <<engine, messages, air, answered, misrouted, log>>

Next ==
  \/ \E req \in Requests : Originate(req)
  \/ \E n \in Nodes : Decay(n)
  \/ \E n \in Nodes : \E m \in Heard(n) :
       \/ Hear(n, m)
       \/ \E dest \in Destinations \ {n}, lesson \in {"overheard", "seeded"} :
            Teach(n, lesson, dest, m)
  \/ \E frame \in air :
       \/ frame.kind = "copy" /\ (Relay(frame) \/ Answer(frame))
       \/ frame.kind = "reply" /\ PassReply(frame)
  \/ Tick

Spec == Init /\ [][Next]_vars

-----------------------------------------------------------------------------
(* Properties. *)

\* The tables keep count of what they hold and hold each hive and each path once:
\* a full table is found full before the search for an unused slot, which panics
\* when there is none (neighbour.rs:222, path.rs:138).
TablesAreMaps ==
  \A n \in Nodes :
    LET e == engine[n] IN
    /\ e.neighbours.len = Cardinality(Used(e.neighbours))
    /\ e.paths.len = Cardinality(Used(e.paths))
    /\ \A i, j \in Used(e.neighbours) :
         e.neighbours.slots[i].hive = e.neighbours.slots[j].hive => i = j
    /\ \A i, j \in Used(e.paths) :
         e.paths.slots[i].dest = e.paths.slots[j].dest
           /\ e.paths.slots[i].hop = e.paths.slots[j].hop => i = j

\* Types, and well-formed tables.
TypeOK ==
  /\ now \in 0..MaxTime
  /\ TablesAreMaps
  /\ \A n \in Nodes :
       /\ Entries(engine[n].neighbours) \subseteq NeighbourEntries
       /\ Entries(engine[n].paths) \subseteq PathEntries
       /\ engine[n].dedup.cursor \in 0..(DedupSlots - 1)
  /\ \A f \in air : f.id \in DOMAIN messages /\ f.to \in Nodes

\* The ring is a window on the traffic: what it holds that has not expired is what
\* the node took among its last DedupSlots messages and within DedupTtl.  So no new
\* message is taken for a duplicate, and a duplicate passes only when the first is
\* older than that or DedupSlots others have come since.
DedupIsWindow ==
  \A n \in Nodes :
    LET taken == log.taken[n]
        held == {i \in DOMAIN engine[n].dedup.entries : engine[n].dedup.entries[i] # Free}
    IN {engine[n].dedup.entries[i].key :
          i \in {i \in held : engine[n].dedup.entries[i].expires > now}}
       = {taken[i].key : i \in {i \in DOMAIN taken :
            i > Len(taken) - DedupSlots /\ taken[i].at + DedupTtl > now}}

\* The copies a message of budget k can come to, when each is planned once.
Copies[ttl \in 0..DefaultTtl] ==
  [k \in 0..FloodK |->
     IF ttl <= 1 THEN 0
     ELSE IF k = FloodK THEN NeighbourSlots * (1 + Copies[ttl - 1][k])
     ELSE Least(NeighbourSlots, Most(1, k)) * (1 + Copies[ttl - 1][k \div 2])]

\* A message costs the mesh no more copies than its ttl and spray budget allow,
\* however the nodes relay it to each other, and as many again for each frame the
\* radio repeats.
SprayIsBounded ==
  \A id \in DOMAIN messages :
    log.sent[id] <= (1 + log.repeats) * Copies[DefaultTtl][messages[id].k]

\* A reply finds its way back: every node it comes to is on top of the stack, and
\* the node the stack ends at is the one that asked.
RepliesComeHome ==
  /\ misrouted = {}
  /\ \A home \in answered : home[1] = messages[home[2]].origin
=============================================================================
