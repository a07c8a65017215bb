---------------------------- MODULE RouteEngine ----------------------------
(***************************************************************************)
(* r2-route: the tables of one mesh node and the forwarding decision, as   *)
(* operators on the value of an engine [neighbours, paths, dedup].         *)
(*                                                                         *)
(* A confidence, a number in [0, 1] in the code, is a grade in 0..Full     *)
(* here; decay halves it once per HalfLife and rounds down.  A transport   *)
(* counts for what payloads it can take, not for what it costs: which of   *)
(* several usable transports carries a copy does not matter to the mesh.   *)
(***************************************************************************)
EXTENDS Naturals, Sequences, FiniteSets, FiniteSetsExt

CONSTANTS
  NeighbourSlots, PathSlots, DedupSlots,   \* the capacities of the tables
  Free,                \* an unused slot
  Mobile,              \* hives whose confidence decays within a run
  McuOnly,             \* hives of which only MCU traffic is seen: no relays
  DedupTtl,            \* DEDUP_TTL_SECS
  HalfLife,            \* of a mobile neighbour
  HardTimeout,         \* NEIGHBOUR_HARD_TIMEOUT
  PathHalfLife,        \* of a path
  Full, InitConf,      \* the grades of 1.0 and of NEIGHBOUR_INIT_CONF
  Floor,               \* FORWARDING_CONFIDENCE_FLOOR; below grade 1 is evicted
  FloodK               \* FLOOD_SENTINEL_K, 15

ASSUME TableAssumption ==
  /\ NeighbourSlots \in Nat \ {0} /\ PathSlots \in Nat \ {0} /\ DedupSlots \in Nat \ {0}
  /\ DedupTtl \in Nat \ {0} /\ HalfLife \in Nat \ {0} /\ PathHalfLife \in Nat \ {0}
  /\ HardTimeout \in Nat
  /\ Full \in Nat /\ InitConf \in 1..Full /\ Floor \in 1..Full
  /\ FloodK \in Nat /\ FloodK > 1

Least(a, b) == IF a <= b THEN a ELSE b
Most(a, b) == IF a >= b THEN a ELSE b
Reinforced(grade, share) == grade + ((Full - grade) \div share)
\* A grade halved once per life.
Decayed(grade, elapsed, life) ==
  LET halved[i \in 0..(elapsed \div life)] ==
        IF i = 0 THEN grade ELSE halved[i - 1] \div 2
  IN halved[elapsed \div life]

-----------------------------------------------------------------------------
(* Tables: fixed slots and a count of the used ones. *)

EmptyTable(n) == [slots |-> [i \in 1..n |-> Free], len |-> 0]
Used(t) == {i \in DOMAIN t.slots : t.slots[i] # Free}
Entries(t) == {t.slots[i] : i \in Used(t)}

\* The slots are freed, the count is not touched.
MutClear(t, gone) == [t EXCEPT !.slots = [i \in DOMAIN @ |-> IF i \in gone THEN Free ELSE @[i]]]
Clear(t, gone) ==
  [slots |-> [i \in DOMAIN t.slots |-> IF i \in gone THEN Free ELSE t.slots[i]],
   len |-> t.len - Cardinality(gone)]

\* A full table gives up slot `worst`; the entry takes the first unused slot.
Insert(t, entry, worst) ==
  LET room == IF t.len = Len(t.slots) THEN Clear(t, {worst}) ELSE t
  IN [slots |-> [room.slots EXCEPT ![Min(DOMAIN room.slots \ Used(room))] = entry],
      len |-> room.len + 1]

-----------------------------------------------------------------------------
(* Neighbours. *)

\* fits: the payload sizes some usable transport of the neighbour takes.
NewNeighbour(hive, fits, now) ==
  [hive |-> hive, conf |-> InitConf, seen |-> now, mcu |-> hive \in McuOnly, fits |-> fits]

\* lowest_index: the least confident, of those the one seen first.
LeastConfident(t) ==
  Min({i \in Used(t) : \A j \in Used(t) :
        LET a == t.slots[i]
            b == t.slots[j]
        IN a.conf < b.conf \/ (a.conf = b.conf /\ a.seen <= b.seen)})

\* ingest_observation: a known neighbour is reinforced, a new one takes a free
\* slot or that of the least confident.
HeardAgain(n, fits, now) ==
  [n EXCEPT !.conf = Reinforced(@, 5), !.seen = now, !.fits = @ \cup fits]
Observe(e, hive, fits, now) ==
  LET t == e.neighbours
      known == {i \in Used(t) : t.slots[i].hive = hive}
      k == Min(known)
  IN [e EXCEPT !.neighbours =
        IF known # {} THEN [t EXCEPT !.slots[k] = HeardAgain(t.slots[k], fits, now)]
        ELSE Insert(t, NewNeighbour(hive, fits, now), LeastConfident(t))]

\* decay_neighbours: by the time since the neighbour was seen, at each call.
DecayNeighbours(e, now) ==
  LET Aged(n) == IF n = Free \/ n.hive \notin Mobile THEN n
                 ELSE [n EXCEPT !.conf = Decayed(@, now - n.seen, HalfLife)]
      aged == [e.neighbours EXCEPT !.slots = [i \in DOMAIN @ |-> Aged(@[i])]]
      Stale(n) == n.conf < 1 \/ now - n.seen > HardTimeout
  IN [e EXCEPT !.neighbours = Clear(aged, {i \in Used(aged) : Stale(aged.slots[i])})]

Viable(n) == n.conf >= Floor /\ ~n.mcu

-----------------------------------------------------------------------------
(* Paths. *)

\* evict_oldest
LeastRecent(t) ==
  Min({i \in Used(t) : \A j \in Used(t) : t.slots[i].updated <= t.slots[j].updated})

\* What record_positive, record_indirect and seed make of a confidence.
Taught(lesson, grade) ==
  CASE lesson = "delivered" -> Reinforced(grade, 5)
    [] lesson = "overheard" -> Reinforced(grade, 20)
    [] lesson = "seeded"    -> Full

Learn(e, lesson, dest, hop, now) ==
  LET t == e.paths
      known == {i \in Used(t) : t.slots[i].dest = dest /\ t.slots[i].hop = hop}
      k == Min(known)
      path(grade) == [dest |-> dest, hop |-> hop, conf |-> Taught(lesson, grade), updated |-> now]
  IN [e EXCEPT !.paths =
        IF known # {} THEN [t EXCEPT !.slots[k] = path(t.slots[k].conf)]
        ELSE Insert(t, path(0), LeastRecent(t))]

\* decay_paths: by the time since the last call, for each call starts anew.
DecayPaths(e, now) ==
  LET Aged(p) == IF p = Free THEN p
                 ELSE [p EXCEPT !.conf = Decayed(@, now - p.updated, PathHalfLife),
                                !.updated = now]
      aged == [e.paths EXCEPT !.slots = [i \in DOMAIN @ |-> Aged(@[i])]]
  IN [e EXCEPT !.paths = Clear(aged, {i \in Used(aged) : aged.slots[i].conf < 1})]

\* best_for: the most confident path, the first of equals.
PathsTo(e, dest) == {i \in Used(e.paths) : e.paths.slots[i].dest = dest}
BestPath(e, dest) ==
  LET ps == PathsTo(e, dest)
      slots == e.paths.slots
  IN slots[Min({i \in ps : \A j \in ps : slots[j].conf <= slots[i].conf})]

-----------------------------------------------------------------------------
(* Deduplication: a ring of the messages taken in the last DedupTtl. *)

EmptyDedup == [entries |-> [i \in 0..(DedupSlots - 1) |-> Free], cursor |-> 0]

Expire(d, now) ==
  [d EXCEPT !.entries = [i \in DOMAIN @ |->
     IF @[i] # Free /\ @[i].expires <= now THEN Free ELSE @[i]]]

Seen(d, key) == \E i \in DOMAIN d.entries : d.entries[i] # Free /\ d.entries[i].key = key

\* The cursor looks for an unused slot, and stays where it is when there is none.
MutRemember(d, key, now) ==
  [d EXCEPT !.entries[d.cursor] = [key |-> key, expires |-> now + DedupTtl],
            !.cursor = IF d.entries[(@ + 1) % DedupSlots] = Free THEN (@ + 1) % DedupSlots ELSE @]
Remember(d, key, now) ==
  [entries |-> [d.entries EXCEPT ![d.cursor] = [key |-> key, expires |-> now + DedupTtl]],
   cursor |-> (d.cursor + 1) % DedupSlots]

-----------------------------------------------------------------------------
(* The forwarding decision. *)

\* What a forwarded copy and the node's own remainder get of k.
ForwardedK(k) == IF k = FloodK THEN FloodK ELSE k \div 2

\* Congestion halves k, and turns a flood into a spray; management traffic is exempt.
Congest(k, congested, mgmt) ==
  IF ~congested \/ mgmt \/ k = 0 THEN k ELSE Most(1, k \div 2)

\* build_flood_plan takes the first viable neighbours in the order of the slots, k
\* of them; one when k is 0.
MutFanout(k) == IF k \in {0, FloodK} THEN NeighbourSlots ELSE Least(NeighbourSlots, k)
Fanout(k) == IF k = FloodK THEN NeighbourSlots ELSE Least(NeighbourSlots, Most(1, k))

\* best_transport: none is best when no usable one takes the payload.
Reaches(n, size) == size \in n.fits
Spray(e, size, k) ==
  LET slots == e.neighbours.slots
      able == {i \in Used(e.neighbours) : Viable(slots[i]) /\ Reaches(slots[i], size)}
      first == {i \in able : Cardinality({j \in able : j < i}) < Fanout(k)}
  IN {slots[i].hive : i \in first}

\* try_directed: the one hop of the best path, if that is a viable neighbour now.
Directed(e, dest, size) ==
  IF PathsTo(e, dest) = {} THEN {}
  ELSE {n.hive : n \in {n \in Entries(e.neighbours) :
          n.hive = BestPath(e, dest).hop /\ Viable(n) /\ Reaches(n, size)}}

\* plan_forward of a request [now, id, from, ttl, k, dest, mgmt, size, relay,
\* congested].  A request is remembered before its ttl is looked at.  `accepted`
\* says that it was new.  The dice of relay_probability are left out: a node that
\* declines to relay is a node whose copies are all lost.
PlanForward(e, req) ==
  LET swept == Expire(e.dedup, req.now)
      key == <<req.id, req.from>>
      k == Congest(req.k, req.congested, req.mgmt)
      direct == IF req.dest = "all" THEN {} ELSE Directed(e, req.dest, req.size)
      Plan(dedup, hops, accepted) ==
        [engine |-> [e EXCEPT !.dedup = dedup], hops |-> hops, accepted |-> accepted,
         ttl |-> req.ttl - 1, k |-> ForwardedK(k)]
  IN IF ~req.mgmt /\ ~req.relay THEN Plan(e.dedup, {}, FALSE)
     ELSE IF Seen(swept, key) THEN Plan(swept, {}, FALSE)
     ELSE Plan(Remember(swept, key, req.now),
               IF req.ttl <= 1 THEN {}
               ELSE IF direct # {} THEN direct
               ELSE Spray(e, req.size, k), TRUE)
=============================================================================
