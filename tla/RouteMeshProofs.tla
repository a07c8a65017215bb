---------------------------- MODULE RouteMeshProofs ----------------------------
(***************************************************************************)
(* Proofs about RouteEngine and RouteMesh, for any nodes, links, requests  *)
(* and capacities of the tables, and about the frames of WireFrames that   *)
(* the nodes exchange, for any hives, payloads, ids and limits.            *)
(***************************************************************************)
EXTENDS RouteMesh, WireFrames, IndexInduction

-----------------------------------------------------------------------------
(* The first of a set of indices, by place and by key. *)

LEMMA MinIsFirst ==
  ASSUME NEW n \in Nat, NEW L \in SUBSET (1..n), L # {}
  PROVE  Min(L) \in L /\ \A j \in L : Min(L) <= j
<1>1. \E i \in L : \A j \in L : i <= j
  BY FirstIndex
<1> QED BY <1>1 DEF Min

\* Of indices with a number each, one has the least number.
LEMMA LeastKey ==
  ASSUME NEW n \in Nat, NEW L \in SUBSET (1..n), L # {}, NEW key \in [L -> Nat]
  PROVE  \E i \in L : \A j \in L : key[i] <= key[j]
<1>1. PICK a \in L : TRUE
  OBVIOUS
<1> DEFINE m == key[a] + 1
           K == {k \in 1..m : \E i \in L : key[i] + 1 = k}
<1>2. m \in Nat /\ K \in SUBSET (1..m) /\ m \in K
  <2>1. key[a] \in Nat
    OBVIOUS
  <2>2. m \in 1..m
    BY <2>1
  <2> QED BY <2>1, <2>2
<1>3. PICK k \in K : \A h \in K : k <= h
  <2> HIDE DEF K, m
  <2> QED BY <1>2, FirstIndex
<1>4. PICK i \in L : key[i] + 1 = k
  BY <1>3
<1>5. ASSUME NEW j \in L PROVE key[i] <= key[j]
  <2>1. PICK p \in Nat, q \in Nat, r \in Nat : p = key[i] /\ q = key[j] /\ r = key[a]
    OBVIOUS
  <2>2. p + 1 = k /\ k <= r + 1
    BY <1>2, <1>3, <1>4, <2>1
  <2>3. CASE q + 1 <= r + 1
    <3>1. q + 1 \in K
      BY <2>1, <2>3
    <3>2. k <= q + 1
      BY <1>3, <3>1
    <3> QED BY <2>1, <2>2, <3>2
  <2>4. CASE q > r
    BY <2>1, <2>2, <2>4
  <2> QED BY <2>1, <2>3, <2>4
<1> QED BY <1>5

-----------------------------------------------------------------------------
(* Tables with room for n entries of E. *)

Tables(n, E) == [slots : [1..n -> E \cup {Free}], len : 0..n]
IsTable(t, n, E) == t \in Tables(n, E) /\ t.len = Cardinality(Used(t))

LEMMA UsedFacts ==
  ASSUME NEW n \in Nat, NEW E, NEW t, IsTable(t, n, E)
  PROVE  /\ Used(t) \in SUBSET (1..n) /\ IsFiniteSet(Used(t))
         /\ \A i \in Used(t) : t.slots[i] \in E
         /\ DOMAIN t.slots = 1..n /\ Len(t.slots) = n /\ t.len \in 0..n
         /\ t.len = n => Used(t) = 1..n
<1>1. t.slots \in [1..n -> E \cup {Free}] /\ t.len \in 0..n
  BY DEF IsTable, Tables
<1>2. Used(t) \in SUBSET (1..n) /\ \A i \in Used(t) : t.slots[i] \in E
  BY <1>1 DEF Used
<1>3. IsFiniteSet(1..n) /\ Cardinality(1..n) = n
  BY FS_Interval
<1>4. IsFiniteSet(Used(t))
  BY <1>2, <1>3, FS_Subset
<1>5. Len(t.slots) = n
  BY <1>1, FunctionIsSeq
<1>6. t.len = n => Used(t) = 1..n
  BY <1>2, <1>3, FS_Subset DEF IsTable
<1> QED BY <1>1, <1>2, <1>4, <1>5, <1>6

LEMMA EmptyTableFacts ==
  ASSUME NEW n \in Nat, NEW E
  PROVE  IsTable(EmptyTable(n), n, E) /\ Used(EmptyTable(n)) = {}
<1>1. Used(EmptyTable(n)) = {}
  BY DEF Used, EmptyTable
<1>2. EmptyTable(n) \in Tables(n, E) /\ EmptyTable(n).len = 0
  BY DEF EmptyTable, Tables
<1> QED BY <1>1, <1>2, FS_EmptySet DEF IsTable

\* Freeing used slots leaves a table, of the entries that were not freed.
LEMMA ClearFacts ==
  ASSUME NEW n \in Nat, NEW E, NEW t, IsTable(t, n, E), NEW gone \in SUBSET Used(t)
  PROVE  /\ IsTable(Clear(t, gone), n, E)
         /\ Used(Clear(t, gone)) = Used(t) \ gone
         /\ \A i \in Used(t) \ gone : Clear(t, gone).slots[i] = t.slots[i]
<1> DEFINE c == Clear(t, gone)
<1>1. t.slots \in [1..n -> E \cup {Free}] /\ t.len \in 0..n /\ t.len = Cardinality(Used(t))
  BY DEF IsTable, Tables
<1>2. /\ c.slots \in [1..n -> E \cup {Free}]
      /\ c.len = t.len - Cardinality(gone)
      /\ \A i \in 1..n : c.slots[i] = IF i \in gone THEN Free ELSE t.slots[i]
      /\ c = [slots |-> c.slots, len |-> c.len]
  BY <1>1 DEF Clear
<1>3. Used(c) = Used(t) \ gone
  <2> HIDE DEF c
  <2> QED BY <1>1, <1>2 DEF Used
<1>4. IsFiniteSet(Used(t)) /\ Used(t) \in SUBSET (1..n)
  BY UsedFacts
<1>5. IsFiniteSet(gone) /\ Used(t) \cap gone = gone
  BY <1>4, FS_Subset
<1>6. Cardinality(Used(t) \ gone) = Cardinality(Used(t)) - Cardinality(gone)
  BY <1>4, <1>5, FS_Difference
<1>7. Cardinality(gone) \in Nat /\ Cardinality(Used(t) \ gone) \in Nat
  BY <1>4, <1>5, FS_CardinalityType, FS_Difference
<1>8. c.len = Cardinality(Used(c)) /\ c.len \in 0..n
  <2> HIDE DEF c
  <2> QED BY <1>1, <1>2, <1>3, <1>6, <1>7
<1>9. c \in Tables(n, E)
  <2> HIDE DEF c
  <2> QED BY <1>2, <1>8 DEF Tables
<1>10. \A i \in Used(t) \ gone : c.slots[i] = t.slots[i]
  <2> HIDE DEF c
  <2> QED BY <1>2, <1>4
<1> QED BY <1>3, <1>8, <1>9, <1>10 DEF IsTable

\* Writing an entry to a used slot.
LEMMA RewriteFacts ==
  ASSUME NEW n \in Nat, NEW E, Free \notin E, NEW t, IsTable(t, n, E),
         NEW i \in Used(t), NEW entry \in E, NEW u, u.slots = [t.slots EXCEPT ![i] = entry],
         u.len = t.len, u = [slots |-> u.slots, len |-> u.len]
  PROVE  IsTable(u, n, E) /\ Used(u) = Used(t)
<1>1. t.slots \in [1..n -> E \cup {Free}] /\ t.len \in 0..n /\ t.len = Cardinality(Used(t))
  BY DEF IsTable, Tables
<1>2. i \in 1..n /\ t.slots[i] # Free
  BY <1>1 DEF Used
<1>3. u.slots \in [1..n -> E \cup {Free}]
  BY <1>1, <1>2
<1>4. Used(u) = Used(t)
  BY <1>1, <1>2, <1>3 DEF Used
<1>5. u \in Tables(n, E)
  BY <1>1, <1>3 DEF Tables
<1> QED BY <1>1, <1>4, <1>5 DEF IsTable

\* A new entry takes a slot that is free, or that of `worst` in a full table: the rest
\* stays as it was.
Placed(u, t, kept, k, entry) ==
  /\ Used(u) = kept \cup {k} /\ k \notin kept /\ u.slots[k] = entry
  /\ \A i \in kept : u.slots[i] = t.slots[i]

LEMMA InsertFacts ==
  ASSUME NEW n \in Nat, n > 0, NEW E, Free \notin E, NEW t, IsTable(t, n, E),
         NEW entry \in E, NEW worst, t.len = n => worst \in Used(t)
  PROVE  /\ IsTable(Insert(t, entry, worst), n, E)
         /\ \E kept \in SUBSET Used(t) : \E k \in 1..n :
              Placed(Insert(t, entry, worst), t, kept, k, entry)
<1> DEFINE room == IF t.len = Len(t.slots) THEN Clear(t, {worst}) ELSE t
           k == Min(DOMAIN room.slots \ Used(room))
           u == Insert(t, entry, worst)
<1>0. /\ Used(t) \in SUBSET (1..n) /\ Len(t.slots) = n
      /\ t.len \in 0..n /\ t.len = Cardinality(Used(t))
  BY UsedFacts DEF IsTable
<1>1. /\ IsTable(room, n, E) /\ Used(room) \in SUBSET Used(t) /\ room.len < n
      /\ \A i \in Used(room) : room.slots[i] = t.slots[i]
  <2>1. CASE t.len = n
    <3>1. room = Clear(t, {worst}) /\ {worst} \in SUBSET Used(t) /\ worst \in Used(t)
      BY <1>0, <2>1
    <3>2. /\ IsTable(room, n, E) /\ Used(room) = Used(t) \ {worst}
          /\ \A i \in Used(t) \ {worst} : room.slots[i] = t.slots[i]
      <4> HIDE DEF room
      <4> QED BY <3>1, ClearFacts
    <3>3. room.len \in 0..n /\ (room.len = n => Used(room) = 1..n)
      <4> HIDE DEF room
      <4> QED BY <3>2, UsedFacts
    <3>4. worst \in 1..n /\ worst \notin Used(room)
      <4> HIDE DEF room
      <4> QED BY <1>0, <3>1, <3>2
    <3> HIDE DEF room
    <3> QED BY <3>2, <3>3, <3>4
  <2>2. CASE t.len # n
    BY <1>0, <2>2
  <2> QED BY <2>1, <2>2
<1>2. /\ DOMAIN room.slots = 1..n /\ Used(room) \in SUBSET (1..n)
      /\ room.slots \in [1..n -> E \cup {Free}] /\ room.len = Cardinality(Used(room))
      /\ room.len \in 0..n /\ IsFiniteSet(Used(room))
  <2> HIDE DEF room
  <2> QED BY <1>1, UsedFacts DEF IsTable, Tables
<1>3. k \in 1..n /\ k \notin Used(room)
  <2> HIDE DEF room
  <2>1. (1..n) \ Used(room) # {}
    <3>1. SUFFICES ASSUME Used(room) = 1..n PROVE FALSE
      BY <1>2
    <3>2. Cardinality(1..n) = n
      BY FS_Interval
    <3> QED BY <1>1, <1>2, <3>1, <3>2
  <2>2. (1..n) \ Used(room) \in SUBSET (1..n)
    OBVIOUS
  <2> QED BY <1>2, <2>1, <2>2, MinIsFirst
<1>4. /\ u = [slots |-> u.slots, len |-> u.len]
      /\ u.slots = [room.slots EXCEPT ![k] = entry] /\ u.len = room.len + 1
  BY DEF Insert
<1> HIDE DEF room, k, u
<1>5. /\ u.slots \in [1..n -> E \cup {Free}] /\ u.slots[k] = entry
      /\ \A i \in 1..n : i # k => u.slots[i] = room.slots[i]
  BY <1>2, <1>3, <1>4
<1>6. Used(u) = Used(room) \cup {k}
  BY <1>2, <1>3, <1>5 DEF Used
<1>7. Cardinality(Used(u)) = Cardinality(Used(room)) + 1
  BY <1>2, <1>3, <1>6, FS_AddElement
<1>8. IsTable(u, n, E)
  <2>1. u.len \in 0..n /\ u.len = Cardinality(Used(u))
    BY <1>1, <1>2, <1>4, <1>7
  <2>2. u \in Tables(n, E)
    BY <1>4, <1>5, <2>1 DEF Tables
  <2> QED BY <2>1, <2>2 DEF IsTable
<1>9. Placed(u, t, Used(room), k, entry)
  BY <1>1, <1>2, <1>3, <1>5, <1>6 DEF Placed
<1> QED BY <1>1, <1>3, <1>8, <1>9 DEF u

-----------------------------------------------------------------------------
(* Engines: what the tables of a node that hears the hives H hold at time T. *)

NeighboursOf(H, T) ==
  [hive : H, conf : 0..Full, seen : 0..T, mcu : BOOLEAN, fits : SUBSET Sizes]
PathsOf(T) == [dest : Nodes, hop : Hives, conf : 0..Full, updated : 0..T]

HivesOnce(t) == \A i, j \in Used(t) : t.slots[i].hive = t.slots[j].hive => i = j
PathsOnce(t) ==
  \A i, j \in Used(t) :
    t.slots[i].dest = t.slots[j].dest /\ t.slots[i].hop = t.slots[j].hop => i = j

NeighbourTable(t, H, T) == IsTable(t, NeighbourSlots, NeighboursOf(H, T)) /\ HivesOnce(t)
PathTable(t, T) == IsTable(t, PathSlots, PathsOf(T)) /\ PathsOnce(t)

IsEngine(e, H, T) ==
  /\ e = [neighbours |-> e.neighbours, paths |-> e.paths, dedup |-> e.dedup]
  /\ NeighbourTable(e.neighbours, H, T) /\ PathTable(e.paths, T)

LEMMA FreeIsNoEntry ==
  ASSUME NEW H \in SUBSET Hives, NEW T \in 0..MaxTime
  PROVE  Free \notin NeighboursOf(H, T) /\ Free \notin PathsOf(T)
<1>1. 0..T \subseteq 0..MaxTime
  BY MeshAssumption
<1>2. NeighboursOf(H, T) \subseteq NeighbourEntries
  BY <1>1 DEF NeighboursOf, NeighbourEntries
<1>3. PathsOf(T) \subseteq PathEntries
  BY <1>1 DEF PathsOf, PathEntries
<1> QED BY <1>2, <1>3, FreeAssumption

LEMMA ReinforcedFacts ==
  ASSUME NEW grade \in 0..Full, NEW share \in {5, 20}
  PROVE  Reinforced(grade, share) \in 0..Full
<1>1. PICK d \in Nat, f \in Nat : f = Full /\ d = f - grade
  BY TableAssumption
<1>2. d \div 5 \in 0..d /\ d \div 20 \in 0..d
  BY <1>1
<1> QED BY <1>1, <1>2 DEF Reinforced

\* Halving never raises a grade.
LEMMA DecayedFacts ==
  ASSUME NEW grade \in Nat, NEW elapsed \in Nat, NEW life \in Nat \ {0}
  PROVE  Decayed(grade, elapsed, life) \in 0..grade
<1> DEFINE n == elapsed \div life
           IsRun(f, k) == f = [i \in 0..k |-> IF i = 0 THEN grade ELSE f[i - 1] \div 2]
           S == {k \in 0..n : \E f : IsRun(f, k)}
<1>0. n \in Nat
  OBVIOUS
<1>1. 0 \in S
  <2>1. IsRun([i \in 0..0 |-> grade], 0)
    <3>1. \A i \in 0..0 : i = 0
      OBVIOUS
    <3> QED BY <3>1
  <2>2. 0 \in 0..n
    BY <1>0
  <2> HIDE DEF IsRun, n
  <2> QED BY <2>1, <2>2
<1> HIDE DEF n
<1>2. ASSUME NEW k \in 0..(n - 1), k \in S PROVE k + 1 \in S
  <2>1. PICK f : IsRun(f, k)
    BY <1>2
  <2>2. \A i \in 0..k : f[i] = IF i = 0 THEN grade ELSE f[i - 1] \div 2
    BY <2>1
  <2> DEFINE g == [i \in 0..(k + 1) |-> IF i = k + 1 THEN f[k] \div 2 ELSE f[i]]
  <2>3. \A i \in 0..(k + 1) : g[i] = IF i = 0 THEN grade ELSE g[i - 1] \div 2
    <3> TAKE i \in 0..(k + 1)
    <3>1. CASE i = k + 1
      <4>1. i # 0 /\ k \in 0..(k + 1) /\ k # k + 1 /\ i - 1 = k
        BY <1>0, <3>1
      <4>2. g[k] = f[k] /\ g[i] = f[k] \div 2
        BY <3>1, <4>1
      <4> QED BY <4>1, <4>2
    <3>2. CASE i = 0
      <4>1. g[i] = f[0] /\ 0 \in 0..k
        BY <1>0, <3>2
      <4> QED BY <3>2, <4>1, <2>2
    <3>3. CASE i \in 1..k
      <4>1. /\ i \in 0..(k + 1) /\ i # k + 1 /\ i # 0 /\ i \in 0..k
            /\ i - 1 \in 0..(k + 1) /\ i - 1 # k + 1
        BY <1>0, <3>3
      <4>2. g[i] = f[i] /\ g[i - 1] = f[i - 1]
        BY <4>1
      <4> HIDE DEF g
      <4> QED BY <4>1, <4>2, <2>2
    <3> QED BY <1>0, <3>1, <3>2, <3>3
  <2>4. IsRun(g, k + 1)
    <3>1. g = [i \in 0..(k + 1) |-> g[i]]
      OBVIOUS
    <3> HIDE DEF g
    <3> QED BY <2>3, <3>1
  <2>5. k + 1 \in 0..n
    BY <1>0, <1>2
  <2> HIDE DEF g, IsRun
  <2> QED BY <2>4, <2>5
<1>3. n \in S
  <2> HIDE DEF S
  <2>1. 0..n \subseteq S
    BY <1>0, <1>1, <1>2, IndexInduction
  <2> QED BY <1>0, <2>1
<1> DEFINE halved == CHOOSE f : IsRun(f, n)
<1>4. IsRun(halved, n)
  <2>1. \E f : IsRun(f, n)
    BY <1>3
  <2> HIDE DEF IsRun
  <2> QED BY <2>1
<1>5. Decayed(grade, elapsed, life) = halved[n]
  BY DEF Decayed, n
<1>6. halved[0] = grade /\ \A i \in 1..n : halved[i] = halved[i - 1] \div 2
  <2>1. 0 \in 0..n /\ \A i \in 1..n : i \in 0..n /\ i # 0
    BY <1>0
  <2> HIDE DEF halved
  <2> QED BY <1>4, <2>1
<1> HIDE DEF halved
<1> DEFINE U == {i \in 0..n : halved[i] \in 0..grade}
<1>7. 0 \in U
  BY <1>0, <1>6
<1>8. ASSUME NEW i \in 0..(n - 1), i \in U PROVE i + 1 \in U
  <2>1. i + 1 \in 1..n /\ (i + 1) - 1 = i /\ i + 1 \in 0..n
    BY <1>0
  <2>2. PICK h \in 0..grade : h = halved[i]
    BY <1>8
  <2>3. h \div 2 \in 0..grade
    OBVIOUS
  <2> QED BY <1>6, <2>1, <2>2, <2>3
<1>9. 0..n \subseteq U
  <2> HIDE DEF U
  <2> QED BY <1>0, <1>7, <1>8, IndexInduction
<1> QED BY <1>0, <1>5, <1>9

\* Time only widens what an entry can be.
LEMMA EngineLater ==
  ASSUME NEW e, NEW H, NEW T \in Nat, NEW U \in Nat, T <= U, IsEngine(e, H, T)
  PROVE  IsEngine(e, H, U)
<1>1. 0..T \subseteq 0..U
  OBVIOUS
<1>2. NeighboursOf(H, T) \subseteq NeighboursOf(H, U) /\ PathsOf(T) \subseteq PathsOf(U)
  BY <1>1 DEF NeighboursOf, PathsOf
<1>3. IsTable(e.neighbours, NeighbourSlots, NeighboursOf(H, U))
  BY <1>2 DEF IsEngine, NeighbourTable, IsTable, Tables
<1>4. IsTable(e.paths, PathSlots, PathsOf(U))
  BY <1>2 DEF IsEngine, PathTable, IsTable, Tables
<1> QED BY <1>3, <1>4 DEF IsEngine, NeighbourTable, PathTable

LEMMA EmptyEngineFacts ==
  ASSUME NEW H, NEW T \in Nat
  PROVE  IsEngine(EmptyEngine, H, T) /\ EmptyEngine.dedup = EmptyDedup
<1>1. /\ IsTable(EmptyTable(NeighbourSlots), NeighbourSlots, NeighboursOf(H, T))
      /\ Used(EmptyTable(NeighbourSlots)) = {}
  BY TableAssumption, EmptyTableFacts
<1>2. /\ IsTable(EmptyTable(PathSlots), PathSlots, PathsOf(T))
      /\ Used(EmptyTable(PathSlots)) = {}
  BY TableAssumption, EmptyTableFacts
<1> QED BY <1>1, <1>2 DEF EmptyEngine, IsEngine, NeighbourTable, PathTable, HivesOnce, PathsOnce

\* What is evicted is in the table.
LEMMA LeastConfidentIsUsed ==
  ASSUME NEW t, NEW H, NEW T \in Nat, NeighbourTable(t, H, T), Used(t) # {}
  PROVE  LeastConfident(t) \in Used(t)
<1> DEFINE L == Used(t)
           Before(i, j) == \/ t.slots[i].conf < t.slots[j].conf
                           \/ t.slots[i].conf = t.slots[j].conf /\ t.slots[i].seen <= t.slots[j].seen
<1>1. /\ NeighbourSlots \in Nat /\ L \in SUBSET (1..NeighbourSlots)
      /\ \A i \in L : t.slots[i] \in NeighboursOf(H, T)
  BY TableAssumption, UsedFacts DEF NeighbourTable
<1>2. \A i \in L : t.slots[i].conf \in Nat /\ t.slots[i].seen \in Nat
  BY <1>1, TableAssumption DEF NeighboursOf
<1>3. PICK a \in L : \A j \in L : t.slots[a].conf <= t.slots[j].conf
  <2> DEFINE key == [i \in L |-> t.slots[i].conf]
  <2>1. key \in [L -> Nat]
    BY <1>2
  <2>2. \E i \in L : \A j \in L : key[i] <= key[j]
    <3> HIDE DEF key, L
    <3> QED BY <1>1, <2>1, LeastKey DEF L
  <2> QED BY <2>2
<1>4. PICK b \in L : /\ t.slots[b].conf = t.slots[a].conf
                     /\ \A j \in L : t.slots[j].conf = t.slots[a].conf
                                       => t.slots[b].seen <= t.slots[j].seen
  <2> DEFINE K == {i \in L : t.slots[i].conf = t.slots[a].conf}
             key == [i \in K |-> t.slots[i].seen]
  <2>1. key \in [K -> Nat] /\ K \in SUBSET (1..NeighbourSlots) /\ a \in K
    BY <1>1, <1>2
  <2>2. \E i \in K : \A j \in K : key[i] <= key[j]
    <3> HIDE DEF key, K, L
    <3> QED BY <1>1, <2>1, LeastKey
  <2> QED BY <2>2
<1>5. \A j \in L : Before(b, j)
  <2> TAKE j \in L
  <2>1. PICK x \in Nat, y \in Nat, z \in Nat :
          x = t.slots[a].conf /\ y = t.slots[j].conf /\ z = t.slots[b].conf
    BY <1>2
  <2>2. x <= y /\ z = x
    BY <1>3, <1>4, <2>1
  <2>3. CASE x = y
    BY <1>4, <2>1, <2>2, <2>3
  <2>4. CASE x < y
    BY <2>1, <2>2, <2>4
  <2> QED BY <2>2, <2>3, <2>4
<1> DEFINE M == {i \in L : \A j \in L : Before(i, j)}
<1>6. M \in SUBSET (1..NeighbourSlots) /\ M # {}
  BY <1>1, <1>5
<1>7. LeastConfident(t) = Min(M)
  BY DEF LeastConfident
<1>8. Min(M) \in M
  <2> HIDE DEF M
  <2> QED BY <1>1, <1>6, MinIsFirst
<1> QED BY <1>7, <1>8

LEMMA LeastRecentIsUsed ==
  ASSUME NEW t, NEW T \in Nat, PathTable(t, T), Used(t) # {}
  PROVE  LeastRecent(t) \in Used(t)
<1> DEFINE L == Used(t)
           M == {i \in L : \A j \in L : t.slots[i].updated <= t.slots[j].updated}
           key == [i \in L |-> t.slots[i].updated]
<1>1. /\ PathSlots \in Nat /\ L \in SUBSET (1..PathSlots)
      /\ \A i \in L : t.slots[i] \in PathsOf(T)
  BY TableAssumption, UsedFacts DEF PathTable
<1>2. key \in [L -> Nat]
  BY <1>1 DEF PathsOf
<1>3. \E i \in L : \A j \in L : key[i] <= key[j]
  <2> HIDE DEF key, L
  <2> QED BY <1>1, <1>2, LeastKey DEF L
<1>4. M \in SUBSET (1..PathSlots) /\ M # {}
  BY <1>1, <1>3
<1>5. LeastRecent(t) = Min(M)
  BY DEF LeastRecent
<1>6. Min(M) \in M
  <2> HIDE DEF M
  <2> QED BY <1>1, <1>4, MinIsFirst
<1> QED BY <1>5, <1>6

\* A table with something new in it has each hive, or each path, once.
LEMMA PlacedOnce ==
  ASSUME NEW n \in Nat, NEW E, NEW t, IsTable(t, n, E), NEW u, NEW kept \in SUBSET Used(t),
         NEW k \in 1..n, NEW entry, Placed(u, t, kept, k, entry)
  PROVE  /\ HivesOnce(t) /\ (\A i \in Used(t) : t.slots[i].hive # entry.hive) => HivesOnce(u)
         /\ PathsOnce(t)
              /\ (\A i \in Used(t) : ~(t.slots[i].dest = entry.dest /\ t.slots[i].hop = entry.hop))
            => PathsOnce(u)
<1>1. /\ Used(u) = kept \cup {k} /\ k \notin kept /\ u.slots[k] = entry
      /\ \A i \in kept : u.slots[i] = t.slots[i] /\ i \in Used(t)
  BY DEF Placed
<1>2. ASSUME HivesOnce(t), \A i \in Used(t) : t.slots[i].hive # entry.hive
      PROVE  HivesOnce(u)
  BY <1>1, <1>2 DEF HivesOnce
<1>3. ASSUME PathsOnce(t),
             \A i \in Used(t) : ~(t.slots[i].dest = entry.dest /\ t.slots[i].hop = entry.hop)
      PROVE  PathsOnce(u)
  BY <1>1, <1>3 DEF PathsOnce
<1> QED BY <1>2, <1>3

\* An observation is recorded in a table of neighbours, and nowhere else.
LEMMA ObserveFacts ==
  ASSUME NEW H \in SUBSET Hives, NEW T \in 0..MaxTime, NEW e, IsEngine(e, H, T),
         NEW m \in H, NEW fits \in SUBSET Sizes
  PROVE  IsEngine(Observe(e, m, fits, T), H, T) /\ Observe(e, m, fits, T).dedup = e.dedup
<1> DEFINE t == e.neighbours
           o == Observe(e, m, fits, T)
           known == {i \in Used(t) : t.slots[i].hive = m}
           E == NeighboursOf(H, T)
           n == NeighbourSlots
<1>0. T \in Nat
  BY MeshAssumption
<1>1. /\ e = [neighbours |-> t, paths |-> e.paths, dedup |-> e.dedup]
      /\ IsTable(t, n, E) /\ HivesOnce(t) /\ PathTable(e.paths, T) /\ n \in Nat /\ n > 0
  BY TableAssumption DEF IsEngine, NeighbourTable
<1>2. /\ Used(t) \in SUBSET (1..n) /\ \A i \in Used(t) : t.slots[i] \in E
      /\ t.len = n => Used(t) = 1..n
  BY <1>1, UsedFacts
<1>3. Free \notin E
  BY FreeIsNoEntry
<1>4. CASE known # {}
  <2> DEFINE k == Min(known)
             old == t.slots[k]
             entry == HeardAgain(old, fits, T)
             u == [t EXCEPT !.slots[k] = entry]
  <2>1. k \in known
    <3> HIDE DEF t, n
    <3> QED BY <1>1, <1>2, <1>4, MinIsFirst
  <2>2. old \in E /\ old.hive = m /\ k \in Used(t)
    BY <1>2, <2>1
  <2>3. old.conf \in 0..Full /\ Reinforced(old.conf, 5) \in 0..Full
    BY <2>2, ReinforcedFacts DEF NeighboursOf
  <2>4. entry \in E /\ entry.hive = m
    <3>1. PICK c \in 0..Full, f \in SUBSET Sizes :
            c = Reinforced(old.conf, 5) /\ f = old.fits \cup fits
      BY <2>2, <2>3 DEF NeighboursOf
    <3>2. T \in 0..T
      BY <1>0
    <3>3. entry = [old EXCEPT !.conf = c, !.seen = T, !.fits = f]
      BY <3>1 DEF HeardAgain
    <3> HIDE DEF entry, old
    <3>4. entry \in E
      BY <2>2, <3>2, <3>3 DEF NeighboursOf
    <3>5. entry.hive = m
      BY <2>2, <3>3 DEF NeighboursOf
    <3> QED BY <3>4, <3>5
  <2>5. t = [slots |-> t.slots, len |-> t.len]
    BY <1>1 DEF IsTable, Tables
  <2>6. o = [e EXCEPT !.neighbours = u]
    BY <1>4 DEF Observe
  <2> HIDE DEF o, entry, k
  <2>7. o = [neighbours |-> u, paths |-> e.paths, dedup |-> e.dedup]
    BY <1>1, <2>6
  <2>8. u.slots = [t.slots EXCEPT ![k] = entry] /\ u.len = t.len
        /\ u = [slots |-> u.slots, len |-> u.len]
    <3> HIDE DEF t
    <3> QED BY <2>5
  <2> HIDE DEF u, t, n, E, old
  <2>9. IsTable(u, n, E) /\ Used(u) = Used(t)
    BY <1>1, <1>3, <2>2, <2>4, <2>8, RewriteFacts
  <2>10. HivesOnce(u)
    <3>1. \A i \in Used(t) : u.slots[i].hive = t.slots[i].hive
      <4> TAKE i \in Used(t)
      <4>1. t.slots \in [1..n -> E \cup {Free}] /\ i \in 1..n
        BY <1>1, <1>2 DEF IsTable, Tables
      <4>2. u.slots[i] = IF i = k THEN entry ELSE t.slots[i]
        BY <2>8, <4>1
      <4> QED BY <4>2, <2>2, <2>4 DEF old
    <3> QED BY <1>1, <2>9, <3>1 DEF HivesOnce
  <2>11. IsEngine(o, H, T) /\ o.dedup = e.dedup
    BY <1>1, <2>7, <2>9, <2>10 DEF IsEngine, NeighbourTable, n, E
  <2> QED BY <2>11 DEF o
<1>5. CASE known = {}
  <2> DEFINE entry == NewNeighbour(m, fits, T)
             worst == LeastConfident(t)
             u == Insert(t, entry, worst)
  <2>1. entry \in E /\ entry.hive = m
    BY <1>0, TableAssumption DEF NeighboursOf, NewNeighbour
  <2>2. t.len = n => worst \in Used(t)
    <3> SUFFICES ASSUME t.len = n PROVE worst \in Used(t)
      OBVIOUS
    <3>1. Used(t) # {} /\ NeighbourTable(t, H, T)
      BY <1>1, <1>2 DEF NeighbourTable
    <3> HIDE DEF t
    <3> QED BY <1>0, <3>1, LeastConfidentIsUsed
  <2>3. /\ o = [neighbours |-> u, paths |-> e.paths, dedup |-> e.dedup]
    <3>1. o = [e EXCEPT !.neighbours = u]
      BY <1>5 DEF Observe
    <3> HIDE DEF o, u
    <3> QED BY <1>1, <3>1
  <2> HIDE DEF entry, worst, t, n, E
  <2>4. IsTable(u, n, E) /\ \E kept \in SUBSET Used(t) : \E k \in 1..n : Placed(u, t, kept, k, entry)
    BY <1>1, <1>3, <2>1, <2>2, InsertFacts
  <2>5. PICK kept \in SUBSET Used(t) : \E k \in 1..n : Placed(u, t, kept, k, entry)
    BY <2>4
  <2>6. PICK k \in 1..n : Placed(u, t, kept, k, entry)
    BY <2>5
  <2> HIDE DEF u
  <2>7. \A i \in Used(t) : t.slots[i].hive # entry.hive
    BY <1>5, <2>1
  <2>8. HivesOnce(u)
    BY <1>1, <2>6, <2>7, PlacedOnce
  <2> HIDE DEF o
  <2>9. IsEngine(o, H, T) /\ o.dedup = e.dedup
    BY <1>1, <2>3, <2>4, <2>8 DEF IsEngine, NeighbourTable, n, E
  <2> QED BY <2>9 DEF o
<1> QED BY <1>4, <1>5

LEMMA TaughtFacts ==
  ASSUME NEW lesson \in {"delivered", "overheard", "seeded"}, NEW grade \in 0..Full
  PROVE  Taught(lesson, grade) \in 0..Full
<1>1. CASE lesson = "delivered"
  BY <1>1, ReinforcedFacts DEF Taught
<1>2. CASE lesson = "overheard"
  BY <1>2, ReinforcedFacts DEF Taught
<1>3. CASE lesson = "seeded"
  BY <1>3, TableAssumption DEF Taught
<1> QED BY <1>1, <1>2, <1>3

\* What a path can be learned from.
Lessons == {"delivered", "overheard", "seeded"}

\* A lesson is recorded in a table of paths, and nowhere else.
LEMMA LearnFacts ==
  ASSUME NEW H \in SUBSET Hives, NEW T \in 0..MaxTime, NEW e, IsEngine(e, H, T),
         NEW lesson \in Lessons,
         NEW dest \in Nodes, NEW hop \in Hives
  PROVE  /\ IsEngine(Learn(e, lesson, dest, hop, T), H, T)
         /\ Learn(e, lesson, dest, hop, T).dedup = e.dedup
<1> DEFINE t == e.paths
           o == Learn(e, lesson, dest, hop, T)
           known == {i \in Used(t) : t.slots[i].dest = dest /\ t.slots[i].hop = hop}
           path(grade) == [dest |-> dest, hop |-> hop, conf |-> Taught(lesson, grade),
                           updated |-> T]
           E == PathsOf(T)
           n == PathSlots
<1>0. T \in Nat
  BY MeshAssumption
<1>1. /\ e = [neighbours |-> e.neighbours, paths |-> t, dedup |-> e.dedup]
      /\ IsTable(t, n, E) /\ PathsOnce(t) /\ NeighbourTable(e.neighbours, H, T)
      /\ n \in Nat /\ n > 0
  BY TableAssumption DEF IsEngine, PathTable
<1>2. /\ Used(t) \in SUBSET (1..n) /\ \A i \in Used(t) : t.slots[i] \in E
      /\ t.len = n => Used(t) = 1..n
  BY <1>1, UsedFacts
<1>3. Free \notin E
  BY FreeIsNoEntry
<1>6. ASSUME NEW grade \in 0..Full PROVE path(grade) \in E
  <2>1. Taught(lesson, grade) \in 0..Full /\ T \in 0..T
    BY <1>0, TaughtFacts DEF Lessons
  <2> QED BY <2>1 DEF PathsOf
<1>4. CASE known # {}
  <2> DEFINE k == Min(known)
             old == t.slots[k]
             entry == path(old.conf)
             u == [t EXCEPT !.slots[k] = entry]
  <2>1. k \in known
    <3> HIDE DEF t, n
    <3> QED BY <1>1, <1>2, <1>4, MinIsFirst
  <2>2. old \in E /\ old.dest = dest /\ old.hop = hop /\ k \in Used(t)
    BY <1>2, <2>1
  <2>3. old.conf \in 0..Full
    BY <2>2 DEF PathsOf
  <2>4. entry \in E /\ entry.dest = dest /\ entry.hop = hop
    <3>1. entry \in E
      <4> HIDE DEF path, old, E
      <4> QED BY <1>6, <2>3
    <3> QED BY <3>1
  <2>5. t = [slots |-> t.slots, len |-> t.len]
    BY <1>1 DEF IsTable, Tables
  <2>6. o = [e EXCEPT !.paths = u]
    BY <1>4 DEF Learn
  <2> HIDE DEF o, path, k
  <2>7. o = [neighbours |-> e.neighbours, paths |-> u, dedup |-> e.dedup]
    BY <1>1, <2>6
  <2> HIDE DEF entry
  <2>8. u.slots = [t.slots EXCEPT ![k] = entry] /\ u.len = t.len
        /\ u = [slots |-> u.slots, len |-> u.len]
    <3> HIDE DEF t
    <3> QED BY <2>5
  <2> HIDE DEF u, t, n, E, old
  <2>9. IsTable(u, n, E) /\ Used(u) = Used(t)
    BY <1>1, <1>3, <2>2, <2>4, <2>8, RewriteFacts
  <2>10. PathsOnce(u)
    <3>1. \A i \in Used(t) : /\ u.slots[i].dest = t.slots[i].dest
                             /\ u.slots[i].hop = t.slots[i].hop
      <4> TAKE i \in Used(t)
      <4>1. t.slots \in [1..n -> E \cup {Free}] /\ i \in 1..n
        BY <1>1, <1>2 DEF IsTable, Tables
      <4>2. u.slots[i] = IF i = k THEN entry ELSE t.slots[i]
        BY <2>8, <4>1
      <4> QED BY <4>2, <2>2, <2>4 DEF old
    <3> QED BY <1>1, <2>9, <3>1 DEF PathsOnce
  <2>11. IsEngine(o, H, T) /\ o.dedup = e.dedup
    BY <1>1, <2>7, <2>9, <2>10 DEF IsEngine, PathTable, n, E
  <2> QED BY <2>11 DEF o
<1>5. CASE known = {}
  <2> DEFINE entry == path(0)
             worst == LeastRecent(t)
             u == Insert(t, entry, worst)
  <2>1. entry \in E /\ entry.dest = dest /\ entry.hop = hop
    <3>1. entry \in E
      <4>1. 0 \in 0..Full
        BY TableAssumption
      <4> HIDE DEF path, E
      <4> QED BY <1>6, <4>1
    <3> QED BY <3>1
  <2>2. t.len = n => worst \in Used(t)
    <3> SUFFICES ASSUME t.len = n PROVE worst \in Used(t)
      OBVIOUS
    <3>1. Used(t) # {} /\ PathTable(t, T)
      BY <1>1, <1>2 DEF PathTable
    <3> HIDE DEF t
    <3> QED BY <1>0, <3>1, LeastRecentIsUsed
  <2>3. o = [neighbours |-> e.neighbours, paths |-> u, dedup |-> e.dedup]
    <3>1. o = [e EXCEPT !.paths = u]
      BY <1>5 DEF Learn
    <3> HIDE DEF o, u
    <3> QED BY <1>1, <3>1
  <2> HIDE DEF path, entry, worst, t, n, E
  <2>4. IsTable(u, n, E) /\ \E kept \in SUBSET Used(t) : \E k \in 1..n : Placed(u, t, kept, k, entry)
    BY <1>1, <1>3, <2>1, <2>2, InsertFacts
  <2>5. PICK kept \in SUBSET Used(t) : \E k \in 1..n : Placed(u, t, kept, k, entry)
    BY <2>4
  <2>6. PICK k \in 1..n : Placed(u, t, kept, k, entry)
    BY <2>5
  <2> HIDE DEF u
  <2>7. \A i \in Used(t) : ~(t.slots[i].dest = entry.dest /\ t.slots[i].hop = entry.hop)
    BY <1>5, <2>1
  <2>8. PathsOnce(u)
    BY <1>1, <2>6, <2>7, PlacedOnce
  <2> HIDE DEF o
  <2>9. IsEngine(o, H, T) /\ o.dedup = e.dedup
    BY <1>1, <2>3, <2>4, <2>8 DEF IsEngine, PathTable, n, E
  <2> QED BY <2>9 DEF o
<1> QED BY <1>4, <1>5

\* A pass over the slots that frees none and fills none.
LEMMA PassFacts ==
  ASSUME NEW n \in Nat, NEW E, Free \notin E, NEW t, IsTable(t, n, E),
         NEW u, u = [slots |-> u.slots, len |-> t.len], u.slots = [i \in 1..n |-> u.slots[i]],
         \A i \in 1..n : IF t.slots[i] = Free THEN u.slots[i] = Free ELSE u.slots[i] \in E
  PROVE  IsTable(u, n, E) /\ Used(u) = Used(t)
<1>1. t.slots \in [1..n -> E \cup {Free}] /\ t.len \in 0..n /\ t.len = Cardinality(Used(t))
  BY DEF IsTable, Tables
<1>2. u.slots \in [1..n -> E \cup {Free}] /\ u.len = t.len
  BY <1>1
<1>3. Used(u) = Used(t)
  BY <1>1, <1>2 DEF Used
<1>4. u \in Tables(n, E)
  BY <1>1, <1>2 DEF Tables
<1> QED BY <1>1, <1>2, <1>3, <1>4 DEF IsTable

\* A table has each hive, or path, once when another has with the same ones in its
\* slots and more.
LEMMA FewerOnce ==
  ASSUME NEW t, NEW u, Used(u) \subseteq Used(t)
  PROVE  /\ HivesOnce(t) /\ (\A i \in Used(u) : u.slots[i].hive = t.slots[i].hive)
              => HivesOnce(u)
         /\ PathsOnce(t)
              /\ (\A i \in Used(u) : /\ u.slots[i].dest = t.slots[i].dest
                                     /\ u.slots[i].hop = t.slots[i].hop)
              => PathsOnce(u)
<1>1. ASSUME HivesOnce(t), \A i \in Used(u) : u.slots[i].hive = t.slots[i].hive
      PROVE  HivesOnce(u)
  BY <1>1 DEF HivesOnce
<1>2. ASSUME PathsOnce(t), \A i \in Used(u) : /\ u.slots[i].dest = t.slots[i].dest
                                              /\ u.slots[i].hop = t.slots[i].hop
      PROVE  PathsOnce(u)
  BY <1>2 DEF PathsOnce
<1> QED BY <1>1, <1>2

LEMMA DecayNeighboursFacts ==
  ASSUME NEW H \in SUBSET Hives, NEW T \in 0..MaxTime, NEW e, IsEngine(e, H, T)
  PROVE  IsEngine(DecayNeighbours(e, T), H, T) /\ DecayNeighbours(e, T).dedup = e.dedup
<1> DEFINE t == e.neighbours
           o == DecayNeighbours(e, T)
           Aged(x) == IF x = Free \/ x.hive \notin Mobile THEN x
                      ELSE [x EXCEPT !.conf = Decayed(@, T - x.seen, HalfLife)]
           u == [t EXCEPT !.slots = [i \in DOMAIN @ |-> Aged(@[i])]]
           gone == {i \in Used(u) : u.slots[i].conf < 1 \/ T - u.slots[i].seen > HardTimeout}
           c == Clear(u, gone)
           E == NeighboursOf(H, T)
           n == NeighbourSlots
<1>0. T \in Nat
  BY MeshAssumption
<1>1. /\ e = [neighbours |-> t, paths |-> e.paths, dedup |-> e.dedup]
      /\ IsTable(t, n, E) /\ HivesOnce(t) /\ PathTable(e.paths, T) /\ n \in Nat
  BY TableAssumption DEF IsEngine, NeighbourTable
<1>2. Free \notin E
  BY FreeIsNoEntry
<1>3. ASSUME NEW x \in E PROVE Aged(x) \in E /\ Aged(x).hive = x.hive
  <2>1. x.conf \in 0..Full /\ x.seen \in 0..T /\ x # Free
    BY <1>2 DEF NeighboursOf
  <2>2. PICK g \in Nat : g = Decayed(x.conf, T - x.seen, HalfLife) /\ g \in 0..Full
    <3>1. T - x.seen \in Nat /\ HalfLife \in Nat \ {0} /\ x.conf \in Nat
      BY <1>0, <2>1, TableAssumption
    <3>2. Decayed(x.conf, T - x.seen, HalfLife) \in 0..(x.conf)
      BY <3>1, DecayedFacts
    <3> QED BY <2>1, <3>1, <3>2, TableAssumption
  <2>3. [x EXCEPT !.conf = g] \in E /\ [x EXCEPT !.conf = g].hive = x.hive
    BY <2>2 DEF NeighboursOf
  <2> QED BY <2>2, <2>3
<1>4. /\ t.slots \in [1..n -> E \cup {Free}] /\ Used(t) \in SUBSET (1..n)
      /\ t = [slots |-> t.slots, len |-> t.len] /\ \A i \in Used(t) : t.slots[i] \in E
  <2>1. t.slots \in [1..n -> E \cup {Free}] /\ t = [slots |-> t.slots, len |-> t.len]
    BY <1>1 DEF IsTable, Tables
  <2>2. Used(t) \in SUBSET (1..n) /\ \A i \in Used(t) : t.slots[i] \in E
    BY <1>1, UsedFacts
  <2> QED BY <2>1, <2>2
<1>5. /\ u = [slots |-> u.slots, len |-> t.len] /\ u.slots = [i \in 1..n |-> u.slots[i]]
      /\ \A i \in 1..n : u.slots[i] = Aged(t.slots[i])
  <2> HIDE DEF t, Aged
  <2>1. DOMAIN t.slots = 1..n
    BY <1>4
  <2> DEFINE s == [i \in 1..n |-> Aged(t.slots[i])]
  <2>2. u = [t EXCEPT !.slots = s] /\ s = [i \in 1..n |-> s[i]]
        /\ \A i \in 1..n : s[i] = Aged(t.slots[i])
    BY <2>1
  <2> HIDE DEF s, u
  <2>3. u.slots = s /\ u = [slots |-> s, len |-> t.len]
    BY <1>4, <2>2
  <2> QED BY <2>2, <2>3
<1>6. Aged(Free) = Free
  OBVIOUS
<1> HIDE DEF u, t, Aged
<1>7. \A i \in 1..n : IF t.slots[i] = Free THEN u.slots[i] = Free ELSE u.slots[i] \in E
  BY <1>3, <1>4, <1>5, <1>6
<1>8. IsTable(u, n, E) /\ Used(u) = Used(t)
  <2> HIDE DEF n, E
  <2> QED BY <1>1, <1>2, <1>5, <1>7, PassFacts
<1>9. /\ IsTable(c, n, E) /\ Used(c) = Used(t) \ gone
      /\ \A i \in Used(c) : c.slots[i] = u.slots[i]
  <2>1. gone \in SUBSET Used(u)
    OBVIOUS
  <2> HIDE DEF gone, n, E
  <2> QED BY <1>1, <1>8, <2>1, ClearFacts
<1> HIDE DEF c, gone
<1>10. \A i \in Used(c) : c.slots[i].hive = t.slots[i].hive
  BY <1>3, <1>4, <1>5, <1>9
<1>11. HivesOnce(c)
  BY <1>1, <1>9, <1>10, FewerOnce
<1>12. o = [e EXCEPT !.neighbours = c]
  BY DEF DecayNeighbours, c, gone, u, Aged, t
<1> HIDE DEF o
<1>13. o = [neighbours |-> c, paths |-> e.paths, dedup |-> e.dedup]
  BY <1>1, <1>12
<1>14. IsEngine(o, H, T) /\ o.dedup = e.dedup
  BY <1>1, <1>9, <1>11, <1>13 DEF IsEngine, NeighbourTable
<1> QED BY <1>14 DEF o

LEMMA DecayPathsFacts ==
  ASSUME NEW H \in SUBSET Hives, NEW T \in 0..MaxTime, NEW e, IsEngine(e, H, T)
  PROVE  IsEngine(DecayPaths(e, T), H, T) /\ DecayPaths(e, T).dedup = e.dedup
<1> DEFINE t == e.paths
           o == DecayPaths(e, T)
           Aged(x) == IF x = Free THEN x
                      ELSE [x EXCEPT !.conf = Decayed(@, T - x.updated, PathHalfLife),
                                     !.updated = T]
           u == [t EXCEPT !.slots = [i \in DOMAIN @ |-> Aged(@[i])]]
           gone == {i \in Used(u) : u.slots[i].conf < 1}
           c == Clear(u, gone)
           E == PathsOf(T)
           n == PathSlots
<1>0. T \in Nat
  BY MeshAssumption
<1>1. /\ e = [neighbours |-> e.neighbours, paths |-> t, dedup |-> e.dedup]
      /\ IsTable(t, n, E) /\ PathsOnce(t) /\ NeighbourTable(e.neighbours, H, T) /\ n \in Nat
  BY TableAssumption DEF IsEngine, PathTable
<1>2. Free \notin E
  BY FreeIsNoEntry
<1>3. ASSUME NEW x \in E PROVE Aged(x) \in E /\ Aged(x).dest = x.dest /\ Aged(x).hop = x.hop
  <2>1. x.conf \in 0..Full /\ x.updated \in 0..T /\ x # Free
    BY <1>2 DEF PathsOf
  <2>2. PICK g \in Nat : g = Decayed(x.conf, T - x.updated, PathHalfLife) /\ g \in 0..Full
    <3>1. T - x.updated \in Nat /\ PathHalfLife \in Nat \ {0} /\ x.conf \in Nat
      BY <1>0, <2>1, TableAssumption
    <3>2. Decayed(x.conf, T - x.updated, PathHalfLife) \in 0..(x.conf)
      BY <3>1, DecayedFacts
    <3> QED BY <2>1, <3>1, <3>2, TableAssumption
  <2> DEFINE y == [x EXCEPT !.conf = g, !.updated = T]
  <2>3. y \in E
    <3>1. T \in 0..T
      BY <1>0
    <3>2. x \in PathsOf(T)
      OBVIOUS
    <3> HIDE DEF E
    <3>3. y \in PathsOf(T)
      BY <2>2, <3>1, <3>2 DEF PathsOf
    <3> QED BY <3>3 DEF E
  <2>4. y.dest = x.dest /\ y.hop = x.hop
    BY DEF PathsOf
  <2>5. Aged(x) = y
    BY <2>1, <2>2
  <2> HIDE DEF y, Aged
  <2> QED BY <2>3, <2>4, <2>5
<1>4. /\ t.slots \in [1..n -> E \cup {Free}] /\ Used(t) \in SUBSET (1..n)
      /\ t = [slots |-> t.slots, len |-> t.len] /\ \A i \in Used(t) : t.slots[i] \in E
  <2>1. t.slots \in [1..n -> E \cup {Free}] /\ t = [slots |-> t.slots, len |-> t.len]
    BY <1>1 DEF IsTable, Tables
  <2>2. Used(t) \in SUBSET (1..n) /\ \A i \in Used(t) : t.slots[i] \in E
    BY <1>1, UsedFacts
  <2> QED BY <2>1, <2>2
<1>5. /\ u = [slots |-> u.slots, len |-> t.len] /\ u.slots = [i \in 1..n |-> u.slots[i]]
      /\ \A i \in 1..n : u.slots[i] = Aged(t.slots[i])
  <2> HIDE DEF t, Aged
  <2>1. DOMAIN t.slots = 1..n
    BY <1>4
  <2> DEFINE s == [i \in 1..n |-> Aged(t.slots[i])]
  <2>2. u = [t EXCEPT !.slots = s] /\ s = [i \in 1..n |-> s[i]]
        /\ \A i \in 1..n : s[i] = Aged(t.slots[i])
    BY <2>1
  <2> HIDE DEF s, u
  <2>3. u.slots = s /\ u = [slots |-> s, len |-> t.len]
    BY <1>4, <2>2
  <2> QED BY <2>2, <2>3
<1>6. Aged(Free) = Free
  OBVIOUS
<1> HIDE DEF u, t, Aged
<1>7. \A i \in 1..n : IF t.slots[i] = Free THEN u.slots[i] = Free ELSE u.slots[i] \in E
  BY <1>3, <1>4, <1>5, <1>6
<1>8. IsTable(u, n, E) /\ Used(u) = Used(t)
  <2> HIDE DEF n, E
  <2> QED BY <1>1, <1>2, <1>5, <1>7, PassFacts
<1>9. /\ IsTable(c, n, E) /\ Used(c) = Used(t) \ gone
      /\ \A i \in Used(c) : c.slots[i] = u.slots[i]
  <2>1. gone \in SUBSET Used(u)
    OBVIOUS
  <2> HIDE DEF gone, n, E
  <2> QED BY <1>1, <1>8, <2>1, ClearFacts
<1> HIDE DEF c, gone
<1>10. \A i \in Used(c) : /\ c.slots[i].dest = t.slots[i].dest
                          /\ c.slots[i].hop = t.slots[i].hop
  BY <1>3, <1>4, <1>5, <1>9
<1>11. PathsOnce(c)
  BY <1>1, <1>9, <1>10, FewerOnce
<1>12. o = [e EXCEPT !.paths = c]
  BY DEF DecayPaths, c, gone, u, Aged, t
<1> HIDE DEF o
<1>13. o = [neighbours |-> e.neighbours, paths |-> c, dedup |-> e.dedup]
  BY <1>1, <1>12
<1>14. IsEngine(o, H, T) /\ o.dedup = e.dedup
  BY <1>1, <1>9, <1>11, <1>13 DEF IsEngine, PathTable
<1> QED BY <1>14 DEF o

-----------------------------------------------------------------------------
(* The engine of a node at the start. *)

LEMMA OrderFacts ==
  ASSUME NEW S, IsFiniteSet(S)
  PROVE  /\ SetToSeq(S) \in [1..Cardinality(S) -> S] /\ Cardinality(S) \in Nat
         /\ Len(SetToSeq(S)) = Cardinality(S)
<1>1. PICK n \in Nat : ExistsBijection(1..n, S)
  BY FS_NatBijection
<1>2. Cardinality(S) = n
  BY <1>1, FS_CountingElements
<1>3. \E f \in [1..n -> S] : IsInjective(f)
  BY <1>1 DEF ExistsBijection, Bijection, Injection
<1>4. SetToSeq(S) \in [1..n -> S]
  BY <1>2, <1>3 DEF SetToSeq
<1>5. Len(SetToSeq(S)) = n
  BY <1>4, FunctionIsSeq
<1> QED BY <1>2, <1>4, <1>5

\* Where the introductions lead, one after the other.
LEMMA IntroducedSteps ==
  ASSUME NEW n, NEW order, order = SetToSeq(Heard(n) \cap Nodes), Len(order) \in Nat
  PROVE  \E after :
           /\ after[0] = EmptyEngine
           /\ \A i \in 1..Len(order) :
                after[i] = Observe(after[i - 1], order[i], FitsOf[order[i]], 0)
           /\ Introduced(n) = after[Len(order)]
<1> DEFINE c == Len(order)
           IsRun(f, k) == f = [i \in 0..k |-> IF i = 0 THEN EmptyEngine
                                              ELSE Observe(f[i - 1], order[i], FitsOf[order[i]], 0)]
           S == {k \in 0..c : \E f : IsRun(f, k)}
<1>1. 0 \in S
  <2>1. IsRun([i \in 0..0 |-> EmptyEngine], 0)
    <3>1. \A i \in 0..0 : i = 0
      OBVIOUS
    <3> QED BY <3>1
  <2>2. 0 \in 0..c
    OBVIOUS
  <2> HIDE DEF IsRun
  <2> QED BY <2>1, <2>2
<1>2. ASSUME NEW k \in 0..(c - 1), k \in S PROVE k + 1 \in S
  <2>1. PICK f : IsRun(f, k)
    BY <1>2
  <2> DEFINE Step(x, i) == Observe(x, order[i], FitsOf[order[i]], 0)
  <2>2. \A i \in 0..k : f[i] = IF i = 0 THEN EmptyEngine ELSE Step(f[i - 1], i)
    BY <2>1
  <2> DEFINE g == [i \in 0..(k + 1) |-> IF i = k + 1 THEN Step(f[k], k + 1) ELSE f[i]]
  <2> HIDE DEF Step
  <2>3. \A i \in 0..(k + 1) : g[i] = IF i = 0 THEN EmptyEngine ELSE Step(g[i - 1], i)
    <3> TAKE i \in 0..(k + 1)
    <3>1. CASE i = k + 1
      <4>1. i # 0 /\ k \in 0..(k + 1) /\ k # k + 1 /\ i - 1 = k
        BY <3>1
      <4>2. g[k] = f[k] /\ g[i] = Step(f[k], i)
        BY <3>1, <4>1
      <4> QED BY <4>1, <4>2
    <3>2. CASE i = 0
      <4>1. g[i] = f[0] /\ 0 \in 0..k
        BY <3>2
      <4> QED BY <3>2, <4>1, <2>2
    <3>3. CASE i \in 1..k
      <4>1. /\ i \in 0..(k + 1) /\ i # k + 1 /\ i # 0 /\ i \in 0..k
            /\ i - 1 \in 0..(k + 1) /\ i - 1 # k + 1
        BY <3>3
      <4>2. g[i] = f[i] /\ g[i - 1] = f[i - 1]
        BY <4>1
      <4> HIDE DEF g
      <4> QED BY <4>1, <4>2, <2>2
    <3> QED BY <3>1, <3>2, <3>3
  <2>4. IsRun(g, k + 1)
    <3>1. g = [i \in 0..(k + 1) |-> g[i]]
      OBVIOUS
    <3> HIDE DEF g
    <3> QED BY <2>3, <3>1 DEF Step
  <2>5. k + 1 \in 0..c
    BY <1>2
  <2> HIDE DEF g, IsRun
  <2> QED BY <2>4, <2>5
<1>3. c \in S
  <2> HIDE DEF S
  <2>1. c \in Nat /\ c \in 0..c
    OBVIOUS
  <2>2. 0..c \subseteq S
    BY <1>1, <1>2, <2>1, IndexInduction
  <2> QED BY <2>1, <2>2
<1> DEFINE after == CHOOSE f : IsRun(f, c)
<1>4. IsRun(after, c)
  <2>1. \E f : IsRun(f, c)
    BY <1>3
  <2> HIDE DEF IsRun
  <2> QED BY <2>1
<1>5. Introduced(n) = after[c]
  BY DEF Introduced
<1>6. 0 \in 0..c /\ \A i \in 1..c : i \in 0..c /\ i # 0
  OBVIOUS
<1>7. /\ after[0] = EmptyEngine
      /\ \A i \in 1..c : after[i] = Observe(after[i - 1], order[i], FitsOf[order[i]], 0)
  <2> HIDE DEF after
  <2> QED BY <1>4, <1>6
<1> HIDE DEF after
<1> QED BY <1>5, <1>7

LEMMA HeardFacts ==
  ASSUME NEW n \in Nodes
  PROVE  /\ Heard(n) \in SUBSET Hives
         /\ \A m \in Heard(n) \cap Nodes : {n, m} \in Links /\ {m, n} \in Links
         /\ \A m \in Nodes : {m, n} \in Links => m \in Heard(n) \cap Nodes
<1>1. Heard(n) \in SUBSET Hives
  BY DEF Heard, Hives
<1>2. \A m \in Nodes : {n, m} = {m, n}
  OBVIOUS
<1> QED BY <1>1, <1>2, MeshAssumption DEF Heard

LEMMA IntroducedFacts ==
  ASSUME NEW n \in Nodes
  PROVE  IsEngine(Introduced(n), Heard(n), 0) /\ Introduced(n).dedup = EmptyDedup
<1> DEFINE M == Heard(n) \cap Nodes
           order == SetToSeq(M)
<1>1. IsFiniteSet(M)
  BY MeshAssumption, FS_Subset
<1>2. order \in [1..Len(order) -> M] /\ Len(order) \in Nat
  <2> HIDE DEF M
  <2> QED BY <1>1, OrderFacts
<1>3. PICK after :
           /\ after[0] = EmptyEngine
           /\ \A i \in 1..Len(order) :
                after[i] = Observe(after[i - 1], order[i], FitsOf[order[i]], 0)
           /\ Introduced(n) = after[Len(order)]
  BY <1>2, IntroducedSteps
<1> HIDE DEF order
<1> DEFINE c == Len(order)
           S == {i \in 0..c : IsEngine(after[i], Heard(n), 0) /\ after[i].dedup = EmptyDedup}
<1>4. 0 \in S
  BY <1>2, <1>3, EmptyEngineFacts
<1>5. ASSUME NEW i \in 0..(c - 1), i \in S PROVE i + 1 \in S
  <2>1. i + 1 \in 1..c /\ (i + 1) - 1 = i /\ i + 1 \in 0..c
    BY <1>2
  <2>2. PICK m \in M : m = order[i + 1]
    BY <1>2, <2>1
  <2>3. m \in Heard(n) /\ FitsOf[m] \in SUBSET Sizes /\ Heard(n) \in SUBSET Hives
    BY <2>2, MeshAssumption, HeardFacts
  <2>4. after[i + 1] = Observe(after[i], m, FitsOf[m], 0)
    BY <1>3, <2>1, <2>2
  <2>5. 0 \in 0..MaxTime
    BY MeshAssumption
  <2>6. IsEngine(after[i], Heard(n), 0) /\ after[i].dedup = EmptyDedup
    BY <1>5
  <2>7. /\ IsEngine(after[i + 1], Heard(n), 0)
        /\ after[i + 1].dedup = EmptyDedup
    <3>1. PICK H \in SUBSET Hives, fits \in SUBSET Sizes, T \in 0..MaxTime :
            H = Heard(n) /\ fits = FitsOf[m] /\ T = 0
      BY <2>3, <2>5
    <3>2. PICK x : x = after[i]
      OBVIOUS
    <3>3. IsEngine(x, H, T) /\ m \in H /\ after[i + 1] = Observe(x, m, fits, T)
      BY <2>3, <2>4, <2>6, <3>1, <3>2
    <3>4. IsEngine(Observe(x, m, fits, T), H, T) /\ Observe(x, m, fits, T).dedup = x.dedup
      BY <3>3, ObserveFacts
    <3> QED BY <2>6, <3>1, <3>2, <3>3, <3>4
  <2> QED BY <2>1, <2>7
<1>6. 0..c \subseteq S
  <2> HIDE DEF S
  <2> QED BY <1>2, <1>4, <1>5, IndexInduction
<1>7. c \in S
  BY <1>2, <1>6
<1> QED BY <1>3, <1>7

-----------------------------------------------------------------------------
(* The plan for a frame. *)

Keys == Nat \X {Compressed[n] : n \in Nodes}
Caches == [entries : [0..(DedupSlots - 1) -> DedupEntries \cup {Free}],
           cursor : 0..(DedupSlots - 1)]

LEMMA CacheFacts ==
  ASSUME NEW d \in Caches, NEW T \in Nat, NEW key \in Keys
  PROVE  /\ EmptyDedup \in Caches /\ Expire(d, T) \in Caches /\ Remember(d, key, T) \in Caches
         /\ Expire(d, T).cursor = d.cursor
         /\ \A i \in 0..(DedupSlots - 1) :
              Expire(d, T).entries[i] = IF d.entries[i] # Free /\ d.entries[i].expires <= T
                                        THEN Free ELSE d.entries[i]
         /\ Remember(d, key, T).cursor = (d.cursor + 1) % DedupSlots
         /\ \A i \in 0..(DedupSlots - 1) :
              Remember(d, key, T).entries[i] =
                IF i = d.cursor THEN [key |-> key, expires |-> T + DedupTtl] ELSE d.entries[i]
<1> DEFINE N == DedupSlots
<1>1. /\ N \in Nat /\ N > 0 /\ DedupTtl \in Nat
      /\ d = [entries |-> d.entries, cursor |-> d.cursor]
      /\ d.entries \in [0..(N - 1) -> DedupEntries \cup {Free}] /\ d.cursor \in 0..(N - 1)
  BY TableAssumption DEF Caches
<1>2. EmptyDedup \in Caches
  BY <1>1 DEF EmptyDedup, Caches
<1>3. /\ Expire(d, T) \in Caches /\ Expire(d, T).cursor = d.cursor
      /\ \A i \in 0..(N - 1) :
           Expire(d, T).entries[i] = IF d.entries[i] # Free /\ d.entries[i].expires <= T
                                     THEN Free ELSE d.entries[i]
  <2> DEFINE f == [i \in DOMAIN d.entries |->
                     IF d.entries[i] # Free /\ d.entries[i].expires <= T THEN Free
                     ELSE d.entries[i]]
  <2>1. f \in [0..(N - 1) -> DedupEntries \cup {Free}]
    BY <1>1
  <2>2. \A i \in 0..(N - 1) : f[i] = IF d.entries[i] # Free /\ d.entries[i].expires <= T
                                     THEN Free ELSE d.entries[i]
    BY <1>1
  <2>3. Expire(d, T) = [d EXCEPT !.entries = f]
    BY DEF Expire
  <2> HIDE DEF f, N
  <2>4. Expire(d, T) = [entries |-> f, cursor |-> d.cursor]
    BY <1>1, <2>3
  <2> QED BY <1>1, <2>1, <2>2, <2>4 DEF Caches, N
<1>4. /\ Remember(d, key, T) \in Caches
      /\ Remember(d, key, T).cursor = (d.cursor + 1) % N
      /\ \A i \in 0..(N - 1) :
           Remember(d, key, T).entries[i] =
             IF i = d.cursor THEN [key |-> key, expires |-> T + DedupTtl] ELSE d.entries[i]
  <2> DEFINE x == [key |-> key, expires |-> T + DedupTtl]
             f == [d.entries EXCEPT ![d.cursor] = x]
  <2>1. x \in DedupEntries
    BY <1>1 DEF DedupEntries, Keys
  <2> HIDE DEF x
  <2>2. /\ f \in [0..(N - 1) -> DedupEntries \cup {Free}]
        /\ \A i \in 0..(N - 1) : f[i] = IF i = d.cursor THEN x ELSE d.entries[i]
    BY <1>1, <2>1
  <2>3. Remember(d, key, T) = [entries |-> f, cursor |-> (d.cursor + 1) % N]
    BY DEF Remember, x
  <2>4. (d.cursor + 1) % N \in 0..(N - 1)
    BY <1>1
  <2> HIDE DEF f, N
  <2> QED BY <2>2, <2>3, <2>4 DEF Caches, N, x
<1> QED BY <1>2, <1>3, <1>4

LEMMA FanoutFacts ==
  ASSUME NEW k \in 0..FloodK
  PROVE  /\ Fanout(k) \in 1..NeighbourSlots /\ ForwardedK(k) \in 0..FloodK
         /\ \A congested, mgmt : Congest(k, congested, mgmt) \in 0..FloodK
<1>1. PICK n \in Nat, f \in Nat : n = NeighbourSlots /\ f = FloodK /\ n > 0 /\ f > 1
  BY TableAssumption
<1>2. k \div 2 \in 0..k
  OBVIOUS
<1>3. Fanout(k) \in 1..n
  BY <1>1 DEF Fanout, Least, Most
<1>4. ForwardedK(k) \in 0..f
  BY <1>1, <1>2 DEF ForwardedK
<1>5. Most(1, k \div 2) \in 0..f
  BY <1>1, <1>2 DEF Most
<1>6. \A congested, mgmt : Congest(k, congested, mgmt) \in 0..f
  BY <1>1, <1>5 DEF Congest
<1> QED BY <1>1, <1>3, <1>4, <1>6

\* A spray goes to neighbours of the table, and to no more of them than the fanout.
LEMMA SprayFacts ==
  ASSUME NEW H, NEW T, NEW e, NeighbourTable(e.neighbours, H, T), NEW size, NEW k \in 0..FloodK
  PROVE  /\ Spray(e, size, k) \in SUBSET H
         /\ IsFiniteSet(Spray(e, size, k))
         /\ Cardinality(Spray(e, size, k)) \in 0..Fanout(k)
<1> DEFINE t == e.neighbours
           slots == t.slots
           able == {i \in Used(t) : Viable(slots[i]) /\ Reaches(slots[i], size)}
           first == {i \in able : Cardinality({j \in able : j < i}) < Fanout(k)}
           hops == {slots[i].hive : i \in first}
           F == Fanout(k)
<1>1. /\ Used(t) \in SUBSET (1..NeighbourSlots) /\ IsFiniteSet(Used(t))
      /\ \A i \in Used(t) : slots[i] \in NeighboursOf(H, T)
  BY TableAssumption, UsedFacts DEF NeighbourTable
<1>2. Spray(e, size, k) = hops
  BY DEF Spray
<1>3. hops \in SUBSET H
  BY <1>1 DEF NeighboursOf
<1>4. IsFiniteSet(able) /\ IsFiniteSet(first) /\ able \in SUBSET (1..NeighbourSlots)
      /\ first \in SUBSET able
  <2>1. able \in SUBSET Used(t) /\ first \in SUBSET able
    OBVIOUS
  <2> HIDE DEF able, first
  <2> QED BY <1>1, <2>1, FS_Subset
<1>5. F \in 1..NeighbourSlots /\ NeighbourSlots \in Nat
  BY FanoutFacts, TableAssumption
<1>6. Cardinality(first) \in 0..F
  <2>1. CASE first = {}
    <3> HIDE DEF F, first
    <3> QED BY <1>5, <2>1, FS_EmptySet
  <2>2. CASE first # {}
    <3>1. PICK m \in first : \A i \in first : NeighbourSlots - m <= NeighbourSlots - i
      <4> DEFINE key == [i \in first |-> NeighbourSlots - i]
      <4>1. key \in [first -> Nat] /\ first \in SUBSET (1..NeighbourSlots)
        <5> HIDE DEF first, able
        <5> QED BY <1>4, <1>5
      <4>2. \E m \in first : \A i \in first : key[m] <= key[i]
        <5> HIDE DEF key, first
        <5> QED BY <1>5, <2>2, <4>1, LeastKey
      <4> QED BY <4>2
    <3> DEFINE below == {j \in able : j < m}
    <3>2. Cardinality(below) < F
      OBVIOUS
    <3>3. first \ {m} \in SUBSET below
      <4> HIDE DEF first, able
      <4>1. \A i \in first : i \in 1..NeighbourSlots
        BY <1>4
      <4>2. \A i \in first : i <= m
        BY <1>5, <3>1, <4>1
      <4> QED BY <1>4, <3>1, <4>1, <4>2
    <3>4. IsFiniteSet(below) /\ Cardinality(first \ {m}) <= Cardinality(below)
      <4>1. below \in SUBSET able
        OBVIOUS
      <4> HIDE DEF first, able, below
      <4> QED BY <1>4, <3>3, <4>1, FS_Subset
    <3>5. Cardinality(first \ {m}) = Cardinality(first) - 1
      <4> HIDE DEF first
      <4> QED BY <1>4, <3>1, FS_RemoveElement
    <3>6. Cardinality(first) \in Nat /\ Cardinality(below) \in Nat
      <4> HIDE DEF first, below
      <4> QED BY <1>4, <3>4, FS_CardinalityType
    <3> HIDE DEF first, below, F
    <3> QED BY <1>5, <3>2, <3>4, <3>5, <3>6
  <2> QED BY <2>1, <2>2
<1>7. IsFiniteSet(hops) /\ Cardinality(hops) <= Cardinality(first) /\ Cardinality(hops) \in Nat
  <2> DEFINE f == [i \in first |-> slots[i].hive]
  <2>1. f \in Surjection(first, hops)
    BY DEF Surjection
  <2> HIDE DEF f, first, hops
  <2> QED BY <1>4, <2>1, FS_Surjection, FS_CardinalityType
<1> HIDE DEF hops, first, F
<1> QED BY <1>2, <1>3, <1>5, <1>6, <1>7 DEF F

\* A directed frame goes to one neighbour of the table at most.
LEMMA DirectedFacts ==
  ASSUME NEW H, NEW T, NEW e, NeighbourTable(e.neighbours, H, T), NEW dest, NEW size
  PROVE  /\ Directed(e, dest, size) \in SUBSET H
         /\ IsFiniteSet(Directed(e, dest, size))
         /\ Cardinality(Directed(e, dest, size)) \in 0..1
<1> DEFINE D == Directed(e, dest, size)
<1>1. \A i \in Used(e.neighbours) : e.neighbours.slots[i] \in NeighboursOf(H, T)
  BY TableAssumption, UsedFacts DEF NeighbourTable
<1>2. D \in SUBSET H
  BY <1>1 DEF Directed, Entries, NeighboursOf
<1>3. PICK h : D \subseteq {h}
  <2>1. D \subseteq {BestPath(e, dest).hop}
    BY DEF Directed
  <2> QED BY <2>1
<1>4. D = {} \/ D = {h}
  BY <1>3
<1> HIDE DEF D
<1>5. IsFiniteSet(D) /\ Cardinality(D) \in 0..1
  BY <1>4, FS_EmptySet, FS_Singleton
<1> QED BY <1>2, <1>5 DEF D

\* What a plan is: a duplicate goes no further, and what is new is remembered before
\* its ttl is looked at.
Planned(plan, e, req, H) ==
  LET d == Expire(e.dedup, req.now)
      k == Congest(req.k, req.congested, req.mgmt)
  IN /\ plan.engine = [neighbours |-> e.neighbours, paths |-> e.paths,
                       dedup |-> plan.engine.dedup]
     /\ \/ /\ plan.accepted = TRUE
           /\ plan.engine.dedup = Remember(d, <<req.id, req.from>>, req.now)
        \/ /\ plan.accepted = FALSE /\ plan.hops = {}
           /\ plan.engine.dedup \in {e.dedup, d}
     /\ plan.ttl = req.ttl - 1 /\ plan.k = ForwardedK(k)
     /\ plan.hops = {} \/ req.ttl > 1
     /\ plan.hops \in SUBSET H /\ IsFiniteSet(plan.hops)
     /\ Cardinality(plan.hops) \in 0..Fanout(k)

LEMMA PlanFacts ==
  ASSUME NEW H, NEW T, NEW e, IsEngine(e, H, T), NEW req, req.k \in 0..FloodK, req.ttl \in Nat
  PROVE  Planned(PlanForward(e, req), e, req, H)
<1> DEFINE d == Expire(e.dedup, req.now)
           key == <<req.id, req.from>>
           k == Congest(req.k, req.congested, req.mgmt)
           direct == IF req.dest = "all" THEN {} ELSE Directed(e, req.dest, req.size)
           hops == IF req.ttl <= 1 THEN {} ELSE IF direct # {} THEN direct
                   ELSE Spray(e, req.size, k)
           Plan(dedup, h, accepted) ==
             [engine |-> [e EXCEPT !.dedup = dedup], hops |-> h, accepted |-> accepted,
              ttl |-> req.ttl - 1, k |-> ForwardedK(k)]
           p == PlanForward(e, req)
<1>0. /\ e = [neighbours |-> e.neighbours, paths |-> e.paths, dedup |-> e.dedup]
      /\ NeighbourTable(e.neighbours, H, T)
  BY DEF IsEngine
<1>1. k \in 0..FloodK /\ Fanout(k) \in 1..NeighbourSlots /\ NeighbourSlots \in Nat
  <2>1. k \in 0..FloodK
    BY FanoutFacts
  <2> HIDE DEF k
  <2> QED BY <2>1, FanoutFacts, TableAssumption
<1> HIDE DEF k
<1>2. /\ {} \in SUBSET H /\ IsFiniteSet({}) /\ Cardinality({}) \in 0..Fanout(k)
  BY <1>1, FS_EmptySet
<1>3. /\ direct \in SUBSET H /\ IsFiniteSet(direct) /\ Cardinality(direct) \in 0..Fanout(k)
  <2>1. CASE req.dest = "all"
    BY <1>2, <2>1
  <2>2. CASE req.dest # "all"
    <3>1. direct = Directed(e, req.dest, req.size)
      BY <2>2
    <3> HIDE DEF direct
    <3>2. direct \in SUBSET H /\ IsFiniteSet(direct) /\ Cardinality(direct) \in 0..1
      <4>1. PICK dest, size : direct = Directed(e, dest, size)
        BY <3>1
      <4>2. /\ Directed(e, dest, size) \in SUBSET H
            /\ IsFiniteSet(Directed(e, dest, size))
            /\ Cardinality(Directed(e, dest, size)) \in 0..1
        BY <1>0, DirectedFacts
      <4> QED BY <4>1, <4>2
    <3>3. 0..1 \subseteq 0..Fanout(k)
      BY <1>1
    <3> QED BY <3>2, <3>3
  <2> QED BY <2>1, <2>2
<1>4. /\ Spray(e, req.size, k) \in SUBSET H /\ IsFiniteSet(Spray(e, req.size, k))
      /\ Cardinality(Spray(e, req.size, k)) \in 0..Fanout(k)
  BY <1>0, <1>1, SprayFacts
<1> HIDE DEF direct
<1>5. /\ hops \in SUBSET H /\ IsFiniteSet(hops) /\ Cardinality(hops) \in 0..Fanout(k)
      /\ hops = {} \/ req.ttl > 1
  BY <1>2, <1>3, <1>4
<1>6. ASSUME NEW c PROVE [e EXCEPT !.dedup = c] = [neighbours |-> e.neighbours,
                                                   paths |-> e.paths, dedup |-> c]
  BY <1>0
<1>7. \/ p = Plan(e.dedup, {}, FALSE)
      \/ p = Plan(d, {}, FALSE)
      \/ p = Plan(Remember(d, key, req.now), hops, TRUE)
  BY DEF PlanForward, k, direct
<1> HIDE DEF p, hops, key
<1>8. CASE p = Plan(e.dedup, {}, FALSE) \/ p = Plan(d, {}, FALSE)
  <2>1. PICK c \in {e.dedup, d} : p = Plan(c, {}, FALSE)
    BY <1>8
  <2>2. /\ p.engine = [neighbours |-> e.neighbours, paths |-> e.paths, dedup |-> c]
        /\ p.hops = {} /\ p.accepted = FALSE /\ p.ttl = req.ttl - 1 /\ p.k = ForwardedK(k)
    BY <1>6, <2>1
  <2>3. p.engine.dedup = c
    BY <2>2
  <2> HIDE DEF d
  <2>4. Planned(p, e, req, H)
    BY <1>2, <2>2, <2>3 DEF Planned, k, d
  <2> QED BY <2>4 DEF p
<1>9. CASE p = Plan(Remember(d, key, req.now), hops, TRUE)
  <2>1. PICK c : c = Remember(d, key, req.now)
    OBVIOUS
  <2>2. /\ p.engine = [neighbours |-> e.neighbours, paths |-> e.paths, dedup |-> c]
        /\ p.hops = hops /\ p.accepted = TRUE /\ p.ttl = req.ttl - 1 /\ p.k = ForwardedK(k)
    BY <1>6, <1>9, <2>1
  <2>3. p.engine.dedup = c
    BY <2>2
  <2> HIDE DEF d
  <2>4. Planned(p, e, req, H)
    BY <1>5, <2>1, <2>2, <2>3 DEF Planned, k, d, key
  <2> QED BY <2>4 DEF p
<1> QED BY <1>7, <1>8, <1>9

-----------------------------------------------------------------------------
(* Types. *)

Takes == [key : Keys, at : Nat]

CopyOK(f, ms) ==
  /\ f = Copy(f.id, f.to, f.route, f.ttl, f.k) /\ f.kind = "copy"
  /\ f.id \in 1..Len(ms) /\ f.to \in Nodes /\ f.route \in Seq(Nodes) /\ f.route # << >>
  /\ f.ttl \in Nat /\ f.k \in 0..FloodK
ReplyOK(f, ms) ==
  /\ f = Reply(f.id, f.from, f.to, f.stack) /\ f.kind = "reply"
  /\ f.id \in 1..Len(ms) /\ f.from \in Nodes /\ f.to \in Nodes /\ ms[f.id].dest \in Nodes

EnginesOK ==
  /\ engine = [n \in Nodes |-> engine[n]]
  /\ \A n \in Nodes : IsEngine(engine[n], Heard(n), now) /\ engine[n].dedup \in Caches
LogOK ==
  /\ log = [taken |-> log.taken, sent |-> log.sent, repeats |-> log.repeats,
            learned |-> log.learned]
  /\ log.taken \in [Nodes -> Seq(Takes)] /\ log.sent \in [1..Cardinality(Requests) -> Nat]
  /\ log.repeats \in Nat /\ log.learned \in Nat
FramesOK == \A f \in air : CopyOK(f, messages) \/ ReplyOK(f, messages)

Types ==
  /\ now \in 0..MaxTime /\ messages \in Seq(Requests)
  /\ EnginesOK /\ LogOK /\ FramesOK

\* The invariant of the tables is what TypeOK asks for.
LEMMA TypesGiveTypeOK ==
  ASSUME Types PROVE TypeOK
<1>1. now \in 0..MaxTime /\ 0..now \subseteq 0..MaxTime
  BY MeshAssumption DEF Types
<1>2. ASSUME NEW n \in Nodes
      PROVE  /\ NeighbourTable(engine[n].neighbours, Heard(n), now)
             /\ PathTable(engine[n].paths, now) /\ engine[n].dedup \in Caches
  BY DEF Types, EnginesOK, IsEngine
<1>3. TablesAreMaps
  BY <1>2 DEF TablesAreMaps, NeighbourTable, PathTable, HivesOnce, PathsOnce, IsTable
<1>4. ASSUME NEW n \in Nodes
      PROVE  /\ Entries(engine[n].neighbours) \subseteq NeighbourEntries
             /\ Entries(engine[n].paths) \subseteq PathEntries
             /\ engine[n].dedup.cursor \in 0..(DedupSlots - 1)
  <2>1. /\ \A i \in Used(engine[n].neighbours) :
             engine[n].neighbours.slots[i] \in NeighboursOf(Heard(n), now)
        /\ \A i \in Used(engine[n].paths) : engine[n].paths.slots[i] \in PathsOf(now)
    <3>1. PICK t, u : t = engine[n].neighbours /\ u = engine[n].paths
      OBVIOUS
    <3>2. /\ IsTable(t, NeighbourSlots, NeighboursOf(Heard(n), now))
          /\ IsTable(u, PathSlots, PathsOf(now))
      BY <1>2, <3>1 DEF NeighbourTable, PathTable
    <3>3. /\ \A i \in Used(t) : t.slots[i] \in NeighboursOf(Heard(n), now)
          /\ \A i \in Used(u) : u.slots[i] \in PathsOf(now)
      BY <3>2, TableAssumption, UsedFacts
    <3> QED BY <3>1, <3>3
  <2>2. NeighboursOf(Heard(n), now) \subseteq NeighbourEntries
    BY <1>1, HeardFacts DEF NeighboursOf, NeighbourEntries
  <2>3. PathsOf(now) \subseteq PathEntries
    BY <1>1 DEF PathsOf, PathEntries
  <2> QED BY <1>2, <2>1, <2>2, <2>3 DEF Entries, Caches
<1>5. \A f \in air : f.id \in DOMAIN messages /\ f.to \in Nodes
  BY DEF Types, FramesOK, CopyOK, ReplyOK
<1> QED BY <1>1, <1>3, <1>4, <1>5 DEF TypeOK

LEMMA TypesInit ==
  ASSUME Init PROVE Types
<1>1. now = 0 /\ engine = [n \in Nodes |-> Introduced(n)] /\ messages = << >> /\ air = {}
      /\ log = InitLog
  BY DEF Init
<1>2. EnginesOK
  <2>1. ASSUME NEW n \in Nodes
        PROVE  IsEngine(engine[n], Heard(n), now) /\ engine[n].dedup \in Caches
    <3>1. DedupSlots \in Nat /\ 0 \in 0..(DedupSlots - 1)
      BY TableAssumption
    <3>2. EmptyDedup \in Caches
      BY <3>1 DEF EmptyDedup, Caches
    <3>3. engine[n] = Introduced(n)
      BY <1>1
    <3> QED BY <1>1, <3>2, <3>3, IntroducedFacts
  <2> QED BY <1>1, <2>1 DEF EnginesOK
<1>3. LogOK
  <2>1. << >> \in Seq(Takes)
    OBVIOUS
  <2> QED BY <1>1, <2>1 DEF LogOK, InitLog
<1>4. FramesOK /\ messages \in Seq(Requests) /\ now \in 0..MaxTime
  BY <1>1, MeshAssumption DEF FramesOK
<1> QED BY <1>2, <1>3, <1>4 DEF Types

-----------------------------------------------------------------------------
(* What carrying out a plan comes to. *)

\* Node n takes the frame for new, or does nothing with it.
Accepts(n, id, sender) ==
  /\ engine'[n].dedup = Remember(Expire(engine[n].dedup, now), <<id, Compressed[sender]>>, now)
  /\ log'.taken =
       [log.taken EXCEPT ![n] = Append(log.taken[n], [key |-> <<id, Compressed[sender]>>,
                                                      at |-> now])]
Declines(n) ==
  /\ engine'[n].dedup \in {engine[n].dedup, Expire(engine[n].dedup, now)}
  /\ log'.taken = log.taken

Budget(n, req, copy) == Congest(copy.k, n \in Congested, req.mgmt)

\* hops: where the copies go.
Forwards(n, id, req, copy, rest, hops, sender) ==
  /\ sender \in Nodes /\ sender = (IF copy.route = << >> THEN n ELSE Last(copy.route))
  /\ engine' = [engine EXCEPT ![n] = engine'[n]]
  /\ engine'[n] = [neighbours |-> engine[n].neighbours, paths |-> engine[n].paths,
                   dedup |-> engine'[n].dedup]
  /\ Accepts(n, id, sender) \/ (Declines(n) /\ hops = {})
  /\ hops = {} \/ copy.ttl > 1
  /\ hops \in SUBSET Heard(n) /\ IsFiniteSet(hops)
  /\ Cardinality(hops) \in 0..Fanout(Budget(n, req, copy))
  /\ air' = rest \cup {Copy(id, m, Stacked(copy.route, n), copy.ttl - 1,
                            ForwardedK(Budget(n, req, copy))) : m \in hops \cap Nodes}
  /\ log' = [taken |-> log'.taken, sent |-> log'.sent, repeats |-> log'.repeats,
             learned |-> log'.learned]
  /\ log'.sent = [log.sent EXCEPT ![id] = log.sent[id] + Cardinality(hops)]
  /\ log'.repeats = (IF copy \in rest THEN log.repeats + 1 ELSE log.repeats)
  /\ log'.learned = log.learned

LEMMA ForwardFacts ==
  ASSUME Types, NEW n \in Nodes, NEW id, NEW req, NEW copy, copy.route \in Seq(Nodes),
         copy.ttl \in Nat, copy.k \in 0..FloodK, NEW rest, Forward(n, id, req, copy, rest)
  PROVE  \E hops, sender : Forwards(n, id, req, copy, rest, hops, sender)
<1> DEFINE sender == IF copy.route = << >> THEN n ELSE Last(copy.route)
           r == [now |-> now, id |-> id, from |-> Compressed[sender], ttl |-> copy.ttl,
                 k |-> copy.k, dest |-> req.dest, mgmt |-> req.mgmt, size |-> req.size,
                 relay |-> n \in Relays, congested |-> n \in Congested]
           plan == PlanForward(engine[n], r)
           b == Budget(n, req, copy)
           key == <<id, Compressed[sender]>>
           taken == [key |-> key, at |-> now]
<1>1. /\ engine' = [engine EXCEPT ![n] = plan.engine]
      /\ air' = rest \cup {Copy(id, m, Stacked(copy.route, n), plan.ttl, plan.k) :
                             m \in plan.hops \cap Nodes}
      /\ log' = [log EXCEPT
           !.taken[n] = IF plan.accepted THEN Append(@, taken) ELSE @,
           !.sent[id] = @ + Cardinality(plan.hops),
           !.repeats = IF copy \in rest THEN @ + 1 ELSE @]
  BY DEF Forward
<1>2. sender \in Nodes
  <2>1. CASE copy.route = << >>
    BY <2>1
  <2>2. CASE copy.route # << >>
    <3>1. PICK s \in Seq(Nodes) : s = copy.route /\ s # << >>
      BY <2>2
    <3>2. s[Len(s)] \in Nodes
      BY <3>1
    <3> QED BY <2>2, <3>1, <3>2 DEF Last
  <2> QED BY <2>1, <2>2
<1>3. Planned(plan, engine[n], r, Heard(n))
  <2>1. r.k \in 0..FloodK /\ r.ttl \in Nat
    OBVIOUS
  <2>2. IsEngine(engine[n], Heard(n), now)
    BY DEF Types, EnginesOK
  <2> HIDE DEF r
  <2> QED BY <2>1, <2>2, PlanFacts
<1>4. /\ plan.engine = [neighbours |-> engine[n].neighbours, paths |-> engine[n].paths,
                        dedup |-> plan.engine.dedup]
      /\ \/ /\ plan.accepted = TRUE
            /\ plan.engine.dedup = Remember(Expire(engine[n].dedup, now), key, now)
         \/ /\ plan.accepted = FALSE /\ plan.hops = {}
            /\ plan.engine.dedup \in {engine[n].dedup, Expire(engine[n].dedup, now)}
      /\ plan.ttl = copy.ttl - 1 /\ plan.k = ForwardedK(b)
      /\ plan.hops = {} \/ copy.ttl > 1
      /\ plan.hops \in SUBSET Heard(n) /\ IsFiniteSet(plan.hops)
      /\ Cardinality(plan.hops) \in 0..Fanout(b)
  <2>1. /\ r.now = now /\ <<r.id, r.from>> = key /\ r.ttl = copy.ttl
        /\ Congest(r.k, r.congested, r.mgmt) = b
    BY DEF Budget
  <2> HIDE DEF r, plan, b, key
  <2> QED BY <1>3, <2>1 DEF Planned
<1> HIDE DEF plan, r
<1>5. engine'[n] = plan.engine /\ engine' = [engine EXCEPT ![n] = engine'[n]]
  BY <1>1 DEF Types, EnginesOK
<1>6. /\ log' = [taken |-> log'.taken, sent |-> log'.sent, repeats |-> log'.repeats,
                 learned |-> log'.learned]
      /\ log'.taken = [log.taken EXCEPT ![n] =
                         IF plan.accepted THEN Append(log.taken[n], taken) ELSE log.taken[n]]
      /\ log'.sent = [log.sent EXCEPT ![id] = log.sent[id] + Cardinality(plan.hops)]
      /\ log'.repeats = (IF copy \in rest THEN log.repeats + 1 ELSE log.repeats)
      /\ log'.learned = log.learned
  <2>1. log = [taken |-> log.taken, sent |-> log.sent, repeats |-> log.repeats,
               learned |-> log.learned]
    BY DEF Types, LogOK
  <2> QED BY <1>1, <2>1
<1>7. Accepts(n, id, sender) \/ (Declines(n) /\ plan.hops = {})
  <2>1. CASE plan.accepted = TRUE
    BY <1>4, <1>5, <1>6, <2>1 DEF Accepts
  <2>2. CASE plan.accepted = FALSE
    <3>1. log'.taken = log.taken
      BY <1>6, <2>2 DEF Types, LogOK
    <3> QED BY <1>4, <1>5, <2>2, <3>1 DEF Declines
  <2> QED BY <1>4, <2>1, <2>2
<1>9. PICK h : h = plan.hops
  OBVIOUS
<1>10. /\ h = {} \/ copy.ttl > 1
       /\ h \in SUBSET Heard(n) /\ IsFiniteSet(h) /\ Cardinality(h) \in 0..Fanout(b)
       /\ Accepts(n, id, sender) \/ (Declines(n) /\ h = {})
       /\ air' = rest \cup {Copy(id, m, Stacked(copy.route, n), copy.ttl - 1, ForwardedK(b)) :
                              m \in h \cap Nodes}
       /\ log'.sent = [log.sent EXCEPT ![id] = log.sent[id] + Cardinality(h)]
  BY <1>1, <1>4, <1>6, <1>7, <1>9
<1>11. engine'[n] = [neighbours |-> engine[n].neighbours, paths |-> engine[n].paths,
                     dedup |-> engine'[n].dedup]
  BY <1>4, <1>5
<1> HIDE DEF b
<1>12. Forwards(n, id, req, copy, rest, h, sender)
  BY <1>2, <1>5, <1>6, <1>10, <1>11 DEF Forwards, b
<1> QED BY <1>12

-----------------------------------------------------------------------------
(* Every step keeps the types. *)

LEMMA EngineStepKeepsEngines ==
  ASSUME EnginesOK, NEW n \in Nodes, NEW x, IsEngine(x, Heard(n), now), x.dedup \in Caches,
         engine' = [engine EXCEPT ![n] = x], now' = now
  PROVE  EnginesOK'
<1>1. engine' = [m \in Nodes |-> engine'[m]]
  BY DEF EnginesOK
<1>2. \A m \in Nodes : engine'[m] = IF m = n THEN x ELSE engine[m]
  BY DEF EnginesOK
<1>3. ASSUME NEW m \in Nodes PROVE IsEngine(engine'[m], Heard(m), now) /\ engine'[m].dedup \in Caches
  BY <1>2 DEF EnginesOK
<1> QED BY <1>1, <1>3 DEF EnginesOK

LEMMA FramesLater ==
  ASSUME NEW ms \in Seq(Requests), NEW ns \in Seq(Requests), Len(ms) <= Len(ns),
         \A i \in 1..Len(ms) : ns[i] = ms[i], NEW f
  PROVE  (CopyOK(f, ms) => CopyOK(f, ns)) /\ (ReplyOK(f, ms) => ReplyOK(f, ns))
<1>1. 1..Len(ms) \subseteq 1..Len(ns)
  OBVIOUS
<1>2. ASSUME CopyOK(f, ms) PROVE CopyOK(f, ns)
  BY <1>1, <1>2 DEF CopyOK
<1>3. ASSUME ReplyOK(f, ms) PROVE ReplyOK(f, ns)
  BY <1>1, <1>3 DEF ReplyOK
<1> QED BY <1>2, <1>3

LEMMA StackedFacts ==
  ASSUME NEW route \in Seq(Nodes), NEW n \in Nodes
  PROVE  /\ Stacked(route, n) \in Seq(Nodes) /\ Stacked(route, n) # << >>
         /\ Len(route) < StackLimit => Stacked(route, n) = Append(route, n)
<1>1. CASE Len(route) < StackLimit
  <2>1. Append(route, n) \in Seq(Nodes) /\ Len(Append(route, n)) = Len(route) + 1
    OBVIOUS
  <2> QED BY <1>1, <2>1 DEF Stacked
<1>2. CASE ~(Len(route) < StackLimit)
  <2>1. Len(route) > 0
    BY <1>2, MeshAssumption
  <2> QED BY <1>2, <2>1 DEF Stacked
<1> QED BY <1>1, <1>2

\* A frame that a node forwards, and the request it carries.
Carries(n, id, req, copy) ==
  /\ n \in Nodes /\ req \in Requests /\ copy.route \in Seq(Nodes)
  /\ copy.ttl \in Nat /\ copy.k \in 0..FloodK
Grows(id) ==
  /\ messages' \in Seq(Requests) /\ Len(messages) <= Len(messages')
  /\ \A i \in 1..Len(messages) : messages'[i] = messages[i]
  /\ id \in 1..Len(messages')

LEMMA ForwardKeepsTypes ==
  ASSUME Types, NEW n, NEW id, NEW req, NEW copy, Carries(n, id, req, copy),
         NEW rest \in SUBSET air, Grows(id), now' = now, NEW hops, NEW sender,
         Forwards(n, id, req, copy, rest, hops, sender)
  PROVE  Types'
<1>0. n \in Nodes
  BY DEF Carries
<1>1. IsEngine(engine'[n], Heard(n), now)
  <2>1. IsEngine(engine[n], Heard(n), now)
    BY <1>0 DEF Types, EnginesOK
  <2>2. PICK x : x = engine'[n]
    OBVIOUS
  <2>3. x = [neighbours |-> engine[n].neighbours, paths |-> engine[n].paths, dedup |-> x.dedup]
    BY <2>2 DEF Forwards
  <2>4. /\ x.neighbours = engine[n].neighbours /\ x.paths = engine[n].paths
        /\ x = [neighbours |-> x.neighbours, paths |-> x.paths, dedup |-> x.dedup]
    BY <2>3
  <2> QED BY <2>1, <2>2, <2>4 DEF IsEngine
<1>2. engine'[n].dedup \in Caches /\ log'.taken \in [Nodes -> Seq(Takes)]
  <2>1. PICK d \in Caches, T \in Nat : d = engine[n].dedup /\ T = now
    BY <1>0, MeshAssumption DEF Types, EnginesOK
  <2>2. Expire(d, T) \in Caches
    <3>1. <<0, Compressed[n]>> \in Keys
      BY <1>0 DEF Keys
    <3> QED BY <3>1, CacheFacts
  <2>3. log.taken \in [Nodes -> Seq(Takes)] /\ log.taken[n] \in Seq(Takes)
    BY <1>0 DEF Types, LogOK
  <2>4. CASE Accepts(n, id, sender)
    <3>1. sender \in Nodes /\ id \in Nat
      BY DEF Forwards, Grows
    <3>2. PICK key \in Keys : key = <<id, Compressed[sender]>>
      BY <3>1 DEF Keys
    <3>3. Remember(Expire(d, T), key, T) \in Caches
      BY <2>2, CacheFacts
    <3>4. PICK tk \in Takes : tk = [key |-> key, at |-> T]
      BY DEF Takes
    <3>5. engine'[n].dedup = Remember(Expire(d, T), key, T)
          /\ log'.taken = [log.taken EXCEPT ![n] = Append(log.taken[n], tk)]
      BY <2>1, <2>4, <3>2, <3>4 DEF Accepts
    <3>6. Append(log.taken[n], tk) \in Seq(Takes)
      BY <2>3
    <3> QED BY <2>3, <3>3, <3>5, <3>6
  <2>5. CASE Declines(n)
    BY <2>1, <2>2, <2>3, <2>5 DEF Declines
  <2> QED BY <2>4, <2>5 DEF Forwards
<1>3. EnginesOK'
  <2>1. engine' = [engine EXCEPT ![n] = engine'[n]]
    BY DEF Forwards
  <2>2. EnginesOK
    BY DEF Types
  <2> QED BY <1>0, <1>1, <1>2, <2>1, <2>2, EngineStepKeepsEngines
<1>4. LogOK'
  <2>1. Cardinality(hops) \in Nat
    BY DEF Forwards
  <2>2. log'.sent \in [1..Cardinality(Requests) -> Nat]
    <3>1. log'.sent = [log.sent EXCEPT ![id] = log.sent[id] + Cardinality(hops)]
      BY DEF Forwards
    <3>2. log.sent \in [1..Cardinality(Requests) -> Nat]
      BY DEF Types, LogOK
    <3>3. CASE id \in 1..Cardinality(Requests)
      <4>1. log.sent[id] + Cardinality(hops) \in Nat
        <5>1. PICK a \in Nat, b \in Nat : a = log.sent[id] /\ b = Cardinality(hops)
          BY <2>1, <3>2, <3>3
        <5> QED BY <5>1
      <4> QED BY <3>1, <3>2, <4>1
    <3>4. CASE id \notin 1..Cardinality(Requests)
      BY <3>1, <3>2, <3>4
    <3> QED BY <3>3, <3>4
  <2>3. log'.repeats \in Nat /\ log'.learned \in Nat
    BY DEF Forwards, Types, LogOK
  <2>4. log' = [taken |-> log'.taken, sent |-> log'.sent, repeats |-> log'.repeats,
                learned |-> log'.learned]
    BY DEF Forwards
  <2> QED BY <1>2, <2>2, <2>3, <2>4 DEF LogOK
<1>5. FramesOK'
  <2> SUFFICES ASSUME NEW f \in air' PROVE CopyOK(f, messages') \/ ReplyOK(f, messages')
    BY DEF FramesOK
  <2>1. CASE f \in rest
    <3>1. CopyOK(f, messages) \/ ReplyOK(f, messages)
      BY <2>1 DEF Types, FramesOK
    <3>2. PICK ms \in Seq(Requests), ns \in Seq(Requests) :
            /\ ms = messages /\ ns = messages' /\ Len(ms) <= Len(ns)
            /\ \A i \in 1..Len(ms) : ns[i] = ms[i]
      BY DEF Types, Grows
    <3> QED BY <3>1, <3>2, FramesLater
  <2>2. ASSUME NEW m \in hops \cap Nodes,
               f = Copy(id, m, Stacked(copy.route, n), copy.ttl - 1,
                        ForwardedK(Budget(n, req, copy)))
        PROVE  CopyOK(f, messages')
    <3>1. Stacked(copy.route, n) \in Seq(Nodes) /\ Stacked(copy.route, n) # << >>
      BY StackedFacts DEF Carries
    <3>2. copy.ttl - 1 \in Nat
      BY <2>2 DEF Forwards, Carries
    <3>3. ForwardedK(Budget(n, req, copy)) \in 0..FloodK
      BY FanoutFacts DEF Carries, Budget
    <3>4. PICK s, t, k : /\ s = Stacked(copy.route, n) /\ t = copy.ttl - 1
                         /\ k = ForwardedK(Budget(n, req, copy))
      OBVIOUS
    <3>5. f = [kind |-> "copy", id |-> id, to |-> m, route |-> s, ttl |-> t, k |-> k]
      BY <2>2, <3>4 DEF Copy
    <3>6. /\ f.kind = "copy" /\ f.id = id /\ f.to = m /\ f.route = s /\ f.ttl = t /\ f.k = k
          /\ f = Copy(f.id, f.to, f.route, f.ttl, f.k)
      BY <3>5 DEF Copy
    <3> QED BY <3>1, <3>2, <3>3, <3>4, <3>6 DEF CopyOK, Grows
  <2> QED BY <2>1, <2>2 DEF Forwards
<1> QED BY <1>3, <1>4, <1>5 DEF Types, Grows

\* The frames that stay, and one that is new.
LEMMA OneFrameMore ==
  ASSUME Types, NEW f, CopyOK(f, messages) \/ ReplyOK(f, messages),
         air' \subseteq air \cup {f}, messages' = messages
  PROVE  FramesOK'
<1> SUFFICES ASSUME NEW g \in air' PROVE CopyOK(g, messages) \/ ReplyOK(g, messages)
  BY DEF FramesOK
<1>1. CASE g \in air
  BY <1>1 DEF Types, FramesOK
<1>2. CASE g = f
  BY <1>2
<1> QED BY <1>1, <1>2

LEMMA CopyInAir ==
  ASSUME Types, NEW copy \in air, copy.kind = "copy"
  PROVE  /\ CopyOK(copy, messages) /\ messages[copy.id] \in Requests
         /\ copy.id \in 1..Len(messages) /\ copy.to \in Nodes
         /\ Last(copy.route) \in Nodes
<1>1. CopyOK(copy, messages)
  BY DEF Types, FramesOK, ReplyOK
<1>2. copy.id \in 1..Len(messages) /\ copy.to \in Nodes /\ copy.route \in Seq(Nodes)
      /\ copy.route # << >>
  BY <1>1 DEF CopyOK
<1>3. messages[copy.id] \in Requests
  BY <1>2 DEF Types
<1>4. PICK s \in Seq(Nodes) : s = copy.route /\ s # << >>
  BY <1>2
<1>5. s[Len(s)] \in Nodes
  BY <1>4
<1> QED BY <1>1, <1>2, <1>3, <1>4, <1>5 DEF Last

LEMMA OriginateIsForward ==
  ASSUME Types, NEW req \in Requests, Originate(req)
  PROVE  LET id == Len(messages) + 1
             copy == Copy(id, req.origin, << >>, DefaultTtl, req.k)
         IN /\ Carries(req.origin, id, req, copy) /\ Grows(id) /\ now' = now
            /\ Forward(req.origin, id, req, copy, air)
            /\ messages' = Append(messages, req) /\ copy.route = << >>
            /\ copy.ttl = DefaultTtl /\ copy.k = req.k
<1> DEFINE id == Len(messages) + 1
           copy == Copy(id, req.origin, << >>, DefaultTtl, req.k)
<1>1. Forward(req.origin, id, req, copy, air) /\ messages' = Append(messages, req) /\ now' = now
  BY DEF Originate
<1>2. /\ req.origin \in Nodes /\ req.k \in 0..FloodK /\ DefaultTtl \in Nat
  BY MeshAssumption
<1>3. copy.route = << >> /\ copy.ttl = DefaultTtl /\ copy.k = req.k
  BY DEF Copy
<1>4. << >> \in Seq(Nodes)
  OBVIOUS
<1>5. Carries(req.origin, id, req, copy)
  BY <1>2, <1>3, <1>4 DEF Carries
<1>6. Grows(id)
  <2>1. PICK ms \in Seq(Requests) : ms = messages
    BY DEF Types
  <2>2. /\ Append(ms, req) \in Seq(Requests) /\ Len(Append(ms, req)) = Len(ms) + 1
        /\ \A i \in 1..Len(ms) : Append(ms, req)[i] = ms[i]
    OBVIOUS
  <2>3. Len(ms) \in Nat
    OBVIOUS
  <2> QED BY <1>1, <2>1, <2>2, <2>3 DEF Grows
<1> QED BY <1>1, <1>3, <1>5, <1>6

LEMMA RelayIsForward ==
  ASSUME Types, NEW copy \in air, copy.kind = "copy", Relay(copy)
  PROVE  \E rest \in SUBSET air :
           /\ Carries(copy.to, copy.id, messages[copy.id], copy) /\ Grows(copy.id)
           /\ Leaves(copy, rest) /\ rest \in {air, air \ {copy}}
           /\ Forward(copy.to, copy.id, messages[copy.id], copy, rest)
           /\ UNCHANGED <<now, messages, answered, misrouted>>
<1>1. PICK rest \in {air, air \ {copy}} :
        /\ Leaves(copy, rest)
        /\ Forward(copy.to, copy.id, messages[copy.id], copy, rest)
  BY DEF Relay
<1>2. UNCHANGED <<now, messages, answered, misrouted>> /\ rest \in SUBSET air
  BY DEF Relay
<1>3. /\ CopyOK(copy, messages) /\ messages[copy.id] \in Requests
      /\ copy.id \in 1..Len(messages) /\ copy.to \in Nodes
  BY CopyInAir
<1>4. Carries(copy.to, copy.id, messages[copy.id], copy)
  BY <1>3 DEF Carries, CopyOK
<1>5. Grows(copy.id)
  BY <1>2, <1>3 DEF Grows, Types
<1> QED BY <1>1, <1>2, <1>4, <1>5

LEMMA TypesStep ==
  ASSUME Types, [Next]_vars
  PROVE  Types'
<1>1. ASSUME NEW req \in Requests, Originate(req) PROVE Types'
  <2>1. PICK id, copy :
          /\ Carries(req.origin, id, req, copy) /\ Grows(id) /\ now' = now
          /\ Forward(req.origin, id, req, copy, air)
    BY <1>1, OriginateIsForward
  <2>2. \E hops, sender : Forwards(req.origin, id, req, copy, air, hops, sender)
    BY <2>1, ForwardFacts DEF Carries
  <2>3. PICK n, hops, sender : n = req.origin /\ Forwards(n, id, req, copy, air, hops, sender)
    BY <2>2
  <2>4. air \in SUBSET air /\ Carries(n, id, req, copy)
    BY <2>1, <2>3
  <2> QED BY <2>1, <2>3, <2>4, ForwardKeepsTypes
<1>2. ASSUME NEW copy \in air, copy.kind = "copy", Relay(copy) PROVE Types'
  <2>1. PICK rest \in SUBSET air :
          /\ Carries(copy.to, copy.id, messages[copy.id], copy) /\ Grows(copy.id)
          /\ Forward(copy.to, copy.id, messages[copy.id], copy, rest) /\ now' = now
    BY <1>2, RelayIsForward
  <2>2. PICK n, id, req : n = copy.to /\ id = copy.id /\ req = messages[copy.id]
    OBVIOUS
  <2>3. Carries(n, id, req, copy) /\ Grows(id) /\ Forward(n, id, req, copy, rest)
    BY <2>1, <2>2
  <2>4. PICK hops, sender : Forwards(n, id, req, copy, rest, hops, sender)
    BY <2>3, ForwardFacts DEF Carries
  <2> QED BY <2>1, <2>3, <2>4, ForwardKeepsTypes
<1>3. ASSUME NEW copy \in air, copy.kind = "copy", Answer(copy) PROVE Types'
  <2>1. PICK rest \in {air, air \ {copy}} :
          /\ air' = rest \cup {Reply(copy.id, copy.to, Last(copy.route),
                                     [i \in DOMAIN copy.route |-> Compressed[copy.route[i]]])}
          /\ log' = [log EXCEPT !.repeats = IF copy \in rest THEN @ + 1 ELSE @]
    BY <1>3 DEF Answer
  <2>2. /\ UNCHANGED <<engine, now, messages, answered, misrouted>>
        /\ messages[copy.id].dest = copy.to
    BY <1>3 DEF Answer
  <2>3. copy.id \in 1..Len(messages) /\ copy.to \in Nodes /\ Last(copy.route) \in Nodes
    BY <1>3, CopyInAir
  <2>4. PICK stack : stack = [i \in DOMAIN copy.route |-> Compressed[copy.route[i]]]
    OBVIOUS
  <2>5. PICK f : f = Reply(copy.id, copy.to, Last(copy.route), stack)
    OBVIOUS
  <2>6. ReplyOK(f, messages)
    BY <2>2, <2>3, <2>5 DEF ReplyOK, Reply
  <2>7. air' \subseteq air \cup {f}
    BY <2>1, <2>4, <2>5
  <2>8. FramesOK'
    BY <2>2, <2>6, <2>7, OneFrameMore
  <2>9. LogOK'
    <3>1. LogOK
      BY DEF Types
    <3>2. PICK r \in Nat : r = IF copy \in rest THEN log.repeats + 1 ELSE log.repeats
      BY <3>1 DEF LogOK
    <3>3. log' = [log EXCEPT !.repeats = r]
      BY <2>1, <3>2
    <3>4. /\ log'.taken = log.taken /\ log'.sent = log.sent /\ log'.learned = log.learned
          /\ log'.repeats = r
          /\ log' = [taken |-> log'.taken, sent |-> log'.sent, repeats |-> log'.repeats,
                     learned |-> log'.learned]
      BY <3>1, <3>3 DEF LogOK
    <3> QED BY <3>1, <3>2, <3>4 DEF LogOK
  <2> QED BY <2>2, <2>8, <2>9 DEF Types, EnginesOK
<1>4. ASSUME NEW reply \in air, reply.kind = "reply", PassReply(reply) PROVE Types'
  <2>1. ReplyOK(reply, messages)
    BY <1>4 DEF Types, FramesOK, CopyOK
  <2>2. UNCHANGED <<now, messages, log>>
    BY <1>4 DEF PassReply
  <2>3. EnginesOK'
    <3>1. EnginesOK
      BY DEF Types
    <3>2. CASE engine' = engine
      BY <2>2, <3>1, <3>2 DEF EnginesOK
    <3>3. CASE engine' = [engine EXCEPT ![reply.to] =
                  Learn(engine[reply.to], "delivered", messages[reply.id].dest, reply.from, now)]
      <4>0. PICK e : e = engine[reply.to]
        OBVIOUS
      <4>1. PICK n \in Nodes, dest \in Nodes, hop \in Hives, T \in 0..MaxTime :
              /\ n = reply.to /\ dest = messages[reply.id].dest /\ hop = reply.from
              /\ e = engine[n] /\ T = now
        BY <2>1, <4>0 DEF ReplyOK, Hives, Types
      <4>2. IsEngine(e, Heard(n), T) /\ e.dedup \in Caches
        BY <3>1, <4>1 DEF EnginesOK
      <4>3. PICK x : x = Learn(e, "delivered", dest, hop, T)
        OBVIOUS
      <4>4. PICK H \in SUBSET Hives : H = Heard(n)
        BY HeardFacts
      <4>5. IsEngine(x, H, T) /\ x.dedup = e.dedup
        <5>1. IsEngine(e, H, T)
          BY <4>2, <4>4
        <5>2. PICK lesson \in Lessons : lesson = "delivered"
          BY DEF Lessons
        <5>3. x = Learn(e, lesson, dest, hop, T)
          BY <4>3, <5>2
        <5>4. /\ H \in SUBSET Hives /\ T \in 0..MaxTime /\ dest \in Nodes /\ hop \in Hives
              /\ lesson \in Lessons
          BY <4>1, <4>4, <5>2
        <5> QED BY <5>1, <5>3, <5>4, LearnFacts
      <4>6. engine' = [engine EXCEPT ![n] = x]
        BY <3>3, <4>1, <4>3
      <4> QED BY <2>2, <3>1, <4>1, <4>2, <4>4, <4>5, <4>6, EngineStepKeepsEngines
    <3> QED BY <1>4, <3>2, <3>3 DEF PassReply
  <2>4. FramesOK'
    <3>1. CASE air' = air \ {reply}
      BY <2>1, <2>2, <3>1, OneFrameMore
    <3>2. ASSUME NEW m \in Nodes,
                 air' = (air \ {reply}) \cup {Reply(reply.id, reply.to, m, Front(reply.stack))}
          PROVE  FramesOK'
      <4>1. PICK stack : stack = Front(reply.stack)
        OBVIOUS
      <4>2. PICK f : f = Reply(reply.id, reply.to, m, stack)
        OBVIOUS
      <4>3. ReplyOK(f, messages)
        BY <2>1, <4>2 DEF ReplyOK, Reply
      <4>4. air' \subseteq air \cup {f}
        BY <3>2, <4>1, <4>2
      <4> QED BY <2>2, <4>3, <4>4, OneFrameMore
    <3> QED BY <1>4, <3>1, <3>2 DEF PassReply
  <2>5. LogOK'
    BY <2>2 DEF Types, LogOK
  <2> QED BY <2>2, <2>3, <2>4, <2>5 DEF Types
<1>5. ASSUME NEW n \in Nodes, NEW x, IsEngine(x, Heard(n), now), x.dedup = engine[n].dedup,
             engine' = [engine EXCEPT ![n] = x], UNCHANGED <<now, messages, air>>,
             log' = log \/ Lesson
      PROVE  Types'
  <2>1. EnginesOK'
    <3>1. EnginesOK
      BY DEF Types
    <3>2. x.dedup \in Caches
      BY <1>5, <3>1 DEF EnginesOK
    <3> QED BY <1>5, <3>1, <3>2, EngineStepKeepsEngines
  <2>2. LogOK'
    <3>1. LogOK
      BY DEF Types
    <3>2. CASE log' = log
      BY <3>1, <3>2 DEF LogOK
    <3>3. CASE Lesson
      <4>1. PICK k \in Nat : k = log.learned + 1
        BY <3>1 DEF LogOK
      <4>2. log' = [log EXCEPT !.learned = k]
        BY <3>3, <4>1 DEF Lesson
      <4>3. /\ log'.taken = log.taken /\ log'.sent = log.sent /\ log'.repeats = log.repeats
            /\ log'.learned = k
            /\ log' = [taken |-> log'.taken, sent |-> log'.sent, repeats |-> log'.repeats,
                       learned |-> log'.learned]
        BY <3>1, <4>2 DEF LogOK
      <4> QED BY <3>1, <4>1, <4>3 DEF LogOK
    <3> QED BY <1>5, <3>2, <3>3
  <2> QED BY <1>5, <2>1, <2>2 DEF Types, FramesOK
<1>6. ASSUME NEW n \in Nodes, NEW m \in Heard(n), Hear(n, m) PROVE Types'
  <2>0. PICK e : e = engine[n]
    OBVIOUS
  <2>1. PICK T \in 0..MaxTime, H \in SUBSET Hives, fits \in SUBSET Sizes :
          T = now /\ H = Heard(n) /\ fits = FitsOf[m]
    <3>1. Heard(n) \in SUBSET Hives /\ m \in Hives
      BY HeardFacts
    <3>2. FitsOf[m] \in SUBSET Sizes
      BY <3>1, MeshAssumption DEF Hives
    <3> QED BY <3>1, <3>2 DEF Types
  <2>2. IsEngine(e, H, T) /\ m \in H
    BY <2>0, <2>1 DEF Types, EnginesOK
  <2>3. PICK x : x = Observe(e, m, fits, T)
    OBVIOUS
  <2>4. IsEngine(x, H, T) /\ x.dedup = e.dedup
    BY <2>2, <2>3, ObserveFacts
  <2>5. /\ engine' = [engine EXCEPT ![n] = x] /\ UNCHANGED <<now, messages, air>> /\ Lesson
    BY <1>6, <2>0, <2>1, <2>3 DEF Hear
  <2> QED BY <1>5, <2>0, <2>1, <2>4, <2>5
<1>7. ASSUME NEW n \in Nodes, NEW m, NEW d, NEW l, m \in Heard(n), d \in Destinations,
             l \in {"overheard", "seeded"}, Teach(n, l, d, m)
      PROVE  Types'
  <2>0. PICK e : e = engine[n]
    OBVIOUS
  <2>1. PICK T \in 0..MaxTime, H \in SUBSET Hives : T = now /\ H = Heard(n)
    <3>1. Heard(n) \in SUBSET Hives
      BY HeardFacts
    <3> QED BY <3>1 DEF Types
  <2>2. PICK lesson \in Lessons, dest \in Nodes, hop \in Hives :
          lesson = l /\ dest = d /\ hop = m
    BY <1>7, <2>1 DEF Destinations, Lessons
  <2>3. PICK x : x = Learn(e, lesson, dest, hop, T)
    OBVIOUS
  <2>4. IsEngine(x, H, T) /\ x.dedup = e.dedup
    <3>1. IsEngine(e, H, T)
      BY <2>0, <2>1 DEF Types, EnginesOK
    <3>2. /\ H \in SUBSET Hives /\ T \in 0..MaxTime /\ dest \in Nodes /\ hop \in Hives
          /\ lesson \in Lessons
      BY <2>1, <2>2
    <3> QED BY <2>3, <3>1, <3>2, LearnFacts
  <2>5. /\ engine' = [engine EXCEPT ![n] = x] /\ UNCHANGED <<now, messages, air>> /\ Lesson
    BY <1>7, <2>0, <2>1, <2>2, <2>3 DEF Teach
  <2> QED BY <1>5, <2>0, <2>1, <2>4, <2>5
<1>8. ASSUME NEW n \in Nodes, Decay(n) PROVE Types'
  <2>0. PICK e : e = engine[n]
    OBVIOUS
  <2>1. PICK T \in 0..MaxTime, H \in SUBSET Hives : T = now /\ H = Heard(n)
    <3>1. Heard(n) \in SUBSET Hives
      BY HeardFacts
    <3> QED BY <3>1 DEF Types
  <2>2. IsEngine(e, H, T)
    BY <2>0, <2>1 DEF Types, EnginesOK
  <2>3. PICK y : y = DecayNeighbours(e, T)
    OBVIOUS
  <2>4. IsEngine(y, H, T) /\ y.dedup = e.dedup
    BY <2>2, <2>3, DecayNeighboursFacts
  <2>5. PICK x : x = DecayPaths(y, T)
    OBVIOUS
  <2>6. IsEngine(x, H, T) /\ x.dedup = e.dedup
    BY <2>4, <2>5, DecayPathsFacts
  <2>7. engine' = [engine EXCEPT ![n] = x] /\ UNCHANGED <<now, messages, air, log>>
    BY <1>8, <2>0, <2>1, <2>3, <2>5 DEF Decay
  <2> QED BY <1>5, <2>0, <2>1, <2>6, <2>7
<1>9. CASE Tick
  <2>1. now' = now + 1 /\ now < MaxTime /\ UNCHANGED <<engine, messages, air, log>>
    BY <1>9 DEF Tick
  <2>2. now' \in 0..MaxTime /\ now \in Nat /\ now' \in Nat /\ now <= now'
    BY <2>1, MeshAssumption DEF Types
  <2>3. EnginesOK'
    <3>1. ASSUME NEW n \in Nodes
          PROVE  IsEngine(engine[n], Heard(n), now') /\ engine[n].dedup \in Caches
      <4>1. PICK T, U, e, H : /\ T \in Nat /\ U \in Nat /\ T = now /\ U = now'
                              /\ e = engine[n] /\ H = Heard(n) /\ T <= U
        BY <2>2
      <4>2. IsEngine(e, H, T) /\ e.dedup \in Caches
        BY <4>1 DEF Types, EnginesOK
      <4>3. IsEngine(e, H, U)
        BY <4>1, <4>2, EngineLater
      <4> QED BY <4>1, <4>2, <4>3
    <3> QED BY <2>1, <3>1 DEF Types, EnginesOK
  <2> QED BY <2>1, <2>2, <2>3 DEF Types, LogOK, FramesOK
<1>10. CASE UNCHANGED vars
  BY <1>10 DEF vars, Types, EnginesOK, LogOK, FramesOK
<1> QED BY <1>1, <1>2, <1>3, <1>4, <1>6, <1>7, <1>8, <1>9, <1>10 DEF Next

\* The types of the mesh: the tables of every node keep count of what they hold and hold
\* each hive and each path once, through every observation, lesson, eviction and decay.
THEOREM MeshTypeOK == Spec => []TypeOK
<1>1. Init => Types
  BY TypesInit
<1>2. Types /\ [Next]_vars => Types'
  BY TypesStep
<1>3. Types => TypeOK
  BY TypesGiveTypeOK
<1> QED BY <1>1, <1>2, <1>3, PTL DEF Spec

-----------------------------------------------------------------------------
(* The ring of a cache is a window on what its node took. *)

\* Fewer than N numbers in a row have different remainders.
LEMMA Remainders ==
  ASSUME NEW N \in Nat \ {0}, NEW a \in Nat, NEW b \in Nat
  PROVE  /\ a % N \in 0..(N - 1) /\ ((a % N) + 1) % N = (a + 1) % N
         /\ a < b /\ b < a + N => a % N # b % N
         /\ (a + N) % N = a % N
<1>1. \A x \in Nat : /\ x % N \in 0..(N - 1) /\ x \div N \in Int
                     /\ x = (N * (x \div N)) + (x % N)
  OBVIOUS
<1>2. ASSUME NEW p \in Int, NEW q \in Int, NEW r \in 0..(N - 1), NEW s \in 0..(N - 1),
             (N * p) + r = (N * q) + s
      PROVE  p = q /\ r = s
  <2>1. CASE p = q
    BY <1>2, <2>1
  <2>2. CASE p < q
    <3>1. PICK k \in Nat : q = p + 1 + k
      <4>1. q - p - 1 \in Nat /\ q = p + 1 + (q - p - 1)
        BY <2>2
      <4> QED BY <4>1
    <3>2. N * q = (N * p) + N + (N * k) /\ N * k >= 0
      BY <3>1
    <3> QED BY <1>2, <3>2
  <2>3. CASE q < p
    <3>1. PICK k \in Nat : p = q + 1 + k
      <4>1. p - q - 1 \in Nat /\ p = q + 1 + (p - q - 1)
        BY <2>3
      <4> QED BY <4>1
    <3>2. N * p = (N * q) + N + (N * k) /\ N * k >= 0
      BY <3>1
    <3> QED BY <1>2, <3>2
  <2> QED BY <2>1, <2>2, <2>3
<1>3. ASSUME NEW x \in Nat, NEW q \in Int, NEW r \in 0..(N - 1), x = (N * q) + r
      PROVE  x % N = r
  <2>1. PICK p \in Int, s \in 0..(N - 1) : p = x \div N /\ s = x % N /\ x = (N * p) + s
    BY <1>1
  <2>2. (N * p) + s = (N * q) + r /\ p \in Int /\ s \in 0..(N - 1)
    BY <1>3, <2>1
  <2>3. p = q /\ s = r
    BY <1>2, <2>2
  <2> QED BY <2>1, <2>3
<1>4. PICK q \in Int, r \in 0..(N - 1) : r = a % N /\ a = (N * q) + r
  BY <1>1
<1>5. (r + 1) % N = (a + 1) % N
  <2>1. CASE r + 1 < N
    <3>1. (r + 1) \in 0..(N - 1) /\ a + 1 \in Nat /\ a + 1 = (N * q) + (r + 1)
      BY <1>4, <2>1
    <3>2. (a + 1) % N = r + 1
      BY <1>3, <3>1
    <3>3. r + 1 = (N * 0) + (r + 1)
      OBVIOUS
    <3>4. (r + 1) % N = r + 1
      BY <1>3, <3>1, <3>3
    <3> QED BY <3>2, <3>4
  <2>2. CASE r + 1 = N
    <3>1. N * (q + 1) = (N * q) + N /\ N * 1 = N
      OBVIOUS
    <3>2. a + 1 = (N * (q + 1)) + 0 /\ r + 1 = (N * 1) + 0
      BY <1>4, <2>2, <3>1
    <3>3. 0 \in 0..(N - 1) /\ a + 1 \in Nat /\ r + 1 \in Nat /\ q + 1 \in Int
      OBVIOUS
    <3>4. (a + 1) % N = 0
      BY <1>3, <3>2, <3>3
    <3>5. (r + 1) % N = 0
      BY <1>3, <3>2, <3>3
    <3> QED BY <3>4, <3>5
  <2> QED BY <2>1, <2>2
<1>6. (a + N) % N = r
  <2>1. N * (q + 1) = (N * q) + N
    OBVIOUS
  <2>2. a + N = (N * (q + 1)) + r /\ a + N \in Nat /\ q + 1 \in Int
    BY <1>4, <2>1
  <2> QED BY <1>3, <2>2
<1>7. ASSUME a < b, b < a + N, a % N = b % N PROVE FALSE
  <2>1. PICK p \in Int : b = (N * p) + r
    BY <1>1, <1>4, <1>7
  <2>2. PICK k \in 1..(N - 1) : b = a + k
    <3>1. b - a \in 1..(N - 1) /\ b = a + (b - a)
      BY <1>7
    <3> QED BY <3>1
  <2>3. (N * p) + 0 = (N * q) + k
    BY <1>4, <2>1, <2>2
  <2>4. 0 \in 0..(N - 1) /\ k \in 0..(N - 1)
    OBVIOUS
  <2>5. k = 0
    BY <1>2, <2>3, <2>4
  <2> QED BY <2>5
<1> QED BY <1>4, <1>5, <1>6, <1>7

\* The slot of take j, for the takes that have not been overwritten.
SlotOf(j) == (j - 1) % DedupSlots
Recent(s) == {j \in 1..Len(s) : j > Len(s) - DedupSlots}
Remembers(x, take, T) ==
  \/ x = [key |-> take.key, expires |-> take.at + DedupTtl]
  \/ x = Free /\ take.at + DedupTtl <= T
Window(d, s, T) ==
  /\ d.cursor = Len(s) % DedupSlots
  /\ \A j \in Recent(s) : Remembers(d.entries[SlotOf(j)], s[j], T)
  /\ \A i \in 0..(DedupSlots - 1) : d.entries[i] # Free => \E j \in Recent(s) : SlotOf(j) = i

LEMMA WindowInit == ASSUME NEW T PROVE Window(EmptyDedup, << >>, T)
<1>1. Len(<< >>) = 0 /\ 0 % DedupSlots = 0 /\ Recent(<< >>) = {}
  <2>1. 0 % DedupSlots = 0
    <3>1. PICK N \in Nat \ {0} : N = DedupSlots
      BY TableAssumption
    <3>2. 0 % N \in 0..(N - 1) /\ 0 = (N * (0 \div N)) + (0 % N) /\ 0 \div N \in Int
      BY <3>1
    <3>3. PICK q \in Int, r \in 0..(N - 1) : r = 0 % N /\ 0 = (N * q) + r
      BY <3>2
    <3>4. r = 0
      <4>1. CASE q >= 0
        <5>1. N * q >= 0
          BY <4>1
        <5> QED BY <3>3, <5>1
      <4>2. CASE q < 0
        <5>1. PICK k \in Nat : q = 0 - 1 - k
          <6>1. 0 - 1 - q \in Nat /\ q = 0 - 1 - (0 - 1 - q)
            BY <4>2
          <6> QED BY <6>1
        <5>2. N * q = 0 - N - (N * k) /\ N * k >= 0
          BY <5>1
        <5> QED BY <3>3, <5>2
      <4> QED BY <4>1, <4>2
    <3> QED BY <3>1, <3>3, <3>4
  <2> QED BY <2>1 DEF Recent
<1> QED BY <1>1 DEF Window, EmptyDedup

LEMMA SlotOfRecent ==
  ASSUME NEW s \in Seq(Takes), NEW j \in Recent(s)
  PROVE  /\ SlotOf(j) \in 0..(DedupSlots - 1) /\ j \in 1..Len(s) /\ s[j] \in Takes
         /\ s[j].at \in Nat
<1>1. j \in 1..Len(s) /\ Len(s) \in Nat
  BY DEF Recent
<1>2. PICK a \in Nat, N \in Nat \ {0} : a = j - 1 /\ N = DedupSlots
  <2>1. j - 1 \in Nat
    BY <1>1
  <2> QED BY <2>1, TableAssumption
<1>3. a % N \in 0..(N - 1)
  BY Remainders
<1>4. PICK take \in Takes : take = s[j]
  BY <1>1
<1>5. take.at \in Nat
  BY DEF Takes
<1> QED BY <1>1, <1>2, <1>3, <1>4, <1>5 DEF SlotOf

\* Time passes, and entries that have expired are dropped.
LEMMA WindowLater ==
  ASSUME NEW d \in Caches, NEW s \in Seq(Takes), NEW T \in Nat, NEW U \in Nat, T <= U,
         Window(d, s, T)
  PROVE  Window(d, s, U)
<1>1. ASSUME NEW j \in Recent(s) PROVE Remembers(d.entries[SlotOf(j)], s[j], U)
  <2>1. PICK at \in Nat : at = s[j].at
    BY SlotOfRecent
  <2>2. DedupTtl \in Nat
    BY TableAssumption
  <2>3. at + DedupTtl <= T => at + DedupTtl <= U
    BY <2>2
  <2>4. Remembers(d.entries[SlotOf(j)], s[j], T)
    BY DEF Window
  <2> QED BY <2>1, <2>3, <2>4 DEF Remembers
<1> QED BY <1>1 DEF Window

LEMMA WindowExpired ==
  ASSUME NEW d \in Caches, NEW s \in Seq(Takes), NEW T \in Nat, Window(d, s, T),
         NEW key \in Keys
  PROVE  Window(Expire(d, T), s, T) /\ Expire(d, T) \in Caches
<1>1. PICK x \in Caches : x = Expire(d, T)
  BY CacheFacts
<1>2. /\ x.cursor = d.cursor
      /\ \A i \in 0..(DedupSlots - 1) :
           x.entries[i] = IF d.entries[i] # Free /\ d.entries[i].expires <= T THEN Free
                          ELSE d.entries[i]
  BY <1>1, CacheFacts
<1>3. ASSUME NEW j \in Recent(s) PROVE Remembers(x.entries[SlotOf(j)], s[j], T)
  <2>1. PICK i \in 0..(DedupSlots - 1), take \in Takes : i = SlotOf(j) /\ take = s[j]
    BY SlotOfRecent
  <2>2. Remembers(d.entries[i], take, T)
    BY <2>1 DEF Window
  <2>3. CASE d.entries[i] = [key |-> take.key, expires |-> take.at + DedupTtl]
    <3>1. d.entries[i].expires = take.at + DedupTtl
      BY <2>3
    <3>2. \/ x.entries[i] = Free /\ take.at + DedupTtl <= T
          \/ x.entries[i] = d.entries[i]
      BY <1>2, <3>1
    <3> QED BY <2>1, <2>3, <3>2 DEF Remembers
  <2>4. CASE d.entries[i] = Free /\ take.at + DedupTtl <= T
    <3>1. x.entries[i] = Free
      BY <1>2, <2>4
    <3> QED BY <2>1, <2>4, <3>1 DEF Remembers
  <2> QED BY <2>2, <2>3, <2>4 DEF Remembers
<1>4. ASSUME NEW i \in 0..(DedupSlots - 1), x.entries[i] # Free
      PROVE  \E j \in Recent(s) : SlotOf(j) = i
  BY <1>2, <1>4 DEF Window
<1> QED BY <1>1, <1>2, <1>3, <1>4 DEF Window

\* What is taken overwrites the oldest entry, that of the take D before it.
LEMMA WindowRemembered ==
  ASSUME NEW d \in Caches, NEW s \in Seq(Takes), NEW T \in Nat, Window(d, s, T),
         NEW key \in Keys
  PROVE  Window(Remember(d, key, T), Append(s, [key |-> key, at |-> T]), T)
<1> DEFINE take == [key |-> key, at |-> T]
<1>1. PICK N \in Nat \ {0}, L \in Nat : N = DedupSlots /\ L = Len(s)
  BY TableAssumption
<1>2. PICK z : z = Append(s, take)
  OBVIOUS
<1>3. Len(z) = L + 1 /\ z[L + 1] = take /\ \A j \in 1..L : z[j] = s[j]
  BY <1>1, <1>2
<1>4. PICK x : x = Remember(d, key, T)
  OBVIOUS
<1>5. /\ x.cursor = (d.cursor + 1) % N /\ d.cursor = L % N
      /\ \A i \in 0..(N - 1) :
           x.entries[i] = IF i = d.cursor THEN [key |-> key, expires |-> T + DedupTtl]
                          ELSE d.entries[i]
  BY <1>1, <1>4, CacheFacts DEF Window
<1>6. x.cursor = Len(z) % N
  <2>1. ((L % N) + 1) % N = (L + 1) % N
    BY <1>1, Remainders
  <2> QED BY <1>3, <1>5, <2>1
<1>7. L % N \in 0..(N - 1)
  BY Remainders
<1>8. SlotOf(L + 1) = L % N
  <2>1. (L + 1) - 1 = L
    OBVIOUS
  <2> QED BY <1>1, <2>1 DEF SlotOf
<1>9. /\ Recent(z) = {j \in 1..(L + 1) : j > (L + 1) - N}
      /\ Recent(s) = {j \in 1..L : j > L - N}
  BY <1>1, <1>3 DEF Recent
<1>10. ASSUME NEW j \in Recent(z), j # L + 1
       PROVE  j \in Recent(s) /\ SlotOf(j) \in 0..(N - 1) /\ SlotOf(j) # L % N /\ z[j] = s[j]
  <2>1. j \in Recent(s) /\ j \in 1..L /\ j > (L + 1) - N
    BY <1>9, <1>10
  <2>2. PICK a \in Nat : a = j - 1
    <3>1. j - 1 \in Nat
      BY <2>1
    <3> QED BY <3>1
  <2>3. a < L /\ L < a + N
    BY <2>1, <2>2
  <2>4. a % N # L % N /\ a % N \in 0..(N - 1)
    BY <2>3, Remainders
  <2> QED BY <1>1, <1>3, <2>1, <2>2, <2>4 DEF SlotOf
<1>11. ASSUME NEW j \in Recent(z) PROVE Remembers(x.entries[SlotOf(j)], z[j], T)
  <2>1. CASE j = L + 1
    <3>1. x.entries[SlotOf(j)] = [key |-> key, expires |-> T + DedupTtl]
      BY <1>5, <1>7, <1>8, <2>1
    <3>2. z[j].key = key /\ z[j].at = T
      BY <1>3, <2>1
    <3> QED BY <3>1, <3>2 DEF Remembers
  <2>2. CASE j # L + 1
    <3>1. Remembers(d.entries[SlotOf(j)], s[j], T)
      BY <1>10, <2>2 DEF Window
    <3>2. x.entries[SlotOf(j)] = d.entries[SlotOf(j)] /\ z[j] = s[j]
      BY <1>5, <1>10, <2>2
    <3> QED BY <3>1, <3>2
  <2> QED BY <2>1, <2>2
<1>12. ASSUME NEW i \in 0..(N - 1), x.entries[i] # Free
       PROVE  \E j \in Recent(z) : SlotOf(j) = i
  <2>1. CASE i = L % N
    <3>1. L + 1 \in Recent(z)
      BY <1>9
    <3> QED BY <1>8, <2>1, <3>1
  <2>2. CASE i # L % N
    <3>1. d.entries[i] # Free
      BY <1>5, <1>12, <2>2
    <3>2. PICK j \in Recent(s) : SlotOf(j) = i
      BY <1>1, <3>1 DEF Window
    <3>3. j \in 1..L /\ j > L - N
      BY <1>9
    <3>4. j # L + 1 - N
      <4>1. ASSUME j = L + 1 - N PROVE FALSE
        <5>1. PICK a \in Nat : a = j - 1
          <6>1. j - 1 \in Nat
            BY <3>3
          <6> QED BY <6>1
        <5>2. a + N = L
          BY <4>1, <5>1
        <5>3. (a + N) % N = a % N
          BY Remainders
        <5> QED BY <1>1, <2>2, <3>2, <5>1, <5>2, <5>3 DEF SlotOf
      <4> QED BY <4>1
    <3>5. j \in Recent(z)
      BY <1>9, <3>3, <3>4
    <3> QED BY <3>2, <3>5
  <2> QED BY <2>1, <2>2
<1> HIDE DEF take
<1>13. Window(x, z, T)
  BY <1>1, <1>6, <1>11, <1>12 DEF Window
<1> QED BY <1>2, <1>4, <1>13 DEF take

\* What a window holds that has not expired is what was taken lately.
LEMMA WindowFacts ==
  ASSUME NEW d \in Caches, NEW s \in Seq(Takes), NEW T \in Nat, Window(d, s, T)
  PROVE  LET held == {i \in DOMAIN d.entries : d.entries[i] # Free}
         IN {d.entries[i].key : i \in {i \in held : d.entries[i].expires > T}}
            = {s[i].key : i \in {i \in DOMAIN s :
                 i > Len(s) - DedupSlots /\ s[i].at + DedupTtl > T}}
<1> DEFINE held == {i \in DOMAIN d.entries : d.entries[i] # Free}
           A == {i \in held : d.entries[i].expires > T}
           B == {i \in DOMAIN s : i > Len(s) - DedupSlots /\ s[i].at + DedupTtl > T}
<1>1. DOMAIN d.entries = 0..(DedupSlots - 1) /\ DOMAIN s = 1..Len(s) /\ DedupTtl \in Nat
  BY TableAssumption DEF Caches
<1>2. ASSUME NEW i \in A PROVE \E j \in B : s[j].key = d.entries[i].key
  <2>1. i \in 0..(DedupSlots - 1) /\ d.entries[i] # Free /\ d.entries[i].expires > T
    BY <1>1
  <2>2. PICK j \in Recent(s) : SlotOf(j) = i
    BY <2>1 DEF Window
  <2>3. Remembers(d.entries[i], s[j], T)
    BY <2>2 DEF Window
  <2>4. d.entries[i] = [key |-> s[j].key, expires |-> s[j].at + DedupTtl]
    BY <2>1, <2>3 DEF Remembers
  <2>5. d.entries[i].key = s[j].key /\ d.entries[i].expires = s[j].at + DedupTtl
    BY <2>4
  <2>6. j \in B
    BY <1>1, <2>1, <2>5 DEF Recent
  <2> QED BY <2>5, <2>6
<1>3. ASSUME NEW j \in B PROVE \E i \in A : s[j].key = d.entries[i].key
  <2>1. j \in Recent(s) /\ s[j].at + DedupTtl > T
    BY <1>1 DEF Recent
  <2>2. PICK i \in 0..(DedupSlots - 1), take \in Takes : i = SlotOf(j) /\ take = s[j]
    BY <2>1, SlotOfRecent
  <2>3. Remembers(d.entries[i], take, T)
    BY <2>1, <2>2 DEF Window
  <2>4. take.key \in Keys /\ take.at \in Nat
    BY DEF Takes
  <2>5. take.at + DedupTtl > T /\ take.at + DedupTtl \in Nat
    BY <1>1, <2>1, <2>2, <2>4
  <2>6. d.entries[i] = [key |-> take.key, expires |-> take.at + DedupTtl]
    BY <2>3, <2>5 DEF Remembers
  <2>7. d.entries[i] \in DedupEntries
    BY <2>4, <2>5, <2>6 DEF DedupEntries, Keys
  <2>8. d.entries[i] # Free
    BY <2>7, FreeAssumption
  <2>9. d.entries[i].key = take.key /\ d.entries[i].expires = take.at + DedupTtl
    BY <2>6
  <2>10. i \in A
    BY <1>1, <2>5, <2>8, <2>9
  <2> QED BY <2>2, <2>9, <2>10
<1> HIDE DEF A, B
<1>4. {d.entries[i].key : i \in A} = {s[j].key : j \in B}
  BY <1>2, <1>3
<1> QED BY <1>4 DEF A, B

Windows == \A n \in Nodes : Window(engine[n].dedup, log.taken[n], now)

LEMMA ForwardKeepsWindows ==
  ASSUME Types, Windows, NEW n \in Nodes, NEW id \in Nat, NEW req, NEW copy, NEW rest, NEW hops,
         NEW sender, Forwards(n, id, req, copy, rest, hops, sender), now' = now
  PROVE  Windows'
<1> SUFFICES ASSUME NEW m \in Nodes PROVE Window(engine'[m].dedup, log'.taken[m], now)
  BY DEF Windows
<1>1. PICK d \in Caches, s \in Seq(Takes), T \in Nat :
        d = engine[m].dedup /\ s = log.taken[m] /\ T = now
  <2>1. now \in Nat
    BY MeshAssumption DEF Types
  <2> QED BY <2>1 DEF Types, EnginesOK, LogOK
<1>2. Window(d, s, T)
  BY <1>1 DEF Windows
<1>3. PICK key \in Keys : key = <<id, Compressed[sender]>>
  BY DEF Forwards, Keys
<1>4. CASE m # n
  <2>1. engine'[m] = engine[m]
    BY <1>4 DEF Forwards, Types, EnginesOK
  <2>2. log'.taken[m] = log.taken[m]
    BY <1>4 DEF Forwards, Accepts, Declines, Types, LogOK
  <2> QED BY <1>1, <1>2, <2>1, <2>2
<1>5. CASE m = n
  <2>1. CASE Accepts(n, id, sender)
    <3>1. engine'[m].dedup = Remember(Expire(d, T), key, T)
      BY <1>1, <1>3, <1>5, <2>1 DEF Accepts
    <3>2. log'.taken[m] = Append(s, [key |-> key, at |-> T])
      BY <1>1, <1>3, <1>5, <2>1 DEF Accepts, Types, LogOK
    <3>3. PICK x \in Caches : x = Expire(d, T) /\ Window(x, s, T)
      BY <1>2, WindowExpired
    <3>4. Window(Remember(x, key, T), Append(s, [key |-> key, at |-> T]), T)
      BY <3>3, WindowRemembered
    <3> QED BY <1>1, <3>1, <3>2, <3>3, <3>4
  <2>2. CASE Declines(n)
    <3>1. engine'[m].dedup \in {d, Expire(d, T)} /\ log'.taken[m] = s
      BY <1>1, <1>5, <2>2 DEF Declines
    <3>2. Window(Expire(d, T), s, T)
      BY <1>2, WindowExpired
    <3> QED BY <1>1, <1>2, <3>1, <3>2
  <2> QED BY <2>1, <2>2 DEF Forwards
<1> QED BY <1>4, <1>5

LEMMA OtherStepsKeepWindows ==
  ASSUME Types, Windows, now' \in Nat, now <= now',
         \A n \in Nodes : engine'[n].dedup = engine[n].dedup /\ log'.taken[n] = log.taken[n]
  PROVE  Windows'
<1> SUFFICES ASSUME NEW n \in Nodes PROVE Window(engine'[n].dedup, log'.taken[n], now')
  BY DEF Windows
<1>1. PICK d \in Caches, s \in Seq(Takes), T \in Nat, U \in Nat :
        d = engine[n].dedup /\ s = log.taken[n] /\ T = now /\ U = now'
  <2>1. now \in Nat
    BY MeshAssumption DEF Types
  <2> QED BY <2>1 DEF Types, EnginesOK, LogOK
<1>2. Window(d, s, T) /\ T <= U
  BY <1>1 DEF Windows
<1>3. Window(d, s, U)
  BY <1>2, WindowLater
<1> QED BY <1>1, <1>3

\* Nothing but the plan for a frame touches a cache.
LEMMA TablesOnly ==
  ASSUME NEW e, NEW H, NEW T, IsEngine(e, H, T)
  PROVE  /\ \A hive, fits, U : Observe(e, hive, fits, U).dedup = e.dedup
         /\ \A lesson, dest, hop, U : Learn(e, lesson, dest, hop, U).dedup = e.dedup
         /\ \A U : DecayPaths(DecayNeighbours(e, U), U).dedup = e.dedup
<1>1. e = [neighbours |-> e.neighbours, paths |-> e.paths, dedup |-> e.dedup]
  BY DEF IsEngine
<1>2. \A t : [e EXCEPT !.neighbours = t].dedup = e.dedup /\ [e EXCEPT !.paths = t].dedup = e.dedup
  BY <1>1
<1>4. \A hive, fits, U : Observe(e, hive, fits, U).dedup = e.dedup
  BY <1>2 DEF Observe
<1>5. \A lesson, dest, hop, U : Learn(e, lesson, dest, hop, U).dedup = e.dedup
  BY <1>2 DEF Learn
<1>6. ASSUME NEW U PROVE DecayPaths(DecayNeighbours(e, U), U).dedup = e.dedup
  <2>1. PICK y : y = DecayNeighbours(e, U)
    OBVIOUS
  <2>2. PICK t : y = [e EXCEPT !.neighbours = t]
    BY <2>1 DEF DecayNeighbours
  <2>3. y = [neighbours |-> t, paths |-> e.paths, dedup |-> e.dedup]
    BY <1>1, <2>2
  <2>4. PICK u : DecayPaths(y, U) = [y EXCEPT !.paths = u]
    BY DEF DecayPaths
  <2>5. [y EXCEPT !.paths = u].dedup = e.dedup
    BY <2>3
  <2> QED BY <2>1, <2>4, <2>5
<1> QED BY <1>4, <1>5, <1>6

LEMMA WindowsStep ==
  ASSUME Types, Windows, [Next]_vars
  PROVE  Windows'
<1>0. /\ now \in Nat /\ \A n \in Nodes : IsEngine(engine[n], Heard(n), now)
      /\ engine = [n \in Nodes |-> engine[n]]
      /\ log = [taken |-> log.taken, sent |-> log.sent, repeats |-> log.repeats,
                learned |-> log.learned]
  BY MeshAssumption DEF Types, EnginesOK, LogOK
<1>1. ASSUME NEW req \in Requests, Originate(req) PROVE Windows'
  <2>1. PICK id, copy :
          /\ Carries(req.origin, id, req, copy) /\ Grows(id) /\ now' = now
          /\ Forward(req.origin, id, req, copy, air)
    BY <1>1, OriginateIsForward
  <2>2. \E hops, sender : Forwards(req.origin, id, req, copy, air, hops, sender)
    BY <2>1, ForwardFacts DEF Carries
  <2>3. PICK n \in Nodes, i \in Nat : n = req.origin /\ i = id
    BY <2>1 DEF Carries, Grows
  <2>4. PICK hops, sender : Forwards(n, i, req, copy, air, hops, sender)
    BY <2>2, <2>3
  <2> QED BY <2>1, <2>3, <2>4, ForwardKeepsWindows
<1>2. ASSUME NEW copy \in air, copy.kind = "copy", Relay(copy) PROVE Windows'
  <2>1. PICK rest \in SUBSET air :
          /\ Carries(copy.to, copy.id, messages[copy.id], copy) /\ Grows(copy.id)
          /\ Forward(copy.to, copy.id, messages[copy.id], copy, rest) /\ now' = now
    BY <1>2, RelayIsForward
  <2>2. PICK n \in Nodes, id \in Nat, req \in Requests :
          n = copy.to /\ id = copy.id /\ req = messages[copy.id]
    BY <2>1 DEF Carries, Grows
  <2>3. Carries(n, id, req, copy) /\ Forward(n, id, req, copy, rest)
    BY <2>1, <2>2
  <2>4. PICK hops, sender : Forwards(n, id, req, copy, rest, hops, sender)
    BY <2>3, ForwardFacts DEF Carries
  <2> QED BY <2>1, <2>2, <2>4, ForwardKeepsWindows
<1>3. ASSUME NEW n \in Nodes, NEW x, engine' = [engine EXCEPT ![n] = x],
             x.dedup = engine[n].dedup, now' = now, log'.taken = log.taken
      PROVE  Windows'
  <2>1. \A m \in Nodes : engine'[m].dedup = engine[m].dedup /\ log'.taken[m] = log.taken[m]
    BY <1>0, <1>3
  <2> QED BY <1>0, <1>3, <2>1, OtherStepsKeepWindows
<1>4. ASSUME engine' = engine, now' \in {now, now + 1}, log'.taken = log.taken PROVE Windows'
  <2>1. now' \in Nat /\ now <= now'
    BY <1>0, <1>4
  <2> QED BY <1>4, <2>1, OtherStepsKeepWindows
<1>5. ASSUME NEW copy \in air, Answer(copy) PROVE Windows'
  <2>1. log'.taken = log.taken
    BY <1>0, <1>5 DEF Answer
  <2> QED BY <1>4, <1>5, <2>1 DEF Answer
<1>6. ASSUME NEW reply \in air, reply.kind = "reply", PassReply(reply) PROVE Windows'
  <2>1. reply.to \in Nodes
    BY <1>6 DEF Types, FramesOK, CopyOK, ReplyOK
  <2>2. now' = now /\ log'.taken = log.taken
    BY <1>6 DEF PassReply
  <2>3. CASE engine' = engine
    BY <1>4, <2>2, <2>3
  <2>4. CASE engine' = [engine EXCEPT ![reply.to] =
                  Learn(engine[reply.to], "delivered", messages[reply.id].dest, reply.from, now)]
    <3>1. PICK x : x = Learn(engine[reply.to], "delivered", messages[reply.id].dest,
                             reply.from, now)
      OBVIOUS
    <3>2. x.dedup = engine[reply.to].dedup
      BY <1>0, <2>1, <3>1, TablesOnly
    <3> QED BY <1>3, <2>1, <2>2, <2>4, <3>1, <3>2
  <2> QED BY <1>6, <2>3, <2>4 DEF PassReply
<1>7. Lesson => log'.taken = log.taken
  BY <1>0 DEF Lesson
<1>8. ASSUME NEW n \in Nodes, NEW m, Hear(n, m) PROVE Windows'
  <2>1. PICK x : x = Observe(engine[n], m, FitsOf[m], now)
    OBVIOUS
  <2>2. x.dedup = engine[n].dedup
    BY <1>0, <2>1, TablesOnly
  <2> QED BY <1>3, <1>7, <1>8, <2>1, <2>2 DEF Hear
<1>9. ASSUME NEW n \in Nodes, NEW lesson, NEW dest, NEW m, Teach(n, lesson, dest, m)
      PROVE  Windows'
  <2>1. PICK x : x = Learn(engine[n], lesson, dest, m, now)
    OBVIOUS
  <2>2. x.dedup = engine[n].dedup
    BY <1>0, <2>1, TablesOnly
  <2> QED BY <1>3, <1>7, <1>9, <2>1, <2>2 DEF Teach
<1>10. ASSUME NEW n \in Nodes, Decay(n) PROVE Windows'
  <2>1. PICK x : x = DecayPaths(DecayNeighbours(engine[n], now), now)
    OBVIOUS
  <2>2. x.dedup = engine[n].dedup
    BY <1>0, <2>1, TablesOnly
  <2> QED BY <1>3, <1>10, <2>1, <2>2 DEF Decay
<1>11. CASE Tick
  BY <1>4, <1>11 DEF Tick
<1>12. CASE UNCHANGED vars
  BY <1>4, <1>12 DEF vars
<1> QED BY <1>1, <1>2, <1>5, <1>6, <1>8, <1>9, <1>10, <1>11, <1>12 DEF Next

\* A ring of a fixed size stands for the whole history of what a node took: no message
\* that is new is taken for a duplicate, and a duplicate passes only when the first is
\* older than DedupTtl or DedupSlots others have come since.
THEOREM TheRingIsAWindow == Spec => []DedupIsWindow
<1>1. Init => Types
  BY TypesInit
<1>2. Types /\ [Next]_vars => Types'
  BY TypesStep
<1>3. Init => Windows
  <2> SUFFICES ASSUME Init, NEW n \in Nodes PROVE Window(engine[n].dedup, log.taken[n], now)
    BY DEF Windows
  <2>1. engine[n].dedup = EmptyDedup
    BY IntroducedFacts DEF Init
  <2>2. log.taken[n] = << >>
    BY DEF Init, InitLog
  <2> QED BY <2>1, <2>2, WindowInit
<1>4. Types /\ Windows /\ [Next]_vars => Windows'
  BY WindowsStep
<1>5. Types /\ Windows => DedupIsWindow
  <2> SUFFICES ASSUME Types, Windows, NEW n \in Nodes
               PROVE  LET taken == log.taken[n]
                          held == {i \in DOMAIN engine[n].dedup.entries :
                                     engine[n].dedup.entries[i] # Free}
                      IN {engine[n].dedup.entries[i].key :
                            i \in {i \in held : engine[n].dedup.entries[i].expires > now}}
                         = {taken[i].key : i \in {i \in DOMAIN taken :
                              i > Len(taken) - DedupSlots /\ taken[i].at + DedupTtl > now}}
    BY DEF DedupIsWindow
  <2>1. PICK d \in Caches, s \in Seq(Takes), T \in Nat :
          d = engine[n].dedup /\ s = log.taken[n] /\ T = now
    <3>1. now \in Nat
      BY MeshAssumption DEF Types
    <3> QED BY <3>1 DEF Types, EnginesOK, LogOK
  <2>2. Window(d, s, T)
    BY <2>1 DEF Windows
  <2> QED BY <2>1, <2>2, WindowFacts
<1> QED BY <1>1, <1>2, <1>3, <1>4, <1>5, PTL DEF Spec

-----------------------------------------------------------------------------
(* Copies walk out along links, and replies walk back. *)

\* No node has two neighbours that a route stack cannot tell apart.
NeighboursDiffer ==
  \A n \in Nodes : \A p, q \in Heard(n) \cap Nodes : Compressed[p] = Compressed[q] => p = q

Joined(p, q) == p \in Nodes /\ q \in Nodes /\ q \in Heard(p) /\ p \in Heard(q)
Walk(w, origin) ==
  /\ w \in Seq(Nodes) /\ w # << >> /\ w[1] = origin
  /\ \A i \in 1..(Len(w) - 1) : Joined(w[i], w[i + 1])
Hashes == {Compressed[n] : n \in Nodes}
HashesOf(stack, w) ==
  /\ stack \in Seq(Hashes) /\ Len(stack) = Len(w)
  /\ \A i \in 1..Len(w) : stack[i] = Compressed[w[i]]

Outward(f, ms) ==
  /\ Walk(f.route, ms[f.id].origin) /\ Joined(f.route[Len(f.route)], f.to)
  /\ Len(f.route) + f.ttl <= DefaultTtl
Homeward(f, ms) ==
  \E w : Walk(w, ms[f.id].origin) /\ w[Len(w)] = f.to /\ HashesOf(f.stack, w)
OnTheirWay ==
  \A f \in air : /\ f.kind = "copy" => Outward(f, messages)
                 /\ f.kind = "reply" => Homeward(f, messages)
Homes ==
  /\ misrouted = {}
  /\ \A home \in answered : /\ home[2] \in 1..Len(messages)
                            /\ home[1] = messages[home[2]].origin

LEMMA JoinedFacts ==
  ASSUME NEW n \in Nodes, NEW m \in Heard(n), m \in Nodes
  PROVE  Joined(n, m) /\ Joined(m, n)
<1>1. {n, m} \in Links /\ {m, n} \in Links
  BY HeardFacts
<1>2. n \in Heard(m)
  BY <1>1, HeardFacts
<1> QED BY <1>2 DEF Joined

LEMMA WalkStarts ==
  ASSUME NEW n \in Nodes
  PROVE  Walk(<<n>>, n) /\ Len(<<n>>) = 1 /\ <<n>>[1] = n
BY DEF Walk

LEMMA WalkOn ==
  ASSUME NEW w, NEW origin, Walk(w, origin), NEW n \in Nodes, Joined(w[Len(w)], n)
  PROVE  LET v == Append(w, n)
         IN Walk(v, origin) /\ Len(v) = Len(w) + 1 /\ v[Len(v)] = n
<1>1. PICK L \in Nat : L = Len(w) /\ L > 0 /\ w \in Seq(Nodes)
  BY DEF Walk
<1>2. PICK v : v = Append(w, n)
  OBVIOUS
<1>3. /\ v \in Seq(Nodes) /\ Len(v) = L + 1 /\ v[L + 1] = n
      /\ \A i \in 1..L : v[i] = w[i]
  BY <1>1, <1>2
<1>4. ASSUME NEW i \in 1..L PROVE Joined(v[i], v[i + 1])
  <2>1. CASE i = L
    BY <1>1, <1>3, <2>1
  <2>2. CASE i # L
    <3>1. i \in 1..(L - 1) /\ i + 1 \in 1..L
      BY <2>2
    <3> QED BY <1>1, <1>3, <3>1 DEF Walk
  <2> QED BY <2>1, <2>2
<1>5. v[1] = origin /\ v # << >> /\ Len(v) - 1 = L
  BY <1>1, <1>3 DEF Walk
<1> QED BY <1>1, <1>2, <1>3, <1>4, <1>5 DEF Walk

\* One step back along a walk.
LEMMA WalkBack ==
  ASSUME NEW w, NEW origin, Walk(w, origin), Len(w) > 1, NEW stack, HashesOf(stack, w)
  PROVE  /\ Joined(w[Len(w)], w[Len(w) - 1]) /\ stack[Len(stack) - 1] = Compressed[w[Len(w) - 1]]
         /\ LET v == Front(w)
            IN Walk(v, origin) /\ v[Len(v)] = w[Len(w) - 1] /\ HashesOf(Front(stack), v)
<1>1. PICK L \in Nat : L = Len(w) /\ L > 1 /\ w \in Seq(Nodes)
  BY DEF Walk
<1>2. stack \in Seq(Hashes) /\ Len(stack) = L /\ \A i \in 1..L : stack[i] = Compressed[w[i]]
  BY <1>1 DEF HashesOf
<1>3. PICK v, s : v = Front(w) /\ s = Front(stack)
  OBVIOUS
<1>4. v \in Seq(Nodes) /\ Len(v) = L - 1 /\ \A i \in 1..(L - 1) : v[i] = w[i]
  <2>1. v = SubSeq(w, 1, L - 1)
    BY <1>1, <1>3 DEF Front
  <2>2. \A i \in 1..(L - 1) : w[i] \in Nodes
    BY <1>1
  <2> QED BY <1>1, <2>1, <2>2, SubSeqProperties
<1>5. s \in Seq(Hashes) /\ Len(s) = L - 1 /\ \A i \in 1..(L - 1) : s[i] = stack[i]
  <2>1. s = SubSeq(stack, 1, L - 1)
    BY <1>2, <1>3 DEF Front
  <2>2. \A i \in 1..(L - 1) : stack[i] \in Hashes
    BY <1>2
  <2> QED BY <1>1, <2>1, <2>2, SubSeqProperties
<1>6. \A i \in 1..(L - 1) : Joined(w[i], w[i + 1])
  BY <1>1 DEF Walk
<1>7. Joined(w[L], w[L - 1])
  <2>1. L - 1 \in 1..(L - 1) /\ (L - 1) + 1 = L
    BY <1>1
  <2>2. Joined(w[L - 1], w[L])
    BY <1>6, <2>1
  <2> QED BY <2>2 DEF Joined
<1>8. Walk(v, origin)
  <2>1. \A i \in 1..(L - 2) : i \in 1..(L - 1) /\ i + 1 \in 1..(L - 1)
    BY <1>1
  <2>2. \A i \in 1..(L - 2) : Joined(v[i], v[i + 1])
    BY <1>4, <1>6, <2>1
  <2>3. Len(v) - 1 = L - 2 /\ 1 \in 1..(L - 1) /\ v # << >>
    BY <1>1, <1>4
  <2>4. v[1] = origin
    BY <1>4, <2>3 DEF Walk
  <2> QED BY <1>4, <2>2, <2>3, <2>4 DEF Walk
<1>9. v[Len(v)] = w[L - 1] /\ HashesOf(s, v)
  <2>1. L - 1 \in 1..(L - 1) /\ 1..(L - 1) \subseteq 1..L
    BY <1>1
  <2> QED BY <1>2, <1>4, <1>5, <2>1 DEF HashesOf
<1>10. stack[L - 1] = Compressed[w[L - 1]]
  BY <1>1, <1>2
<1> QED BY <1>1, <1>2, <1>3, <1>7, <1>8, <1>9, <1>10

\* What a node's own frames come to when it appends itself.
LEMMA ExtendedWalk ==
  ASSUME NEW route, NEW origin, NEW n \in Nodes, NEW ttl \in Nat, ttl > 1,
         \/ route = << >> /\ origin = n /\ ttl <= DefaultTtl
         \/ Walk(route, origin) /\ Joined(route[Len(route)], n) /\ Len(route) + ttl <= DefaultTtl
  PROVE  LET s == Stacked(route, n)
         IN Walk(s, origin) /\ s[Len(s)] = n /\ Len(s) + (ttl - 1) <= DefaultTtl
<1>0. PICK S \in Nat, D \in Nat : S = StackLimit /\ D = DefaultTtl /\ S > 0 /\ D <= S + 1
  BY MeshAssumption
<1>1. CASE route = << >> /\ origin = n /\ ttl <= DefaultTtl
  <2>1. Len(route) = 0 /\ Append(route, n) = <<n>>
    BY <1>1
  <2>2. Stacked(route, n) = <<n>>
    BY <1>0, <2>1 DEF Stacked
  <2>3. Len(<<n>>) + (ttl - 1) <= DefaultTtl
    BY <1>0, <1>1, WalkStarts
  <2>4. Walk(<<n>>, n) /\ Len(<<n>>) = 1 /\ <<n>>[1] = n
    BY WalkStarts
  <2> QED BY <1>1, <2>2, <2>3, <2>4
<1>2. CASE Walk(route, origin) /\ Joined(route[Len(route)], n) /\ Len(route) + ttl <= DefaultTtl
  <2>1. PICK L \in Nat : L = Len(route)
    BY <1>2 DEF Walk
  <2>2. L < S
    BY <1>0, <1>2, <2>1
  <2>3. Stacked(route, n) = Append(route, n)
    BY <1>0, <2>1, <2>2 DEF Stacked
  <2>4. PICK v : v = Append(route, n)
    OBVIOUS
  <2>5. Walk(v, origin) /\ Len(v) = L + 1 /\ v[Len(v)] = n
    BY <1>2, <2>1, <2>4, WalkOn
  <2>6. Len(v) + (ttl - 1) <= DefaultTtl
    BY <1>0, <1>2, <2>1, <2>5
  <2> QED BY <2>3, <2>4, <2>5, <2>6
<1> QED BY <1>1, <1>2

\* The frames of the last state are on their way still when messages are only added.
LEMMA StillOnTheirWay ==
  ASSUME Types, OnTheirWay, Len(messages) <= Len(messages'),
         \A i \in 1..Len(messages) : messages'[i] = messages[i], NEW f \in air
  PROVE  /\ f.kind = "copy" => Outward(f, messages')
         /\ f.kind = "reply" => Homeward(f, messages')
<1>1. f.id \in 1..Len(messages)
  BY DEF Types, FramesOK, CopyOK, ReplyOK
<1>2. messages'[f.id] = messages[f.id]
  BY <1>1
<1>3. /\ f.kind = "copy" => Outward(f, messages)
      /\ f.kind = "reply" => Homeward(f, messages)
  BY DEF OnTheirWay
<1> QED BY <1>2, <1>3 DEF Outward, Homeward

\* The stack of a copy that goes on.
Extended(n, route, ttl, origin) ==
  LET s == Stacked(route, n)
  IN Walk(s, origin) /\ s[Len(s)] = n /\ Len(s) + (ttl - 1) <= DefaultTtl

LEMMA ForwardKeepsWalks ==
  ASSUME Types, OnTheirWay, NEW n \in Nodes, NEW id, NEW req, NEW copy, Grows(id),
         NEW rest \in SUBSET air, NEW hops, NEW sender,
         Forwards(n, id, req, copy, rest, hops, sender),
         copy.ttl > 1 => Extended(n, copy.route, copy.ttl, messages'[id].origin)
  PROVE  OnTheirWay'
<1> SUFFICES ASSUME NEW f \in air'
             PROVE  /\ f.kind = "copy" => Outward(f, messages')
                    /\ f.kind = "reply" => Homeward(f, messages')
  BY DEF OnTheirWay
<1>1. CASE f \in rest
  BY <1>1, StillOnTheirWay DEF Grows
<1>2. ASSUME NEW m \in hops \cap Nodes,
             f = Copy(id, m, Stacked(copy.route, n), copy.ttl - 1,
                      ForwardedK(Budget(n, req, copy)))
      PROVE  f.kind = "copy" /\ Outward(f, messages')
  <2>1. PICK s, t, k, o : /\ s = Stacked(copy.route, n) /\ t = copy.ttl - 1
                          /\ k = ForwardedK(Budget(n, req, copy)) /\ o = messages'[id].origin
    OBVIOUS
  <2>2. f = [kind |-> "copy", id |-> id, to |-> m, route |-> s, ttl |-> t, k |-> k]
    BY <1>2, <2>1 DEF Copy
  <2>3. f.kind = "copy" /\ f.id = id /\ f.to = m /\ f.route = s /\ f.ttl = t
    BY <2>2
  <2>4. copy.ttl > 1 /\ m \in Heard(n) /\ m \in Nodes
    BY DEF Forwards
  <2>5. Walk(s, o) /\ s[Len(s)] = n /\ Len(s) + t <= DefaultTtl
    BY <2>1, <2>4 DEF Extended
  <2>6. Joined(n, m)
    BY <2>4, JoinedFacts
  <2> QED BY <2>1, <2>3, <2>5, <2>6 DEF Outward
<1>3. f \in rest \/ \E m \in hops \cap Nodes :
        f = Copy(id, m, Stacked(copy.route, n), copy.ttl - 1,
                 ForwardedK(Budget(n, req, copy)))
  BY DEF Forwards
<1>4. ASSUME f \notin rest PROVE f.kind = "copy" /\ Outward(f, messages')
  BY <1>2, <1>3, <1>4
<1>5. ASSUME f \notin rest PROVE ~(f.kind = "reply")
  BY <1>4, <1>5
<1> QED BY <1>1, <1>4, <1>5

\* The frames that stay, and one that is new.
LEMMA OneMoreOnItsWay ==
  ASSUME Types, OnTheirWay, messages' = messages, NEW f, air' \subseteq air \cup {f},
         f.kind = "reply", Homeward(f, messages)
  PROVE  OnTheirWay'
<1> SUFFICES ASSUME NEW g \in air'
             PROVE  /\ g.kind = "copy" => Outward(g, messages)
                    /\ g.kind = "reply" => Homeward(g, messages)
  BY DEF OnTheirWay
<1>1. CASE g \in air
  BY <1>1 DEF OnTheirWay
<1>2. CASE g = f
  BY <1>2
<1> QED BY <1>1, <1>2

\* The destination answers along the walk the copy came.
LEMMA AnswerGoesHome ==
  ASSUME Types, OnTheirWay, NEW copy \in air, copy.kind = "copy", Answer(copy)
  PROVE  OnTheirWay'
<1>1. PICK id, w, origin : id = copy.id /\ w = copy.route /\ origin = messages[id].origin
  OBVIOUS
<1>2. Walk(w, origin)
  BY <1>1 DEF OnTheirWay, Outward
<1>3. PICK L \in Nat : L = Len(w) /\ L > 0 /\ w \in Seq(Nodes) /\ DOMAIN w = 1..L
  BY <1>2 DEF Walk
<1>4. PICK stack : stack = [i \in DOMAIN w |-> Compressed[w[i]]]
  OBVIOUS
<1>5. HashesOf(stack, w)
  <2>1. \A i \in 1..L : Compressed[w[i]] \in Hashes
    <3>1. \A i \in 1..L : w[i] \in Nodes
      BY <1>3
    <3> QED BY <3>1 DEF Hashes
  <2>2. stack \in [1..L -> Hashes]
    BY <1>3, <1>4, <2>1
  <2>3. stack \in Seq(Hashes) /\ Len(stack) = L
    BY <2>2
  <2>4. \A i \in 1..L : stack[i] = Compressed[w[i]]
    BY <1>3, <1>4
  <2> QED BY <1>3, <2>3, <2>4 DEF HashesOf
<1>6. PICK f : f = Reply(id, copy.to, w[L], stack)
  OBVIOUS
<1>7. f.kind = "reply" /\ f.id = id /\ f.to = w[L] /\ f.stack = stack
  BY <1>6 DEF Reply
<1>8. Homeward(f, messages)
  BY <1>1, <1>2, <1>3, <1>5, <1>7 DEF Homeward
<1>9. /\ messages' = messages
      /\ \E rest \in {air, air \ {copy}} :
           air' = rest \cup {Reply(copy.id, copy.to, Last(copy.route),
                                  [i \in DOMAIN copy.route |-> Compressed[copy.route[i]]])}
  BY DEF Answer
<1>10. Last(w) = w[L]
  BY <1>3 DEF Last
<1>11. air' \subseteq air \cup {f}
  BY <1>1, <1>4, <1>6, <1>9, <1>10
<1> QED BY <1>7, <1>8, <1>9, <1>11, OneMoreOnItsWay

\* A node that a reply passes is on top of the stack, and knows the next by its hash.
LEMMA PassReplyGoesHome ==
  ASSUME NeighboursDiffer, Types, OnTheirWay, Homes, NEW reply \in air, reply.kind = "reply",
         PassReply(reply)
  PROVE  OnTheirWay' /\ Homes'
<1>1. PICK id, n, stack, origin :
        id = reply.id /\ n = reply.to /\ stack = reply.stack /\ origin = messages[id].origin
  OBVIOUS
<1>2. PICK w : Walk(w, origin) /\ w[Len(w)] = n /\ HashesOf(stack, w)
  BY <1>1 DEF OnTheirWay, Homeward
<1>3. id \in 1..Len(messages) /\ n \in Nodes
  BY <1>1 DEF Types, FramesOK, CopyOK, ReplyOK
<1>4. PICK L \in Nat : L = Len(w) /\ L > 0 /\ w \in Seq(Nodes) /\ L = Len(stack)
  BY <1>2 DEF Walk, HashesOf
<1>5. stack # << >> /\ Last(stack) = Compressed[n]
  <2>1. stack[L] = Compressed[w[L]] /\ stack \in Seq(Hashes)
    BY <1>2, <1>4 DEF HashesOf
  <2>2. stack # << >>
    BY <1>4
  <2> QED BY <1>2, <1>4, <2>1, <2>2 DEF Last
<1>6. messages' = messages
  BY DEF PassReply
<1>7. /\ misrouted' = misrouted
      /\ IF L = 1
         THEN air' = air \ {reply} /\ answered' = answered \cup {<<n, id>>}
         ELSE /\ \E m \in Heard(n) \cap Nodes :
                   /\ Compressed[m] = stack[L - 1]
                   /\ air' = (air \ {reply}) \cup {Reply(id, n, m, Front(stack))}
              /\ answered' = answered
  BY <1>1, <1>4, <1>5 DEF PassReply
<1>8. CASE L = 1
  <2>1. n = origin
    BY <1>2, <1>4, <1>8 DEF Walk
  <2>2. OnTheirWay'
    BY <1>6, <1>7, <1>8 DEF OnTheirWay
  <2>3. ASSUME NEW home \in answered'
        PROVE  home[2] \in 1..Len(messages) /\ home[1] = messages[home[2]].origin
    <3>1. CASE home \in answered
      BY <3>1 DEF Homes
    <3>2. CASE home = <<n, id>>
      BY <1>1, <1>3, <2>1, <3>2
    <3> QED BY <1>7, <1>8, <2>3, <3>1, <3>2
  <2> QED BY <1>6, <1>7, <2>2, <2>3 DEF Homes
<1>9. CASE L # 1
  <2>1. L > 1
    BY <1>4, <1>9
  <2>2. PICK m \in Heard(n) \cap Nodes :
          /\ Compressed[m] = stack[L - 1]
          /\ air' = (air \ {reply}) \cup {Reply(id, n, m, Front(stack))}
    BY <1>7, <1>9
  <2>3. PICK v, s, p : v = Front(w) /\ s = Front(stack) /\ p = w[L - 1]
    OBVIOUS
  <2>4. /\ Joined(n, p) /\ stack[L - 1] = Compressed[p]
        /\ Walk(v, origin) /\ v[Len(v)] = p /\ HashesOf(s, v)
    <3>1. Len(w) > 1 /\ Walk(w, origin) /\ HashesOf(stack, w)
      BY <1>2, <1>4, <2>1
    <3>2. /\ Joined(w[Len(w)], w[Len(w) - 1])
          /\ stack[Len(stack) - 1] = Compressed[w[Len(w) - 1]]
          /\ Walk(Front(w), origin) /\ Front(w)[Len(Front(w))] = w[Len(w) - 1]
          /\ HashesOf(Front(stack), Front(w))
      BY <3>1, WalkBack
    <3> QED BY <1>2, <1>4, <2>3, <3>2
  <2>5. p = m
    BY <1>3, <2>2, <2>4 DEF NeighboursDiffer, Joined
  <2>6. PICK f : f = Reply(id, n, m, s)
    OBVIOUS
  <2>7. f.kind = "reply" /\ f.id = id /\ f.to = m /\ f.stack = s
    BY <2>6 DEF Reply
  <2>8. Homeward(f, messages)
    BY <1>1, <2>4, <2>5, <2>7 DEF Homeward
  <2>9. air' \subseteq air \cup {f}
    BY <2>2, <2>3, <2>6
  <2>10. OnTheirWay'
    BY <1>6, <2>7, <2>8, <2>9, OneMoreOnItsWay
  <2>11. Homes'
    BY <1>6, <1>7, <1>9 DEF Homes
  <2> QED BY <2>10, <2>11
<1> QED BY <1>8, <1>9

LEMMA WalksStep ==
  ASSUME NeighboursDiffer, Types, OnTheirWay, Homes, [Next]_vars
  PROVE  OnTheirWay' /\ Homes'
<1>1. ASSUME NEW id, Grows(id), answered' = answered, misrouted' = misrouted PROVE Homes'
  <2>1. ASSUME NEW home \in answered
        PROVE  home[2] \in 1..Len(messages') /\ home[1] = messages'[home[2]].origin
    <3>1. PICK i \in 1..Len(messages) : i = home[2] /\ home[1] = messages[i].origin
      BY DEF Homes
    <3>2. messages'[i] = messages[i] /\ i \in 1..Len(messages')
      <4>1. Len(messages) \in Nat /\ Len(messages') \in Nat /\ Len(messages) <= Len(messages')
        BY <1>1 DEF Grows, Types
      <4> QED BY <1>1, <4>1 DEF Grows
    <3> QED BY <3>1, <3>2
  <2> QED BY <1>1, <2>1 DEF Homes
<1>2. ASSUME NEW req \in Requests, Originate(req) PROVE OnTheirWay' /\ Homes'
  <2>1. PICK id, copy :
          /\ Carries(req.origin, id, req, copy) /\ Grows(id) /\ id = Len(messages) + 1
          /\ Forward(req.origin, id, req, copy, air) /\ messages' = Append(messages, req)
          /\ copy.route = << >> /\ copy.ttl = DefaultTtl
    BY <1>2, OriginateIsForward
  <2>2. \E hops, sender : Forwards(req.origin, id, req, copy, air, hops, sender)
    BY <2>1, ForwardFacts DEF Carries
  <2>3. PICK n \in Nodes : n = req.origin
    BY <2>1 DEF Carries
  <2>4. PICK hops, sender : Forwards(n, id, req, copy, air, hops, sender)
    BY <2>2, <2>3
  <2>5. messages'[id].origin = n
    <3>1. PICK ms \in Seq(Requests) : ms = messages
      BY DEF Types
    <3>2. Append(ms, req)[Len(ms) + 1] = req
      OBVIOUS
    <3> QED BY <2>1, <2>3, <3>1, <3>2
  <2>6. ASSUME copy.ttl > 1 PROVE Extended(n, copy.route, copy.ttl, n)
    <3>0. PICK route : route = copy.route
      OBVIOUS
    <3>1. PICK ttl \in Nat : route = copy.route /\ ttl = copy.ttl /\ ttl > 1
      BY <2>1, <2>6, <3>0, MeshAssumption
    <3>2. route = << >> /\ ttl <= DefaultTtl
      BY <2>1, <3>1, MeshAssumption
    <3>3. Extended(n, route, ttl, n)
      BY <3>1, <3>2, ExtendedWalk DEF Extended
    <3> QED BY <3>1, <3>3
  <2>7. air \in SUBSET air
    OBVIOUS
  <2>8. OnTheirWay'
    BY <2>1, <2>4, <2>5, <2>6, <2>7, ForwardKeepsWalks
  <2>9. answered' = answered /\ misrouted' = misrouted
    BY <1>2 DEF Originate
  <2> QED BY <1>1, <2>1, <2>8, <2>9
<1>3. ASSUME NEW copy \in air, copy.kind = "copy", Relay(copy) PROVE OnTheirWay' /\ Homes'
  <2>1. PICK rest \in SUBSET air :
          /\ Carries(copy.to, copy.id, messages[copy.id], copy) /\ Grows(copy.id)
          /\ Forward(copy.to, copy.id, messages[copy.id], copy, rest)
          /\ UNCHANGED <<messages, answered, misrouted>>
    BY <1>3, RelayIsForward
  <2>2. PICK n \in Nodes, id \in Nat, req \in Requests :
          n = copy.to /\ id = copy.id /\ req = messages[copy.id]
    BY <2>1 DEF Carries, Grows
  <2>3. Carries(n, id, req, copy) /\ Forward(n, id, req, copy, rest) /\ Grows(id)
    BY <2>1, <2>2
  <2>4. PICK hops, sender : Forwards(n, id, req, copy, rest, hops, sender)
    BY <2>3, ForwardFacts DEF Carries
  <2>5. PICK origin : origin = messages[id].origin
    OBVIOUS
  <2>6. ASSUME copy.ttl > 1 PROVE Extended(n, copy.route, copy.ttl, origin)
    <3>0. PICK route : route = copy.route
      OBVIOUS
    <3>1. PICK ttl \in Nat : route = copy.route /\ ttl = copy.ttl /\ ttl > 1
      BY <2>3, <2>6, <3>0 DEF Carries
    <3>2. Walk(route, origin) /\ Joined(route[Len(route)], n) /\ Len(route) + ttl <= DefaultTtl
      BY <1>3, <2>2, <2>5, <3>1 DEF OnTheirWay, Outward
    <3>3. Extended(n, route, ttl, origin)
      BY <3>1, <3>2, ExtendedWalk DEF Extended
    <3> QED BY <3>1, <3>3
  <2>7. messages'[id].origin = origin
    BY <2>1, <2>5
  <2>8. OnTheirWay'
    BY <2>3, <2>4, <2>6, <2>7, ForwardKeepsWalks
  <2> QED BY <1>1, <2>1, <2>3, <2>8
<1>4. ASSUME NEW copy \in air, copy.kind = "copy", Answer(copy) PROVE OnTheirWay' /\ Homes'
  BY <1>4, AnswerGoesHome DEF Answer, Homes
<1>5. ASSUME NEW reply \in air, reply.kind = "reply", PassReply(reply)
      PROVE  OnTheirWay' /\ Homes'
  BY <1>5, PassReplyGoesHome
<1>6. ASSUME UNCHANGED <<messages, air, answered, misrouted>> PROVE OnTheirWay' /\ Homes'
  BY <1>6 DEF OnTheirWay, Homes
<1>7. ASSUME NEW n, NEW m, Hear(n, m) PROVE OnTheirWay' /\ Homes'
  BY <1>6, <1>7 DEF Hear
<1>8. ASSUME NEW n, NEW lesson, NEW dest, NEW m, Teach(n, lesson, dest, m)
      PROVE  OnTheirWay' /\ Homes'
  BY <1>6, <1>8 DEF Teach
<1>9. ASSUME NEW n, Decay(n) PROVE OnTheirWay' /\ Homes'
  BY <1>6, <1>9 DEF Decay
<1>10. CASE Tick
  BY <1>6, <1>10 DEF Tick
<1>11. CASE UNCHANGED vars
  BY <1>6, <1>11 DEF vars
<1> QED BY <1>2, <1>3, <1>4, <1>5, <1>7, <1>8, <1>9, <1>10, <1>11 DEF Next

\* Where no node has two neighbours with the same compressed hash, every reply comes back
\* to the node that asked, over whatever walk the copy it answers took, and no node on the
\* way is at a loss: with the default ttl the stack of a copy is never full.
THEOREM RepliesFindHome == NeighboursDiffer => (Spec => []RepliesComeHome)
<1> SUFFICES ASSUME NeighboursDiffer PROVE Spec => []RepliesComeHome
  OBVIOUS
<1>1. Init => Types
  BY TypesInit
<1>2. Types /\ [Next]_vars => Types'
  BY TypesStep
<1>3. Init => OnTheirWay /\ Homes
  BY DEF Init, OnTheirWay, Homes
<1>4. Types /\ OnTheirWay /\ Homes /\ [Next]_vars => OnTheirWay' /\ Homes'
  BY WalksStep
<1>5. Homes => RepliesComeHome
  BY DEF Homes, RepliesComeHome
<1> QED BY <1>1, <1>2, <1>3, <1>4, <1>5, PTL DEF Spec

-----------------------------------------------------------------------------
(* What a copy can cost. *)

LEMMA ProductsGrow ==
  ASSUME NEW a \in Nat, NEW b \in Nat, NEW c \in Nat, NEW d \in Nat, a <= b, c <= d
  PROVE  a * c <= b * d /\ a * c \in Nat /\ b * d \in Nat
<1>1. PICK x \in Nat : b = a + x
  <2>1. b - a \in Nat /\ b = a + (b - a)
    OBVIOUS
  <2> QED BY <2>1
<1>2. PICK y \in Nat : d = c + y
  <2>1. d - c \in Nat /\ d = c + (d - c)
    OBVIOUS
  <2> QED BY <2>1
<1>3. (a + x) * (c + y) = (a * c) + (a * y) + (x * c) + (x * y)
  OBVIOUS
<1>4. a * c \in Nat /\ a * y \in Nat /\ x * c \in Nat /\ x * y \in Nat
  OBVIOUS
<1>5. PICK p \in Nat, q \in Nat, r \in Nat, s \in Nat :
        p = a * c /\ q = a * y /\ r = x * c /\ s = x * y
  BY <1>4
<1>6. b * d = p + q + r + s
  BY <1>1, <1>2, <1>3, <1>5
<1> QED BY <1>5, <1>6

\* A larger budget goes to no fewer neighbours, and leaves them no less.
LEMMA BudgetsGrow ==
  ASSUME NEW j \in 0..FloodK, NEW k \in 0..FloodK, j <= k
  PROVE  Fanout(j) <= Fanout(k) /\ ForwardedK(j) <= ForwardedK(k)
<1>1. PICK n \in Nat, f \in Nat : n = NeighbourSlots /\ f = FloodK /\ n > 0 /\ f > 1
  BY TableAssumption
<1>2. j \div 2 <= k \div 2 /\ j \div 2 <= j
  OBVIOUS
<1>3. Fanout(j) <= Fanout(k)
  BY <1>1 DEF Fanout, Least, Most
<1>4. ForwardedK(j) <= ForwardedK(k)
  <2>1. CASE k = f
    BY <1>1, <1>2, <2>1 DEF ForwardedK
  <2>2. CASE k # f
    <3>1. j # f /\ j < f
      BY <1>1, <2>2
    <3> QED BY <1>1, <1>2, <2>2, <3>1 DEF ForwardedK
  <2> QED BY <2>1, <2>2
<1> QED BY <1>3, <1>4

LEMMA CongestShrinks ==
  ASSUME NEW k \in 0..FloodK, NEW congested, NEW mgmt
  PROVE  Congest(k, congested, mgmt) \in 0..FloodK /\ Congest(k, congested, mgmt) <= k
<1>1. PICK f \in Nat : f = FloodK
  BY TableAssumption
<1>2. k \div 2 <= k /\ k \div 2 \in Nat
  OBVIOUS
<1>3. k # 0 => Most(1, k \div 2) <= k /\ Most(1, k \div 2) \in Nat
  BY <1>1, <1>2 DEF Most
<1>4. Congest(k, congested, mgmt) <= k /\ Congest(k, congested, mgmt) \in Nat
  BY <1>1, <1>3 DEF Congest
<1> QED BY <1>1, <1>4

\* The costs of a ttl, from those of the ttl below it.
Rows == [0..FloodK -> Nat]
Row(ttl, below) ==
  [k \in 0..FloodK |->
     IF ttl <= 1 THEN 0
     ELSE IF k = FloodK THEN NeighbourSlots * (1 + below[k])
     ELSE Least(NeighbourSlots, Most(1, k)) * (1 + below[k \div 2])]

LEMMA CopiesSteps ==
  /\ Copies[0] = [k \in 0..FloodK |-> 0]
  /\ \A ttl \in 1..DefaultTtl : Copies[ttl] = Row(ttl, Copies[ttl - 1])
<1> DEFINE n == DefaultTtl
           IsRun(f, m) == f = [i \in 0..m |-> Row(i, f[i - 1])]
           S == {m \in 0..n : \E f : IsRun(f, m)}
           Zero == [k \in 0..FloodK |-> 0]
<1>0. n \in Nat
  BY MeshAssumption
<1>1. \A below : Row(0, below) = Zero
  BY DEF Row
<1> HIDE DEF Zero
<1>2. 0 \in S
  <2> DEFINE f == [i \in 0..0 |-> Zero]
  <2>1. f = [i \in 0..0 |-> Row(i, f[i - 1])]
    <3>1. \A i \in 0..0 : Row(i, f[i - 1]) = Zero
      <4>1. \A i \in 0..0 : i = 0
        OBVIOUS
      <4> HIDE DEF f
      <4> QED BY <1>1, <4>1
    <3>2. \A i \in 0..0 : f[i] = Zero
      OBVIOUS
    <3>3. f = [i \in 0..0 |-> f[i]]
      OBVIOUS
    <3> HIDE DEF f
    <3> QED BY <3>1, <3>2, <3>3
  <2>2. 0 \in 0..n
    BY <1>0
  <2> HIDE DEF f, n
  <2> QED BY <2>1, <2>2
<1> HIDE DEF n
<1>3. ASSUME NEW m \in 0..(n - 1), m \in S PROVE m + 1 \in S
  <2>1. PICK f : IsRun(f, m)
    BY <1>3
  <2>2. \A i \in 0..m : f[i] = Row(i, f[i - 1])
    BY <2>1
  <2> DEFINE g == [i \in 0..(m + 1) |-> IF i = m + 1 THEN Row(m + 1, f[m]) ELSE f[i]]
  <2>3. \A i \in 0..(m + 1) : g[i] = Row(i, g[i - 1])
    <3> TAKE i \in 0..(m + 1)
    <3>1. CASE i = m + 1
      <4>1. m \in 0..(m + 1) /\ m # m + 1 /\ i - 1 = m
        BY <1>0, <3>1
      <4>2. g[m] = f[m] /\ g[i] = Row(m + 1, f[m])
        BY <3>1, <4>1
      <4> QED BY <3>1, <4>1, <4>2
    <3>2. CASE i = 0
      <4>1. g[i] = f[0] /\ 0 \in 0..m
        BY <1>0, <3>2
      <4>2. f[0] = Row(0, f[0 - 1])
        BY <2>2, <4>1
      <4> HIDE DEF g
      <4> QED BY <1>1, <3>2, <4>1, <4>2
    <3>3. CASE i \in 1..m
      <4>1. /\ i # m + 1 /\ i \in 0..m /\ i - 1 \in 0..(m + 1) /\ i - 1 # m + 1
        BY <1>0, <3>3
      <4>2. g[i] = f[i] /\ g[i - 1] = f[i - 1]
        BY <4>1
      <4> HIDE DEF g
      <4> QED BY <4>1, <4>2, <2>2
    <3> QED BY <1>0, <3>1, <3>2, <3>3
  <2>4. IsRun(g, m + 1)
    <3>1. g = [i \in 0..(m + 1) |-> g[i]]
      OBVIOUS
    <3> HIDE DEF g
    <3> QED BY <2>3, <3>1
  <2>5. m + 1 \in 0..n
    BY <1>0, <1>3
  <2> HIDE DEF g, IsRun
  <2> QED BY <2>4, <2>5
<1>4. n \in S
  <2> HIDE DEF S
  <2>1. 0..n \subseteq S
    BY <1>0, <1>2, <1>3, IndexInduction
  <2> QED BY <1>0, <2>1
<1>5. IsRun(Copies, n)
  <2>1. \E f : IsRun(f, n)
    BY <1>4
  <2>2. Copies = CHOOSE f : IsRun(f, n)
    BY DEF Copies, Row, n
  <2> HIDE DEF IsRun
  <2> QED BY <2>1, <2>2
<1>6. \A i \in 0..n : Copies[i] = Row(i, Copies[i - 1])
  BY <1>5
<1>7. Copies[0] = Zero
  BY <1>0, <1>1, <1>6
<1>8. \A i \in 1..n : i \in 0..n
  BY <1>0
<1> QED BY <1>6, <1>7, <1>8 DEF n, Zero

LEMMA RowFacts ==
  ASSUME NEW ttl \in Nat, NEW below \in Rows,
         \A j, k \in 0..FloodK : j <= k => below[j] <= below[k]
  PROVE  /\ Row(ttl, below) \in Rows
         /\ \A j, k \in 0..FloodK : j <= k => Row(ttl, below)[j] <= Row(ttl, below)[k]
         /\ ttl > 1 => \A k \in 0..FloodK :
                         Row(ttl, below)[k] = Fanout(k) * (1 + below[ForwardedK(k)])
<1>0. PICK row : row = Row(ttl, below)
  OBVIOUS
<1>1. row = [k \in 0..FloodK |-> row[k]]
  BY <1>0 DEF Row
<1>2. CASE ttl <= 1
  <2>1. \A k \in 0..FloodK : row[k] = 0
    BY <1>0, <1>2 DEF Row
  <2> QED BY <1>0, <1>1, <1>2, <2>1 DEF Rows
<1>3. CASE ttl > 1
  <2>1. ASSUME NEW k \in 0..FloodK
        PROVE  /\ row[k] = Fanout(k) * (1 + below[ForwardedK(k)])
               /\ Fanout(k) \in Nat /\ below[ForwardedK(k)] \in Nat /\ row[k] \in Nat
    <3>1. row[k] = Fanout(k) * (1 + below[ForwardedK(k)])
      BY <1>0, <1>3 DEF Row, Fanout, ForwardedK
    <3>2. PICK a \in Nat, b \in Nat : a = Fanout(k) /\ b = below[ForwardedK(k)]
      BY FanoutFacts DEF Rows
    <3>3. a * (1 + b) \in Nat
      OBVIOUS
    <3> QED BY <3>1, <3>2, <3>3
  <2>2. ASSUME NEW j \in 0..FloodK, NEW k \in 0..FloodK, j <= k PROVE row[j] <= row[k]
    <3>1. PICK a \in Nat, b \in Nat, c \in Nat, d \in Nat :
            /\ a = Fanout(j) /\ b = Fanout(k)
            /\ c = below[ForwardedK(j)] /\ d = below[ForwardedK(k)]
      BY <2>1
    <3>2. a <= b
      BY <2>2, <3>1, BudgetsGrow
    <3>3. c <= d
      <4>1. PICK p \in 0..FloodK, q \in 0..FloodK : p = ForwardedK(j) /\ q = ForwardedK(k)
        BY FanoutFacts
      <4>2. p <= q
        BY <2>2, <4>1, BudgetsGrow
      <4> QED BY <3>1, <4>1, <4>2
    <3>4. PICK e \in Nat, f \in Nat : e = 1 + c /\ f = 1 + d /\ e <= f
      BY <3>3
    <3>5. a * e <= b * f
      BY <3>2, <3>4, ProductsGrow
    <3>6. row[j] = a * e /\ row[k] = b * f
      BY <2>1, <3>1, <3>4
    <3> QED BY <3>5, <3>6
  <2>3. row \in Rows
    BY <1>1, <2>1 DEF Rows
  <2> QED BY <1>0, <2>1, <2>2, <2>3
<1> QED BY <1>2, <1>3

LEMMA CopiesFacts ==
  /\ \A ttl \in 0..DefaultTtl :
       /\ Copies[ttl] \in Rows
       /\ \A j, k \in 0..FloodK : j <= k => Copies[ttl][j] <= Copies[ttl][k]
  /\ \A ttl \in 2..DefaultTtl : \A k \in 0..FloodK :
       Copies[ttl][k] = Fanout(k) * (1 + Copies[ttl - 1][ForwardedK(k)])
<1> DEFINE n == DefaultTtl
           Grow(row) == row \in Rows /\ \A j, k \in 0..FloodK : j <= k => row[j] <= row[k]
           S == {t \in 0..n : Grow(Copies[t])}
<1>0. n \in Nat
  BY MeshAssumption
<1>1. 0 \in S
  <2>1. PICK row : row = Copies[0]
    OBVIOUS
  <2>2. row = [k \in 0..FloodK |-> 0]
    BY <2>1, CopiesSteps
  <2>3. Grow(row)
    BY <2>2 DEF Rows
  <2>4. 0 \in 0..n
    BY <1>0
  <2> QED BY <2>1, <2>3, <2>4
<1>2. ASSUME NEW t \in 0..(n - 1), t \in S PROVE t + 1 \in S
  <2>1. PICK below : below = Copies[t] /\ Grow(below)
    BY <1>2
  <2>2. t + 1 \in 1..n /\ (t + 1) - 1 = t /\ t + 1 \in Nat /\ t + 1 \in 0..n
    BY <1>0
  <2>3. Copies[t + 1] = Row(t + 1, below)
    BY <2>1, <2>2, CopiesSteps
  <2>4. PICK u \in Nat : u = t + 1
    BY <2>2
  <2>5. Grow(Row(u, below))
    BY <2>1, RowFacts
  <2> QED BY <2>2, <2>3, <2>4, <2>5
<1>3. 0..n \subseteq S
  <2> HIDE DEF S
  <2> QED BY <1>0, <1>1, <1>2, IndexInduction
<1>4. ASSUME NEW ttl \in 2..n, NEW k \in 0..FloodK
      PROVE  Copies[ttl][k] = Fanout(k) * (1 + Copies[ttl - 1][ForwardedK(k)])
  <2>1. ttl \in 1..n /\ ttl - 1 \in 0..n /\ ttl \in Nat /\ ttl > 1
    BY <1>0
  <2>2. PICK t \in Nat : t = ttl /\ t > 1
    BY <2>1
  <2>3. PICK below : below = Copies[ttl - 1] /\ Grow(below)
    BY <1>3, <2>1
  <2>4. Row(t, below)[k] = Fanout(k) * (1 + below[ForwardedK(k)])
    BY <2>2, <2>3, RowFacts
  <2>5. Copies[ttl] = Row(t, below)
    BY <2>1, <2>2, <2>3, CopiesSteps
  <2> QED BY <2>3, <2>4, <2>5
<1> QED BY <1>3, <1>4

\* What the copies that a node puts on the air cost is within what its own copy costs.
LEMMA PlanCosts ==
  ASSUME NEW ttl \in 2..DefaultTtl, NEW k \in 0..FloodK, NEW b \in 0..FloodK, b <= k,
         NEW h \in 0..Fanout(b)
  PROVE  /\ Copies[ttl - 1][ForwardedK(b)] \in Nat /\ Copies[ttl][k] \in Nat
         /\ Copies[ttl - 1][ForwardedK(b)] <= Copies[ttl][k]
         /\ h + (h * Copies[ttl - 1][ForwardedK(b)]) <= Copies[ttl][k]
<1>1. ttl \in 0..DefaultTtl /\ ttl - 1 \in 0..DefaultTtl
  BY MeshAssumption
<1>2. PICK F \in Nat, G \in Nat : F = Fanout(b) /\ G = Fanout(k) /\ F <= G /\ F > 0 /\ h \in 0..F
  BY FanoutFacts, BudgetsGrow
<1>3. PICK p \in 0..FloodK, q \in 0..FloodK : p = ForwardedK(b) /\ q = ForwardedK(k) /\ p <= q
  BY FanoutFacts, BudgetsGrow
<1>4. PICK w \in Nat, v \in Nat, c \in Nat :
        /\ w = Copies[ttl - 1][p] /\ v = Copies[ttl - 1][q] /\ c = Copies[ttl][k] /\ w <= v
  <2>1. PICK row, below : row = Copies[ttl] /\ below = Copies[ttl - 1]
    OBVIOUS
  <2>2. row \in Rows /\ below \in Rows /\ below[p] <= below[q]
    BY <1>1, <1>3, <2>1, CopiesFacts
  <2>3. row[k] \in Nat /\ below[p] \in Nat /\ below[q] \in Nat
    BY <2>2 DEF Rows
  <2> QED BY <2>1, <2>2, <2>3
<1>5. c = G * (1 + v)
  BY <1>2, <1>3, <1>4, CopiesFacts
<1>6. PICK e \in Nat, g \in Nat, a \in Nat : e = 1 + w /\ g = 1 + v /\ e <= g /\ a = h
  <2>1. 1 + w \in Nat /\ 1 + v \in Nat /\ 1 + w <= 1 + v
    BY <1>4
  <2>2. h \in Nat
    BY <1>2
  <2> QED BY <2>1, <2>2
<1>7. a * e <= G * g /\ 1 * e <= G * g
  <2>1. a <= G /\ 1 <= G
    BY <1>2, <1>6
  <2> QED BY <1>6, <2>1, ProductsGrow
<1>8. a * e = a + (a * w)
  BY <1>6
<1> QED BY <1>3, <1>4, <1>5, <1>6, <1>7, <1>8

-----------------------------------------------------------------------------
(* Tokens: one for each copy that the copies of a message on the air can come to. *)

Cost(f) == Copies[f.ttl][f.k]
Tokens(A, id, C) == {p \in A \X (1..C) : /\ p[1].kind = "copy" /\ p[1].id = id
                                         /\ p[2] <= Cost(p[1])}

LEMMA TokensFewer ==
  ASSUME NEW A, IsFiniteSet(A), NEW id, NEW C \in Nat, NEW B,
         \A f \in B : f.kind = "copy" /\ f.id = id => f \in A
  PROVE  /\ Cardinality(Tokens(A, id, C)) \in Nat /\ IsFiniteSet(Tokens(A, id, C))
         /\ Cardinality(Tokens(B, id, C)) \in Nat /\ IsFiniteSet(Tokens(B, id, C))
         /\ Cardinality(Tokens(B, id, C)) <= Cardinality(Tokens(A, id, C))
<1>1. IsFiniteSet(1..C)
  BY FS_Interval
<1>2. IsFiniteSet(A \X (1..C))
  BY <1>1, FS_Product
<1>3. Tokens(A, id, C) \in SUBSET (A \X (1..C))
  BY DEF Tokens
<1>4. IsFiniteSet(Tokens(A, id, C))
  BY <1>2, <1>3, FS_Subset
<1>5. Tokens(B, id, C) \in SUBSET Tokens(A, id, C)
  BY DEF Tokens
<1>6. IsFiniteSet(Tokens(B, id, C)) /\ Cardinality(Tokens(B, id, C)) <= Cardinality(Tokens(A, id, C))
  BY <1>4, <1>5, FS_Subset
<1> QED BY <1>4, <1>6, FS_CardinalityType

\* A copy that is taken off the air takes its tokens with it.
LEMMA TokensOfOne ==
  ASSUME NEW A, IsFiniteSet(A), NEW id, NEW C \in Nat, NEW f \in A, f.kind = "copy", f.id = id,
         NEW c \in 0..C, c = Cost(f)
  PROVE  Cardinality(Tokens(A, id, C)) = Cardinality(Tokens(A \ {f}, id, C)) + c
<1>1. PICK R, P : R = Tokens(A \ {f}, id, C) /\ P = {f} \X (1..c)
  OBVIOUS
<1>2. Tokens(A, id, C) = R \cup P
  BY <1>1 DEF Tokens
<1>3. R \cap P = {}
  BY <1>1 DEF Tokens
<1>4. IsFiniteSet(R)
  <2>1. \A g \in A \ {f} : g.kind = "copy" /\ g.id = id => g \in A
    OBVIOUS
  <2> QED BY <1>1, <2>1, TokensFewer
<1>5. IsFiniteSet(P) /\ Cardinality(P) = c
  <2>1. PICK one, row : one = {f} /\ row = 1..c
    OBVIOUS
  <2>2. IsFiniteSet(one) /\ Cardinality(one) = 1
    BY <2>1, FS_Singleton
  <2>3. IsFiniteSet(row) /\ Cardinality(row) = c
    BY <2>1, FS_Interval
  <2>4. IsFiniteSet(one \X row) /\ Cardinality(one \X row) = Cardinality(one) * Cardinality(row)
    BY <2>2, <2>3, FS_Product
  <2>5. 1 * c = c
    OBVIOUS
  <2> QED BY <1>1, <2>1, <2>2, <2>3, <2>4, <2>5
<1>6. Cardinality({}) = 0
  BY FS_EmptySet
<1>7. Cardinality(R \cup P) = Cardinality(R) + Cardinality(P) - Cardinality(R \cap P)
  BY <1>4, <1>5, FS_Union
<1>8. Cardinality(R) \in Nat
  BY <1>4, FS_CardinalityType
<1>9. Cardinality(R \cup P) = Cardinality(R) + c
  <2>1. PICK i \in Nat : i = Cardinality(R \cap P) /\ i = 0
    BY <1>3, <1>6
  <2>2. PICK r \in Nat, q \in Nat : r = Cardinality(R) /\ q = Cardinality(P) /\ q = c
    BY <1>5, <1>8
  <2>3. Cardinality(R \cup P) = r + q - i
    BY <1>7, <2>1, <2>2
  <2>4. r + q - i = r + q
    BY <2>1
  <2> QED BY <2>2, <2>3, <2>4
<1> QED BY <1>1, <1>2, <1>9

\* Frames that are put on the air bring their own.
LEMMA TokensAdded ==
  ASSUME NEW A, IsFiniteSet(A), NEW id, NEW C \in Nat, NEW G, IsFiniteSet(G), NEW w \in Nat,
         \A g \in G : Cost(g) \in 0..w
  PROVE  /\ Cardinality(Tokens(A \cup G, id, C)) \in Nat
         /\ Cardinality(Tokens(A \cup G, id, C))
              <= Cardinality(Tokens(A, id, C)) + (Cardinality(G) * w)
<1>1. PICK R, P, T : R = Tokens(A, id, C) /\ P = G \X (1..w) /\ T = Tokens(A \cup G, id, C)
  OBVIOUS
<1>2. T \in SUBSET (R \cup P)
  <2> SUFFICES ASSUME NEW p \in T PROVE p \in R \cup P
    OBVIOUS
  <2>1. /\ p \in (A \cup G) \X (1..C) /\ p[1].kind = "copy" /\ p[1].id = id
        /\ p[2] <= Cost(p[1])
    BY <1>1 DEF Tokens
  <2>2. PICK f \in A \cup G, j \in 1..C : p = <<f, j>> /\ f = p[1] /\ j = p[2]
    BY <2>1
  <2>3. CASE f \in A
    BY <1>1, <2>1, <2>2, <2>3 DEF Tokens
  <2>4. CASE f \in G
    <3>1. PICK c \in 0..w : c = Cost(f) /\ j <= c
      BY <2>1, <2>2, <2>4
    <3>2. j <= w
      BY <3>1
    <3> QED BY <1>1, <2>2, <2>4, <3>2
  <2> QED BY <2>3, <2>4
<1>3. IsFiniteSet(R) /\ Cardinality(R) \in Nat
  <2>1. \A f \in A : f.kind = "copy" /\ f.id = id => f \in A
    OBVIOUS
  <2> QED BY <1>1, <2>1, TokensFewer
<1>4. PICK n \in Nat : n = Cardinality(G)
  BY FS_CardinalityType
<1>5. IsFiniteSet(P) /\ Cardinality(P) = n * w
  <2>1. IsFiniteSet(1..w) /\ Cardinality(1..w) = w
    BY FS_Interval
  <2> QED BY <1>1, <1>4, <2>1, FS_Product
<1>6. IsFiniteSet(R \cup P)
      /\ Cardinality(R \cup P) = Cardinality(R) + Cardinality(P) - Cardinality(R \cap P)
  BY <1>3, <1>5, FS_Union
<1>7. Cardinality(R \cap P) \in Nat
  <2>1. R \cap P \in SUBSET R
    OBVIOUS
  <2> QED BY <1>3, <2>1, FS_Subset, FS_CardinalityType
<1>8. IsFiniteSet(T) /\ Cardinality(T) <= Cardinality(R \cup P) /\ Cardinality(T) \in Nat
  BY <1>2, <1>6, FS_Subset, FS_CardinalityType
<1>9. n * w \in Nat
  OBVIOUS
<1>10. PICK r \in Nat, q \in Nat, i \in Nat, t \in Nat :
         r = Cardinality(R) /\ q = n * w /\ i = Cardinality(R \cap P) /\ t = Cardinality(T)
  BY <1>3, <1>7, <1>8, <1>9
<1>11. t <= r + q
  BY <1>5, <1>6, <1>8, <1>10
<1> QED BY <1>1, <1>4, <1>8, <1>10, <1>11

Bound(id, ms) == Copies[DefaultTtl][ms[id].k]
Within(f, ms) ==
  f.kind = "copy" => f.ttl \in 0..DefaultTtl /\ f.k \in 0..FloodK /\ Cost(f) \in 0..Bound(f.id, ms)
Once(ms) == \A i, j \in 1..Len(ms) : ms[i] = ms[j] => i = j

\* What a message has cost, and what it can still cost.
Spent ==
  /\ IsFiniteSet(air) /\ Once(messages)
  /\ \A id \in 1..Cardinality(Requests) : id > Len(messages) => log.sent[id] = 0
  /\ \A id \in 1..Len(messages) :
       log.sent[id] + Cardinality(Tokens(air, id, Bound(id, messages)))
         <= (1 + log.repeats) * Bound(id, messages)
  /\ \A f \in air : Within(f, messages)

\* Each request is made once.
LEMMA RequestsAreEnough ==
  ASSUME NEW ms \in Seq(Requests), Once(ms)
  PROVE  Len(ms) \in 0..Cardinality(Requests)
<1>1. PICK L \in Nat : L = Len(ms) /\ ms \in [1..L -> Requests]
  OBVIOUS
<1>2. ms \in Injection(1..L, Requests)
  <2>1. \A i, j \in 1..L : ms[i] = ms[j] => i = j
    BY <1>1 DEF Once
  <2> QED BY <1>1, <2>1 DEF Injection, IsInjective
<1>3. IsFiniteSet(1..L) /\ Cardinality(1..L) = L
  BY FS_Interval
<1>4. Cardinality(1..L) <= Cardinality(Requests) /\ Cardinality(Requests) \in Nat
  BY <1>2, MeshAssumption, FS_Injection, FS_CardinalityType
<1> QED BY <1>1, <1>3, <1>4

LEMMA SentIsCounted ==
  ASSUME Types, Spent, NEW i \in 1..Len(messages)
  PROVE  i \in 1..Cardinality(Requests) /\ log.sent[i] \in Nat
<1>1. PICK ms \in Seq(Requests) : ms = messages /\ Once(ms)
  BY DEF Types, Spent
<1>2. PICK R \in Nat, L \in Nat : R = Cardinality(Requests) /\ L = Len(ms)
  <2>1. Cardinality(Requests) \in Nat
    BY MeshAssumption, FS_CardinalityType
  <2>2. Len(ms) \in Nat
    OBVIOUS
  <2> QED BY <2>1, <2>2
<1>3. L \in 0..R
  BY <1>1, <1>2, RequestsAreEnough
<1>4. i \in 1..R
  BY <1>1, <1>2, <1>3
<1> QED BY <1>2, <1>4 DEF Types, LogOK

LEMMA BoundFacts ==
  ASSUME NEW ms \in Seq(Requests), NEW id \in 1..Len(ms)
  PROVE  Bound(id, ms) \in Nat /\ ms[id].k \in 0..FloodK
<1>1. PICK k \in 0..FloodK : k = ms[id].k
  BY MeshAssumption
<1>2. DefaultTtl \in 0..DefaultTtl
  BY MeshAssumption
<1>3. PICK row \in Rows : row = Copies[DefaultTtl]
  BY <1>2, CopiesFacts
<1>4. row[k] \in Nat
  BY DEF Rows
<1> QED BY <1>1, <1>3, <1>4 DEF Bound

\* The frames that a node puts on the air.
Cast(hops, id, s, t, k) == {Copy(id, m, s, t, k) : m \in hops \cap Nodes}

LEMMA NewFrames ==
  ASSUME NEW hops, IsFiniteSet(hops), NEW id, NEW s, NEW t, NEW k,
         NEW G, G = Cast(hops, id, s, t, k)
  PROVE  /\ IsFiniteSet(G) /\ Cardinality(G) \in Nat /\ Cardinality(G) <= Cardinality(hops)
         /\ \A g \in G : g.kind = "copy" /\ g.id = id /\ g.ttl = t /\ g.k = k
<1>1. PICK H : H = hops \cap Nodes /\ G = {Copy(id, m, s, t, k) : m \in H}
  BY DEF Cast
<1>2. PICK f : f = [m \in H |-> Copy(id, m, s, t, k)]
  OBVIOUS
<1>3. f \in Surjection(H, G)
  BY <1>1, <1>2 DEF Surjection
<1>4. H \in SUBSET hops
  BY <1>1
<1>5. IsFiniteSet(H) /\ Cardinality(H) <= Cardinality(hops)
  BY <1>4, FS_Subset
<1>6. IsFiniteSet(G) /\ Cardinality(G) <= Cardinality(H)
  BY <1>3, <1>5, FS_Surjection
<1>7. Cardinality(G) \in Nat /\ Cardinality(H) \in Nat /\ Cardinality(hops) \in Nat
  BY <1>5, <1>6, FS_CardinalityType
<1>8. \A g \in G : g.kind = "copy" /\ g.id = id /\ g.ttl = t /\ g.k = k
  BY <1>1 DEF Copy
<1> QED BY <1>1, <1>5, <1>6, <1>7, <1>8

\* What a forward sends, e, and what its copies can come to, y, are paid by its own copy.
LEMMA Paid ==
  ASSUME NEW u \in Nat, NEW e \in Nat, NEW x \in Nat, NEW f \in Nat, NEW y \in Nat,
         NEW z \in Nat, NEW d \in Nat, NEW v \in Nat,
         x <= f + y, y <= z, e + z <= d, u + f + d <= v
  PROVE  (u + e) + x <= v
<1>1. e + x <= f + d
  OBVIOUS
<1> QED BY <1>1


LEMMA ForwardSpends ==
  ASSUME Types, Spent, NEW n, NEW id, NEW req, NEW copy, Carries(n, id, req, copy), Grows(id),
         NEW rest \in SUBSET air, NEW hops, NEW sender,
         Forwards(n, id, req, copy, rest, hops, sender),
         copy.ttl \in 0..DefaultTtl, Once(messages'),
         \A i \in 1..Len(messages') : i = id \/ i \in 1..Len(messages),
         NEW C \in Nat, C = Bound(id, messages'),
         NEW c \in 0..C, c = Copies[copy.ttl][copy.k],
         log.sent[id] + Cardinality(Tokens(rest, id, C)) + c <= (1 + log'.repeats) * C
  PROVE  Spent'
<1>0. /\ messages \in Seq(Requests) /\ messages' \in Seq(Requests)
      /\ Len(messages) \in Nat /\ Len(messages') \in Nat /\ Len(messages) <= Len(messages')
      /\ id \in 1..Len(messages') /\ \A i \in 1..Len(messages) : messages'[i] = messages[i]
  BY DEF Types, Grows
<1>1. PICK b \in 0..FloodK : b = Budget(n, req, copy) /\ b <= copy.k
  BY CongestShrinks DEF Carries, Budget
<1>2. PICK h \in 0..Fanout(b) : h = Cardinality(hops) /\ h \in Nat
  BY <1>1, FanoutFacts DEF Forwards
<1>3. PICK w \in 0..c : /\ h + (h * w) <= c
                        /\ hops = {} \/ (/\ copy.ttl \in 2..DefaultTtl
                                         /\ w = Copies[copy.ttl - 1][ForwardedK(b)])
  <2>1. CASE hops = {}
    <3>1. h = 0
      BY <1>2, <2>1, FS_EmptySet
    <3>2. 0 \in 0..c /\ 0 + (0 * 0) <= c
      OBVIOUS
    <3> QED BY <2>1, <3>1, <3>2
  <2>2. CASE hops # {}
    <3>1. PICK ttl \in 2..DefaultTtl, k \in 0..FloodK : ttl = copy.ttl /\ k = copy.k
      BY <2>2, MeshAssumption DEF Forwards, Carries
    <3>2. /\ Copies[ttl - 1][ForwardedK(b)] \in Nat /\ Copies[ttl][k] \in Nat
          /\ Copies[ttl - 1][ForwardedK(b)] <= Copies[ttl][k]
          /\ h + (h * Copies[ttl - 1][ForwardedK(b)]) <= Copies[ttl][k]
      BY <1>1, <3>1, PlanCosts
    <3>3. PICK w \in Nat : w = Copies[ttl - 1][ForwardedK(b)]
      BY <3>2
    <3>4. w \in 0..c /\ h + (h * w) <= c
      BY <3>1, <3>2, <3>3
    <3> QED BY <3>1, <3>3, <3>4
  <2> QED BY <2>1, <2>2
<1>4. PICK s, t, k : /\ s = Stacked(copy.route, n) /\ t = copy.ttl - 1 /\ k = ForwardedK(b)
  OBVIOUS
<1>5. PICK G : G = Cast(hops, id, s, t, k)
  OBVIOUS
<1>6. air' = rest \cup G /\ IsFiniteSet(hops)
  BY <1>1, <1>4, <1>5 DEF Forwards, Cast
<1>7. /\ IsFiniteSet(G) /\ Cardinality(G) \in 0..h
      /\ \A g \in G : g.kind = "copy" /\ g.id = id /\ g.ttl = t /\ g.k = k
  <2>1. /\ IsFiniteSet(G) /\ Cardinality(G) \in Nat /\ Cardinality(G) <= Cardinality(hops)
        /\ \A g \in G : g.kind = "copy" /\ g.id = id /\ g.ttl = t /\ g.k = k
    BY <1>5, <1>6, NewFrames
  <2>2. PICK i \in Nat, j \in Nat : i = Cardinality(G) /\ j = h /\ i <= j
    BY <1>2, <2>1
  <2> QED BY <2>1, <2>2
<1>8. ASSUME NEW g \in G PROVE Cost(g) = w /\ t \in 0..DefaultTtl /\ k \in 0..FloodK
  <2>1. hops # {}
    BY <1>5 DEF Cast
  <2>2. copy.ttl \in 2..DefaultTtl /\ w = Copies[t][k]
    BY <1>3, <1>4, <2>1
  <2>3. t \in 0..DefaultTtl
    <3>1. PICK l \in 2..DefaultTtl : l = copy.ttl
      BY <2>2
    <3>2. DefaultTtl \in Nat
      BY MeshAssumption
    <3>3. l - 1 \in 0..DefaultTtl
      BY <3>2
    <3> QED BY <1>4, <3>1, <3>3
  <2>4. k \in 0..FloodK
    BY <1>4, FanoutFacts
  <2> QED BY <1>7, <2>2, <2>3, <2>4 DEF Cost
<1>9. IsFiniteSet(rest) /\ IsFiniteSet(air')
  BY <1>6, <1>7, FS_Subset, FS_Union DEF Spent
<1>10. /\ log.sent \in [1..Cardinality(Requests) -> Nat]
       /\ log'.sent = [log.sent EXCEPT ![id] = log.sent[id] + h]
       /\ log.repeats \in Nat /\ log'.repeats \in Nat /\ log.repeats <= log'.repeats
  <2>1. log'.repeats \in {log.repeats, log.repeats + 1}
    BY DEF Forwards
  <2>2. log.repeats \in Nat /\ log.sent \in [1..Cardinality(Requests) -> Nat]
    BY DEF Types, LogOK
  <2>3. log'.sent = [log.sent EXCEPT ![id] = log.sent[id] + h]
    BY <1>2 DEF Forwards
  <2>4. log'.repeats \in Nat /\ log.repeats <= log'.repeats
    BY <2>1, <2>2
  <2> QED BY <2>2, <2>3, <2>4
<1>11. id \in 1..Cardinality(Requests)
  <2>1. Len(messages') \in 0..Cardinality(Requests)
    BY <1>0, RequestsAreEnough
  <2>2. Cardinality(Requests) \in Nat
    BY MeshAssumption, FS_CardinalityType
  <2> QED BY <1>0, <2>1, <2>2
<1>12. log'.sent[id] + Cardinality(Tokens(air', id, C)) <= (1 + log'.repeats) * C
  <2>1. \A g \in G : Cost(g) \in 0..w
    BY <1>3, <1>8
  <2>2. PICK a, r : a = air' /\ r = Cardinality(Tokens(rest, id, C))
    OBVIOUS
  <2>3. /\ Cardinality(Tokens(a, id, C)) \in Nat
        /\ Cardinality(Tokens(a, id, C)) <= r + (Cardinality(G) * w)
    <3>1. w \in Nat /\ IsFiniteSet(rest) /\ IsFiniteSet(G)
      BY <1>7, <1>9
    <3>2. /\ Cardinality(Tokens(rest \cup G, id, C)) \in Nat
          /\ Cardinality(Tokens(rest \cup G, id, C))
               <= Cardinality(Tokens(rest, id, C)) + (Cardinality(G) * w)
      BY <2>1, <3>1, TokensAdded
    <3> QED BY <1>6, <2>2, <3>2
  <2>4. Cardinality(G) * w <= h * w /\ h * w \in Nat
    <3>1. PICK g \in Nat, a1 \in Nat, w1 \in Nat :
            g = Cardinality(G) /\ a1 = h /\ w1 = w /\ g <= a1
      BY <1>2, <1>3, <1>7
    <3>2. g * w1 <= a1 * w1 /\ a1 * w1 \in Nat
      BY <3>1, ProductsGrow
    <3> QED BY <3>1, <3>2
  <2>5. r \in Nat
    <3>1. \A f \in rest : f.kind = "copy" /\ f.id = id => f \in rest
      OBVIOUS
    <3> QED BY <1>9, <2>2, <3>1, TokensFewer
  <2>6. PICK x \in Nat, y \in Nat, z \in Nat, u \in Nat, v \in Nat :
          /\ x = Cardinality(Tokens(a, id, C)) /\ y = Cardinality(G) * w /\ z = h * w
          /\ u = log.sent[id] /\ v = (1 + log'.repeats) * C
    <3>1. Cardinality(G) * w \in Nat
      BY <1>3, <1>7
    <3>2. (1 + log'.repeats) * C \in Nat
      BY <1>10
    <3>3. log.sent[id] \in Nat
      BY <1>10, <1>11
    <3> QED BY <2>3, <2>4, <3>1, <3>2, <3>3
  <2>7. x <= r + y /\ y <= z /\ h + z <= c /\ u + r + c <= v
    BY <1>3, <2>2, <2>3, <2>4, <2>6
  <2>8. (u + h) + x <= v
    <3>1. PICK e \in Nat, d \in Nat, f \in Nat : e = h /\ d = c /\ f = r
      BY <1>2, <2>5
    <3>2. x <= f + y /\ y <= z /\ e + z <= d /\ u + f + d <= v
      BY <2>7, <3>1
    <3>3. (u + e) + x <= v
      BY <3>2, Paid
    <3> QED BY <3>1, <3>3
  <2>9. log'.sent[id] = u + h
    BY <1>10, <1>11, <2>6
  <2> QED BY <2>2, <2>6, <2>8, <2>9
<1>13. ASSUME NEW i \in 1..Len(messages'), i # id
       PROVE  log'.sent[i] + Cardinality(Tokens(air', i, Bound(i, messages')))
                <= (1 + log'.repeats) * Bound(i, messages')
  <2>1. i \in 1..Len(messages)
    BY <1>13
  <2>2. PICK B \in Nat : B = Bound(i, messages) /\ B = Bound(i, messages')
    <3>1. Bound(i, messages) \in Nat
      BY <1>0, <2>1, BoundFacts
    <3>2. Bound(i, messages') = Bound(i, messages)
      BY <1>0, <2>1 DEF Bound
    <3> QED BY <3>1, <3>2
  <2>3. PICK a : a = air'
    OBVIOUS
  <2>4. \A f \in a : f.kind = "copy" /\ f.id = i => f \in air
    BY <1>6, <1>7, <1>13, <2>3
  <2>5. /\ Cardinality(Tokens(air, i, B)) \in Nat /\ Cardinality(Tokens(a, i, B)) \in Nat
        /\ Cardinality(Tokens(a, i, B)) <= Cardinality(Tokens(air, i, B))
    BY <2>4, TokensFewer DEF Spent
  <2>6. log.sent[i] + Cardinality(Tokens(air, i, B)) <= (1 + log.repeats) * B
    BY <2>1, <2>2 DEF Spent
  <2>7. PICK r \in Nat, q \in Nat : r = 1 + log.repeats /\ q = 1 + log'.repeats /\ r <= q
    BY <1>10
  <2>8. r * B <= q * B /\ r * B \in Nat /\ q * B \in Nat
    <3>1. B <= B /\ r <= q
      BY <2>7
    <3> QED BY <3>1, ProductsGrow
  <2>9. i \in 1..Cardinality(Requests) /\ log.sent[i] \in Nat
    BY <2>1, SentIsCounted
  <2>10. log'.sent[i] = log.sent[i]
    BY <1>10, <1>13, <2>9
  <2>11. PICK x \in Nat, y \in Nat, u \in Nat, p \in Nat, m \in Nat :
           /\ x = Cardinality(Tokens(a, i, B)) /\ y = Cardinality(Tokens(air, i, B))
           /\ u = log.sent[i] /\ p = r * B /\ m = q * B
    BY <2>5, <2>8, <2>9
  <2>12. u + x <= m
    <3>1. x <= y /\ u + y <= p /\ p <= m
      BY <2>5, <2>6, <2>7, <2>8, <2>11
    <3> QED BY <3>1
  <2> QED BY <2>2, <2>3, <2>7, <2>10, <2>11, <2>12
<1>14. ASSUME NEW i \in 1..Cardinality(Requests), i > Len(messages') PROVE log'.sent[i] = 0
  <2>1. i # id /\ i > Len(messages)
    BY <1>0, <1>14
  <2>2. log.sent[i] = 0
    BY <2>1 DEF Spent
  <2> QED BY <1>10, <2>1, <2>2
<1>15. ASSUME NEW f \in air' PROVE Within(f, messages')
  <2>1. CASE f \in rest
    <3>1. Within(f, messages) /\ f.id \in 1..Len(messages)
      BY <2>1 DEF Spent, Types, FramesOK, CopyOK, ReplyOK
    <3>2. Bound(f.id, messages') = Bound(f.id, messages)
      BY <1>0, <3>1 DEF Bound
    <3> QED BY <3>1, <3>2 DEF Within
  <2>2. CASE f \in G
    <3>1. Cost(f) = w /\ t \in 0..DefaultTtl /\ k \in 0..FloodK
      BY <1>8, <2>2
    <3>2. f.kind = "copy" /\ f.id = id /\ f.ttl = t /\ f.k = k
      BY <1>7, <2>2
    <3>3. w \in 0..C
      BY <1>3
    <3> QED BY <3>1, <3>2, <3>3 DEF Within
  <2> QED BY <1>6, <2>1, <2>2
<1>16. \A i \in 1..Len(messages') :
         log'.sent[i] + Cardinality(Tokens(air', i, Bound(i, messages')))
           <= (1 + log'.repeats) * Bound(i, messages')
  BY <1>12, <1>13
<1> QED BY <1>9, <1>14, <1>15, <1>16 DEF Spent

\* Steps that put no copy on the air.
LEMMA OtherStepsSpendNothing ==
  ASSUME Types, Spent, messages' = messages, IsFiniteSet(air'),
         \A f \in air' : f.kind = "copy" => f \in air,
         log'.sent = log.sent, log'.repeats \in {log.repeats, log.repeats + 1}
  PROVE  Spent'
<1>0. messages \in Seq(Requests) /\ log.repeats \in Nat
      /\ log.sent \in [1..Cardinality(Requests) -> Nat]
  BY DEF Types, LogOK
<1>1. \A f \in air' : Within(f, messages)
  BY DEF Spent, Within
<1>2. ASSUME NEW i \in 1..Len(messages)
      PROVE  log.sent[i] + Cardinality(Tokens(air', i, Bound(i, messages)))
               <= (1 + log'.repeats) * Bound(i, messages)
  <2>1. PICK B \in Nat : B = Bound(i, messages)
    BY <1>0, BoundFacts
  <2>2. PICK a : a = air'
    OBVIOUS
  <2>3. \A f \in a : f.kind = "copy" /\ f.id = i => f \in air
    BY <2>2
  <2>4. /\ Cardinality(Tokens(air, i, B)) \in Nat /\ Cardinality(Tokens(a, i, B)) \in Nat
        /\ Cardinality(Tokens(a, i, B)) <= Cardinality(Tokens(air, i, B))
    BY <2>3, TokensFewer DEF Spent
  <2>5. log.sent[i] + Cardinality(Tokens(air, i, B)) <= (1 + log.repeats) * B
    BY <2>1 DEF Spent
  <2>6. PICK r \in Nat, q \in Nat : r = 1 + log.repeats /\ q = 1 + log'.repeats /\ r <= q
    BY <1>0
  <2>7. r * B <= q * B /\ r * B \in Nat /\ q * B \in Nat
    <3>1. B <= B /\ r <= q
      BY <2>6
    <3> QED BY <3>1, ProductsGrow
  <2>8. log.sent[i] \in Nat
    BY SentIsCounted
  <2>9. PICK x \in Nat, y \in Nat, u \in Nat, p \in Nat, m \in Nat :
          /\ x = Cardinality(Tokens(a, i, B)) /\ y = Cardinality(Tokens(air, i, B))
          /\ u = log.sent[i] /\ p = r * B /\ m = q * B
    BY <2>4, <2>7, <2>8
  <2>10. u + x <= m
    <3>1. x <= y /\ u + y <= p /\ p <= m
      BY <2>4, <2>5, <2>6, <2>7, <2>9
    <3> QED BY <3>1
  <2> QED BY <2>1, <2>2, <2>6, <2>9, <2>10
<1> QED BY <1>1, <1>2 DEF Spent

LEMMA OriginateSpends ==
  ASSUME Types, Spent, NEW req \in Requests, Originate(req)
  PROVE  Spent'
<1>1. PICK id, copy :
        /\ Carries(req.origin, id, req, copy) /\ Grows(id) /\ id = Len(messages) + 1
        /\ Forward(req.origin, id, req, copy, air) /\ messages' = Append(messages, req)
        /\ copy.ttl = DefaultTtl /\ copy.k = req.k
  BY OriginateIsForward
<1>2. \E hops, sender : Forwards(req.origin, id, req, copy, air, hops, sender)
  BY <1>1, ForwardFacts DEF Carries
<1>3. PICK n : n = req.origin
  OBVIOUS
<1>4. PICK hops, sender : Forwards(n, id, req, copy, air, hops, sender)
  BY <1>2, <1>3
<1>5. PICK ms \in Seq(Requests), L \in Nat : ms = messages /\ L = Len(ms)
  BY DEF Types
<1>6. /\ messages' = Append(ms, req) /\ Append(ms, req) \in Seq(Requests)
      /\ Len(Append(ms, req)) = L + 1 /\ Append(ms, req)[L + 1] = req
      /\ \A i \in 1..L : Append(ms, req)[i] = ms[i]
  BY <1>1, <1>5
<1>7. Once(messages')
  <2>1. \A i \in 1..L : ms[i] # req
    BY <1>5 DEF Originate
  <2>2. \A i, j \in 1..L : ms[i] = ms[j] => i = j
    BY <1>5 DEF Spent, Once
  <2>3. \A i \in 1..(L + 1) : i = L + 1 \/ i \in 1..L
    OBVIOUS
  <2>4. PICK ns : ns = Append(ms, req)
    OBVIOUS
  <2>5. \A i, j \in 1..(L + 1) : ns[i] = ns[j] => i = j
    BY <1>6, <2>1, <2>2, <2>3, <2>4
  <2> QED BY <1>6, <2>4, <2>5 DEF Once
<1>8. \A i \in 1..Len(messages') : i = id \/ i \in 1..Len(messages)
  BY <1>1, <1>5, <1>6
<1>9. id \in 1..Len(messages') /\ messages' \in Seq(Requests)
  BY <1>1 DEF Grows
<1>10. PICK C \in Nat : C = Bound(id, messages')
  <2>1. PICK ns : ns = messages'
    OBVIOUS
  <2>2. Bound(id, ns) \in Nat
    BY <1>9, <2>1, BoundFacts
  <2> QED BY <2>1, <2>2
<1>11. C = Copies[copy.ttl][copy.k]
  <2>1. messages'[id] = req
    BY <1>1, <1>5, <1>6
  <2> QED BY <1>1, <1>10, <2>1 DEF Bound
<1>12. PICK c \in 0..C : c = C
  OBVIOUS
<1>13. log.sent[id] = 0
  <2>0. PICK ns \in Seq(Requests) : ns = messages'
    BY <1>9
  <2>1. PICK R \in Nat, M \in Nat : R = Cardinality(Requests) /\ M = Len(ns)
    <3>1. Len(ns) \in Nat
      OBVIOUS
    <3>2. Cardinality(Requests) \in Nat
      BY MeshAssumption, FS_CardinalityType
    <3> QED BY <3>1, <3>2
  <2>2. M \in 0..R
    BY <1>7, <2>0, <2>1, RequestsAreEnough
  <2>3. id \in 1..R /\ id > Len(messages)
    BY <1>1, <1>5, <1>9, <2>0, <2>1, <2>2
  <2> QED BY <2>1, <2>3 DEF Spent
<1>14. Cardinality(Tokens(air, id, C)) = 0
  <2>1. \A f \in air : f.id # id
    <3>1. \A f \in air : f.id \in 1..Len(messages)
      BY DEF Types, FramesOK, CopyOK, ReplyOK
    <3>2. id \notin 1..Len(messages)
      BY <1>1, <1>5
    <3> QED BY <3>1, <3>2
  <2>2. Tokens(air, id, C) = {}
    BY <2>1 DEF Tokens
  <2> QED BY <2>2, FS_EmptySet
<1>15. log.sent[id] + Cardinality(Tokens(air, id, C)) + c <= (1 + log'.repeats) * C
  <2>1. PICK r \in Nat : r = 1 + log'.repeats /\ 1 <= r
    <3>1. log'.repeats \in {log.repeats, log.repeats + 1} /\ log.repeats \in Nat
      BY <1>4 DEF Forwards, Types, LogOK
    <3> QED BY <3>1
  <2>2. 1 * C <= r * C
    <3>1. C <= C
      OBVIOUS
    <3> QED BY <2>1, <3>1, ProductsGrow
  <2>3. PICK v : v = r * C /\ 1 * C <= v
    BY <2>2
  <2>4. 1 * C = C
    OBVIOUS
  <2>5. 0 + 0 + c <= v
    BY <1>12, <2>3, <2>4
  <2> QED BY <1>13, <1>14, <2>1, <2>3, <2>5
<1>16. copy.ttl \in 0..DefaultTtl /\ air \in SUBSET air /\ Carries(n, id, req, copy)
  BY <1>1, <1>3, MeshAssumption
<1>17. c = Copies[copy.ttl][copy.k]
  BY <1>11, <1>12
<1> QED BY <1>1, <1>4, <1>7, <1>8, <1>10, <1>15, <1>16, <1>17, ForwardSpends

LEMMA RelaySpends ==
  ASSUME Types, Spent, NEW copy \in air, copy.kind = "copy", Relay(copy)
  PROVE  Spent'
<1>1. PICK rest \in SUBSET air :
        /\ Carries(copy.to, copy.id, messages[copy.id], copy) /\ Grows(copy.id)
        /\ rest \in {air, air \ {copy}}
        /\ Forward(copy.to, copy.id, messages[copy.id], copy, rest)
        /\ messages' = messages
  BY RelayIsForward
<1>2. PICK n \in Nodes, id \in Nat, req \in Requests :
        n = copy.to /\ id = copy.id /\ req = messages[copy.id]
  BY <1>1 DEF Carries, Grows
<1>3. Carries(n, id, req, copy) /\ Forward(n, id, req, copy, rest) /\ Grows(id)
  BY <1>1, <1>2
<1>4. PICK hops, sender : Forwards(n, id, req, copy, rest, hops, sender)
  BY <1>3, ForwardFacts DEF Carries
<1>5. /\ messages \in Seq(Requests) /\ id \in 1..Len(messages)
      /\ log.repeats \in Nat /\ log.sent \in [1..Cardinality(Requests) -> Nat]
  BY <1>1, <1>3 DEF Types, LogOK, Grows
<1>6. PICK C \in Nat : C = Bound(id, messages)
  BY <1>5, BoundFacts
<1>7. PICK c \in 0..C : c = Cost(copy) /\ copy.ttl \in 0..DefaultTtl
  BY <1>2, <1>6 DEF Spent, Within
<1>8. log.sent[id] \in Nat
  BY <1>5, SentIsCounted
<1>9. \A B \in SUBSET air : Cardinality(Tokens(B, id, C)) \in Nat
  <2>1. ASSUME NEW B \in SUBSET air PROVE Cardinality(Tokens(B, id, C)) \in Nat
    <3>1. \A f \in B : f.kind = "copy" /\ f.id = id => f \in air
      OBVIOUS
    <3> QED BY <3>1, TokensFewer DEF Spent
  <2> QED BY <2>1
<1>10. PICK u \in Nat, t \in Nat, p \in Nat :
         /\ u = log.sent[id] /\ t = Cardinality(Tokens(air, id, C))
         /\ p = Cardinality(Tokens(rest, id, C))
  BY <1>8, <1>9
<1>11. u + t <= (1 + log.repeats) * C
  BY <1>5, <1>6, <1>10 DEF Spent
<1>12. PICK r \in Nat : r = log.repeats
  BY <1>5
<1>13. (1 + r) * C \in Nat /\ (1 + (r + 1)) * C = ((1 + r) * C) + C
  OBVIOUS
<1>14. PICK v \in Nat : v = (1 + r) * C /\ u + t <= v
  BY <1>11, <1>12, <1>13
<1>15. log.sent[id] + Cardinality(Tokens(rest, id, C)) + c <= (1 + log'.repeats) * C
  <2>1. CASE rest = air
    <3>1. log'.repeats = r + 1
      BY <1>4, <1>12, <2>1 DEF Forwards
    <3>2. p = t
      BY <1>10, <2>1
    <3>3. u + p + c <= v + C
      BY <1>14, <3>2
    <3> QED BY <1>10, <1>13, <1>14, <3>1, <3>3
  <2>2. CASE rest = air \ {copy}
    <3>1. log'.repeats = r
      BY <1>4, <1>12, <2>2 DEF Forwards
    <3>2. t = p + c
      <4>1. IsFiniteSet(air) /\ copy.id = id
        BY <1>2 DEF Spent
      <4>2. Cardinality(Tokens(air, id, C)) = Cardinality(Tokens(air \ {copy}, id, C)) + c
        BY <1>7, <4>1, TokensOfOne
      <4> QED BY <1>10, <2>2, <4>2
    <3>3. u + p + c <= v
      BY <1>14, <3>2
    <3> QED BY <1>10, <1>14, <3>1, <3>3
  <2> QED BY <1>1, <2>1, <2>2
<1>16. /\ Once(messages') /\ \A i \in 1..Len(messages') : i = id \/ i \in 1..Len(messages)
       /\ C = Bound(id, messages') /\ c = Copies[copy.ttl][copy.k]
  BY <1>1, <1>6, <1>7 DEF Spent, Cost
<1> QED BY <1>3, <1>4, <1>7, <1>15, <1>16, ForwardSpends

LEMMA SpentStep ==
  ASSUME Types, Spent, [Next]_vars
  PROVE  Spent'
<1>0. /\ IsFiniteSet(air) /\ log.repeats \in Nat
      /\ log = [taken |-> log.taken, sent |-> log.sent, repeats |-> log.repeats,
                learned |-> log.learned]
  BY DEF Spent, Types, LogOK
<1>1. ASSUME NEW f, f.kind = "reply", air' \subseteq air \cup {f}, messages' = messages,
             log'.sent = log.sent, log'.repeats \in {log.repeats, log.repeats + 1}
      PROVE  Spent'
  <2>1. IsFiniteSet(air \cup {f})
    BY <1>0, FS_AddElement
  <2>2. PICK a : a = air'
    OBVIOUS
  <2>3. IsFiniteSet(a)
    BY <1>1, <2>1, <2>2, FS_Subset
  <2>4. \A g \in a : g.kind = "copy" => g \in air
    BY <1>1, <2>2
  <2> QED BY <1>1, <2>2, <2>3, <2>4, OtherStepsSpendNothing
<1>2. ASSUME NEW copy \in air, Answer(copy) PROVE Spent'
  <2>0. PICK f : f = Reply(copy.id, copy.to, Last(copy.route),
                          [i \in DOMAIN copy.route |-> Compressed[copy.route[i]]])
    OBVIOUS
  <2>1. PICK rest \in {air, air \ {copy}} :
          /\ f = Reply(copy.id, copy.to, Last(copy.route),
                       [i \in DOMAIN copy.route |-> Compressed[copy.route[i]]])
          /\ air' = rest \cup {f}
          /\ log' = [log EXCEPT !.repeats = IF copy \in rest THEN @ + 1 ELSE @]
    BY <1>2, <2>0 DEF Answer
  <2>2. f.kind = "reply" /\ air' \subseteq air \cup {f}
    BY <2>1 DEF Reply
  <2>3. log'.sent = log.sent /\ log'.repeats \in {log.repeats, log.repeats + 1}
    BY <1>0, <2>1
  <2> QED BY <1>1, <1>2, <2>2, <2>3 DEF Answer
<1>3. ASSUME UNCHANGED <<messages, air>>, log' = log \/ Lesson PROVE Spent'
  <2>1. log'.sent = log.sent /\ log'.repeats = log.repeats
    BY <1>0, <1>3 DEF Lesson
  <2> QED BY <1>0, <1>3, <2>1, OtherStepsSpendNothing
<1>4. ASSUME NEW reply \in air, reply.kind = "reply", PassReply(reply) PROVE Spent'
  <2>1. messages' = messages /\ log' = log
    BY <1>4 DEF PassReply
  <2>2. CASE air' = air \ {reply}
    BY <1>1, <1>4, <2>1, <2>2
  <2>3. ASSUME NEW m,
               air' = (air \ {reply}) \cup {Reply(reply.id, reply.to, m, Front(reply.stack))}
        PROVE  Spent'
    <3>1. PICK f : f = Reply(reply.id, reply.to, m, Front(reply.stack))
      OBVIOUS
    <3>2. f.kind = "reply" /\ air' \subseteq air \cup {f}
      BY <2>3, <3>1 DEF Reply
    <3> QED BY <1>1, <2>1, <3>2
  <2> QED BY <1>4, <2>2, <2>3 DEF PassReply
<1>5. ASSUME NEW n, NEW m, Hear(n, m) PROVE Spent'
  BY <1>3, <1>5 DEF Hear
<1>6. ASSUME NEW n, NEW lesson, NEW dest, NEW m, Teach(n, lesson, dest, m) PROVE Spent'
  BY <1>3, <1>6 DEF Teach
<1>7. ASSUME NEW n, Decay(n) PROVE Spent'
  BY <1>3, <1>7 DEF Decay
<1>8. CASE Tick
  BY <1>3, <1>8 DEF Tick
<1>9. CASE UNCHANGED vars
  BY <1>3, <1>9 DEF vars
<1> QED BY OriginateSpends, RelaySpends, <1>2, <1>4, <1>5, <1>6, <1>7, <1>8, <1>9 DEF Next

LEMMA SpentGivesBound ==
  ASSUME Types, Spent
  PROVE  SprayIsBounded
<1> SUFFICES ASSUME NEW id \in DOMAIN messages
             PROVE  log.sent[id] <= (1 + log.repeats) * Copies[DefaultTtl][messages[id].k]
  BY DEF SprayIsBounded
<1>1. messages \in Seq(Requests) /\ id \in 1..Len(messages)
  BY DEF Types
<1>2. PICK C \in Nat : C = Bound(id, messages)
  BY <1>1, BoundFacts
<1>3. log.sent[id] + Cardinality(Tokens(air, id, C)) <= (1 + log.repeats) * C
  BY <1>1, <1>2 DEF Spent
<1>4. Cardinality(Tokens(air, id, C)) \in Nat
  <2>1. \A f \in air : f.kind = "copy" /\ f.id = id => f \in air
    OBVIOUS
  <2> QED BY <2>1, TokensFewer DEF Spent
<1>5. log.sent[id] \in Nat /\ (1 + log.repeats) * C \in Nat
  <2>1. log.sent[id] \in Nat
    BY <1>1, SentIsCounted
  <2>2. PICK r \in Nat : r = log.repeats
    BY DEF Types, LogOK
  <2>3. (1 + r) * C \in Nat
    OBVIOUS
  <2> QED BY <2>1, <2>2, <2>3
<1>6. PICK u \in Nat, t \in Nat, v \in Nat :
        /\ u = log.sent[id] /\ t = Cardinality(Tokens(air, id, C)) /\ v = (1 + log.repeats) * C
  BY <1>4, <1>5
<1>7. u <= v
  BY <1>3, <1>6
<1> QED BY <1>2, <1>6, <1>7 DEF Bound

\* However the nodes relay a message to each other, it costs the mesh no more copies than
\* its ttl and its spray budget allow, and as many again for each frame the radio repeats.
THEOREM TheSprayIsBounded == Spec => []SprayIsBounded
<1>1. Init => Types
  BY TypesInit
<1>2. Types /\ [Next]_vars => Types'
  BY TypesStep
<1>3. Init => Spent
  <2> SUFFICES ASSUME Init PROVE Spent
    OBVIOUS
  <2>1. air = {} /\ messages = << >> /\ log = InitLog
    BY DEF Init
  <2>2. IsFiniteSet(air)
    BY <2>1, FS_EmptySet
  <2>3. \A id \in 1..Cardinality(Requests) : log.sent[id] = 0
    BY <2>1 DEF InitLog
  <2>4. 1..Len(messages) = {}
    BY <2>1
  <2> QED BY <2>1, <2>2, <2>3, <2>4 DEF Spent, Once
<1>4. Types /\ Spent /\ [Next]_vars => Spent'
  BY SpentStep
<1>5. Types /\ Spent => SprayIsBounded
  BY SpentGivesBound
<1> QED BY <1>1, <1>2, <1>3, <1>4, <1>5, PTL DEF Spec


-----------------------------------------------------------------------------
(* WireFrames: units and frames. *)

RouteEntries == Nat \X Nat
Halves == {"half"} \X Nat
RouteLengths == {"len"} \X (1..MaxRoute)
DataUnits == {"data"} \X Nat
\* What is under a MAC, and the units of MACs.
Covered == Seq({"to", "data"} \X Nat)
Macs == {"mac"} \X (1..4) \X Covered
Units == Halves \cup RouteLengths \cup DataUnits \cup Macs \cup {<<"zero">>}

\* The second unit of a tag, the last of a compact one.
Second(u) == u[1] = "mac" /\ u[2] = 2

FrameRecords ==
  [form : Forms, routed : BOOLEAN, signed : BOOLEAN, ttl : Nat, k : Nat, id : Nat,
   target : TargetsOf("compact") \cup TargetsOf("extended"), size : Nat, body : Seq(Units)]

\* The route field starts with its length, and what there is of it are halves of ids.
Shaped(f) ==
  f.routed /\ f.body # << >> =>
    /\ f.body[1] \in RouteLengths
    /\ \A i \in 2..Len(f.body) : i <= Start(f) => f.body[i] \in Halves

-----------------------------------------------------------------------------
(* The invariant. *)

WireTypes ==
  /\ original \in Origins /\ Admissible(original)
  /\ frame \in FrameRecords /\ Shaped(frame)
  /\ frame.target \in TargetsOf(frame.form)
  /\ frame.form = "compact" => frame.id < IdSpace
  /\ frame.k <= original.k /\ (original.k = Flood => frame.k = Flood)
  /\ holder \in HiveIds /\ relays \in Nat /\ frame.ttl + relays = original.ttl
  /\ narrowed \in BOOLEAN /\ cut \in Forms \cup {"no"}

\* What is under the tag of an originator, and its tag.
FirstBytes(o) ==
  IF o.form = "compact" THEN AuthenticatedCompact(o.target, o.payload)
  ELSE AuthenticatedExtended(o.target, o.payload)
FirstTag(o) == Mac(o.form, FirstBytes(o))

\* The target and the tag of what o sent, now that it is in this form and once was
\* compact or not.
TargetAt(o, form, compact) ==
  IF o.form = form /\ (form = "compact" \/ ~compact) THEN o.target
  ELSE IF form = "compact" THEN <<OneTarget(o.target)>>
  ELSE <<IF o.form = "compact" THEN o.target[1] ELSE OneTarget(o.target), 0>>
TagAt(o, form, compact) ==
  IF ~o.signed THEN << >>
  ELSE IF o.form = form /\ (form = "compact" \/ ~compact) THEN FirstTag(o)
  ELSE IF form = "compact" THEN Narrow(FirstTag(o))
  ELSE Widen(IF o.form = "compact" THEN FirstTag(o) ELSE Narrow(FirstTag(o)))

Carried ==
  cut = "no" =>
    /\ Decodes(frame) /\ Payload(frame) = original.payload
    /\ Tag(frame) = TagAt(original, frame.form, narrowed) /\ frame.signed = original.signed
    /\ frame.target = TargetAt(original, frame.form, narrowed)
    /\ frame.id % IdSpace = original.id % IdSpace
    /\ original.form = "extended" /\ ~narrowed => frame.form = "extended"
    /\ original.routed => /\ frame.routed /\ Len(Route(frame)) = 1 + relays
                          /\ High(Route(frame)[1]) = High(original.hive)
    /\ frame.form = "compact" =>
         \A i \in 1..Len(frame.body) : Second(frame.body[i]) => i = Len(frame.body)

\* A compact frame that lost its end has no tag any more; an extended one has no length
\* that fits.
Damaged ==
  /\ cut = "compact" =>
       /\ \A i \in 1..Len(frame.body) : ~Second(frame.body[i])
       /\ frame.form = "extended" => Decodes(frame)
  /\ cut = "extended" =>
       /\ frame.form = "extended"
       /\ (frame.routed /\ frame.body = << >>) \/ End(frame) - Start(frame) < frame.size

WireInv == WireTypes /\ Carried /\ Damaged

-----------------------------------------------------------------------------
(* Sequences end to end, and parts of a sequence. *)

LEMMA TwoParts ==
  ASSUME NEW S, NEW a \in Seq(S), NEW b \in Seq(S), NEW s, s = a \o b,
         NEW p \in Nat, NEW q \in Nat, p = Len(a), q = Len(b)
  PROVE  /\ s \in Seq(S) /\ Len(s) = p + q
         /\ \A i \in 1..p : s[i] = a[i]
         /\ \A i \in 1..q : s[p + i] = b[i]
<1>1. /\ s \in Seq(S) /\ Len(s) = p + q
      /\ \A i \in 1..(p + q) : s[i] = IF i <= p THEN a[i] ELSE b[i - p]
  BY ConcatProperties
<1>2. \A i \in 1..p : s[i] = a[i]
  <2> TAKE i \in 1..p
  <2>1. i \in 1..(p + q) /\ i <= p
    OBVIOUS
  <2> QED BY <1>1, <2>1
<1>3. \A i \in 1..q : s[p + i] = b[i]
  <2> TAKE i \in 1..q
  <2>1. p + i \in 1..(p + q) /\ ~(p + i <= p) /\ (p + i) - p = i
    OBVIOUS
  <2> QED BY <1>1, <2>1
<1> QED BY <1>1, <1>2, <1>3

\* What a subsequence has.
LEMMA Part ==
  ASSUME NEW S, NEW s \in Seq(S), NEW m \in Nat, m = Len(s),
         NEW p \in Nat, NEW q \in Nat, p <= q, q <= m, NEW z, z = SubSeq(s, p + 1, q)
  PROVE  /\ z \in Seq(S) /\ Len(z) = q - p
         /\ \A i \in 1..(q - p) : z[i] = s[p + i] /\ p + i \in 1..m
<1>1. \A i \in (p + 1)..q : s[i] \in S
  <2> TAKE i \in (p + 1)..q
  <2>1. i \in 1..m
    OBVIOUS
  <2> QED BY <2>1
<1>2. p + 1 \in Int /\ q \in Int
  OBVIOUS
<1>3. /\ z \in Seq(S) /\ Len(z) = IF p + 1 <= q THEN q - (p + 1) + 1 ELSE 0
      /\ \A i \in 1..(q - (p + 1) + 1) : z[i] = s[(p + 1) + i - 1]
  BY <1>1, <1>2, SubSeqProperties
<1>4. (IF p + 1 <= q THEN q - (p + 1) + 1 ELSE 0) = q - p
  OBVIOUS
<1>5. \A i \in 1..(q - p) : z[i] = s[p + i] /\ p + i \in 1..m
  <2> TAKE i \in 1..(q - p)
  <2>1. i \in 1..(q - (p + 1) + 1) /\ (p + 1) + i - 1 = p + i /\ p + i \in 1..m
    OBVIOUS
  <2> QED BY <1>3, <2>1
<1> QED BY <1>3, <1>4, <1>5

LEMMA Rest ==
  ASSUME NEW S, NEW s \in Seq(S), NEW m \in Nat, m = Len(s),
         NEW p \in Nat, p <= m, NEW z, z = SubSeq(s, p + 1, m)
  PROVE  /\ z \in Seq(S) /\ Len(z) = m - p
         /\ \A i \in 1..(m - p) : z[i] = s[p + i] /\ p + i \in 1..m
<1>1. PICK q \in Nat : q = m
  OBVIOUS
<1>2. p <= q /\ q <= m /\ z = SubSeq(s, p + 1, q)
  BY <1>1
<1>3. /\ z \in Seq(S) /\ Len(z) = q - p
      /\ \A i \in 1..(q - p) : z[i] = s[p + i] /\ p + i \in 1..m
  BY <1>2, Part
<1> QED BY <1>1, <1>3

LEMMA SameSequence ==
  ASSUME NEW S, NEW a \in Seq(S), NEW b \in Seq(S), NEW n \in Nat, n = Len(a), n = Len(b),
         \A i \in 1..n : a[i] = b[i]
  PROVE  a = b
  BY SeqEqual

\* The units of s from p + 1 to k are those of b.
FoundAt(s, b, p, q, k, n) ==
  /\ k = p + q /\ k <= n /\ n = Len(s) /\ q = Len(b)
  /\ \A i \in 1..q : s[p + i] = b[i]

LEMMA FoundPart ==
  ASSUME NEW S, NEW s \in Seq(S), NEW b \in Seq(S), NEW p \in Nat, NEW q \in Nat,
         NEW k \in Nat, NEW n \in Nat, FoundAt(s, b, p, q, k, n)
  PROVE  SubSeq(s, p + 1, k) = b
<1>0. /\ k = p + q /\ k <= n /\ n = Len(s) /\ q = Len(b)
      /\ \A i \in 1..q : s[p + i] = b[i]
  BY DEF FoundAt
<1>1. PICK z : z = SubSeq(s, p + 1, k)
  OBVIOUS
<1>2. p <= k /\ k - p = q
  BY <1>0
<1>3. /\ z \in Seq(S) /\ Len(z) = k - p
      /\ \A i \in 1..(k - p) : z[i] = s[p + i] /\ p + i \in 1..n
  BY <1>0, <1>1, <1>2, Part
<1>4. Len(z) = q /\ \A i \in 1..q : z[i] = s[p + i]
  BY <1>2, <1>3
<1>5. \A i \in 1..q : z[i] = b[i]
  BY <1>0, <1>4
<1> QED BY <1>0, <1>1, <1>3, <1>4, <1>5, SameSequence

InARow(s, a, b, c, p, q, r) ==
  /\ Len(s) = (p + q) + r
  /\ \A i \in 1..p : s[i] = a[i]
  /\ \A i \in 1..q : s[p + i] = b[i]
  /\ \A i \in 1..r : s[(p + q) + i] = c[i]
  /\ SubSeq(s, p + 1, p + q) = b /\ SubSeq(s, (p + q) + 1, (p + q) + r) = c

\* Three sequences in a row, and the last two of them found again.
LEMMA ThreeParts ==
  ASSUME NEW S, NEW a \in Seq(S), NEW b \in Seq(S), NEW c \in Seq(S), NEW s, s = a \o b \o c,
         NEW p \in Nat, NEW q \in Nat, NEW r \in Nat, p = Len(a), q = Len(b), r = Len(c)
  PROVE  s \in Seq(S) /\ InARow(s, a, b, c, p, q, r)
<1>1. PICK t \in Seq(S) : /\ t = a \o b /\ Len(t) = p + q
                          /\ \A i \in 1..p : t[i] = a[i]
                          /\ \A i \in 1..q : t[p + i] = b[i]
  <2>1. PICK t : t = a \o b
    OBVIOUS
  <2>2. /\ t \in Seq(S) /\ Len(t) = p + q /\ \A i \in 1..p : t[i] = a[i]
        /\ \A i \in 1..q : t[p + i] = b[i]
    BY <2>1, TwoParts
  <2> QED BY <2>1, <2>2
<1>2. PICK m \in Nat : m = p + q
  OBVIOUS
<1>3. s = t \o c /\ m = Len(t)
  BY <1>1, <1>2
<1>4. /\ s \in Seq(S) /\ Len(s) = m + r
      /\ \A i \in 1..m : s[i] = t[i]
      /\ \A i \in 1..r : s[m + i] = c[i]
  BY <1>3, TwoParts
<1>5. \A i \in 1..p : s[i] = a[i]
  <2> TAKE i \in 1..p
  <2>1. i \in 1..m
    BY <1>2
  <2> QED BY <1>1, <1>4, <2>1
<1>6. \A i \in 1..q : s[p + i] = b[i]
  <2> TAKE i \in 1..q
  <2>1. p + i \in 1..m
    BY <1>2
  <2> QED BY <1>1, <1>4, <2>1
<1>7. PICK k \in Nat : k = m + r
  OBVIOUS
<1>8. SubSeq(s, p + 1, m) = b
  <2>1. m = p + q /\ m <= k /\ k = Len(s)
    BY <1>2, <1>4, <1>7
  <2>2. FoundAt(s, b, p, q, m, k)
    BY <1>6, <2>1 DEF FoundAt
  <2> QED BY <1>4, <2>2, FoundPart
<1>9. SubSeq(s, m + 1, k) = c
  <2>1. k = Len(s) /\ k <= k
    BY <1>4, <1>7
  <2>2. FoundAt(s, c, m, r, k, k)
    BY <1>4, <1>7, <2>1 DEF FoundAt
  <2> QED BY <1>4, <2>2, FoundPart
<1> QED BY <1>2, <1>4, <1>5, <1>6, <1>7, <1>8, <1>9 DEF InARow

LEMMA InARowFacts ==
  ASSUME NEW S, NEW a \in Seq(S), NEW b \in Seq(S), NEW c \in Seq(S)
  PROVE  a \o b \o c \in Seq(S) /\ InARow(a \o b \o c, a, b, c, Len(a), Len(b), Len(c))
<1>1. PICK s \in {a \o b \o c}, p \in Nat, q \in Nat, r \in Nat :
        s = a \o b \o c /\ p = Len(a) /\ q = Len(b) /\ r = Len(c)
  OBVIOUS
<1>2. s \in Seq(S) /\ InARow(s, a, b, c, p, q, r)
  BY <1>1, ThreeParts
<1> QED BY <1>1, <1>2

-----------------------------------------------------------------------------
(* Units of the route field. *)

LEMMA FormFacts ==
  ASSUME NEW form \in Forms
  PROVE  /\ EntryLen[form] = IF form = "compact" THEN 1 ELSE 2
         /\ TagLen[form] = IF form = "compact" THEN 2 ELSE 4
         /\ form = "compact" \/ form = "extended"
  BY DEF EntryLen, TagLen, Forms

LEMMA UnitFacts ==
  /\ Halves \subseteq Units /\ RouteLengths \subseteq Units /\ DataUnits \subseteq Units
  /\ Macs \subseteq Units /\ <<"zero">> \in Units
  /\ \A u \in Halves \cup RouteLengths \cup DataUnits : ~Second(u)
  /\ ~Second(<<"zero">>)
<1>1. /\ Halves \subseteq Units /\ RouteLengths \subseteq Units /\ DataUnits \subseteq Units
      /\ Macs \subseteq Units /\ <<"zero">> \in Units
  BY DEF Units
<1>2. \A u \in Halves \cup RouteLengths \cup DataUnits : u[1] # "mac"
  BY DEF Halves, RouteLengths, DataUnits
<1>3. <<"zero">>[1] # "mac"
  OBVIOUS
<1> QED BY <1>1, <1>2, <1>3 DEF Second

RouteField(u, form, route, n, w) ==
  /\ Len(u) = IF n = 0 THEN 0 ELSE 1 + n * w
  /\ n # 0 => u[1] = <<"len", n>> /\ u[1] \in RouteLengths
  /\ \A i \in 2..Len(u) : u[i] \in Halves
  /\ form = "compact" => \A i \in 1..n : u[1 + i] = <<"half", route[i][1]>>
  /\ form = "extended" =>
       \A i \in 1..n : /\ u[2 * i] = <<"half", route[i][1]>>
                       /\ u[2 * i + 1] = <<"half", route[i][2]>>

LEMMA RouteUnitsFacts ==
  ASSUME NEW form \in Forms, NEW route \in Seq(RouteEntries), Len(route) <= MaxRoute,
         NEW n \in Nat, n = Len(route), NEW w \in {1, 2}, w = EntryLen[form],
         NEW u, u = RouteUnits(form, route)
  PROVE  u \in Seq(Units) /\ RouteField(u, form, route, n, w)
<1>1. CASE n = 0
  <2>1. route = << >>
    BY <1>1, EmptySeq
  <2>2. u = << >>
    BY <2>1 DEF RouteUnits
  <2> QED BY <1>1, <2>2 DEF RouteField
<1>2. CASE n # 0
  <2> DEFINE e(i) == EntryUnits(form, route[1 + (i - 1) \div w])[1 + ((i - 1) % w)]
             v == [i \in 1..(w * n) |-> e(i)]
             l == << <<"len", n>> >>
  <2>1. u = l \o v
    <3>1. route # << >>
      BY <1>2
    <3> QED BY <3>1 DEF RouteUnits
  <2>2. \A i \in 1..n : route[i][1] \in Nat /\ route[i][2] \in Nat
    BY DEF RouteEntries
  <2>3. CASE form = "compact"
    <3>1. w = 1
      BY <2>3, FormFacts
    <3>2. ASSUME NEW i \in 1..n PROVE e(i) = <<"half", route[i][1]>>
      <4>1. 1 + (i - 1) \div 1 = i /\ 1 + ((i - 1) % 1) = 1
        OBVIOUS
      <4>2. EntryUnits(form, route[i]) = << <<"half", route[i][1]>> >>
        BY <2>3 DEF EntryUnits
      <4>3. e(i) = EntryUnits(form, route[i])[1]
        BY <3>1, <4>1
      <4> HIDE DEF e
      <4> QED BY <4>2, <4>3
    <3>3. \A i \in 1..n : e(i) \in Halves
      <4> TAKE i \in 1..n
      <4>1. e(i) = <<"half", route[i][1]>>
        BY <3>2
      <4> HIDE DEF e
      <4> QED BY <2>2, <4>1 DEF Halves
    <3>4. PICK x : x = v /\ x \in [1..n -> Units] /\ (\A i \in 1..n : x[i] = e(i)) /\ 1 * n = n
      <4>1. 1 * n = n /\ v = [i \in 1..n |-> e(i)]
        BY <3>1
      <4>2. \A i \in 1..n : e(i) \in Units
        BY <3>3, UnitFacts
      <4> HIDE DEF e
      <4> QED BY <4>1, <4>2
    <3>5. x \in Seq(Units) /\ Len(x) = n
      <4> HIDE DEF v, e
      <4> QED BY <3>4, FunctionIsSeq
    <3>6. <<"len", n>> \in RouteLengths
      BY <1>2 DEF RouteLengths
    <3>7. l \in Seq(Units) /\ Len(l) = 1 /\ l[1] = <<"len", n>>
      BY <3>6, UnitFacts
    <3>8. /\ u \in Seq(Units) /\ Len(u) = 1 + n /\ u[1] = l[1]
          /\ \A i \in 1..(n) : u[1 + i] = x[i]
      <4> HIDE DEF l, v, e
      <4>1. u = l \o x
        BY <2>1, <3>4
      <4>2. PICK y : y = l
        OBVIOUS
      <4>3. PICK p \in Nat, q \in Nat : p = 1 /\ q = n
        <5>1. 1 \in Nat /\ n \in Nat
          OBVIOUS
        <5> QED BY <5>1
      <4>5. /\ y \in Seq(Units) /\ x \in Seq(Units) /\ u = y \o x
            /\ p = Len(y) /\ q = Len(x)
        BY <3>5, <3>7, <4>1, <4>2, <4>3
      <4>4. /\ u \in Seq(Units) /\ Len(u) = p + q /\ \A i \in 1..p : u[i] = y[i]
            /\ \A i \in 1..q : u[p + i] = x[i]
        BY <4>5, TwoParts
      <4> QED BY <4>2, <4>3, <4>4
    <3>9. u[1] = <<"len", n>>
      <4> HIDE DEF l, e, v
      <4> QED BY <3>7, <3>8
    <3>10. \A i \in 1..n : u[1 + i] = <<"half", route[i][1]>>
      <4> TAKE i \in 1..n
      <4> HIDE DEF l, v, e
      <4> QED BY <3>2, <3>4, <3>8
    <3>11. \A i \in 2..(1 + n) : u[i] \in Halves
      <4> TAKE i \in 2..(1 + n)
      <4>1. i - 1 \in 1..n /\ 1 + (i - 1) = i
        OBVIOUS
      <4>2. u[i] = <<"half", route[i - 1][1]>>
        BY <3>10, <4>1
      <4> QED BY <2>2, <4>1, <4>2 DEF Halves
    <3>12. 1 + n * w = 1 + n
      BY <3>1
    <3> HIDE DEF l, v, e
    <3> QED BY <1>2, <2>3, <3>6, <3>8, <3>9, <3>10, <3>11, <3>12 DEF RouteField
  <2>4. CASE form = "extended"
    <3>1. w = 2
      BY <2>4, FormFacts
    <3>2. ASSUME NEW i \in 1..n
          PROVE  /\ e(2 * i - 1) = <<"half", route[i][1]>> /\ e(2 * i) = <<"half", route[i][2]>>
      <4>1. /\ 1 + ((2 * i - 1) - 1) \div 2 = i /\ 1 + (((2 * i - 1) - 1) % 2) = 1
            /\ 1 + (2 * i - 1) \div 2 = i /\ 1 + ((2 * i - 1) % 2) = 2
        OBVIOUS
      <4>2. EntryUnits(form, route[i]) = << <<"half", route[i][1]>>, <<"half", route[i][2]>> >>
        BY <2>4 DEF EntryUnits
      <4>3. /\ e(2 * i - 1) = EntryUnits(form, route[i])[1]
            /\ e(2 * i) = EntryUnits(form, route[i])[2]
        BY <3>1, <4>1
      <4> HIDE DEF e
      <4> QED BY <4>2, <4>3
    <3>3. \A i \in 1..(2 * n) : e(i) \in Halves
      <4> TAKE i \in 1..(2 * n)
      <4>1. PICK j \in 1..n : i = 2 * j - 1 \/ i = 2 * j
        <5>1. (i + 1) \div 2 \in 1..n /\ (i = 2 * ((i + 1) \div 2) - 1 \/ i = 2 * ((i + 1) \div 2))
          OBVIOUS
        <5> QED BY <5>1
      <4>2. e(i) \in {<<"half", route[j][1]>>, <<"half", route[j][2]>>}
        <5> HIDE DEF e
        <5> QED BY <3>2, <4>1
      <4> HIDE DEF e
      <4> QED BY <2>2, <4>2 DEF Halves
    <3>4. PICK x : x = v /\ x \in [1..(2 * n) -> Units] /\ \A i \in 1..(2 * n) : x[i] = e(i)
      <4>1. v = [i \in 1..(2 * n) |-> e(i)]
        BY <3>1
      <4>2. \A i \in 1..(2 * n) : e(i) \in Units
        BY <3>3, UnitFacts
      <4> HIDE DEF e
      <4> QED BY <4>1, <4>2
    <3>5. x \in Seq(Units) /\ Len(x) = 2 * n
      <4>1. 2 * n \in Nat
        OBVIOUS
      <4> QED BY <3>4, <4>1, FunctionIsSeq
    <3>6. <<"len", n>> \in RouteLengths
      BY <1>2 DEF RouteLengths
    <3>7. l \in Seq(Units) /\ Len(l) = 1 /\ l[1] = <<"len", n>>
      BY <3>6, UnitFacts
    <3>8. /\ u \in Seq(Units) /\ Len(u) = 1 + 2 * n /\ u[1] = l[1]
          /\ \A i \in 1..(2 * n) : u[1 + i] = x[i]
      <4> HIDE DEF l, v, e
      <4>1. u = l \o x
        BY <2>1, <3>4
      <4>2. PICK y : y = l
        OBVIOUS
      <4>3. PICK p \in Nat, q \in Nat : p = 1 /\ q = 2 * n
        <5>1. 1 \in Nat /\ 2 * n \in Nat
          OBVIOUS
        <5> QED BY <5>1
      <4>5. /\ y \in Seq(Units) /\ x \in Seq(Units) /\ u = y \o x
            /\ p = Len(y) /\ q = Len(x)
        BY <3>5, <3>7, <4>1, <4>2, <4>3
      <4>4. /\ u \in Seq(Units) /\ Len(u) = p + q /\ \A i \in 1..p : u[i] = y[i]
            /\ \A i \in 1..q : u[p + i] = x[i]
        BY <4>5, TwoParts
      <4> QED BY <4>2, <4>3, <4>4
    <3>9. u[1] = <<"len", n>>
      <4> HIDE DEF l, e, v
      <4> QED BY <3>7, <3>8
    <3>10. \A i \in 1..n : /\ u[2 * i] = <<"half", route[i][1]>>
                           /\ u[2 * i + 1] = <<"half", route[i][2]>>
      <4> TAKE i \in 1..n
      <4>1. /\ 2 * i - 1 \in 1..(2 * n) /\ 1 + (2 * i - 1) = 2 * i
            /\ 2 * i \in 1..(2 * n) /\ 1 + 2 * i = 2 * i + 1
        OBVIOUS
      <4> HIDE DEF l, v, e
      <4> QED BY <3>2, <3>4, <3>8, <4>1
    <3>11. \A i \in 2..(1 + 2 * n) : u[i] \in Halves
      <4> TAKE i \in 2..(1 + 2 * n)
      <4>1. i - 1 \in 1..(2 * n) /\ 1 + (i - 1) = i
        OBVIOUS
      <4> HIDE DEF l, v, e
      <4> QED BY <3>3, <3>4, <3>8, <4>1
    <3>12. 1 + n * w = 1 + 2 * n
      BY <3>1
    <3> HIDE DEF l, v, e
    <3> QED BY <1>2, <2>4, <3>6, <3>8, <3>9, <3>10, <3>11, <3>12 DEF RouteField
  <2> QED BY <2>3, <2>4, FormFacts
<1> QED BY <1>1, <1>2

-----------------------------------------------------------------------------
(* Tags. *)

\* Piece i of a MAC names its place and what is under it.
LEMMA MacFacts ==
  ASSUME NEW form \in Forms, NEW bytes, NEW m, m = Mac(form, bytes)
  PROVE  /\ \A i \in 1..TagLen[form] : m[i] = <<"mac", i, bytes>>
         /\ TagLen[form] \in {2, 4} /\ DOMAIN m = 1..TagLen[form]
         /\ bytes \in Covered => m \in Seq(Units) /\ Len(m) = TagLen[form]
<1>1. PICK t \in {2, 4} : t = TagLen[form]
  BY FormFacts
<1>2. m = [i \in 1..t |-> <<"mac", i, bytes>>]
  BY <1>1 DEF Mac
<1>3. ASSUME bytes \in Covered PROVE m \in Seq(Units) /\ Len(m) = t
  <2>1. ASSUME NEW i \in 1..t PROVE <<"mac", i, bytes>> \in Units
    <3>1. i \in 1..4
      OBVIOUS
    <3>2. <<"mac", i, bytes>> \in Macs
      BY <1>3, <3>1 DEF Macs
    <3> QED BY <3>2, UnitFacts
  <2>2. m \in [1..t -> Units]
    BY <1>2, <2>1
  <2>3. t \in Nat
    OBVIOUS
  <2> QED BY <2>2, <2>3, FunctionIsSeq
<1> QED BY <1>1, <1>2, <1>3

LEMMA WidenFacts ==
  ASSUME NEW tag \in Seq(Units), Len(tag) = 2, NEW x, x = Widen(tag)
  PROVE  /\ x \in Seq(Units) /\ Len(x) = 4 /\ x[1] = tag[1] /\ x[2] = tag[2]
         /\ x[3] = <<"zero">> /\ x[4] = <<"zero">>
<1>1. tag # << >>
  OBVIOUS
<1>2. PICK zz : zz = << <<"zero">>, <<"zero">> >>
  OBVIOUS
<1>3. zz \in Seq(Units) /\ Len(zz) = 2 /\ zz[1] = <<"zero">> /\ zz[2] = <<"zero">>
  BY <1>2, UnitFacts
<1>4. x = tag \o zz
  BY <1>1, <1>2 DEF Widen
<1>5. PICK p \in Nat, q \in Nat : p = 2 /\ q = 2
  OBVIOUS
<1>6. p = Len(tag) /\ q = Len(zz) /\ zz \in Seq(Units)
  BY <1>3, <1>5
<1>7. /\ x \in Seq(Units) /\ Len(x) = p + q /\ \A i \in 1..p : x[i] = tag[i]
      /\ \A i \in 1..q : x[p + i] = zz[i]
  <2>1. PICK y : y = tag
    OBVIOUS
  <2>2. x = y \o zz /\ p = Len(y) /\ q = Len(zz) /\ y \in Seq(Units) /\ zz \in Seq(Units)
    BY <1>4, <1>6, <2>1
  <2>3. /\ x \in Seq(Units) /\ Len(x) = p + q /\ \A i \in 1..p : x[i] = y[i]
        /\ \A i \in 1..q : x[p + i] = zz[i]
    BY <2>2, TwoParts
  <2> QED BY <2>1, <2>3
<1>8. x[p + 1] = zz[1] /\ x[p + 2] = zz[2]
  BY <1>5, <1>7
<1> QED BY <1>3, <1>5, <1>7, <1>8

LEMMA NarrowFacts ==
  ASSUME NEW tag \in Seq(Units), Len(tag) = 4, NEW x, x = Narrow(tag)
  PROVE  x \in Seq(Units) /\ Len(x) = 2 /\ x[1] = tag[1] /\ x[2] = tag[2]
<1>1. tag # << >>
  OBVIOUS
<1>2. TagLen["compact"] = 2
  BY DEF TagLen, Forms
<1>3. PICK p \in Nat, q \in Nat, m \in Nat : p = 0 /\ q = 2 /\ m = 4
  OBVIOUS
<1>4. x = SubSeq(tag, p + 1, q)
  BY <1>1, <1>2, <1>3 DEF Narrow
<1>5. m = Len(tag) /\ p <= q /\ q <= m /\ q - p = 2 /\ p + 1 = 1 /\ p + 2 = 2
  BY <1>3
<1>6. x \in Seq(Units) /\ Len(x) = q - p /\ \A i \in 1..(q - p) : x[i] = tag[p + i]
  BY <1>4, <1>5, Part
<1> QED BY <1>5, <1>6

LEMMA NarrowWidened ==
  ASSUME NEW tag \in Seq(Units), Len(tag) = 2
  PROVE  Narrow(Widen(tag)) = tag
<1>1. PICK x : x = Widen(tag)
  OBVIOUS
<1>2. x \in Seq(Units) /\ Len(x) = 4 /\ x[1] = tag[1] /\ x[2] = tag[2]
  BY <1>1, WidenFacts
<1>3. PICK y : y = Narrow(x)
  OBVIOUS
<1>4. y \in Seq(Units) /\ Len(y) = 2 /\ y[1] = tag[1] /\ y[2] = tag[2]
  BY <1>2, <1>3, NarrowFacts
<1>5. \A i \in 1..2 : y[i] = tag[i]
  BY <1>4
<1> QED BY <1>1, <1>3, <1>4, <1>5, SameSequence

-----------------------------------------------------------------------------
(* A frame that was just encoded. *)

LaidOut(b, form, route, payload, tag, w, n, p, q, r) ==
  /\ p = IF n = 0 THEN 0 ELSE 1 + n * w
  /\ b \in Seq(Units) /\ Len(b) = (p + q) + r
  /\ n # 0 => b[1] = <<"len", n>> /\ b[1] \in RouteLengths
  /\ \A i \in 2..p : b[i] \in Halves
  /\ form = "compact" => \A i \in 1..n : b[1 + i] = <<"half", route[i][1]>>
  /\ form = "extended" =>
       \A i \in 1..n : /\ b[2 * i] = <<"half", route[i][1]>>
                       /\ b[2 * i + 1] = <<"half", route[i][2]>>
  /\ \A i \in 1..q : b[p + i] = payload[i]
  /\ \A i \in 1..r : b[(p + q) + i] = tag[i]
  /\ SubSeq(b, p + 1, p + q) = payload /\ SubSeq(b, (p + q) + 1, (p + q) + r) = tag

LEMMA BodyFacts ==
  ASSUME NEW form \in Forms, NEW w \in {1, 2}, w = EntryLen[form],
         NEW route \in Seq(RouteEntries), Len(route) <= MaxRoute,
         NEW payload \in Seq(Units), NEW tag \in Seq(Units),
         NEW n \in Nat, n = Len(route), NEW q \in Nat, q = Len(payload),
         NEW r \in Nat, r = Len(tag), NEW b, b = Body(form, route, payload, tag)
  PROVE  \E p \in Nat : LaidOut(b, form, route, payload, tag, w, n, p, q, r)
<1>1. PICK u : u = RouteUnits(form, route)
  OBVIOUS
<1>2. (form = "compact" => w = 1) /\ (form = "extended" => w = 2)
  BY FormFacts
<1>3. /\ u \in Seq(Units) /\ Len(u) = IF n = 0 THEN 0 ELSE 1 + n * w
      /\ n # 0 => u[1] = <<"len", n>> /\ u[1] \in RouteLengths
      /\ \A i \in 2..Len(u) : u[i] \in Halves
      /\ form = "compact" => \A i \in 1..n : u[1 + i] = <<"half", route[i][1]>>
      /\ form = "extended" =>
           \A i \in 1..n : /\ u[2 * i] = <<"half", route[i][1]>>
                           /\ u[2 * i + 1] = <<"half", route[i][2]>>
  <2>1. u \in Seq(Units) /\ RouteField(u, form, route, n, w)
    BY <1>1, RouteUnitsFacts
  <2> QED BY <2>1 DEF RouteField
<1>4. PICK p \in Nat : p = Len(u)
  BY <1>3
<1>5. b = u \o payload \o tag
  BY <1>1 DEF Body
<1>6. /\ b \in Seq(Units) /\ Len(b) = (p + q) + r
      /\ \A i \in 1..p : b[i] = u[i]
      /\ \A i \in 1..q : b[p + i] = payload[i]
      /\ \A i \in 1..r : b[(p + q) + i] = tag[i]
      /\ SubSeq(b, p + 1, p + q) = payload /\ SubSeq(b, (p + q) + 1, (p + q) + r) = tag
  <2>1. u \in Seq(Units) /\ p = Len(u)
    BY <1>3, <1>4
  <2>2. /\ u \o payload \o tag \in Seq(Units)
        /\ InARow(u \o payload \o tag, u, payload, tag, Len(u), Len(payload), Len(tag))
    BY <2>1, InARowFacts
  <2>3. b \in Seq(Units) /\ InARow(b, u, payload, tag, p, q, r)
    <3>1. Len(u) = p /\ Len(payload) = q /\ Len(tag) = r /\ u \o payload \o tag = b
      BY <1>5, <2>1
    <3>2. b \in Seq(Units) /\ InARow(b, u, payload, tag, Len(u), Len(payload), Len(tag))
      BY <2>2, <3>1
    <3> QED BY <3>1, <3>2
  <2> QED BY <2>3 DEF InARow
<1>7. p = IF n = 0 THEN 0 ELSE 1 + n * w
  BY <1>3, <1>4
<1>8. \A i \in 2..p : b[i] \in Halves
  <2> TAKE i \in 2..p
  <2>1. i \in 1..p
    OBVIOUS
  <2> QED BY <1>3, <1>4, <1>6, <2>1
<1>9. n # 0 => b[1] = <<"len", n>> /\ b[1] \in RouteLengths
  <2> SUFFICES ASSUME n # 0 PROVE b[1] = u[1]
    BY <1>3
  <2>1. PICK a \in Nat : a = n * w
    OBVIOUS
  <2>2. p = 1 + a
    BY <1>7, <2>1
  <2>3. 1 \in 1..p
    BY <2>2
  <2> QED BY <1>6, <2>3
<1>10. form = "compact" => \A i \in 1..n : b[1 + i] = <<"half", route[i][1]>>
  <2> SUFFICES ASSUME form = "compact", NEW i \in 1..n PROVE b[1 + i] = u[1 + i]
    BY <1>3
  <2>1. p = 1 + n
    BY <1>2, <1>7
  <2>2. 1 + i \in 1..p
    BY <2>1
  <2> QED BY <1>6, <2>2
<1>11. form = "extended" =>
         \A i \in 1..n : /\ b[2 * i] = <<"half", route[i][1]>>
                         /\ b[2 * i + 1] = <<"half", route[i][2]>>
  <2> SUFFICES ASSUME form = "extended", NEW i \in 1..n
               PROVE  b[2 * i] = u[2 * i] /\ b[2 * i + 1] = u[2 * i + 1]
    BY <1>3
  <2>1. w = 2 /\ n # 0
    BY <1>2
  <2>3. p = 1 + n * 2
    BY <1>7, <2>1
  <2>2. 2 * i \in 1..p /\ 2 * i + 1 \in 1..p
    BY <2>3
  <2> QED BY <1>6, <2>2
<1> QED BY <1>6, <1>7, <1>8, <1>9, <1>10, <1>11 DEF LaidOut

Encoded(f, form, route, payload, tag, n, q, r) ==
  /\ f.body \in Seq(Units) /\ Shaped(f) /\ DecodesCompact(f)
  /\ RouteCount(f) = n /\ Start(f) \in Nat /\ End(f) - Start(f) = q
  /\ Len(f.body) = (Start(f) + q) + r
  /\ Payload(f) = payload /\ Tag(f) = tag
  /\ Route(f) \in Seq(RouteEntries) /\ Len(Route(f)) = n
  /\ \A i \in 1..n : Route(f)[i] = IF form = "compact" THEN High(route[i]) ELSE route[i]
  /\ \A i \in 1..Len(f.body) : Second(f.body[i]) =>
       \/ \E j \in 1..q : i = Start(f) + j /\ f.body[i] = payload[j]
       \/ \E j \in 1..r : i = (Start(f) + q) + j /\ f.body[i] = tag[j]

LEMMA EncodeFacts ==
  ASSUME NEW form \in Forms, NEW route \in Seq(RouteEntries), Len(route) <= MaxRoute,
         NEW payload \in Seq(Units), NEW tag \in Seq(Units),
         NEW n \in Nat, n = Len(route), NEW q \in Nat, q = Len(payload),
         NEW r \in Nat, r = Len(tag), r = 0 \/ r = TagLen[form],
         NEW f, f.form = form, f.routed = (route # << >>), f.signed = (tag # << >>),
         f.body = Body(form, route, payload, tag)
  PROVE  Encoded(f, form, route, payload, tag, n, q, r)
<1>1. PICK w, b : w = EntryLen[form] /\ b = f.body
  OBVIOUS
<1>2. w \in {1, 2} /\ (form = "compact" \/ form = "extended")
  BY <1>1, FormFacts
<1>3. b = Body(form, route, payload, tag)
  BY <1>1
<1>4. PICK p \in Nat :
        /\ p = IF n = 0 THEN 0 ELSE 1 + n * w
        /\ b \in Seq(Units) /\ Len(b) = (p + q) + r
        /\ n # 0 => b[1] = <<"len", n>> /\ b[1] \in RouteLengths
        /\ \A i \in 2..p : b[i] \in Halves
        /\ form = "compact" => \A i \in 1..n : b[1 + i] = <<"half", route[i][1]>>
        /\ form = "extended" =>
             \A i \in 1..n : /\ b[2 * i] = <<"half", route[i][1]>>
                             /\ b[2 * i + 1] = <<"half", route[i][2]>>
        /\ \A i \in 1..q : b[p + i] = payload[i]
        /\ \A i \in 1..r : b[(p + q) + i] = tag[i]
        /\ SubSeq(b, p + 1, p + q) = payload /\ SubSeq(b, (p + q) + 1, (p + q) + r) = tag
  <2>1. \E p \in Nat : LaidOut(b, form, route, payload, tag, w, n, p, q, r)
    BY <1>1, <1>2, <1>3, BodyFacts
  <2> QED BY <2>1 DEF LaidOut
<1>5. b = f.body
  BY <1>1
<1>6. n # 0 => b # << >>
  <2> SUFFICES ASSUME n # 0 PROVE Len(b) # 0
    BY <1>4, EmptySeq
  <2>1. PICK a \in Nat : a = n * w
    BY <1>2
  <2>2. p = 1 + a /\ Len(b) = (p + q) + r
    BY <1>4, <2>1
  <2> QED BY <2>2
<1>7. f.routed <=> n # 0
  BY EmptySeq
<1>8. (f.signed <=> r # 0) /\ (r = 0 => tag = << >>)
  BY EmptySeq
<1>10. RouteCount(f) = n
  <2>1. CASE n = 0
    <3>1. ~f.routed
      BY <1>7, <2>1
    <3>2. RouteCount(f) = 0
      BY <3>1 DEF RouteCount
    <3> QED BY <2>1, <3>2
  <2>2. CASE n # 0
    <3>1. f.routed /\ f.body # << >>
      BY <1>5, <1>6, <1>7, <2>2
    <3>2. RouteCount(f) = b[1][2]
      BY <1>5, <3>1 DEF RouteCount
    <3>3. b[1] = <<"len", n>>
      BY <1>4, <2>2
    <3>4. <<"len", n>>[2] = n
      OBVIOUS
    <3> QED BY <3>2, <3>3, <3>4
  <2> QED BY <2>1, <2>2
<1>11. Start(f) = p
  BY <1>1, <1>4, <1>7, <1>10 DEF Start
<1>12. End(f) = p + q
  <2>1. CASE r = 0
    <3>1. ~f.signed /\ Len(b) = p + q
      BY <1>4, <1>8, <2>1
    <3> QED BY <1>5, <3>1 DEF End
  <2>2. CASE r # 0
    <3>1. ((p + q) + r) - r = p + q
      OBVIOUS
    <3>2. End(f) = Len(b) - r
      BY <1>5, <1>8, <2>2 DEF End
    <3> QED BY <1>4, <3>1, <3>2
  <2> QED BY <2>1, <2>2
<1>13. Payload(f) = payload
  BY <1>4, <1>5, <1>11, <1>12 DEF Payload
<1>14. Tag(f) = tag
  <2>1. CASE r = 0
    BY <1>8, <2>1, EmptySeq DEF Tag
  <2>2. CASE r # 0
    BY <1>4, <1>5, <1>8, <1>12, <2>2 DEF Tag
  <2> QED BY <2>1, <2>2
<1>15. Shaped(f)
  <2> SUFFICES ASSUME n # 0
               PROVE  /\ b[1] \in RouteLengths
                      /\ \A i \in 2..Len(b) : i <= p => b[i] \in Halves
    BY <1>5, <1>7, <1>11 DEF Shaped
  <2>1. ASSUME NEW i \in 2..Len(b), i <= p PROVE b[i] \in Halves
    <3>1. i \in 2..p
      BY <1>4, <2>1
    <3> QED BY <1>4, <3>1
  <2> QED BY <1>4, <2>1
<1>16. DecodesCompact(f)
  <2>1. n # 0 => n \in 1..MaxRoute
    BY WireAssumption DEF WireAssumption
  <2>2. p <= p + q
    OBVIOUS
  <2> QED BY <1>5, <1>6, <1>7, <1>10, <1>11, <1>12, <2>1, <2>2 DEF DecodesCompact
<1>17. ASSUME NEW i \in 1..n
       PROVE  Route(f)[i] = IF form = "compact" THEN High(route[i]) ELSE route[i]
  <2>1. CASE form = "compact"
    <3>1. b[1 + i] = <<"half", route[i][1]>>
      BY <1>4, <2>1
    <3>2. Route(f)[i] = <<b[1 + i][2], 0>>
      BY <1>5, <1>10, <2>1 DEF Route
    <3> QED BY <2>1, <3>1, <3>2 DEF High
  <2>2. CASE form = "extended"
    <3>1. b[2 * i] = <<"half", route[i][1]>> /\ b[2 * i + 1] = <<"half", route[i][2]>>
      BY <1>4, <2>2
    <3>2. Route(f)[i] = <<b[2 * i][2], b[2 * i + 1][2]>>
      BY <1>5, <1>10, <2>2 DEF Route
    <3>3. route[i] = <<route[i][1], route[i][2]>>
      BY DEF RouteEntries
    <3> QED BY <2>2, <3>1, <3>2, <3>3
  <2> QED BY <1>2, <2>1, <2>2
<1>18. ASSUME NEW i \in 1..Len(b), Second(b[i])
       PROVE  \/ \E j \in 1..q : i = p + j /\ b[i] = payload[j]
              \/ \E j \in 1..r : i = (p + q) + j /\ b[i] = tag[j]
  <2>1. CASE i <= p
    <3>1. i \in 1..p /\ (i = 1 \/ i \in 2..p)
      BY <2>1
    <3>2. b[i] \in Halves \cup RouteLengths
      <4>1. n # 0
        BY <1>4, <3>1
      <4>2. CASE i = 1
        BY <1>4, <4>1, <4>2
      <4>3. CASE i \in 2..p
        BY <1>4, <4>3
      <4> QED BY <3>1, <4>2, <4>3
    <3> QED BY <1>18, <3>2, UnitFacts
  <2>2. CASE p < i /\ i <= p + q
    <3>1. i - p \in 1..q /\ i = p + (i - p)
      BY <2>2
    <3> QED BY <1>4, <3>1
  <2>3. CASE p + q < i
    <3>1. i \in 1..((p + q) + r)
      BY <1>4
    <3>2. i - (p + q) \in 1..r /\ i = (p + q) + (i - (p + q))
      BY <2>3, <3>1
    <3> QED BY <1>4, <3>2
  <2>4. i \in Nat
    BY <1>4
  <2> QED BY <2>1, <2>2, <2>3, <2>4
<1>19. End(f) - Start(f) = q
  <2>1. (p + q) - p = q
    OBVIOUS
  <2> QED BY <1>11, <1>12, <2>1
<1>20. f.body \in Seq(Units) /\ Start(f) \in Nat /\ Len(f.body) = (Start(f) + q) + r
  BY <1>4, <1>5, <1>11
<1>21. ASSUME NEW i \in 1..Len(f.body), Second(f.body[i])
       PROVE  \/ \E j \in 1..q : i = Start(f) + j /\ f.body[i] = payload[j]
              \/ \E j \in 1..r : i = (Start(f) + q) + j /\ f.body[i] = tag[j]
  BY <1>5, <1>11, <1>18, <1>21
<1>22. Route(f) \in Seq(RouteEntries) /\ Len(Route(f)) = n
  <2>1. ASSUME NEW i \in 1..n PROVE Route(f)[i] \in RouteEntries
    <3>1. route[i] \in RouteEntries /\ High(route[i]) \in RouteEntries
      BY DEF High, RouteEntries
    <3> QED BY <1>17, <3>1
  <2>2. Route(f) = [i \in 1..n |-> Route(f)[i]]
    BY <1>10 DEF Route
  <2>3. PICK k \in Nat : k = n
    OBVIOUS
  <2>4. PICK x \in [1..k -> RouteEntries] : x = Route(f)
    BY <2>1, <2>2, <2>3
  <2>5. x \in Seq(RouteEntries) /\ Len(x) = k
    BY FunctionIsSeq
  <2> QED BY <2>3, <2>4, <2>5
<1> QED BY <1>10, <1>13, <1>14, <1>15, <1>16, <1>17, <1>19, <1>20, <1>21, <1>22 DEF Encoded

-----------------------------------------------------------------------------
(* A frame that decodes. *)

Decoded(f, s, e, m) ==
  /\ s = Start(f) /\ e = End(f) /\ m = Len(f.body) /\ s <= e /\ e <= m
  /\ Route(f) \in Seq(RouteEntries) /\ Len(Route(f)) = RouteCount(f)
  /\ RouteCount(f) \in 0..MaxRoute
  /\ f.routed <=> Route(f) # << >>
  /\ Payload(f) \in Seq(Units) /\ Len(Payload(f)) = e - s
  /\ \A j \in 1..(e - s) : Payload(f)[j] = f.body[s + j] /\ s + j \in 1..m
  /\ Tag(f) \in Seq(Units) /\ Len(Tag(f)) = m - e
  /\ m - e = IF f.signed THEN TagLen[f.form] ELSE 0
  /\ \A j \in 1..(m - e) : Tag(f)[j] = f.body[e + j] /\ e + j \in 1..m
  /\ f.signed <=> Tag(f) # << >>

LEMMA DecodeFacts ==
  ASSUME NEW f \in FrameRecords, Shaped(f), DecodesCompact(f)
  PROVE  \E s \in Nat, e \in Nat, m \in Nat : Decoded(f, s, e, m)
<1>1. PICK b \in Seq(Units) : b = f.body
  BY DEF FrameRecords
<1>2. f.form \in Forms /\ f.routed \in BOOLEAN /\ f.signed \in BOOLEAN
  BY DEF FrameRecords
<1>3. PICK w \in {1, 2}, t \in {2, 4} :
        /\ w = EntryLen[f.form] /\ t = TagLen[f.form]
        /\ f.form = "compact" => w = 1
        /\ f.form # "compact" => w = 2
  BY <1>2, FormFacts
<1>4. PICK m \in Nat : m = Len(b)
  OBVIOUS
<1>5. PICK c : c = RouteCount(f)
  OBVIOUS
<1>6. f.routed => b # << >> /\ c \in 1..MaxRoute
  BY <1>1, <1>5 DEF DecodesCompact
<1>7. ~f.routed => c = 0
  BY <1>5 DEF RouteCount
<1>8. c \in 0..MaxRoute /\ MaxRoute \in Nat /\ c \in Nat
  BY <1>6, <1>7, WireAssumption DEF WireAssumption
<1>9. PICK d \in Nat : d = c * w
  BY <1>8
<1>10. PICK s \in Nat : s = Start(f) /\ (f.routed => s = 1 + d) /\ (~f.routed => s = 0)
  BY <1>3, <1>5, <1>9 DEF Start
<1>11. s <= End(f)
  BY <1>10 DEF DecodesCompact
<1>12. PICK e \in Nat : e = End(f) /\ s <= e /\ e <= m /\ m - e = IF f.signed THEN t ELSE 0
  <2>1. CASE f.signed
    <3>1. End(f) = m - t
      BY <1>1, <1>3, <1>4, <2>1 DEF End
    <3>2. m - t \in Nat /\ m - t <= m /\ m - (m - t) = t
      BY <1>11, <3>1
    <3> QED BY <1>11, <2>1, <3>1, <3>2
  <2>2. CASE ~f.signed
    <3>1. End(f) = m
      BY <1>1, <1>4, <2>2 DEF End
    <3> QED BY <1>11, <2>2, <3>1
  <2> QED BY <1>2, <2>1, <2>2
<1>13. Payload(f) \in Seq(Units) /\ Len(Payload(f)) = e - s
       /\ \A j \in 1..(e - s) : Payload(f)[j] = b[s + j] /\ s + j \in 1..m
  <2>1. PICK z : z = SubSeq(b, s + 1, e)
    OBVIOUS
  <2>2. z \in Seq(Units) /\ Len(z) = e - s
        /\ \A j \in 1..(e - s) : z[j] = b[s + j] /\ s + j \in 1..m
    BY <1>4, <1>12, <2>1, Part
  <2>3. z = Payload(f)
    BY <1>1, <1>10, <1>12, <2>1 DEF Payload
  <2> QED BY <2>2, <2>3
<1>14. Tag(f) \in Seq(Units) /\ Len(Tag(f)) = m - e
       /\ \A j \in 1..(m - e) : Tag(f)[j] = b[e + j] /\ e + j \in 1..m
  <2>1. CASE f.signed
    <3>1. PICK z : z = SubSeq(b, e + 1, m)
      OBVIOUS
    <3>2. e <= m
      BY <1>12
    <3>3. z \in Seq(Units) /\ Len(z) = m - e
          /\ \A j \in 1..(m - e) : z[j] = b[e + j] /\ e + j \in 1..m
      BY <1>4, <3>1, <3>2, Rest
    <3>4. z = Tag(f)
      BY <1>1, <1>4, <1>12, <2>1, <3>1 DEF Tag
    <3> QED BY <3>3, <3>4
  <2>2. CASE ~f.signed
    <3>1. Tag(f) = << >> /\ m - e = 0
      BY <1>12, <2>2 DEF Tag
    <3> QED BY <3>1
  <2> QED BY <1>2, <2>1, <2>2
<1>15. f.signed <=> Tag(f) # << >>
  <2>1. m - e # 0 <=> f.signed
    BY <1>2, <1>12
  <2>2. Tag(f) # << >> <=> Len(Tag(f)) # 0
    BY <1>14, EmptySeq
  <2> QED BY <1>14, <2>1, <2>2
<1>16. Route(f) \in [1..c -> RouteEntries]
  <2> DEFINE entry(i) == IF f.form = "compact" THEN <<b[1 + i][2], 0>>
                         ELSE <<b[2 * i][2], b[2 * i + 1][2]>>
  <2>1. Route(f) = [i \in 1..c |-> entry(i)]
    BY <1>1, <1>5 DEF Route
  <2>2. ASSUME NEW i \in 1..c PROVE entry(i) \in RouteEntries
    <3>1. f.routed
      BY <1>2, <1>7
    <3>2. \A j \in 2..m : j <= s => b[j][2] \in Nat
      <4> TAKE j \in 2..m
      <4> HAVE j <= s
      <4>1. b[j] \in Halves
        BY <1>1, <1>4, <1>6, <1>10, <3>1 DEF Shaped
      <4> QED BY <4>1 DEF Halves
    <3>3. s = 1 + d
      BY <1>10, <3>1
    <3>4. CASE f.form = "compact"
      <4>1. d = c
        BY <1>3, <1>8, <1>9, <3>4
      <4>2. 1 + i \in 2..m /\ 1 + i <= s
        BY <1>8, <1>12, <3>3, <4>1
      <4>3. b[1 + i][2] \in Nat
        BY <3>2, <4>2
      <4> QED BY <3>4, <4>3 DEF RouteEntries
    <3>5. CASE f.form # "compact"
      <4>1. d = 2 * c
        BY <1>3, <1>8, <1>9, <3>5
      <4>2. /\ 2 * i \in 2..m /\ 2 * i <= s
            /\ 2 * i + 1 \in 2..m /\ 2 * i + 1 <= s
        BY <1>8, <1>12, <3>3, <4>1
      <4>3. b[2 * i][2] \in Nat /\ b[2 * i + 1][2] \in Nat
        BY <3>2, <4>2
      <4> QED BY <3>5, <4>3 DEF RouteEntries
    <3> QED BY <3>4, <3>5
  <2> HIDE DEF entry
  <2> QED BY <2>1, <2>2
<1>17. Route(f) \in Seq(RouteEntries) /\ Len(Route(f)) = c
  BY <1>8, <1>16, FunctionIsSeq
<1>18. f.routed <=> Route(f) # << >>
  <2>1. f.routed <=> c # 0
    BY <1>6, <1>7
  <2>2. Route(f) # << >> <=> Len(Route(f)) # 0
    BY <1>17, EmptySeq
  <2> QED BY <1>17, <2>1, <2>2
<1>19. Decoded(f, s, e, m)
  BY <1>1, <1>3, <1>4, <1>5, <1>8, <1>10, <1>12, <1>13, <1>14, <1>15, <1>17, <1>18 DEF Decoded
<1> QED BY <1>19

-----------------------------------------------------------------------------
(* A frame that was decoded and encoded again. *)

LEMMA NoSecondPart ==
  ASSUME NEW f \in FrameRecords, Shaped(f), DecodesCompact(f),
         \A i \in 1..Len(f.body) : ~Second(f.body[i])
  PROVE  /\ \A j \in 1..Len(Payload(f)) : ~Second(Payload(f)[j])
         /\ \A j \in 1..Len(Tag(f)) : ~Second(Tag(f)[j])
<1>1. PICK s \in Nat, e \in Nat, m \in Nat : Decoded(f, s, e, m)
  BY DecodeFacts
<1> QED BY <1>1 DEF Decoded

Recoded(g, payload, form, route, tag) ==
  /\ g.body \in Seq(Units) /\ Shaped(g) /\ Decodes(g)
  /\ Payload(g) = payload /\ Tag(g) = tag
  /\ Len(Route(g)) = Len(route)
  /\ route # << >> => High(Route(g)[1]) = High(route[1])
  /\ (/\ \A j \in 1..Len(payload) : ~Second(payload[j])
      /\ \A j \in 1..Len(tag) : ~Second(tag[j])) =>
       \A i \in 1..Len(g.body) : ~Second(g.body[i])
  /\ (/\ \A j \in 1..Len(payload) : ~Second(payload[j])
      /\ form = "compact"
      /\ tag # << >> => ~Second(tag[1])) =>
       \A i \in 1..Len(g.body) : Second(g.body[i]) => i = Len(g.body)

LEMMA RecodeFacts ==
  ASSUME NEW form \in Forms, NEW route \in Seq(RouteEntries), Len(route) <= MaxRoute,
         NEW payload \in Seq(Units),
         NEW tag \in Seq(Units), Len(tag) = 0 \/ Len(tag) = TagLen[form],
         NEW g, g.form = form, g.routed = (route # << >>), g.signed = (tag # << >>),
         g.body = Body(form, route, payload, tag),
         form = "extended" => g.size = Len(payload)
  PROVE  Recoded(g, payload, form, route, tag)
<1>2. PICK n \in Nat, q \in Nat, r \in Nat : n = Len(route) /\ q = Len(payload) /\ r = Len(tag)
  OBVIOUS
<1>3. r = 0 \/ r = TagLen[form]
  BY <1>2
<1>5. Encoded(g, form, route, payload, tag, n, q, r)
  BY <1>2, <1>3, EncodeFacts
<1>6. Decodes(g)
  <2>1. DecodesCompact(g) /\ End(g) - Start(g) = q
    BY <1>5 DEF Encoded
  <2>2. form = "extended" => g.size = q
    BY <1>2
  <2>3. form = "compact" \/ form = "extended"
    BY FormFacts
  <2> QED BY <2>1, <2>2, <2>3 DEF Decodes, DecodesExtended
<1>7. ASSUME route # << >> PROVE High(Route(g)[1]) = High(route[1])
  <2>1. 1 \in 1..n
    BY <1>2, <1>7, EmptySeq
  <2>2. Route(g)[1] = IF form = "compact" THEN High(route[1]) ELSE route[1]
    BY <1>5, <2>1 DEF Encoded
  <2>3. High(High(route[1])) = High(route[1])
    BY DEF High
  <2> QED BY <2>2, <2>3
<1>8. PICK s \in Nat :
        /\ Len(g.body) = (s + q) + r
        /\ \A i \in 1..Len(g.body) : Second(g.body[i]) =>
             \/ \E j \in 1..q : i = s + j /\ g.body[i] = payload[j]
             \/ \E j \in 1..r : i = (s + q) + j /\ g.body[i] = tag[j]
  BY <1>5 DEF Encoded
<1>9. ASSUME \A j \in 1..q : ~Second(payload[j]), \A j \in 1..r : ~Second(tag[j]),
             NEW i \in 1..Len(g.body)
      PROVE  ~Second(g.body[i])
  BY <1>8, <1>9
<1>10. ASSUME \A j \in 1..q : ~Second(payload[j]), form = "compact",
              tag # << >> => ~Second(tag[1]), NEW i \in 1..Len(g.body), Second(g.body[i])
       PROVE  i = Len(g.body)
  <2>1. PICK j \in 1..r : i = (s + q) + j /\ g.body[i] = tag[j]
    BY <1>8, <1>10
  <2>2. r # 0 /\ tag # << >>
    BY <1>2, <2>1, EmptySeq
  <2>3. r = 2
    BY <1>3, <1>10, <2>2, FormFacts
  <2>4. j # 1
    BY <1>10, <2>1, <2>2
  <2>5. j = r
    BY <2>3, <2>4
  <2> QED BY <1>8, <2>1, <2>5
<1>11. /\ g.body \in Seq(Units) /\ Shaped(g) /\ Payload(g) = payload /\ Tag(g) = tag
       /\ Len(Route(g)) = n
  BY <1>5 DEF Encoded
<1>12. (/\ \A j \in 1..Len(payload) : ~Second(payload[j])
        /\ \A j \in 1..Len(tag) : ~Second(tag[j])) =>
         \A i \in 1..Len(g.body) : ~Second(g.body[i])
  BY <1>2, <1>9
<1>13. (/\ \A j \in 1..Len(payload) : ~Second(payload[j])
        /\ form = "compact"
        /\ tag # << >> => ~Second(tag[1])) =>
         \A i \in 1..Len(g.body) : Second(g.body[i]) => i = Len(g.body)
  BY <1>2, <1>10
<1> QED BY <1>2, <1>6, <1>7, <1>11, <1>12, <1>13 DEF Recoded

-----------------------------------------------------------------------------
(* What originators send. *)

LEMMA DataFacts ==
  ASSUME NEW payload \in Seq(DataUnits)
  PROVE  /\ payload \in Seq(Units) /\ payload \in Covered
         /\ \A j \in 1..Len(payload) : ~Second(payload[j])
<1>1. DataUnits \subseteq {"to", "data"} \X Nat
  BY DEF DataUnits
<1>2. \A j \in 1..Len(payload) : payload[j] \in DataUnits
  OBVIOUS
<1>3. payload \in Seq(Units)
  BY UnitFacts
<1>4. payload \in Covered
  BY <1>1 DEF Covered
<1> QED BY <1>2, <1>3, <1>4, UnitFacts

LEMMA TargetFacts ==
  /\ \A t \in TargetsOf("compact") : t = <<t[1]>> /\ t[1] \in Targets /\ Len(t) = 1
  /\ \A t \in TargetsOf("extended") :
       t = <<t[1], t[2]>> /\ t[1] \in Targets /\ t[2] \in Targets /\ Len(t) = 2
  /\ \A t \in Targets : <<t>> \in TargetsOf("compact") /\ t \in Nat
  /\ \A t, u \in Targets : <<t, u>> \in TargetsOf("extended")
  /\ 0 \in Targets
  BY WireAssumption DEF WireAssumption, TargetsOf

LEMMA OriginFacts ==
  ASSUME NEW o \in Origins, Admissible(o)
  PROVE  /\ o.form \in Forms /\ o.hive \in HiveIds /\ o.hive \in RouteEntries
         /\ o.routed \in BOOLEAN /\ o.signed \in BOOLEAN
         /\ o.id \in Nat /\ o.ttl \in 0..MaxTtl /\ o.ttl \in Nat /\ o.k \in Nat
         /\ o.target \in TargetsOf(o.form) /\ o.payload \in Seq(DataUnits)
         /\ o.form = "compact" => o.id < IdSpace
<1>1. /\ o.form \in Forms /\ o.hive \in HiveIds /\ o.routed \in BOOLEAN
      /\ o.signed \in BOOLEAN /\ o.id \in Ids /\ o.ttl \in 0..MaxTtl /\ o.k \in Ks
      /\ o.payload \in Payloads
  BY DEF Origins
<1>2. o.payload \in Seq(DataUnits)
  BY <1>1, WireAssumption DEF WireAssumption, DataUnits
<1>3. o.hive \in RouteEntries
  BY <1>1, WireAssumption DEF WireAssumption, RouteEntries
<1>4. Ids \subseteq Nat /\ MaxTtl \in Nat /\ Flood \in Nat /\ Ks \subseteq 0..Flood
  BY WireAssumption DEF WireAssumption
<1>5. o.id \in Nat
  BY <1>1, <1>4
<1>6. o.ttl \in Nat
  <2>1. PICK t \in 0..MaxTtl : t = o.ttl
    BY <1>1
  <2> QED BY <1>4, <2>1
<1>7. o.k \in Nat
  <2>1. o.k \in 0..Flood
    BY <1>1, <1>4
  <2> QED BY <1>4, <2>1
<1> QED BY <1>1, <1>2, <1>3, <1>5, <1>6, <1>7 DEF Admissible

LEMMA CoveredFacts ==
  ASSUME NEW payload \in Seq(DataUnits), NEW target, target[1] \in Nat
  PROVE  /\ AuthenticatedCompact(target, payload) \in Covered
         /\ Len(AuthenticatedCompact(target, payload)) = 1 + Len(payload)
         /\ target[2] \in Nat =>
              /\ AuthenticatedExtended(target, payload) \in Covered
              /\ Len(AuthenticatedExtended(target, payload)) = 2 + Len(payload)
<1>1. payload \in Covered
  BY DataFacts
<1>2. <<"to", target[1]>> \in {"to", "data"} \X Nat
  OBVIOUS
<1>3. AuthenticatedCompact(target, payload) \in Covered
      /\ Len(AuthenticatedCompact(target, payload)) = 1 + Len(payload)
  BY <1>1, <1>2, ConcatProperties DEF AuthenticatedCompact, Covered
<1>4. ASSUME target[2] \in Nat
      PROVE  /\ AuthenticatedExtended(target, payload) \in Covered
             /\ Len(AuthenticatedExtended(target, payload)) = 2 + Len(payload)
  <2>1. <<"to", target[2]>> \in {"to", "data"} \X Nat
    BY <1>4
  <2> QED BY <1>1, <1>2, <2>1, ConcatProperties DEF AuthenticatedExtended, Covered
<1> QED BY <1>3, <1>4

LEMMA FirstTagFacts ==
  ASSUME NEW o \in Origins, Admissible(o)
  PROVE  /\ FirstTag(o) \in Seq(Units) /\ Len(FirstTag(o)) = TagLen[o.form]
         /\ FirstBytes(o) \in Covered
         /\ Len(FirstBytes(o)) = Len(o.payload) + (IF o.form = "compact" THEN 1 ELSE 2)
         /\ FirstTag(o)[1] = <<"mac", 1, FirstBytes(o)>>
         /\ FirstTag(o)[2] = <<"mac", 2, FirstBytes(o)>>
         /\ o.form = "extended" => FirstTag(o)[3] = <<"mac", 3, FirstBytes(o)>>
<1>1. o.form \in Forms /\ o.payload \in Seq(DataUnits) /\ o.target \in TargetsOf(o.form)
  BY OriginFacts
<1>2. PICK p, t : p \in Seq(DataUnits) /\ p = o.payload /\ t = o.target
  BY <1>1
<1>2a. p \in Seq(DataUnits)
  BY <1>2
<1>3. PICK k \in Nat : k = Len(p)
  BY <1>2a
<1>4. CASE o.form = "compact"
  <2>1. t[1] \in Nat
    BY <1>1, <1>2, <1>4, TargetFacts
  <2>2. AuthenticatedCompact(t, p) \in Covered /\ Len(AuthenticatedCompact(t, p)) = 1 + Len(p)
    BY <1>2a, <2>1, CoveredFacts
  <2>3. PICK b \in Covered : b = FirstBytes(o) /\ Len(b) = k + 1
    BY <1>2, <1>3, <1>4, <2>2 DEF FirstBytes
  <2>4. PICK m : m = Mac("compact", b)
    OBVIOUS
  <2>5. TagLen["compact"] = 2 /\ "compact" \in Forms
    BY FormFacts DEF Forms
  <2>6. m \in Seq(Units) /\ Len(m) = 2 /\ \A i \in 1..2 : m[i] = <<"mac", i, b>>
    <3>1. m \in Seq(Units) /\ Len(m) = TagLen["compact"]
      BY <2>4, <2>5, MacFacts
    <3>2. \A i \in 1..TagLen["compact"] : m[i] = <<"mac", i, b>>
      BY <2>4, <2>5, MacFacts
    <3> QED BY <2>5, <3>1, <3>2
  <2>7. m[1] = <<"mac", 1, b>> /\ m[2] = <<"mac", 2, b>>
    BY <2>6
  <2>8. m = FirstTag(o)
    BY <1>4, <2>3, <2>4 DEF FirstTag
  <2> QED BY <1>2, <1>3, <1>4, <2>3, <2>5, <2>6, <2>7, <2>8
<1>5. CASE o.form = "extended"
  <2>1. t[1] \in Nat /\ t[2] \in Nat
    BY <1>1, <1>2, <1>5, TargetFacts
  <2>2. /\ AuthenticatedExtended(t, p) \in Covered
        /\ Len(AuthenticatedExtended(t, p)) = 2 + Len(p)
    BY <1>2a, <2>1, CoveredFacts
  <2>3. PICK b \in Covered : b = FirstBytes(o) /\ Len(b) = k + 2
    BY <1>2, <1>3, <1>5, <2>2 DEF FirstBytes
  <2>4. PICK m : m = Mac("extended", b)
    OBVIOUS
  <2>5. TagLen["extended"] = 4 /\ "extended" \in Forms
    BY FormFacts DEF Forms
  <2>6. m \in Seq(Units) /\ Len(m) = 4 /\ \A i \in 1..4 : m[i] = <<"mac", i, b>>
    <3>1. m \in Seq(Units) /\ Len(m) = TagLen["extended"]
      BY <2>4, <2>5, MacFacts
    <3>2. \A i \in 1..TagLen["extended"] : m[i] = <<"mac", i, b>>
      BY <2>4, <2>5, MacFacts
    <3> QED BY <2>5, <3>1, <3>2
  <2>7. m[1] = <<"mac", 1, b>> /\ m[2] = <<"mac", 2, b>> /\ m[3] = <<"mac", 3, b>>
    BY <2>6
  <2>8. m = FirstTag(o)
    BY <1>5, <2>3, <2>4 DEF FirstTag
  <2> QED BY <1>2, <1>3, <1>5, <2>3, <2>5, <2>6, <2>7, <2>8
<1> QED BY <1>1, <1>4, <1>5, FormFacts

LEMMA MacUnit ==
  ASSUME NEW b, NEW i
  PROVE  /\ <<"mac", i, b>>[1] = "mac" /\ <<"mac", i, b>>[2] = i /\ <<"mac", i, b>>[3] = b
         /\ <<"mac", i, b>> # <<"zero">>
         /\ i # 2 => ~Second(<<"mac", i, b>>)
         /\ i = 2 => Second(<<"mac", i, b>>)
<1>1. <<"mac", i, b>>[1] = "mac" /\ <<"mac", i, b>>[2] = i /\ <<"mac", i, b>>[3] = b
  OBVIOUS
<1>2. <<"zero">>[1] = "zero"
  OBVIOUS
<1>3. <<"mac", i, b>> # <<"zero">>
  BY <1>1, <1>2
<1> QED BY <1>1, <1>3 DEF Second

\* Frames an originator's tag can still be in.
Reachable(o, form, compact) == o.form = "extended" /\ ~compact => form = "extended"

LEMMA TagAtFacts ==
  ASSUME NEW o \in Origins, Admissible(o), NEW form \in Forms, NEW compact \in BOOLEAN,
         Reachable(o, form, compact)
  PROVE  /\ TagAt(o, form, compact) \in Seq(Units)
         /\ TagAt(o, form, compact) # << >> <=> o.signed
         /\ Len(TagAt(o, form, compact)) = 0 \/ Len(TagAt(o, form, compact)) = TagLen[form]
         /\ o.signed =>
              /\ Len(TagAt(o, form, compact)) = TagLen[form]
              /\ ~Second(TagAt(o, form, compact)[1])
              /\ TagAt(o, form, compact)[1] = <<"mac", 1, FirstBytes(o)>>
              /\ form = "extended" /\ (o.form = "compact" \/ compact) =>
                   TagAt(o, form, compact)[3] = <<"zero">>
<1>1. CASE ~o.signed
  BY <1>1 DEF TagAt
<1>2. CASE o.signed
  <2>1. PICK g \in Seq(Units) : g = FirstTag(o)
    BY FirstTagFacts
  <2>2. Len(g) = TagLen[o.form] /\ g[1] = <<"mac", 1, FirstBytes(o)>>
    BY <2>1, FirstTagFacts
  <2>3. o.form \in Forms
    BY OriginFacts
  <2>4. (o.form = "compact" \/ o.form = "extended") /\ (form = "compact" \/ form = "extended")
    BY <2>3, FormFacts
  <2>5. /\ TagLen["compact"] = 2 /\ TagLen["extended"] = 4
        /\ "compact" \in Forms /\ "extended" \in Forms
    BY FormFacts DEF Forms
  <2>6. PICK x : x = TagAt(o, form, compact)
    OBVIOUS
  <2>7. /\ x \in Seq(Units) /\ Len(x) = TagLen[form] /\ x[1] = <<"mac", 1, FirstBytes(o)>>
        /\ form = "extended" /\ (o.form = "compact" \/ compact) => x[3] = <<"zero">>
    <3>1. CASE o.form = form /\ (form = "compact" \/ ~compact)
      <4>1. x = g
        BY <1>2, <2>1, <2>6, <3>1 DEF TagAt
      <4> QED BY <2>2, <2>4, <3>1, <4>1
    <3>2. CASE o.form = "compact" /\ form = "extended"
      <4>1. x = Widen(g)
        BY <1>2, <2>1, <2>6, <3>2 DEF TagAt
      <4>2. Len(g) = 2
        BY <2>2, <2>5, <3>2
      <4>3. x \in Seq(Units) /\ Len(x) = 4 /\ x[1] = g[1] /\ x[3] = <<"zero">>
        BY <4>1, <4>2, WidenFacts
      <4> QED BY <2>2, <2>5, <3>2, <4>3
    <3>3. CASE o.form = "extended" /\ form = "compact"
      <4>1. x = Narrow(g)
        BY <1>2, <2>1, <2>6, <3>3 DEF TagAt
      <4>2. Len(g) = 4
        BY <2>2, <2>5, <3>3
      <4>3. x \in Seq(Units) /\ Len(x) = 2 /\ x[1] = g[1]
        BY <4>1, <4>2, NarrowFacts
      <4> QED BY <2>2, <2>5, <3>3, <4>3
    <3>4. CASE o.form = "extended" /\ form = "extended" /\ compact
      <4>1. PICK y : y = Narrow(g)
        OBVIOUS
      <4>2. x = Widen(y)
        BY <1>2, <2>1, <2>6, <3>4, <4>1 DEF TagAt
      <4>3. Len(g) = 4
        BY <2>2, <2>5, <3>4
      <4>4. y \in Seq(Units) /\ Len(y) = 2 /\ y[1] = g[1]
        BY <4>1, <4>3, NarrowFacts
      <4>5. x \in Seq(Units) /\ Len(x) = 4 /\ x[1] = y[1] /\ x[3] = <<"zero">>
        BY <4>2, <4>4, WidenFacts
      <4> QED BY <2>2, <2>5, <3>4, <4>4, <4>5
    <3> QED BY <2>4, <3>1, <3>2, <3>3, <3>4
  <2>8. ~Second(x[1])
    BY <2>7, MacUnit
  <2>9. x # << >>
    <3>1. Len(x) # 0
      BY <2>4, <2>5, <2>7
    <3> QED BY <2>7, <3>1, EmptySeq
  <2> QED BY <1>2, <2>6, <2>7, <2>8, <2>9
<1>3. o.signed \in BOOLEAN
  BY OriginFacts
<1> QED BY <1>1, <1>2, <1>3

\* What the gateways do to them.
LEMMA TagAtTranscoded ==
  ASSUME NEW o \in Origins, Admissible(o), NEW compact \in BOOLEAN
  PROVE  /\ Reachable(o, "compact", compact) =>
              TagAt(o, "extended", compact) = Widen(TagAt(o, "compact", compact))
         /\ TagAt(o, "compact", TRUE) = Narrow(TagAt(o, "extended", compact))
<1>1. CASE ~o.signed
  BY <1>1 DEF TagAt, Widen, Narrow
<1>2. CASE o.signed
  <2>1. PICK g \in Seq(Units) : g = FirstTag(o)
    BY FirstTagFacts
  <2>2. Len(g) = TagLen[o.form]
    BY <2>1, FirstTagFacts
  <2>3. TagLen["compact"] = 2 /\ TagLen["extended"] = 4
    BY FormFacts DEF Forms
  <2>4. o.form = "compact" \/ o.form = "extended"
    BY OriginFacts, FormFacts
  <2>5. CASE o.form = "compact"
    <3>1. Narrow(Widen(g)) = g
      BY <2>2, <2>3, <2>5, NarrowWidened
    <3> QED BY <1>2, <2>1, <2>5, <3>1 DEF TagAt
  <2>6. CASE o.form = "extended"
    <3>1. PICK y : y = Narrow(g)
      OBVIOUS
    <3>2. y \in Seq(Units) /\ Len(y) = 2
      BY <2>2, <2>3, <2>6, <3>1, NarrowFacts
    <3>3. Narrow(Widen(y)) = y
      BY <3>2, NarrowWidened
    <3> QED BY <1>2, <2>1, <2>6, <3>1, <3>3 DEF TagAt, Reachable
  <2> QED BY <2>4, <2>5, <2>6
<1>3. o.signed \in BOOLEAN
  BY OriginFacts
<1> QED BY <1>1, <1>2, <1>3

LEMMA TargetAtTranscoded ==
  ASSUME NEW o \in Origins, Admissible(o), NEW compact \in BOOLEAN
  PROVE  /\ Reachable(o, "compact", compact) =>
              TargetAt(o, "extended", compact) = <<TargetAt(o, "compact", compact)[1], 0>>
         /\ TargetAt(o, "compact", TRUE) = <<OneTarget(TargetAt(o, "extended", compact))>>
<1>1. PICK t : t = o.target
  OBVIOUS
<1>2. o.form = "compact" \/ o.form = "extended"
  BY OriginFacts, FormFacts
<1>3. CASE o.form = "compact"
  <2>1. t = <<t[1]>>
    BY <1>1, <1>3, OriginFacts, TargetFacts
  <2>2. OneTarget(<<t[1], 0>>) = t[1]
    BY DEF OneTarget
  <2> QED BY <1>1, <1>3, <2>1, <2>2 DEF TargetAt, Reachable
<1>4. CASE o.form = "extended"
  <2>1. OneTarget(<<OneTarget(t), 0>>) = OneTarget(t)
    BY DEF OneTarget
  <2>2. <<OneTarget(t)>>[1] = OneTarget(t)
    OBVIOUS
  <2> QED BY <1>1, <1>4, <2>1, <2>2 DEF TargetAt, Reachable
<1> QED BY <1>2, <1>3, <1>4

-----------------------------------------------------------------------------
(* The actions. *)

\* What a frame that decodes gives the one who encodes it again.
LEMMA Readings ==
  ASSUME NEW f \in FrameRecords, Shaped(f), Decodes(f)
  PROVE  /\ DecodesCompact(f)
         /\ Route(f) \in Seq(RouteEntries) /\ Len(Route(f)) \in 0..MaxRoute
         /\ f.routed <=> Route(f) # << >>
         /\ Payload(f) \in Seq(Units) /\ Tag(f) \in Seq(Units)
         /\ Len(Tag(f)) = IF f.signed THEN TagLen[f.form] ELSE 0
         /\ f.signed <=> Tag(f) # << >>
         /\ f.form = "extended" => f.size = Len(Payload(f))
<1>1. DecodesCompact(f)
  BY DEF Decodes, DecodesExtended
<1>2. PICK s \in Nat, e \in Nat, m \in Nat : Decoded(f, s, e, m)
  BY <1>1, DecodeFacts
<1>3. f.form = "extended" => f.size = e - s
  BY <1>2 DEF Decoded, Decodes, DecodesExtended
<1> QED BY <1>1, <1>2, <1>3 DEF Decoded

LEMMA PrepareRelayStep ==
  ASSUME WireInv, NEW own \in HiveIds, PrepareRelay(own)
  PROVE  WireInv'
<1>1. PICK f \in FrameRecords : f = frame /\ Shaped(f) /\ Decodes(f) /\ f.form = "extended"
  BY DEF WireInv, WireTypes, PrepareRelay
<1>2. PICK o \in Origins : o = original /\ Admissible(o)
  BY DEF WireInv, WireTypes
<1>3. PICK payload \in Seq(Units), tag \in Seq(Units) :
        /\ payload = Payload(f) /\ tag = Tag(f) /\ f.size = Len(payload)
        /\ Len(tag) = 0 \/ Len(tag) = TagLen["extended"]
        /\ f.signed <=> tag # << >>
  BY <1>1, Readings
<1>4. own \in RouteEntries /\ holder \in RouteEntries
  BY WireAssumption DEF WireAssumption, RouteEntries, WireInv, WireTypes
<1>5. PICK stack \in Seq(RouteEntries) :
        /\ stack = StackOf(f) /\ Len(stack) < MaxRoute /\ stack # << >>
        /\ f.routed => stack = Route(f)
  <2>1. Len(StackOf(f)) < MaxRoute
    BY <1>1 DEF PrepareRelay
  <2>2. CASE f.routed
    <3>1. Route(f) \in Seq(RouteEntries) /\ Route(f) # << >>
      BY <1>1, <2>2, Readings
    <3> QED BY <2>1, <2>2, <3>1 DEF StackOf
  <2>3. CASE ~f.routed
    <3>1. <<holder>> \in Seq(RouteEntries) /\ <<holder>> # << >>
      BY <1>4
    <3> QED BY <2>1, <2>3, <3>1 DEF StackOf
  <2> QED BY <2>2, <2>3
<1>6. PICK l \in Nat : l = Len(stack) /\ l # 0 /\ l < MaxRoute
  BY <1>5, EmptySeq
<1>7. PICK route \in Seq(RouteEntries) :
        /\ route = Append(stack, own) /\ Len(route) = l + 1 /\ route[1] = stack[1]
        /\ route # << >>
  <2>1. PICK r : r = Append(stack, own)
    OBVIOUS
  <2>2. /\ r \in Seq(RouteEntries) /\ Len(r) = l + 1
        /\ \A i \in 1..l : r[i] = stack[i]
    BY <1>4, <1>6, <2>1, AppendProperties
  <2>3. 1 \in 1..l /\ l + 1 # 0
    BY <1>6
  <2>4. r # << >>
    BY <2>2, <2>3, EmptySeq
  <2> QED BY <2>1, <2>2, <2>3, <2>4
<1>8. Len(route) <= MaxRoute
  BY <1>6, <1>7, WireAssumption DEF WireAssumption
<1>9. PICK g : /\ g = frame'
               /\ g = EncodeExtended([f EXCEPT !.ttl = f.ttl - 1, !.k = Halved(f.k)],
                                     route, payload, tag)
  BY <1>1, <1>3, <1>5, <1>7 DEF PrepareRelay
<1>10. f.ttl \in Nat /\ f.k \in Nat /\ f.ttl > 0
  BY <1>1 DEF FrameRecords, PrepareRelay
<1>11. /\ g.form = "extended" /\ g.routed = (route # << >>) /\ g.signed = (tag # << >>)
       /\ g.ttl = f.ttl - 1 /\ g.k = Halved(f.k) /\ g.id = f.id /\ g.target = f.target
       /\ g.size = f.size /\ g.body = Body("extended", route, payload, tag)
  BY <1>1, <1>9 DEF EncodeExtended, FrameRecords
<1>12. Recoded(g, payload, "extended", route, tag)
  <2>1. "extended" \in Forms
    BY DEF Forms
  <2> QED BY <1>3, <1>8, <1>11, <2>1, RecodeFacts
<1>13. Halved(f.k) \in Nat /\ Halved(f.k) <= f.k /\ (f.k = Flood => Halved(f.k) = Flood)
  BY <1>10 DEF Halved
<1>14. g \in FrameRecords
  <2>1. g.body \in Seq(Units)
    BY <1>12 DEF Recoded
  <2>2. f.ttl - 1 \in Nat
    BY <1>10
  <2> QED BY <1>1, <1>9, <1>11, <1>13, <2>1, <2>2 DEF EncodeExtended, FrameRecords, Forms
<1>15. /\ original' = o /\ holder' = own /\ relays' = relays + 1 /\ narrowed' = narrowed
       /\ cut' = cut /\ frame' = g
  BY <1>2, <1>9 DEF PrepareRelay
<1>16. WireTypes'
  <2>1. /\ f.target \in TargetsOf("extended") /\ f.k <= o.k /\ (o.k = Flood => f.k = Flood)
        /\ relays \in Nat /\ f.ttl + relays = o.ttl /\ narrowed \in BOOLEAN
        /\ cut \in Forms \cup {"no"}
    BY <1>1, <1>2 DEF WireInv, WireTypes
  <2>2. Shaped(g)
    BY <1>12 DEF Recoded
  <2>3. o.k \in Nat
    BY <1>2, OriginFacts
  <2>4. g.k <= o.k /\ (o.k = Flood => g.k = Flood)
    BY <1>10, <1>11, <1>13, <2>1, <2>3
  <2>5. relays + 1 \in Nat /\ g.ttl + (relays + 1) = o.ttl
    <3>1. PICK t \in Nat, u \in Nat : t = f.ttl /\ u = relays /\ t + u = o.ttl /\ g.ttl = t - 1
      BY <1>10, <1>11, <2>1
    <3>2. u + 1 \in Nat /\ (t - 1) + (u + 1) = t + u
      OBVIOUS
    <3> QED BY <3>1, <3>2
  <2> QED BY <1>2, <1>11, <1>14, <1>15, <2>1, <2>2, <2>4, <2>5 DEF WireTypes
<1>17. Carried'
  <2> SUFFICES ASSUME cut = "no"
               PROVE  /\ Decodes(g) /\ Payload(g) = o.payload
                      /\ Tag(g) = TagAt(o, g.form, narrowed) /\ g.signed = o.signed
                      /\ g.target = TargetAt(o, g.form, narrowed)
                      /\ g.id % IdSpace = o.id % IdSpace
                      /\ o.routed => /\ g.routed /\ Len(Route(g)) = 1 + (relays + 1)
                                     /\ High(Route(g)[1]) = High(o.hive)
    BY <1>11, <1>15 DEF Carried
  <2>1. /\ payload = o.payload /\ tag = TagAt(o, "extended", narrowed) /\ f.signed = o.signed
        /\ f.target = TargetAt(o, "extended", narrowed) /\ f.id % IdSpace = o.id % IdSpace
        /\ o.routed => /\ f.routed /\ Len(Route(f)) = 1 + relays
                       /\ High(Route(f)[1]) = High(o.hive)
    BY <1>1, <1>2, <1>3 DEF WireInv, Carried
  <2>2. Decodes(g) /\ Payload(g) = payload /\ Tag(g) = tag /\ Len(Route(g)) = l + 1
        /\ High(Route(g)[1]) = High(stack[1])
    BY <1>3, <1>7, <1>12 DEF Recoded
  <2>3. g.signed = o.signed
    <3>1. o.signed \in BOOLEAN
      BY <1>2, OriginFacts
    <3> QED BY <1>3, <1>11, <2>1, <3>1
  <2>4. ASSUME o.routed
        PROVE  g.routed /\ Len(Route(g)) = 1 + (relays + 1) /\ High(Route(g)[1]) = High(o.hive)
    <3>1. stack = Route(f) /\ l = 1 + relays /\ relays \in Nat
      BY <1>5, <1>6, <2>1, <2>4 DEF WireInv, WireTypes
    <3>2. l + 1 = 1 + (relays + 1)
      BY <3>1
    <3> QED BY <1>7, <1>11, <2>1, <2>2, <2>4, <3>1, <3>2
  <2> QED BY <1>11, <2>1, <2>2, <2>3, <2>4
<1>18. Damaged'
  <2>1. cut # "extended"
    <3>1. ASSUME cut = "extended" PROVE FALSE
      <4>1. (f.routed /\ f.body = << >>) \/ End(f) - Start(f) < f.size
        BY <1>1, <3>1 DEF WireInv, Damaged
      <4>2. DecodesCompact(f) /\ End(f) - Start(f) = f.size /\ f.size \in Nat
        BY <1>1 DEF Decodes, DecodesExtended, FrameRecords
      <4> QED BY <4>1, <4>2 DEF DecodesCompact
    <3> QED BY <3>1
  <2>2. ASSUME cut = "compact"
        PROVE  Decodes(g) /\ \A i \in 1..Len(g.body) : ~Second(g.body[i])
    <3>1. \A i \in 1..Len(f.body) : ~Second(f.body[i])
      BY <1>1, <2>2 DEF WireInv, Damaged
    <3>2. DecodesCompact(f)
      BY <1>1, Readings
    <3>3. /\ \A j \in 1..Len(payload) : ~Second(payload[j])
          /\ \A j \in 1..Len(tag) : ~Second(tag[j])
      BY <1>1, <1>3, <3>1, <3>2, NoSecondPart
    <3> QED BY <1>12, <3>3 DEF Recoded
  <2> QED BY <1>15, <2>1, <2>2 DEF Damaged
<1> QED BY <1>16, <1>17, <1>18 DEF WireInv

SameKind(x, tag) ==
  /\ x # << >> <=> tag # << >>
  /\ (\A j \in 1..Len(tag) : ~Second(tag[j])) => \A j \in 1..Len(x) : ~Second(x[j])

LEMMA WidenedTag ==
  ASSUME NEW tag \in Seq(Units), NEW x, x = Widen(tag), Len(tag) = 0 \/ Len(tag) = 2
  PROVE  /\ x \in Seq(Units) /\ (Len(x) = 0 \/ Len(x) = 4)
         /\ SameKind(x, tag)
<1>1. CASE Len(tag) = 0
  <2>1. tag = << >>
    BY <1>1, EmptySeq
  <2>2. x = << >>
    BY <2>1 DEF Widen
  <2> QED BY <2>1, <2>2 DEF SameKind
<1>2. CASE Len(tag) = 2
  <2>1. /\ x \in Seq(Units) /\ Len(x) = 4 /\ x[1] = tag[1] /\ x[2] = tag[2]
        /\ x[3] = <<"zero">> /\ x[4] = <<"zero">>
    BY <1>2, WidenFacts
  <2>2. tag # << >> /\ x # << >>
    <3>1. Len(<< >>) = 0
      OBVIOUS
    <3>2. tag # << >>
      BY <1>2, <3>1
    <3>3. x # << >>
      <4>1. ASSUME x = << >> PROVE FALSE
        <5>1. Len(x) = 0
          BY <3>1, <4>1
        <5> QED BY <2>1, <5>1
      <4> QED BY <4>1
    <3> QED BY <3>2, <3>3
  <2>3. ASSUME \A j \in 1..Len(tag) : ~Second(tag[j]), NEW j \in 1..Len(x) PROVE ~Second(x[j])
    <3>1. ~Second(tag[1]) /\ ~Second(tag[2])
      BY <1>2, <2>3
    <3>2. j = 1 \/ j = 2 \/ j = 3 \/ j = 4
      BY <2>1, <2>3
    <3> QED BY <2>1, <3>1, <3>2, UnitFacts
  <2> QED BY <2>1, <2>2, <2>3 DEF SameKind
<1> QED BY <1>1, <1>2

LEMMA NarrowedTag ==
  ASSUME NEW tag \in Seq(Units), NEW x, x = Narrow(tag), Len(tag) = 0 \/ Len(tag) = 4
  PROVE  /\ x \in Seq(Units) /\ (Len(x) = 0 \/ Len(x) = 2)
         /\ SameKind(x, tag)
<1>1. CASE Len(tag) = 0
  <2>1. tag = << >>
    BY <1>1, EmptySeq
  <2>2. x = << >>
    BY <2>1 DEF Narrow
  <2> QED BY <2>1, <2>2 DEF SameKind
<1>2. CASE Len(tag) = 4
  <2>1. x \in Seq(Units) /\ Len(x) = 2 /\ x[1] = tag[1] /\ x[2] = tag[2]
    BY <1>2, NarrowFacts
  <2>2. tag # << >> /\ x # << >>
    <3>1. Len(<< >>) = 0
      OBVIOUS
    <3>2. tag # << >>
      BY <1>2, <3>1
    <3>3. x # << >>
      <4>1. ASSUME x = << >> PROVE FALSE
        <5>1. Len(x) = 0
          BY <3>1, <4>1
        <5> QED BY <2>1, <5>1
      <4> QED BY <4>1
    <3> QED BY <3>2, <3>3
  <2>3. ASSUME \A j \in 1..Len(tag) : ~Second(tag[j]), NEW j \in 1..Len(x) PROVE ~Second(x[j])
    <3>1. ~Second(tag[1]) /\ ~Second(tag[2])
      BY <1>2, <2>3
    <3>2. j = 1 \/ j = 2
      BY <2>1, <2>3
    <3> QED BY <2>1, <3>1, <3>2
  <2> QED BY <2>1, <2>2, <2>3 DEF SameKind
<1> QED BY <1>1, <1>2

LEMMA ToExtendedStep ==
  ASSUME WireInv, NEW gateway \in HiveIds, ToExtended(gateway)
  PROVE  WireInv'
<1>1. PICK f \in FrameRecords : f = frame /\ Shaped(f) /\ Decodes(f) /\ f.form = "compact"
  BY DEF WireInv, WireTypes, ToExtended
<1>2. PICK o \in Origins : o = original /\ Admissible(o)
  BY DEF WireInv, WireTypes
<1>3. TagLen["compact"] = 2 /\ TagLen["extended"] = 4 /\ "extended" \in Forms
  BY FormFacts DEF Forms
<1>4. PICK payload \in Seq(Units), tag \in Seq(Units), route \in Seq(RouteEntries) :
        /\ payload = Payload(f) /\ tag = Tag(f) /\ route = Route(f)
        /\ Len(tag) = 0 \/ Len(tag) = 2
        /\ f.signed <=> tag # << >>
        /\ f.routed <=> route # << >>
        /\ Len(route) <= MaxRoute
  <2>1. Len(Route(f)) \in 0..MaxRoute /\ MaxRoute \in Nat
    BY <1>1, Readings, WireAssumption DEF WireAssumption
  <2>2. Len(Route(f)) <= MaxRoute
    BY <2>1
  <2> QED BY <1>1, <1>3, <2>2, Readings
<1>5. PICK wide \in Seq(Units) :
        /\ wide = Widen(tag) /\ (Len(wide) = 0 \/ Len(wide) = 4)
        /\ wide # << >> <=> tag # << >>
        /\ (\A j \in 1..Len(tag) : ~Second(tag[j])) =>
             \A j \in 1..Len(wide) : ~Second(wide[j])
  <2>1. PICK x : x = Widen(tag)
    OBVIOUS
  <2>2. x \in Seq(Units) /\ (Len(x) = 0 \/ Len(x) = 4) /\ SameKind(x, tag)
    BY <1>4, <2>1, WidenedTag
  <2> QED BY <2>1, <2>2 DEF SameKind
<1>6. PICK g : /\ g = frame'
               /\ g = EncodeExtended([f EXCEPT !.target = <<f.target[1], 0>>,
                                               !.size = Len(payload)],
                                     route, payload, wide)
  BY <1>1, <1>4, <1>5 DEF ToExtended
<1>7. /\ g.form = "extended" /\ g.routed = (route # << >>) /\ g.signed = (wide # << >>)
      /\ g.ttl = f.ttl /\ g.k = f.k /\ g.id = f.id /\ g.target = <<f.target[1], 0>>
      /\ g.size = Len(payload) /\ g.body = Body("extended", route, payload, wide)
  BY <1>1, <1>6 DEF EncodeExtended, FrameRecords
<1>8. Recoded(g, payload, "extended", route, wide)
  <2>1. Len(wide) = 0 \/ Len(wide) = TagLen["extended"]
    BY <1>3, <1>5
  <2> QED BY <1>3, <1>4, <1>7, <2>1, RecodeFacts
<1>9. g.target \in TargetsOf("extended")
  <2>1. f.target \in TargetsOf("compact")
    BY <1>1 DEF WireInv, WireTypes
  <2>2. f.target[1] \in Targets
    BY <2>1, TargetFacts
  <2> QED BY <1>7, <2>2, TargetFacts
<1>10. g \in FrameRecords
  <2>1. g.body \in Seq(Units)
    BY <1>8 DEF Recoded
  <2>2. Len(payload) \in Nat
    OBVIOUS
  <2>3. f.ttl \in Nat /\ f.k \in Nat /\ f.id \in Nat
    BY DEF FrameRecords
  <2> QED BY <1>3, <1>6, <1>7, <1>9, <2>1, <2>2, <2>3 DEF EncodeExtended, FrameRecords
<1>11. /\ original' = o /\ holder' = gateway /\ relays' = relays /\ narrowed' = narrowed
       /\ cut' = cut /\ frame' = g
  BY <1>2, <1>6 DEF ToExtended
<1>12. WireTypes'
  <2>1. /\ f.k <= o.k /\ (o.k = Flood => f.k = Flood)
        /\ relays \in Nat /\ f.ttl + relays = o.ttl /\ narrowed \in BOOLEAN
        /\ cut \in Forms \cup {"no"}
    BY <1>1, <1>2 DEF WireInv, WireTypes
  <2>2. Shaped(g)
    BY <1>8 DEF Recoded
  <2> QED BY <1>2, <1>7, <1>9, <1>10, <1>11, <2>1, <2>2 DEF WireTypes
<1>13. Carried'
  <2> SUFFICES ASSUME cut = "no"
               PROVE  /\ Decodes(g) /\ Payload(g) = o.payload
                      /\ Tag(g) = TagAt(o, g.form, narrowed) /\ g.signed = o.signed
                      /\ g.target = TargetAt(o, g.form, narrowed)
                      /\ g.id % IdSpace = o.id % IdSpace
                      /\ o.routed => /\ g.routed /\ Len(Route(g)) = 1 + relays
                                     /\ High(Route(g)[1]) = High(o.hive)
    BY <1>7, <1>11 DEF Carried
  <2>1. /\ payload = o.payload /\ tag = TagAt(o, "compact", narrowed) /\ f.signed = o.signed
        /\ f.target = TargetAt(o, "compact", narrowed) /\ f.id % IdSpace = o.id % IdSpace
        /\ o.routed => /\ f.routed /\ Len(Route(f)) = 1 + relays
                       /\ High(Route(f)[1]) = High(o.hive)
        /\ Reachable(o, "compact", narrowed)
    BY <1>1, <1>2, <1>4 DEF WireInv, Carried, Reachable
  <2>2. /\ Decodes(g) /\ Payload(g) = payload /\ Tag(g) = wide /\ Len(Route(g)) = Len(route)
        /\ route # << >> => High(Route(g)[1]) = High(route[1])
    BY <1>4, <1>8 DEF Recoded
  <2>3. g.signed = o.signed
    <3>1. o.signed \in BOOLEAN
      BY <1>2, OriginFacts
    <3> QED BY <1>4, <1>5, <1>7, <2>1, <3>1
  <2>4. narrowed \in BOOLEAN
    BY DEF WireInv, WireTypes
  <2>5. wide = TagAt(o, "extended", narrowed) /\ g.target = TargetAt(o, "extended", narrowed)
    BY <1>2, <1>5, <1>7, <2>1, <2>4, TagAtTranscoded, TargetAtTranscoded
  <2>6. ASSUME o.routed
        PROVE  g.routed /\ Len(Route(g)) = 1 + relays /\ High(Route(g)[1]) = High(o.hive)
    BY <1>4, <1>7, <2>1, <2>2, <2>6
  <2> QED BY <1>7, <2>1, <2>2, <2>3, <2>5, <2>6
<1>14. Damaged'
  <2>1. cut # "extended"
    BY <1>1 DEF WireInv, Damaged
  <2>2. ASSUME cut = "compact"
        PROVE  Decodes(g) /\ \A i \in 1..Len(g.body) : ~Second(g.body[i])
    <3>1. \A i \in 1..Len(f.body) : ~Second(f.body[i])
      BY <1>1, <2>2 DEF WireInv, Damaged
    <3>2. DecodesCompact(f)
      BY <1>1, Readings
    <3>3. /\ \A j \in 1..Len(payload) : ~Second(payload[j])
          /\ \A j \in 1..Len(tag) : ~Second(tag[j])
      BY <1>1, <1>4, <3>1, <3>2, NoSecondPart
    <3> QED BY <1>5, <1>8, <3>3 DEF Recoded
  <2> QED BY <1>11, <2>1, <2>2 DEF Damaged
<1> QED BY <1>12, <1>13, <1>14 DEF WireInv

LEMMA LowBits ==
  ASSUME NEW i \in Nat, NEW d \in Nat \ {0}
  PROVE  i % d \in Nat /\ i % d < d /\ (i % d) % d = i % d
<1>1. PICK j \in 0..(d - 1) : j = i % d
  OBVIOUS
<1>2. j % d = j
  OBVIOUS
<1>3. j \in Nat /\ j < d
  OBVIOUS
<1> QED BY <1>1, <1>2, <1>3

LEMMA ToCompactStep ==
  ASSUME WireInv, NEW gateway \in HiveIds, ToCompact(gateway)
  PROVE  WireInv'
<1>1. PICK f \in FrameRecords : f = frame /\ Shaped(f) /\ Decodes(f) /\ f.form = "extended"
  BY DEF WireInv, WireTypes, ToCompact
<1>2. PICK o \in Origins : o = original /\ Admissible(o)
  BY DEF WireInv, WireTypes
<1>3. TagLen["compact"] = 2 /\ TagLen["extended"] = 4 /\ "compact" \in Forms
  BY FormFacts DEF Forms
<1>4. PICK payload \in Seq(Units), tag \in Seq(Units), route \in Seq(RouteEntries) :
        /\ payload = Payload(f) /\ tag = Tag(f) /\ route = Route(f)
        /\ Len(tag) = 0 \/ Len(tag) = 4
        /\ f.signed <=> tag # << >>
        /\ f.routed <=> route # << >>
        /\ Len(route) <= MaxRoute
  <2>1. Len(Route(f)) \in 0..MaxRoute /\ MaxRoute \in Nat
    BY <1>1, Readings, WireAssumption DEF WireAssumption
  <2>2. Len(Route(f)) <= MaxRoute
    BY <2>1
  <2> QED BY <1>1, <1>3, <2>2, Readings
<1>5. PICK short \in Seq(Units) :
        /\ short = Narrow(tag) /\ (Len(short) = 0 \/ Len(short) = 2)
        /\ short # << >> <=> tag # << >>
        /\ (\A j \in 1..Len(tag) : ~Second(tag[j])) =>
             \A j \in 1..Len(short) : ~Second(short[j])
  <2>1. PICK x : x = Narrow(tag)
    OBVIOUS
  <2>2. x \in Seq(Units) /\ (Len(x) = 0 \/ Len(x) = 2) /\ SameKind(x, tag)
    BY <1>4, <2>1, NarrowedTag
  <2> QED BY <2>1, <2>2 DEF SameKind
<1>6. PICK g : /\ g = frame'
               /\ g = EncodeCompact([f EXCEPT !.target = <<OneTarget(f.target)>>,
                                              !.id = NarrowId(f.id)],
                                    route, payload, short)
  BY <1>1, <1>4, <1>5 DEF ToCompact
<1>7. /\ g.form = "compact" /\ g.routed = (route # << >>) /\ g.signed = (short # << >>)
      /\ g.ttl = f.ttl /\ g.k = f.k /\ g.id = NarrowId(f.id)
      /\ g.target = <<OneTarget(f.target)>>
      /\ g.size = 0 /\ g.body = Body("compact", route, payload, short)
  BY <1>1, <1>6 DEF EncodeCompact, FrameRecords
<1>8. Recoded(g, payload, "compact", route, short)
  <2>1. Len(short) = 0 \/ Len(short) = TagLen["compact"]
    BY <1>3, <1>5
  <2> QED BY <1>3, <1>4, <1>7, <2>1, RecodeFacts
<1>9. g.target \in TargetsOf("compact")
  <2>1. f.target \in TargetsOf("extended")
    BY <1>1 DEF WireInv, WireTypes
  <2>2. f.target[1] \in Targets /\ f.target[2] \in Targets
    BY <2>1, TargetFacts
  <2>3. OneTarget(f.target) \in Targets
    BY <2>2 DEF OneTarget
  <2> QED BY <1>7, <2>3, TargetFacts
<1>10. g.id \in Nat /\ g.id < IdSpace /\ g.id % IdSpace = f.id % IdSpace
  <2>1. PICK i \in Nat, d \in Nat \ {0} : i = f.id /\ d = IdSpace
    BY WireAssumption DEF WireAssumption, FrameRecords
  <2>2. i % d \in Nat /\ i % d < d /\ (i % d) % d = i % d
    BY LowBits
  <2>3. g.id = i % d
    BY <1>7, <2>1 DEF NarrowId
  <2> QED BY <2>1, <2>2, <2>3
<1>11. g \in FrameRecords
  <2>1. g.body \in Seq(Units)
    BY <1>8 DEF Recoded
  <2>2. f.ttl \in Nat /\ f.k \in Nat
    BY DEF FrameRecords
  <2> QED BY <1>3, <1>6, <1>7, <1>9, <1>10, <2>1, <2>2 DEF EncodeCompact, FrameRecords
<1>12. /\ original' = o /\ holder' = gateway /\ relays' = relays /\ narrowed' = TRUE
       /\ cut' = cut /\ frame' = g
  BY <1>2, <1>6 DEF ToCompact
<1>13. WireTypes'
  <2>1. /\ f.k <= o.k /\ (o.k = Flood => f.k = Flood)
        /\ relays \in Nat /\ f.ttl + relays = o.ttl
        /\ cut \in Forms \cup {"no"}
    BY <1>1, <1>2 DEF WireInv, WireTypes
  <2>2. Shaped(g)
    BY <1>8 DEF Recoded
  <2> QED BY <1>2, <1>7, <1>9, <1>10, <1>11, <1>12, <2>1, <2>2 DEF WireTypes
<1>14. Carried'
  <2> SUFFICES ASSUME cut = "no"
               PROVE  /\ Decodes(g) /\ Payload(g) = o.payload
                      /\ Tag(g) = TagAt(o, g.form, TRUE) /\ g.signed = o.signed
                      /\ g.target = TargetAt(o, g.form, TRUE)
                      /\ g.id % IdSpace = o.id % IdSpace
                      /\ o.routed => /\ g.routed /\ Len(Route(g)) = 1 + relays
                                     /\ High(Route(g)[1]) = High(o.hive)
                      /\ \A i \in 1..Len(g.body) : Second(g.body[i]) => i = Len(g.body)
    BY <1>12 DEF Carried
  <2>1. /\ payload = o.payload /\ tag = TagAt(o, "extended", narrowed) /\ f.signed = o.signed
        /\ f.target = TargetAt(o, "extended", narrowed) /\ f.id % IdSpace = o.id % IdSpace
        /\ o.routed => /\ f.routed /\ Len(Route(f)) = 1 + relays
                       /\ High(Route(f)[1]) = High(o.hive)
    BY <1>1, <1>2, <1>4 DEF WireInv, Carried
  <2>2. /\ Decodes(g) /\ Payload(g) = payload /\ Tag(g) = short /\ Len(Route(g)) = Len(route)
        /\ route # << >> => High(Route(g)[1]) = High(route[1])
    BY <1>4, <1>8 DEF Recoded
  <2>3. g.signed = o.signed /\ o.signed \in BOOLEAN
    <3>1. o.signed \in BOOLEAN
      BY <1>2, OriginFacts
    <3> QED BY <1>4, <1>5, <1>7, <2>1, <3>1
  <2>4. narrowed \in BOOLEAN
    BY DEF WireInv, WireTypes
  <2>5. short = TagAt(o, "compact", TRUE) /\ g.target = TargetAt(o, "compact", TRUE)
    BY <1>2, <1>5, <1>7, <2>1, <2>4, TagAtTranscoded, TargetAtTranscoded
  <2>6. ASSUME o.routed
        PROVE  g.routed /\ Len(Route(g)) = 1 + relays /\ High(Route(g)[1]) = High(o.hive)
    BY <1>4, <1>7, <2>1, <2>2, <2>6
  <2>7. \A i \in 1..Len(g.body) : Second(g.body[i]) => i = Len(g.body)
    <3>1. \A j \in 1..Len(payload) : ~Second(payload[j])
      BY <1>2, <1>4, <2>1, OriginFacts, DataFacts
    <3>2. Reachable(o, "compact", TRUE) /\ TRUE \in BOOLEAN
      BY DEF Reachable
    <3>3. short # << >> => ~Second(short[1])
      BY <1>2, <1>3, <2>3, <2>5, <3>2, TagAtFacts
    <3> QED BY <1>8, <3>1, <3>3 DEF Recoded
  <2> QED BY <1>7, <1>10, <2>1, <2>2, <2>3, <2>5, <2>6, <2>7
<1>15. Damaged'
  <2>1. ASSUME cut = "extended" PROVE FALSE
    <3>1. (f.routed /\ f.body = << >>) \/ End(f) - Start(f) < f.size
      BY <1>1, <2>1 DEF WireInv, Damaged
    <3>2. DecodesCompact(f) /\ End(f) - Start(f) = f.size /\ f.size \in Nat
      BY <1>1 DEF Decodes, DecodesExtended, FrameRecords
    <3> QED BY <3>1, <3>2 DEF DecodesCompact
  <2>2. ASSUME cut = "compact"
        PROVE  Decodes(g) /\ \A i \in 1..Len(g.body) : ~Second(g.body[i])
    <3>1. \A i \in 1..Len(f.body) : ~Second(f.body[i])
      BY <1>1, <2>2 DEF WireInv, Damaged
    <3>2. DecodesCompact(f)
      BY <1>1, Readings
    <3>3. /\ \A j \in 1..Len(payload) : ~Second(payload[j])
          /\ \A j \in 1..Len(tag) : ~Second(tag[j])
      BY <1>1, <1>4, <3>1, <3>2, NoSecondPart
    <3> QED BY <1>5, <1>8, <3>3 DEF Recoded
  <2> QED BY <1>12, <2>1, <2>2 DEF Damaged
<1> QED BY <1>13, <1>14, <1>15 DEF WireInv

LEMMA StartIsNat ==
  ASSUME NEW f \in FrameRecords, Shaped(f), ~(f.routed /\ f.body = << >>)
  PROVE  Start(f) \in Nat
<1>1. f.form \in Forms /\ f.routed \in BOOLEAN
  BY DEF FrameRecords
<1>2. CASE ~f.routed
  BY <1>2 DEF Start
<1>3. CASE f.routed
  <2>1. f.body # << >> /\ f.body[1] \in RouteLengths
    BY <1>3 DEF Shaped
  <2>2. RouteCount(f) \in Nat
    BY <1>3, <2>1 DEF RouteCount, RouteLengths
  <2>3. PICK c \in Nat, w \in {1, 2} : c = RouteCount(f) /\ w = EntryLen[f.form]
    BY <1>1, <2>2, FormFacts
  <2>4. 1 + c * w \in Nat
    OBVIOUS
  <2> QED BY <1>3, <2>3, <2>4 DEF Start
<1> QED BY <1>1, <1>2, <1>3

LEMMA EndIsInt ==
  ASSUME NEW f \in FrameRecords
  PROVE  End(f) \in Int
<1>1. PICK m \in Nat, t \in {2, 4} : m = Len(f.body) /\ t = TagLen[f.form]
  BY FormFacts DEF FrameRecords
<1>2. m - t \in Int /\ m \in Int
  OBVIOUS
<1> QED BY <1>1, <1>2 DEF End

LEMMA CutStep ==
  ASSUME WireInv, NEW n \in 1..Len(frame.body), Cut(n)
  PROVE  WireInv'
<1>1. PICK f \in FrameRecords : f = frame /\ Shaped(f)
  BY DEF WireInv, WireTypes
<1>2. PICK b \in Seq(Units), m \in Nat : b = f.body /\ m = Len(b)
  BY DEF FrameRecords
<1>3. n \in 1..m
  BY <1>1, <1>2
<1>4. PICK k \in Nat : k = m - n /\ k < m
  BY <1>3
<1>5. PICK c : c = SubSeq(b, 1, k)
  OBVIOUS
<1>6. c \in Seq(Units) /\ Len(c) = k /\ \A i \in 1..k : c[i] = b[i]
  <2>1. PICK z \in Nat : z = 0
    OBVIOUS
  <2>2. z <= k /\ k <= m /\ z + 1 = 1 /\ k - z = k /\ \A i \in 1..k : z + i = i
    BY <1>4, <2>1
  <2>3. c = SubSeq(b, z + 1, k)
    BY <1>5, <2>2
  <2>4. c \in Seq(Units) /\ Len(c) = k - z /\ \A i \in 1..(k - z) : c[i] = b[z + i]
    BY <1>2, <2>2, <2>3, Part
  <2> QED BY <2>2, <2>4
<1>7. PICK g : g = frame' /\ g = [f EXCEPT !.body = c]
  BY <1>1, <1>2, <1>4, <1>5 DEF Cut
<1>8. /\ g \in FrameRecords
      /\ g.form = f.form /\ g.routed = f.routed /\ g.signed = f.signed /\ g.ttl = f.ttl
      /\ g.k = f.k /\ g.id = f.id /\ g.target = f.target /\ g.size = f.size /\ g.body = c
  BY <1>6, <1>7 DEF FrameRecords
<1>9. /\ original' = original /\ holder' = holder /\ relays' = relays /\ narrowed' = narrowed
      /\ cut' = f.form /\ frame' = g
  BY <1>1, <1>7 DEF Cut
<1>10. f.form \in Forms /\ f.routed \in BOOLEAN /\ f.signed \in BOOLEAN /\ f.size \in Nat
  BY DEF FrameRecords
<1>11. c # << >> => b # << >> /\ c[1] = b[1]
  <2> SUFFICES ASSUME c # << >> PROVE b # << >> /\ c[1] = b[1]
    OBVIOUS
  <2>1. k # 0
    BY <1>6, EmptySeq
  <2>2. 1 \in 1..k /\ m # 0
    BY <1>4, <2>1
  <2>3. b # << >>
    BY <1>2, <2>2, EmptySeq
  <2> QED BY <1>6, <2>2, <2>3
<1>12. (g.routed /\ c = << >>) \/ Start(g) = Start(f)
  <2>1. ASSUME ~(g.routed /\ c = << >>) PROVE RouteCount(g) = RouteCount(f)
    <3>1. CASE ~g.routed
      BY <1>8, <3>1 DEF RouteCount
    <3>2. CASE g.routed
      <4>1. g.body # << >> /\ f.body # << >> /\ g.body[1] = f.body[1] /\ f.routed
        BY <1>2, <1>8, <1>11, <2>1, <3>2
      <4> QED BY <3>2, <4>1 DEF RouteCount
    <3> QED BY <1>8, <1>10, <3>1, <3>2
  <2> QED BY <1>8, <2>1 DEF Start
<1>13. Shaped(g)
  <2> SUFFICES ASSUME g.routed, c # << >>
               PROVE  /\ c[1] \in RouteLengths
                      /\ \A i \in 2..Len(c) : i <= Start(g) => c[i] \in Halves
    BY <1>8 DEF Shaped
  <2>1. f.routed /\ b # << >> /\ c[1] = b[1] /\ Start(g) = Start(f)
    BY <1>8, <1>11, <1>12
  <2>2. b[1] \in RouteLengths /\ \A i \in 2..m : i <= Start(f) => b[i] \in Halves
    BY <1>1, <1>2, <2>1 DEF Shaped
  <2>3. ASSUME NEW i \in 2..k PROVE i \in 2..m /\ i \in 1..k
    BY <1>4
  <2> QED BY <1>6, <2>1, <2>2, <2>3
<1>14. WireTypes'
  <2>1. /\ original \in Origins /\ Admissible(original)
        /\ f.target \in TargetsOf(f.form)
        /\ f.form = "compact" => f.id < IdSpace
        /\ f.k <= original.k /\ (original.k = Flood => f.k = Flood)
        /\ holder \in HiveIds /\ relays \in Nat /\ f.ttl + relays = original.ttl
        /\ narrowed \in BOOLEAN
    BY <1>1 DEF WireInv, WireTypes
  <2> QED BY <1>8, <1>9, <1>10, <1>13, <2>1 DEF WireTypes
<1>15. Carried'
  <2>1. cut' # "no"
    BY <1>9, <1>10 DEF Forms
  <2> QED BY <2>1 DEF Carried
<1>16. ASSUME f.form = "compact"
       PROVE  \A i \in 1..k : ~Second(c[i])
  <2> TAKE i \in 1..k
  <2>1. i \in 1..m /\ i # m
    BY <1>4
  <2>2. cut # "extended"
    BY <1>1, <1>16 DEF WireInv, Damaged
  <2>3. CASE cut = "compact"
    BY <1>1, <1>2, <1>6, <2>1, <2>3 DEF WireInv, Damaged
  <2>4. CASE cut = "no"
    BY <1>1, <1>2, <1>6, <1>16, <2>1, <2>4 DEF WireInv, Carried
  <2>5. cut \in {"compact", "extended", "no"}
    BY DEF WireInv, WireTypes, Forms
  <2> QED BY <2>2, <2>3, <2>4, <2>5
<1>17. ASSUME f.form = "extended"
       PROVE  (g.routed /\ c = << >>) \/ End(g) - Start(g) < g.size
  <2> SUFFICES ASSUME ~(g.routed /\ c = << >>) PROVE End(g) - Start(g) < g.size
    OBVIOUS
  <2>1. Start(g) = Start(f)
    BY <1>12
  <2>2. ~(f.routed /\ f.body = << >>)
    <3>1. m # 0
      BY <1>3
    <3>2. b # << >>
      BY <1>2, <3>1, EmptySeq
    <3> QED BY <1>2, <3>2
  <2>3. End(f) - Start(f) <= f.size /\ Start(f) \in Int
    <3>1. CASE cut = "extended"
      <4>1. End(f) - Start(f) < f.size
        BY <1>1, <2>2, <3>1 DEF WireInv, Damaged
      <4> QED BY <1>10, <4>1, StartIsNat, EndIsInt, <1>1, <2>2
    <3>2. CASE cut # "extended"
      <4>1. Decodes(f)
        <5>1. cut = "compact" \/ cut = "no"
          BY <3>2 DEF WireInv, WireTypes, Forms
        <5> QED BY <1>1, <1>17, <5>1 DEF WireInv, Carried, Damaged
      <4>2. End(f) - Start(f) = f.size
        BY <1>17, <4>1 DEF Decodes, DecodesExtended
      <4> QED BY <1>1, <1>10, <2>2, <4>2, StartIsNat
    <3> QED BY <3>1, <3>2
  <2>4. PICK t \in {0, 2, 4} : End(f) = m - t /\ End(g) = k - t
    <3>1. CASE f.signed
      <4>1. TagLen[f.form] \in {2, 4}
        BY <1>10, FormFacts
      <4>2. End(f) = m - TagLen[f.form] /\ End(g) = k - TagLen[f.form]
        BY <1>2, <1>6, <1>8, <3>1 DEF End
      <4> QED BY <4>1, <4>2
    <3>2. CASE ~f.signed
      <4>1. End(f) = m /\ End(g) = k
        BY <1>2, <1>6, <1>8, <3>2 DEF End
      <4>2. m - 0 = m /\ k - 0 = k
        OBVIOUS
      <4> QED BY <4>1, <4>2
    <3> QED BY <1>10, <3>1, <3>2
  <2>5. PICK s \in Int, z \in Nat : s = Start(f) /\ z = f.size
    BY <1>10, <2>3
  <2>6. (m - t) - s <= z
    BY <2>3, <2>4, <2>5
  <2>7. (k - t) - s < z
    BY <1>4, <2>6
  <2> QED BY <1>8, <2>1, <2>4, <2>5, <2>7
<1>18. Damaged'
  <2>1. CASE f.form = "compact"
    BY <1>6, <1>8, <1>9, <1>16, <2>1 DEF Damaged
  <2>2. CASE f.form = "extended"
    BY <1>8, <1>9, <1>17, <2>2 DEF Damaged
  <2> QED BY <1>10, <2>1, <2>2, FormFacts
<1> QED BY <1>14, <1>15, <1>18 DEF WireInv

-----------------------------------------------------------------------------
(* The first frame. *)

FirstRoute(o) ==
  IF o.routed THEN <<IF o.form = "compact" THEN High(o.hive) ELSE o.hive>> ELSE << >>

LEMMA PlainFacts ==
  ASSUME NEW o \in Origins, Admissible(o), NEW f,
         f = IF o.form = "compact" THEN FirstCompact(o) ELSE FirstExtended(o)
  PROVE  /\ f.form = o.form /\ f.routed = (FirstRoute(o) # << >>) /\ f.signed = FALSE
         /\ f.ttl = o.ttl /\ f.k = o.k /\ f.id = o.id /\ f.target = o.target
         /\ f.size = IF o.form = "compact" THEN 0 ELSE Len(o.payload)
         /\ f.body = Body(o.form, FirstRoute(o), o.payload, << >>)
         /\ f = [form |-> f.form, routed |-> f.routed, signed |-> f.signed, ttl |-> f.ttl,
                 k |-> f.k, id |-> f.id, target |-> f.target, size |-> f.size, body |-> f.body]
<1>1. CASE o.form = "compact"
  BY <1>1 DEF FirstCompact, EncodeCompact, FirstRoute
<1>2. CASE o.form = "extended"
  BY <1>2 DEF FirstExtended, EncodeExtended, FirstRoute
<1> QED BY <1>1, <1>2, OriginFacts, FormFacts

LEMMA FirstRouteFacts ==
  ASSUME NEW o \in Origins, Admissible(o)
  PROVE  /\ FirstRoute(o) \in Seq(RouteEntries) /\ Len(FirstRoute(o)) <= MaxRoute
         /\ FirstRoute(o) # << >> <=> o.routed
         /\ o.routed => Len(FirstRoute(o)) = 1 /\ High(FirstRoute(o)[1]) = High(o.hive)
<1>1. PICK e \in RouteEntries : e = (IF o.form = "compact" THEN High(o.hive) ELSE o.hive)
                                /\ High(e) = High(o.hive)
  <2>1. High(o.hive) \in RouteEntries /\ o.hive \in RouteEntries
    BY OriginFacts DEF High, RouteEntries
  <2>2. High(High(o.hive)) = High(o.hive)
    BY DEF High
  <2> QED BY <2>1, <2>2
<1>2. MaxRoute \in Nat /\ 0 <= MaxRoute /\ 1 <= MaxRoute
  BY WireAssumption DEF WireAssumption
<1>3. CASE o.routed
  <2>1. FirstRoute(o) = <<e>>
    BY <1>1, <1>3 DEF FirstRoute
  <2>2. <<e>> \in Seq(RouteEntries) /\ Len(<<e>>) = 1 /\ <<e>> # << >> /\ <<e>>[1] = e
    OBVIOUS
  <2> QED BY <1>1, <1>2, <1>3, <2>1, <2>2
<1>4. CASE ~o.routed
  <2>1. FirstRoute(o) = << >>
    BY <1>4 DEF FirstRoute
  <2>2. << >> \in Seq(RouteEntries) /\ Len(<< >>) = 0
    OBVIOUS
  <2> QED BY <1>2, <1>4, <2>1, <2>2
<1>5. o.routed \in BOOLEAN
  BY OriginFacts
<1> QED BY <1>3, <1>4, <1>5

LEMMA FirstFrameFacts ==
  ASSUME NEW o \in Origins, Admissible(o), NEW g, g = FirstFrame(o)
  PROVE  /\ g \in FrameRecords /\ g.form = o.form /\ g.signed = o.signed
         /\ g.routed = (FirstRoute(o) # << >>)
         /\ g.ttl = o.ttl /\ g.k = o.k /\ g.id = o.id /\ g.target = o.target
         /\ Recoded(g, o.payload, o.form, FirstRoute(o), TagAt(o, o.form, FALSE))
<1>1. PICK f : f = IF o.form = "compact" THEN FirstCompact(o) ELSE FirstExtended(o)
  OBVIOUS
<1>2. PICK form \in Forms, payload \in Seq(DataUnits), route \in Seq(RouteEntries) :
        /\ form = o.form /\ payload = o.payload /\ route = FirstRoute(o)
        /\ Len(route) <= MaxRoute /\ (form = "compact" \/ form = "extended")
  BY OriginFacts, FirstRouteFacts, FormFacts
<1>3. payload \in Seq(Units)
  BY DataFacts
<1>4. PICK tag \in Seq(Units) :
        /\ tag = TagAt(o, form, FALSE) /\ (tag # << >> <=> o.signed)
        /\ Len(tag) = 0 \/ Len(tag) = TagLen[form]
  <2>1. Reachable(o, form, FALSE) /\ FALSE \in BOOLEAN
    BY <1>2 DEF Reachable
  <2> QED BY <1>2, <2>1, TagAtFacts
<1>5. o.signed \in BOOLEAN
  BY OriginFacts
<1>6. /\ f.form = form /\ f.routed = (route # << >>) /\ f.signed = FALSE
      /\ f.ttl = o.ttl /\ f.k = o.k /\ f.id = o.id /\ f.target = o.target
      /\ f.size = IF form = "compact" THEN 0 ELSE Len(payload)
      /\ f.body = Body(form, route, payload, << >>)
      /\ f = [form |-> f.form, routed |-> f.routed, signed |-> f.signed, ttl |-> f.ttl,
              k |-> f.k, id |-> f.id, target |-> f.target, size |-> f.size, body |-> f.body]
  BY <1>1, <1>2, PlainFacts
<1>7. f.body \in Seq(Units) /\ Payload(f) = payload
  <2>1. PICK none \in Seq(Units) : none = << >>
    BY EmptySeq
  <2>2. Len(none) = 0 /\ f.signed = (none # << >>) /\ f.body = Body(form, route, payload, none)
    BY <1>6, <2>1
  <2>3. form = "extended" => f.size = Len(payload)
    BY <1>6
  <2>4. Recoded(f, payload, form, route, none)
    BY <1>2, <1>3, <1>6, <2>2, <2>3, RecodeFacts
  <2> QED BY <2>4 DEF Recoded
<1>8. /\ g.form = form /\ g.routed = (route # << >>) /\ g.signed = (tag # << >>)
      /\ g.ttl = o.ttl /\ g.k = o.k /\ g.id = o.id /\ g.target = o.target
      /\ g.size = f.size /\ g.body = Body(form, route, payload, tag)
      /\ g = [form |-> g.form, routed |-> g.routed, signed |-> g.signed, ttl |-> g.ttl,
              k |-> g.k, id |-> g.id, target |-> g.target, size |-> g.size, body |-> g.body]
  <2>1. CASE ~o.signed
    <3>1. g = f /\ tag = << >>
      BY <1>1, <1>4, <2>1 DEF FirstFrame
    <3>2. FALSE = (tag # << >>)
      BY <3>1
    <3> QED BY <1>6, <3>1, <3>2
  <2>2. CASE o.signed
    <3>1. g = Signed(f)
      BY <1>1, <2>2 DEF FirstFrame
    <3>2. TagFor(f) = tag
      <4>1. tag = FirstTag(o)
        BY <1>2, <1>4, <2>2 DEF TagAt
      <4>2. CASE form = "compact"
        BY <1>2, <1>6, <1>7, <4>1, <4>2 DEF TagFor, SignCompact, FirstTag, FirstBytes
      <4>3. CASE form = "extended"
        BY <1>2, <1>6, <1>7, <4>1, <4>3 DEF TagFor, SignExtended, FirstTag, FirstBytes
      <4> QED BY <1>2, <4>2, <4>3
    <3>3. g = [f EXCEPT !.signed = TRUE, !.body = f.body \o tag]
      BY <3>1, <3>2 DEF Signed
    <3>4. f.body \o tag = Body(form, route, payload, tag)
      <4>1. PICK u \in Seq(Units) : u = RouteUnits(form, route)
        <5>1. PICK n \in Nat, w \in {1, 2} : n = Len(route) /\ w = EntryLen[form]
          BY FormFacts
        <5>2. PICK u : u = RouteUnits(form, route)
          OBVIOUS
        <5>3. u \in Seq(Units) /\ RouteField(u, form, route, n, w)
          BY <1>2, <5>1, <5>2, RouteUnitsFacts
        <5> QED BY <5>2, <5>3
      <4>2. u \o payload \in Seq(Units)
        BY <1>3, ConcatProperties
      <4>3. (u \o payload) \o << >> = u \o payload
        BY <4>2, ConcatEmptySeq
      <4> QED BY <1>6, <4>1, <4>3 DEF Body
    <3>5. tag # << >>
      BY <1>4, <2>2
    <3> QED BY <1>6, <3>3, <3>4, <3>5
  <2> QED BY <1>5, <2>1, <2>2
<1>9. Recoded(g, payload, form, route, tag)
  <2>1. form = "extended" => g.size = Len(payload)
    BY <1>6, <1>8
  <2> QED BY <1>2, <1>3, <1>4, <1>8, <2>1, RecodeFacts
<1>10. g \in FrameRecords
  <2>1. g.body \in Seq(Units)
    BY <1>9 DEF Recoded
  <2>2. o.ttl \in Nat /\ o.k \in Nat /\ o.id \in Nat /\ o.target \in TargetsOf(form)
    BY <1>2, OriginFacts
  <2>3. g.size \in Nat
    BY <1>2, <1>6, <1>8
  <2> QED BY <1>2, <1>8, <2>1, <2>2, <2>3 DEF FrameRecords
<1>11. g.signed = o.signed
  BY <1>4, <1>5, <1>8
<1>12. g.routed = (FirstRoute(o) # << >>)
  BY <1>2, <1>8
<1>13. Recoded(g, o.payload, o.form, FirstRoute(o), TagAt(o, o.form, FALSE))
  BY <1>2, <1>4, <1>9
<1>14. g.form = o.form
  BY <1>2, <1>8
<1> QED BY <1>8, <1>10, <1>11, <1>12, <1>13, <1>14

LEMMA WireInvInit == WireInit => WireInv
<1> SUFFICES ASSUME NEW o \in Origins, Sent(o) PROVE WireInv
  BY DEF WireInit
<1>1. /\ Admissible(o) /\ original = o /\ frame = FirstFrame(o) /\ holder = o.hive
      /\ relays = 0 /\ narrowed = FALSE /\ cut = "no"
  BY DEF Sent
<1>2. PICK g : g = frame
  OBVIOUS
<1>3. /\ g \in FrameRecords /\ g.form = o.form /\ g.signed = o.signed
      /\ g.routed = (FirstRoute(o) # << >>)
      /\ g.ttl = o.ttl /\ g.k = o.k /\ g.id = o.id /\ g.target = o.target
      /\ Recoded(g, o.payload, o.form, FirstRoute(o), TagAt(o, o.form, FALSE))
  BY <1>1, <1>2, FirstFrameFacts
<1>4. /\ o.form \in Forms /\ o.hive \in HiveIds /\ o.k \in Nat /\ o.ttl \in Nat
      /\ o.target \in TargetsOf(o.form) /\ o.payload \in Seq(DataUnits)
      /\ o.form = "compact" => o.id < IdSpace
  BY <1>1, OriginFacts
<1>5. o.form = "compact" \/ o.form = "extended"
  BY <1>4, FormFacts
<1>6. Shaped(g)
  BY <1>3 DEF Recoded
<1>7. WireTypes
  <2>1. o.k <= o.k /\ o.ttl + 0 = o.ttl /\ 0 \in Nat
    BY <1>4
  <2> QED BY <1>1, <1>2, <1>3, <1>4, <1>6, <2>1 DEF WireTypes
<1>8. Carried
  <2>1. /\ Decodes(g) /\ Payload(g) = o.payload /\ Tag(g) = TagAt(o, o.form, FALSE)
        /\ Len(Route(g)) = Len(FirstRoute(o))
        /\ FirstRoute(o) # << >> => High(Route(g)[1]) = High(FirstRoute(o)[1])
    BY <1>3 DEF Recoded
  <2>2. g.target = TargetAt(o, o.form, FALSE)
    BY <1>3 DEF TargetAt
  <2>3. o.routed => /\ g.routed /\ Len(Route(g)) = 1 + 0
                    /\ High(Route(g)[1]) = High(o.hive)
    <3>1. SUFFICES ASSUME o.routed
                   PROVE  g.routed /\ Len(Route(g)) = 1 + 0 /\ High(Route(g)[1]) = High(o.hive)
      OBVIOUS
    <3>2. /\ FirstRoute(o) # << >> /\ Len(FirstRoute(o)) = 1
          /\ High(FirstRoute(o)[1]) = High(o.hive)
      BY <1>1, <3>1, FirstRouteFacts
    <3>3. g.routed
      BY <1>3, <3>2
    <3> QED BY <2>1, <3>2, <3>3
  <2>4. ASSUME o.form = "compact"
        PROVE  \A i \in 1..Len(g.body) : Second(g.body[i]) => i = Len(g.body)
    <3>1. \A j \in 1..Len(o.payload) : ~Second(o.payload[j])
      BY <1>4, DataFacts
    <3>2. Reachable(o, o.form, FALSE) /\ FALSE \in BOOLEAN
      BY DEF Reachable
    <3>3. PICK tag : tag = TagAt(o, o.form, FALSE)
      OBVIOUS
    <3>4. tag # << >> => ~Second(tag[1])
      BY <1>1, <1>4, <3>2, <3>3, TagAtFacts
    <3> QED BY <1>3, <2>4, <3>1, <3>3, <3>4 DEF Recoded
  <2> QED BY <1>1, <1>2, <1>3, <2>1, <2>2, <2>3, <2>4 DEF Carried
<1>9. Damaged
  BY <1>1 DEF Damaged
<1> QED BY <1>7, <1>8, <1>9 DEF WireInv

-----------------------------------------------------------------------------
(* Theorems. *)

LEMMA WireInvNext == WireInv /\ [WireNext]_wireVars => WireInv'
<1> SUFFICES ASSUME WireInv, [WireNext]_wireVars PROVE WireInv'
  OBVIOUS
<1>1. CASE WireNext
  <2>1. ASSUME NEW h \in HiveIds, PrepareRelay(h) PROVE WireInv'
    BY <2>1, PrepareRelayStep
  <2>2. ASSUME NEW h \in HiveIds, ToExtended(h) PROVE WireInv'
    BY <2>2, ToExtendedStep
  <2>3. ASSUME NEW h \in HiveIds, ToCompact(h) PROVE WireInv'
    BY <2>3, ToCompactStep
  <2>4. ASSUME NEW n \in 1..Len(frame.body), Cut(n) PROVE WireInv'
    BY <2>4, CutStep
  <2> QED BY <1>1, <2>1, <2>2, <2>3, <2>4 DEF WireNext
<1>2. CASE UNCHANGED wireVars
  BY <1>2 DEF WireInv, WireTypes, Carried, Damaged, wireVars
<1> QED BY <1>1, <1>2

\* The invariant: what a frame is made of, what an uncut one carries, and what cutting did.
THEOREM WireInvariant == WireSpec => []WireInv
<1>1. WireInit => WireInv
  BY WireInvInit
<1>2. WireInv /\ [WireNext]_wireVars => WireInv'
  BY WireInvNext
<1> QED BY <1>1, <1>2, PTL DEF WireSpec

LEMMA TypesOfWire == WireInv => WireTypeOK
<1> SUFFICES ASSUME WireInv PROVE WireTypeOK
  OBVIOUS
<1>1. WireTypes
  BY DEF WireInv
<1>2. PICK f \in FrameRecords : f = frame
  BY <1>1 DEF WireTypes
<1>3. f.form \in Forms
  BY DEF FrameRecords
<1>4. RouteCount(f) <= MaxRoute
  <2>1. MaxRoute \in Nat
    BY WireAssumption DEF WireAssumption
  <2>2. CASE f.routed /\ f.body # << >>
    <3>1. f.body[1] \in RouteLengths
      BY <1>1, <1>2, <2>2 DEF WireTypes, Shaped
    <3>2. PICK n \in 1..MaxRoute : f.body[1] = <<"len", n>>
      BY <3>1 DEF RouteLengths
    <3> QED BY <2>2, <3>2 DEF RouteCount
  <2>3. CASE ~(f.routed /\ f.body # << >>)
    BY <2>1, <2>3 DEF RouteCount
  <2> QED BY <2>2, <2>3
<1>5. relays \in 0..MaxTtl
  <2>1. PICK t \in Nat, u \in Nat : t = frame.ttl /\ u = relays /\ t + u = original.ttl
    BY <1>1, <1>2 DEF WireTypes, FrameRecords
  <2>2. original.ttl \in 0..MaxTtl /\ MaxTtl \in Nat
    BY <1>1, OriginFacts, WireAssumption DEF WireTypes, WireAssumption
  <2>3. u \in 0..MaxTtl
    BY <2>1, <2>2
  <2> QED BY <2>1, <2>3
<1> QED BY <1>1, <1>2, <1>3, <1>4, <1>5 DEF WireTypes, WireTypeOK

\* A frame in flight has the header and the body of its form, and its K never grows.
THEOREM WireTypesHold == WireSpec => []WireTypeOK
  BY WireInvariant, TypesOfWire, PTL

LEMMA ContentOfWire == WireInv => ContentIsCarried
<1> SUFFICES ASSUME WireInv, cut = "no"
             PROVE  /\ Decodes(frame)
                    /\ Payload(frame) = original.payload
                    /\ frame.id % IdSpace = original.id % IdSpace
                    /\ (Len(original.target) = 1 \/ narrowed) =>
                         frame.target[1] = (IF Len(original.target) = 1 THEN original.target[1]
                                            ELSE OneTarget(original.target))
                    /\ frame.ttl + relays = original.ttl
                    /\ original.routed => /\ High(Route(frame)[1]) = High(original.hive)
                                          /\ Len(Route(frame)) = 1 + relays
  BY DEF ContentIsCarried
<1>1. PICK o \in Origins, f \in FrameRecords : o = original /\ f = frame /\ Admissible(o)
  BY DEF WireInv, WireTypes
<1>2. /\ Decodes(f) /\ Payload(f) = o.payload /\ f.target = TargetAt(o, f.form, narrowed)
      /\ f.id % IdSpace = o.id % IdSpace
      /\ o.routed => /\ Len(Route(f)) = 1 + relays /\ High(Route(f)[1]) = High(o.hive)
      /\ f.ttl + relays = o.ttl /\ narrowed \in BOOLEAN
  BY <1>1 DEF WireInv, WireTypes, Carried
<1>3. f.form \in Forms /\ (f.form = "compact" \/ f.form = "extended")
  BY FormFacts DEF FrameRecords
<1>4. o.form \in Forms /\ (o.form = "compact" \/ o.form = "extended")
  BY <1>1, OriginFacts, FormFacts
<1>5. o.target \in TargetsOf(o.form)
  BY <1>1, OriginFacts
<1>6. ASSUME Len(o.target) = 1 \/ narrowed
      PROVE  f.target[1] = (IF Len(o.target) = 1 THEN o.target[1] ELSE OneTarget(o.target))
  <2>1. CASE o.form = "compact"
    <3>1. Len(o.target) = 1 /\ o.target = <<o.target[1]>>
      BY <1>5, <2>1, TargetFacts
    <3>2. f.target[1] = o.target[1]
      <4>1. CASE f.form = "compact"
        BY <1>2, <2>1, <4>1 DEF TargetAt
      <4>2. CASE f.form = "extended"
        BY <1>2, <2>1, <4>2 DEF TargetAt
      <4> QED BY <1>3, <4>1, <4>2
    <3> QED BY <3>1, <3>2
  <2>2. CASE o.form = "extended"
    <3>1. Len(o.target) = 2
      BY <1>5, <2>2, TargetFacts
    <3>2. Len(o.target) # 1 /\ narrowed
      BY <1>6, <3>1
    <3>3. f.target[1] = OneTarget(o.target)
      <4>1. CASE f.form = "compact"
        BY <1>2, <2>2, <3>2, <4>1 DEF TargetAt
      <4>2. CASE f.form = "extended"
        BY <1>2, <2>2, <3>2, <4>2 DEF TargetAt
      <4> QED BY <1>3, <4>1, <4>2
    <3> QED BY <3>2, <3>3
  <2> QED BY <1>4, <2>1, <2>2
<1> QED BY <1>1, <1>2, <1>6

\* Any sequence of relays and transcodings leaves the payload, the low id bits, the
\* target and the start of the route of a frame that no link has cut.
THEOREM ContentCarried == WireSpec => []ContentIsCarried
  BY WireInvariant, ContentOfWire, PTL

\* An uncut frame verifies in the form it was signed in only.
LEMMA VerifiesAtOrigin ==
  ASSUME WireInv, cut = "no", original.signed
  PROVE  Verify(frame) <=> /\ frame.form = original.form
                           /\ original.form = "extended" => ~narrowed
<1>1. PICK o \in Origins, f \in FrameRecords : o = original /\ f = frame /\ Admissible(o)
  BY DEF WireInv, WireTypes
<1>2. /\ Payload(f) = o.payload /\ f.target = TargetAt(o, f.form, narrowed)
      /\ Tag(f) = TagAt(o, f.form, narrowed) /\ f.signed = o.signed /\ o.signed
      /\ narrowed \in BOOLEAN /\ Reachable(o, f.form, narrowed)
      /\ f.target \in TargetsOf(f.form)
  BY <1>1 DEF WireInv, WireTypes, Carried, Reachable
<1>3. f.form \in Forms /\ (f.form = "compact" \/ f.form = "extended")
  BY FormFacts DEF FrameRecords
<1>4. o.form \in Forms /\ (o.form = "compact" \/ o.form = "extended")
  BY <1>1, OriginFacts, FormFacts
<1>5. PICK payload, tag : payload \in Seq(DataUnits) /\ payload = o.payload /\ tag = Tag(f)
  BY <1>1, OriginFacts
<1>6. /\ tag[1] = <<"mac", 1, FirstBytes(o)>>
      /\ f.form = "extended" /\ (o.form = "compact" \/ narrowed) => tag[3] = <<"zero">>
  BY <1>1, <1>2, <1>3, <1>5, TagAtFacts
<1>7. Verify(f) <=> tag = TagFor(f)
  BY <1>2, <1>5 DEF Verify
<1>8. ASSUME f.form = o.form, o.form = "extended" => ~narrowed PROVE tag = TagFor(f)
  <2>1. tag = FirstTag(o) /\ f.target = o.target
    BY <1>2, <1>3, <1>5, <1>8 DEF TagAt, TargetAt
  <2>2. CASE f.form = "compact"
    BY <1>2, <1>8, <2>1, <2>2 DEF TagFor, SignCompact, FirstTag, FirstBytes
  <2>3. CASE f.form = "extended"
    BY <1>2, <1>8, <2>1, <2>3 DEF TagFor, SignExtended, FirstTag, FirstBytes
  <2> QED BY <1>3, <2>2, <2>3
<1>9. ASSUME f.form = "extended", o.form = "compact" \/ narrowed PROVE tag # TagFor(f)
  <2>1. PICK b : b = AuthenticatedExtended(f.target, Payload(f))
    OBVIOUS
  <2>2. TagFor(f) = Mac("extended", b)
    BY <1>9, <2>1 DEF TagFor, SignExtended
  <2>3. TagLen["extended"] = 4 /\ 3 \in 1..4
    BY FormFacts DEF Forms
  <2>4. Mac("extended", b)[3] = <<"mac", 3, b>>
    BY <2>3 DEF Mac
  <2>5. tag[3] # Mac("extended", b)[3]
    BY <1>6, <1>9, <2>4, MacUnit
  <2> QED BY <2>2, <2>5
<1>10. ASSUME f.form = "compact", o.form = "extended" PROVE tag # TagFor(f)
  <2>1. PICK b : b = AuthenticatedCompact(f.target, payload)
    OBVIOUS
  <2>2. TagFor(f) = Mac("compact", b)
    BY <1>2, <1>5, <1>10, <2>1 DEF TagFor, SignCompact
  <2>3. TagLen["compact"] = 2 /\ 1 \in 1..2
    BY FormFacts DEF Forms
  <2>4. Mac("compact", b)[1] = <<"mac", 1, b>>
    BY <2>3 DEF Mac
  <2>5. PICK k \in Nat : k = Len(payload)
    BY <1>5
  <2>6. f.target[1] \in Nat
    BY <1>2, <1>10, TargetFacts
  <2>7. Len(b) = 1 + k
    BY <1>5, <2>1, <2>5, <2>6, CoveredFacts
  <2>8. Len(FirstBytes(o)) = k + 2
    BY <1>1, <1>5, <1>10, <2>5, FirstTagFacts
  <2>9. b # FirstBytes(o)
    BY <2>7, <2>8
  <2>10. <<"mac", 1, b>> # <<"mac", 1, FirstBytes(o)>>
    BY <2>9
  <2> QED BY <1>6, <2>2, <2>4, <2>10
<1> QED BY <1>1, <1>2, <1>3, <1>4, <1>7, <1>8, <1>9, <1>10

LEMMA VouchingOfWire == WireInv => TagsVouchForOrigin
<1> SUFFICES ASSUME WireInv PROVE TagsVouchForOrigin
  OBVIOUS
<1>1. PICK o \in Origins, f \in FrameRecords :
        o = original /\ f = frame /\ Admissible(o) /\ Shaped(f)
  BY DEF WireInv, WireTypes
<1>2. f.signed \in BOOLEAN /\ f.form \in Forms /\ f.size \in Nat
  BY DEF FrameRecords
<1>3. Classify(f) = "SameGroup" <=> Verify(f)
  BY <1>2 DEF Classify, Verify
<1>4. cut \in {"compact", "extended", "no"} /\ narrowed \in BOOLEAN
  BY DEF WireInv, WireTypes, Forms
<1>5. ASSUME cut = "extended" PROVE ~Decodes(f)
  <2>1. /\ f.form = "extended"
        /\ (f.routed /\ f.body = << >>) \/ End(f) - Start(f) < f.size
    BY <1>1, <1>5 DEF WireInv, Damaged
  <2>2. SUFFICES ASSUME Decodes(f) PROVE FALSE
    OBVIOUS
  <2>3. DecodesCompact(f) /\ End(f) - Start(f) = f.size
    BY <2>1, <2>2 DEF Decodes, DecodesExtended
  <2> QED BY <1>2, <2>1, <2>3 DEF DecodesCompact
<1>6. ASSUME cut = "compact", Decodes(f) PROVE ~Verify(f)
  <2>1. SUFFICES ASSUME Verify(f) PROVE FALSE
    OBVIOUS
  <2>2. f.signed /\ Tag(f) = TagFor(f)
    BY <2>1 DEF Verify
  <2>3. \A i \in 1..Len(f.body) : ~Second(f.body[i])
    BY <1>1, <1>6 DEF WireInv, Damaged
  <2>4. /\ DecodesCompact(f) /\ Tag(f) \in Seq(Units)
        /\ Len(Tag(f)) = TagLen[f.form]
    BY <1>1, <1>6, <2>2, Readings
  <2>5. \A j \in 1..Len(Tag(f)) : ~Second(Tag(f)[j])
    BY <1>1, <2>3, <2>4, NoSecondPart
  <2>6. PICK b : TagFor(f) = Mac(f.form, b)
    <3>1. CASE f.form = "compact"
      BY <3>1 DEF TagFor, SignCompact
    <3>2. CASE f.form = "extended"
      BY <3>2 DEF TagFor, SignExtended
    <3> QED BY <1>2, <3>1, <3>2, FormFacts
  <2>7. 2 \in 1..TagLen[f.form]
    <3>1. TagLen[f.form] \in {2, 4}
      BY <1>2, FormFacts
    <3> QED BY <3>1
  <2>8. Mac(f.form, b)[2] = <<"mac", 2, b>>
    BY <2>7 DEF Mac
  <2>9. Second(Tag(f)[2])
    BY <2>2, <2>6, <2>8, MacUnit
  <2>10. ~Second(Tag(f)[2])
    BY <2>4, <2>5, <2>7
  <2> QED BY <2>9, <2>10
<1>7. ASSUME Decodes(f), Verify(f)
      PROVE  Payload(f) = o.payload /\ f.target = o.target /\ cut = "no"
  <2>1. cut = "no"
    BY <1>4, <1>5, <1>6, <1>7
  <2>2. /\ Payload(f) = o.payload /\ f.signed = o.signed
        /\ f.target = TargetAt(o, f.form, narrowed)
    BY <1>1, <2>1 DEF WireInv, Carried
  <2>3. o.signed
    BY <1>7, <2>2 DEF Verify
  <2>4. f.form = o.form /\ (o.form = "extended" => ~narrowed)
    BY <1>1, <1>7, <2>1, <2>3, VerifiesAtOrigin
  <2>5. f.target = o.target
    BY <1>2, <2>2, <2>4, FormFacts DEF TargetAt
  <2> QED BY <2>1, <2>2, <2>5
<1>8. ASSUME o.signed, cut = "no"
      PROVE  Classify(f) = "SameGroup" <=>
               /\ f.form = o.form
               /\ o.form = "extended" => ~narrowed
  BY <1>1, <1>3, <1>8, VerifiesAtOrigin
<1> QED BY <1>1, <1>3, <1>5, <1>7, <1>8 DEF TagsVouchForOrigin

\* A tag verifies in the form it was made in and nowhere else, and only over what its
\* originator sent, whatever relays, gateways and links did to the frame.
THEOREM TagsVouch == WireSpec => []TagsVouchForOrigin
  BY WireInvariant, VouchingOfWire, PTL
=============================================================================
