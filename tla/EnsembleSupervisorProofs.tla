---------------------- MODULE EnsembleSupervisorProofs ----------------------
(***************************************************************************)
(* Proofs about EnsembleSupervisor, for any number of sentants, callers    *)
(* and restart tasks, any strategy, cap, window and back-off.              *)
(*                                                                         *)
(* The work of rebuilding a sentant is handed from the caller that met its *)
(* panic to the task it spawns, or taken over by a reset; the inductive    *)
(* invariant is that a gate or a broken sentant always has somebody who    *)
(* holds that work.                                                        *)
(***************************************************************************)
EXTENDS EnsembleSupervisor, IndexInduction, FiniteSetTheorems, TLAPS

USE SupervisionAssumption

Delays == 0..MaxDelay
Gates == Delays \cup {None}

\* The times and gates of a fresh start.
LEMMA Starts ==
  /\ 0 \in Ages /\ 0 \in Delays /\ None \in Gates /\ Delays \subseteq Gates
  /\ \A d \in Delays : d # None
<1>1. 0 \in Ages /\ 0 \in Delays
  BY DEF Ages, Delays
<1>2. \A d \in Delays : d \in Int
  BY DEF Delays
<1> QED BY <1>1, <1>2 DEF Gates

-----------------------------------------------------------------------------
(* The ledger and the back-off. *)

\* Evicted takes d entries off the front, all of them older than the window.
EvictedFirst(entries, left, d) ==
  /\ left \in Seq(Ages) /\ Len(left) = Len(entries) - d
  /\ \A i \in 1..(Len(entries) - d) : left[i] = entries[i + d]
  /\ \A i \in 1..d : entries[i] > Period

LEMMA EvictedFacts ==
  ASSUME NEW entries \in Seq(Ages), NEW age \in Ages
  PROVE  \E d \in 0..Len(entries) : EvictedFirst(entries, Evicted(entries, age), d)
<1> DEFINE live == {i \in DOMAIN entries : entries[i] - age <= Period}
           first == CHOOSE i \in live : \A j \in live : i <= j
<1>1. PICK n \in Nat : /\ n = Len(entries) /\ DOMAIN entries = 1..n
                       /\ \A i \in 1..n : entries[i] \in Ages
  OBVIOUS
<1>2. \A i \in (1..n) \ live : entries[i] > Period
  BY <1>1 DEF Ages
<1>3. CASE live = {}
  <2>1. Evicted(entries, age) = << >>
    BY <1>3 DEF Evicted
  <2>2. EvictedFirst(entries, << >>, n)
    <3>1. \A i \in 1..n : entries[i] > Period
      BY <1>2, <1>3
    <3>2. << >> \in Seq(Ages) /\ Len(<< >>) = n - n /\ 1..(n - n) = {}
      OBVIOUS
    <3> QED BY <1>1, <3>1, <3>2 DEF EvictedFirst
  <2>3. n \in 0..Len(entries)
    BY <1>1
  <2> QED BY <2>1, <2>2, <2>3
<1>4. CASE live # {}
  <2>1. first \in live /\ \A j \in live : first <= j
    <3>1. live \in SUBSET (1..n)
      BY <1>1
    <3> HIDE DEF live
    <3> QED BY <1>1, <1>4, <3>1, FirstIndex
  <2>2. PICK f \in 1..n : f = first
    BY <1>1, <2>1
  <2>3. Evicted(entries, age) = SubSeq(entries, f, n)
    BY <1>1, <1>4, <2>2 DEF Evicted
  <2>4. /\ SubSeq(entries, f, n) \in Seq(Ages) /\ Len(SubSeq(entries, f, n)) = n - f + 1
        /\ \A i \in 1..(n - f + 1) : SubSeq(entries, f, n)[i] = entries[f + i - 1]
    BY <1>1
  <2>5. \A i \in 1..(f - 1) : i \in (1..n) \ live
    <3> HIDE DEF live, first
    <3> QED BY <2>1, <2>2
  <2>6. PICK left : left = SubSeq(entries, f, n)
    OBVIOUS
  <2>7. EvictedFirst(entries, left, f - 1)
    <3>1. \A i \in 1..(f - 1) : entries[i] > Period
      BY <1>2, <2>5
    <3>2. Len(left) = n - (f - 1) /\ \A i \in 1..(n - (f - 1)) : left[i] = entries[i + (f - 1)]
      <4>1. n - (f - 1) = n - f + 1 /\ \A i \in 1..(n - f + 1) : i + (f - 1) = f + i - 1
        OBVIOUS
      <4> QED BY <2>4, <2>6, <4>1
    <3> HIDE DEF live, first
    <3> QED BY <1>1, <2>4, <2>6, <3>1, <3>2 DEF EvictedFirst
  <2>8. f - 1 \in 0..Len(entries)
    BY <1>1
  <2> QED BY <2>3, <2>6, <2>7, <2>8
<1> QED BY <1>3, <1>4

\* Shifted is what it is defined by.
LEMMA ShiftedSteps ==
  Shifted = [n \in 0..31 |-> IF n = 0 THEN Base ELSE 2 * Shifted[n - 1]]
<1> DEFINE IsRun(f, k) == f = [i \in 0..k |-> IF i = 0 THEN Base ELSE 2 * f[i - 1]]
           S == {k \in 0..31 : \E f : IsRun(f, k)}
<1>1. 0 \in S
  <2>1. IsRun([i \in 0..0 |-> Base], 0)
    <3>1. \A i \in 0..0 : i = 0
      OBVIOUS
    <3> QED BY <3>1
  <2>2. 0 \in 0..31
    OBVIOUS
  <2> HIDE DEF IsRun
  <2> QED BY <2>1, <2>2
<1>2. ASSUME NEW k \in 0..(31 - 1), k \in S PROVE k + 1 \in S
  <2>1. PICK f : IsRun(f, k)
    BY <1>2
  <2> DEFINE g == [i \in 0..(k + 1) |-> IF i = k + 1 THEN 2 * f[k] ELSE f[i]]
  <2>2. \A i \in 0..(k + 1) : g[i] = IF i = 0 THEN Base ELSE 2 * g[i - 1]
    <3> TAKE i \in 0..(k + 1)
    <3>1. CASE i = k + 1
      <4>1. i # 0 /\ k \in 0..(k + 1) /\ k # k + 1 /\ i - 1 = k
        BY <3>1
      <4>2. g[k] = f[k] /\ g[i] = 2 * f[k]
        BY <3>1, <4>1
      <4> QED BY <4>1, <4>2
    <3>2. CASE i = 0
      <4>1. g[i] = f[0] /\ 0 \in 0..k
        BY <3>2
      <4>2. f[0] = Base
        BY <2>1, <4>1
      <4> QED BY <3>2, <4>1, <4>2
    <3>3. CASE i \in 1..k
      <4>1. /\ i \in 0..(k + 1) /\ i # k + 1 /\ i # 0 /\ i \in 0..k
            /\ i - 1 \in 0..(k + 1) /\ i - 1 # k + 1
        BY <3>3
      <4>2. g[i] = f[i] /\ g[i - 1] = f[i - 1]
        BY <4>1
      <4>3. f[i] = 2 * f[i - 1]
        <5> HIDE DEF g
        <5> QED BY <2>1, <4>1
      <4> HIDE DEF g
      <4> QED BY <4>1, <4>2, <4>3
    <3> QED BY <3>1, <3>2, <3>3
  <2>3. IsRun(g, k + 1)
    <3>1. g = [i \in 0..(k + 1) |-> g[i]]
      OBVIOUS
    <3> HIDE DEF g
    <3> QED BY <2>2, <3>1
  <2>4. k + 1 \in 0..31
    BY <1>2
  <2> HIDE DEF g, IsRun
  <2> QED BY <2>3, <2>4
<1>3. 31 \in S
  <2> HIDE DEF S
  <2>1. 31 \in Nat /\ 31 \in 0..31
    OBVIOUS
  <2>2. 0..31 \subseteq S
    BY <1>1, <1>2, <2>1, IndexInduction
  <2> QED BY <2>1, <2>2
<1>4. \E f : f = [i \in 0..31 |-> IF i = 0 THEN Base ELSE 2 * f[i - 1]]
  BY <1>3
<1> QED BY <1>4 DEF Shifted

\* The back-off stays under its cap.
LEMMA DelayType == \A n \in Nat : DelayFor(n) \in Delays
<1> DEFINE S == {i \in 0..31 : Shifted[i] \in Nat}
<1>1. 0 \in S
  <2>1. 0 \in 0..31
    OBVIOUS
  <2> QED BY <2>1, ShiftedSteps
<1>2. ASSUME NEW i \in 0..(31 - 1), i \in S PROVE i + 1 \in S
  <2>1. i + 1 \in 0..31 /\ i + 1 # 0 /\ (i + 1) - 1 = i
    OBVIOUS
  <2>2. Shifted[i + 1] = 2 * Shifted[i]
    BY <2>1, ShiftedSteps
  <2>3. PICK x \in Nat : x = Shifted[i]
    BY <1>2
  <2>4. 2 * x \in Nat
    OBVIOUS
  <2> QED BY <2>1, <2>2, <2>3, <2>4
<1>3. 0..31 \subseteq S
  <2> HIDE DEF S
  <2>1. 31 \in Nat
    OBVIOUS
  <2> QED BY <1>1, <1>2, <2>1, IndexInduction
<1>4. ASSUME NEW n \in Nat PROVE DelayFor(n) \in Delays
  <2>1. Least(n, 31) \in 0..31
    BY DEF Least
  <2>2. PICK x \in Nat : x = Shifted[Least(n, 31)]
    BY <1>3, <2>1
  <2> QED BY <2>2 DEF DelayFor, Least, Delays
<1> QED BY <1>4

-----------------------------------------------------------------------------
(* The crashes answered with a restart and the ledger: as long as they are in *)
(* the window the ledger has them, in their order, so there are never more of *)
(* them than records, and the last one was answered below the cap.            *)

InWindow == 0..Period

\* at tells where in the ledger each of the answered crashes is.
Places(at, some, all) ==
  /\ \A i, j \in 1..Len(some) : i < j => at[i] < at[j]
  /\ \A i \in 1..Len(some) : all[at[i]] = some[i]
Answers(some, all) ==
  /\ some \in Seq(InWindow) /\ all \in Seq(Ages)
  /\ \E at \in [1..Len(some) -> 1..Len(all)] : Places(at, some, all)

\* There are no more answered crashes than records.
LEMMA AnswersAreFew ==
  ASSUME NEW some, NEW all, Answers(some, all)
  PROVE  Len(some) <= Len(all)
<1>1. PICK m \in Nat, n \in Nat : m = Len(some) /\ n = Len(all)
  <2>1. Len(some) \in Nat /\ Len(all) \in Nat
    BY DEF Answers
  <2> QED BY <2>1
<1>2. PICK at \in [1..m -> 1..n] : Places(at, some, all)
  BY <1>1 DEF Answers
<1> DEFINE S == {i \in 0..m : i = 0 \/ at[i] >= i}
<1>3. 0 \in S
  OBVIOUS
<1>4. ASSUME NEW i \in 0..(m - 1), i \in S PROVE i + 1 \in S
  <2>1. i + 1 \in 1..m /\ i + 1 \in 0..m /\ at[i + 1] \in 1..n
    OBVIOUS
  <2>2. CASE i = 0
    BY <2>1, <2>2
  <2>3. CASE i # 0
    <3>1. i \in 1..m /\ at[i] \in 1..n /\ at[i] >= i
      BY <1>4, <2>3
    <3>2. at[i] < at[i + 1]
      BY <1>1, <1>2, <2>1, <3>1 DEF Places
    <3> QED BY <2>1, <3>1, <3>2
  <2> QED BY <2>2, <2>3
<1>5. 0..m \subseteq S
  <2> HIDE DEF S
  <2> QED BY <1>3, <1>4, IndexInduction
<1>6. CASE m = 0
  BY <1>1, <1>6
<1>7. CASE m # 0
  <2>1. m \in 0..m /\ m \in 1..m
    BY <1>7
  <2>2. at[m] >= m /\ at[m] \in 1..n
    BY <1>5, <1>7, <2>1
  <2> QED BY <1>1, <2>2
<1> QED BY <1>6, <1>7

\* Old entries that leave the ledger were not among the answered of this window.
LEMMA AnswersEvicted ==
  ASSUME NEW some, NEW all, Answers(some, all), NEW age \in Ages
  PROVE  Answers(some, Evicted(all, age))
<1>1. PICK m \in Nat, n \in Nat : m = Len(some) /\ n = Len(all)
  <2>1. Len(some) \in Nat /\ Len(all) \in Nat
    BY DEF Answers
  <2> QED BY <2>1
<1>2. PICK at \in [1..m -> 1..n] : Places(at, some, all)
  BY <1>1 DEF Answers
<1>3. PICK d \in 0..n : EvictedFirst(all, Evicted(all, age), d)
  BY <1>1, EvictedFacts DEF Answers
<1>4. PICK left : left = Evicted(all, age)
  OBVIOUS
<1>5. /\ left \in Seq(Ages) /\ Len(left) = n - d
      /\ \A i \in 1..(n - d) : left[i] = all[i + d]
      /\ \A i \in 1..d : all[i] > Period
  BY <1>1, <1>3, <1>4 DEF EvictedFirst
<1>6. \A i \in 1..m : some[i] \in InWindow /\ all[at[i]] = some[i]
  BY <1>1, <1>2 DEF Places, Answers
<1>7. \A i \in 1..m : at[i] \in 1..n /\ at[i] > d
  <2> TAKE i \in 1..m
  <2>1. at[i] \in 1..n /\ all[at[i]] \in InWindow
    BY <1>6
  <2>2. at[i] \notin 1..d
    BY <1>5, <2>1 DEF InWindow
  <2> QED BY <2>1, <2>2
<1> DEFINE to == [i \in 1..m |-> at[i] - d]
<1>8. to \in [1..m -> 1..(n - d)]
  BY <1>7
<1>9. Places(to, some, left)
  <2>1. \A i \in 1..m : to[i] = at[i] - d /\ to[i] \in 1..(n - d) /\ to[i] + d = at[i]
    BY <1>7
  <2>2. \A i, j \in 1..m : i < j => at[i] < at[j]
    BY <1>1, <1>2 DEF Places
  <2>3. \A i, j \in 1..m : i < j => to[i] < to[j]
    <3> HIDE DEF to
    <3> QED BY <1>7, <2>1, <2>2
  <2>4. \A i \in 1..m : left[to[i]] = some[i]
    <3> HIDE DEF to
    <3> QED BY <1>5, <1>6, <2>1
  <2> HIDE DEF to
  <2> QED BY <1>1, <2>3, <2>4 DEF Places
<1> HIDE DEF to
<1> QED BY <1>1, <1>4, <1>5, <1>8, <1>9 DEF Answers

\* A crash is recorded at the end of the ledger, and answered or not.
LEMMA AnswersRecorded ==
  ASSUME NEW some, NEW all, Answers(some, all), NEW age \in Ages
  PROVE  /\ Answers(some, Append(all, age))
         /\ age <= Period => Answers(Append(some, age), Append(all, age))
<1>1. PICK m \in Nat, n \in Nat : m = Len(some) /\ n = Len(all)
  <2>1. Len(some) \in Nat /\ Len(all) \in Nat
    BY DEF Answers
  <2> QED BY <2>1
<1>2. PICK at \in [1..m -> 1..n] : Places(at, some, all)
  BY <1>1 DEF Answers
<1>3. /\ \A i, j \in 1..m : i < j => at[i] < at[j]
      /\ \A i \in 1..m : at[i] \in 1..n /\ all[at[i]] = some[i]
  BY <1>1, <1>2 DEF Places
<1>4. PICK longer : longer = Append(all, age)
  OBVIOUS
<1>5. /\ longer \in Seq(Ages) /\ Len(longer) = n + 1 /\ longer[n + 1] = age
      /\ \A i \in 1..n : longer[i] = all[i]
  BY <1>1, <1>4 DEF Answers
<1>6. Answers(some, longer)
  <2>1. at \in [1..m -> 1..(n + 1)]
    BY <1>3
  <2>2. Places(at, some, longer)
    BY <1>1, <1>3, <1>5 DEF Places
  <2> QED BY <1>1, <1>5, <2>1, <2>2 DEF Answers
<1>7. ASSUME age <= Period PROVE Answers(Append(some, age), longer)
  <2>1. PICK more : more = Append(some, age)
    OBVIOUS
  <2>2. age \in InWindow
    BY <1>7 DEF Ages, InWindow
  <2>3. /\ more \in Seq(InWindow) /\ Len(more) = m + 1 /\ more[m + 1] = age
        /\ \A i \in 1..m : more[i] = some[i]
    BY <1>1, <2>1, <2>2 DEF Answers
  <2> DEFINE to == [i \in 1..(m + 1) |-> IF i = m + 1 THEN n + 1 ELSE at[i]]
  <2>4. \A i \in 1..(m + 1) : IF i = m + 1 THEN to[i] = n + 1
                              ELSE i \in 1..m /\ to[i] = at[i]
    OBVIOUS
  <2>5. to \in [1..(m + 1) -> 1..(n + 1)]
    <3>1. \A i \in 1..(m + 1) : to[i] \in 1..(n + 1)
      <4> HIDE DEF to
      <4> QED BY <1>3, <2>4
    <3>2. to = [i \in 1..(m + 1) |-> to[i]]
      OBVIOUS
    <3> HIDE DEF to
    <3> QED BY <3>1, <3>2
  <2>6. \A i, j \in 1..(m + 1) : i < j => to[i] < to[j]
    <3> HIDE DEF to
    <3> TAKE i, j \in 1..(m + 1)
    <3> HAVE i < j
    <3>1. i \in 1..m /\ to[i] = at[i] /\ at[i] \in 1..n
      BY <1>3, <2>4
    <3>2. CASE j = m + 1
      BY <2>4, <3>1, <3>2
    <3>3. CASE j # m + 1
      <4>1. j \in 1..m /\ to[j] = at[j]
        BY <2>4, <3>3
      <4> QED BY <1>3, <3>1, <4>1
    <3> QED BY <3>2, <3>3
  <2>7. \A i \in 1..(m + 1) : longer[to[i]] = more[i]
    <3> HIDE DEF to
    <3> TAKE i \in 1..(m + 1)
    <3>1. CASE i = m + 1
      BY <1>5, <2>3, <2>4, <3>1
    <3>2. CASE i # m + 1
      <4>1. i \in 1..m /\ to[i] = at[i]
        BY <2>4, <3>2
      <4> QED BY <1>3, <1>5, <2>3, <4>1
    <3> QED BY <3>1, <3>2
  <2>8. Places(to, more, longer)
    <3> HIDE DEF to
    <3> QED BY <2>3, <2>6, <2>7 DEF Places
  <2> HIDE DEF to
  <2> QED BY <1>5, <2>1, <2>3, <2>5, <2>8 DEF Answers
<1> QED BY <1>4, <1>6, <1>7

\* Time passes: some of the answered leave the window, the ledger keeps its order.
LEMMA AnswersAged ==
  ASSUME NEW some, NEW all, Answers(some, all),
         NEW older, older = [i \in DOMAIN all |-> Older(all[i])],
         NEW young, young = ElementsAt([i \in DOMAIN some |-> some[i] + 1],
                                       {i \in DOMAIN some : some[i] < Period})
  PROVE  Answers(young, older) /\ Len(young) <= Len(some)
<1>1. PICK m \in Nat, n \in Nat : /\ m = Len(some) /\ DOMAIN some = 1..m
                                  /\ n = Len(all) /\ DOMAIN all = 1..n
  <2>1. some \in Seq(InWindow) /\ all \in Seq(Ages)
    BY DEF Answers
  <2> QED BY <2>1
<1>2. PICK at \in [1..m -> 1..n] : Places(at, some, all)
  BY <1>1 DEF Answers
<1>3. /\ \A i, j \in 1..m : i < j => at[i] < at[j]
      /\ \A i \in 1..m : at[i] \in 1..n /\ all[at[i]] = some[i] /\ some[i] \in InWindow
      /\ \A i \in 1..n : all[i] \in Ages
  <2>1. some \in Seq(InWindow) /\ all \in Seq(Ages)
    BY DEF Answers
  <2>2. (\A i \in 1..m : some[i] \in InWindow) /\ (\A i \in 1..n : all[i] \in Ages)
    BY <1>1, <2>1
  <2>3. /\ \A i, j \in 1..m : i < j => at[i] < at[j]
        /\ \A i \in 1..m : at[i] \in 1..n /\ all[at[i]] = some[i]
    BY <1>1, <1>2 DEF Places
  <2> QED BY <2>2, <2>3
<1>4. PICK aged : aged = [i \in 1..m |-> some[i] + 1]
  OBVIOUS
<1>5. PICK I : I = {i \in 1..m : some[i] < Period}
  OBVIOUS
<1>6. /\ aged \in Seq(Nat) /\ Len(aged) = m /\ I \in SUBSET (1..m)
      /\ \A i \in 1..m : aged[i] = some[i] + 1
      /\ \A i \in I : i \in 1..m /\ some[i] < Period
  <2>1. \A i \in 1..m : some[i] + 1 \in Nat
    BY <1>3 DEF InWindow
  <2>2. aged \in [1..m -> Nat]
    BY <1>4, <2>1
  <2>3. aged \in Seq(Nat) /\ Len(aged) = m
    BY <2>2, FunctionIsSeq
  <2> QED BY <1>4, <1>5, <2>3
<1>7. TakesInOrder(young, aged, I)
  <2>1. young = ElementsAt(aged, I)
    BY <1>1, <1>4, <1>5
  <2> QED BY <1>6, <2>1, ElementsAtFacts
<1>8. PICK k \in 0..m : \E sub \in [1..k -> I] :
          /\ young = [i \in 1..k |-> aged[sub[i]]]
          /\ \A i, j \in 1..k : i < j => sub[i] < sub[j]
  BY <1>6, <1>7 DEF TakesInOrder
<1>9. PICK sub \in [1..k -> I] :
          /\ young = [i \in 1..k |-> aged[sub[i]]]
          /\ \A i, j \in 1..k : i < j => sub[i] < sub[j]
  BY <1>8
<1>10. \A i \in 1..k : /\ sub[i] \in 1..m /\ young[i] = some[sub[i]] + 1
                       /\ some[sub[i]] \in 0..(Period - 1)
  <2> TAKE i \in 1..k
  <2>1. sub[i] \in I
    OBVIOUS
  <2>2. sub[i] \in 1..m /\ some[sub[i]] < Period /\ some[sub[i]] \in InWindow
    BY <1>3, <1>6, <2>1
  <2>3. young[i] = aged[sub[i]]
    BY <1>9
  <2> QED BY <1>6, <2>2, <2>3 DEF InWindow
<1>11. young \in Seq(InWindow) /\ Len(young) = k
  <2>1. ASSUME NEW i \in 1..k PROVE young[i] \in InWindow
    <3>1. PICK x \in 0..(Period - 1) : x = some[sub[i]] /\ young[i] = x + 1
      BY <1>10
    <3> QED BY <3>1 DEF InWindow
  <2>2. young = [i \in 1..k |-> young[i]]
    BY <1>9
  <2>3. young \in [1..k -> InWindow] /\ k \in Nat
    BY <2>1, <2>2
  <2> QED BY <2>3, FunctionIsSeq
<1>12. older \in Seq(Ages) /\ Len(older) = n /\ \A i \in 1..n : older[i] = Older(all[i])
  <2>1. \A i \in 1..n : Older(all[i]) \in Ages
    BY <1>3 DEF Older, Ages
  <2>2. older = [i \in 1..n |-> Older(all[i])]
    BY <1>1
  <2>3. older \in [1..n -> Ages]
    BY <2>1, <2>2
  <2> QED BY <2>2, <2>3, FunctionIsSeq
<1> DEFINE to == [i \in 1..k |-> at[sub[i]]]
<1>13. to \in [1..k -> 1..n] /\ \A i \in 1..k : to[i] = at[sub[i]]
  BY <1>3, <1>10
<1>14. \A i, j \in 1..k : i < j => to[i] < to[j]
  <2> HIDE DEF to
  <2> TAKE i, j \in 1..k
  <2> HAVE i < j
  <2>1. PICK x, y \in 1..m : x = sub[i] /\ y = sub[j] /\ x < y
    BY <1>9, <1>10
  <2>2. at[x] < at[y]
    BY <1>3, <2>1
  <2> QED BY <1>13, <2>1, <2>2
<1>15. \A i \in 1..k : older[to[i]] = young[i]
  <2> HIDE DEF to
  <2> TAKE i \in 1..k
  <2>1. to[i] \in 1..n /\ to[i] = at[sub[i]] /\ all[to[i]] = some[sub[i]]
    BY <1>3, <1>10, <1>13
  <2>2. PICK x \in 0..(Period - 1) : x = some[sub[i]] /\ young[i] = x + 1
    BY <1>10
  <2>3. Older(x) = x + 1
    BY <2>2 DEF Older
  <2> QED BY <1>12, <2>1, <2>2, <2>3
<1>16. Places(to, young, older)
  <2> HIDE DEF to
  <2> QED BY <1>11, <1>14, <1>15 DEF Places
<1> HIDE DEF to
<1>17. Answers(young, older)
  BY <1>11, <1>12, <1>13, <1>16 DEF Answers
<1> QED BY <1>1, <1>11, <1>17

-----------------------------------------------------------------------------
(* Sequences of sentants. *)

\* The work left after its first item.
LEMMA AmongTail ==
  ASSUME NEW q \in Seq(Sentants), q # << >>
  PROVE  /\ Head(q) \in Sentants /\ Tail(q) \in Seq(Sentants)
         /\ Len(q) # 1 => Tail(q) # << >>
         /\ \A s : Among(s, q) <=> s = Head(q) \/ Among(s, Tail(q))
         /\ Len(q) = 1 => \A s : ~Among(s, Tail(q))
<1>1. /\ Head(q) \in Sentants /\ Tail(q) \in Seq(Sentants)
      /\ Len(q) \in Nat \ {0} /\ DOMAIN q = 1..Len(q) /\ Head(q) = q[1]
      /\ Len(Tail(q)) = Len(q) - 1 /\ DOMAIN Tail(q) = 1..(Len(q) - 1)
      /\ \A k \in 1..(Len(q) - 1) : Tail(q)[k] = q[k + 1]
  OBVIOUS
<1>2. Len(q) # 1 => Tail(q) # << >>
  <2>1. Len(<< >>) = 0 /\ (Len(q) # 1 => Len(Tail(q)) # 0)
    BY <1>1
  <2> QED BY <2>1
<1>3. ASSUME NEW s, Among(s, q), s # Head(q) PROVE Among(s, Tail(q))
  <2>1. PICK k \in 1..Len(q) : q[k] = s
    BY <1>1, <1>3 DEF Among
  <2>2. k # 1 /\ k - 1 \in 1..(Len(q) - 1) /\ (k - 1) + 1 = k
    BY <1>1, <1>3, <2>1
  <2> QED BY <1>1, <2>1, <2>2 DEF Among
<1>4. ASSUME NEW s, s = Head(q) \/ Among(s, Tail(q)) PROVE Among(s, q)
  <2>1. 1 \in 1..Len(q) /\ \A k \in 1..(Len(q) - 1) : k + 1 \in 1..Len(q)
    BY <1>1
  <2> QED BY <1>1, <1>4, <2>1 DEF Among
<1>5. Len(q) = 1 => DOMAIN Tail(q) = {}
  BY <1>1
<1> QED BY <1>1, <1>2, <1>3, <1>4, <1>5 DEF Among

\* Nothing is left in an empty list.
LEMMA AmongNone == \A s : ~Among(s, << >>)
  BY DEF Among

\* Every strategy rebuilds the sentant that crashed.
LEMMA AffectedType ==
  ASSUME strategy \in Strategies, NEW s \in Sentants
  PROVE  /\ Affected(s) \in Seq(Sentants) /\ Affected(s) # << >>
         /\ Among(s, Affected(s))
<1>1. /\ InOrder \in Seq(Sentants) /\ Len(InOrder) = NumSentants
      /\ \A i \in 1..NumSentants : InOrder[i] = i
      /\ s \in 1..NumSentants
  BY DEF InOrder, Sentants
<1>2. CASE strategy = "one_for_one"
  <2>1. Affected(s) = <<s>>
    BY <1>2 DEF Affected
  <2>2. <<s>> \in Seq(Sentants) /\ <<s>> # << >> /\ 1 \in DOMAIN <<s>> /\ <<s>>[1] = s
    OBVIOUS
  <2> QED BY <2>1, <2>2 DEF Among
<1>3. CASE strategy = "one_for_all"
  <2>1. Affected(s) = InOrder
    BY <1>3 DEF Affected
  <2>2. InOrder # << >> /\ s \in DOMAIN InOrder /\ InOrder[s] = s
    BY <1>1 DEF InOrder, Sentants
  <2> QED BY <1>1, <2>1, <2>2 DEF Among
<1>4. CASE strategy = "rest_for_one"
  <2>1. Affected(s) = SubSeq(InOrder, s, NumSentants)
    BY <1>4 DEF Affected
  <2> DEFINE q == SubSeq(InOrder, s, NumSentants)
  <2>2. /\ q \in Seq(Sentants) /\ Len(q) = NumSentants - s + 1
        /\ DOMAIN q = 1..(NumSentants - s + 1) /\ q[1] = InOrder[s]
    BY <1>1
  <2>3. q # << >> /\ 1 \in DOMAIN q /\ q[1] = s
    BY <1>1, <2>2
  <2> HIDE DEF q
  <2> QED BY <2>1, <2>2, <2>3 DEF Among, q
<1> QED BY <1>2, <1>3, <1>4

-----------------------------------------------------------------------------
(* The shape of the state: types as far as the proofs need them, and nobody   *)
(* holds an empty list of work.                                               *)

CallerPcs == {"idle", "gate", "handle", "record", "fail", "back_off", "degrade",
              "set_gates", "spawn"}
TaskPcs == {"none", "sleep", "build", "clear", "check", "restore"}
CallerStates ==
  [pc : CallerPcs, target : Sentants, age : Ages, delay : Delays, todo : Seq(Sentants)]
TaskStates == [pc : TaskPcs, left : Delays, todo : Seq(Sentants)]
OperatorStates == [pc : {"idle", "build", "clear", "restore"}, todo : Seq(Sentants)]

\* The work a caller holds, given the pc and the lists it has.
CallerHolds(r) ==
  r.pc = "set_gates" =>
    /\ r.todo # << >>
    /\ \A s \in Sentants : Among(s, r.todo) => Among(s, Affected(r.target))

Shape ==
  /\ strategy \in Strategies
  /\ ledger \in Seq(Ages)
  /\ gate \in [Sentants -> Gates]
  /\ broken \subseteq Sentants
  /\ caller \in [Callers -> CallerStates]
  /\ task \in [Tasks -> TaskStates]
  /\ operator \in OperatorStates
  /\ \A c \in Callers : CallerHolds(caller[c])
  /\ \A t \in Tasks : task[t].pc \in {"sleep", "build", "clear"} => task[t].todo # << >>
  /\ operator.pc \in {"build", "clear"} => operator.todo # << >>

\* A caller's step keeps the shape when its own state does.
LEMMA CallerShape ==
  ASSUME Shape, NEW c \in Callers,
         caller' \in [Callers -> CallerStates], CallerHolds(caller'[c]),
         \A d \in Callers \ {c} : caller'[d] = caller[d],
         ledger' \in Seq(Ages), gate' \in [Sentants -> Gates], broken' \subseteq Sentants,
         UNCHANGED <<strategy, task, operator>>
  PROVE  Shape'
<1>1. \A x : Affected(x)' = Affected(x)
  BY DEF Affected
<1>2. \A d \in Callers : CallerHolds(caller'[d])
  BY DEF Shape
<1>3. (\A d \in Callers : CallerHolds(caller[d]))'
  BY <1>1, <1>2 DEF CallerHolds
<1> QED BY <1>3 DEF Shape

\* A task's or the operator's step keeps the shape when its own state does.
LEMMA RestarterShape ==
  ASSUME Shape, task' \in [Tasks -> TaskStates], operator' \in OperatorStates,
         \A t \in Tasks : task'[t].pc \in {"sleep", "build", "clear"} => task'[t].todo # << >>,
         operator'.pc \in {"build", "clear"} => operator'.todo # << >>,
         ledger' \in Seq(Ages), gate' \in [Sentants -> Gates], broken' \subseteq Sentants,
         UNCHANGED <<strategy, caller>>
  PROVE  Shape'
<1>1. \A x : Affected(x)' = Affected(x)
  BY DEF Affected
<1>2. (\A d \in Callers : CallerHolds(caller[d]))'
  BY <1>1 DEF Shape, CallerHolds
<1> QED BY <1>2 DEF Shape

-----------------------------------------------------------------------------
(* Who holds the work on a sentant. *)

CallerRebuilds(c, s) ==
  caller[c].pc \in {"set_gates", "spawn"} /\ Among(s, Affected(caller[c].target))
TaskRebuilds(t, s) ==
  \/ task[t].pc \in {"sleep", "build"} /\ Among(s, task[t].todo)
  \/ task[t].pc = "clear" /\ Among(s, Tail(task[t].todo))
TaskClears(t, s) == task[t].pc = "clear" /\ Head(task[t].todo) = s
OperatorRebuilds(s) ==
  \/ operator.pc = "build" /\ Among(s, operator.todo)
  \/ operator.pc = "clear" /\ Among(s, Tail(operator.todo))
OperatorClears(s) == operator.pc = "clear" /\ Head(operator.todo) = s

\* A caller that has met a panic and has not told the sentants yet.
Pending(c, s) == caller[c].target = s /\ caller[c].pc \in {"record", "back_off", "degrade"}
Calm(r) == r.pc \in {"idle", "gate", "handle"}

Safety == GatesAreLifted /\ PanickedAreRebuilt /\ SettledIsNotDegraded

\* The properties in these terms.
LEMMA Holders ==
  /\ \A s : WillRebuild(s) <=> \/ \E t \in Tasks : TaskRebuilds(t, s)
                               \/ \E c \in Callers : CallerRebuilds(c, s)
                               \/ OperatorRebuilds(s)
  /\ \A s : WillClear(s) <=> (\E t \in Tasks : TaskClears(t, s)) \/ OperatorClears(s)
  /\ PanickedAreRebuilt <=>
       \A s \in broken : WillRebuild(s) \/ failed \/ gaveUp \/ \E c \in Callers : Pending(c, s)
  /\ Settled <=> /\ \A t \in Tasks : task[t].pc = "none"
                 /\ \A c \in Callers : Calm(caller[c])
                 /\ operator.pc = "idle"
  BY DEF WillRebuild, WillClear, PanickedAreRebuilt, Settled, CallerRebuilds, TaskRebuilds,
         TaskClears, OperatorRebuilds, OperatorClears, Pending, Calm

\* A caller's step is safe when it lets go of no work, gates only what it will
\* rebuild, and stays busy while the ensemble is degraded.
LEMMA CallerSafety ==
  ASSUME Shape, Safety, NEW c \in Callers,
         UNCHANGED <<strategy, task, operator, gaveUp>>, failed => failed',
         \A d \in Callers \ {c} : caller'[d] = caller[d],
         \A s \in Sentants : CallerRebuilds(c, s) => CallerRebuilds(c, s)',
         \A s \in Sentants : gate'[s] # None => gate[s] # None \/ CallerRebuilds(c, s)',
         \A s \in broken' : s \in broken \/ Pending(c, s)',
         \A s \in Sentants : Pending(c, s) => Pending(c, s)' \/ CallerRebuilds(c, s)' \/ failed',
         status' = "degraded" => status = "degraded" \/ ~Calm(caller'[c]),
         ~Calm(caller[c]) => ~Calm(caller'[c]) \/ status' # "degraded"
  PROVE  Safety'
<1>1. \A x : Affected(x)' = Affected(x)
  BY DEF Affected
<1>2. \A s \in Sentants, d \in Callers : CallerRebuilds(d, s) => CallerRebuilds(d, s)'
  BY <1>1 DEF CallerRebuilds
<1>3. \A s \in Sentants : WillRebuild(s) => WillRebuild(s)'
  BY <1>2, Holders DEF TaskRebuilds, OperatorRebuilds, WillRebuild, CallerRebuilds
<1>4. \A s : WillClear(s) => WillClear(s)'
  BY DEF WillClear
<1>5. \A s \in Sentants : CallerRebuilds(c, s)' => WillRebuild(s)'
  BY DEF WillRebuild, CallerRebuilds
<1>6. GatesAreLifted'
  BY <1>3, <1>4, <1>5 DEF Safety, GatesAreLifted
<1>7. PanickedAreRebuilt'
  <2> SUFFICES ASSUME NEW s \in broken'
               PROVE  WillRebuild(s)' \/ failed' \/ gaveUp' \/ \E d \in Callers : Pending(d, s)'
    BY DEF PanickedAreRebuilt, Pending
  <2>1. CASE s \notin broken
    BY <2>1
  <2>2. CASE s \in broken
    <3>1. s \in Sentants
      BY <2>2 DEF Shape
    <3>2. WillRebuild(s) \/ failed \/ gaveUp \/ \E d \in Callers : Pending(d, s)
      BY <2>2, Holders DEF Safety
    <3>3. \A d \in Callers \ {c} : Pending(d, s) => Pending(d, s)'
      BY DEF Pending
    <3> QED BY <1>3, <1>5, <3>1, <3>2, <3>3
  <2> QED BY <2>1, <2>2
<1>8. SettledIsNotDegraded'
  <2> SUFFICES ASSUME Settled', status' = "degraded" PROVE gaveUp'
    BY DEF SettledIsNotDegraded
  <2>1. Calm(caller'[c])
    BY DEF Settled, Calm
  <2>2. Calm(caller[c]) /\ status = "degraded"
    BY <2>1
  <2>3. Settled
    BY <2>2 DEF Settled, Calm
  <2> QED BY <2>2, <2>3 DEF Safety, SettledIsNotDegraded
<1> QED BY <1>6, <1>7, <1>8 DEF Safety

\* A task's step is safe when it lets go of a sentant only once that is built anew
\* or by giving up, and ends while the ensemble is degraded only if others go on.
LEMMA TaskSafety ==
  ASSUME Shape, Safety, NEW t \in Tasks,
         UNCHANGED <<strategy, caller, operator, failed>>, gaveUp => gaveUp',
         \A u \in Tasks \ {t} : task'[u] = task[u],
         \A s \in Sentants : TaskRebuilds(t, s) =>
           TaskRebuilds(t, s)' \/ gaveUp' \/ (TaskClears(t, s)' /\ s \notin broken'),
         \A s \in Sentants : TaskClears(t, s) =>
           TaskClears(t, s)' \/ gate'[s] = None,
         \A s \in Sentants : gate'[s] # None => gate[s] # None,
         broken' \subseteq broken,
         task'[t].pc # "none" \/ status' # "degraded" \/ gaveUp' \/ ~Settled'
  PROVE  Safety'
<1>1. \A x : Affected(x)' = Affected(x)
  BY DEF Affected
<1>2. \A s \in Sentants : WillRebuild(s) =>
        WillRebuild(s)' \/ gaveUp' \/ (WillClear(s)' /\ s \notin broken')
  <2> SUFFICES ASSUME NEW s \in Sentants, WillRebuild(s)
               PROVE  WillRebuild(s)' \/ gaveUp' \/ (WillClear(s)' /\ s \notin broken')
    OBVIOUS
  <2>1. CASE TaskRebuilds(t, s)
    BY <2>1 DEF TaskRebuilds, TaskClears, WillRebuild, WillClear
  <2>2. ASSUME NEW u \in Tasks \ {t}, TaskRebuilds(u, s) PROVE WillRebuild(s)'
    BY <2>2 DEF TaskRebuilds, WillRebuild
  <2>3. ASSUME NEW c \in Callers, CallerRebuilds(c, s) PROVE WillRebuild(s)'
    BY <1>1, <2>3 DEF CallerRebuilds, WillRebuild
  <2>4. CASE OperatorRebuilds(s)
    BY <2>4 DEF OperatorRebuilds, WillRebuild
  <2> QED BY <2>1, <2>2, <2>3, <2>4, Holders
<1>3. \A s \in Sentants : WillClear(s) => WillClear(s)' \/ gate'[s] = None
  BY DEF WillClear, TaskClears
<1>4. GatesAreLifted'
  BY <1>2, <1>3 DEF Safety, GatesAreLifted
<1>5. PanickedAreRebuilt'
  <2> SUFFICES ASSUME NEW s \in broken'
               PROVE  WillRebuild(s)' \/ failed' \/ gaveUp' \/ \E c \in Callers : Pending(c, s)'
    BY DEF PanickedAreRebuilt, Pending
  <2>1. s \in Sentants /\ s \in broken
    BY DEF Shape
  <2>2. WillRebuild(s) \/ failed \/ gaveUp \/ \E c \in Callers : Pending(c, s)
    BY <2>1, Holders DEF Safety
  <2>3. \A c \in Callers : Pending(c, s) => Pending(c, s)'
    BY DEF Pending
  <2> QED BY <1>2, <2>1, <2>2, <2>3
<1>6. SettledIsNotDegraded'
  <2> SUFFICES ASSUME Settled', status' = "degraded" PROVE gaveUp'
    BY DEF SettledIsNotDegraded
  <2> QED BY DEF Settled
<1> QED BY <1>4, <1>5, <1>6 DEF Safety

-----------------------------------------------------------------------------
(* The steps of a caller. *)

IInv == Shape /\ Safety

\* A caller that goes on keeps all but its pc.
LEMMA GotoStep ==
  ASSUME caller \in [Callers -> CallerStates], NEW c \in Callers, NEW pc \in CallerPcs,
         GotoC(c, pc)
  PROVE  /\ caller' \in [Callers -> CallerStates]
         /\ caller'[c].pc = pc /\ caller'[c].target = caller[c].target
         /\ \A d \in Callers \ {c} : caller'[d] = caller[d]
  BY DEF GotoC, CallerStates

\* A caller that leaves is idle.
LEMMA LeaveStep ==
  ASSUME caller \in [Callers -> CallerStates], NEW c \in Callers, Leave(c)
  PROVE  /\ caller' \in [Callers -> CallerStates]
         /\ caller'[c].pc = "idle" /\ Calm(caller'[c])
         /\ \A d \in Callers \ {c} : caller'[d] = caller[d]
<1>1. IdleCaller \in CallerStates /\ IdleCaller.pc = "idle"
  BY Starts DEF IdleCaller, CallerStates, CallerPcs, Sentants
<1> QED BY <1>1 DEF Leave, Calm

\* A call that is let in, turned away or handled.
LEMMA CalmStep ==
  ASSUME IInv, NEW c \in Callers,
         (\E s \in Sentants : Admit(c, s)) \/ PassGate(c) \/ HandlerReturns(c)
  PROVE  IInv'
<1>1. /\ UNCHANGED <<strategy, status, ledger, gate, broken, task, operator, failed, gaveUp>>
      /\ Calm(caller[c])
  BY DEF Admit, PassGate, HandlerReturns, AtC, Calm, history
<1>2. /\ caller' \in [Callers -> CallerStates] /\ Calm(caller'[c])
      /\ \A d \in Callers \ {c} : caller'[d] = caller[d]
  <2>1. IdleCaller \in CallerStates /\ IdleCaller.pc = "idle" /\ Calm(IdleCaller)
    BY Starts DEF IdleCaller, CallerStates, CallerPcs, Sentants, Calm
  <2>2. CASE PassGate(c) \/ HandlerReturns(c)
    <3>1. caller \in [Callers -> CallerStates] /\ "handle" \in CallerPcs
      BY DEF IInv, Shape, CallerPcs
    <3>2. Leave(c) \/ GotoC(c, "handle")
      BY <2>2 DEF PassGate, HandlerReturns
    <3> QED BY <3>1, <3>2, LeaveStep, GotoStep DEF Calm
  <2>3. ASSUME NEW s \in Sentants, Admit(c, s)
        PROVE  /\ caller' \in [Callers -> CallerStates] /\ Calm(caller'[c])
               /\ \A d \in Callers \ {c} : caller'[d] = caller[d]
    <3> DEFINE r == [IdleCaller EXCEPT !.pc = "gate", !.target = s]
    <3>1. r \in CallerStates /\ r.pc = "gate"
      BY <2>1 DEF CallerStates, CallerPcs
    <3>2. caller' = [caller EXCEPT ![c] = r]
      BY <2>3 DEF Admit
    <3> HIDE DEF r
    <3> QED BY <3>1, <3>2 DEF IInv, Shape, Calm
  <2> QED BY <2>2, <2>3
<1>3. CallerHolds(caller'[c])
  BY <1>2 DEF Calm, CallerHolds
<1>4. Shape'
  BY <1>1, <1>2, <1>3, CallerShape DEF IInv, Shape
<1>5. \A s : ~CallerRebuilds(c, s) /\ ~Pending(c, s)
  BY <1>1 DEF CallerRebuilds, Pending, Calm
<1>6. Safety'
  BY <1>1, <1>2, <1>5, CallerSafety DEF IInv
<1> QED BY <1>4, <1>6 DEF IInv

\* A handler panics; the crash is recorded, and the ensemble fails or backs off.
LEMMA CrashStep ==
  ASSUME IInv, NEW c \in Callers,
         HandlerPanics(c) \/ Record(c) \/ Fail(c) \/ BackOff(c)
  PROVE  IInv'
<1>1. UNCHANGED <<strategy, gate, task, operator, gaveUp>> /\ (failed => failed')
  BY DEF HandlerPanics, Record, Fail, BackOff, history
<1>2. /\ caller[c] \in CallerStates /\ caller[c].age \in Ages /\ caller[c].target \in Sentants
      /\ ledger \in Seq(Ages) /\ caller \in [Callers -> CallerStates]
      /\ broken \subseteq Sentants
  BY DEF IInv, Shape, CallerStates
<1>3. Evicted(ledger, caller[c].age) \in Seq(Ages)
  BY <1>2, EvictedFacts DEF EvictedFirst
<1>5. /\ caller' \in [Callers -> CallerStates] /\ ledger' \in Seq(Ages)
      /\ broken' \subseteq Sentants
      /\ caller'[c].pc \in {"idle", "record", "fail", "back_off", "degrade"}
      /\ \A d \in Callers \ {c} : caller'[d] = caller[d]
  <2>1. CASE HandlerPanics(c)
    <3>1. GotoC(c, "record") /\ "record" \in CallerPcs /\ ledger' = ledger
      BY <2>1 DEF HandlerPanics, CallerPcs
    <3>2. broken' \subseteq Sentants
      BY <2>1, <1>2 DEF HandlerPanics
    <3> QED BY <3>1, <3>2, <1>2, GotoStep
  <2>2. CASE Record(c)
    <3>1. ledger' \in Seq(Ages)
      BY <2>2, <1>2, <1>3 DEF Record
    <3>2. broken' = broken /\ (GotoC(c, "fail") \/ GotoC(c, "back_off"))
      BY <2>2 DEF Record
    <3>3. "fail" \in CallerPcs /\ "back_off" \in CallerPcs
      BY DEF CallerPcs
    <3> QED BY <3>1, <3>2, <3>3, <1>2, GotoStep
  <2>3. CASE Fail(c)
    BY <2>3, <1>2, LeaveStep DEF Fail
  <2>4. CASE BackOff(c)
    <3> DEFINE entries == Evicted(ledger, caller[c].age)
               n == IF entries = << >> THEN 0 ELSE Len(entries) - 1
    <3>1. n \in Nat
      <4> HIDE DEF entries
      <4>1. entries \in Seq(Ages)
        BY <1>3 DEF entries
      <4> QED BY <4>1
    <3>2. DelayFor(n) \in Delays
      BY <3>1, DelayType
    <3>3. ledger' = entries /\ broken' = broken
          /\ caller' = [caller EXCEPT ![c].pc = "degrade", ![c].delay = DelayFor(n)]
      BY <2>4 DEF BackOff
    <3> HIDE DEF n, entries
    <3>4. caller' \in [Callers -> CallerStates] /\ caller'[c].pc = "degrade"
          /\ \A d \in Callers \ {c} : caller'[d] = caller[d]
      BY <3>2, <3>3, <1>2 DEF CallerStates, CallerPcs
    <3> QED BY <3>3, <3>4, <1>2, <1>3 DEF entries
  <2> QED BY <2>1, <2>2, <2>3, <2>4
<1>6. Shape'
  BY <1>1, <1>5, CallerShape DEF CallerHolds, IInv, Shape
<1>7. \A s : ~CallerRebuilds(c, s)
  BY DEF CallerRebuilds, HandlerPanics, Record, Fail, BackOff, AtC
<1>8. \A s \in broken' : s \in broken \/ Pending(c, s)'
  BY <1>2 DEF HandlerPanics, Record, Fail, BackOff, GotoC, Pending, CallerStates
<1>9. \A s : Pending(c, s) => Pending(c, s)' \/ failed'
  <2>1. caller'[c].target = caller[c].target \/ Fail(c)
    BY <1>2 DEF HandlerPanics, Record, Fail, BackOff, GotoC, CallerStates
  <2>2. \/ caller'[c].pc \in {"record", "back_off", "degrade"} \/ failed' \/ Fail(c)
    BY <1>2 DEF HandlerPanics, Record, BackOff, GotoC, CallerStates
  <2> QED BY <2>1, <2>2 DEF Pending, Fail, AtC
<1>10. /\ status' = "degraded" => status = "degraded"
       /\ Calm(caller'[c]) => status' # "degraded"
  <2>1. CASE Fail(c)
    BY <2>1 DEF Fail
  <2>2. CASE HandlerPanics(c) \/ Record(c) \/ BackOff(c)
    <3>1. status' = status
      BY <2>2 DEF HandlerPanics, Record, BackOff
    <3>2. caller'[c].pc # "idle"
      BY <2>2, <1>2 DEF HandlerPanics, Record, BackOff, GotoC, CallerStates
    <3> QED BY <3>1, <3>2, <1>5 DEF Calm
  <2> QED BY <2>1, <2>2
<1>11. Safety'
  BY <1>1, <1>5, <1>7, <1>8, <1>9, <1>10, CallerSafety DEF IInv
<1> QED BY <1>6, <1>11 DEF IInv

\* The ensemble is degraded and the gates are set: the work is the caller's now.
LEMMA GateStep ==
  ASSUME IInv, NEW c \in Callers, Degrade(c) \/ SetGate(c)
  PROVE  IInv'
<1> DEFINE r == caller[c]
<1>1. UNCHANGED <<strategy, ledger, broken, task, operator, failed, gaveUp>>
  BY DEF Degrade, SetGate, history
<1>2. /\ r \in CallerStates /\ r.target \in Sentants /\ r.todo \in Seq(Sentants)
      /\ CallerHolds(r) /\ caller \in [Callers -> CallerStates]
      /\ gate \in [Sentants -> Gates] /\ r.age \in Ages /\ r.delay \in Delays
  BY DEF IInv, Shape, CallerStates
<1>3. \A x : Affected(x)' = Affected(x)
  BY <1>1 DEF Affected
<1>4. Affected(r.target) \in Seq(Sentants) /\ Affected(r.target) # << >>
      /\ Among(r.target, Affected(r.target))
  BY <1>2, AffectedType DEF IInv, Shape
<1>5. CASE Degrade(c)
  <2>1. /\ caller' \in [Callers -> CallerStates]
        /\ caller'[c].pc = "set_gates" /\ caller'[c].target = r.target
        /\ caller'[c].todo = Affected(r.target)
        /\ \A d \in Callers \ {c} : caller'[d] = caller[d]
    BY <1>2, <1>4, <1>5 DEF Degrade, CallerStates, CallerPcs
  <2>2. r.pc = "degrade" /\ gate' = gate
    BY <1>5 DEF Degrade, AtC
  <2>3. CallerHolds(caller'[c])
    BY <2>1, <1>4 DEF CallerHolds
  <2>4. Shape'
    BY <1>1, <1>2, <2>1, <2>2, <2>3, CallerShape DEF IInv, Shape
  <2>5. \A s \in Sentants : ~CallerRebuilds(c, s) /\ (Pending(c, s) => CallerRebuilds(c, s)')
    BY <1>3, <1>4, <2>1, <2>2 DEF CallerRebuilds, Pending
  <2>6. ~Calm(caller'[c])
    BY <2>1 DEF Calm
  <2>7. Safety'
    BY <1>1, <2>1, <2>2, <2>5, <2>6, CallerSafety DEF IInv
  <2> QED BY <2>4, <2>7 DEF IInv
<1>6. CASE SetGate(c)
  <2>1. r.pc = "set_gates" /\ r.todo # << >> /\ status' = status
    BY <1>2, <1>6 DEF SetGate, AtC, CallerHolds
  <2>2. /\ Head(r.todo) \in Sentants /\ Tail(r.todo) \in Seq(Sentants)
        /\ Len(r.todo) # 1 => Tail(r.todo) # << >>
        /\ \A s : Among(s, r.todo) <=> s = Head(r.todo) \/ Among(s, Tail(r.todo))
    BY <1>2, <2>1, AmongTail
  <2>3. PICK pc \in {"set_gates", "spawn"} :
          /\ caller' = [caller EXCEPT ![c].todo = Tail(@), ![c].pc = pc]
          /\ pc = "set_gates" => Len(r.todo) # 1
    BY <1>6 DEF SetGate
  <2>4. /\ caller' \in [Callers -> CallerStates]
        /\ caller'[c].pc = pc /\ caller'[c].target = r.target
        /\ caller'[c].todo = Tail(r.todo)
        /\ \A d \in Callers \ {c} : caller'[d] = caller[d]
    BY <1>2, <2>2, <2>3 DEF CallerStates, CallerPcs
  <2>5. CallerHolds(caller'[c])
    BY <1>2, <2>1, <2>2, <2>3, <2>4 DEF CallerHolds
  <2>6. GateExpiry(c) \in Delays
    BY <1>2 DEF GateExpiry, Ages, Delays
  <2>7. gate' \in [Sentants -> Gates]
        /\ \A s \in Sentants \ {Head(r.todo)} : gate'[s] = gate[s]
    BY <1>2, <1>6, <2>2, <2>6, Starts DEF SetGate
  <2>8. Shape'
    BY <1>1, <2>4, <2>5, <2>7, CallerShape DEF IInv, Shape
  <2>9. \A s \in Sentants : CallerRebuilds(c, s) => CallerRebuilds(c, s)'
    BY <1>3, <2>3, <2>4 DEF CallerRebuilds
  <2>10. \A s \in Sentants : gate'[s] # None => gate[s] # None \/ CallerRebuilds(c, s)'
    <3>1. Among(Head(r.todo), Affected(r.target))
      BY <1>2, <2>1, <2>2 DEF CallerHolds
    <3>2. ASSUME NEW s \in Sentants, gate'[s] # None, gate[s] = None
          PROVE  CallerRebuilds(c, s)'
      <4>1. s = Head(r.todo)
        BY <2>7, <3>2
      <4> QED BY <4>1, <3>1, <1>3, <2>3, <2>4 DEF CallerRebuilds
    <3> QED BY <3>2
  <2>11. \A s : ~Pending(c, s)
    BY <2>1 DEF Pending
  <2>12. ~Calm(caller'[c])
    BY <2>3, <2>4 DEF Calm
  <2>13. Safety'
    BY <1>1, <2>1, <2>4, <2>9, <2>10, <2>11, <2>12, CallerSafety DEF IInv
  <2> QED BY <2>8, <2>13 DEF IInv
<1> QED BY <1>5, <1>6

\* The caller hands its work to a task.
LEMMA SpawnStep ==
  ASSUME IInv, NEW c \in Callers, Spawn(c)
  PROVE  IInv'
<1> DEFINE r == caller[c]
<1>1. /\ UNCHANGED <<strategy, status, ledger, gate, broken, operator, failed, gaveUp>>
      /\ r.pc = "spawn"
  BY DEF Spawn, history, AtC
<1>2. /\ r.target \in Sentants /\ r.delay \in Delays /\ caller \in [Callers -> CallerStates]
      /\ task \in [Tasks -> TaskStates]
  BY DEF IInv, Shape, CallerStates
<1>3. /\ caller' \in [Callers -> CallerStates] /\ caller'[c].pc = "idle"
      /\ \A d \in Callers \ {c} : caller'[d] = caller[d]
  BY <1>2, LeaveStep DEF Spawn
<1>4. /\ Affected(r.target) \in Seq(Sentants) /\ Affected(r.target) # << >>
      /\ \A x : Affected(x)' = Affected(x)
  BY <1>1, <1>2, AffectedType DEF IInv, Shape, Affected
<1>5. PICK t \in Tasks :
        /\ task[t].pc = "none"
        /\ task' = [task EXCEPT ![t] = [pc |-> "sleep", left |-> r.delay,
                                        todo |-> Affected(r.target)]]
  BY DEF Spawn
<1>6. /\ task' \in [Tasks -> TaskStates]
      /\ task'[t].pc = "sleep" /\ task'[t].todo = Affected(r.target)
      /\ \A u \in Tasks \ {t} : task'[u] = task[u]
  BY <1>2, <1>4, <1>5 DEF TaskStates, TaskPcs
<1>7. (\A d \in Callers : CallerHolds(caller[d]))'
  <2>1. \A d \in Callers : CallerHolds(caller'[d])
    BY <1>3 DEF IInv, Shape, CallerHolds
  <2> QED BY <1>4, <2>1 DEF CallerHolds
<1>8. Shape'
  BY <1>1, <1>3, <1>4, <1>6, <1>7 DEF IInv, Shape
<1>9. \A s : CallerRebuilds(c, s) => TaskRebuilds(t, s)'
  BY <1>6 DEF CallerRebuilds, TaskRebuilds
<1>10. \A s : WillRebuild(s) => WillRebuild(s)'
  <2> SUFFICES ASSUME NEW s, WillRebuild(s) PROVE WillRebuild(s)'
    OBVIOUS
  <2>1. CASE CallerRebuilds(c, s)
    BY <1>9, <2>1 DEF TaskRebuilds, WillRebuild
  <2>2. ASSUME NEW d \in Callers \ {c}, CallerRebuilds(d, s) PROVE WillRebuild(s)'
    BY <1>3, <1>4, <2>2 DEF CallerRebuilds, WillRebuild
  <2>3. ASSUME NEW u \in Tasks, TaskRebuilds(u, s) PROVE WillRebuild(s)'
    BY <1>5, <1>6, <2>3 DEF TaskRebuilds, WillRebuild
  <2>4. CASE OperatorRebuilds(s)
    BY <1>1, <2>4 DEF OperatorRebuilds, WillRebuild
  <2> QED BY <2>1, <2>2, <2>3, <2>4, Holders
<1>11. \A s : WillClear(s) => WillClear(s)'
  BY <1>1, <1>5, <1>6 DEF WillClear
<1>12. GatesAreLifted'
  BY <1>1, <1>10, <1>11 DEF IInv, Safety, GatesAreLifted
<1>13. PanickedAreRebuilt'
  <2> SUFFICES ASSUME NEW s \in broken'
               PROVE  WillRebuild(s)' \/ failed' \/ gaveUp' \/ \E d \in Callers : Pending(d, s)'
    BY DEF PanickedAreRebuilt, Pending
  <2>1. WillRebuild(s) \/ failed \/ gaveUp \/ \E d \in Callers : Pending(d, s)
    BY <1>1, Holders DEF IInv, Safety
  <2>2. \A d \in Callers : Pending(d, s) => Pending(d, s)'
    BY <1>1, <1>3 DEF Pending
  <2> QED BY <1>1, <1>10, <2>1, <2>2
<1>14. SettledIsNotDegraded'
  BY <1>6 DEF SettledIsNotDegraded, Settled
<1> QED BY <1>8, <1>12, <1>13, <1>14 DEF IInv, Safety

-----------------------------------------------------------------------------
(* The steps of a task. *)

\* A task that works on its list takes the sentants one by one.
LEMMA BuildStep ==
  ASSUME IInv, NEW t \in Tasks, Swap(t) \/ BuildFails(t) \/ ClearGate(t)
  PROVE  IInv'
<1> DEFINE q == task[t].todo
<1>1. UNCHANGED <<strategy, ledger, caller, operator, failed>> /\ (gaveUp => gaveUp')
  BY DEF Swap, BuildFails, ClearGate, history
<1>2. /\ task[t].pc \in {"sleep", "build", "clear"} /\ q \in Seq(Sentants) /\ q # << >>
      /\ task \in [Tasks -> TaskStates] /\ gate \in [Sentants -> Gates]
  BY DEF IInv, Shape, TaskStates, Swap, BuildFails, ClearGate, Building, AtT
<1>3. /\ Head(q) \in Sentants /\ Tail(q) \in Seq(Sentants)
      /\ Len(q) # 1 => Tail(q) # << >>
      /\ \A s : Among(s, q) <=> s = Head(q) \/ Among(s, Tail(q))
      /\ Len(q) = 1 => \A s : ~Among(s, Tail(q))
  BY <1>2, AmongTail
<1>4. CASE Swap(t)
  <2>1. /\ task' \in [Tasks -> TaskStates] /\ task'[t].pc = "clear" /\ task'[t].todo = q
        /\ \A u \in Tasks \ {t} : task'[u] = task[u]
    BY <1>2, <1>4 DEF Swap, TaskStates, TaskPcs
  <2>2. /\ task[t].pc \in {"sleep", "build"} /\ broken' = broken \ {Head(q)}
        /\ gate' = gate /\ status' = status /\ gaveUp' = gaveUp
    BY <1>4 DEF Swap, Building, AtT, history
  <2>3. Shape'
    BY <1>1, <1>2, <2>1, <2>2, RestarterShape DEF IInv, Shape
  <2>4. \A s \in Sentants : TaskRebuilds(t, s) =>
          TaskRebuilds(t, s)' \/ (TaskClears(t, s)' /\ s \notin broken')
    BY <1>3, <2>1, <2>2 DEF TaskRebuilds, TaskClears
  <2>5. \A s : ~TaskClears(t, s)
    BY <2>2 DEF TaskClears
  <2>6. Safety'
    BY <1>1, <2>1, <2>2, <2>4, <2>5, TaskSafety DEF IInv
  <2> QED BY <2>3, <2>6 DEF IInv
<1>5. CASE BuildFails(t)
  <2>1. NoTask \in TaskStates /\ NoTask.pc = "none"
    BY Starts DEF NoTask, TaskStates, TaskPcs
  <2>2. /\ task' \in [Tasks -> TaskStates] /\ task'[t].pc = "none"
        /\ \A u \in Tasks \ {t} : task'[u] = task[u]
    BY <1>2, <1>5, <2>1 DEF BuildFails, End
  <2>3. /\ task[t].pc \in {"sleep", "build"} /\ gaveUp' = TRUE
        /\ broken' = broken /\ gate' = gate
    BY <1>5 DEF BuildFails, Building, AtT
  <2>4. Shape'
    BY <1>1, <1>2, <2>2, <2>3, RestarterShape DEF IInv, Shape
  <2>5. \A s : ~TaskClears(t, s)
    BY <2>3 DEF TaskClears
  <2>6. Safety'
    BY <1>1, <2>2, <2>3, <2>5, TaskSafety DEF IInv
  <2> QED BY <2>4, <2>6 DEF IInv
<1>6. CASE ClearGate(t)
  <2>1. PICK pc \in {"check", "build"} :
          /\ task' = [task EXCEPT ![t].todo = Tail(@), ![t].pc = pc]
          /\ IF Len(q) = 1 THEN pc = "check" ELSE pc = "build"
    BY <1>6 DEF ClearGate
  <2>2. /\ task' \in [Tasks -> TaskStates] /\ task'[t].pc = pc /\ task'[t].todo = Tail(q)
        /\ \A u \in Tasks \ {t} : task'[u] = task[u]
    BY <1>2, <1>3, <2>1 DEF TaskStates, TaskPcs
  <2>3. /\ task[t].pc = "clear" /\ broken' = broken /\ status' = status /\ gaveUp' = gaveUp
        /\ gate' \in [Sentants -> Gates] /\ gate'[Head(q)] = None
        /\ \A s \in Sentants \ {Head(q)} : gate'[s] = gate[s]
    BY <1>2, <1>3, <1>6, Starts DEF ClearGate, AtT, history
  <2>4. Shape'
    BY <1>1, <1>2, <1>3, <2>1, <2>2, <2>3, RestarterShape DEF IInv, Shape
  <2>5. \A s \in Sentants : TaskRebuilds(t, s) => TaskRebuilds(t, s)'
    BY <1>3, <2>1, <2>2, <2>3 DEF TaskRebuilds
  <2>6. \A s \in Sentants : TaskClears(t, s) => gate'[s] = None
    BY <2>3 DEF TaskClears
  <2>7. \A s \in Sentants : gate'[s] # None => gate[s] # None
    BY <2>3
  <2>8. task'[t].pc # "none"
    BY <2>2
  <2>9. Safety'
    BY <1>1, <2>2, <2>3, <2>5, <2>6, <2>7, <2>8, TaskSafety DEF IInv
  <2> QED BY <2>4, <2>9 DEF IInv
<1> QED BY <1>4, <1>5, <1>6

\* A task that is through its list makes the ensemble healthy, or leaves that to
\* whoever holds the work on a gate it still sees.
LEMMA EndStep ==
  ASSUME IInv, NEW t \in Tasks, Check(t) \/ Restore(t)
  PROVE  IInv'
<1>1. /\ UNCHANGED <<strategy, ledger, gate, broken, caller, operator, failed, gaveUp>>
      /\ task[t].pc \in {"check", "restore"}
  BY DEF Check, Restore, AtT, history
<1>2. task \in [Tasks -> TaskStates]
  BY DEF IInv, Shape
<1>3. NoTask \in TaskStates /\ NoTask.pc = "none"
  BY Starts DEF NoTask, TaskStates, TaskPcs
<1>4. task' = [task EXCEPT ![t].pc = "restore"] \/ task' = [task EXCEPT ![t] = NoTask]
  BY DEF Check, Restore, End
<1>5. /\ task' \in [Tasks -> TaskStates] /\ task'[t].pc \in {"restore", "none"}
      /\ \A u \in Tasks \ {t} : task'[u] = task[u]
  <2>1. CASE task' = [task EXCEPT ![t].pc = "restore"]
    BY <2>1, <1>2 DEF TaskStates, TaskPcs
  <2>2. CASE task' = [task EXCEPT ![t] = NoTask]
    BY <2>2, <1>2, <1>3
  <2> QED BY <1>4, <2>1, <2>2
<1>6. Shape'
  BY <1>1, <1>5, RestarterShape DEF IInv, Shape
<1>7. \A s : ~TaskRebuilds(t, s) /\ ~TaskClears(t, s)
  BY <1>1 DEF TaskRebuilds, TaskClears
<1>8. task'[t].pc # "none" \/ status' # "degraded" \/ gaveUp' \/ ~Settled'
  <2>1. CASE Restore(t)
    BY <2>1 DEF Restore
  <2>2. CASE Check(t) /\ (\A s \in Sentants : gate[s] = None) /\ status # "failed"
    <3>1. task' = [task EXCEPT ![t].pc = "restore"]
      BY <2>2 DEF Check
    <3> QED BY <3>1, <1>2 DEF TaskStates
  <2>3. CASE Check(t) /\ status = "failed"
    BY <2>3 DEF Check
  <2>4. CASE Check(t) /\ ~(\A s \in Sentants : gate[s] = None)
    <3>1. PICK s \in Sentants : gate[s] # None
      BY <2>4
    <3>2. WillRebuild(s) \/ WillClear(s) \/ gaveUp
      BY <3>1 DEF IInv, Safety, GatesAreLifted
    <3>3. CASE \E u \in Tasks : TaskRebuilds(u, s) \/ TaskClears(u, s)
      <4>1. PICK u \in Tasks \ {t} : TaskRebuilds(u, s) \/ TaskClears(u, s)
        BY <3>3, <1>7
      <4>2. task'[u].pc # "none"
        BY <4>1, <1>5 DEF TaskRebuilds, TaskClears
      <4> QED BY <4>2 DEF Settled
    <3>4. CASE \E c \in Callers : CallerRebuilds(c, s)
      <4>1. PICK c \in Callers : CallerRebuilds(c, s)
        BY <3>4
      <4>2. caller'[c].pc \notin {"idle", "gate", "handle"}
        BY <4>1, <1>1 DEF CallerRebuilds
      <4> QED BY <4>2 DEF Settled
    <3>5. CASE OperatorRebuilds(s) \/ OperatorClears(s)
      <4>1. operator'.pc # "idle"
        BY <3>5, <1>1 DEF OperatorRebuilds, OperatorClears
      <4> QED BY <4>1 DEF Settled
    <3> QED BY <3>2, <3>3, <3>4, <3>5, <1>1, Holders
  <2> QED BY <2>1, <2>2, <2>3, <2>4
<1>9. Safety'
  BY <1>1, <1>5, <1>7, <1>8, TaskSafety DEF IInv
<1> QED BY <1>6, <1>9 DEF IInv

-----------------------------------------------------------------------------
(* The operator's reset. *)

\* A reset begins by taking on the work on every sentant.
LEMMA ResetStarts ==
  ASSUME IInv, ClearLedger
  PROVE  IInv'
<1>1. /\ UNCHANGED <<strategy, status, gate, broken, caller, task>>
      /\ ledger' = << >> /\ operator' = [pc |-> "build", todo |-> InOrder]
  BY DEF ClearLedger
<1>2. /\ InOrder \in Seq(Sentants) /\ InOrder # << >>
      /\ \A s \in Sentants : s \in DOMAIN InOrder /\ InOrder[s] = s
  BY DEF InOrder, Sentants
<1>3. operator' \in OperatorStates /\ operator'.pc = "build" /\ operator'.todo = InOrder
  BY <1>1, <1>2 DEF OperatorStates
<1>4. << >> \in Seq(Ages)
  OBVIOUS
<1>5. Shape'
  BY <1>1, <1>2, <1>3, <1>4, RestarterShape DEF IInv, Shape
<1>6. \A s \in Sentants : OperatorRebuilds(s)'
  BY <1>2, <1>3 DEF OperatorRebuilds, Among
<1>7. \A s \in Sentants : WillRebuild(s)'
  BY <1>6 DEF OperatorRebuilds, WillRebuild
<1>8. broken' \subseteq Sentants
  BY <1>1 DEF IInv, Shape
<1>9. GatesAreLifted' /\ PanickedAreRebuilt' /\ SettledIsNotDegraded'
  BY <1>3, <1>7, <1>8
     DEF GatesAreLifted, PanickedAreRebuilt, SettledIsNotDegraded, Settled
<1> QED BY <1>5, <1>9 DEF IInv, Safety

\* A step of the operator that only lets go of a sentant it has rebuilt, or could not.
LEMMA OperatorSafety ==
  ASSUME Shape, Safety,
         UNCHANGED <<strategy, caller, task, failed>>, gaveUp => gaveUp',
         \A s \in Sentants : OperatorRebuilds(s) =>
           OperatorRebuilds(s)' \/ (OperatorClears(s)' /\ (s \notin broken' \/ gaveUp')),
         \A s \in Sentants : OperatorClears(s) => OperatorClears(s)' \/ gate'[s] = None,
         \A s \in Sentants : gate'[s] # None => gate[s] # None,
         broken' \subseteq broken,
         operator'.pc # "idle" \/ status' # "degraded"
  PROVE  Safety'
<1>1. \A x : Affected(x)' = Affected(x)
  BY DEF Affected
<1>2. \A s \in Sentants : WillRebuild(s) =>
        WillRebuild(s)' \/ (WillClear(s)' /\ (s \notin broken' \/ gaveUp'))
  <2> SUFFICES ASSUME NEW s \in Sentants, WillRebuild(s)
               PROVE  WillRebuild(s)' \/ (WillClear(s)' /\ (s \notin broken' \/ gaveUp'))
    OBVIOUS
  <2>1. CASE OperatorRebuilds(s)
    BY <2>1 DEF OperatorRebuilds, OperatorClears, WillRebuild, WillClear
  <2>2. ASSUME NEW u \in Tasks, TaskRebuilds(u, s) PROVE WillRebuild(s)'
    BY <2>2 DEF TaskRebuilds, WillRebuild
  <2>3. ASSUME NEW c \in Callers, CallerRebuilds(c, s) PROVE WillRebuild(s)'
    BY <1>1, <2>3 DEF CallerRebuilds, WillRebuild
  <2> QED BY <2>1, <2>2, <2>3, Holders
<1>3. \A s \in Sentants : WillClear(s) => WillClear(s)' \/ gate'[s] = None
  BY DEF WillClear, OperatorClears
<1>4. GatesAreLifted'
  BY <1>2, <1>3 DEF Safety, GatesAreLifted
<1>5. PanickedAreRebuilt'
  <2> SUFFICES ASSUME NEW s \in broken'
               PROVE  WillRebuild(s)' \/ failed' \/ gaveUp' \/ \E c \in Callers : Pending(c, s)'
    BY DEF PanickedAreRebuilt, Pending
  <2>1. s \in Sentants /\ s \in broken
    BY DEF Shape
  <2>2. WillRebuild(s) \/ failed \/ gaveUp \/ \E c \in Callers : Pending(c, s)
    BY <2>1, Holders DEF Safety
  <2>3. \A c \in Callers : Pending(c, s) => Pending(c, s)'
    BY DEF Pending
  <2> QED BY <1>2, <2>1, <2>2, <2>3
<1>6. SettledIsNotDegraded'
  BY DEF SettledIsNotDegraded, Settled
<1> QED BY <1>4, <1>5, <1>6 DEF Safety

\* The operator takes the sentants one by one, and then makes the ensemble healthy.
LEMMA ResetStep ==
  ASSUME IInv, Resetting
  PROVE  IInv'
<1> DEFINE q == operator.todo
<1>1. UNCHANGED <<strategy, ledger, caller, task, failed>> /\ (gaveUp => gaveUp')
  BY DEF Resetting, ResetSwap, ResetGate, ResetRestore, history
<1>2. /\ operator \in OperatorStates /\ q \in Seq(Sentants)
      /\ operator.pc \in {"build", "clear"} => q # << >>
      /\ gate \in [Sentants -> Gates]
  BY DEF IInv, Shape, OperatorStates
<1>3. q # << >> =>
        /\ Head(q) \in Sentants /\ Tail(q) \in Seq(Sentants)
        /\ Len(q) # 1 => Tail(q) # << >>
        /\ \A s : Among(s, q) <=> s = Head(q) \/ Among(s, Tail(q))
        /\ Len(q) = 1 => \A s : ~Among(s, Tail(q))
  BY <1>2, AmongTail
<1>4. CASE ResetSwap
  <2>1. /\ operator.pc = "build" /\ gate' = gate /\ status' = status
        /\ broken' = broken \ {Head(q)} \/ (broken' = broken /\ gaveUp')
    BY <1>4 DEF ResetSwap
  <2>2. operator' \in OperatorStates /\ operator'.pc = "clear" /\ operator'.todo = q
    BY <1>2, <1>4 DEF ResetSwap, OperatorStates
  <2>3. Shape'
    BY <1>1, <1>2, <2>1, <2>2, RestarterShape DEF IInv, Shape
  <2>4. \A s \in Sentants : OperatorRebuilds(s) =>
          OperatorRebuilds(s)' \/ (OperatorClears(s)' /\ (s \notin broken' \/ gaveUp'))
    BY <1>2, <1>3, <2>1, <2>2 DEF OperatorRebuilds, OperatorClears
  <2>5. \A s : ~OperatorClears(s)
    BY <2>1 DEF OperatorClears
  <2>6. broken' \subseteq broken
    BY <2>1
  <2>7. Safety'
    BY <1>1, <2>1, <2>2, <2>4, <2>5, <2>6, OperatorSafety DEF IInv
  <2> QED BY <2>3, <2>7 DEF IInv
<1>5. CASE ResetGate
  <2>1. /\ operator.pc = "clear" /\ broken' = broken /\ status' = status
        /\ gate' = [gate EXCEPT ![Head(q)] = None]
        /\ operator' = [pc |-> IF Len(q) = 1 THEN "restore" ELSE "build", todo |-> Tail(q)]
    BY <1>5 DEF ResetGate
  <2>2. /\ operator' \in OperatorStates /\ operator'.todo = Tail(q)
        /\ operator'.pc = IF Len(q) = 1 THEN "restore" ELSE "build"
    BY <1>2, <1>3, <2>1 DEF OperatorStates
  <2>3. /\ gate' \in [Sentants -> Gates] /\ gate'[Head(q)] = None
        /\ \A s \in Sentants \ {Head(q)} : gate'[s] = gate[s]
    BY <1>2, <1>3, <2>1, Starts
  <2>4. Shape'
    BY <1>1, <1>2, <1>3, <2>1, <2>2, <2>3, RestarterShape DEF IInv, Shape
  <2>5. \A s \in Sentants : OperatorRebuilds(s) => OperatorRebuilds(s)'
    BY <1>2, <1>3, <2>1, <2>2 DEF OperatorRebuilds
  <2>6. \A s \in Sentants : OperatorClears(s) => gate'[s] = None
    BY <2>3 DEF OperatorClears
  <2>7. \A s \in Sentants : gate'[s] # None => gate[s] # None
    BY <2>3
  <2>8. Safety'
    BY <1>1, <2>1, <2>2, <2>5, <2>6, <2>7, OperatorSafety DEF IInv
  <2> QED BY <2>4, <2>8 DEF IInv
<1>6. CASE ResetRestore
  <2>1. /\ operator.pc = "restore" /\ gate' = gate /\ broken' = broken /\ status' = "healthy"
        /\ operator' = NoReset
    BY <1>6 DEF ResetRestore
  <2>2. operator' \in OperatorStates /\ operator'.pc = "idle"
    BY <2>1 DEF NoReset, OperatorStates
  <2>3. Shape'
    BY <1>1, <1>2, <2>1, <2>2, RestarterShape DEF IInv, Shape
  <2>4. \A s : ~OperatorRebuilds(s) /\ ~OperatorClears(s)
    BY <2>1 DEF OperatorRebuilds, OperatorClears
  <2>5. Safety'
    BY <1>1, <2>1, <2>4, OperatorSafety DEF IInv
  <2> QED BY <2>3, <2>5 DEF IInv
<1> QED BY <1>4, <1>5, <1>6 DEF Resetting

-----------------------------------------------------------------------------
(* Time passes. *)

\* The passing of time moves no work.
LEMMA TickStep ==
  ASSUME IInv, Tick
  PROVE  IInv'
<1>1. /\ UNCHANGED <<strategy, status, broken, operator, failed, gaveUp>>
      /\ \A x : Affected(x)' = Affected(x)
  BY DEF Tick, Affected
<1>2. /\ ledger \in Seq(Ages) /\ gate \in [Sentants -> Gates]
      /\ caller \in [Callers -> CallerStates] /\ task \in [Tasks -> TaskStates]
  BY DEF IInv, Shape
<1>3. /\ (\A i \in Ages : Older(i) \in Ages) /\ (\A i \in Delays : Sooner(i) \in Delays)
  BY DEF Older, Sooner, Ages, Delays
<1>4. ledger' \in Seq(Ages)
  <2>1. /\ Len(ledger) \in Nat /\ DOMAIN ledger = 1..Len(ledger)
        /\ \A i \in 1..Len(ledger) : ledger[i] \in Ages
    BY <1>2
  <2>2. ledger' = [i \in 1..Len(ledger) |-> Older(ledger[i])]
    BY <2>1 DEF Tick
  <2>3. \A i \in 1..Len(ledger) : Older(ledger[i]) \in Ages
    BY <2>1, <1>3
  <2>4. [i \in 1..Len(ledger) |-> Older(ledger[i])] \in [1..Len(ledger) -> Ages]
    BY <2>3
  <2>5. \A n \in Nat : \A f \in [1..n -> Ages] : f \in Seq(Ages)
    OBVIOUS
  <2> QED BY <2>1, <2>2, <2>4, <2>5
<1>5. gate' \in [Sentants -> Gates] /\ \A s \in Sentants : gate'[s] = None <=> gate[s] = None
  <2>1. \A s \in Sentants : gate[s] # None => gate[s] \in Delays
    BY <1>2 DEF Gates
  <2>2. \A s \in Sentants : gate'[s] = IF gate[s] = None THEN None ELSE Sooner(gate[s])
    BY DEF Tick
  <2>3. \A s \in Sentants : gate'[s] \in Gates /\ (gate'[s] = None <=> gate[s] = None)
    BY <1>3, <2>1, <2>2, Starts
  <2>4. gate' = [s \in Sentants |-> gate'[s]]
    BY DEF Tick
  <2> QED BY <2>3, <2>4
<1>6. /\ task' \in [Tasks -> TaskStates]
      /\ \A t \in Tasks : task'[t].pc = task[t].pc /\ task'[t].todo = task[t].todo
  BY <1>2, <1>3 DEF Tick, TaskStates
<1>7. /\ caller' \in [Callers -> CallerStates]
      /\ \A c \in Callers : /\ caller'[c].pc = caller[c].pc /\ caller'[c].todo = caller[c].todo
                            /\ caller'[c].target = caller[c].target
  BY <1>2, <1>3 DEF Tick, CallerStates
<1>8. (\A c \in Callers : CallerHolds(caller[c]))'
  BY <1>1, <1>7 DEF IInv, Shape, CallerHolds
<1>9. Shape'
  BY <1>1, <1>4, <1>5, <1>6, <1>7, <1>8 DEF IInv, Shape
<1>10. /\ \A s : WillRebuild(s)' <=> WillRebuild(s)
       /\ \A s : WillClear(s)' <=> WillClear(s)
       /\ Settled' <=> Settled
  BY <1>1, <1>6, <1>7 DEF WillRebuild, WillClear, Settled
<1>11. Safety'
  BY <1>1, <1>5, <1>7, <1>10
     DEF IInv, Safety, GatesAreLifted, PanickedAreRebuilt, SettledIsNotDegraded
<1> QED BY <1>9, <1>11 DEF IInv

\* At first nothing is gated, broken or degraded.
LEMMA InitIInv == Init => IInv
<1> SUFFICES ASSUME Init PROVE IInv
  OBVIOUS
<1>1. IdleCaller \in CallerStates /\ IdleCaller.pc = "idle"
  BY Starts DEF IdleCaller, CallerStates, CallerPcs, Sentants
<1>2. NoTask \in TaskStates /\ NoTask.pc = "none"
  BY Starts DEF NoTask, TaskStates, TaskPcs
<1>3. NoReset \in OperatorStates /\ NoReset.pc = "idle"
  BY DEF NoReset, OperatorStates
<1>4. Shape
  BY <1>1, <1>2, <1>3, Starts DEF Init, Shape, CallerHolds
<1>5. Safety
  BY DEF Init, Safety, GatesAreLifted, PanickedAreRebuilt, SettledIsNotDegraded
<1> QED BY <1>4, <1>5 DEF IInv

\* Every step keeps the inductive invariant.
LEMMA NextIInv == IInv /\ [Next]_vars => IInv'
<1> SUFFICES ASSUME IInv, [Next]_vars PROVE IInv'
  OBVIOUS
<1>1. ASSUME NEW c \in Callers, (\E s \in Sentants : Admit(c, s)) \/ Dispatch(c) \/ HandlerPanics(c)
      PROVE  IInv'
  BY <1>1, CalmStep, CrashStep, GateStep, SpawnStep DEF Dispatch
<1>2. ASSUME NEW t \in Tasks, Restarting(t) \/ BuildFails(t) PROVE IInv'
  BY <1>2, BuildStep, EndStep DEF Restarting
<1>3. CASE ClearLedger \/ Resetting \/ Tick
  BY <1>3, ResetStarts, ResetStep, TickStep
<1>4. CASE UNCHANGED vars
  <2>1. UNCHANGED <<strategy, status, ledger, gate, broken, caller, task, operator, failed, gaveUp>>
    BY <1>4 DEF vars, history
  <2>2. Shape'
    BY <2>1 DEF IInv, Shape, CallerHolds, Affected
  <2>3. /\ \A s : WillRebuild(s)' <=> WillRebuild(s)
        /\ \A s : WillClear(s)' <=> WillClear(s)
        /\ Settled' <=> Settled
    BY <2>1 DEF WillRebuild, WillClear, Settled, Affected
  <2>4. GatesAreLifted'
    BY <2>1, <2>3 DEF IInv, Safety, GatesAreLifted
  <2>5. PanickedAreRebuilt'
    BY <2>1, <2>3 DEF IInv, Safety, PanickedAreRebuilt
  <2>6. SettledIsNotDegraded'
    BY <2>1, <2>3 DEF IInv, Safety, SettledIsNotDegraded
  <2> QED BY <2>2, <2>4, <2>5, <2>6 DEF IInv, Safety
<1> QED BY <1>1, <1>2, <1>3, <1>4 DEF Next

-----------------------------------------------------------------------------
(* The counters and the intensity. *)

Counted ==
  /\ status \in {"healthy", "degraded", "failed"}
  /\ crashes \in 0..MaxCrashes /\ resets \in 0..MaxResets
  /\ failed \in BOOLEAN /\ gaveUp \in BOOLEAN
Tally == Answers(granted, ledger) /\ IntensityRespected

\* A step that leaves the ledger and the answered crashes alone.
LEMMA SameTally == ASSUME Tally, UNCHANGED <<ledger, granted>> PROVE Tally'
  BY DEF Tally, IntensityRespected

\* A crash is recorded: it is answered only if fewer than Cap are on record then.
LEMMA RecordTally ==
  ASSUME IInv, Tally, NEW c \in Callers, Record(c)
  PROVE  Tally'
<1>1. PICK age \in Ages : age = caller[c].age
  BY DEF IInv, Shape, CallerStates
<1>2. PICK left : left = Evicted(ledger, age)
  OBVIOUS
<1>3. Answers(granted, left)
  BY <1>1, <1>2, AnswersEvicted DEF Tally
<1>4. ledger' = Append(left, age)
  BY <1>1, <1>2 DEF Record
<1>5. /\ Answers(granted, ledger')
      /\ age <= Period => Answers(Append(granted, age), ledger')
  BY <1>3, <1>4, AnswersRecorded
<1>6. \/ granted' = granted
      \/ age <= Period /\ granted' = Append(granted, age) /\ ~(Len(ledger') >= Cap)
  <2>1. \/ granted' = granted
        \/ /\ granted' = IF age > Period THEN granted ELSE Append(granted, age)
           /\ ~WouldExceed(ledger')
    BY <1>1, <1>2, <1>4 DEF Record
  <2>2. age > Period \/ age <= Period
    BY <1>1 DEF Ages
  <2> QED BY <2>1, <2>2 DEF WouldExceed
<1>7. CASE granted' = granted
  BY <1>5, <1>7 DEF Tally, IntensityRespected
<1>8. CASE age <= Period /\ granted' = Append(granted, age) /\ ~(Len(ledger') >= Cap)
  <2>1. Answers(granted', ledger')
    BY <1>5, <1>8
  <2>2. Len(granted') <= Len(ledger') /\ Len(granted') \in Nat /\ Len(ledger') \in Nat
    BY <2>1, AnswersAreFew DEF Answers
  <2>3. Len(granted') < Cap
    BY <1>8, <2>2
  <2> QED BY <2>1, <2>3 DEF Tally, IntensityRespected
<1> QED BY <1>6, <1>7, <1>8

\* Every step keeps the intensity.
LEMMA NextTally ==
  ASSUME IInv, Tally, [Next]_vars
  PROVE  Tally'
<1>1. ASSUME NEW c \in Callers, (\E s \in Sentants : Admit(c, s)) \/ Dispatch(c) \/ HandlerPanics(c)
      PROVE  Tally'
  <2>1. CASE Record(c)
    BY <2>1, RecordTally
  <2>2. CASE BackOff(c)
    <3>1. PICK age \in Ages : age = caller[c].age
      BY DEF IInv, Shape, CallerStates
    <3>2. ledger' = Evicted(ledger, age) /\ granted' = granted
      BY <2>2, <3>1 DEF BackOff, history
    <3>3. Answers(granted', ledger')
      BY <3>2, AnswersEvicted DEF Tally
    <3> QED BY <3>2, <3>3 DEF Tally, IntensityRespected
  <2>3. CASE (\E s \in Sentants : Admit(c, s)) \/ HandlerPanics(c) \/ PassGate(c)
             \/ HandlerReturns(c) \/ Fail(c) \/ Degrade(c) \/ SetGate(c) \/ Spawn(c)
    <3>1. UNCHANGED <<ledger, granted>>
      BY <2>3 DEF Admit, HandlerPanics, PassGate, HandlerReturns, Fail, Degrade, SetGate,
                  Spawn, history
    <3> QED BY <3>1, SameTally
  <2> QED BY <1>1, <2>1, <2>2, <2>3 DEF Dispatch
<1>2. ASSUME NEW t \in Tasks, Restarting(t) \/ BuildFails(t) PROVE Tally'
  <2>1. UNCHANGED <<ledger, granted>>
    BY <1>2 DEF Restarting, Swap, ClearGate, Check, Restore, BuildFails, history
  <2> QED BY <2>1, SameTally
<1>3. CASE ClearLedger
  <2>1. ledger' = << >> /\ granted' = << >>
    BY <1>3 DEF ClearLedger
  <2>2. Answers(<< >>, << >>)
    <3>1. [i \in 1..0 |-> 1] \in [1..Len(<< >>) -> 1..Len(<< >>)] /\ 1..Len(<< >>) = {}
      OBVIOUS
    <3>2. << >> \in Seq(InWindow) /\ << >> \in Seq(Ages)
      OBVIOUS
    <3> QED BY <3>1, <3>2 DEF Answers, Places
  <2> QED BY <2>1, <2>2 DEF Tally, IntensityRespected
<1>4. CASE Resetting
  <2>1. UNCHANGED <<ledger, granted>>
    BY <1>4 DEF Resetting, ResetSwap, ResetGate, ResetRestore, history
  <2> QED BY <2>1, SameTally
<1>5. CASE Tick
  <2>1. Answers(granted', ledger') /\ Len(granted') <= Len(granted)
    BY <1>5, AnswersAged DEF Tick, Tally
  <2>2. PICK few \in Nat, many \in Nat : few = Len(granted') /\ many = Len(granted) /\ few <= many
    <3>1. Len(granted') \in Nat /\ Len(granted) \in Nat
      BY <2>1 DEF Tally, Answers
    <3> QED BY <2>1, <3>1
  <2>3. granted' # << >> => granted # << >>
    <3>1. ASSUME granted = << >> PROVE granted' = << >>
      <4>1. many = 0
        BY <2>2, <3>1
      <4>2. granted' \in Seq(InWindow) /\ Len(granted') = 0
        BY <2>1, <2>2, <4>1 DEF Answers
      <4> QED BY <4>2
    <3> QED BY <3>1
  <2>4. granted # << >> => many < Cap
    BY <2>2 DEF Tally, IntensityRespected
  <2>5. granted' # << >> => few < Cap
    BY <2>2, <2>3, <2>4
  <2> QED BY <2>1, <2>2, <2>5 DEF Tally, IntensityRespected
<1>6. CASE UNCHANGED vars
  BY <1>6, SameTally DEF vars, history
<1> QED BY <1>1, <1>2, <1>3, <1>4, <1>5, <1>6 DEF Next

\* Every step keeps the counters in their bounds.
LEMMA NextCounted ==
  ASSUME Counted, [Next]_vars
  PROVE  Counted'
<1>1. crashes' \in 0..MaxCrashes /\ resets' \in 0..MaxResets
  <2>1. \/ crashes' = crashes
        \/ crashes < MaxCrashes /\ crashes' = crashes + 1
    BY DEF Next, Dispatch, Restarting, Resetting, vars, bounds, Admit, HandlerPanics, Record,
           BackOff, PassGate, HandlerReturns, Fail, Degrade, SetGate, Spawn, Swap, ClearGate,
           Check, Restore, BuildFails, ClearLedger, ResetSwap, ResetGate, ResetRestore, Tick
  <2>2. \/ resets' = resets
        \/ resets < MaxResets /\ resets' = resets + 1
    BY DEF Next, Dispatch, Restarting, Resetting, vars, bounds, Admit, HandlerPanics, Record,
           BackOff, PassGate, HandlerReturns, Fail, Degrade, SetGate, Spawn, Swap, ClearGate,
           Check, Restore, BuildFails, ClearLedger, ResetSwap, ResetGate, ResetRestore, Tick
  <2> QED BY <2>1, <2>2 DEF Counted
<1>2. status' \in {"healthy", "degraded", "failed"}
  BY DEF Counted, Next, Dispatch, Restarting, Resetting, vars, Admit, HandlerPanics, Record,
         BackOff, PassGate, HandlerReturns, Fail, Degrade, SetGate, Spawn, Swap, ClearGate,
         Check, Restore, BuildFails, ClearLedger, ResetSwap, ResetGate, ResetRestore, Tick
<1>3. failed' = failed \/ failed' = TRUE \/ failed' = FALSE
  BY DEF Next, Dispatch, Restarting, Resetting, vars, history, Admit, HandlerPanics, Record,
         BackOff, PassGate, HandlerReturns, Fail, Degrade, SetGate, Spawn, Swap, ClearGate,
         Check, Restore, BuildFails, ClearLedger, ResetSwap, ResetGate, ResetRestore, Tick
<1>4. gaveUp' = gaveUp \/ gaveUp' = TRUE \/ gaveUp' = FALSE
  BY DEF Next, Dispatch, Restarting, Resetting, vars, history, Admit, HandlerPanics, Record,
         BackOff, PassGate, HandlerReturns, Fail, Degrade, SetGate, Spawn, Swap, ClearGate,
         Check, Restore, BuildFails, ClearLedger, ResetSwap, ResetGate, ResetRestore, Tick
<1> QED BY <1>1, <1>2, <1>3, <1>4 DEF Counted

\* At first nothing is counted or recorded.
LEMMA InitTally == Init => Tally /\ Counted
<1> SUFFICES ASSUME Init PROVE Tally /\ Counted
  OBVIOUS
<1>1. Answers(<< >>, << >>)
  <2>1. [i \in 1..0 |-> 1] \in [1..Len(<< >>) -> 1..Len(<< >>)] /\ 1..Len(<< >>) = {}
    OBVIOUS
  <2>2. << >> \in Seq(InWindow) /\ << >> \in Seq(Ages)
    OBVIOUS
  <2> QED BY <2>1, <2>2 DEF Answers, Places
<1>2. Tally
  BY <1>1 DEF Init, Tally, IntensityRespected
<1>3. Counted
  <2>1. 0 \in 0..MaxCrashes /\ 0 \in 0..MaxResets
    OBVIOUS
  <2>2. /\ crashes = 0 /\ resets = 0 /\ status = "healthy"
        /\ failed = FALSE /\ gaveUp = FALSE
    BY DEF Init
  <2> QED BY <2>1, <2>2 DEF Counted
<1> QED BY <1>2, <1>3

\* The types follow from the parts of the invariant.
LEMMA PartsTypeOK == IInv /\ Tally /\ Counted => TypeOK
<1> SUFFICES ASSUME IInv, Tally, Counted PROVE TypeOK
  OBVIOUS
<1>1. granted \in Seq(Ages)
  <2>1. InWindow \subseteq Ages
    BY DEF InWindow, Ages
  <2>2. granted \in Seq(InWindow)
    BY DEF Tally, Answers
  <2> QED BY <2>1, <2>2
<1>2. /\ strategy \in Strategies /\ ledger \in Seq(Ages) /\ broken \subseteq Sentants
      /\ gate \in [Sentants -> 0..MaxDelay \cup {None}]
  BY DEF IInv, Shape, Gates, Delays
<1>3. /\ caller \in [Callers ->
           [pc : {"idle", "gate", "handle", "record", "fail", "back_off", "degrade",
                  "set_gates", "spawn"},
            target : Sentants, age : Ages, delay : 0..MaxDelay, todo : Seq(Sentants)]]
      /\ task \in [Tasks ->
           [pc : {"none", "sleep", "build", "clear", "check", "restore"},
            left : 0..MaxDelay, todo : Seq(Sentants)]]
      /\ operator \in [pc : {"idle", "build", "clear", "restore"}, todo : Seq(Sentants)]
  BY DEF IInv, Shape, CallerStates, TaskStates, OperatorStates, CallerPcs, TaskPcs, Delays
<1> QED BY <1>1, <1>2, <1>3 DEF TypeOK, Counted

-----------------------------------------------------------------------------
(* The theorems. *)

\* The inductive invariant holds in every reachable state.
LEMMA SpecIInv == Spec => []IInv
  BY InitIInv, NextIInv, PTL DEF Spec

\* So do the intensity and the bounds of the counters.
LEMMA SpecTally == Spec => [](Tally /\ Counted)
<1>1. IInv /\ (Tally /\ Counted) /\ [Next]_vars => (Tally /\ Counted)'
  BY NextTally, NextCounted
<1> QED BY <1>1, InitTally, SpecIInv, PTL DEF Spec

\* The state of the supervisor keeps its types: in particular no back-off exceeds
\* max_ms, and no gate and no sleep takes longer than that (delay_for, handle_crash).
THEOREM SupervisorTypeOK == Spec => []TypeOK
  BY SpecIInv, SpecTally, PartsTypeOK, PTL

\* However crashes are recorded out of order, fewer than max_restarts of one window are
\* answered with a restart (RestartLedger::record, would_exceed, handle_crash).
THEOREM TheIntensityIsRespected == Spec => []IntensityRespected
  BY SpecTally, PTL DEF Tally

\* No sentant of an ensemble stays behind a gate with nobody on the way to lift it,
\* however restarts, crashes and resets overlap (handle_crash, run_restart, reset).
THEOREM EveryGateIsLifted == Spec => []GatesAreLifted
  BY SpecIInv, PTL DEF IInv, Safety

\* A sentant whose handler panicked has somebody who rebuilds it, unless the ensemble
\* failed or a task gave up (handle_crash, run_restart).
THEOREM EveryPanicIsAnswered == Spec => []PanickedAreRebuilt
  BY SpecIInv, PTL DEF IInv, Safety

\* The ensemble is not left degraded once every restart is over (run_restart).
THEOREM RestartsEndHealthy == Spec => []SettledIsNotDegraded
  BY SpecIInv, PTL DEF IInv, Safety
=============================================================================
