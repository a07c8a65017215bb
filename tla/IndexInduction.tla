--------------------------- MODULE IndexInduction ---------------------------
(***************************************************************************)
(* Induction along the indices of a sequence, in the form the proofs of    *)
(* this project use: about a set of indices, not about a predicate.  It    *)
(* rests on the strict subset relation being well founded on the subsets   *)
(* of a finite set.  With it, what ElementsAt takes from a sequence.       *)
(***************************************************************************)
EXTENDS Subsequences, Integers, FiniteSetTheorems, WellFoundedInduction, SequenceTheorems, TLAPS

\* A set of indices that is not empty has a first one.
LEMMA FirstIndex ==
  ASSUME NEW n \in Nat, NEW L \in SUBSET (1..n), L # {}
  PROVE  \E i \in L : \A j \in L : i <= j
<1> DEFINE Below(i) == {j \in 1..n : j < i}
           T == {Below(i) : i \in L}
<1>1. T \subseteq FiniteSubsetsOf(1..n) /\ T # {}
  <2>1. IsFiniteSet(1..n)
    BY FS_Interval
  <2>2. FiniteSubsetsOf(1..n) = SUBSET (1..n)
    BY <2>1, FS_FiniteSubsetsOfFinite
  <2>3. \A i \in L : Below(i) \in SUBSET (1..n)
    OBVIOUS
  <2>4. T \subseteq FiniteSubsetsOf(1..n)
    BY <2>2, <2>3
  <2>5. PICK i \in L : TRUE
    OBVIOUS
  <2>6. Below(i) \in T
    BY <2>5
  <2> HIDE DEF T
  <2> QED BY <2>4, <2>6
<1>2. IsWellFoundedOn(StrictSubsetOrdering(1..n), FiniteSubsetsOf(1..n))
  BY FS_StrictSubsetOrderingWellFounded
<1>3. PICK B \in T : \A C \in T : ~ (<<C, B>> \in StrictSubsetOrdering(1..n))
  <2> HIDE DEF T
  <2> QED BY <1>1, <1>2, WFMin
<1>4. PICK i \in L : B = Below(i)
  BY <1>3
<1>5. ASSUME NEW j \in L, j < i PROVE FALSE
  <2>1. Below(j) \subseteq Below(i) /\ j \in Below(i) /\ j \notin Below(j)
    BY <1>5
  <2>2. Below(j) \in SUBSET (1..n) /\ Below(i) \in SUBSET (1..n) /\ Below(j) # Below(i)
    BY <2>1
  <2>3. <<Below(j), Below(i)>> \in StrictSubsetOrdering(1..n)
    BY <2>1, <2>2 DEF StrictSubsetOrdering
  <2> QED BY <1>3, <1>4, <2>3
<1>6. \A j \in L : ~(j < i)
  BY <1>5
<1>7. \A j \in L : i <= j
  BY <1>6
<1> QED BY <1>7

\* What holds of 0, and of the index after any of which it holds, holds of every index.
THEOREM IndexInduction ==
  ASSUME NEW n \in Nat, NEW S, 0 \in S,
         \A i \in 0..(n - 1) : i \in S => i + 1 \in S
  PROVE  0..n \subseteq S
<1> DEFINE L == {i \in 1..n : i \notin S}
<1>1. CASE L = {}
  <2>1. \A i \in 1..n : i \in S
    BY <1>1
  <2>2. \A i \in 0..n : i = 0 \/ i \in 1..n
    OBVIOUS
  <2> QED BY <2>1, <2>2
<1>2. CASE L # {}
  <2>1. PICK i \in L : \A j \in L : i <= j
    <3>1. L \in SUBSET (1..n)
      OBVIOUS
    <3> HIDE DEF L
    <3> QED BY <1>2, <3>1, FirstIndex
  <2>2. i \in 1..n /\ i \notin S
    BY <2>1
  <2>3. i - 1 \notin L
    BY <2>1, <2>2
  <2>4. i - 1 \in S
    BY <2>2, <2>3
  <2>5. i - 1 \in 0..(n - 1) /\ (i - 1) + 1 = i
    BY <2>2
  <2> QED BY <2>2, <2>4, <2>5
<1> QED BY <1>1, <1>2

\* A function on the indices up to n is a sequence of length n.
LEMMA FunctionIsSeq ==
  ASSUME NEW S, NEW n \in Nat, NEW f \in [1..n -> S]
  PROVE  f \in Seq(S) /\ Len(f) = n /\ DOMAIN f = 1..n
<1>1. f \in Seq(S)
  BY SeqDef
<1>2. PICK m \in Nat : m = Len(f) /\ DOMAIN f = 1..m
  BY <1>1, LenProperties
<1>3. 1..m = 1..n
  BY <1>2
<1>4. m = n
  <2>1. (n \in 1..n <=> n # 0) /\ (m \in 1..m <=> m # 0)
    OBVIOUS
  <2>2. (n \in 1..m => n <= m) /\ (m \in 1..n => m <= n)
    OBVIOUS
  <2> QED BY <1>3, <2>1, <2>2
<1> QED BY <1>1, <1>2, <1>4

-----------------------------------------------------------------------------
(* The elements of a sequence at some of its indices. *)

\* Among, one index at a time.
LEMMA ElementsAtSteps ==
  ASSUME NEW seq, Len(seq) \in Nat, NEW I
  PROVE  \E upto :
           /\ upto[0] = << >>
           /\ \A i \in 1..Len(seq) :
                upto[i] = IF i \in I THEN Append(upto[i - 1], seq[i]) ELSE upto[i - 1]
           /\ ElementsAt(seq, I) = upto[Len(seq)]
<1> DEFINE n == Len(seq)
           Step(e, i) == IF i \in I THEN Append(e, seq[i]) ELSE e
           IsRun(f, k) == f = [i \in 0..k |-> IF i = 0 THEN << >>
                                              ELSE IF i \in I THEN Append(f[i - 1], seq[i])
                                              ELSE f[i - 1]]
           S == {k \in 0..n : \E f : IsRun(f, k)}
<1>1. 0 \in S
  <2>1. IsRun([i \in 0..0 |-> << >>], 0)
    <3>1. \A i \in 0..0 : i = 0
      OBVIOUS
    <3> QED BY <3>1
  <2>2. 0 \in 0..n
    OBVIOUS
  <2> HIDE DEF IsRun
  <2> QED BY <2>1, <2>2
<1>2. ASSUME NEW k \in 0..(n - 1), k \in S PROVE k + 1 \in S
  <2>1. PICK f : IsRun(f, k)
    BY <1>2
  <2>2. \A i \in 0..k : f[i] = IF i = 0 THEN << >> ELSE Step(f[i - 1], i)
    BY <2>1
  <2> DEFINE g == [i \in 0..(k + 1) |-> IF i = k + 1 THEN Step(f[k], k + 1) ELSE f[i]]
  <2> HIDE DEF Step
  <2>3. \A i \in 0..(k + 1) : g[i] = IF i = 0 THEN << >> ELSE Step(g[i - 1], i)
    <3> TAKE i \in 0..(k + 1)
    <3>1. CASE i = k + 1
      <4>1. i # 0 /\ k \in 0..(k + 1) /\ k # k + 1 /\ i - 1 = k
        BY <3>1
      <4>2. g[k] = f[k] /\ g[i] = Step(f[k], i)
        BY <3>1, <4>1
      <4> QED BY <4>1, <4>2
    <3>2. CASE i = 0
      <4>1. g[i] = f[0] /\ 0 \in 0..k
        BY <3>2
      <4> QED BY <3>2, <4>1, <2>2
    <3>3. CASE i \in 1..k
      <4>1. /\ i \in 0..(k + 1) /\ i # k + 1 /\ i # 0 /\ i \in 0..k
            /\ i - 1 \in 0..(k + 1) /\ i - 1 # k + 1
        BY <3>3
      <4>2. g[i] = f[i] /\ g[i - 1] = f[i - 1]
        BY <4>1
      <4> HIDE DEF g
      <4> QED BY <4>1, <4>2, <2>2
    <3> QED BY <3>1, <3>2, <3>3
  <2>4. IsRun(g, k + 1)
    <3>1. g = [i \in 0..(k + 1) |-> g[i]]
      OBVIOUS
    <3> HIDE DEF g
    <3> QED BY <2>3, <3>1 DEF Step
  <2>5. k + 1 \in 0..n
    BY <1>2
  <2> HIDE DEF g, IsRun
  <2> QED BY <2>4, <2>5
<1>3. n \in S
  <2> HIDE DEF S
  <2>1. n \in Nat /\ n \in 0..n
    OBVIOUS
  <2>2. 0..n \subseteq S
    BY <1>1, <1>2, <2>1, IndexInduction
  <2> QED BY <2>1, <2>2
<1> DEFINE upto == CHOOSE f : IsRun(f, n)
<1>4. IsRun(upto, n)
  <2>1. \E f : IsRun(f, n)
    BY <1>3
  <2> HIDE DEF IsRun
  <2> QED BY <2>1
<1>5. ElementsAt(seq, I) = upto[n]
  BY DEF ElementsAt
<1>6. 0 \in 0..n /\ \A i \in 1..n : i \in 0..n /\ i # 0
  OBVIOUS
<1>7. /\ upto[0] = << >>
      /\ \A i \in 1..n :
           upto[i] = IF i \in I THEN Append(upto[i - 1], seq[i]) ELSE upto[i - 1]
  <2> HIDE DEF upto
  <2> QED BY <1>4, <1>6
<1> HIDE DEF upto
<1> QED BY <1>5, <1>7

\* The elements of seq at the indices in I, in their order.
TakesInOrder(part, seq, I) ==
  \E m \in 0..Len(seq) : \E at \in [1..m -> I] :
    /\ part = [k \in 1..m |-> seq[at[k]]]
    /\ \A j, k \in 1..m : j < k => at[j] < at[k]
    /\ \A i \in I : \E k \in 1..m : at[k] = i

LEMMA ElementsAtFacts ==
  ASSUME NEW S, NEW seq \in Seq(S), NEW I \in SUBSET (1..Len(seq))
  PROVE  TakesInOrder(ElementsAt(seq, I), seq, I)
<1> DEFINE n == Len(seq)
<1>1. PICK upto :
           /\ upto[0] = << >>
           /\ \A i \in 1..n :
                upto[i] = IF i \in I THEN Append(upto[i - 1], seq[i]) ELSE upto[i - 1]
           /\ ElementsAt(seq, I) = upto[n]
  BY ElementsAtSteps
<1> DEFINE Embeds(i, m, at) ==
             /\ upto[i] = [k \in 1..m |-> seq[at[k]]]
             /\ \A j, k \in 1..m : j < k => at[j] < at[k]
             /\ \A x \in I \cap (1..i) : \E k \in 1..m : at[k] = x
           T == {i \in 0..n : \E m \in 0..i : \E at \in [1..m -> I \cap (1..i)] :
                                Embeds(i, m, at)}
<1>2. 0 \in T
  <2> DEFINE at == [k \in 1..0 |-> 1]
  <2>1. at \in [1..0 -> I \cap (1..0)]
    OBVIOUS
  <2>2. Embeds(0, 0, at)
    <3>1. [k \in 1..0 |-> seq[at[k]]] = << >>
      OBVIOUS
    <3>2. \A x \in I \cap (1..0) : FALSE
      OBVIOUS
    <3>3. \A j \in 1..0 : FALSE
      OBVIOUS
    <3> HIDE DEF at
    <3> QED BY <1>1, <3>1, <3>2, <3>3
  <2>3. 0 \in 0..n /\ 0 \in 0..0
    OBVIOUS
  <2> HIDE DEF at, Embeds
  <2> QED BY <2>1, <2>2, <2>3
<1>3. ASSUME NEW i \in 0..(n - 1), i \in T PROVE i + 1 \in T
  <2>0. PICK m \in 0..i : \E at \in [1..m -> I \cap (1..i)] : Embeds(i, m, at)
    BY <1>3
  <2>1. PICK at \in [1..m -> I \cap (1..i)] : Embeds(i, m, at)
    BY <2>0
  <2>2. i + 1 \in 1..n /\ (i + 1) - 1 = i /\ i + 1 \in 0..n
    OBVIOUS
  <2>3. upto[i + 1] = IF i + 1 \in I THEN Append(upto[i], seq[i + 1]) ELSE upto[i]
    BY <1>1, <2>2
  <2>4. CASE i + 1 \notin I
    <3>1. I \cap (1..(i + 1)) = I \cap (1..i)
      BY <2>4
    <3>2. Embeds(i + 1, m, at)
      BY <2>1, <2>3, <2>4, <3>1
    <3>3. m \in 0..(i + 1) /\ at \in [1..m -> I \cap (1..(i + 1))]
      BY <3>1
    <3> HIDE DEF Embeds
    <3> QED BY <2>2, <3>2, <3>3
  <2>5. CASE i + 1 \in I
    <3> DEFINE to == [k \in 1..(m + 1) |-> IF k = m + 1 THEN i + 1 ELSE at[k]]
    <3>1. m + 1 \in 0..(i + 1)
      OBVIOUS
    <3>2. \A k \in 1..m : at[k] \in I /\ at[k] \in 1..i
      OBVIOUS
    <3>3. \A k \in 1..(m + 1) : IF k = m + 1 THEN to[k] = i + 1
                                ELSE k \in 1..m /\ to[k] = at[k]
      OBVIOUS
    <3>4. to \in [1..(m + 1) -> I \cap (1..(i + 1))]
      <4>1. \A k \in 1..(m + 1) : to[k] \in I \cap (1..(i + 1))
        <5> HIDE DEF to
        <5> QED BY <2>5, <3>2, <3>3
      <4>2. to = [k \in 1..(m + 1) |-> to[k]]
        OBVIOUS
      <4> HIDE DEF to
      <4> QED BY <4>1, <4>2
    <3>5. upto[i + 1] = [k \in 1..(m + 1) |-> seq[to[k]]]
      <4>1. \A k \in 1..m : seq[at[k]] \in S
        BY <3>2
      <4>2. PICK e : e = [k \in 1..m |-> seq[at[k]]]
        OBVIOUS
      <4>3. e \in Seq(S) /\ Len(e) = m /\ \A k \in 1..m : e[k] = seq[at[k]]
        <5>1. e \in [1..m -> S]
          BY <4>1, <4>2
        <5> QED BY <4>2, <5>1
      <4>4. seq[i + 1] \in S
        BY <2>2
      <4>5. PICK x \in S : x = seq[i + 1]
        BY <4>4
      <4>6. Append(e, x) = [k \in 1..(m + 1) |-> IF k = m + 1 THEN x ELSE e[k]]
        <5>1. /\ Append(e, x) \in Seq(S) /\ Len(Append(e, x)) = m + 1
              /\ \A k \in 1..(m + 1) : Append(e, x)[k] = IF k = m + 1 THEN x ELSE e[k]
          BY <4>3
        <5>2. PICK s \in Seq(S) : s = Append(e, x)
          BY <5>1
        <5>3. s = [k \in 1..Len(s) |-> s[k]]
          OBVIOUS
        <5> QED BY <5>1, <5>2, <5>3
      <4>7. \A k \in 1..(m + 1) : (IF k = m + 1 THEN x ELSE e[k]) = seq[to[k]]
        <5> HIDE DEF to
        <5> QED BY <3>3, <4>3, <4>5
      <4>8. upto[i + 1] = Append(e, x)
        BY <2>1, <2>3, <2>5, <4>2, <4>5
      <4> HIDE DEF to
      <4> QED BY <4>6, <4>7, <4>8
    <3>6. \A j, k \in 1..(m + 1) : j < k => to[j] < to[k]
      <4> HIDE DEF to
      <4> TAKE j, k \in 1..(m + 1)
      <4> HAVE j < k
      <4>1. j \in 1..m /\ to[j] = at[j] /\ at[j] \in 1..i
        BY <3>2, <3>3
      <4>2. CASE k = m + 1
        BY <4>1, <4>2, <3>3
      <4>3. CASE k # m + 1
        <5>1. k \in 1..m /\ to[k] = at[k]
          BY <4>3, <3>3
        <5> QED BY <4>1, <5>1, <2>1
      <4> QED BY <4>2, <4>3
    <3>7. \A x \in I \cap (1..(i + 1)) : \E k \in 1..(m + 1) : to[k] = x
      <4> HIDE DEF to
      <4> TAKE x \in I \cap (1..(i + 1))
      <4>1. CASE x = i + 1
        <5>1. m + 1 \in 1..(m + 1)
          OBVIOUS
        <5> QED BY <4>1, <5>1, <3>3
      <4>2. CASE x # i + 1
        <5>1. x \in I \cap (1..i)
          BY <4>2
        <5>2. PICK k \in 1..m : at[k] = x
          BY <5>1, <2>1
        <5>3. k \in 1..(m + 1) /\ k # m + 1
          OBVIOUS
        <5> QED BY <5>2, <5>3, <3>3
      <4> QED BY <4>1, <4>2
    <3>8. Embeds(i + 1, m + 1, to)
      <4> HIDE DEF to
      <4> QED BY <3>5, <3>6, <3>7
    <3> HIDE DEF to, Embeds
    <3> QED BY <2>2, <3>1, <3>4, <3>8
  <2> QED BY <2>4, <2>5
<1>4. n \in T
  <2> HIDE DEF T
  <2>1. n \in Nat /\ n \in 0..n
    OBVIOUS
  <2>2. 0..n \subseteq T
    BY <1>2, <1>3, <2>1, IndexInduction
  <2> QED BY <2>1, <2>2
<1>5. PICK m \in 0..n : \E at \in [1..m -> I \cap (1..n)] : Embeds(n, m, at)
  BY <1>4
<1>8. PICK at \in [1..m -> I \cap (1..n)] : Embeds(n, m, at)
  BY <1>5
<1>6. I \cap (1..n) = I
  OBVIOUS
<1>7. at \in [1..m -> I]
  BY <1>8, <1>6
<1>9. /\ ElementsAt(seq, I) = [k \in 1..m |-> seq[at[k]]]
      /\ \A j, k \in 1..m : j < k => at[j] < at[k]
      /\ \A i \in I : \E k \in 1..m : at[k] = i
  BY <1>1, <1>6, <1>8
<1> QED BY <1>7, <1>9 DEF TakesInOrder

\* What Among takes and what it leaves make up the sequence.
LEMMA ElementsAtSplits ==
  ASSUME NEW S, NEW seq \in Seq(S), NEW I \in SUBSET (1..Len(seq))
  PROVE  /\ ElementsAt(seq, I) \in Seq(S) /\ ElementsAt(seq, DOMAIN seq \ I) \in Seq(S)
         /\ Len(ElementsAt(seq, I)) + Len(ElementsAt(seq, DOMAIN seq \ I)) = Len(seq)
<1> DEFINE n == Len(seq)
           J == DOMAIN seq \ I
<1>1. PICK f :
           /\ f[0] = << >>
           /\ \A i \in 1..n : f[i] = IF i \in I THEN Append(f[i - 1], seq[i]) ELSE f[i - 1]
           /\ ElementsAt(seq, I) = f[n]
  BY ElementsAtSteps
<1>2. PICK g :
           /\ g[0] = << >>
           /\ \A i \in 1..n : g[i] = IF i \in J THEN Append(g[i - 1], seq[i]) ELSE g[i - 1]
           /\ ElementsAt(seq, J) = g[n]
  <2> HIDE DEF J
  <2> QED BY ElementsAtSteps
<1> DEFINE T == {i \in 0..n : f[i] \in Seq(S) /\ g[i] \in Seq(S) /\ Len(f[i]) + Len(g[i]) = i}
<1>3. 0 \in T
  <2>1. << >> \in Seq(S) /\ Len(<< >>) = 0 /\ 0 \in 0..n
    OBVIOUS
  <2>2. Len(f[0]) = 0 /\ Len(g[0]) = 0 /\ f[0] \in Seq(S) /\ g[0] \in Seq(S)
    BY <1>1, <1>2, <2>1
  <2>3. Len(f[0]) + Len(g[0]) = 0
    BY <2>2
  <2> QED BY <2>1, <2>2, <2>3
<1>4. ASSUME NEW i \in 0..(n - 1), i \in T PROVE i + 1 \in T
  <2>1. i + 1 \in 1..n /\ (i + 1) - 1 = i /\ i + 1 \in 0..n
    OBVIOUS
  <2>2. i + 1 \in J <=> i + 1 \notin I
    BY <2>1
  <2>3. PICK x \in S : x = seq[i + 1]
    BY <2>1
  <2>4. PICK s \in Seq(S), t \in Seq(S) : s = f[i] /\ t = g[i] /\ Len(s) + Len(t) = i
    BY <1>4
  <2>5. /\ f[i + 1] = IF i + 1 \in I THEN Append(s, x) ELSE s
        /\ g[i + 1] = IF i + 1 \in J THEN Append(t, x) ELSE t
    BY <1>1, <1>2, <2>1, <2>3, <2>4
  <2>6. /\ Append(s, x) \in Seq(S) /\ Append(t, x) \in Seq(S)
        /\ Len(Append(s, x)) = Len(s) + 1 /\ Len(Append(t, x)) = Len(t) + 1
        /\ Len(s) \in Nat /\ Len(t) \in Nat
    OBVIOUS
  <2>8. PICK a \in Nat, b \in Nat, k \in Nat :
          a = Len(s) /\ b = Len(t) /\ k = i /\ a + b = k
    <3>1. i \in Nat
      OBVIOUS
    <3> QED BY <3>1, <2>4, <2>6, Zenon
  <2>7. /\ f[i + 1] \in Seq(S) /\ g[i + 1] \in Seq(S)
        /\ Len(f[i + 1]) + Len(g[i + 1]) = i + 1
    <3> HIDE DEF J
    <3>1. CASE i + 1 \in I
      <4>1. f[i + 1] = Append(s, x) /\ g[i + 1] = t
        BY <3>1, <2>2, <2>5
      <4>2. Len(Append(s, x)) + Len(t) = i + 1
        BY <2>6, <2>8
      <4> QED BY <4>1, <4>2, <2>6, Zenon
    <3>2. CASE i + 1 \notin I
      <4>1. f[i + 1] = s /\ g[i + 1] = Append(t, x)
        BY <3>2, <2>2, <2>5
      <4>2. Len(s) + Len(Append(t, x)) = i + 1
        BY <2>6, <2>8
      <4> QED BY <4>1, <4>2, <2>6, Zenon
    <3> QED BY <3>1, <3>2
  <2> QED BY <2>1, <2>7
<1>5. n \in 0..n /\ 0..n \subseteq T
  <2> HIDE DEF T
  <2>1. n \in Nat /\ n \in 0..n
    OBVIOUS
  <2> QED BY <1>3, <1>4, <2>1, IndexInduction
<1> QED BY <1>1, <1>2, <1>5
=============================================================================
