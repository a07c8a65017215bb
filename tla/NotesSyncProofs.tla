--------------------------- MODULE NotesSyncProofs ---------------------------
(* Proofs about NotesSync and CborStream.                                      *)
(* NotesSync: the browsers converge, for any number of browsers,               *)
(* notes, writes and times.  A browser knows its own writes and those whose    *)
(* messages its sentant has seen; of a note it shows the last of these by time *)
(* (Agreement), and when everything is delivered all know the same.            *)
(* CborStream, which encodes the events of the notes: a decoder reads back     *)
(* what the encoder wrote, for any documents, buffers and nesting (StreamInv). *)
EXTENDS NotesSync, CborStream, Integers, IndexInduction

USE NotesAssumption

-----------------------------------------------------------------------------
(* Sequences that grow at their end and shrink at their front. *)

LEMMA AppendFacts ==
  ASSUME NEW S, NEW s \in Seq(S), NEW e \in S
  PROVE  /\ Append(s, e) \in Seq(S) /\ Len(Append(s, e)) = Len(s) + 1
         /\ Len(s) \in Nat /\ Append(s, e)[Len(s) + 1] = e
         /\ \A i \in 1..Len(s) : Append(s, e)[i] = s[i]
OBVIOUS

LEMMA TailFacts ==
  ASSUME NEW S, NEW s \in Seq(S), s # << >>
  PROVE  /\ Tail(s) \in Seq(S) /\ Len(Tail(s)) = Len(s) - 1 /\ Len(s) \in Nat \ {0}
         /\ Head(s) = s[1] /\ s[1] \in S
         /\ \A i \in 1..(Len(s) - 1) : Tail(s)[i] = s[i + 1]
OBVIOUS

LEMMA SeqGrows ==
  ASSUME NEW S, NEW T, S \subseteq T, NEW s \in Seq(S)
  PROVE  s \in Seq(T)
<1>1. /\ s = [i \in 1..Len(s) |-> s[i]] /\ Len(s) \in Nat
      /\ \A i \in 1..Len(s) : s[i] \in S
  BY LenProperties, ElementOfSeq
<1> QED BY <1>1, SeqDef

-----------------------------------------------------------------------------
(* The inductive invariant. *)

WriteIds == 1..Len(writes)

\* The content of a note is the write that made it; a deletion keeps what was there.
Contents == \A i \in WriteIds : writes[i].op # "delete" => writes[i].content = i

\* The writes of one browser reach the relay and wait for it in the order they were made.
Queues ==
  /\ \A r \in Replicas : \A k \in 1..Len(outbound[r]) : writes[outbound[r][k]].by = r
  /\ \A r \in Replicas : \A j, k \in 1..Len(outbound[r]) :
       j < k => outbound[r][j] < outbound[r][k]
  /\ \A p, q \in 1..Len(relay) : p < q /\ Sender(p) = Sender(q) => relay[p] < relay[q]
  /\ \A p \in 1..Len(relay) : \A k \in 1..Len(outbound[Sender(p)]) :
       relay[p] < outbound[Sender(p)][k]

\* The messages the sentant has still to see, and the places of those it has seen.
First(r) == IF polled[r] THEN 2 ELSE 1
Waiting(r) == {inbound[r][k] : k \in First(r)..Len(inbound[r])}
Seen(r) == (1..cursor[r]) \ Waiting(r)

\* The queue towards the sentant holds messages of others in the order of the relay, and
\* none of the others it has seen comes after one that waits, the one polled included.
ReadingOf(r) ==
  /\ \A j, k \in 1..Len(inbound[r]) : j < k => inbound[r][j] < inbound[r][k]
  /\ \A k \in 1..Len(inbound[r]) : Sender(inbound[r][k]) # r
  /\ \A p \in Seen(r) : Sender(p) # r =>
       \A k \in 1..Len(inbound[r]) : p <= inbound[r][k]

Reading == \A r \in Replicas : ReadingOf(r)

\* Unless a write of the note was refused, every write of it is passed on or waits.
OnItsWay(i, r) ==
  \/ \E p \in 1..Len(relay) : relay[p] = i
  \/ \E k \in 1..Len(outbound[r]) : outbound[r][k] = i

Complete ==
  \A i \in WriteIds : writes[i].note \notin lost => OnItsWay(i, writes[i].by)

\* Nobody hears of a note before its creation: what is passed on, and what waits, about a
\* note follows its creation, and what a browser has a version of was announced.
Creates(i, n) == writes[i].op = "create" /\ writes[i].note = n

RelayInOrder ==
  \A p \in 1..Len(relay) : writes[relay[p]].note \notin lost =>
    \E q \in 1..p : Creates(relay[q], writes[relay[p]].note)

QueuesInOrder ==
  \A r \in Replicas : \A k \in 1..Len(outbound[r]) : writes[outbound[r][k]].note \notin lost =>
    \/ \E p \in 1..Len(relay) : Creates(relay[p], writes[outbound[r][k]].note)
    \/ \E j \in 1..k : Creates(outbound[r][j], writes[outbound[r][k]].note)

Sent(r, n) == \E i \in WriteIds : Creates(i, n) /\ OnItsWay(i, r)

Announced ==
  \A r \in Replicas, n \in Notes \ lost : notes[r][n] # None => Sent(r, n)

\* What a browser knows of a note: its own writes and what its sentant has seen.
Known(r, n) == {i \in WriteIds : /\ writes[i].note = n
                                 /\ writes[i].by = r \/ \E p \in Seen(r) : relay[p] = i}

\* Of the writes in K the version shows the last: by time, then by who wrote later.
Later(w, i, j) == w[j].at < w[i].at \/ (w[j].at = w[i].at /\ j <= i)
Reflects(w, v, i) == /\ v # None /\ v.at = w[i].at
                     /\ v.deleted <=> w[i].op = "delete"
                     /\ ~v.deleted => v.content = i
Shows(w, v, K) == IF K = {} THEN v = None
                  ELSE \E i \in K : (\A j \in K : Later(w, i, j)) /\ Reflects(w, v, i)

Agreement ==
  \A n \in Notes \ lost : WellStamped(n) =>
    \A r \in Replicas : Shows(writes, notes[r][n], Known(r, n))

-----------------------------------------------------------------------------
(* What the steps do. *)

Ops == {"create", "update", "delete"}

\* Every operation of a user: a version takes the place of what is in the map.
Writes(r, op, n, v) ==
  /\ CanWrite /\ Write(r, op, n, v)
  /\ op \in Ops /\ v \in Version /\ v.at = clock[r]
  /\ v.deleted <=> op = "delete"
  /\ op # "delete" => v.content = NewWrite
  /\ op # "create" => notes[r][n] # None

Entry(r, op, n, v) == [op |-> op, note |-> n, content |-> v.content,
                       at |-> v.at, by |-> r, over |-> notes[r][n]]

LEMMA VersionFacts ==
  ASSUME NEW v \in Version
  PROVE  /\ v.content \in 1..MaxWrites /\ v.at \in 0..MaxTime /\ v.deleted \in BOOLEAN
         /\ v = [content |-> v.content, at |-> v.at, deleted |-> v.deleted] /\ v # None
BY DEF Version

LEMMA SyncFacts ==
  ASSUME NEW e \in Sync
  PROVE  /\ e.op \in Ops /\ e.note \in Notes /\ e.content \in 1..MaxWrites
         /\ e.at \in 0..MaxTime /\ e.by \in Replicas /\ e.over \in Version \cup {None}
BY DEF Sync, Ops

LEMMA UserWrites ==
  ASSUME TypeOK, NEW r \in Replicas, NEW n \in Notes,
         NoteCreate(r, n) \/ NoteUpdate(r, n) \/ NoteDelete(r, n)
  PROVE  \E op \in Ops, v \in Version : Writes(r, op, n, v)
<1>1. /\ clock[r] \in 0..MaxTime /\ Len(writes) \in Nat
      /\ notes[r][n] \in Version \cup {None}
  BY DEF TypeOK
<1>2. NewWrite \in Nat \ {0} /\ (CanWrite => NewWrite \in 1..MaxWrites)
  BY <1>1 DEF NewWrite, CanWrite
<1> DEFINE fresh == [content |-> NewWrite, at |-> clock[r], deleted |-> FALSE]
<1>3. CanWrite => fresh \in Version
  BY <1>1, <1>2 DEF Version
<1>4. CASE NoteCreate(r, n)
  <2>1. CanWrite /\ Write(r, "create", n, fresh)
    BY <1>4 DEF NoteCreate
  <2>2. fresh.content = NewWrite /\ fresh.at = clock[r] /\ fresh.deleted = FALSE
    OBVIOUS
  <2> HIDE DEF fresh
  <2>3. Writes(r, "create", n, fresh)
    BY <1>3, <2>1, <2>2 DEF Writes, Ops
  <2> QED BY <1>3, <2>1, <2>3 DEF Ops
<1>5. CASE NoteUpdate(r, n)
  <2>1. CanWrite /\ Write(r, "update", n, fresh) /\ notes[r][n] # None
    BY <1>5 DEF NoteUpdate, Updatable
  <2>2. fresh.content = NewWrite /\ fresh.at = clock[r] /\ fresh.deleted = FALSE
    OBVIOUS
  <2> HIDE DEF fresh
  <2>3. Writes(r, "update", n, fresh)
    BY <1>3, <2>1, <2>2 DEF Writes, Ops
  <2> QED BY <1>3, <2>1, <2>3 DEF Ops
<1>6. CASE NoteDelete(r, n)
  <2>1. PICK v \in Version : v = notes[r][n]
    BY <1>1, <1>6 DEF NoteDelete
  <2>2. PICK t \in 0..MaxTime : t = clock[r]
    BY <1>1
  <2>3. PICK d \in Version : /\ d = [v EXCEPT !.at = t, !.deleted = TRUE]
                             /\ d.at = t /\ d.deleted = TRUE
    <3>1. [v EXCEPT !.at = t, !.deleted = TRUE] \in Version
      BY DEF Version
    <3>2. [v EXCEPT !.at = t, !.deleted = TRUE].at = t
      BY DEF Version
    <3>3. [v EXCEPT !.at = t, !.deleted = TRUE].deleted = TRUE
      BY DEF Version
    <3> QED BY <3>1, <3>2, <3>3
  <2>4. CanWrite /\ Write(r, "delete", n, d) /\ notes[r][n] # None
    BY <1>6, <2>1, <2>2, <2>3, Zenon DEF NoteDelete
  <2>5. Writes(r, "delete", n, d)
    BY <2>2, <2>3, <2>4 DEF Writes, Ops
  <2> QED BY <2>5 DEF Ops
<1> QED BY <1>4, <1>5, <1>6

\* What such a write does, in the terms of the invariant.
Records(r, n, e) ==
  /\ e \in Sync /\ e.note = n /\ e.by = r
  /\ e.op # "delete" => e.content = Len(writes) + 1
  /\ e.op # "create" => notes[r][n] # None
  /\ Len(writes) \in Nat /\ Len(writes') = Len(writes) + 1 /\ writes' \in Seq(Sync)
  /\ writes'[Len(writes) + 1] = e
  /\ \A i \in 1..Len(writes) : writes'[i] = writes[i] /\ writes[i] \in Sync
  /\ \A s \in Replicas, k \in Notes : s # r \/ k # n => notes'[s][k] = notes[s][k]
  /\ e.over = notes[r][n] /\ notes'[r][n] \in Version /\ notes'[r][n].at = e.at
  /\ notes'[r][n].deleted <=> e.op = "delete"
  /\ notes'[r][n].content = e.content

Queued(r, n) ==
  /\ \A s \in Replicas : s # r => outbound'[s] = outbound[s]
  /\ \/ /\ Len(outbound[r]) \in Nat /\ Len(outbound'[r]) = Len(outbound[r]) + 1
        /\ outbound'[r][Len(outbound[r]) + 1] = Len(writes) + 1
        /\ \A k \in 1..Len(outbound[r]) : outbound'[r][k] = outbound[r][k]
        /\ lost' = lost
     \/ outbound'[r] = outbound[r] /\ lost' = lost \cup {n}

LEMMA EntryType ==
  ASSUME TypeOK, NEW r \in Replicas, NEW n \in Notes, NEW op \in Ops, NEW v \in Version
  PROVE  Entry(r, op, n, v) \in Sync
<1>1. notes[r][n] \in Version \cup {None}
  BY DEF TypeOK
<1>2. PICK o \in Version \cup {None} : o = notes[r][n]
  BY <1>1
<1>3. v.content \in 1..MaxWrites /\ v.at \in 0..MaxTime
  BY VersionFacts
<1>4. PICK c \in 1..MaxWrites, t \in 0..MaxTime : c = v.content /\ t = v.at
  BY <1>3
<1>5. Entry(r, op, n, v) = [op |-> op, note |-> n, content |-> c, at |-> t, by |-> r,
                            over |-> o]
  BY <1>2, <1>4 DEF Entry
<1>6. [op |-> op, note |-> n, content |-> c, at |-> t, by |-> r, over |-> o] \in Sync
  BY DEF Sync, Ops
<1> QED BY <1>5, <1>6

LEMMA WhatAWriteDoes ==
  ASSUME TypeOK, NEW r \in Replicas, NEW n \in Notes, NEW op \in Ops, NEW v \in Version,
         Writes(r, op, n, v)
  PROVE  /\ Records(r, n, Entry(r, op, n, v)) /\ Queued(r, n)
         /\ outbound' \in [Replicas -> Seq(1..(Len(writes) + 1))]
         /\ writes' = Append(writes, Entry(r, op, n, v))
         /\ relay' = relay /\ notes' = [notes EXCEPT ![r][n] = v]
         /\ notes' \in [Replicas -> [Notes -> Version \cup {None}]]
         /\ lost' \subseteq Notes
         /\ sequence' = [sequence EXCEPT ![r] = @ + 1]
         /\ UNCHANGED <<clock, connected, transport>>
<1> DEFINE e == Entry(r, op, n, v)
<1>1. /\ notes' = [notes EXCEPT ![r][n] = v]
      /\ writes' = Append(writes, e)
      /\ sequence' = [sequence EXCEPT ![r] = @ + 1]
      /\ Broadcast(r, n)
      /\ UNCHANGED <<clock, connected, transport>>
  BY DEF Writes, Write, Entry, Counted
<1>2. /\ e \in Sync /\ e.note = n /\ e.by = r
      /\ e.op # "delete" => e.content = Len(writes) + 1
      /\ e.op # "create" => notes[r][n] # None
      /\ e.over = notes[r][n] /\ v.at = e.at /\ (v.deleted <=> e.op = "delete")
      /\ v.content = e.content
  BY EntryType DEF Entry, Writes, NewWrite
<1>3. writes \in Seq(Sync) /\ outbound \in [Replicas -> Seq(1..Len(writes))]
      /\ lost \subseteq Notes /\ notes \in [Replicas -> [Notes -> Version \cup {None}]]
  BY DEF TypeOK
<1> HIDE DEF e
<1>4. PICK w \in Seq(Sync) : w = writes
  BY <1>3
<1>5. /\ Len(w) \in Nat /\ Append(w, e) \in Seq(Sync)
      /\ Len(Append(w, e)) = Len(w) + 1 /\ Append(w, e)[Len(w) + 1] = e
      /\ \A i \in 1..Len(w) : Append(w, e)[i] = w[i]
  BY <1>2, AppendFacts
<1>6. \A i \in 1..Len(w) : w[i] \in Sync
  BY ElementOfSeq
<1>7. Records(r, n, e)
  <2>1. \A s \in Replicas, k \in Notes : s # r \/ k # n => notes'[s][k] = notes[s][k]
    BY <1>1, <1>3
  <2>2. notes'[r][n] = v
    BY <1>1, <1>3
  <2> QED BY <1>1, <1>2, <1>4, <1>5, <1>6, <2>1, <2>2 DEF Records
<1>8. \A s \in Replicas : outbound[s] \in Seq(1..(Len(writes) + 1))
  <2>1. 1..Len(writes) \subseteq 1..(Len(writes) + 1)
    BY <1>4, <1>5
  <2> QED BY <1>3, <2>1, SeqGrows
<1>9. Len(writes) + 1 \in 1..(Len(writes) + 1) /\ NewWrite = Len(writes) + 1
  BY <1>4, <1>5 DEF NewWrite
<1>10. Queued(r, n) /\ outbound' \in [Replicas -> Seq(1..(Len(writes) + 1))]
       /\ lost' \subseteq Notes
  <2>1. CASE connected[r]
    <3>1. outbound' = [outbound EXCEPT ![r] = Append(@, Len(writes) + 1)] /\ lost' = lost
      BY <1>1, <1>9, <2>1 DEF Broadcast
    <3>2. PICK q \in Seq(1..(Len(writes) + 1)) : q = outbound[r]
      BY <1>8
    <3>3. /\ Append(q, Len(writes) + 1) \in Seq(1..(Len(writes) + 1))
          /\ Len(Append(q, Len(writes) + 1)) = Len(q) + 1 /\ Len(q) \in Nat
          /\ Append(q, Len(writes) + 1)[Len(q) + 1] = Len(writes) + 1
          /\ \A k \in 1..Len(q) : Append(q, Len(writes) + 1)[k] = q[k]
      BY <1>9, AppendFacts
    <3>4. outbound'[r] = Append(q, Len(writes) + 1)
      BY <1>3, <3>1, <3>2
    <3>5. \A s \in Replicas : s # r => outbound'[s] = outbound[s]
      BY <1>3, <3>1
    <3>6. outbound' \in [Replicas -> Seq(1..(Len(writes) + 1))]
      <4>1. \A s \in Replicas : outbound'[s] \in Seq(1..(Len(writes) + 1))
        BY <1>8, <3>3, <3>4, <3>5
      <4>2. outbound' = [s \in Replicas |-> outbound'[s]]
        BY <1>3, <3>1
      <4> QED BY <4>1, <4>2
    <3> QED BY <1>3, <3>1, <3>2, <3>3, <3>4, <3>5, <3>6 DEF Queued
  <2>2. CASE ~connected[r]
    <3>1. outbound' = outbound /\ lost' = lost \cup {n}
      BY <1>1, <2>2 DEF Broadcast
    <3>2. outbound' \in [Replicas -> Seq(1..(Len(writes) + 1))]
      BY <1>3, <1>8, <3>1
    <3> QED BY <1>3, <3>1, <3>2 DEF Queued
  <2> QED BY <2>1, <2>2
<1>11. notes' \in [Replicas -> [Notes -> Version \cup {None}]]
  BY <1>1, <1>3
<1> QED BY <1>1, <1>7, <1>10, <1>11 DEF e, transport

\* What the page does when it drains a queue.
Drains(r) ==
  /\ Len(relay') = Len(relay) + 1 /\ relay'[Len(relay) + 1] = outbound[r][1]
  /\ \A p \in 1..Len(relay) : relay'[p] = relay[p]
  /\ Len(outbound[r]) \in Nat \ {0} /\ Len(outbound'[r]) = Len(outbound[r]) - 1
  /\ \A k \in 1..(Len(outbound[r]) - 1) : outbound'[r][k] = outbound[r][k + 1]
  /\ \A s \in Replicas : s # r => outbound'[s] = outbound[s]
  /\ writes' = writes /\ lost' = lost /\ notes' = notes

LEMMA TypeFacts ==
  ASSUME TypeOK
  PROVE  /\ Len(writes) \in Nat /\ Len(relay) \in Nat
         /\ \A i \in 1..Len(writes) : writes[i] \in Sync
         /\ \A p \in 1..Len(relay) : relay[p] \in 1..Len(writes)
         /\ \A r \in Replicas :
              /\ cursor[r] \in 0..Len(relay)
              /\ Len(inbound[r]) \in Nat /\ Len(outbound[r]) \in Nat
              /\ \A k \in 1..Len(inbound[r]) : inbound[r][k] \in 1..cursor[r]
              /\ \A k \in 1..Len(outbound[r]) : outbound[r][k] \in 1..Len(writes)
<1>1. /\ writes \in Seq(Sync) /\ relay \in Seq(1..Len(writes))
      /\ \A r \in Replicas : /\ cursor[r] \in 0..Len(relay)
                             /\ inbound[r] \in Seq(1..cursor[r])
                             /\ outbound[r] \in Seq(1..Len(writes))
  BY DEF TypeOK
<1>2. \A S, s : s \in Seq(S) => Len(s) \in Nat /\ \A i \in 1..Len(s) : s[i] \in S
  BY ElementOfSeq, LenProperties
<1> QED BY <1>1, <1>2

LEMMA MergedType ==
  ASSUME NEW v \in Version \cup {None}, NEW s \in Sync
  PROVE  Merged(v, s) \in Version \cup {None}
<1>1. s.content \in 1..MaxWrites /\ s.at \in 0..MaxTime
  BY SyncFacts
<1>2. PICK c \in 1..MaxWrites, t \in 0..MaxTime : c = s.content /\ t = s.at
  BY <1>1
<1>3. [content |-> c, at |-> t, deleted |-> FALSE] \in Version
  BY DEF Version
<1>4. v # None => [v EXCEPT !.at = t, !.deleted = TRUE] \in Version
  BY DEF Version
<1>5. CASE ~Dominates(v, s)
  BY <1>5 DEF Merged
<1>6. CASE Dominates(v, s) /\ s.op = "delete" /\ v = None
  BY <1>6 DEF Merged
<1>7. CASE Dominates(v, s) /\ s.op = "delete" /\ v # None
  <2>1. Merged(v, s) = [v EXCEPT !.at = t, !.deleted = TRUE]
    BY <1>2, <1>7 DEF Merged
  <2> QED BY <1>4, <1>7, <2>1
<1>8. CASE Dominates(v, s) /\ s.op # "delete"
  <2>1. Merged(v, s) = [content |-> c, at |-> t, deleted |-> FALSE]
    BY <1>2, <1>8 DEF Merged
  <2> QED BY <1>3, <2>1
<1> QED BY <1>5, <1>6, <1>7, <1>8

LEMMA WhatAMergeDoes ==
  ASSUME TypeOK, NEW r \in Replicas, NEW place \in 1..Len(relay), Merge(r, place)
  PROVE  /\ notes' \in [Replicas -> [Notes -> Version \cup {None}]]
         /\ relay[place] \in 1..Len(writes) /\ writes[relay[place]] \in Sync
         /\ \A s \in Replicas, n \in Notes :
              notes'[s][n] = IF s = r /\ n = writes[relay[place]].note
                             THEN Merged(notes[s][n], writes[relay[place]])
                             ELSE notes[s][n]
<1>1. relay[place] \in 1..Len(writes) /\ writes[relay[place]] \in Sync
  BY TypeFacts
<1>2. PICK m \in Sync : m = writes[relay[place]]
  BY <1>1
<1>3. notes \in [Replicas -> [Notes -> Version \cup {None}]]
  BY DEF TypeOK
<1>4. PICK n \in Notes : n = m.note
  BY SyncFacts
<1>5. notes[r][n] \in Version \cup {None}
  BY <1>3
<1>6. PICK v \in Version \cup {None} : v = Merged(notes[r][n], m)
  BY <1>5, MergedType
<1>7. notes' = [notes EXCEPT ![r][n] = v]
  BY <1>2, <1>4, <1>6 DEF Merge
<1>8. notes' \in [Replicas -> [Notes -> Version \cup {None}]]
  BY <1>3, <1>7
<1>9. \A s \in Replicas, k \in Notes :
        notes'[s][k] = IF s = r /\ k = n THEN v ELSE notes[s][k]
  BY <1>3, <1>7
<1> QED BY <1>1, <1>2, <1>4, <1>6, <1>8, <1>9

\* The writes of a browser, counted.
LEMMA OneMoreWrite ==
  ASSUME TypeOK, NEW r \in Replicas, NEW n \in Notes, NEW e, Records(r, n, e),
         sequence' = [sequence EXCEPT ![r] = @ + 1]
  PROVE  sequence' = [s \in Replicas |->
                        Cardinality({i \in 1..Len(writes') : writes'[i].by = s})]
<1> DEFINE By(s) == {i \in 1..Len(writes) : writes[i].by = s}
           Now(s) == {i \in 1..Len(writes') : writes'[i].by = s}
<1>1. sequence = [s \in Replicas |-> Cardinality(By(s))]
  BY DEF TypeOK
<1>2. /\ Len(writes) \in Nat /\ Len(writes') = Len(writes) + 1
      /\ writes'[Len(writes) + 1].by = r
      /\ \A i \in 1..Len(writes) : writes'[i] = writes[i]
  BY DEF Records
<1>3. \A s \in Replicas : s # r => Now(s) = By(s)
  BY <1>2
<1>4. Now(r) = By(r) \cup {Len(writes) + 1} /\ Len(writes) + 1 \notin By(r)
  BY <1>2
<1>5. IsFiniteSet(By(r))
  <2>1. Len(writes) \in Int /\ 1 \in Int /\ By(r) \subseteq 1..Len(writes)
    BY <1>2
  <2>2. IsFiniteSet(1..Len(writes))
    BY <2>1, FS_Interval
  <2> HIDE DEF By
  <2> QED BY <2>1, <2>2, FS_Subset
<1> HIDE DEF By, Now
<1>6. Cardinality(Now(r)) = Cardinality(By(r)) + 1
  BY <1>4, <1>5, FS_AddElement
<1>7. \A s \in Replicas : sequence'[s] = Cardinality(Now(s))
  BY <1>1, <1>3, <1>6
<1>8. sequence' = [s \in Replicas |-> sequence'[s]]
  BY <1>1
<1> QED BY <1>7, <1>8 DEF Now

-----------------------------------------------------------------------------
(* Types. *)

LEMMA TypeStep ==
  ASSUME TypeOK, [Next]_vars
  PROVE  TypeOK'
<1>0. /\ notes \in [Replicas -> [Notes -> Version \cup {None}]]
      /\ clock \in [Replicas -> 0..MaxTime] /\ connected \in [Replicas -> BOOLEAN]
      /\ outbound \in [Replicas -> Seq(1..Len(writes))] /\ polled \in [Replicas -> BOOLEAN]
      /\ relay \in Seq(1..Len(writes)) /\ cursor \in [Replicas -> 0..Len(relay)]
      /\ inbound \in [Replicas -> Seq(1..Len(relay))]
      /\ \A r \in Replicas : /\ inbound[r] \in Seq(1..cursor[r])
                             /\ polled[r] => inbound[r] # <<>>
      /\ writes \in Seq(Sync) /\ lost \subseteq Notes
      /\ Len(relay) \in Nat /\ Len(writes) \in Nat
  BY TypeFacts DEF TypeOK
<1>1. ASSUME NEW r \in Replicas, NEW n \in Notes, NEW op \in Ops, NEW v \in Version,
             Writes(r, op, n, v)
      PROVE  TypeOK'
  <2>1. /\ Records(r, n, Entry(r, op, n, v))
        /\ outbound' \in [Replicas -> Seq(1..(Len(writes) + 1))]
        /\ notes' \in [Replicas -> [Notes -> Version \cup {None}]]
        /\ lost' \subseteq Notes
        /\ sequence' = [sequence EXCEPT ![r] = @ + 1]
        /\ UNCHANGED <<clock, connected, transport>>
    BY <1>1, WhatAWriteDoes
  <2>2. writes' \in Seq(Sync) /\ Len(writes') = Len(writes) + 1
    BY <2>1 DEF Records
  <2>3. sequence' = [s \in Replicas |->
                        Cardinality({i \in 1..Len(writes') : writes'[i].by = s})]
    BY <2>1, OneMoreWrite
  <2>4. relay' \in Seq(1..Len(writes'))
    <3>1. 1..Len(writes) \subseteq 1..Len(writes')
      BY <1>0, <2>2
    <3>2. relay \in Seq(1..Len(writes'))
      BY <1>0, <3>1, SeqGrows
    <3> QED BY <2>1, <3>2 DEF transport
  <2> QED BY <1>0, <2>1, <2>2, <2>3, <2>4 DEF TypeOK, transport
<1>2. ASSUME NEW r \in Replicas, NEW place \in 1..Len(relay), Merge(r, place)
      PROVE  notes' \in [Replicas -> [Notes -> Version \cup {None}]]
  BY <1>2, WhatAMergeDoes
<1>3. ASSUME NEW r \in Replicas, Tick(r) PROVE TypeOK'
  <2>1. Head(inbound[r]) \in 1..Len(relay)
    BY <1>0, <1>3, TailFacts DEF Tick
  <2>2. notes' \in [Replicas -> [Notes -> Version \cup {None}]]
    BY <1>2, <1>3, <2>1 DEF Tick
  <2>3. polled' \in [Replicas -> BOOLEAN] /\ \A s \in Replicas : polled'[s] => inbound[s] # <<>>
    BY <1>0, <1>3 DEF Tick
  <2> QED BY <1>0, <1>3, <2>2, <2>3 DEF Tick, TypeOK
<1>4. ASSUME NEW r \in Replicas, AdvanceInbound(r) PROVE TypeOK'
  <2>1. inbound' = [inbound EXCEPT ![r] = Tail(@)] /\ inbound[r] # << >>
    BY <1>4 DEF AdvanceInbound
  <2>2. Tail(inbound[r]) \in Seq(1..Len(relay)) /\ Tail(inbound[r]) \in Seq(1..cursor[r])
    BY <1>0, <2>1, TailFacts
  <2>3. inbound' \in [Replicas -> Seq(1..Len(relay))]
    BY <1>0, <2>1, <2>2
  <2>4. \A s \in Replicas : /\ inbound'[s] \in Seq(1..cursor[s])
                            /\ s # r => inbound'[s] = inbound[s]
    BY <1>0, <2>1, <2>2
  <2>5. /\ polled' \in [Replicas -> BOOLEAN]
        /\ \A s \in Replicas : polled'[s] => inbound'[s] # <<>>
    BY <1>0, <1>4, <2>4 DEF AdvanceInbound
  <2> QED BY <1>0, <1>4, <2>3, <2>4, <2>5 DEF AdvanceInbound, TypeOK, local
<1>5. ASSUME NEW r \in Replicas, DrainOutbound(r) PROVE TypeOK'
  <2>1. /\ outbound' = [outbound EXCEPT ![r] = Tail(@)] /\ outbound[r] # << >>
        /\ relay' = Append(relay, Head(outbound[r]))
    BY <1>5 DEF DrainOutbound
  <2>2. Tail(outbound[r]) \in Seq(1..Len(writes)) /\ Head(outbound[r]) \in 1..Len(writes)
    BY <1>0, <2>1, TailFacts
  <2>3. outbound' \in [Replicas -> Seq(1..Len(writes))]
    BY <1>0, <2>1, <2>2
  <2>4. relay' \in Seq(1..Len(writes)) /\ Len(relay') = Len(relay) + 1
    BY <1>0, <2>1, <2>2, AppendFacts
  <2>5. cursor \in [Replicas -> 0..Len(relay')]
    BY <1>0, <2>4
  <2>6. inbound \in [Replicas -> Seq(1..Len(relay'))]
    <3>1. 1..Len(relay) \subseteq 1..Len(relay')
      BY <1>0, <2>4
    <3>2. \A s \in Replicas : inbound[s] \in Seq(1..Len(relay'))
      BY <1>0, <3>1, SeqGrows
    <3> QED BY <1>0, <3>2
  <2> QED BY <1>0, <1>5, <2>3, <2>4, <2>5, <2>6 DEF DrainOutbound, TypeOK, local
<1>6. ASSUME NEW r \in Replicas, Unread(r), cursor' = [cursor EXCEPT ![r] = @ + 1]
      PROVE  /\ cursor' \in [Replicas -> 0..Len(relay)] /\ cursor'[r] = cursor[r] + 1
             /\ NextRead(r) \in 1..Len(relay) /\ NextRead(r) = cursor[r] + 1
             /\ \A s \in Replicas : inbound[s] \in Seq(1..cursor'[s])
             /\ \A s \in Replicas : s # r => cursor'[s] = cursor[s]
  <2>1. PICK c \in 0..Len(relay) : c = cursor[r]
    BY <1>0
  <2>2. c + 1 \in 0..Len(relay) /\ c + 1 \in 1..Len(relay) /\ cursor'[r] = c + 1
    BY <1>0, <1>6, <2>1 DEF Unread
  <2>3. cursor' \in [Replicas -> 0..Len(relay)]
    BY <1>0, <1>6, <2>1, <2>2
  <2>4. \A s \in Replicas : s # r => cursor'[s] = cursor[s]
    BY <1>0, <1>6
  <2>5. inbound[r] \in Seq(1..cursor'[r])
    <3>1. 1..c \subseteq 1..(c + 1)
      OBVIOUS
    <3>2. inbound[r] \in Seq(1..c)
      BY <1>0, <2>1
    <3>3. inbound[r] \in Seq(1..(c + 1))
      BY <3>1, <3>2, SeqGrows
    <3> QED BY <2>2, <3>3
  <2> QED BY <1>0, <2>1, <2>2, <2>3, <2>4, <2>5 DEF NextRead
<1>7. ASSUME NEW r \in Replicas, SkipOwn(r) PROVE TypeOK'
  <2>1. /\ cursor' \in [Replicas -> 0..Len(relay)]
        /\ \A s \in Replicas : inbound[s] \in Seq(1..cursor'[s])
    BY <1>6, <1>7 DEF SkipOwn
  <2> QED BY <1>0, <1>7, <2>1 DEF SkipOwn, TypeOK, local
<1>8. ASSUME NEW r \in Replicas, PushInbound(r) PROVE TypeOK'
  <2>1. /\ cursor' \in [Replicas -> 0..Len(relay)] /\ cursor'[r] = cursor[r] + 1
        /\ NextRead(r) \in 1..Len(relay) /\ NextRead(r) = cursor[r] + 1
        /\ \A s \in Replicas : inbound[s] \in Seq(1..cursor'[s])
        /\ inbound' = [inbound EXCEPT ![r] = Append(@, NextRead(r))]
    BY <1>6, <1>8 DEF PushInbound
  <2>2. NextRead(r) \in 1..cursor'[r]
    <3>1. PICK c \in 0..Len(relay) : c = cursor[r]
      BY <1>0
    <3> QED BY <2>1, <3>1
  <2>3. /\ Append(inbound[r], NextRead(r)) \in Seq(1..cursor'[r])
        /\ Append(inbound[r], NextRead(r)) \in Seq(1..Len(relay))
        /\ Len(Append(inbound[r], NextRead(r))) # 0
    <3>1. \A S : inbound[r] \in Seq(S) /\ NextRead(r) \in S =>
                /\ Append(inbound[r], NextRead(r)) \in Seq(S)
                /\ Len(Append(inbound[r], NextRead(r))) = Len(inbound[r]) + 1
                /\ Len(inbound[r]) \in Nat
      BY AppendFacts
    <3> QED BY <1>0, <2>1, <2>2, <3>1
  <2>4. inbound' \in [Replicas -> Seq(1..Len(relay))]
    BY <1>0, <2>1, <2>3
  <2>5. \A s \in Replicas : /\ inbound'[s] \in Seq(1..cursor'[s])
                            /\ polled[s] => inbound'[s] # << >>
    <3> TAKE s \in Replicas
    <3>1. CASE s = r
      <4>1. inbound'[s] = Append(inbound[r], NextRead(r))
        BY <1>0, <2>1, <3>1
      <4>2. Len(<< >>) = 0
        OBVIOUS
      <4> QED BY <2>3, <3>1, <4>1, <4>2
    <3>2. CASE s # r
      <4>1. inbound'[s] = inbound[s]
        BY <1>0, <2>1, <3>2
      <4> QED BY <1>0, <2>1, <4>1
    <3> QED BY <3>1, <3>2
  <2> QED BY <1>0, <1>8, <2>1, <2>4, <2>5 DEF PushInbound, TypeOK, local
<1>9. ASSUME NEW r \in Replicas, PushSyncInbound(r) PROVE TypeOK'
  <2>1. /\ cursor' \in [Replicas -> 0..Len(relay)]
        /\ NextRead(r) \in 1..Len(relay)
        /\ \A s \in Replicas : inbound[s] \in Seq(1..cursor'[s])
    BY <1>6, <1>9 DEF PushSyncInbound
  <2>2. notes' \in [Replicas -> [Notes -> Version \cup {None}]]
    BY <1>2, <1>9, <2>1 DEF PushSyncInbound
  <2> QED BY <1>0, <1>9, <2>1, <2>2 DEF PushSyncInbound, TypeOK
<1>10. ASSUME NEW r \in Replicas, NEW up \in BOOLEAN, SetRelayConnected(r, up) PROVE TypeOK'
  <2>1. connected' \in [Replicas -> BOOLEAN]
    BY <1>0, <1>10 DEF SetRelayConnected
  <2> QED BY <1>0, <1>10, <2>1 DEF SetRelayConnected, TypeOK, local, transport
<1>11. ASSUME NEW r \in Replicas, Pass(r) PROVE TypeOK'
  <2>1. PICK t \in 0..MaxTime : t = clock[r]
    BY <1>0
  <2>2. t + 1 \in 0..MaxTime
    BY <1>11, <2>1 DEF Pass
  <2>3. clock' \in [Replicas -> 0..MaxTime]
    BY <1>0, <1>11, <2>1, <2>2 DEF Pass
  <2> QED BY <1>0, <1>11, <2>3 DEF Pass, TypeOK, local, transport
<1>12. CASE UNCHANGED vars
  BY <1>0, <1>12 DEF vars, TypeOK
<1>13. CASE Next
  <2>1. PICK r \in Replicas :
           \/ \E n \in Notes : NoteCreate(r, n)
           \/ \E n \in Notes : NoteUpdate(r, n)
           \/ \E n \in Notes : NoteDelete(r, n)
           \/ Tick(r) \/ AdvanceInbound(r)
           \/ DrainOutbound(r) \/ SkipOwn(r) \/ PushInbound(r) \/ PushSyncInbound(r)
           \/ \E up \in BOOLEAN : SetRelayConnected(r, up)
           \/ Pass(r)
    BY <1>13 DEF Next
  <2>2. ASSUME NEW n \in Notes, NoteCreate(r, n) \/ NoteUpdate(r, n) \/ NoteDelete(r, n)
        PROVE  TypeOK'
    BY <1>1, <2>2, UserWrites
  <2> QED BY <2>1, <2>2, <1>3, <1>4, <1>5, <1>7, <1>8, <1>9, <1>10, <1>11
<1> QED BY <1>12, <1>13

-----------------------------------------------------------------------------
(* What travels.  For this a step writes, drains a queue, or does neither. *)

LEMMA KindsOfSteps ==
  ASSUME TypeOK, [Next]_vars
  PROVE  \/ \E r \in Replicas, n \in Notes, e \in Sync :
               Records(r, n, e) /\ Queued(r, n) /\ relay' = relay
         \/ \E r \in Replicas : Drains(r)
         \/ /\ UNCHANGED <<writes, outbound, relay, lost>>
            /\ notes' = notes \/ \E r \in Replicas, place \in 1..Len(relay) : Merge(r, place)
<1>1. ASSUME NEW r \in Replicas, NEW n \in Notes,
             NoteCreate(r, n) \/ NoteUpdate(r, n) \/ NoteDelete(r, n)
      PROVE  \E e \in Sync : Records(r, n, e) /\ Queued(r, n) /\ relay' = relay
  <2>1. PICK op \in Ops, v \in Version : Writes(r, op, n, v)
    BY <1>1, UserWrites
  <2>2. PICK e : e = Entry(r, op, n, v)
    OBVIOUS
  <2>3. e \in Sync /\ Records(r, n, e) /\ Queued(r, n) /\ relay' = relay
    BY <2>1, <2>2, WhatAWriteDoes, EntryType
  <2> QED BY <2>3
<1>2. ASSUME NEW r \in Replicas, DrainOutbound(r) PROVE Drains(r)
  <2>1. /\ outbound' = [outbound EXCEPT ![r] = Tail(@)] /\ outbound[r] # << >>
        /\ relay' = Append(relay, Head(outbound[r])) /\ UNCHANGED local
    BY <1>2 DEF DrainOutbound
  <2>2. /\ outbound \in [Replicas -> Seq(1..Len(writes))] /\ relay \in Seq(1..Len(writes))
    BY DEF TypeOK
  <2>3. PICK q \in Seq(1..Len(writes)) : q = outbound[r]
    BY <2>2
  <2>4. /\ Len(Tail(q)) = Len(q) - 1 /\ Len(q) \in Nat \ {0} /\ Head(q) = q[1]
        /\ q[1] \in 1..Len(writes)
        /\ \A k \in 1..(Len(q) - 1) : Tail(q)[k] = q[k + 1]
    BY <2>1, <2>3, TailFacts
  <2>5. outbound'[r] = Tail(q) /\ \A s \in Replicas : s # r => outbound'[s] = outbound[s]
    BY <2>1, <2>2, <2>3
  <2>6. /\ Len(relay') = Len(relay) + 1 /\ relay'[Len(relay) + 1] = q[1]
        /\ \A p \in 1..Len(relay) : relay'[p] = relay[p]
    BY <2>1, <2>2, <2>3, <2>4, AppendFacts
  <2> QED BY <2>1, <2>3, <2>4, <2>5, <2>6 DEF Drains, local
<1>3. CASE UNCHANGED vars
  BY <1>3 DEF vars
<1>4. CASE Next
  <2>1. PICK r \in Replicas :
           \/ \E n \in Notes : NoteCreate(r, n)
           \/ \E n \in Notes : NoteUpdate(r, n)
           \/ \E n \in Notes : NoteDelete(r, n)
           \/ Tick(r) \/ AdvanceInbound(r)
           \/ DrainOutbound(r) \/ SkipOwn(r) \/ PushInbound(r) \/ PushSyncInbound(r)
           \/ \E up \in BOOLEAN : SetRelayConnected(r, up)
           \/ Pass(r)
    BY <1>4 DEF Next
  <2>2. CASE AdvanceInbound(r) \/ SkipOwn(r) \/ PushInbound(r) \/ Pass(r)
             \/ \E up \in BOOLEAN : SetRelayConnected(r, up)
    BY <2>2 DEF AdvanceInbound, SkipOwn, PushInbound, Pass, SetRelayConnected, local, transport
  <2>3. CASE Tick(r)
    <3>1. Head(inbound[r]) \in 1..Len(relay)
      <4>1. inbound[r] \in Seq(1..Len(relay)) /\ inbound[r] # << >>
        BY <2>3 DEF Tick, TypeOK
      <4> QED BY <4>1, TailFacts
    <3> QED BY <2>3, <3>1 DEF Tick
  <2>4. CASE PushSyncInbound(r)
    <3>1. NextRead(r) \in 1..Len(relay)
      <4>1. cursor[r] \in 0..Len(relay) /\ cursor[r] < Len(relay) /\ Len(relay) \in Nat
        BY <2>4, TypeFacts DEF PushSyncInbound, Unread
      <4> QED BY <4>1 DEF NextRead
    <3> QED BY <2>4, <3>1 DEF PushSyncInbound
  <2> QED BY <2>1, <2>2, <2>3, <2>4, <1>1, <1>2
<1> QED BY <1>3, <1>4

\* The content of a note is the write that made it.
LEMMA ContentsStep ==
  ASSUME TypeOK, Contents, [Next]_vars
  PROVE  Contents'
<1>1. CASE \E r \in Replicas, n \in Notes, e \in Sync :
              Records(r, n, e) /\ Queued(r, n) /\ relay' = relay
  BY <1>1 DEF Records, Contents, WriteIds
<1>2. CASE \E r \in Replicas : Drains(r)
  BY <1>2 DEF Drains, Contents, WriteIds
<1>3. CASE UNCHANGED <<writes, outbound, relay, lost>>
  BY <1>3 DEF Contents, WriteIds
<1> QED BY <1>1, <1>2, <1>3, KindsOfSteps

\* The relay knows who wrote what it passes on, whatever is written later.
LEMMA SendersStay ==
  ASSUME TypeOK, NEW r, NEW n, NEW e, Records(r, n, e), relay' = relay
  PROVE  \A p \in 1..Len(relay) : /\ relay'[p] = relay[p] /\ Sender(p)' = Sender(p)
                                  /\ writes'[relay[p]] = writes[relay[p]]
BY TypeFacts DEF Records, Sender

LEMMA QueuesStep ==
  ASSUME TypeOK, Queues, [Next]_vars
  PROVE  Queues'
<1>0. /\ Len(writes) \in Nat /\ Len(relay) \in Nat
      /\ \A p \in 1..Len(relay) : /\ relay[p] \in 1..Len(writes)
                                 /\ Sender(p) \in Replicas
      /\ \A r \in Replicas :
           /\ Len(outbound[r]) \in Nat
           /\ \A k \in 1..Len(outbound[r]) : outbound[r][k] \in 1..Len(writes)
  BY TypeFacts, SyncFacts DEF Sender
<1>1. ASSUME NEW r \in Replicas, NEW n \in Notes, NEW e \in Sync,
             Records(r, n, e), Queued(r, n), relay' = relay
      PROVE  Queues'
  <2>1. \A p \in 1..Len(relay) : relay'[p] = relay[p] /\ Sender(p)' = Sender(p)
    BY <1>1, SendersStay
  <2>2. PICK N \in Nat : N = Len(writes)
    BY <1>0
  <2>3. /\ writes'[N + 1].by = r
        /\ \A i \in 1..N : writes'[i] = writes[i]
    BY <1>1, <2>2 DEF Records
  <2>4. \A s \in Replicas : \A k \in 1..Len(outbound'[s]) :
          /\ outbound'[s][k] \in 1..(N + 1)
          /\ writes'[outbound'[s][k]].by = s
          /\ \/ s = r /\ k = Len(outbound[s]) + 1 /\ outbound'[s][k] = N + 1
             \/ k \in 1..Len(outbound[s]) /\ outbound'[s][k] = outbound[s][k]
                                         /\ outbound[s][k] \in 1..N
    <3> TAKE s \in Replicas
    <3> TAKE k \in 1..Len(outbound'[s])
    <3>1. CASE k \in 1..Len(outbound[s]) /\ outbound'[s][k] = outbound[s][k]
      <4>1. PICK i \in 1..N : i = outbound[s][k]
        BY <1>0, <2>2, <3>1
      <4>2. writes[i].by = s
        BY <3>1, <4>1 DEF Queues
      <4> QED BY <2>3, <3>1, <4>1, <4>2
    <3>2. CASE s = r /\ k = Len(outbound[s]) + 1 /\ outbound'[s][k] = N + 1
      BY <2>2, <2>3, <3>2
    <3>3. \/ k \in 1..Len(outbound[s]) /\ outbound'[s][k] = outbound[s][k]
          \/ s = r /\ k = Len(outbound[s]) + 1 /\ outbound'[s][k] = N + 1
      <4>1. CASE s # r
        BY <1>1, <4>1 DEF Queued
      <4>2. CASE s = r
        BY <1>1, <2>2, <4>2 DEF Queued
      <4> QED BY <4>1, <4>2
    <3> QED BY <3>1, <3>2, <3>3
  <2>5. \A s \in Replicas : \A j, k \in 1..Len(outbound'[s]) :
          j < k => outbound'[s][j] < outbound'[s][k]
    <3> TAKE s \in Replicas
    <3> TAKE j, k \in 1..Len(outbound'[s])
    <3>1. \A a, b \in 1..Len(outbound[s]) : a < b => outbound[s][a] < outbound[s][b]
      BY DEF Queues
    <3>2. PICK m \in Nat : m = Len(outbound[s])
      BY <1>0
    <3>3. PICK a \in 1..(N + 1) :
            /\ a = outbound'[s][j]
            /\ \/ j = m + 1 /\ a = N + 1
               \/ j \in 1..m /\ a = outbound[s][j] /\ a \in 1..N
      <4>1. PICK a : a = outbound'[s][j]
        OBVIOUS
      <4>2. /\ a \in 1..(N + 1)
            /\ \/ j = Len(outbound[s]) + 1 /\ a = N + 1
               \/ j \in 1..Len(outbound[s]) /\ a = outbound[s][j] /\ a \in 1..N
        BY <2>4, <4>1
      <4> QED BY <3>2, <4>1, <4>2
    <3>4. PICK b \in 1..(N + 1) :
            /\ b = outbound'[s][k]
            /\ \/ k = m + 1 /\ b = N + 1
               \/ k \in 1..m /\ b = outbound[s][k] /\ b \in 1..N
      <4>1. PICK b : b = outbound'[s][k]
        OBVIOUS
      <4>2. /\ b \in 1..(N + 1)
            /\ \/ k = Len(outbound[s]) + 1 /\ b = N + 1
               \/ k \in 1..Len(outbound[s]) /\ b = outbound[s][k] /\ b \in 1..N
        BY <2>4, <4>1
      <4> QED BY <3>2, <4>1, <4>2
    <3>5. j < k => a < b
      BY <3>1, <3>2, <3>3, <3>4
    <3> QED BY <3>3, <3>4, <3>5
  <2>6. \A p \in 1..Len(relay) : \A k \in 1..Len(outbound'[Sender(p)]) :
          relay[p] < outbound'[Sender(p)][k]
    <3> TAKE p \in 1..Len(relay)
    <3>1. PICK s \in Replicas : s = Sender(p)
      BY <1>0
    <3>2. \A k \in 1..Len(outbound[s]) : relay[p] < outbound[s][k]
      BY <3>1 DEF Queues
    <3>3. PICK i \in 1..N : i = relay[p]
      BY <1>0, <2>2
    <3>4. ASSUME NEW k \in 1..Len(outbound'[s]) PROVE i < outbound'[s][k]
      <4>1. CASE outbound'[s][k] = N + 1
        BY <4>1
      <4>2. CASE k \in 1..Len(outbound[s]) /\ outbound'[s][k] = outbound[s][k]
        BY <3>2, <3>3, <4>2
      <4> QED BY <2>4, <4>1, <4>2
    <3> QED BY <3>1, <3>3, <3>4
  <2>7. relay' = relay /\ \A p, q \in 1..Len(relay) :
          p < q /\ Sender(p)' = Sender(q)' => relay[p] < relay[q]
    BY <1>1, <2>1 DEF Queues
  <2> QED BY <1>1, <2>1, <2>4, <2>5, <2>6, <2>7 DEF Queues
<1>2. ASSUME NEW r \in Replicas, Drains(r) PROVE Queues'
  <2>1. PICK m \in Nat, l \in Nat \ {0}, i \in 1..Len(writes) :
           m = Len(relay) /\ l = Len(outbound[r]) /\ i = outbound[r][1]
    <3>1. Len(outbound[r]) \in Nat \ {0}
      BY <1>2 DEF Drains
    <3>2. outbound[r][1] \in 1..Len(writes)
      BY <1>0, <3>1
    <3> QED BY <1>0, <3>1, <3>2
  <2>2. /\ writes' = writes /\ Len(relay') = m + 1 /\ relay'[m + 1] = i
        /\ \A p \in 1..m : relay'[p] = relay[p]
        /\ Len(outbound'[r]) = l - 1
        /\ \A k \in 1..(l - 1) : outbound'[r][k] = outbound[r][k + 1]
        /\ \A s \in Replicas : s # r => outbound'[s] = outbound[s]
    BY <1>2, <2>1 DEF Drains
  <2>3. Sender(m + 1)' = r /\ \A p \in 1..m : Sender(p)' = Sender(p) /\ Sender(p) \in Replicas
    <3>1. writes[i].by = r
      <4>1. 1 \in 1..Len(outbound[r])
        BY <2>1
      <4> QED BY <2>1, <4>1 DEF Queues
    <3> QED BY <1>0, <2>1, <2>2, <3>1 DEF Sender
  <2>4. \A j, k \in 1..l : j < k => outbound[r][j] < outbound[r][k]
    BY <2>1 DEF Queues
  <2>5. \A s \in Replicas : \A k \in 1..Len(outbound'[s]) : writes'[outbound'[s][k]].by = s
    <3> TAKE s \in Replicas
    <3> TAKE k \in 1..Len(outbound'[s])
    <3>1. CASE s # r
      BY <2>2, <3>1 DEF Queues
    <3>2. CASE s = r
      <4>1. k + 1 \in 1..Len(outbound[r]) /\ k \in 1..(l - 1)
        BY <2>1, <2>2, <3>2
      <4>2. writes[outbound[r][k + 1]].by = r
        BY <4>1 DEF Queues
      <4> QED BY <2>2, <3>2, <4>1, <4>2
    <3> QED BY <3>1, <3>2
  <2>6. \A s \in Replicas : \A j, k \in 1..Len(outbound'[s]) :
          j < k => outbound'[s][j] < outbound'[s][k]
    <3> TAKE s \in Replicas
    <3>1. CASE s # r
      BY <2>2, <3>1 DEF Queues
    <3>2. CASE s = r
      <4> TAKE j, k \in 1..Len(outbound'[s])
      <4>1. /\ j \in 1..(l - 1) /\ k \in 1..(l - 1)
            /\ j + 1 \in 1..l /\ k + 1 \in 1..l
            /\ j < k => j + 1 < k + 1
        BY <2>1, <2>2, <3>2
      <4> QED BY <2>2, <2>4, <3>2, <4>1
    <3> QED BY <3>1, <3>2
  <2>7. \A p, q \in 1..Len(relay') :
          p < q /\ Sender(p)' = Sender(q)' => relay'[p] < relay'[q]
    <3> TAKE p, q \in 1..Len(relay')
    <3>1. CASE q = m + 1 /\ p < q
      <4>1. p \in 1..m
        BY <2>2, <3>1
      <4>2. Sender(p) = r => relay[p] < i
        <5>1. 1 \in 1..Len(outbound[r])
          BY <2>1
        <5> QED BY <2>1, <4>1, <5>1 DEF Queues
      <4> QED BY <2>2, <2>3, <3>1, <4>1, <4>2
    <3>2. CASE q # m + 1 /\ p < q
      <4>0. p \in 1..(m + 1) /\ q \in 1..(m + 1)
        BY <2>2
      <4>1. p \in 1..m /\ q \in 1..m
        BY <3>2, <4>0
      <4>2. p < q /\ Sender(p) = Sender(q) => relay[p] < relay[q]
        BY <2>1, <4>1 DEF Queues
      <4> QED BY <2>2, <2>3, <4>1, <4>2
    <3> QED BY <3>1, <3>2
  <2>8. \A p \in 1..Len(relay') : \A k \in 1..Len((outbound'[Sender(p)'])) :
          relay'[p] < outbound'[Sender(p)'][k]
    <3> TAKE p \in 1..Len(relay')
    <3>1. CASE p = m + 1
      <4> TAKE k \in 1..Len((outbound'[Sender(p)']))
      <4>1. k \in 1..(l - 1) /\ 1 \in 1..l /\ k + 1 \in 1..l /\ 1 < k + 1
        BY <2>1, <2>2, <2>3, <3>1
      <4>2. outbound[r][1] < outbound[r][k + 1]
        BY <2>4, <4>1
      <4>3. relay'[p] = outbound[r][1] /\ outbound'[Sender(p)'][k] = outbound[r][k + 1]
        BY <2>1, <2>2, <2>3, <3>1, <4>1
      <4> QED BY <4>2, <4>3
    <3>2. CASE p # m + 1
      <4>1. p \in 1..m
        BY <2>1, <2>2, <3>2
      <4>2. PICK s \in Replicas : s = Sender(p) /\ s = Sender(p)'
        BY <2>3, <4>1
      <4>3. \A k \in 1..Len(outbound[s]) : relay[p] < outbound[s][k]
        BY <2>1, <4>1, <4>2 DEF Queues
      <4>4. CASE s # r
        BY <2>2, <4>1, <4>2, <4>3, <4>4
      <4>5. CASE s = r
        <5> TAKE k \in 1..Len((outbound'[Sender(p)']))
        <5>0. Len((outbound'[Sender(p)'])) = l - 1
          BY <2>2, <4>2, <4>5
        <5>1. k \in 1..(l - 1) /\ k + 1 \in 1..l
          BY <2>1, <5>0
        <5>2. relay[p] < outbound[r][k + 1]
          BY <2>1, <4>3, <4>5, <5>1
        <5>3. relay'[p] = relay[p] /\ outbound'[Sender(p)'][k] = outbound[r][k + 1]
          BY <2>2, <4>1, <4>2, <4>5, <5>1
        <5> QED BY <5>2, <5>3
      <4> QED BY <4>4, <4>5
    <3> QED BY <3>1, <3>2
  <2> QED BY <2>5, <2>6, <2>7, <2>8 DEF Queues
<1>3. CASE UNCHANGED <<writes, outbound, relay, lost>>
  BY <1>3 DEF Queues, Sender
<1> QED BY <1>1, <1>2, <1>3, KindsOfSteps

\* A step that writes or drains a queue loses nothing.
LEMMA NothingIsLost ==
  ASSUME TypeOK, [Next]_vars, NEW r \in Replicas, NEW i, OnItsWay(i, r)
  PROVE  OnItsWay(i, r)'
<1>0. Len(relay) \in Nat /\ Len(outbound[r]) \in Nat
  BY TypeFacts
<1>1. ASSUME NEW s \in Replicas, NEW n \in Notes, NEW e \in Sync,
             Records(s, n, e), Queued(s, n), relay' = relay
      PROVE  OnItsWay(i, r)'
  <2>1. \A k \in 1..Len(outbound[r]) : k \in 1..Len(outbound'[r]) /\ outbound'[r][k] = outbound[r][k]
    BY <1>0, <1>1 DEF Queued
  <2> QED BY <1>1, <2>1 DEF OnItsWay
<1>2. ASSUME NEW s \in Replicas, Drains(s) PROVE OnItsWay(i, r)'
  <2>1. CASE \E p \in 1..Len(relay) : relay[p] = i
    BY <1>0, <1>2, <2>1 DEF OnItsWay, Drains
  <2>2. CASE \E k \in 1..Len(outbound[r]) : outbound[r][k] = i
    <3>1. CASE r # s
      BY <1>2, <2>2, <3>1 DEF OnItsWay, Drains
    <3>2. CASE r = s
      <4>1. PICK k \in 1..Len(outbound[r]) : outbound[r][k] = i
        BY <2>2
      <4>2. CASE k = 1
        <5>1. Len(relay) + 1 \in 1..Len(relay') /\ relay'[Len(relay) + 1] = i
          BY <1>0, <1>2, <3>2, <4>1, <4>2 DEF Drains
        <5> QED BY <5>1 DEF OnItsWay
      <4>3. CASE k # 1
        <5>1. PICK j \in 1..(Len(outbound[r]) - 1) : k = j + 1
          BY <1>0, <4>1, <4>3
        <5>2. j \in 1..Len(outbound'[r]) /\ outbound'[r][j] = i
          BY <1>0, <1>2, <3>2, <4>1, <5>1 DEF Drains
        <5> QED BY <5>2 DEF OnItsWay
      <4> QED BY <4>2, <4>3
    <3> QED BY <3>1, <3>2
  <2> QED BY <2>1, <2>2 DEF OnItsWay
<1>3. CASE UNCHANGED <<writes, outbound, relay, lost>>
  BY <1>3 DEF OnItsWay
<1> QED BY <1>1, <1>2, <1>3, KindsOfSteps

\* Unless it was refused, a write is on its way.
LEMMA NewWriteIsQueued ==
  ASSUME TypeOK, NEW r \in Replicas, NEW n \in Notes, NEW e \in Sync,
         Records(r, n, e), Queued(r, n), n \notin lost',
         NEW i, i = Len(writes) + 1
  PROVE  OnItsWay(i, r)'
<1>1. /\ Len(outbound[r]) \in Nat /\ Len(outbound'[r]) = Len(outbound[r]) + 1
      /\ outbound'[r][Len(outbound[r]) + 1] = Len(writes) + 1
  BY DEF Queued
<1>2. Len(outbound[r]) + 1 \in 1..Len(outbound'[r])
  BY <1>1
<1> QED BY <1>1, <1>2 DEF OnItsWay

LEMMA CompleteStep ==
  ASSUME TypeOK, Complete, [Next]_vars
  PROVE  Complete'
<1>0. Len(writes) \in Nat /\ \A i \in 1..Len(writes) : writes[i] \in Sync /\ writes[i].by \in Replicas
  BY TypeFacts, SyncFacts
<1>1. ASSUME NEW r \in Replicas, NEW n \in Notes, NEW e \in Sync,
             Records(r, n, e), Queued(r, n), relay' = relay
      PROVE  Complete'
  <2> SUFFICES ASSUME NEW i \in 1..Len(writes'), writes'[i].note \notin lost'
               PROVE  OnItsWay(i, writes[i].by)'
    BY DEF Complete, WriteIds
  <2>1. /\ Len(writes') = Len(writes) + 1
        /\ writes'[Len(writes) + 1].note = n /\ writes'[Len(writes) + 1].by = r
        /\ \A j \in 1..Len(writes) : writes'[j] = writes[j]
        /\ lost \subseteq lost'
    BY <1>1 DEF Records, Queued
  <2>2. CASE i = Len(writes) + 1
    <3>1. OnItsWay(i, r)'
      BY <1>1, <2>1, <2>2, NewWriteIsQueued
    <3>2. writes'[i].by = r
      BY <2>1, <2>2
    <3> QED BY <3>1, <3>2
  <2>3. CASE i # Len(writes) + 1
    <3>1. i \in 1..Len(writes)
      BY <1>0, <2>1, <2>3
    <3>2. PICK s \in Replicas : s = writes[i].by /\ s = writes'[i].by
      BY <1>0, <2>1, <3>1
    <3>3. OnItsWay(i, s)
      BY <2>1, <3>1, <3>2 DEF Complete, WriteIds
    <3>4. OnItsWay(i, s)'
      BY <3>3, NothingIsLost
    <3> QED BY <3>2, <3>4
  <2> QED BY <2>2, <2>3
<1>2. CASE writes' = writes /\ lost' = lost
  <2> SUFFICES ASSUME NEW i \in 1..Len(writes), writes[i].note \notin lost
               PROVE  OnItsWay(i, writes[i].by)'
    BY <1>2 DEF Complete, WriteIds
  <2>1. PICK s \in Replicas : s = writes[i].by
    BY <1>0
  <2>2. OnItsWay(i, s)
    BY <2>1 DEF Complete, WriteIds
  <2>3. OnItsWay(i, s)'
    BY <2>2, NothingIsLost
  <2> QED BY <1>2, <2>1, <2>3
<1> QED BY <1>1, <1>2, KindsOfSteps DEF Drains

\* Who made a note stays who made it.
LEMMA CreatesStays ==
  ASSUME TypeOK, [Next]_vars, NEW i \in 1..Len(writes), NEW n
  PROVE  i \in 1..Len(writes') /\ (Creates(i, n)' <=> Creates(i, n)) /\ writes'[i] = writes[i]
<1>1. ASSUME NEW r \in Replicas, NEW m \in Notes, NEW e \in Sync, Records(r, m, e)
      PROVE  i \in 1..Len(writes') /\ writes'[i] = writes[i]
  BY <1>1 DEF Records
<1>2. CASE writes' = writes
  BY <1>2 DEF Creates
<1> QED BY <1>1, <1>2, KindsOfSteps DEF Creates, Drains

LEMMA SentStays ==
  ASSUME TypeOK, [Next]_vars, NEW r \in Replicas, NEW n, Sent(r, n)
  PROVE  Sent(r, n)'
<1>1. PICK i \in 1..Len(writes) : Creates(i, n) /\ OnItsWay(i, r)
  BY DEF Sent, WriteIds
<1>2. i \in 1..Len(writes') /\ Creates(i, n)' /\ OnItsWay(i, r)'
  BY <1>1, CreatesStays, NothingIsLost
<1> QED BY <1>2 DEF Sent, WriteIds

LEMMA RelayInOrderStep ==
  ASSUME TypeOK, RelayInOrder, QueuesInOrder, [Next]_vars
  PROVE  RelayInOrder'
<1>0. /\ Len(relay) \in Nat /\ \A p \in 1..Len(relay) : relay[p] \in 1..Len(writes)
      /\ \A r \in Replicas : \A k \in 1..Len(outbound[r]) : outbound[r][k] \in 1..Len(writes)
  BY TypeFacts
<1>1. \A i \in 1..Len(writes) : /\ writes'[i] = writes[i]
                                /\ \A n : Creates(i, n)' <=> Creates(i, n)
  BY CreatesStays
<1>2. lost \subseteq lost'
  BY KindsOfSteps DEF Queued, Drains
\* what was passed on before
<1>3. ASSUME NEW p \in 1..Len(relay), NEW i \in 1..Len(writes), i = relay[p],
             writes[i].note \notin lost'
      PROVE  \E q \in 1..p : q \in 1..Len(relay) /\ Creates(relay[q], writes[i].note)
  <2>1. PICK q \in 1..p : Creates(relay[q], writes[i].note)
    BY <1>2, <1>3 DEF RelayInOrder
  <2>2. q \in 1..Len(relay)
    BY <1>0
  <2> QED BY <2>1, <2>2
<1>4. CASE relay' = relay
  <2> SUFFICES ASSUME NEW p \in 1..Len(relay), writes'[relay[p]].note \notin lost'
               PROVE  \E q \in 1..p : Creates(relay[q], writes[relay[p]].note)'
    BY <1>4 DEF RelayInOrder
  <2>1. PICK i \in 1..Len(writes) : i = relay[p]
    BY <1>0
  <2>2. PICK q \in 1..p : q \in 1..Len(relay) /\ Creates(relay[q], writes[i].note)
    BY <1>1, <1>3, <2>1
  <2>3. PICK j, n : j \in 1..Len(writes) /\ j = relay[q] /\ n = writes[i].note
    BY <1>0, <2>2
  <2>4. Creates(j, n)'
    BY <1>1, <2>2, <2>3
  <2>5. Creates(relay[q], writes[relay[p]].note)'
    BY <1>1, <1>4, <2>1, <2>3, <2>4 DEF Creates
  <2> QED BY <2>5
<1>5. ASSUME NEW r \in Replicas, Drains(r) PROVE RelayInOrder'
  <2> SUFFICES ASSUME NEW p \in 1..Len(relay'), writes'[relay'[p]].note \notin lost'
               PROVE  \E q \in 1..p : Creates(relay[q], writes[relay[p]].note)'
    BY DEF RelayInOrder
  <2>1. /\ Len(relay') = Len(relay) + 1 /\ relay'[Len(relay) + 1] = outbound[r][1]
        /\ \A q \in 1..Len(relay) : relay'[q] = relay[q]
        /\ 1 \in 1..Len(outbound[r]) /\ writes' = writes /\ lost' = lost
    BY <1>5 DEF Drains
  <2>2. PICK i, n : i \in 1..Len(writes) /\ i = relay'[p] /\ n = writes[i].note
    BY <1>0, <2>1
  <2>3. \E q \in 1..p : Creates(relay'[q], n)
    <3>1. CASE p = Len(relay) + 1
      <4>1. i = outbound[r][1]
        BY <2>1, <2>2, <3>1
      <4>2. \/ \E q \in 1..Len(relay) : Creates(relay[q], n)
            \/ \E j \in 1..1 : Creates(outbound[r][j], n)
        BY <2>1, <2>2, <4>1 DEF QueuesInOrder
      <4>3. ASSUME NEW q \in 1..Len(relay), Creates(relay[q], n)
            PROVE  q \in 1..p /\ Creates(relay'[q], n)
        BY <1>0, <2>1, <3>1, <4>3
      <4>4. ASSUME Creates(outbound[r][1], n) PROVE p \in 1..p /\ Creates(relay'[p], n)
        BY <1>0, <2>1, <3>1, <4>4
      <4>5. \A j \in 1..1 : j = 1
        OBVIOUS
      <4> QED BY <4>2, <4>3, <4>4, <4>5
    <3>2. CASE p # Len(relay) + 1
      <4>1. p \in 1..Len(relay)
        BY <1>0, <2>1, <3>2
      <4>2. PICK q \in 1..p : q \in 1..Len(relay) /\ Creates(relay[q], n)
        BY <1>3, <2>1, <2>2, <4>1
      <4> QED BY <2>1, <4>2
    <3> QED BY <3>1, <3>2
  <2> QED BY <2>1, <2>2, <2>3 DEF Creates
<1> QED BY <1>4, <1>5, KindsOfSteps

LEMMA QueuesInOrderStep ==
  ASSUME TypeOK, QueuesInOrder, Announced, [Next]_vars
  PROVE  QueuesInOrder'
<1>0. /\ Len(relay) \in Nat /\ \A p \in 1..Len(relay) : relay[p] \in 1..Len(writes)
      /\ \A r \in Replicas :
           /\ Len(outbound[r]) \in Nat
           /\ \A k \in 1..Len(outbound[r]) : outbound[r][k] \in 1..Len(writes)
  BY TypeFacts
<1> DEFINE Before(r, k, n) == \/ \E p \in 1..Len(relay) : Creates(relay[p], n)
                              \/ \E j \in 1..k : Creates(outbound[r][j], n)
<1>1. ASSUME NEW r \in Replicas, NEW k \in 1..Len(outbound[r]),
             writes[outbound[r][k]].note \notin lost
      PROVE  Before(r, k, writes[outbound[r][k]].note)
  BY <1>1 DEF QueuesInOrder
<1>2. ASSUME NEW r \in Replicas, NEW n \in Notes, NEW e \in Sync,
             Records(r, n, e), Queued(r, n), relay' = relay
      PROVE  QueuesInOrder'
  <2> SUFFICES ASSUME NEW s \in Replicas, NEW k \in 1..Len(outbound'[s]),
                      writes'[outbound'[s][k]].note \notin lost'
               PROVE  \/ \E p \in 1..Len(relay) : Creates(relay[p], writes[outbound[s][k]].note)'
                      \/ \E j \in 1..k : Creates(outbound[s][j], writes[outbound[s][k]].note)'
    BY <1>2 DEF QueuesInOrder
  <2>1. /\ \A i \in 1..Len(writes) : /\ writes'[i] = writes[i]
                                     /\ \A m : Creates(i, m)' <=> Creates(i, m)
        /\ lost \subseteq lost'
        /\ \A j \in 1..Len(outbound[s]) : outbound'[s][j] = outbound[s][j]
    <3>1. \A j \in 1..Len(outbound[s]) : outbound'[s][j] = outbound[s][j]
      BY <1>2 DEF Queued
    <3>2. lost \subseteq lost'
      BY <1>2 DEF Queued
    <3> QED BY <3>1, <3>2, CreatesStays
  \* what is before the place k in the old state is in the new one
  <2>2. ASSUME NEW m, NEW l \in 0..k, l <= Len(outbound[s]), Before(s, l, m)
        PROVE  \/ \E p \in 1..Len(relay) : Creates(relay[p], m)'
               \/ \E j \in 1..k : Creates(outbound[s][j], m)'
    <3>1. ASSUME NEW p \in 1..Len(relay), Creates(relay[p], m) PROVE Creates(relay[p], m)'
      <4>1. PICK i \in 1..Len(writes) : i = relay[p] /\ i = relay'[p]
        BY <1>0, <1>2
      <4> QED BY <2>1, <3>1, <4>1 DEF Creates
    <3>2. ASSUME NEW j \in 1..l, Creates(outbound[s][j], m)
          PROVE  j \in 1..k /\ Creates(outbound[s][j], m)'
      <4>1. j \in 1..Len(outbound[s]) /\ j \in 1..k
        BY <1>0, <2>2
      <4>2. PICK i \in 1..Len(writes) : i = outbound[s][j] /\ i = outbound'[s][j]
        BY <1>0, <2>1, <4>1
      <4> QED BY <2>1, <3>2, <4>1, <4>2 DEF Creates
    <3>3. \A p \in 1..Len(relay) : Creates(relay[p], m) => Creates(relay[p], m)'
      BY <3>1
    <3> QED BY <1>2, <2>2, <3>2, <3>3 DEF Creates
  <2>3. CASE k \in 1..Len(outbound[s]) /\ outbound'[s][k] = outbound[s][k]
    <3>1. PICK i, m : i \in 1..Len(writes) /\ i = outbound[s][k] /\ m = writes[i].note
      BY <1>0, <2>3
    <3>2. Before(s, k, m)
      BY <1>1, <2>1, <2>3, <3>1
    <3>3. \/ \E p \in 1..Len(relay) : Creates(relay[p], m)'
          \/ \E j \in 1..k : Creates(outbound[s][j], m)'
      <4>1. k \in 0..k /\ k <= Len(outbound[s])
        BY <1>0, <2>3
      <4> HIDE DEF Before
      <4> QED BY <2>2, <3>2, <4>1
    <3>4. m = writes'[outbound'[s][k]].note
      BY <2>1, <2>3, <3>1
    <3> QED BY <1>2, <3>3, <3>4 DEF Creates
  <2>4. CASE s = r /\ k = Len(outbound[s]) + 1 /\ outbound'[s][k] = Len(writes) + 1
    <3>1. writes'[outbound'[s][k]] = e /\ e.note = n
      BY <1>2, <2>4 DEF Records
    <3>2. CASE e.op = "create"
      <4>1. Creates(outbound[s][k], n)' /\ k \in 1..k
        BY <1>0, <3>1, <3>2, <2>4 DEF Creates
      <4> QED BY <3>1, <4>1 DEF Creates
    <3>3. CASE e.op # "create"
      <4>1. notes[r][n] # None /\ n \notin lost
        BY <1>2, <2>1, <3>1, <3>3 DEF Records
      <4>2. PICK i \in 1..Len(writes) : Creates(i, n) /\ OnItsWay(i, r)
        BY <4>1 DEF Announced, Sent, WriteIds
      <4>3. Before(s, Len(outbound[s]), n)
        BY <2>4, <4>2 DEF OnItsWay
      <4>4. \/ \E p \in 1..Len(relay) : Creates(relay[p], n)'
            \/ \E j \in 1..k : Creates(outbound[s][j], n)'
        <5>1. Len(outbound[s]) \in 0..k /\ Len(outbound[s]) <= Len(outbound[s])
          BY <1>0, <2>4
        <5> HIDE DEF Before
        <5> QED BY <2>2, <4>3, <5>1
      <4> QED BY <1>2, <3>1, <4>4 DEF Creates
    <3> QED BY <3>2, <3>3
  <2>5. \/ k \in 1..Len(outbound[s]) /\ outbound'[s][k] = outbound[s][k]
        \/ s = r /\ k = Len(outbound[s]) + 1 /\ outbound'[s][k] = Len(writes) + 1
    <3>1. CASE s # r
      BY <1>2, <3>1 DEF Queued
    <3>2. CASE s = r
      BY <1>0, <1>2, <3>2 DEF Queued
    <3> QED BY <3>1, <3>2
  <2> QED BY <2>3, <2>4, <2>5
<1>3. ASSUME NEW r \in Replicas, Drains(r) PROVE QueuesInOrder'
  <2>1. /\ Len(relay') = Len(relay) + 1 /\ relay'[Len(relay) + 1] = outbound[r][1]
        /\ \A q \in 1..Len(relay) : relay'[q] = relay[q]
        /\ Len(outbound'[r]) = Len(outbound[r]) - 1 /\ Len(outbound[r]) \in Nat \ {0}
        /\ \A k \in 1..(Len(outbound[r]) - 1) : outbound'[r][k] = outbound[r][k + 1]
        /\ \A s \in Replicas : s # r => outbound'[s] = outbound[s]
        /\ writes' = writes /\ lost' = lost
    BY <1>3 DEF Drains
  <2> SUFFICES ASSUME NEW s \in Replicas, NEW k \in 1..Len(outbound'[s]),
                      writes[outbound'[s][k]].note \notin lost
               PROVE  \/ \E p \in 1..Len(relay') : Creates(relay'[p], writes[outbound'[s][k]].note)
                      \/ \E j \in 1..k : Creates(outbound'[s][j], writes[outbound'[s][k]].note)
    BY <2>1 DEF QueuesInOrder, Creates
  <2>2. ASSUME NEW n, NEW p \in 1..Len(relay), Creates(relay[p], n)
        PROVE  \E q \in 1..Len(relay') : Creates(relay'[q], n)
    BY <1>0, <2>1, <2>2
  <2>3. CASE s # r
    <3>1. outbound'[s] = outbound[s]
      BY <2>1, <2>3
    <3>2. Before(s, k, writes[outbound[s][k]].note)
      BY <1>1, <3>1
    <3> QED BY <2>2, <3>1, <3>2
  <2>4. CASE s = r
    <3>1. k \in 1..(Len(outbound[r]) - 1) /\ k + 1 \in 1..Len(outbound[r])
          /\ outbound'[r][k] = outbound[r][k + 1]
      BY <2>1, <2>4
    <3>2. PICK n : n = writes[outbound[r][k + 1]].note
      OBVIOUS
    <3>3. Before(r, k + 1, n)
      BY <1>1, <2>4, <3>1, <3>2
    <3>4. ASSUME NEW j \in 1..(k + 1), Creates(outbound[r][j], n)
          PROVE  \/ \E p \in 1..Len(relay') : Creates(relay'[p], n)
                 \/ \E i \in 1..k : Creates(outbound'[r][i], n)
      <4>1. CASE j = 1
        <5>1. Len(relay) + 1 \in 1..Len(relay')
          BY <1>0, <2>1
        <5>2. relay'[Len(relay) + 1] = outbound[r][j]
          BY <2>1, <4>1
        <5> QED BY <3>4, <5>1, <5>2
      <4>2. CASE j # 1
        <5>0. k \in Nat
          BY <2>1, <3>1
        <5>1. PICK i \in 1..k : j = i + 1
          BY <4>2, <5>0
        <5>2. i \in 1..(Len(outbound[r]) - 1)
          BY <2>1, <3>1, <5>1
        <5>3. outbound'[r][i] = outbound[r][j]
          BY <2>1, <5>1, <5>2
        <5> QED BY <3>4, <5>1, <5>3
      <4> QED BY <4>1, <4>2
    <3> QED BY <2>2, <2>4, <3>1, <3>2, <3>3, <3>4
  <2> QED BY <2>3, <2>4
<1>4. CASE UNCHANGED <<writes, outbound, relay, lost>>
  BY <1>4 DEF QueuesInOrder, Creates
<1> QED BY <1>2, <1>3, <1>4, KindsOfSteps

LEMMA AnnouncedStep ==
  ASSUME TypeOK, RelayInOrder, Announced, [Next]_vars
  PROVE  Announced'
<1>0. /\ Len(writes) \in Nat /\ \A p \in 1..Len(relay) : relay[p] \in 1..Len(writes)
      /\ \A i \in 1..Len(writes) : writes[i] \in Sync
  BY TypeFacts
<1>1. ASSUME NEW r \in Replicas, NEW n \in Notes \ lost, notes[r][n] # None
      PROVE  Sent(r, n)'
  BY <1>1, SentStays DEF Announced
<1>2. ASSUME NEW r \in Replicas, NEW n \in Notes, NEW e \in Sync,
             Records(r, n, e), Queued(r, n), relay' = relay
      PROVE  Announced'
  <2> SUFFICES ASSUME NEW s \in Replicas, NEW m \in Notes \ lost', notes'[s][m] # None
               PROVE  Sent(s, m)'
    BY DEF Announced
  <2>1. m \in Notes \ lost
    BY <1>2 DEF Queued
  <2>2. CASE s # r \/ m # n
    BY <1>1, <1>2, <2>1, <2>2 DEF Records
  <2>3. CASE s = r /\ m = n
    <3>1. CASE e.op # "create"
      BY <1>1, <1>2, <2>1, <2>3, <3>1 DEF Records
    <3>2. CASE e.op = "create"
      <4>1. PICK i : i = Len(writes) + 1
        OBVIOUS
      <4>2. i \in 1..Len(writes') /\ Creates(i, m)'
        BY <1>2, <2>3, <3>2, <4>1 DEF Records, Creates
      <4>3. OnItsWay(i, r)'
        BY <1>2, <2>3, <4>1, NewWriteIsQueued
      <4> QED BY <2>3, <4>2, <4>3 DEF Sent, WriteIds
    <3> QED BY <3>1, <3>2
  <2> QED BY <2>2, <2>3
<1>3. CASE notes' = notes /\ lost' = lost
  <2> SUFFICES ASSUME NEW s \in Replicas, NEW m \in Notes \ lost, notes[s][m] # None
               PROVE  Sent(s, m)'
    BY <1>3 DEF Announced
  <2> QED BY <1>1
<1>4. ASSUME UNCHANGED <<writes, outbound, relay, lost>>,
             NEW r \in Replicas, NEW place \in 1..Len(relay), Merge(r, place)
      PROVE  Announced'
  <2> SUFFICES ASSUME NEW s \in Replicas, NEW m \in Notes \ lost, notes'[s][m] # None
               PROVE  Sent(s, m)'
    BY <1>4 DEF Announced
  <2>1. CASE notes[s][m] # None
    BY <1>1, <2>1
  <2>2. CASE notes[s][m] = None
    <3>1. PICK i \in 1..Len(writes) : i = relay[place]
      BY <1>0
    <3>2. m = writes[i].note
      BY <1>4, <2>2, <3>1, WhatAMergeDoes
    <3>3. PICK q \in 1..place : Creates(relay[q], m)
      BY <3>1, <3>2 DEF RelayInOrder
    <3>4. q \in 1..Len(relay)
      BY TypeFacts
    <3>5. PICK j \in 1..Len(writes) : j = relay[q]
      BY <1>0, <3>4
    <3>6. Creates(j, m) /\ OnItsWay(j, s)
      BY <3>3, <3>4, <3>5 DEF OnItsWay
    <3>7. Sent(s, m)
      BY <3>6 DEF Sent, WriteIds
    <3> QED BY <3>7, SentStays
  <2> QED BY <2>1, <2>2
<1> QED BY <1>2, <1>3, <1>4, KindsOfSteps DEF Drains

-----------------------------------------------------------------------------
(* What has been read. *)

LEMMA ReadFacts ==
  ASSUME TypeOK, Reading, NEW r \in Replicas
  PROVE  /\ cursor[r] \in Nat /\ cursor[r] <= Len(relay) /\ Len(relay) \in Nat
         /\ Len(inbound[r]) \in Nat /\ First(r) \in 1..2
         /\ First(r) <= Len(inbound[r]) + 1
         /\ \A k \in 1..Len(inbound[r]) : inbound[r][k] \in 1..cursor[r]
         /\ \A j, k \in 1..Len(inbound[r]) : j < k => inbound[r][j] < inbound[r][k]
         /\ \A k \in 1..Len(inbound[r]) : Sender(inbound[r][k]) # r
         /\ \A p \in Seen(r) : p \in 1..cursor[r]
         /\ \A p \in Seen(r) : Sender(p) # r =>
              \A k \in 1..Len(inbound[r]) : p <= inbound[r][k]
<1>1. polled[r] => Len(inbound[r]) # 0
  <2>1. polled[r] => inbound[r] # << >>
    BY DEF TypeOK
  <2>2. inbound[r] \in Seq(1..cursor[r])
    BY DEF TypeOK
  <2> QED BY <2>1, <2>2, EmptySeq
<1>2. First(r) \in 1..2 /\ First(r) <= Len(inbound[r]) + 1
  BY <1>1, TypeFacts DEF First
<1>3. \A p \in Seen(r) : p \in 1..cursor[r]
  BY DEF Seen
<1>4. cursor[r] \in 0..Len(relay) /\ Len(relay) \in Nat
  BY TypeFacts
<1>5. cursor[r] \in Nat /\ cursor[r] <= Len(relay)
  BY <1>4
<1> QED BY <1>2, <1>3, <1>4, <1>5, TypeFacts DEF Reading, ReadingOf

\* A message of another browser comes to the sentant: it is the next.
Delivers(r, p) ==
  /\ p \in 1..Len(relay) /\ Sender(p) # r
  /\ Seen(r)' = Seen(r) \cup {p}
  /\ \A q \in Seen(r) : Sender(q) # r => q <= p
  /\ \A q \in 1..(p - 1) : q \in Seen(r)

LEMMA TickDelivers ==
  ASSUME TypeOK, Reading, NEW r \in Replicas, Tick(r)
  PROVE  /\ Delivers(r, Head(inbound[r])) /\ Head(inbound[r]) \in Seen(r)'
         /\ First(r)' = 2
<1>1. /\ inbound[r] # << >> /\ inbound' = inbound /\ cursor' = cursor
      /\ polled' = [polled EXCEPT ![r] = TRUE] /\ polled \in [Replicas -> BOOLEAN]
      /\ inbound[r] \in Seq(1..cursor[r])
  BY DEF Tick, TypeOK
<1>2. PICK n \in Nat \ {0}, c \in Nat, h \in Nat :
         n = Len(inbound[r]) /\ c = cursor[r] /\ h = Head(inbound[r]) /\ h = inbound[r][1]
         /\ h \in 1..c /\ c <= Len(relay)
  BY <1>1, TailFacts, ReadFacts
<1>3. /\ \A k \in 1..n : inbound[r][k] \in 1..c
      /\ \A k \in 2..n : h < inbound[r][k]
      /\ Sender(h) # r
      /\ \A q \in Seen(r) : Sender(q) # r => q <= h
  <2>1. 1 \in 1..n /\ \A k \in 2..n : k \in 1..n /\ 1 < k
    BY <1>2
  <2> QED BY <1>2, <2>1, ReadFacts
<1>4. First(r)' = 2
  BY <1>1 DEF First
<1>5. Waiting(r)' = {inbound[r][k] : k \in 2..n}
  BY <1>1, <1>2, <1>4 DEF Waiting
<1>6. h \notin Waiting(r)'
  BY <1>2, <1>3, <1>5
<1>7. Waiting(r)' \subseteq Waiting(r) /\ Waiting(r) \subseteq Waiting(r)' \cup {h}
  <2>1. Waiting(r) = {inbound[r][k] : k \in First(r)..n} /\ First(r) \in 1..2
    BY <1>2, ReadFacts DEF Waiting
  <2>2. \A k \in 2..n : k \in First(r)..n
    BY <2>1
  <2>3. \A k \in First(r)..n : k \in 2..n \/ k = 1
    BY <2>1
  <2> QED BY <1>2, <1>5, <2>1, <2>2, <2>3
<1>8. Seen(r)' = Seen(r) \cup {h}
  BY <1>1, <1>2, <1>6, <1>7 DEF Seen
<1>9. ASSUME NEW q \in 1..(h - 1) PROVE q \in Seen(r)
  <2>1. q \in 1..c /\ q # h
    BY <1>2
  <2>2. q \notin Waiting(r)'
    BY <1>3, <1>5, <1>2
  <2> QED BY <1>2, <1>7, <2>1, <2>2 DEF Seen
<1>10. h \in 1..Len(relay)
  BY <1>2, ReadFacts
<1> QED BY <1>2, <1>3, <1>4, <1>8, <1>9, <1>10 DEF Delivers

LEMMA PushSyncDelivers ==
  ASSUME TypeOK, Reading, NEW r \in Replicas, PushSyncInbound(r)
  PROVE  Delivers(r, NextRead(r))
<1>1. /\ inbound[r] = << >> /\ inbound' = inbound /\ polled' = polled
      /\ cursor' = [cursor EXCEPT ![r] = @ + 1] /\ cursor \in [Replicas -> 0..Len(relay)]
      /\ Unread(r) /\ Sender(NextRead(r)) # r
  BY DEF PushSyncInbound, TypeOK
<1>2. PICK c \in Nat : c = cursor[r] /\ cursor'[r] = c + 1 /\ NextRead(r) = c + 1
                     /\ c < Len(relay) /\ Len(relay) \in Nat
  BY <1>1, ReadFacts DEF Unread, NextRead
<1>3. Len(inbound[r]) = 0
  BY <1>1
<1>4. Waiting(r) = {} /\ Waiting(r)' = {}
  <2>1. First(r) \in 1..2 /\ First(r)' = First(r)
    BY <1>1, ReadFacts DEF First
  <2>2. \A k \in First(r)..0 : FALSE
    BY <2>1
  <2> QED BY <1>1, <1>3, <2>1, <2>2 DEF Waiting
<1>5. Seen(r) = 1..c /\ Seen(r)' = 1..(c + 1)
  BY <1>2, <1>4 DEF Seen
<1>6. Seen(r)' = Seen(r) \cup {c + 1}
  BY <1>5
<1>7. \A q \in Seen(r) : q <= c + 1
  BY <1>5
<1>8. \A q \in 1..((c + 1) - 1) : q \in Seen(r)
  BY <1>5
<1>9. c + 1 \in 1..Len(relay)
  BY <1>2
<1> QED BY <1>1, <1>2, <1>6, <1>7, <1>8, <1>9 DEF Delivers

LEMMA AdvanceSees ==
  ASSUME TypeOK, Reading, NEW r \in Replicas, AdvanceInbound(r)
  PROVE  /\ Seen(r)' = Seen(r) /\ Len(inbound'[r]) = Len(inbound[r]) - 1
         /\ \A k \in 1..(Len(inbound[r]) - 1) : inbound'[r][k] = inbound[r][k + 1]
<1>1. /\ inbound[r] # << >> /\ inbound' = [inbound EXCEPT ![r] = Tail(@)] /\ cursor' = cursor
      /\ polled' = [polled EXCEPT ![r] = FALSE] /\ polled \in [Replicas -> BOOLEAN]
      /\ inbound \in [Replicas -> Seq(1..Len(relay))] /\ polled[r]
  BY DEF AdvanceInbound, TypeOK
<1>2. PICK n \in Nat \ {0} : n = Len(inbound[r])
  BY <1>1, TailFacts
<1>3. inbound'[r] = Tail(inbound[r]) /\ First(r) = 2 /\ First(r)' = 1
  BY <1>1 DEF First
<1>4. Len(inbound'[r]) = n - 1 /\ \A k \in 1..(n - 1) : inbound'[r][k] = inbound[r][k + 1]
  BY <1>1, <1>2, <1>3, TailFacts
<1>5. Waiting(r) = {inbound[r][k] : k \in 2..n}
      /\ Waiting(r)' = {inbound'[r][k] : k \in 1..(n - 1)}
  BY <1>2, <1>3, <1>4 DEF Waiting
<1>6. Waiting(r)' = Waiting(r)
  <2>1. \A k \in 1..(n - 1) : k + 1 \in 2..n
    BY <1>2
  <2>2. \A k \in 2..n : \E j \in 1..(n - 1) : k = j + 1
    <3> TAKE k \in 2..n
    <3>1. k - 1 \in 1..(n - 1) /\ k = (k - 1) + 1
      BY <1>2
    <3> QED BY <3>1
  <2>3. Waiting(r)' \subseteq Waiting(r)
    BY <1>4, <1>5, <2>1
  <2>4. ASSUME NEW k \in 2..n PROVE inbound[r][k] \in Waiting(r)'
    <3>1. PICK j \in 1..(n - 1) : k = j + 1
      BY <2>2
    <3> QED BY <1>4, <1>5, <3>1
  <2> QED BY <1>5, <2>3, <2>4
<1> QED BY <1>1, <1>2, <1>4, <1>6 DEF Seen

LEMMA PushSees ==
  ASSUME TypeOK, Reading, NEW r \in Replicas, PushInbound(r)
  PROVE  /\ Seen(r)' = Seen(r) /\ Len(inbound'[r]) = Len(inbound[r]) + 1
         /\ inbound'[r][Len(inbound[r]) + 1] = cursor[r] + 1
         /\ \A k \in 1..Len(inbound[r]) : inbound'[r][k] = inbound[r][k]
<1>1. /\ inbound' = [inbound EXCEPT ![r] = Append(@, NextRead(r))] /\ polled' = polled
      /\ cursor' = [cursor EXCEPT ![r] = @ + 1] /\ cursor \in [Replicas -> 0..Len(relay)]
      /\ inbound \in [Replicas -> Seq(1..Len(relay))] /\ Unread(r)
  BY DEF PushInbound, TypeOK
<1>2. PICK n \in Nat, c \in Nat :
         /\ n = Len(inbound[r]) /\ c = cursor[r] /\ cursor'[r] = c + 1 /\ NextRead(r) = c + 1
         /\ c + 1 \in 1..Len(relay)
  BY <1>1, ReadFacts DEF NextRead, Unread
<1>3. inbound'[r] = Append(inbound[r], c + 1) /\ First(r)' = First(r)
  BY <1>1, <1>2 DEF First
<1>4. /\ Len(inbound'[r]) = n + 1 /\ inbound'[r][n + 1] = c + 1
      /\ \A k \in 1..n : inbound'[r][k] = inbound[r][k]
  <2>1. inbound[r] \in Seq(1..Len(relay))
    BY <1>1
  <2> QED BY <1>2, <1>3, <2>1, AppendFacts
<1>5. PICK f \in 1..2 : f = First(r) /\ f <= n + 1
  BY <1>2, ReadFacts
<1>6. Waiting(r)' = Waiting(r) \cup {c + 1}
  <2>1. Waiting(r) = {inbound[r][k] : k \in f..n} /\ Waiting(r)' = {inbound'[r][k] : k \in f..(n + 1)}
    BY <1>2, <1>3, <1>4, <1>5 DEF Waiting
  <2>2. \A k \in f..(n + 1) : k = n + 1 \/ (k \in f..n /\ k \in 1..n)
    BY <1>5
  <2>3. n + 1 \in f..(n + 1) /\ \A k \in f..n : k \in f..(n + 1) /\ k \in 1..n /\ k # n + 1
    BY <1>5
  <2> QED BY <1>4, <2>1, <2>2, <2>3
<1>7. Seen(r)' = Seen(r)
  BY <1>2, <1>6 DEF Seen
<1> QED BY <1>2, <1>4, <1>7

LEMMA SkipSees ==
  ASSUME TypeOK, Reading, NEW r \in Replicas, SkipOwn(r)
  PROVE  Seen(r)' = Seen(r) \cup {cursor[r] + 1} /\ Sender(cursor[r] + 1) = r
<1>1. /\ inbound' = inbound /\ polled' = polled
      /\ cursor' = [cursor EXCEPT ![r] = @ + 1] /\ cursor \in [Replicas -> 0..Len(relay)]
      /\ Sender(NextRead(r)) = r
  BY DEF SkipOwn, TypeOK
<1>2. PICK c \in Nat : c = cursor[r] /\ cursor'[r] = c + 1 /\ NextRead(r) = c + 1
  BY <1>1, ReadFacts DEF NextRead
<1>3. Waiting(r)' = Waiting(r)
  BY <1>1 DEF Waiting, First
<1>4. c + 1 \notin Waiting(r)
  <2>1. \A k \in First(r)..Len(inbound[r]) : k \in 1..Len(inbound[r])
    BY ReadFacts
  <2>2. \A k \in First(r)..Len(inbound[r]) : inbound[r][k] \in 1..c
    BY <1>2, <2>1, ReadFacts
  <2> QED BY <2>2 DEF Waiting
<1> QED BY <1>1, <1>2, <1>3, <1>4 DEF Seen

LEMMA SenderStays ==
  ASSUME TypeOK, [Next]_vars, NEW p \in 1..Len(relay)
  PROVE  Sender(p)' = Sender(p) /\ p \in 1..Len(relay') /\ relay'[p] = relay[p]
<1>1. relay[p] \in 1..Len(writes) /\ Len(relay) \in Nat
  BY TypeFacts
<1>2. PICK i \in 1..Len(writes) : i = relay[p]
  BY <1>1
<1>3. writes'[i] = writes[i]
  BY CreatesStays
<1>4. p \in 1..Len(relay') /\ relay'[p] = relay[p]
  BY <1>1, KindsOfSteps DEF Drains
<1> QED BY <1>2, <1>3, <1>4 DEF Sender

\* A step of one browser does not read for another.
Elsewhere(r) ==
  \A s \in Replicas : s # r => /\ cursor'[s] = cursor[s] /\ polled'[s] = polled[s]
                              /\ inbound'[s] = inbound[s]

LEMMA SeenElsewhere ==
  ASSUME NEW r, Elsewhere(r), NEW s \in Replicas, s # r
  PROVE  Seen(s)' = Seen(s)
<1>1. Waiting(s)' = Waiting(s)
  BY DEF Elsewhere, Waiting, First
<1> QED BY <1>1 DEF Elsewhere, Seen

\* Nothing new has to be compared when what is seen now was seen, or is one's own, or is
\* not after what waits.
LEMMA ReadingKept ==
  ASSUME TypeOK, Reading, [Next]_vars, NEW r \in Replicas, inbound'[r] = inbound[r],
         \A p \in Seen(r)' : \/ p \in Seen(r)
                             \/ p \in 1..Len(relay) /\ Sender(p) = r
                             \/ \A k \in 1..Len(inbound[r]) : p <= inbound[r][k]
  PROVE  ReadingOf(r)'
<1>1. \A k \in 1..Len(inbound[r]) : inbound[r][k] \in 1..Len(relay)
  BY ReadFacts
<1>2. \A k \in 1..Len(inbound[r]) : Sender(inbound[r][k])' # r
  <2> TAKE k \in 1..Len(inbound[r])
  <2>1. PICK p \in 1..Len(relay) : p = inbound[r][k] /\ p = inbound'[r][k]
    BY <1>1
  <2>2. Sender(p) # r
    BY <2>1, ReadFacts
  <2>3. Sender(p)' # r
    BY <2>2, SenderStays
  <2> QED BY <2>1, <2>3 DEF Sender
<1>3. \A p \in Seen(r) : p \in 1..Len(relay)
  BY ReadFacts
<1>4. ASSUME NEW p \in Seen(r)', Sender(p)' # r, NEW k \in 1..Len(inbound[r])
      PROVE  p <= inbound[r][k]
  BY <1>3, <1>4, SenderStays, ReadFacts
<1> QED BY <1>2, <1>4, ReadFacts DEF ReadingOf

LEMMA ReadingStep ==
  ASSUME TypeOK, Reading, [Next]_vars
  PROVE  Reading'
<1>0. /\ polled \in [Replicas -> BOOLEAN] /\ cursor \in [Replicas -> 0..Len(relay)]
      /\ inbound \in [Replicas -> Seq(1..Len(relay))]
  BY DEF TypeOK
<1>1. CASE UNCHANGED <<inbound, polled, cursor>>
  <2>1. \A r \in Replicas : Seen(r)' = Seen(r)
    BY <1>1 DEF Seen, Waiting, First
  <2>2. \A r \in Replicas : ReadingOf(r)'
    BY <1>1, <2>1, ReadingKept
  <2> QED BY <2>2 DEF Reading
<1>2. ASSUME NEW r \in Replicas, Elsewhere(r), NEW s \in Replicas, s # r PROVE ReadingOf(s)'
  <2>1. Seen(s)' = Seen(s) /\ inbound'[s] = inbound[s]
    BY <1>2, SeenElsewhere DEF Elsewhere
  <2> QED BY <2>1, ReadingKept
<1>3. ASSUME NEW r \in Replicas, Elsewhere(r), ReadingOf(r)' PROVE Reading'
  BY <1>2, <1>3 DEF Reading
<1>4. ASSUME NEW r \in Replicas, Tick(r) PROVE Reading'
  <2>1. Elsewhere(r) /\ inbound'[r] = inbound[r]
    BY <1>0, <1>4 DEF Elsewhere, Tick
  <2>2. Seen(r)' = Seen(r) \cup {Head(inbound[r])}
    BY <1>4, TickDelivers DEF Delivers
  <2>3. \A k \in 1..Len(inbound[r]) : Head(inbound[r]) <= inbound[r][k]
    <3>1. inbound[r] # << >> /\ inbound[r] \in Seq(1..Len(relay))
      BY <1>0, <1>4 DEF Tick
    <3>2. PICK h \in Nat : h = Head(inbound[r]) /\ h = inbound[r][1] /\ 1 \in 1..Len(inbound[r])
      BY <3>1, TailFacts
    <3>3. \A k \in 1..Len(inbound[r]) : k = 1 \/ 1 < k
      OBVIOUS
    <3>4. \A k \in 1..Len(inbound[r]) : 1 < k => h < inbound[r][k] /\ inbound[r][k] \in Nat
      BY <3>2, ReadFacts
    <3> QED BY <3>2, <3>3, <3>4
  <2>4. ReadingOf(r)'
    BY <2>1, <2>2, <2>3, ReadingKept
  <2> QED BY <1>3, <2>1, <2>4
<1>5. ASSUME NEW r \in Replicas, AdvanceInbound(r) PROVE Reading'
  <2>1. Elsewhere(r)
    BY <1>0, <1>5 DEF Elsewhere, AdvanceInbound
  <2>2. PICK n \in Nat \ {0} : n = Len(inbound[r])
    <3>1. inbound[r] # << >> /\ inbound[r] \in Seq(1..Len(relay))
      BY <1>0, <1>5 DEF AdvanceInbound
    <3> QED BY <3>1, TailFacts
  <2>3. /\ Seen(r)' = Seen(r) /\ Len(inbound'[r]) = n - 1
        /\ \A k \in 1..(n - 1) : /\ inbound'[r][k] = inbound[r][k + 1]
                                /\ k + 1 \in 1..n
    BY <1>5, <2>2, AdvanceSees
  <2>4. relay' = relay /\ writes' = writes
    BY <1>5 DEF AdvanceInbound, local
  <2>5. \A j, k \in 1..(n - 1) : j < k => inbound'[r][j] < inbound'[r][k]
    <3> TAKE j, k \in 1..(n - 1)
    <3>1. j + 1 \in 1..n /\ k + 1 \in 1..n /\ (j < k => j + 1 < k + 1)
      BY <2>2
    <3> QED BY <2>2, <2>3, <3>1, ReadFacts
  <2>7. \A k \in 1..(n - 1) : Sender(inbound'[r][k]) # r
    BY <2>2, <2>3, ReadFacts
  <2>8. \A p \in Seen(r) : Sender(p) # r => \A k \in 1..(n - 1) : p <= inbound'[r][k]
    BY <2>2, <2>3, ReadFacts
  <2>6. ReadingOf(r)'
    BY <2>3, <2>4, <2>5, <2>7, <2>8 DEF ReadingOf, Sender
  <2> QED BY <1>3, <2>1, <2>6
<1>6. ASSUME NEW r \in Replicas, SkipOwn(r) PROVE Reading'
  <2>1. Elsewhere(r) /\ inbound'[r] = inbound[r] /\ Unread(r)
    BY <1>0, <1>6 DEF Elsewhere, SkipOwn
  <2>2. Seen(r)' = Seen(r) \cup {cursor[r] + 1} /\ Sender(cursor[r] + 1) = r
    BY <1>6, SkipSees
  <2>3. cursor[r] + 1 \in 1..Len(relay)
    BY <2>1, ReadFacts DEF Unread
  <2>4. ReadingOf(r)'
    BY <2>1, <2>2, <2>3, ReadingKept
  <2> QED BY <1>3, <2>1, <2>4
<1>7. ASSUME NEW r \in Replicas, PushInbound(r) PROVE Reading'
  <2>1. /\ Elsewhere(r) /\ relay' = relay /\ writes' = writes /\ NextRead(r) = cursor[r] + 1
        /\ Sender(NextRead(r)) # r
    BY <1>0, <1>7 DEF Elsewhere, PushInbound, local, NextRead
  <2>2. PICK n \in Nat, c \in Nat : n = Len(inbound[r]) /\ c = cursor[r]
    BY ReadFacts
  <2>3. /\ Seen(r)' = Seen(r) /\ Len(inbound'[r]) = n + 1 /\ inbound'[r][n + 1] = c + 1
        /\ \A k \in 1..n : /\ inbound'[r][k] = inbound[r][k] /\ inbound[r][k] \in 1..c
    BY <1>7, <2>2, PushSees, ReadFacts
  <2>4. \A j, k \in 1..(n + 1) : j < k => inbound'[r][j] < inbound'[r][k]
    <3> TAKE j, k \in 1..(n + 1)
    <3>1. CASE k = n + 1 /\ j < k
      <4>1. j \in 1..n
        BY <3>1
      <4>2. PICK x \in 1..c : x = inbound'[r][j]
        BY <2>3, <4>1
      <4> QED BY <2>3, <3>1, <4>2
    <3>2. CASE k # n + 1 /\ j < k
      <4>1. j \in 1..n /\ k \in 1..n
        BY <3>2
      <4> QED BY <2>2, <2>3, <3>2, <4>1, ReadFacts
    <3> QED BY <3>1, <3>2
  <2>5. \A k \in 1..(n + 1) : Sender(inbound'[r][k]) # r
    <3> TAKE k \in 1..(n + 1)
    <3>1. k = n + 1 \/ k \in 1..n
      OBVIOUS
    <3> QED BY <2>1, <2>2, <2>3, <3>1, ReadFacts
  <2>6. \A p \in Seen(r) : Sender(p) # r => \A k \in 1..(n + 1) : p <= inbound'[r][k]
    <3> TAKE p \in Seen(r)
    <3>1. p \in 1..c
      BY <2>2, ReadFacts
    <3>2. Sender(p) # r => \A k \in 1..n : p <= inbound[r][k]
      BY <2>2, ReadFacts
    <3>3. \A k \in 1..(n + 1) : k = n + 1 \/ k \in 1..n
      OBVIOUS
    <3>4. p <= c + 1
      BY <3>1
    <3> QED BY <2>3, <3>2, <3>3, <3>4
  <2>7. ReadingOf(r)'
    BY <2>1, <2>3, <2>4, <2>5, <2>6 DEF ReadingOf, Sender
  <2> QED BY <1>3, <2>1, <2>7
<1>8. ASSUME NEW r \in Replicas, PushSyncInbound(r) PROVE Reading'
  <2>1. Elsewhere(r) /\ inbound'[r] = inbound[r] /\ inbound[r] = << >>
    BY <1>0, <1>8 DEF Elsewhere, PushSyncInbound
  <2>2. Len(inbound[r]) = 0
    BY <2>1
  <2>3. \A k \in 1..Len(inbound[r]) : FALSE
    BY <2>2
  <2>4. ReadingOf(r)'
    BY <2>1, <2>3, ReadingKept
  <2> QED BY <1>3, <2>1, <2>4
<1>9. CASE UNCHANGED vars
  BY <1>1, <1>9 DEF vars
<1>10. CASE Next
  <2>1. PICK r \in Replicas :
           \/ \E n \in Notes : NoteCreate(r, n)
           \/ \E n \in Notes : NoteUpdate(r, n)
           \/ \E n \in Notes : NoteDelete(r, n)
           \/ Tick(r) \/ AdvanceInbound(r)
           \/ DrainOutbound(r) \/ SkipOwn(r) \/ PushInbound(r) \/ PushSyncInbound(r)
           \/ \E up \in BOOLEAN : SetRelayConnected(r, up)
           \/ Pass(r)
    BY <1>10 DEF Next
  <2>2. CASE \/ \E n \in Notes : NoteCreate(r, n)
             \/ \E n \in Notes : NoteUpdate(r, n)
             \/ \E n \in Notes : NoteDelete(r, n)
    BY <1>1, <2>2 DEF NoteCreate, NoteUpdate, NoteDelete, Write, transport
  <2>3. CASE DrainOutbound(r) \/ Pass(r) \/ \E up \in BOOLEAN : SetRelayConnected(r, up)
    BY <1>1, <2>3 DEF DrainOutbound, Pass, SetRelayConnected, transport
  <2> QED BY <2>1, <2>2, <2>3, <1>4, <1>5, <1>6, <1>7, <1>8
<1> QED BY <1>9, <1>10

-----------------------------------------------------------------------------
(* What is shown. *)

\* The write i may be merged with what a browser shows of the writes in K.
MayMerge(N, w, v, K, i) ==
  /\ N \in Nat /\ \A j \in 1..N : w[j] \in Sync
  /\ v \in Version \cup {None} /\ K \in SUBSET (1..N) /\ Shows(w, v, K)
  /\ i \in 1..N
  /\ w[i].op # "delete" => w[i].content = i
  /\ w[i].op = "delete" => K # {}
  /\ \A j \in K : w[j].at = w[i].at => j <= i

\* A merge takes the message into account, and what it took before.
LEMMA MergeShows ==
  ASSUME NEW N, NEW w, NEW v, NEW K, NEW i, MayMerge(N, w, v, K, i)
  PROVE  Shows(w, Merged(v, w[i]), K \cup {i})
<1>0. /\ N \in Nat /\ \A j \in 1..N : w[j] \in Sync
      /\ v \in Version \cup {None} /\ K \in SUBSET (1..N) /\ Shows(w, v, K)
      /\ i \in 1..N
      /\ w[i].op # "delete" => w[i].content = i
      /\ w[i].op = "delete" => K # {}
      /\ \A j \in K : w[j].at = w[i].at => j <= i
  BY DEF MayMerge
<1>1. \A j \in 1..N : w[j].at \in 0..MaxTime
  BY <1>0, SyncFacts
<1>2. PICK s \in Sync, t \in 0..MaxTime : s = w[i] /\ t = s.at
  BY <1>0, <1>1
<1>3. K = {} => v = None
  BY <1>0 DEF Shows
<1>4. ASSUME K # {}
      PROVE  \E j \in K : (\A k \in K : Later(w, j, k)) /\ Reflects(w, v, j)
  BY <1>0, <1>4 DEF Shows
<1>5. CASE ~Dominates(v, s)
  <2>1. v # None /\ v \in Version /\ Merged(v, s) = v /\ ~(t >= v.at) /\ v.at \in 0..MaxTime
    BY <1>0, <1>2, <1>5, VersionFacts DEF Dominates, Merged
  <2>2. PICK j \in K : (\A k \in K : Later(w, j, k)) /\ Reflects(w, v, j)
    BY <1>3, <1>4, <2>1
  <2>3. t < v.at /\ w[j].at = v.at
    BY <1>2, <2>1, <2>2 DEF Reflects
  <2>4. Later(w, j, i)
    BY <1>2, <2>3 DEF Later
  <2> QED BY <1>2, <2>1, <2>2, <2>4 DEF Shows
<1>6. CASE Dominates(v, s)
  <2>1. \A k \in K : Later(w, i, k)
    <3> TAKE k \in K
    <3>1. PICK j \in K : (\A l \in K : Later(w, j, l)) /\ Reflects(w, v, j)
      BY <1>4
    <3>2. v # None /\ v \in Version /\ v.at = w[j].at /\ t >= v.at
      BY <1>0, <1>2, <1>6, <3>1 DEF Reflects, Dominates
    <3>3. PICK x \in 0..MaxTime, y \in 0..MaxTime : x = w[j].at /\ y = w[k].at
      BY <1>0, <1>1
    <3>4. (y < x \/ y = x) /\ x <= t
      BY <3>1, <3>2, <3>3 DEF Later
    <3>5. y = t => k <= i
      BY <1>0, <1>2, <3>3
    <3> QED BY <1>2, <3>3, <3>4, <3>5 DEF Later
  <2>2. Later(w, i, i)
    BY <1>0, <1>2 DEF Later
  <2>3. Reflects(w, Merged(v, s), i)
    <3>1. CASE s.op = "delete"
      <4>1. v # None /\ v \in Version
        BY <1>0, <1>2, <1>4, <3>1 DEF Reflects
      <4>2. Merged(v, s) = [v EXCEPT !.at = t, !.deleted = TRUE]
        BY <1>2, <1>6, <3>1, <4>1 DEF Merged
      <4>3. [v EXCEPT !.at = t, !.deleted = TRUE] \in Version
        BY <4>1 DEF Version
      <4>4. [v EXCEPT !.at = t, !.deleted = TRUE].at = t
        BY <4>1 DEF Version
      <4>5. [v EXCEPT !.at = t, !.deleted = TRUE].deleted = TRUE
        BY <4>1 DEF Version
      <4>6. PICK d \in Version : d = Merged(v, s) /\ d.at = t /\ d.deleted = TRUE
        BY <4>2, <4>3, <4>4, <4>5
      <4> QED BY <1>2, <3>1, <4>6 DEF Reflects
    <3>2. CASE s.op # "delete"
      <4>1. Merged(v, s) = [content |-> i, at |-> t, deleted |-> FALSE]
        BY <1>0, <1>2, <1>6, <3>2 DEF Merged
      <4>2. PICK d : /\ d = Merged(v, s) /\ d.content = i /\ d.at = t /\ d.deleted = FALSE
        BY <4>1
      <4>3. d \in Version \cup {None}
        BY <1>0, <4>2, <1>2, MergedType
      <4>4. d # None
        <5>1. i \in 1..MaxWrites
          BY <1>0, <1>2, <3>2, SyncFacts
        <5>2. [content |-> i, at |-> t, deleted |-> FALSE] \in Version
          BY <5>1 DEF Version
        <5> QED BY <4>1, <4>2, <5>2
      <4> QED BY <1>2, <3>2, <4>2, <4>4 DEF Reflects
    <3> QED BY <3>1, <3>2
  <2> QED BY <1>2, <2>1, <2>2, <2>3 DEF Shows
<1> QED BY <1>5, <1>6

\* So does a write of the user, when its time is not before the version it replaces.
LEMMA WriteShows ==
  ASSUME NEW N \in Nat, NEW w, NEW x, \A j \in 1..(N + 1) : x[j] \in Sync,
         \A j \in 1..N : x[j] = w[j],
         NEW v, NEW K \in SUBSET (1..N), Shows(w, v, K), NEW d \in Version,
         v # None => v.at <= x[N + 1].at,
         Reflects(x, d, N + 1)
  PROVE  Shows(x, d, K \cup {N + 1})
<1>1. \A j \in 1..(N + 1) : x[j].at \in 0..MaxTime
  BY SyncFacts
<1>2. PICK t \in 0..MaxTime : t = x[N + 1].at
  BY <1>1
<1>3. ASSUME NEW k \in K PROVE Later(x, N + 1, k)
  <2>1. PICK j \in K : (\A l \in K : Later(w, j, l)) /\ Reflects(w, v, j)
    BY <1>3 DEF Shows
  <2>2. PICK a \in 0..MaxTime, b \in 0..MaxTime : a = x[j].at /\ b = x[k].at
    BY <1>1
  <2>3. a = v.at /\ v # None /\ (b < a \/ b = a)
    BY <1>3, <2>1, <2>2 DEF Reflects, Later
  <2>5. a <= t
    BY <1>2, <2>3
  <2>6. k <= N + 1
    BY <1>3
  <2>4. b <= t /\ k <= N + 1
    BY <2>2, <2>3, <2>5, <2>6
  <2> QED BY <1>2, <2>2, <2>4 DEF Later
<1>4. Later(x, N + 1, N + 1)
  BY <1>2 DEF Later
<1> QED BY <1>3, <1>4 DEF Shows

\* And it changes nothing for the other notes and browsers.
LEMMA ShowsStill ==
  ASSUME NEW N, NEW w, NEW x, \A j \in 1..N : x[j] = w[j],
         NEW v, NEW K \in SUBSET (1..N), Shows(w, v, K)
  PROVE  Shows(x, v, K)
BY DEF Shows, Later, Reflects

\* Two browsers that know the same show the same.
BothShow(N, w, u, v, K) ==
  /\ N \in Nat /\ \A j \in 1..N : w[j] \in Sync
  /\ K \in SUBSET (1..N)
  /\ u \in Version \cup {None} /\ v \in Version \cup {None}
  /\ Shows(w, u, K) /\ Shows(w, v, K)

Alike(u, v) ==
  /\ u = None <=> v = None
  /\ u # None => u.at = v.at /\ (u.deleted <=> v.deleted)
  /\ u # None /\ ~u.deleted => u = v

LEMMA ShowsOne ==
  ASSUME NEW N, NEW w, NEW u, NEW v, NEW K, BothShow(N, w, u, v, K)
  PROVE  Alike(u, v)
<1>0. /\ N \in Nat /\ \A j \in 1..N : w[j] \in Sync
      /\ K \in SUBSET (1..N)
      /\ u \in Version \cup {None} /\ v \in Version \cup {None}
      /\ Shows(w, u, K) /\ Shows(w, v, K)
  BY DEF BothShow
<1>1. CASE K = {}
  BY <1>0, <1>1 DEF Shows, Alike
<1>2. CASE K # {}
  <2>1. PICK i \in K : (\A k \in K : Later(w, i, k)) /\ Reflects(w, u, i)
    BY <1>0, <1>2 DEF Shows
  <2>2. PICK j \in K : (\A k \in K : Later(w, j, k)) /\ Reflects(w, v, j)
    BY <1>0, <1>2 DEF Shows
  <2>3. PICK a \in 0..MaxTime, b \in 0..MaxTime : a = w[i].at /\ b = w[j].at
    BY <1>0, SyncFacts
  <2>4. i = j
    <3>1. (b < a \/ (b = a /\ j <= i)) /\ (a < b \/ (a = b /\ i <= j))
      BY <2>1, <2>2, <2>3 DEF Later
    <3>2. a = b /\ j <= i /\ i <= j
      BY <3>1
    <3>3. i \in Nat /\ j \in Nat
      BY <1>0
    <3> QED BY <3>2, <3>3
  <2>5. u # None /\ v # None /\ u.at = v.at /\ (u.deleted <=> v.deleted)
    BY <1>0, <2>1, <2>2, <2>4 DEF Reflects
  <2>6. ~u.deleted => u.content = v.content
    BY <2>1, <2>2, <2>4, <2>5 DEF Reflects
  <2>7. ~u.deleted => u = v
    <3>1. /\ u = [content |-> u.content, at |-> u.at, deleted |-> u.deleted]
          /\ v = [content |-> v.content, at |-> v.at, deleted |-> v.deleted]
          /\ u.deleted \in BOOLEAN /\ v.deleted \in BOOLEAN
      BY <1>0, <2>5, VersionFacts
    <3>2. ~u.deleted => u.deleted = v.deleted
      BY <2>5, <3>1
    <3> QED BY <2>5, <2>6, <3>1, <3>2
  <2> QED BY <2>5, <2>7 DEF Alike
<1> QED BY <1>1, <1>2

\* What a step shows to whom: a write to its own browser, a message to the browser it is
\* delivered to, and nothing else but what a browser has written itself.
LearnsOwn(r) ==
  /\ Seen(r) \subseteq Seen(r)'
  /\ \A p \in Seen(r)' : p \in Seen(r) \/ (p \in 1..Len(relay) /\ Sender(p) = r)

LEMMA KindsOfReading ==
  ASSUME TypeOK, Reading, [Next]_vars
  PROVE  \/ \E r \in Replicas, n \in Notes, e \in Sync :
               /\ Records(r, n, e) /\ Queued(r, n) /\ relay' = relay
               /\ \A s \in Replicas : Seen(s)' = Seen(s)
         \/ /\ notes' = notes /\ writes' = writes /\ lost' = lost
            /\ \A s \in Replicas : LearnsOwn(s)
         \/ \E r \in Replicas, p \in 1..Len(relay) :
               /\ Merge(r, p) /\ Delivers(r, p)
               /\ UNCHANGED <<writes, relay, lost>>
               /\ \A s \in Replicas : s # r => Seen(s)' = Seen(s)
<1>0. /\ polled \in [Replicas -> BOOLEAN] /\ cursor \in [Replicas -> 0..Len(relay)]
      /\ inbound \in [Replicas -> Seq(1..Len(relay))]
  BY DEF TypeOK
<1>1. ASSUME UNCHANGED <<inbound, polled, cursor>>, NEW s \in Replicas
      PROVE  Seen(s)' = Seen(s) /\ LearnsOwn(s)
  <2>1. Seen(s)' = Seen(s)
    BY <1>1 DEF Seen, Waiting, First
  <2> QED BY <2>1 DEF LearnsOwn
<1>2. ASSUME NEW r \in Replicas, NEW n \in Notes,
             NoteCreate(r, n) \/ NoteUpdate(r, n) \/ NoteDelete(r, n)
      PROVE  \E e \in Sync : /\ Records(r, n, e) /\ Queued(r, n) /\ relay' = relay
                            /\ \A s \in Replicas : Seen(s)' = Seen(s)
  <2>1. PICK op \in Ops, v \in Version : Writes(r, op, n, v)
    BY <1>2, UserWrites
  <2>2. PICK e : e = Entry(r, op, n, v)
    OBVIOUS
  <2>3. /\ e \in Sync /\ Records(r, n, e) /\ Queued(r, n) /\ relay' = relay
        /\ UNCHANGED <<inbound, polled, cursor>>
    BY <2>1, <2>2, WhatAWriteDoes, EntryType DEF transport
  <2>4. \A s \in Replicas : Seen(s)' = Seen(s)
    BY <1>1, <2>3
  <2> QED BY <2>3, <2>4
<1>3. ASSUME NEW r \in Replicas, Elsewhere(r), LearnsOwn(r), NEW s \in Replicas
      PROVE  LearnsOwn(s)
  <2>1. CASE s # r
    <3>1. Seen(s)' = Seen(s)
      BY <1>3, <2>1, SeenElsewhere
    <3> QED BY <3>1 DEF LearnsOwn
  <2> QED BY <1>3, <2>1
<1>4. ASSUME NEW r \in Replicas, Tick(r)
      PROVE  \E p \in 1..Len(relay) :
               /\ Merge(r, p) /\ Delivers(r, p) /\ UNCHANGED <<writes, relay, lost>>
               /\ \A s \in Replicas : s # r => Seen(s)' = Seen(s)
  <2>1. Delivers(r, Head(inbound[r])) /\ Merge(r, Head(inbound[r]))
        /\ UNCHANGED <<writes, relay, lost>>
    BY <1>4, TickDelivers DEF Tick
  <2>2. Elsewhere(r)
    BY <1>0, <1>4 DEF Elsewhere, Tick
  <2>3. \A s \in Replicas : s # r => Seen(s)' = Seen(s)
    BY <2>2, SeenElsewhere
  <2>4. Head(inbound[r]) \in 1..Len(relay)
    BY <2>1 DEF Delivers
  <2> QED BY <2>1, <2>3, <2>4
<1>5. ASSUME NEW r \in Replicas, PushSyncInbound(r)
      PROVE  \E p \in 1..Len(relay) :
               /\ Merge(r, p) /\ Delivers(r, p) /\ UNCHANGED <<writes, relay, lost>>
               /\ \A s \in Replicas : s # r => Seen(s)' = Seen(s)
  <2>1. Delivers(r, NextRead(r)) /\ Merge(r, NextRead(r)) /\ UNCHANGED <<writes, relay, lost>>
    BY <1>5, PushSyncDelivers DEF PushSyncInbound
  <2>2. Elsewhere(r)
    BY <1>0, <1>5 DEF Elsewhere, PushSyncInbound
  <2>3. \A s \in Replicas : s # r => Seen(s)' = Seen(s)
    BY <2>2, SeenElsewhere
  <2>4. NextRead(r) \in 1..Len(relay)
    BY <2>1 DEF Delivers
  <2> QED BY <2>1, <2>3, <2>4
<1>6. ASSUME NEW r \in Replicas, AdvanceInbound(r) \/ PushInbound(r) \/ SkipOwn(r)
      PROVE  /\ notes' = notes /\ writes' = writes /\ lost' = lost
             /\ \A s \in Replicas : LearnsOwn(s)
  <2>1. Elsewhere(r)
    BY <1>0, <1>6 DEF Elsewhere, AdvanceInbound, PushInbound, SkipOwn
  <2>2. LearnsOwn(r)
    <3>1. CASE AdvanceInbound(r) \/ PushInbound(r)
      <4>1. Seen(r)' = Seen(r)
        BY <3>1, AdvanceSees, PushSees
      <4> QED BY <4>1 DEF LearnsOwn
    <3>2. CASE SkipOwn(r)
      <4>1. Seen(r)' = Seen(r) \cup {cursor[r] + 1} /\ Sender(cursor[r] + 1) = r
        BY <3>2, SkipSees
      <4>2. cursor[r] + 1 \in 1..Len(relay)
        BY <3>2, ReadFacts DEF SkipOwn, Unread
      <4> QED BY <4>1, <4>2 DEF LearnsOwn
    <3> QED BY <1>6, <3>1, <3>2
  <2>3. notes' = notes /\ writes' = writes /\ lost' = lost
    BY <1>6 DEF AdvanceInbound, PushInbound, SkipOwn, local
  <2> QED BY <1>3, <2>1, <2>2, <2>3
<1>7. ASSUME NEW r \in Replicas,
             DrainOutbound(r) \/ Pass(r) \/ \E up \in BOOLEAN : SetRelayConnected(r, up)
      PROVE  /\ notes' = notes /\ writes' = writes /\ lost' = lost
             /\ \A s \in Replicas : LearnsOwn(s)
  <2>1. /\ notes' = notes /\ writes' = writes /\ lost' = lost
        /\ UNCHANGED <<inbound, polled, cursor>>
    BY <1>7 DEF DrainOutbound, Pass, SetRelayConnected, local, transport
  <2> QED BY <1>1, <2>1
<1>8. CASE UNCHANGED vars
  BY <1>1, <1>8 DEF vars
<1>9. CASE Next
  <2>1. PICK r \in Replicas :
           \/ \E n \in Notes : NoteCreate(r, n)
           \/ \E n \in Notes : NoteUpdate(r, n)
           \/ \E n \in Notes : NoteDelete(r, n)
           \/ Tick(r) \/ AdvanceInbound(r)
           \/ DrainOutbound(r) \/ SkipOwn(r) \/ PushInbound(r) \/ PushSyncInbound(r)
           \/ \E up \in BOOLEAN : SetRelayConnected(r, up)
           \/ Pass(r)
    BY <1>9 DEF Next
  <2>2. CASE \/ \E n \in Notes : NoteCreate(r, n)
             \/ \E n \in Notes : NoteUpdate(r, n)
             \/ \E n \in Notes : NoteDelete(r, n)
    BY <1>2, <2>2
  <2>3. CASE Tick(r) \/ PushSyncInbound(r)
    BY <1>4, <1>5, <2>3
  <2>4. CASE AdvanceInbound(r) \/ PushInbound(r) \/ SkipOwn(r)
    BY <1>6, <2>4
  <2>5. CASE DrainOutbound(r) \/ Pass(r) \/ \E up \in BOOLEAN : SetRelayConnected(r, up)
    BY <1>7, <2>5
  <2> QED BY <2>1, <2>2, <2>3, <2>4, <2>5
<1> QED BY <1>8, <1>9

LEMMA WellStampedStays ==
  ASSUME TypeOK, [Next]_vars, NEW n, WellStamped(n)'
  PROVE  WellStamped(n)
<1>1. \A i \in 1..Len(writes) : i \in 1..Len(writes') /\ writes'[i] = writes[i]
  BY CreatesStays
<1> QED BY <1>1 DEF WellStamped

\* Of two messages with one time the later write comes later.
LEMMA NextIsLater ==
  ASSUME TypeOK, Queues, Reading, NEW r \in Replicas, NEW p, Delivers(r, p),
         NEW n, WellStamped(n), NEW i \in 1..Len(writes), i = relay[p], writes[i].note = n,
         NEW j \in Known(r, n), writes[j].at = writes[i].at
  PROVE  j <= i
<1>1. /\ j \in 1..Len(writes) /\ writes[j].note = n
      /\ writes[j].by = r \/ \E q \in Seen(r) : relay[q] = j
  BY DEF Known, WriteIds
<1>2. writes[j].by = writes[i].by
  BY <1>1 DEF WellStamped
<1>3. p \in 1..Len(relay) /\ Sender(p) = writes[i].by /\ Sender(p) # r
  BY DEF Delivers, Sender
<1>4. PICK q \in Seen(r) : relay[q] = j
  BY <1>1, <1>2, <1>3
<1>5. q \in 1..Len(relay)
  BY ReadFacts
<1>6. Sender(q) = Sender(p) /\ q <= p
  BY <1>2, <1>3, <1>4 DEF Sender, Delivers
<1>7. CASE q = p
  BY <1>4, <1>7
<1>8. CASE q # p
  <2>1. q < p
    BY <1>3, <1>5, <1>6, <1>8
  <2>2. relay[q] < relay[p]
    BY <1>3, <1>5, <1>6, <2>1 DEF Queues
  <2>3. j < i /\ i \in Nat /\ j \in Nat
    BY <1>1, <1>4, <2>2
  <2> QED BY <2>3
<1> QED BY <1>7, <1>8

LEMMA AgreementStep ==
  ASSUME TypeOK, Contents, Queues, Reading, RelayInOrder, Agreement, [Next]_vars
  PROVE  Agreement'
<1>0. /\ Len(writes) \in Nat /\ Len(relay) \in Nat
      /\ \A i \in 1..Len(writes) : writes[i] \in Sync
      /\ \A p \in 1..Len(relay) : relay[p] \in 1..Len(writes)
      /\ notes \in [Replicas -> [Notes -> Version \cup {None}]]
  BY TypeFacts DEF TypeOK
<1> SUFFICES ASSUME NEW m \in Notes \ lost', WellStamped(m)', NEW s \in Replicas
             PROVE  Shows(writes', notes'[s][m], Known(s, m)')
  BY DEF Agreement
<1>1. WellStamped(m)
  BY WellStampedStays
<1>2. lost \subseteq lost'
  BY KindsOfSteps DEF Queued, Drains
<1>3. Shows(writes, notes[s][m], Known(s, m))
  BY <1>1, <1>2 DEF Agreement
<1>4. \A p \in Seen(s) : p \in 1..Len(relay)
  BY ReadFacts
<1>5. Known(s, m) \in SUBSET (1..Len(writes))
  BY DEF Known, WriteIds
<1>6. ASSUME NEW r \in Replicas, NEW n \in Notes, NEW e \in Sync,
             Records(r, n, e), relay' = relay, Seen(s)' = Seen(s)
      PROVE  Shows(writes', notes'[s][m], Known(s, m)')
  <2>1. PICK N \in Nat : N = Len(writes)
    BY <1>0
  <2>2. /\ Len(writes') = N + 1 /\ writes'[N + 1] = e /\ e.note = n /\ e.by = r
        /\ \A i \in 1..N : writes'[i] = writes[i]
    BY <1>6, <2>1 DEF Records
  <2>3. \A i \in 1..N : i \in Known(s, m)' <=> i \in Known(s, m)
    BY <1>6, <2>1, <2>2 DEF Known, WriteIds
  <2>4. N + 1 \in Known(s, m)' <=> s = r /\ m = n
    <3>1. \A p \in Seen(s) : relay[p] # N + 1
      BY <1>0, <1>4, <2>1
    <3> QED BY <1>6, <2>2, <3>1 DEF Known, WriteIds
  <2>5. \A i \in Known(s, m)' : i \in 1..N \/ i = N + 1
    BY <2>2 DEF Known, WriteIds
  <2>6. CASE s = r /\ m = n
    <3>1. Known(s, m)' = Known(s, m) \cup {N + 1}
      BY <1>5, <2>1, <2>3, <2>4, <2>5, <2>6
    <3>2. PICK d \in Version : /\ d = notes'[s][m] /\ d.at = e.at /\ d.content = e.content
                               /\ d.deleted <=> e.op = "delete"
      BY <1>6, <2>6 DEF Records
    <3>3. Reflects(writes', d, N + 1)
      <4>1. d # None
        BY <3>2
      <4>2. e.op # "delete" => d.content = N + 1
        BY <1>6, <2>1, <3>2 DEF Records
      <4> QED BY <2>2, <3>2, <4>1, <4>2 DEF Reflects
    <3>4. notes[s][m] # None => notes[s][m].at <= e.at
      <4>1. e.over = notes[s][m]
        BY <1>6, <2>6 DEF Records
      <4>2. N + 1 \in {k \in 1..Len(writes') : writes'[k].note = m}
        BY <2>2, <2>6
      <4>3. e.over # None => e.over.at <= e.at
        BY <2>2, <4>2 DEF WellStamped
      <4> QED BY <4>1, <4>3
    <3>5. \A j \in 1..(N + 1) : writes'[j] \in Sync
      BY <1>0, <2>1, <2>2
    <3>6. PICK w, x, v, K : w = writes /\ x = writes' /\ v = notes[s][m] /\ K = Known(s, m)
      OBVIOUS
    <3>7. Shows(x, d, K \cup {N + 1})
      <4>1. \A j \in 1..(N + 1) : x[j] \in Sync
        BY <3>5, <3>6
      <4>2. \A j \in 1..N : x[j] = w[j]
        BY <2>2, <3>6
      <4>3. K \in SUBSET (1..N) /\ Shows(w, v, K)
        BY <1>3, <1>5, <2>1, <3>6
      <4>4. v # None => v.at <= x[N + 1].at
        BY <2>2, <3>4, <3>6
      <4>5. Reflects(x, d, N + 1)
        BY <3>3, <3>6
      <4> QED BY <4>1, <4>2, <4>3, <4>4, <4>5, WriteShows
    <3> QED BY <3>1, <3>2, <3>6, <3>7
  <2>7. CASE ~(s = r /\ m = n)
    <3>1. Known(s, m)' = Known(s, m)
      BY <1>5, <2>1, <2>3, <2>4, <2>5, <2>7
    <3>2. notes'[s][m] = notes[s][m]
      BY <1>6, <2>7 DEF Records
    <3>3. \A j \in 1..Len(writes) : writes'[j] = writes[j]
      BY <2>1, <2>2
    <3>4. Shows(writes', notes[s][m], Known(s, m))
      BY <1>3, <1>5, <3>3, ShowsStill
    <3> QED BY <3>1, <3>2, <3>4
  <2> QED BY <2>6, <2>7
<1>7. CASE notes' = notes /\ writes' = writes /\ LearnsOwn(s)
  <2>1. Known(s, m)' = Known(s, m)
    <3>1. ASSUME NEW i \in Known(s, m) PROVE i \in Known(s, m)'
      <4>1. i \in 1..Len(writes) /\ writes[i].note = m
        BY DEF Known, WriteIds
      <4>2. CASE writes[i].by = s
        BY <1>7, <4>1, <4>2 DEF Known, WriteIds
      <4>3. CASE \E p \in Seen(s) : relay[p] = i
        <5>1. PICK p \in Seen(s) : relay[p] = i
          BY <4>3
        <5>2. p \in Seen(s)' /\ relay'[p] = i
          BY <1>4, <1>7, <5>1, SenderStays DEF LearnsOwn
        <5> QED BY <1>7, <4>1, <5>2 DEF Known, WriteIds
      <4> QED BY <4>2, <4>3 DEF Known
    <3>2. ASSUME NEW i \in Known(s, m)' PROVE i \in Known(s, m)
      <4>1. i \in 1..Len(writes) /\ writes[i].note = m
        BY <1>7 DEF Known, WriteIds
      <4>2. CASE writes[i].by = s
        BY <4>1, <4>2 DEF Known, WriteIds
      <4>3. CASE \E p \in Seen(s)' : relay'[p] = i
        <5>1. PICK p \in Seen(s)' : relay'[p] = i
          BY <4>3
        <5>2. p \in Seen(s) \/ (p \in 1..Len(relay) /\ Sender(p) = s)
          BY <1>7 DEF LearnsOwn
        <5>3. p \in 1..Len(relay) /\ relay[p] = i
          BY <1>4, <5>1, <5>2, SenderStays
        <5> QED BY <4>1, <5>2, <5>3 DEF Known, WriteIds, Sender
      <4> QED BY <1>7, <4>2, <4>3 DEF Known
    <3> QED BY <3>1, <3>2
  <2> QED BY <1>3, <1>7, <2>1
<1>8. ASSUME NEW r \in Replicas, NEW p \in 1..Len(relay), Merge(r, p), Delivers(r, p),
             UNCHANGED <<writes, relay, lost>>, s # r => Seen(s)' = Seen(s)
      PROVE  Shows(writes', notes'[s][m], Known(s, m)')
  <2>1. PICK i \in 1..Len(writes) : i = relay[p] /\ writes[i] \in Sync
    BY <1>0
  <2>2. notes'[s][m] = IF s = r /\ m = writes[i].note
                       THEN Merged(notes[s][m], writes[i]) ELSE notes[s][m]
    BY <1>8, <2>1, WhatAMergeDoes
  <2>3. CASE s = r /\ m = writes[i].note
    <3>1. Known(s, m)' = Known(s, m) \cup {i}
      <4>1. Seen(s)' = Seen(s) \cup {p}
        BY <1>8, <2>3 DEF Delivers
      <4> QED BY <1>8, <2>1, <2>3, <4>1 DEF Known, WriteIds
    <3>2. \A j \in Known(s, m) : writes[j].at = writes[i].at => j <= i
      BY <1>1, <1>8, <2>1, <2>3, NextIsLater
    <3>3. writes[i].op = "delete" => Known(s, m) # {}
      <4>1. PICK q \in 1..p : Creates(relay[q], m)
        BY <1>2, <2>1, <2>3 DEF RelayInOrder
      <4>2. PICK j \in 1..Len(writes) : j = relay[q] /\ writes[j].op = "create"
                                        /\ writes[j].note = m
        <5>1. q \in 1..Len(relay)
          BY <1>0
        <5> QED BY <1>0, <4>1, <5>1 DEF Creates
      <4>3. writes[i].op = "delete" => q \in Seen(s)
        <5>1. writes[i].op = "delete" => q # p
          BY <2>1, <4>2
        <5>2. q # p => q \in 1..(p - 1)
          BY <1>0
        <5> QED BY <1>8, <2>3, <5>1, <5>2 DEF Delivers
      <4> QED BY <4>2, <4>3 DEF Known, WriteIds
    <3>4. writes[i].op # "delete" => writes[i].content = i
      BY DEF Contents, WriteIds
    <3>5. PICK w, v, K, N : /\ w = writes /\ v = notes[s][m] /\ K = Known(s, m)
                            /\ N = Len(writes) /\ N \in Nat
      BY <1>0
    <3>6. Shows(w, Merged(v, w[i]), K \cup {i})
      <4>1. v \in Version \cup {None} /\ K \in SUBSET (1..N) /\ Shows(w, v, K) /\ i \in 1..N
        BY <1>0, <1>3, <1>5, <3>5
      <4>2. \A j \in 1..N : w[j] \in Sync
        BY <1>0, <3>5
      <4>3. /\ w[i].op # "delete" => w[i].content = i
            /\ w[i].op = "delete" => K # {}
            /\ \A j \in K : w[j].at = w[i].at => j <= i
        BY <3>2, <3>3, <3>4, <3>5
      <4>4. MayMerge(N, w, v, K, i)
        BY <3>5, <4>1, <4>2, <4>3 DEF MayMerge
      <4> QED BY <4>4, MergeShows
    <3> QED BY <1>8, <2>2, <2>3, <3>1, <3>5, <3>6
  <2>4. CASE ~(s = r /\ m = writes[i].note)
    <3>1. Known(s, m)' = Known(s, m)
      <4>1. CASE s # r
        BY <1>8, <4>1 DEF Known, WriteIds
      <4>2. CASE s = r /\ m # writes[i].note
        <5>1. Seen(s)' = Seen(s) \cup {p}
          BY <1>8, <4>2 DEF Delivers
        <5> QED BY <1>8, <2>1, <4>2, <5>1 DEF Known, WriteIds
      <4> QED BY <2>4, <4>1, <4>2
    <3> QED BY <1>3, <1>8, <2>2, <2>4, <3>1
  <2> QED BY <2>3, <2>4
<1> QED BY <1>6, <1>7, <1>8, KindsOfReading

-----------------------------------------------------------------------------
(* The theorems. *)

IInv == /\ TypeOK /\ Contents /\ Queues /\ Reading /\ Complete
        /\ RelayInOrder /\ QueuesInOrder /\ Announced /\ Agreement

LEMMA InitIInv == Init => IInv
<1> SUFFICES ASSUME Init PROVE IInv
  OBVIOUS
<1>1. /\ notes = [r \in Replicas |-> [n \in Notes |-> None]]
      /\ sequence = [r \in Replicas |-> 0] /\ clock = [r \in Replicas |-> 0]
      /\ connected = [r \in Replicas |-> FALSE]
      /\ outbound = [r \in Replicas |-> <<>>] /\ inbound = [r \in Replicas |-> <<>>]
      /\ polled = [r \in Replicas |-> FALSE] /\ relay = <<>>
      /\ cursor = [r \in Replicas |-> 0] /\ writes = <<>> /\ lost = {}
  BY DEF Init
<1>2. Len(<< >>) = 0 /\ \A S : << >> \in Seq(S)
  OBVIOUS
<1>3. /\ Len(writes) = 0 /\ Len(relay) = 0
      /\ \A r \in Replicas : Len(outbound[r]) = 0 /\ Len(inbound[r]) = 0 /\ cursor[r] = 0
                             /\ ~polled[r]
  BY <1>1, <1>2
<1>4. \A i \in 1..0 : FALSE
  OBVIOUS
<1>5. TypeOK
  <2>1. sequence = [r \in Replicas |-> Cardinality({i \in 1..Len(writes) : writes[i].by = r})]
    <3>1. \A r \in Replicas : {i \in 1..Len(writes) : writes[i].by = r} = {}
      BY <1>3, <1>4
    <3> QED BY <1>1, <3>1, FS_EmptySet
  <2>2. 0 \in 0..MaxTime /\ 0 \in 0..Len(relay)
    BY <1>3
  <2> QED BY <1>1, <1>2, <1>3, <2>1, <2>2 DEF TypeOK
<1>6. Contents /\ Complete
  BY <1>3, <1>4 DEF Contents, Complete, WriteIds
<1>7. Queues /\ RelayInOrder /\ QueuesInOrder
  BY <1>3, <1>4 DEF Queues, RelayInOrder, QueuesInOrder
<1>8. \A r \in Replicas : Seen(r) = {}
  BY <1>3, <1>4 DEF Seen
<1>9. Reading
  BY <1>3, <1>4, <1>8 DEF Reading, ReadingOf
<1>10. Announced
  BY <1>1 DEF Announced
<1>11. Agreement
  <2>1. \A r \in Replicas, n \in Notes : Known(r, n) = {} /\ notes[r][n] = None
    BY <1>1, <1>3, <1>4 DEF Known, WriteIds
  <2> QED BY <2>1 DEF Agreement, Shows
<1> QED BY <1>5, <1>6, <1>7, <1>9, <1>10, <1>11 DEF IInv

LEMMA IInvStep == IInv /\ [Next]_vars => IInv'
BY TypeStep, ContentsStep, QueuesStep, ReadingStep, CompleteStep, RelayInOrderStep,
   QueuesInOrderStep, AnnouncedStep, AgreementStep DEF IInv

\* When everything is delivered every browser knows every write.
LEMMA SettledAgree == IInv => Convergence
<1> SUFFICES ASSUME IInv, Settled, NEW n \in Notes \ lost, WellStamped(n),
                    NEW r \in Replicas, NEW s \in Replicas
             PROVE  /\ n \in Active(r) <=> n \in Active(s)
                    /\ n \in Active(r) => notes[r][n] = notes[s][n]
  BY DEF Convergence
<1>0. /\ TypeOK /\ Reading /\ Complete /\ Agreement
      /\ Len(writes) \in Nat /\ \A i \in 1..Len(writes) : writes[i] \in Sync
      /\ \A i \in 1..Len(writes) : writes[i].by \in Replicas
  BY TypeFacts, SyncFacts DEF IInv
<1> DEFINE All == {i \in 1..Len(writes) : writes[i].note = n}
<1>1. ASSUME NEW q \in Replicas PROVE Known(q, n) = All
  <2>1. inbound[q] = << >> /\ ~(cursor[q] < Len(relay))
    BY DEF Settled, Unread
  <2>2. Len(inbound[q]) = 0 /\ cursor[q] = Len(relay)
    BY <1>0, <2>1, ReadFacts
  <2>3. Waiting(q) = {}
    <3>1. \A k \in First(q)..0 : FALSE
      BY <1>0, ReadFacts
    <3> QED BY <2>2, <3>1 DEF Waiting
  <2>4. Seen(q) = 1..Len(relay)
    BY <2>2, <2>3 DEF Seen
  <2>5. ASSUME NEW i \in All PROVE \E p \in 1..Len(relay) : relay[p] = i
    <3>1. PICK b \in Replicas : b = writes[i].by
      BY <1>0
    <3>2. OnItsWay(i, b)
      BY <1>0, <3>1 DEF Complete, WriteIds
    <3>3. Len(outbound[b]) = 0
      BY DEF Settled
    <3>4. \A k \in 1..Len(outbound[b]) : FALSE
      BY <3>3
    <3> QED BY <3>2, <3>4 DEF OnItsWay
  <2> QED BY <2>4, <2>5 DEF Known, WriteIds
<1>2. Shows(writes, notes[r][n], All) /\ Shows(writes, notes[s][n], All)
  BY <1>0, <1>1 DEF Agreement
<1>3. /\ notes[r][n] \in Version \cup {None} /\ notes[s][n] \in Version \cup {None}
      /\ All \in SUBSET (1..Len(writes))
  BY <1>0 DEF TypeOK
<1> HIDE DEF All
<1>4. PICK u, v, w, N : /\ u = notes[r][n] /\ v = notes[s][n] /\ w = writes /\ N = Len(writes)
                        /\ u \in Version \cup {None} /\ v \in Version \cup {None} /\ N \in Nat
  BY <1>0, <1>3
<1>5. Alike(u, v)
  <2>1. /\ \A j \in 1..N : w[j] \in Sync
        /\ All \in SUBSET (1..N) /\ Shows(w, u, All) /\ Shows(w, v, All)
    BY <1>0, <1>2, <1>3, <1>4
  <2>2. BothShow(N, w, u, v, All)
    BY <1>4, <2>1 DEF BothShow
  <2> QED BY <2>2, ShowsOne
<1> QED BY <1>4, <1>5 DEF Active, Updatable, Alike

\* Every map holds versions, the event sequences count the writes, the queues hold messages
\* (set_relay_connected, push_inbound, drain_outbound, handle_event).
THEOREM NotesTypeOK == Spec => []TypeOK
<1>1. Init => TypeOK
  BY InitIInv DEF IInv
<1>2. TypeOK /\ [Next]_vars => TypeOK'
  BY TypeStep
<1> QED BY <1>1, <1>2, PTL DEF Spec

\* The merge under SYNC_RESULT brings all browsers to the same notes, in whatever order
\* their messages pass the relay.
THEOREM BrowsersConverge == Spec => []Convergence
<1>1. Spec => []IInv
  BY InitIInv, IInvStep, PTL DEF Spec
<1>2. IInv => Convergence
  BY SettledAgree
<1> QED BY <1>1, <1>2, PTL

-----------------------------------------------------------------------------
(* CborStream: items, units and stacks. *)

Kinds == {"int", "simple", "float", "text", "array", "map"}
AnyItem == [kind : Kinds, n : Nat, wide : Nat]
StreamUnits == {"head", "arg", "data"} \X AnyItem
AnyLevel == [map : BOOLEAN, left : Nat]
Size(item) == 1 + item.wide + DataLen(item)

\* What the writer's account holds after an item.
Opened(stack, item) ==
    Unfinished(IF IsContainer(item) THEN Append(Charged(stack), Level(item)) ELSE Charged(stack))

\* The level on top, if any, still expects an item.
Trimmed(stack) == stack # << >> => stack[Len(stack)].left > 0

LEMMA PartFacts ==
  ASSUME NEW item \in AnyItem
  PROVE  /\ \A k \in 1..3 : Parts(item)[k] \in Seq(StreamUnits)
         /\ Len(Parts(item)[1]) = 1 /\ Parts(item)[1][1] = <<"head", item>>
         /\ Len(Parts(item)[2]) = item.wide
         /\ Len(Parts(item)[3]) = DataLen(item)
         /\ DataLen(item) \in Nat /\ Size(item) \in Nat \ {0}
<1>1. item.n \in Nat /\ item.wide \in Nat /\ DataLen(item) \in Nat
  BY DEF AnyItem, DataLen
<1>2. <<"head", item>> \in StreamUnits /\ <<"arg", item>> \in StreamUnits /\ <<"data", item>> \in StreamUnits
  BY DEF StreamUnits
<1>3. PICK w \in Nat, d \in Nat : w = item.wide /\ d = DataLen(item)
  BY <1>1
<1>4. [i \in 1..w |-> <<"arg", item>>] \in [1..w -> StreamUnits]
  BY <1>2
<1>5. [i \in 1..d |-> <<"data", item>>] \in [1..d -> StreamUnits]
  BY <1>2
<1>6. PICK f \in [1..w -> StreamUnits] : f = [i \in 1..w |-> <<"arg", item>>]
  BY <1>4
<1>7. PICK g \in [1..d -> StreamUnits] : g = [i \in 1..d |-> <<"data", item>>]
  BY <1>5
<1>8. f \in Seq(StreamUnits) /\ Len(f) = w
  BY FunctionIsSeq
<1>9. g \in Seq(StreamUnits) /\ Len(g) = d
  BY FunctionIsSeq
<1>10. Parts(item) = << << <<"head", item>> >>, f, g >>
  BY <1>3, <1>6, <1>7 DEF Parts
<1>11. << <<"head", item>> >> \in Seq(StreamUnits) /\ Len(<< <<"head", item>> >>) = 1
  BY <1>2
<1>12. /\ Parts(item)[1] = << <<"head", item>> >> /\ Parts(item)[2] = f /\ Parts(item)[3] = g
  BY <1>10
<1>13. \A k \in 1..3 : k = 1 \/ k = 2 \/ k = 3
  OBVIOUS
<1>14. \A k \in 1..3 : Parts(item)[k] \in Seq(StreamUnits)
  BY <1>8, <1>9, <1>11, <1>12, <1>13
<1> QED BY <1>1, <1>3, <1>8, <1>9, <1>11, <1>12, <1>14 DEF Size

\* What writing an item leaves of a buffer.
WroteInto(b, item, w) ==
    /\ w \in Seq(StreamUnits) /\ Len(b) <= Len(w) /\ Len(w) <= room
    /\ \A i \in 1..Len(b) : w[i] = b[i]
    /\ Len(b) < room => Len(b) < Len(w) /\ w[Len(b) + 1] = <<"head", item>>

\* Whether it was written whole.
WroteAll(b, item, w) ==
    LET whole == b \o Parts(item)[1] \o Parts(item)[2] \o Parts(item)[3]
    IN /\ w = whole <=> Len(b) + Size(item) <= room
       /\ w = whole => Len(w) = Len(b) + Size(item)

LEMMA WrittenFacts ==
  ASSUME NEW b \in Seq(StreamUnits), NEW item \in AnyItem, room \in Nat, Len(b) <= room
  PROVE  WroteInto(b, item, Written(b, item)) /\ WroteAll(b, item, Written(b, item))
<1> DEFINE one == b \o Parts(item)[1]
           two == one \o Parts(item)[2]
           three == two \o Parts(item)[3]
           fitting == {x \in {b, one, two, three} : Len(x) <= room}
<1>1. PICK n \in Nat, u \in Nat, d \in Nat : n = Len(b) /\ u = item.wide /\ d = DataLen(item)
  <2>1. Len(b) \in Nat /\ item.wide \in Nat
    BY LenProperties DEF AnyItem
  <2> QED BY <2>1, PartFacts
<1>2. PICK q1 \in Seq(StreamUnits), q2 \in Seq(StreamUnits), q3 \in Seq(StreamUnits) :
         /\ q1 = Parts(item)[1] /\ q2 = Parts(item)[2] /\ q3 = Parts(item)[3]
         /\ Len(q1) = 1 /\ Len(q2) = u /\ Len(q3) = d /\ q1[1] = <<"head", item>>
  BY <1>1, PartFacts
<1>3. PICK b1 \in Seq(StreamUnits) : /\ b1 = one /\ Len(b1) = n + 1
                                     /\ \A i \in 1..n : b1[i] = b[i]
                                     /\ b1[n + 1] = <<"head", item>>
  <2>1. /\ b \o q1 \in Seq(StreamUnits) /\ Len(b \o q1) = Len(b) + Len(q1)
        /\ \A i \in 1..(Len(b) + Len(q1)) :
             (b \o q1)[i] = IF i <= Len(b) THEN b[i] ELSE q1[i - Len(b)]
    BY ConcatProperties
  <2>2. PICK c \in Seq(StreamUnits) : c = b \o q1
    BY <2>1
  <2>3. Len(c) = n + 1 /\ \A i \in 1..(n + 1) : c[i] = IF i <= n THEN b[i] ELSE q1[i - n]
    BY <1>1, <1>2, <2>1, <2>2
  <2>4. (\A i \in 1..n : c[i] = b[i]) /\ c[n + 1] = q1[1]
    BY <2>3
  <2> QED BY <1>2, <2>2, <2>3, <2>4
<1>4. PICK b2 \in Seq(StreamUnits) : /\ b2 = two /\ Len(b2) = n + 1 + u
                                     /\ \A i \in 1..(n + 1) : b2[i] = b1[i]
  <2>1. /\ b1 \o q2 \in Seq(StreamUnits) /\ Len(b1 \o q2) = Len(b1) + Len(q2)
        /\ \A i \in 1..(Len(b1) + Len(q2)) :
             (b1 \o q2)[i] = IF i <= Len(b1) THEN b1[i] ELSE q2[i - Len(b1)]
    BY ConcatProperties
  <2>2. PICK c \in Seq(StreamUnits) : c = b1 \o q2
    BY <2>1
  <2>3. Len(c) = n + 1 + u /\ \A i \in 1..(n + 1 + u) : c[i] = IF i <= n + 1 THEN b1[i] ELSE q2[i - (n + 1)]
    BY <1>2, <1>3, <2>1, <2>2
  <2>4. \A i \in 1..(n + 1) : c[i] = b1[i]
    BY <2>3
  <2> QED BY <1>2, <1>3, <2>2, <2>3, <2>4
<1>5. PICK b3 \in Seq(StreamUnits) : /\ b3 = three /\ Len(b3) = n + 1 + u + d
                                     /\ \A i \in 1..(n + 1) : b3[i] = b2[i]
  <2>1. /\ b2 \o q3 \in Seq(StreamUnits) /\ Len(b2 \o q3) = Len(b2) + Len(q3)
        /\ \A i \in 1..(Len(b2) + Len(q3)) :
             (b2 \o q3)[i] = IF i <= Len(b2) THEN b2[i] ELSE q3[i - Len(b2)]
    BY ConcatProperties
  <2>2. PICK c \in Seq(StreamUnits) : c = b2 \o q3
    BY <2>1
  <2>3. PICK k \in Nat : k = n + 1 + u /\ Len(b2) = k
    BY <1>4
  <2>3a. Len(c) = k + d /\ \A i \in 1..(k + d) : c[i] = IF i <= k THEN b2[i] ELSE q3[i - k]
    BY <1>2, <2>1, <2>2, <2>3
  <2>4. \A i \in 1..(n + 1) : c[i] = b2[i]
    BY <2>3, <2>3a
  <2> QED BY <1>2, <1>4, <2>2, <2>3, <2>3a, <2>4
<1>6. PICK r \in Nat : r = room /\ n <= r
  BY <1>1
<1>7. \A x : x \in fitting <=> (x = b \/ x = b1 \/ x = b2 \/ x = b3) /\ Len(x) <= r
  BY <1>3, <1>4, <1>5, <1>6
<1>8. Written(b, item) = CHOOSE x \in fitting : \A y \in fitting : Len(y) <= Len(x)
  BY DEF Written
<1>8a. Len(b) = n /\ Len(b1) = n + 1 /\ Len(b2) = n + 1 + u /\ Len(b3) = n + 1 + u + d
  BY <1>1, <1>3, <1>4, <1>5
<1> HIDE DEF one, two, three, fitting
<1>8b. \A y \in fitting : Len(y) = n \/ Len(y) = n + 1 \/ Len(y) = n + 1 + u \/ Len(y) = n + 1 + u + d
  BY <1>7, <1>8a
<1>8c. /\ n + 1 + u + d <= r => b3 \in fitting
       /\ n + 1 + u <= r => b2 \in fitting
       /\ n + 1 <= r => b1 \in fitting
       /\ b \in fitting
  BY <1>6, <1>7, <1>8a
<1>8d. \A y \in fitting : \E l \in {n, n + 1, n + 1 + u, n + 1 + u + d} : l = Len(y) /\ l <= r
  <2>1. SUFFICES ASSUME NEW y \in fitting
                 PROVE  \E l \in {n, n + 1, n + 1 + u, n + 1 + u + d} : l = Len(y) /\ l <= r
    OBVIOUS
  <2>2. Len(y) <= r
    BY <1>7
  <2>3. Len(y) \in {n, n + 1, n + 1 + u, n + 1 + u + d}
    BY <1>8b
  <2> QED BY <2>2, <2>3
<1>9. \E x \in fitting : \A y \in fitting : Len(y) <= Len(x)
  <2>1. CASE n + 1 + u + d <= r
    <3>1. b3 \in fitting
      BY <1>8c, <2>1
    <3>2. \A y \in fitting : Len(y) <= n + 1 + u + d
      <4>1. SUFFICES ASSUME NEW y \in fitting PROVE Len(y) <= n + 1 + u + d
        OBVIOUS
      <4>2. PICK l \in {n, n + 1, n + 1 + u, n + 1 + u + d} : l = Len(y) /\ l <= r
        BY <1>8d
      <4>3. l <= n + 1 + u + d
        BY <2>1, <4>2
      <4> QED BY <4>2, <4>3
    <3> QED BY <1>8a, <3>1, <3>2
  <2>2. CASE ~(n + 1 + u + d <= r) /\ n + 1 + u <= r
    <3>1. b2 \in fitting
      BY <1>8c, <2>2
    <3>2. \A y \in fitting : Len(y) <= n + 1 + u
      <4>1. SUFFICES ASSUME NEW y \in fitting PROVE Len(y) <= n + 1 + u
        OBVIOUS
      <4>2. PICK l \in {n, n + 1, n + 1 + u, n + 1 + u + d} : l = Len(y) /\ l <= r
        BY <1>8d
      <4>3. l <= n + 1 + u
        BY <2>2, <4>2
      <4> QED BY <4>2, <4>3
    <3> QED BY <1>8a, <3>1, <3>2
  <2>3. CASE ~(n + 1 + u <= r) /\ n + 1 <= r
    <3>1. b1 \in fitting
      BY <1>8c, <2>3
    <3>2. \A y \in fitting : Len(y) <= n + 1
      <4>1. SUFFICES ASSUME NEW y \in fitting PROVE Len(y) <= n + 1
        OBVIOUS
      <4>2. PICK l \in {n, n + 1, n + 1 + u, n + 1 + u + d} : l = Len(y) /\ l <= r
        BY <1>8d
      <4>3. l <= n + 1
        BY <2>3, <4>2
      <4> QED BY <4>2, <4>3
    <3> QED BY <1>8a, <3>1, <3>2
  <2>4. CASE ~(n + 1 <= r)
    <3>1. b \in fitting
      BY <1>8c, <2>4
    <3>2. \A y \in fitting : Len(y) <= n
      <4>1. SUFFICES ASSUME NEW y \in fitting PROVE Len(y) <= n
        OBVIOUS
      <4>2. PICK l \in {n, n + 1, n + 1 + u, n + 1 + u + d} : l = Len(y) /\ l <= r
        BY <1>8d
      <4>3. l <= n
        BY <2>4, <4>2
      <4> QED BY <4>2, <4>3
    <3> QED BY <1>8a, <3>1, <3>2
  <2> QED BY <2>1, <2>2, <2>3, <2>4
<1>10. PICK w : w = Written(b, item) /\ w \in fitting /\ \A y \in fitting : Len(y) <= Len(w)
  BY <1>8, <1>9
<1>11. w = b \/ w = b1 \/ w = b2 \/ w = b3
  BY <1>7, <1>10
<1>12. w \in Seq(StreamUnits) /\ n <= Len(w) /\ Len(w) <= r
  <2>1. w \in Seq(StreamUnits) /\ Len(w) <= r
    BY <1>7, <1>10, <1>11
  <2>2. n <= Len(w)
    BY <1>8a, <1>11
  <2> QED BY <2>1, <2>2
<1>13. \A i \in 1..n : b1[i] = b[i] /\ b2[i] = b[i] /\ b3[i] = b[i]
  <2>1. \A i \in 1..n : i \in 1..(n + 1)
    OBVIOUS
  <2> QED BY <1>3, <1>4, <1>5, <2>1
<1>14. \A i \in 1..n : w[i] = b[i]
  BY <1>11, <1>13
<1>15. n < r => w # b /\ n < Len(w) /\ w[n + 1] = <<"head", item>>
  <2>1. SUFFICES ASSUME n < r PROVE n < Len(w) /\ w[n + 1] = <<"head", item>>
    BY <1>1
  <2>2. b1 \in fitting
    BY <1>3, <1>7, <2>1
  <2>3. n + 1 <= Len(w)
    BY <1>3, <1>10, <2>2
  <2>4. PICK j \in 1..(n + 1) : j = n + 1
    OBVIOUS
  <2>5. b1[j] = <<"head", item>> /\ b2[j] = <<"head", item>> /\ b3[j] = <<"head", item>>
    <3>1. \A i \in 1..(n + 1) : b2[i] = b1[i]
      BY <1>4
    <3>2. \A i \in 1..(n + 1) : b3[i] = b2[i]
      BY <1>5
    <3>3. b2[j] = b1[j] /\ b3[j] = b2[j]
      BY <3>1, <3>2
    <3>4. b1[j] = <<"head", item>>
      BY <1>3, <2>4
    <3> QED BY <3>3, <3>4
  <2>6. Len(w) \in Nat /\ w # b
    BY <1>8a, <1>12, <2>3, LenProperties
  <2>7. w[j] = <<"head", item>>
    BY <1>11, <2>5, <2>6
  <2>8. n < Len(w)
    BY <2>3, <2>6
  <2> QED BY <2>4, <2>7, <2>8
<1>16. WroteInto(b, item, w)
  BY <1>1, <1>6, <1>12, <1>14, <1>15 DEF WroteInto
<1>17. Size(item) = 1 + u + d
  BY <1>1 DEF Size
<1>18. three = b \o Parts(item)[1] \o Parts(item)[2] \o Parts(item)[3]
  BY DEF one, two, three
<1>19. w = b3 <=> n + (1 + u + d) <= r
  <2>1. ASSUME w = b3 PROVE n + (1 + u + d) <= r
    BY <1>8a, <1>12, <2>1
  <2>2. ASSUME n + (1 + u + d) <= r PROVE w = b3
    <3>1. b3 \in fitting
      <4>1. n + 1 + u + d <= r
        BY <2>2
      <4> QED BY <1>8c, <4>1
    <3>2. n + 1 + u + d <= Len(w)
      <4>1. Len(b3) <= Len(w)
        BY <1>10, <3>1
      <4> QED BY <1>8a, <4>1
    <3>3. w # b
      <4>1. SUFFICES ASSUME w = b PROVE FALSE
        OBVIOUS
      <4>2. n + 1 + u + d <= n
        BY <1>8a, <3>2, <4>1
      <4> QED BY <4>2
    <3>4. CASE w = b1
      <4>1. u = 0 /\ d = 0
        <5>1. n + 1 + u + d <= n + 1
          BY <1>8a, <3>2, <3>4
        <5> QED BY <5>1
      <4>2. Len(b1) = Len(b3) /\ \A i \in 1..Len(b1) : b1[i] = b3[i]
        BY <1>3, <1>4, <1>5, <4>1
      <4>3. b1 \in Seq(StreamUnits) /\ b3 \in Seq(StreamUnits)
        BY <1>3, <1>5
      <4>4. b1 = b3
        BY <4>2, <4>3, SeqEqual
      <4> QED BY <3>4, <4>4
    <3>5. CASE w = b2
      <4>1. d = 0
        BY <1>4, <3>2, <3>5
      <4>2. q3 = << >>
        BY <1>2, <4>1, EmptySeq
      <4>3. b3 = b2
        BY <1>2, <1>4, <1>5, <4>2, ConcatEmptySeq DEF three
      <4> QED BY <3>5, <4>3
    <3> QED BY <1>11, <3>3, <3>4, <3>5
  <2> QED BY <2>1, <2>2
<1>20. WroteAll(b, item, w)
  <2>1. w = b3 => Len(w) = n + (1 + u + d)
    BY <1>8a
  <2>2. b3 = b \o Parts(item)[1] \o Parts(item)[2] \o Parts(item)[3]
    BY <1>5, <1>18
  <2> QED BY <1>1, <1>6, <1>17, <1>19, <2>1, <2>2 DEF WroteAll
<1> QED BY <1>10, <1>16, <1>20

-----------------------------------------------------------------------------
(* CborStream: nesting stacks. *)

Stacks == Seq(AnyLevel)

LEMMA LastIndex ==
  ASSUME NEW n \in Nat, NEW L \in SUBSET (1..n), L # {}
  PROVE  \E i \in L : \A j \in L : j <= i
<1> DEFINE M == {j \in 1..n : n + 1 - j \in L}
<1>1. M \in SUBSET (1..n)
  OBVIOUS
<1>2. M # {}
  <2>1. PICK i \in L : i \in 1..n
    OBVIOUS
  <2>2. n + 1 - i \in 1..n /\ n + 1 - (n + 1 - i) = i
    BY <2>1
  <2>3. n + 1 - i \in M
    BY <2>1, <2>2
  <2> QED BY <2>3
<1>3. PICK k \in M : \A j \in M : k <= j
  <2> HIDE DEF M
  <2> QED BY <1>1, <1>2, FirstIndex
<1>4. k \in 1..n /\ n + 1 - k \in L
  OBVIOUS
<1>5. \A j \in L : j <= n + 1 - k
  <2>1. SUFFICES ASSUME NEW j \in L PROVE j <= n + 1 - k
    OBVIOUS
  <2>2. j \in 1..n /\ n + 1 - j \in 1..n /\ n + 1 - (n + 1 - j) = j
    OBVIOUS
  <2>3. n + 1 - j \in M
    BY <2>2
  <2>4. k <= n + 1 - j
    BY <1>3, <2>3
  <2> QED BY <1>4, <2>2, <2>4
<1> QED BY <1>4, <1>5

\* The live levels of a stack and those between them.
Trims(s, u) ==
    /\ u \in Stacks /\ Len(u) <= Len(s) /\ Trimmed(u)
    /\ \A i \in 1..Len(u) : u[i] = s[i]
    /\ \A i \in 1..Len(s) : s[i].left > 0 => i <= Len(u)

LEMMA UnfinishedFacts ==
  ASSUME NEW s \in Stacks
  PROVE  Trims(s, Unfinished(s))
<1> DEFINE live == {i \in DOMAIN s : s[i].left > 0}
           last == IF live = {} THEN 0 ELSE CHOOSE i \in live : \A j \in live : j <= i
<1>1. PICK n \in Nat : n = Len(s) /\ DOMAIN s = 1..n /\ \A i \in 1..n : s[i] \in AnyLevel
  BY LenProperties DEF Stacks
<1>2. live \in SUBSET (1..n)
  BY <1>1
<1>3. Unfinished(s) = SubSeq(s, 1, last)
  BY DEF Unfinished
<1>4. \A i \in 1..n : s[i].left > 0 => i \in live
  BY <1>1
<1>5. \A i \in live : s[i].left > 0
  OBVIOUS
<1>5a. PICK l : l = last
  OBVIOUS
<1>6. /\ l \in 0..n
      /\ l # 0 => l \in live
      /\ \A j \in live : j <= l
  <2> HIDE DEF live
  <2>1. CASE live = {}
    BY <1>5a, <2>1
  <2>2. CASE live # {}
    <3>1. \E i \in live : \A j \in live : j <= i
      BY <1>2, <2>2, LastIndex
    <3>2. l \in live /\ \A j \in live : j <= l
      BY <1>5a, <2>2, <3>1
    <3> QED BY <1>2, <3>2
  <2> HIDE DEF last
  <2> QED BY <2>1, <2>2
<1> HIDE DEF live, last
<1>7. PICK k \in 0..n : k = last
  BY <1>5a, <1>6
<1>8. /\ SubSeq(s, 1, k) \in Stacks
      /\ Len(SubSeq(s, 1, k)) = IF 1 <= k THEN k - 1 + 1 ELSE 0
      /\ \A i \in 1..(k - 1 + 1) : SubSeq(s, 1, k)[i] = s[1 + i - 1]
  <2>1. \A i \in 1..k : s[i] \in AnyLevel
    BY <1>1
  <2> QED BY <2>1, SubSeqProperties DEF Stacks
<1>9. PICK u \in Stacks : u = SubSeq(s, 1, k)
  BY <1>8
<1>10. Len(u) = k /\ \A i \in 1..k : u[i] = s[i]
  BY <1>8, <1>9
<1>11. Trimmed(u)
  <2>1. SUFFICES ASSUME u # << >> PROVE u[k].left > 0
    BY <1>10 DEF Trimmed
  <2>2. k # 0
    BY <1>10, <2>1, EmptySeq DEF Stacks
  <2>3. s[k].left > 0
    BY <1>5, <1>5a, <1>6, <1>7, <2>2
  <2>4. u[k] = s[k]
    BY <1>10, <2>2
  <2> QED BY <2>3, <2>4
<1>12. \A i \in 1..n : s[i].left > 0 => i <= k
  BY <1>4, <1>5a, <1>6, <1>7
<1> QED BY <1>1, <1>3, <1>7, <1>9, <1>10, <1>11, <1>12 DEF Trims

LEMMA UnfinishedTrimmed ==
  ASSUME NEW s \in Stacks, Trimmed(s)
  PROVE  Unfinished(s) = s
<1>1. PICK u : u = Unfinished(s) /\ Trims(s, u)
  BY UnfinishedFacts
<1>2. u \in Stacks /\ Len(u) \in Nat /\ Len(s) \in Nat /\ Len(u) <= Len(s)
  BY <1>1, LenProperties DEF Trims, Stacks
<1>3. Len(u) = Len(s)
  <2>1. CASE s = << >>
    BY <1>2, <2>1, EmptySeq DEF Stacks
  <2>2. CASE s # << >>
    <3>1. PICK n \in Nat \ {0} : n = Len(s)
      BY <2>2, EmptySeq DEF Stacks
    <3>2. s[n].left > 0
      BY <2>2, <3>1 DEF Trimmed
    <3>3. n <= Len(u)
      BY <1>1, <3>1, <3>2 DEF Trims
    <3> QED BY <1>2, <3>1, <3>3
  <2> QED BY <2>1, <2>2
<1>4. \A i \in 1..Len(u) : u[i] = s[i]
  BY <1>1 DEF Trims
<1> QED BY <1>1, <1>2, <1>3, <1>4, SeqEqual DEF Stacks

\* has_pending_items says whether the finished levels are all there is.
LEMMA PendingFacts ==
  ASSUME levels \in Stacks
  PROVE  Pending <=> Unfinished(levels) # << >>
<1>1. PICK u : u = Unfinished(levels) /\ Trims(levels, u)
  BY UnfinishedFacts
<1>2. PICK n \in Nat, k \in Nat : n = Len(levels) /\ k = Len(u) /\ k <= n /\ DOMAIN levels = 1..n
  BY <1>1, LenProperties DEF Trims, Stacks
<1>3. u \in Stacks
  BY <1>1 DEF Trims
<1>4. ASSUME Pending PROVE u # << >>
  <2>1. PICK i \in 1..n : levels[i].left > 0
    BY <1>2, <1>4 DEF Pending
  <2>2. i <= k
    BY <1>1, <1>2, <2>1 DEF Trims
  <2>3. k # 0
    BY <2>1, <2>2
  <2>4. Len(<< >>) = 0
    BY EmptySeq
  <2> QED BY <1>2, <2>3, <2>4
<1>5. ASSUME u # << >> PROVE Pending
  <2>1. k \in 1..k /\ k \in 1..n
    BY <1>2, <1>3, <1>5, EmptySeq DEF Stacks
  <2>2. u[k].left > 0
    BY <1>1, <1>2, <1>5 DEF Trims, Trimmed
  <2>3. levels[k] = u[k]
    BY <1>1, <1>2, <2>1 DEF Trims
  <2> QED BY <1>2, <2>1, <2>2, <2>3 DEF Pending
<1> QED BY <1>1, <1>4, <1>5

LEMMA ChargedFacts ==
  ASSUME NEW s \in Stacks, Trimmed(s)
  PROVE  Charged(s) \in Stacks /\ Len(Charged(s)) = Len(s)
<1>1. CASE s = << >>
  BY <1>1 DEF Charged
<1>2. CASE s # << >>
  <2>1. PICK n \in Nat \ {0} : n = Len(s)
    BY <1>2, EmptySeq DEF Stacks
  <2>2. s[n] \in AnyLevel /\ s[n].left > 0 /\ n \in 1..Len(s)
    BY <1>2, <2>1, ElementOfSeq DEF Stacks, Trimmed
  <2>3. PICK e : e = [s[n] EXCEPT !.left = @ - 1]
    OBVIOUS
  <2>4. e \in AnyLevel
    BY <2>2, <2>3 DEF AnyLevel
  <2>5. Charged(s) = [s EXCEPT ![n] = e]
    BY <1>2, <2>1, <2>3 DEF Charged
  <2>6. [s EXCEPT ![n] = e] \in Seq(AnyLevel) /\ Len([s EXCEPT ![n] = e]) = Len(s)
    BY <2>2, <2>4, ExceptSeq DEF Stacks
  <2> QED BY <2>5, <2>6 DEF Stacks
<1> QED BY <1>1, <1>2

LEMMA OpenedFacts ==
  ASSUME NEW s \in Stacks, Trimmed(s), NEW item \in AnyItem
  PROVE  Opened(s, item) \in Stacks /\ Trimmed(Opened(s, item))
<1>1. PICK c \in Stacks : c = Charged(s)
  BY ChargedFacts
<1>2. Level(item) \in AnyLevel
  BY DEF Level, AnyLevel, AnyItem
<1>3. Append(c, Level(item)) \in Stacks
  BY <1>2, AppendProperties DEF Stacks
<1>4. PICK t \in Stacks : t = IF IsContainer(item) THEN Append(c, Level(item)) ELSE c
  BY <1>3
<1>5. Opened(s, item) = Unfinished(t)
  BY <1>1, <1>4 DEF Opened
<1>6. Trims(t, Unfinished(t))
  BY UnfinishedFacts
<1> QED BY <1>5, <1>6 DEF Trims

-----------------------------------------------------------------------------
(* CborStream: the documents the callers write. *)

FlatItem == {item \in AnyItem : ~IsContainer(item)}

LEMMA ItemFacts ==
  ASSUME NEW n \in Nat, NEW w \in Nat
  PROVE  /\ Integer(n, w) \in FlatItem /\ Plain("text", n) \in FlatItem
         /\ Plain("simple", n) \in FlatItem /\ Plain("float", n) \in FlatItem
         /\ Plain("map", n) \in AnyItem /\ Plain("array", n) \in AnyItem
<1>1. Integer(n, w) \in AnyItem /\ ~IsContainer(Integer(n, w))
  BY DEF Integer, AnyItem, IsContainer, Kinds
<1>2. \A kind \in Kinds : Plain(kind, n) \in AnyItem /\ Plain(kind, n).kind = kind
  BY DEF Plain, AnyItem
<1>3. \A kind \in Kinds : kind \notin {"array", "map"} => Plain(kind, n) \in FlatItem
  BY <1>2 DEF FlatItem, IsContainer
<1>4. Integer(n, w) \in FlatItem
  BY <1>1 DEF FlatItem
<1>5. Plain("text", n) \in FlatItem /\ Plain("simple", n) \in FlatItem /\ Plain("float", n) \in FlatItem
  BY <1>3 DEF Kinds
<1>6. Plain("map", n) \in AnyItem /\ Plain("array", n) \in AnyItem
  BY <1>2 DEF Kinds
<1> QED BY <1>4, <1>5, <1>6

LEMMA ItemsFacts == Items \subseteq AnyItem
<1>1. WideArg \in Nat /\ Lengths \subseteq Nat /\ Counts \subseteq Nat
  BY StreamAssumption
<1>2. FlatItem \subseteq AnyItem
  BY DEF FlatItem
<1>3. \A n \in 0..1, w \in {0, WideArg} : Integer(n, w) \in AnyItem
  BY <1>1, <1>2, ItemFacts
<1>4. Plain("simple", 0) \in AnyItem /\ Plain("float", 2) \in AnyItem
  BY <1>2, ItemFacts
<1>5. \A n \in Lengths : Plain("text", n) \in AnyItem
  BY <1>1, <1>2, ItemFacts
<1>6. \A kind \in {"array", "map"}, n \in Counts : Plain(kind, n) \in AnyItem
  BY <1>1, ItemFacts
<1> QED BY <1>3, <1>4, <1>5, <1>6 DEF Items

\* The pairs of a map: its keys count up, its values are the caller's.
Paired(values, fields) ==
    /\ fields \in Seq(FlatItem) /\ Len(fields) = 2 * Len(values)
    /\ \A i \in 1..Len(values) : fields[2 * i - 1] = Integer(i - 1, 0) /\ fields[2 * i] = values[i]

LEMMA FieldsFacts ==
  ASSUME NEW values \in Seq(FlatItem)
  PROVE  Paired(values, Fields(values))
<1>1. PICK n \in Nat : n = Len(values) /\ \A i \in 1..n : values[i] \in FlatItem
  BY LenProperties
<1> DEFINE F(i) == IF i % 2 = 1 THEN Integer((i - 1) \div 2, 0) ELSE values[i \div 2]
<1>2. \A i \in 1..(2 * n) : F(i) \in FlatItem
  <2>1. SUFFICES ASSUME NEW i \in 1..(2 * n) PROVE F(i) \in FlatItem
    OBVIOUS
  <2>2. CASE i % 2 = 1
    <3>1. (i - 1) \div 2 \in Nat
      OBVIOUS
    <3> QED BY <2>2, <3>1, ItemFacts
  <2>3. CASE i % 2 # 1
    <3>1. i \div 2 \in 1..n
      BY <2>3
    <3> QED BY <1>1, <2>3, <3>1
  <2> QED BY <2>2, <2>3
<1>3. Fields(values) = [i \in 1..(2 * n) |-> F(i)]
  BY <1>1 DEF Fields
<1>4. \A i \in 1..n : F(2 * i - 1) = Integer(i - 1, 0) /\ F(2 * i) = values[i]
  <2>1. SUFFICES ASSUME NEW i \in 1..n PROVE F(2 * i - 1) = Integer(i - 1, 0) /\ F(2 * i) = values[i]
    OBVIOUS
  <2>2. (2 * i - 1) % 2 = 1 /\ (2 * i - 1 - 1) \div 2 = i - 1
    OBVIOUS
  <2>3. (2 * i) % 2 # 1 /\ (2 * i) \div 2 = i
    OBVIOUS
  <2> QED BY <2>2, <2>3
<1> HIDE DEF F
<1>5. PICK m \in Nat : m = 2 * n
  OBVIOUS
<1>6. [i \in 1..m |-> F(i)] \in [1..m -> FlatItem]
  BY <1>2, <1>5
<1>7. PICK f \in [1..m -> FlatItem] : f = [i \in 1..m |-> F(i)]
  BY <1>6
<1>8. f \in Seq(FlatItem) /\ Len(f) = m
  BY FunctionIsSeq
<1>9. f = Fields(values) /\ \A i \in 1..m : f[i] = F(i)
  BY <1>3, <1>5, <1>7
<1>10. \A i \in 1..n : f[2 * i - 1] = Integer(i - 1, 0) /\ f[2 * i] = values[i]
  <2>1. SUFFICES ASSUME NEW i \in 1..n PROVE f[2 * i - 1] = Integer(i - 1, 0) /\ f[2 * i] = values[i]
    OBVIOUS
  <2>2. 2 * i - 1 \in 1..m /\ 2 * i \in 1..m
    BY <1>5
  <2> QED BY <1>4, <1>9, <2>2
<1> QED BY <1>1, <1>5, <1>8, <1>9, <1>10 DEF Paired

LEMMA ConstantValues ==
  ASSUME NEW n \in Nat, NEW item \in FlatItem
  PROVE  [i \in 1..n |-> item] \in Seq(FlatItem) /\ Len([i \in 1..n |-> item]) = n
<1>1. PICK f \in [1..n -> FlatItem] : f = [i \in 1..n |-> item]
  OBVIOUS
<1>2. f \in Seq(FlatItem) /\ Len(f) = n
  BY FunctionIsSeq
<1> QED BY <1>1, <1>2

LEMMA NoteEventValues ==
  ASSUME NEW content \in Nat
  PROVE  \E values \in Seq(FlatItem) :
           /\ NoteEvent(content) = <<Plain("map", Len(values))>> \o Fields(values)
           /\ Len(values) = IF content = 0 THEN 3 ELSE 4
           /\ \A i \in 1..3 : values[i].kind = "int"
           /\ content # 0 => values[4] = Plain("text", content)
<1>1. PICK a \in FlatItem, b \in FlatItem, c \in FlatItem :
         a = Integer(1, 0) /\ b = Integer(2, WideArg) /\ c = Integer(3, WideArg)
  BY StreamAssumption, ItemFacts
<1>2. a.kind = "int" /\ b.kind = "int" /\ c.kind = "int"
  BY <1>1 DEF Integer
<1>3. PICK head : head = <<a, b, c>>
  OBVIOUS
<1>4. head \in Seq(FlatItem) /\ Len(head) = 3 /\ \A i \in 1..3 : head[i].kind = "int"
  BY <1>2, <1>3
<1>5. CASE content = 0
  <2>1. NoteEvent(content) = <<Plain("map", Len(head))>> \o Fields(head)
    BY <1>1, <1>3, <1>5 DEF NoteEvent
  <2> QED BY <1>4, <1>5, <2>1
<1>6. CASE content # 0
  <2>1. PICK t \in FlatItem : t = Plain("text", content)
    BY ItemFacts
  <2>2. /\ Append(head, t) \in Seq(FlatItem) /\ Len(Append(head, t)) = Len(head) + 1
        /\ \A i \in 1..Len(head) : Append(head, t)[i] = head[i]
        /\ Append(head, t)[Len(head) + 1] = t
    <3>1. head \in Seq(FlatItem)
      BY <1>4
    <3> HIDE <1>3
    <3> QED BY <3>1, AppendProperties
  <2>3. PICK values \in Seq(FlatItem) :
          /\ values = Append(head, t) /\ Len(values) = Len(head) + 1
          /\ \A i \in 1..Len(head) : values[i] = head[i]
          /\ values[Len(head) + 1] = t
    BY <2>2
  <2>4. Len(values) = 4 /\ values[4] = t /\ \A i \in 1..3 : values[i] = head[i]
    BY <1>4, <2>3
  <2>5. NoteEvent(content) = <<Plain("map", Len(values))>> \o Fields(values)
    BY <1>1, <1>3, <1>6, <2>1, <2>3 DEF NoteEvent
  <2> QED BY <1>4, <1>6, <2>1, <2>3, <2>4, <2>5
<1> QED BY <1>5, <1>6

Callers == {"note event", "page", "lenient", "any"}

\* What a caller sets out to write.
SetOut(who, todo) ==
    /\ who \in Callers
    /\ \E c \in Nat, rest \in Seq(FlatItem) :
          /\ todo = <<Plain("map", c)>> \o rest
          /\ Len(rest) = 2 * c \/ (who = "any" /\ rest = << >>)
    /\ who = "note event" => \E n \in Lengths : todo = NoteEvent(n)

LEMMA MapOfValues ==
  ASSUME NEW values \in Seq(FlatItem)
  PROVE  \E c \in Nat, rest \in Seq(FlatItem) :
           /\ <<Plain("map", Len(values))>> \o Fields(values) = <<Plain("map", c)>> \o rest
           /\ Len(rest) = 2 * c
<1>1. PICK f : f = Fields(values) /\ Paired(values, f)
  BY FieldsFacts
<1>2. PICK c : c = Len(values)
  OBVIOUS
<1>3. c \in Nat /\ f \in Seq(FlatItem) /\ Len(f) = 2 * c
  BY <1>1, <1>2, LenProperties DEF Paired
<1>4. <<Plain("map", Len(values))>> \o Fields(values) = <<Plain("map", c)>> \o f
  BY <1>1, <1>2
<1> QED BY <1>3, <1>4

LEMMA PlanFacts ==
  ASSUME NEW p \in Plans
  PROVE  SetOut(p.who, p.items)
<1> DEFINE Flat(todo) == \E c \in Nat, rest \in Seq(FlatItem) :
                            todo = <<Plain("map", c)>> \o rest /\ Len(rest) = 2 * c
<1>0. WideArg \in Nat /\ Lengths \subseteq Nat /\ Counts \subseteq Nat
  BY StreamAssumption
<1>1. \A n \in Lengths : Flat(NoteEvent(n))
  <2>1. SUFFICES ASSUME NEW n \in Lengths PROVE Flat(NoteEvent(n))
    OBVIOUS
  <2>2. PICK values \in Seq(FlatItem) : NoteEvent(n) = <<Plain("map", Len(values))>> \o Fields(values)
    BY <1>0, NoteEventValues
  <2> QED BY <2>2, MapOfValues
<1>2. \A n \in Counts : Flat(IntMap(n))
  <2>1. SUFFICES ASSUME NEW n \in Counts PROVE Flat(IntMap(n))
    OBVIOUS
  <2>2. PICK item \in FlatItem : item = Integer(1, WideArg)
    BY <1>0, ItemFacts
  <2>3. PICK values \in Seq(FlatItem) : values = [i \in 1..n |-> item] /\ Len(values) = n
    BY <1>0, ConstantValues
  <2>4. IntMap(n) = <<Plain("map", Len(values))>> \o Fields(values)
    BY <2>2, <2>3 DEF IntMap
  <2> QED BY <2>4, MapOfValues
<1>3. \A n \in Lengths : Flat(NotePayload(n)) /\ Flat(NoteIdPayload(n)) /\ Flat(NoteChanged(n))
  <2>1. SUFFICES ASSUME NEW n \in Lengths
                 PROVE  Flat(NotePayload(n)) /\ Flat(NoteIdPayload(n)) /\ Flat(NoteChanged(n))
    OBVIOUS
  <2>2. PICK item \in FlatItem, text \in FlatItem, simple \in FlatItem :
           item = Integer(1, WideArg) /\ text = Plain("text", n) /\ simple = Plain("simple", 0)
    BY <1>0, ItemFacts
  <2>3. PICK texts \in Seq(FlatItem) : texts = [i \in 1..3 |-> text] /\ Len(texts) = 3
    BY ConstantValues
  <2>4. Flat(NotePayload(n))
    <3>1. <<item>> \in Seq(FlatItem) /\ Len(<<item>>) = 1
      OBVIOUS
    <3>1a. texts \o <<item>> \in Seq(FlatItem) /\ Len(texts \o <<item>>) = Len(texts) + Len(<<item>>)
      BY <3>1, ConcatProperties
    <3>1b. Len(texts) + Len(<<item>>) = 4
      BY <2>3, <3>1
    <3>2. PICK values \in Seq(FlatItem) : values = texts \o <<item>> /\ Len(values) = 4
      BY <3>1b, <3>1a
    <3>3. NotePayload(n) = <<Plain("map", Len(values))>> \o Fields(values)
      BY <2>2, <2>3, <3>2 DEF NotePayload
    <3> QED BY <3>3, MapOfValues
  <2>5. Flat(NoteIdPayload(n))
    <3>0. <<text, item>> \in Seq(FlatItem) /\ Len(<<text, item>>) = 2
      OBVIOUS
    <3>1. PICK values \in Seq(FlatItem) : values = <<text, item>> /\ Len(values) = 2
      BY <3>0
    <3>2. NoteIdPayload(n) = <<Plain("map", Len(values))>> \o Fields(values)
      BY <2>2, <3>1 DEF NoteIdPayload
    <3> QED BY <3>2, MapOfValues
  <2>6. Flat(NoteChanged(n))
    <3>1. <<item, simple>> \in Seq(FlatItem) /\ Len(<<item, simple>>) = 2
      OBVIOUS
    <3>1a. /\ texts \o <<item, simple>> \in Seq(FlatItem)
           /\ Len(texts \o <<item, simple>>) = Len(texts) + Len(<<item, simple>>)
      BY <3>1, ConcatProperties
    <3>1b. Len(texts) + Len(<<item, simple>>) = 5
      BY <2>3, <3>1
    <3>2. PICK values \in Seq(FlatItem) : values = texts \o <<item, simple>> /\ Len(values) = 5
      BY <3>1b, <3>1a
    <3>3. NoteChanged(n) = <<Plain("map", Len(values))>> \o Fields(values)
      BY <2>2, <2>3, <3>2 DEF NoteChanged
    <3> QED BY <3>3, MapOfValues
  <2> QED BY <2>4, <2>5, <2>6
<1>4. \A n \in Counts : \E c \in Nat, rest \in Seq(FlatItem) :
         <<Plain("map", n)>> = <<Plain("map", c)>> \o rest /\ rest = << >>
  <2>1. SUFFICES ASSUME NEW n \in Counts
                 PROVE  <<Plain("map", n)>> = <<Plain("map", n)>> \o << >>
    BY <1>0, EmptySeq
  <2>2. PICK item \in AnyItem : item = Plain("map", n)
    BY <1>0, ItemFacts
  <2>3. <<item>> \in Seq(AnyItem)
    OBVIOUS
  <2> QED BY <2>2, <2>3, ConcatEmptySeq
<1>5. \/ p.who = "note event" /\ \E n \in Lengths : p.items = NoteEvent(n)
      \/ p.who = "page" /\ \E n \in Counts : p.items = IntMap(n)
      \/ p.who = "page" /\ \E n \in Lengths : p.items = NotePayload(n) \/ p.items = NoteIdPayload(n)
      \/ p.who = "lenient" /\ \E n \in Lengths : p.items = NoteChanged(n)
      \/ p.who = "any" /\ \E n \in Counts : p.items = <<Plain("map", n)>>
  BY DEF Plans
<1>6. \/ Flat(p.items)
      \/ p.who = "any" /\ \E c \in Nat, rest \in Seq(FlatItem) :
                             p.items = <<Plain("map", c)>> \o rest /\ rest = << >>
  <2> HIDE DEF Flat
  <2> QED BY <1>1, <1>2, <1>3, <1>4, <1>5
<1>7. p.who \in Callers /\ (p.who = "note event" => \E n \in Lengths : p.items = NoteEvent(n))
  <2>1. p.who \in Callers
    BY <1>5 DEF Callers
  <2>2. ASSUME p.who = "note event" PROVE \E n \in Lengths : p.items = NoteEvent(n)
    BY <1>5, <2>2
  <2> QED BY <2>1, <2>2
<1>8. \E c \in Nat, rest \in Seq(FlatItem) :
         /\ p.items = <<Plain("map", c)>> \o rest
         /\ Len(rest) = 2 * c \/ (p.who = "any" /\ rest = << >>)
  BY <1>6
<1> QED BY <1>7, <1>8 DEF SetOut

\* cbor_decode_note_event on what cbor_encode_note_event wrote.
LEMMA NoteEventReading ==
  ASSUME NEW n \in Lengths, items = NoteEvent(n), doc = NoteEvent(n)
  PROVE  /\ \A key \in 0..2 : NoteEventRead(key, "int") = <<doc[2 * key + 3]>>
         /\ NoteEventRead(3, "text") = SubSeq(doc, 9, Len(doc))
<1>0. n \in Nat
  BY StreamAssumption
<1>0a. "int" \in Kinds /\ "text" \in Kinds
  BY DEF Kinds
<1>1. PICK values \in Seq(FlatItem) :
         /\ NoteEvent(n) = <<Plain("map", Len(values))>> \o Fields(values)
         /\ Len(values) = IF n = 0 THEN 3 ELSE 4
         /\ \A i \in 1..3 : values[i].kind = "int"
         /\ n # 0 => values[4] = Plain("text", n)
  BY <1>0, NoteEventValues
<1>2. PICK c \in 3..4 : c = Len(values) /\ (n = 0 <=> c = 3)
  BY <1>1
<1>3. PICK f : f = Fields(values) /\ Paired(values, f)
  BY FieldsFacts
<1>4. PICK d \in Seq(AnyItem) :
         d = doc /\ Len(d) = 1 + 2 * c /\ \A j \in 1..(2 * c) : d[j + 1] = f[j]
  <2>1. PICK root \in AnyItem : root = Plain("map", c)
    BY <1>2, ItemFacts
  <2>2. f \in Seq(AnyItem) /\ Len(f) = 2 * c
    <3>1. FlatItem \subseteq AnyItem
      BY DEF FlatItem
    <3>2. f \in Seq(FlatItem) /\ Len(f) = 2 * c
      BY <1>2, <1>3 DEF Paired
    <3> QED BY <3>1, <3>2, SeqMonotonic
  <2>3. <<root>> \in Seq(AnyItem) /\ Len(<<root>>) = 1
    OBVIOUS
  <2>4. /\ <<root>> \o f \in Seq(AnyItem) /\ Len(<<root>> \o f) = Len(<<root>>) + Len(f)
        /\ \A i \in 1..(Len(<<root>>) + Len(f)) :
              (<<root>> \o f)[i] = IF i <= Len(<<root>>) THEN <<root>>[i] ELSE f[i - Len(<<root>>)]
    BY <2>2, <2>3, ConcatProperties
  <2>5. PICK d \in Seq(AnyItem) : d = <<root>> \o f
    BY <2>4
  <2>6. Len(d) = 1 + 2 * c /\ \A i \in 1..(1 + 2 * c) : d[i] = IF i <= 1 THEN <<root>>[i] ELSE f[i - 1]
    BY <2>2, <2>3, <2>4, <2>5
  <2>7. \A j \in 1..(2 * c) : d[j + 1] = f[j]
    <3>1. SUFFICES ASSUME NEW j \in 1..(2 * c) PROVE d[j + 1] = f[j]
      OBVIOUS
    <3>2. PICK i \in 1..(1 + 2 * c) : i = j + 1 /\ ~(i <= 1) /\ i - 1 = j
      OBVIOUS
    <3>3. d[i] = f[i - 1]
      BY <2>6, <3>2
    <3> QED BY <3>2, <3>3
  <2>8. d = doc
    BY <1>1, <1>2, <1>3, <2>1, <2>5
  <2> QED BY <2>6, <2>7, <2>8
<1>5. \A i \in 1..c : d[2 * i] = Integer(i - 1, 0) /\ d[2 * i + 1] = values[i]
  <2>1. SUFFICES ASSUME NEW i \in 1..c PROVE d[2 * i] = Integer(i - 1, 0) /\ d[2 * i + 1] = values[i]
    OBVIOUS
  <2>2. PICK j \in 1..(2 * c), k \in 1..(2 * c) : j = 2 * i - 1 /\ k = 2 * i /\ j + 1 = 2 * i
    OBVIOUS
  <2>3. d[j + 1] = f[j] /\ d[k + 1] = f[k]
    BY <1>4
  <2>4. f[2 * i - 1] = Integer(i - 1, 0) /\ f[2 * i] = values[i]
    BY <1>2, <1>3 DEF Paired
  <2> QED BY <2>2, <2>3, <2>4
<1> DEFINE Hits(key, kind) == {i \in 1..(Len(items) - 1) \div 2 :
                                  items[2 * i] = Integer(key, 0) /\ items[2 * i + 1].kind = kind}
<1>6. d = items /\ (Len(items) - 1) \div 2 = c
  <2>1. d = items
    BY <1>4
  <2>2. (1 + 2 * c - 1) \div 2 = c
    OBVIOUS
  <2> QED BY <1>4, <2>1, <2>2
<1>7. \A key \in 0..3, kind \in Kinds : Hits(key, kind) = {i \in 1..c : i - 1 = key /\ values[i].kind = kind}
  <2>1. SUFFICES ASSUME NEW key \in 0..3, NEW kind \in Kinds
                 PROVE  Hits(key, kind) = {i \in 1..c : i - 1 = key /\ values[i].kind = kind}
    OBVIOUS
  <2>2. Hits(key, kind) = {i \in 1..c : d[2 * i] = Integer(key, 0) /\ d[2 * i + 1].kind = kind}
    BY <1>6
  <2>3. \A i \in 1..c : d[2 * i] = Integer(key, 0) <=> i - 1 = key
    <3>1. SUFFICES ASSUME NEW i \in 1..c PROVE d[2 * i] = Integer(key, 0) <=> i - 1 = key
      OBVIOUS
    <3>2. PICK a : a = i - 1
      OBVIOUS
    <3>3. d[2 * i] = Integer(a, 0)
      BY <1>5, <3>2
    <3>4. Integer(a, 0).n = a /\ Integer(key, 0).n = key
      BY DEF Integer
    <3> QED BY <3>2, <3>3, <3>4
  <2>4. \A i \in 1..c : d[2 * i + 1].kind = values[i].kind
    BY <1>5
  <2> QED BY <2>2, <2>3, <2>4
<1>8. \A key \in 0..3, kind \in Kinds, h \in 1..c : Hits(key, kind) = {h} => NoteEventRead(key, kind) = <<d[2 * h + 1]>>
  <2>1. SUFFICES ASSUME NEW key \in 0..3, NEW kind \in Kinds, NEW h \in 1..c, Hits(key, kind) = {h}
                 PROVE  NoteEventRead(key, kind) = <<d[2 * h + 1]>>
    OBVIOUS
  <2>2. (CHOOSE i \in {h} : \A j \in {h} : j <= i) = h
    OBVIOUS
  <2>3. NoteEventRead(key, kind) =
          IF Hits(key, kind) = {} THEN << >>
          ELSE <<items[2 * (CHOOSE i \in Hits(key, kind) : \A j \in Hits(key, kind) : j <= i) + 1]>>
    BY DEF NoteEventRead
  <2> HIDE DEF Hits
  <2> QED BY <1>6, <2>1, <2>2, <2>3
<1>9. \A key \in 0..2 : NoteEventRead(key, "int") = <<doc[2 * key + 3]>>
  <2>1. SUFFICES ASSUME NEW key \in 0..2 PROVE NoteEventRead(key, "int") = <<doc[2 * key + 3]>>
    OBVIOUS
  <2>2. PICK h \in 1..3 : h = key + 1 /\ h \in 1..c /\ 2 * h + 1 = 2 * key + 3
    OBVIOUS
  <2>3. values[h].kind = "int"
    BY <1>1
  <2>4. Hits(key, "int") = {h}
    <3> HIDE DEF Hits
    <3>0. key \in 0..3
      OBVIOUS
    <3>1. Hits(key, "int") = {i \in 1..c : i - 1 = key /\ values[i].kind = "int"}
      BY <1>0a, <1>7, <3>0
    <3>2. \A i \in 1..c : i - 1 = key <=> i = h
      BY <2>2
    <3>3. h \in 1..c
      BY <2>2
    <3> QED BY <2>3, <3>1, <3>2, <3>3
  <2>5. NoteEventRead(key, "int") = <<d[2 * h + 1]>>
    <3> HIDE DEF Hits
    <3>0. key \in 0..3
      OBVIOUS
    <3> QED BY <1>0a, <1>8, <2>2, <2>4, <3>0
  <2> QED BY <1>4, <2>2, <2>5
<1>10. NoteEventRead(3, "text") = SubSeq(doc, 9, Len(doc))
  <2>0. 3 \in 0..3
    OBVIOUS
  <2>1. Hits(3, "text") = {i \in 1..c : i - 1 = 3 /\ values[i].kind = "text"}
    <3> HIDE DEF Hits
    <3> QED BY <1>0a, <1>7, <2>0
  <2>2. CASE c = 3
    <3>1. Hits(3, "text") = {}
      <4> HIDE DEF Hits
      <4> QED BY <2>1, <2>2
    <3>2. NoteEventRead(3, "text") = << >>
      BY <3>1 DEF NoteEventRead
    <3>3. Len(d) = 7
      BY <1>4, <2>2
    <3>4. SubSeq(d, 9, 7) = << >>
      BY SubSeqEmpty
    <3> QED BY <1>4, <3>2, <3>3, <3>4
  <2>3. CASE c = 4
    <3>1. values[4].kind = "text"
      BY <1>1, <1>2, <2>3 DEF Plain
    <3>2. Hits(3, "text") = {4}
      <4> HIDE DEF Hits
      <4>1. \A i \in 1..c : i - 1 = 3 <=> i = 4
        OBVIOUS
      <4>2. 4 \in 1..c
        BY <2>3
      <4> QED BY <2>1, <3>1, <4>1, <4>2
    <3>3. NoteEventRead(3, "text") = <<d[9]>>
      <4> HIDE DEF Hits
      <4>1. 4 \in 1..c /\ 2 * 4 + 1 = 9
        BY <2>3
      <4> QED BY <1>0a, <1>8, <2>0, <3>2, <4>1
    <3>4. Len(d) = 9
      BY <1>4, <2>3
    <3>5. /\ SubSeq(d, 9, 9) \in Seq(AnyItem) /\ Len(SubSeq(d, 9, 9)) = 1
          /\ SubSeq(d, 9, 9)[1] = d[9]
      <4>1. \A i \in 9..9 : d[i] \in AnyItem
        <5>1. \A i \in 1..Len(d) : d[i] \in AnyItem
          BY ElementOfSeq
        <5> QED BY <3>4, <5>1
      <4>2. /\ SubSeq(d, 9, 9) \in Seq(AnyItem)
            /\ Len(SubSeq(d, 9, 9)) = IF 9 <= 9 THEN 9 - 9 + 1 ELSE 0
            /\ \A i \in 1..(9 - 9 + 1) : SubSeq(d, 9, 9)[i] = d[9 + i - 1]
        BY <4>1, SubSeqProperties
      <4> QED BY <4>2
    <3>6. PICK s \in Seq(AnyItem) : s = SubSeq(d, 9, 9) /\ Len(s) = 1 /\ s[1] = d[9]
      BY <3>5
    <3>7. s = <<s[1]>>
      <4>1. PICK e : e = s[1]
        OBVIOUS
      <4>2. e \in AnyItem
        BY <3>6, <4>1, ElementOfSeq
      <4>2a. <<e>> \in Seq(AnyItem) /\ Len(<<e>>) = 1 /\ <<e>>[1] = e
        BY <4>2
      <4>3. PICK t \in Seq(AnyItem) : t = <<e>> /\ Len(t) = 1 /\ t[1] = e
        BY <4>2a
      <4>4. Len(s) = Len(t) /\ \A i \in 1..Len(s) : s[i] = t[i]
        BY <3>6, <4>1, <4>3
      <4>5. s = t
        BY <4>4, SeqEqual
      <4> QED BY <4>1, <4>3, <4>5
    <3> QED BY <1>4, <3>3, <3>4, <3>6, <3>7
  <2> QED BY <2>2, <2>3
<1> QED BY <1>9, <1>10

-----------------------------------------------------------------------------
(* CborStream: the invariant.  The first m items of the document were written  *)
(* whole: item i ends at p[i], and o[i] is what it left open.  The decoder     *)
(* stands at the end of one of them.  m is the whole document until an item is *)
(* refused; that one starts in the buffer without fitting, or the buffer ended *)
(* where it should have started, under a level that still waits for it.        *)

Oddity == {"string key", "other key", "too deep"}
Endings == {"given up", "Truncated", "StringKeyInCompactMode", "read"}

StreamTypes ==
    /\ caller \in Callers /\ room \in Nat \ {0}
    /\ out \in Seq(StreamUnits) /\ Len(out) <= room
    /\ doc \in Seq(AnyItem) /\ open \in Stacks /\ Trimmed(open)
    /\ refused \in BOOLEAN /\ oddities \in SUBSET Oddity
    /\ levels \in Stacks /\ items \in Seq(AnyItem)
    /\ outcome \in {"writing", "reading"} \cup Endings

Phases ==
    /\ outcome \in {"writing", "given up"} => at = 0 /\ items = << >> /\ levels = << >>
    /\ outcome = "read" => at >= Len(out)
    /\ outcome \in {"given up", "Truncated"} => refused
    /\ outcome = "StringKeyInCompactMode" => refused \/ ~(oddities \subseteq {"other key"})
    /\ outcome \notin {"writing", "given up"} => plan = << >>

PlanLeft ==
    /\ plan \in Seq(AnyItem)
    /\ doc = << >> => SetOut(caller, plan) /\ open = << >> /\ ~refused
    /\ doc # << >> /\ plan # << >> =>
          plan \in Seq(FlatItem) /\ open = <<[map |-> TRUE, left |-> Len(plan)]>>
    /\ caller = "note event" => \E n \in Lengths : doc \o plan = NoteEvent(n)

\* d the document, u the units, m, p and o as above.
Chain(d, u, m, p, o) ==
    /\ m \in 0..Len(d) /\ p \in [0..m -> Nat] /\ o \in [0..m -> Stacks]
    /\ p[0] = 0 /\ o[0] = << >>
    /\ \A i \in 0..m : Trimmed(o[i])
    /\ \A i \in 1..m : /\ p[i] = p[i - 1] + Size(d[i])
                       /\ o[i] = Opened(o[i - 1], d[i])
                       /\ u[p[i - 1] + 1] = <<"head", d[i]>>
    /\ \A i, j \in 0..m : i < j => p[i] < p[j]
    /\ p[m] <= Len(u)

Kept(d, u, s, m, p, o) == m = Len(d) /\ p[m] = Len(u) /\ s = o[m]

Lost(d, u, r, m, p, o) ==
    /\ m < Len(d) /\ p[m] + Size(d[m + 1]) > r
    /\ \/ p[m] < Len(u) /\ u[p[m] + 1] = <<"head", d[m + 1]>>
       \/ p[m] = Len(u) /\ Len(u) = r /\ o[m] # << >>

Shallow(d, m, o) == \A i \in 1..m : IsContainer(d[i]) => Len(o[i - 1]) < MaxNesting
Keyed(d, m, o) == \A i \in 1..m : d[i].kind = "text" => ~TopIsKey(o[i - 1])

\* The decoder after k items.
ReadUpTo(k, p, o) ==
    /\ k = Len(items) /\ at = p[k] /\ \A i \in 1..k : items[i] = doc[i]
    /\ "too deep" \notin oddities => Unfinished(levels) = o[k]

WrittenAs(m, p, o) ==
    /\ Chain(doc, out, m, p, o)
    /\ ~refused => Kept(doc, out, open, m, p, o)
    /\ refused => Lost(doc, out, room, m, p, o)
    /\ "too deep" \notin oddities => Shallow(doc, m, o)
    /\ "string key" \notin oddities => Keyed(doc, m, o)

Coded == \E m \in Nat : \E p, o : WrittenAs(m, p, o) /\ \E k \in 0..m : ReadUpTo(k, p, o)

StreamInv == StreamTypes /\ Phases /\ PlanLeft /\ Coded

LEMMA StreamInvInit == StreamInit => StreamInv
<1>1. SUFFICES ASSUME StreamInit PROVE StreamInv
  OBVIOUS
<1>2. PICK pl \in Plans : caller = pl.who /\ plan = pl.items
  BY <1>1 DEF StreamInit
<1>3. SetOut(caller, plan)
  BY <1>2, PlanFacts
<1>4. room \in Nat \ {0}
  BY <1>1, StreamAssumption DEF StreamInit
<1>5. /\ out = << >> /\ doc = << >> /\ open = << >> /\ refused = FALSE /\ oddities = {}
      /\ at = 0 /\ levels = << >> /\ items = << >> /\ outcome = "writing"
  BY <1>1 DEF StreamInit
<1>6. /\ << >> \in Seq(StreamUnits) /\ << >> \in Seq(AnyItem) /\ << >> \in Stacks /\ Len(<< >>) = 0
  BY EmptySeq DEF Stacks
<1>7. Trimmed(<< >>)
  BY DEF Trimmed
<1>8. StreamTypes
  <2>1. caller \in Callers
    BY <1>3 DEF SetOut
  <2>2. out \in Seq(StreamUnits) /\ Len(out) <= room
    BY <1>4, <1>5, <1>6
  <2>3. doc \in Seq(AnyItem) /\ items \in Seq(AnyItem) /\ open \in Stacks /\ levels \in Stacks /\ Trimmed(open)
    BY <1>5, <1>6, <1>7
  <2>4. refused \in BOOLEAN /\ oddities \in SUBSET Oddity /\ outcome \in {"writing", "reading"} \cup Endings
    BY <1>5
  <2> QED BY <1>4, <2>1, <2>2, <2>3, <2>4 DEF StreamTypes
<1>9. Phases
  BY <1>5 DEF Phases
<1>10. PICK c \in Nat, rest \in Seq(FlatItem) : plan = <<Plain("map", c)>> \o rest
  BY <1>3 DEF SetOut
<1>11. plan \in Seq(AnyItem)
  <2>1. PICK root \in AnyItem : root = Plain("map", c)
    BY ItemFacts
  <2>2. FlatItem \subseteq AnyItem
    BY DEF FlatItem
  <2>3. rest \in Seq(AnyItem)
    BY <2>2, SeqMonotonic
  <2>4. <<root>> \in Seq(AnyItem)
    OBVIOUS
  <2>5. <<root>> \o rest \in Seq(AnyItem)
    BY <2>3, <2>4, ConcatProperties
  <2> QED BY <1>10, <2>1, <2>5
<1>12. PlanLeft
  <2>1. doc \o plan = plan
    BY <1>5, <1>11, ConcatEmptySeq
  <2>2. caller = "note event" => \E n \in Lengths : plan = NoteEvent(n)
    BY <1>3 DEF SetOut
  <2> QED BY <1>3, <1>5, <1>11, <2>1, <2>2 DEF PlanLeft
<1>13. Coded
  <2>1. PICK p \in [0..0 -> Nat], o \in [0..0 -> Stacks] : p[0] = 0 /\ o[0] = << >>
    <3>1. [i \in 0..0 |-> 0] \in [0..0 -> Nat] /\ [i \in 0..0 |-> 0][0] = 0
      OBVIOUS
    <3>2. [i \in 0..0 |-> << >>] \in [0..0 -> Stacks] /\ [i \in 0..0 |-> << >>][0] = << >>
      BY <1>6
    <3> QED BY <3>1, <3>2
  <2>2. \A i \in 0..0 : i = 0
    OBVIOUS
  <2>3. \A i \in 1..0 : FALSE
    OBVIOUS
  <2>4. Chain(doc, out, 0, p, o)
    <3>1. \A i, j \in 0..0 : i < j => FALSE
      OBVIOUS
    <3>2. 0 \in 0..Len(doc) /\ p[0] <= Len(out)
      BY <1>5, <1>6, <2>1
    <3>3. \A i \in 0..0 : Trimmed(o[i])
      BY <1>7, <2>1, <2>2
    <3> QED BY <2>1, <2>3, <3>1, <3>2, <3>3 DEF Chain
  <2>5. Kept(doc, out, open, 0, p, o)
    BY <1>5, <1>6, <2>1 DEF Kept
  <2>6. Shallow(doc, 0, o) /\ Keyed(doc, 0, o)
    BY <2>3 DEF Shallow, Keyed
  <2>7. WrittenAs(0, p, o)
    BY <1>5, <2>4, <2>5, <2>6 DEF WrittenAs
  <2>8. Unfinished(<< >>) = << >>
    BY <1>6, <1>7, UnfinishedTrimmed
  <2>9. ReadUpTo(0, p, o)
    BY <1>5, <1>6, <2>1, <2>3, <2>8 DEF ReadUpTo
  <2>10. 0 \in Nat /\ 0 \in 0..0
    OBVIOUS
  <2> QED BY <2>7, <2>9, <2>10 DEF Coded
<1> QED BY <1>8, <1>9, <1>12, <1>13 DEF StreamInv

-----------------------------------------------------------------------------
(* CborStream: the writer's steps. *)

\* A longer buffer under a longer document changes nothing for the items before.
Extends(S, a, b) == b \in Seq(S) /\ Len(a) <= Len(b) /\ \A i \in 1..Len(a) : b[i] = a[i]

LEMMA ChainExtends ==
  ASSUME NEW d \in Seq(AnyItem), NEW u \in Seq(StreamUnits), NEW m \in Nat, NEW p, NEW o,
         NEW d2 \in Seq(AnyItem), NEW u2 \in Seq(StreamUnits),
         Chain(d, u, m, p, o), Extends(AnyItem, d, d2), Extends(StreamUnits, u, u2)
  PROVE  Chain(d2, u2, m, p, o) /\ \A i \in 1..m : d2[i] = d[i]
<1>1. PICK n \in Nat, n2 \in Nat, l \in Nat, l2 \in Nat :
         n = Len(d) /\ n2 = Len(d2) /\ l = Len(u) /\ l2 = Len(u2)
  BY LenProperties
<1>2. n <= n2 /\ l <= l2 /\ (\A i \in 1..n : d2[i] = d[i]) /\ (\A i \in 1..l : u2[i] = u[i])
  BY <1>1 DEF Extends
<1>3. m \in 0..n /\ p[m] <= l /\ p \in [0..m -> Nat]
  BY <1>1 DEF Chain
<1>4. \A i \in 1..m : d2[i] = d[i]
  <2>1. m \in 0..n
    BY <1>3
  <2>2. \A i \in 1..m : i \in 1..n
    BY <2>1
  <2> QED BY <1>2, <2>2
<1>5. \A i \in 0..m : p[i] <= p[m]
  <2>1. SUFFICES ASSUME NEW i \in 0..m PROVE p[i] <= p[m]
    OBVIOUS
  <2>2. m \in 0..m /\ (i = m \/ i < m)
    OBVIOUS
  <2>3. i < m => p[i] < p[m]
    BY <2>2 DEF Chain
  <2>4. p[i] \in Nat /\ p[m] \in Nat
    BY <1>3, <2>2
  <2> QED BY <2>2, <2>3, <2>4
<1>6. \A i \in 1..m : u2[p[i - 1] + 1] = u[p[i - 1] + 1]
  <2>1. SUFFICES ASSUME NEW i \in 1..m PROVE u2[p[i - 1] + 1] = u[p[i - 1] + 1]
    OBVIOUS
  <2>2. i - 1 \in 0..m /\ i \in 0..m /\ m \in 0..m /\ i - 1 < i
    OBVIOUS
  <2>3. p[i - 1] < p[i] /\ p[i] <= p[m]
    BY <1>5, <2>2 DEF Chain
  <2>3a. p[i - 1] \in Nat /\ p[i] \in Nat /\ p[m] \in Nat
    BY <1>3, <2>2
  <2>4. PICK a \in Nat, b \in Nat, c \in Nat : a = p[i - 1] /\ b = p[i] /\ c = p[m]
    BY <2>3a
  <2>5. a + 1 \in 1..l
    <3>1. a < b /\ b <= c /\ c <= l
      BY <1>3, <2>3, <2>4
    <3> QED BY <3>1
  <2>6. u2[a + 1] = u[a + 1]
    BY <1>2, <2>5
  <2> QED BY <2>4, <2>6
<1>7. m \in 0..n2 /\ p[m] <= l2
  <2>1. p[m] \in Nat
    BY <1>3
  <2> QED BY <1>2, <1>3, <2>1
<1>8. \A i \in 1..m : /\ p[i] = p[i - 1] + Size(d2[i])
                      /\ o[i] = Opened(o[i - 1], d2[i])
                      /\ u2[p[i - 1] + 1] = <<"head", d2[i]>>
  BY <1>4, <1>6 DEF Chain
<1> QED BY <1>1, <1>4, <1>7, <1>8 DEF Chain

\* The chain over one more item, written whole.
Continues(d, u, n, p, o, item, e) ==
    /\ d \in Seq(AnyItem) /\ u \in Seq(StreamUnits) /\ n \in Nat /\ item \in AnyItem /\ e \in Nat
    /\ n + 1 = Len(d) /\ item = d[n + 1] /\ Chain(d, u, n, p, o)
    /\ e = p[n] + Size(item) /\ e <= Len(u) /\ u[p[n] + 1] = <<"head", item>>

LEMMA ChainGrows ==
  ASSUME NEW d, NEW u, NEW n, NEW p, NEW o, NEW item, NEW e, Continues(d, u, n, p, o, item, e)
  PROVE  \E p2, o2 : /\ Chain(d, u, n + 1, p2, o2)
                     /\ p2[n + 1] = e /\ o2[n + 1] = Opened(o[n], item)
                     /\ \A i \in 0..n : p2[i] = p[i] /\ o2[i] = o[i]
<1> USE DEF Continues
<1>1. PICK s \in Stacks : s = Opened(o[n], item) /\ Trimmed(s)
  <2>1. o[n] \in Stacks /\ Trimmed(o[n])
    BY DEF Chain
  <2> QED BY <2>1, OpenedFacts
<1>2. PICK p2, o2 : /\ p2 = [i \in 0..(n + 1) |-> IF i = n + 1 THEN e ELSE p[i]]
                    /\ o2 = [i \in 0..(n + 1) |-> IF i = n + 1 THEN s ELSE o[i]]
  OBVIOUS
<1>3. p2[n + 1] = e /\ o2[n + 1] = s /\ \A i \in 0..n : p2[i] = p[i] /\ o2[i] = o[i]
  <2>1. n + 1 \in 0..(n + 1) /\ \A i \in 0..n : i \in 0..(n + 1) /\ i # n + 1
    OBVIOUS
  <2> QED BY <1>2, <2>1
<1>4. \A i \in 0..(n + 1) : i = n + 1 \/ i \in 0..n
  OBVIOUS
<1>5. p \in [0..n -> Nat] /\ o \in [0..n -> Stacks] /\ p[0] = 0 /\ o[0] = << >>
  BY DEF Chain
<1>6. p2 \in [0..(n + 1) -> Nat] /\ o2 \in [0..(n + 1) -> Stacks]
  <2>1. \A i \in 0..(n + 1) : p2[i] \in Nat /\ o2[i] \in Stacks
    BY <1>3, <1>4, <1>5
  <2> QED BY <1>2, <2>1
<1>7. p2[0] = 0 /\ o2[0] = << >>
  <2>1. 0 \in 0..n
    OBVIOUS
  <2> QED BY <1>3, <1>5, <2>1
<1>8. \A i \in 0..(n + 1) : Trimmed(o2[i])
  BY <1>1, <1>3, <1>4 DEF Chain
<1>9. \A i \in 1..(n + 1) : /\ p2[i] = p2[i - 1] + Size(d[i])
                            /\ o2[i] = Opened(o2[i - 1], d[i])
                            /\ u[p2[i - 1] + 1] = <<"head", d[i]>>
  <2>1. SUFFICES ASSUME NEW i \in 1..(n + 1)
                 PROVE  /\ p2[i] = p2[i - 1] + Size(d[i])
                        /\ o2[i] = Opened(o2[i - 1], d[i])
                        /\ u[p2[i - 1] + 1] = <<"head", d[i]>>
    OBVIOUS
  <2>2. CASE i = n + 1
    <3>1. n \in 0..n /\ i - 1 = n
      BY <2>2
    <3>2. p2[i - 1] = p[n] /\ o2[i - 1] = o[n] /\ d[i] = item
      BY <1>3, <2>2, <3>1
    <3> QED BY <1>1, <1>3, <2>2, <3>2
  <2>3. CASE i # n + 1
    <3>1. i \in 1..n /\ i \in 0..n /\ i - 1 \in 0..n
      BY <2>3
    <3>2. p2[i - 1] = p[i - 1] /\ o2[i - 1] = o[i - 1] /\ p2[i] = p[i] /\ o2[i] = o[i]
      BY <1>3, <3>1
    <3>3. /\ p[i] = p[i - 1] + Size(d[i])
          /\ o[i] = Opened(o[i - 1], d[i])
          /\ u[p[i - 1] + 1] = <<"head", d[i]>>
      BY <3>1 DEF Chain
    <3> QED BY <3>2, <3>3
  <2> QED BY <2>2, <2>3
<1>10. \A i, j \in 0..(n + 1) : i < j => p2[i] < p2[j]
  <2>1. SUFFICES ASSUME NEW i \in 0..(n + 1), NEW j \in 0..(n + 1), i < j PROVE p2[i] < p2[j]
    OBVIOUS
  <2>2. CASE j = n + 1
    <3>1. i \in 0..n /\ n \in 0..n /\ (i = n \/ i < n)
      BY <2>1, <2>2
    <3>2. i < n => p[i] < p[n]
      BY <3>1 DEF Chain
    <3>3. PICK a \in Nat, b \in Nat : a = p[i] /\ b = p[n]
      BY <1>5, <3>1
    <3>4. a <= b
      BY <3>1, <3>2, <3>3
    <3>5. PICK z \in Nat \ {0} : z = Size(item)
      BY PartFacts
    <3>5a. e = b + z
      BY <3>3, <3>5
    <3>6. a < e
      BY <3>4, <3>5a
    <3> QED BY <1>3, <2>2, <3>1, <3>3, <3>6
  <2>3. CASE j # n + 1
    <3>1. i \in 0..n /\ j \in 0..n
      BY <2>1, <2>3
    <3>2. p[i] < p[j]
      BY <2>1, <3>1 DEF Chain
    <3> QED BY <1>3, <3>1, <3>2
  <2> QED BY <2>2, <2>3
<1>11. n + 1 \in 0..Len(d) /\ p2[n + 1] <= Len(u)
  <2>1. Len(d) \in Nat
    BY LenProperties
  <2>2. n + 1 \in 0..Len(d)
    BY <2>1
  <2> QED BY <1>3, <2>2
<1>12. Chain(d, u, n + 1, p2, o2)
  BY <1>6, <1>7, <1>8, <1>9, <1>10, <1>11 DEF Chain
<1> QED BY <1>1, <1>3, <1>12

\* What one call of the encoder changes.
Encoded(item) ==
    /\ out' = Written(out, item) /\ doc' = Append(doc, item) /\ open' = Opened(open, item)
    /\ WroteInto(out, item, out') /\ WroteAll(out, item, out')
    /\ oddities' = oddities \cup Oddities(item)
    /\ LET whole == out \o Parts(item)[1] \o Parts(item)[2] \o Parts(item)[3]
       IN /\ refused' = (refused \/ out' # whole)
          /\ outcome' = IF out' # whole /\ caller \in Strict THEN "given up" ELSE "writing"
    /\ UNCHANGED <<caller, room, at, levels, items>>

LEMMA EncodeFacts ==
  ASSUME StreamTypes, NEW item \in AnyItem, Encode(item)
  PROVE  outcome = "writing" /\ Encoded(item)
<1>1. outcome = "writing" /\ out' = Written(out, item) /\ doc' = Append(doc, item)
      /\ UNCHANGED <<caller, room, at, levels, items>>
  BY DEF Encode
<1>2. open' = Opened(open, item)
  BY DEF Encode, Opened
<1>3. oddities' = oddities \cup Oddities(item)
  BY DEF Encode
<1>4. LET whole == out \o Parts(item)[1] \o Parts(item)[2] \o Parts(item)[3]
      IN /\ refused' = (refused \/ out' # whole)
         /\ outcome' = IF out' # whole /\ caller \in Strict THEN "given up" ELSE "writing"
  BY <1>1 DEF Encode
<1>5. WroteInto(out, item, out') /\ WroteAll(out, item, out')
  <2>1. out \in Seq(StreamUnits) /\ room \in Nat /\ Len(out) <= room
    BY DEF StreamTypes
  <2>2. WroteInto(out, item, Written(out, item)) /\ WroteAll(out, item, Written(out, item))
    BY <2>1, WrittenFacts
  <2> QED BY <1>1, <2>2
<1> QED BY <1>1, <1>2, <1>3, <1>4, <1>5 DEF Encoded

LEMMA OdditiesFacts ==
  ASSUME NEW item \in AnyItem
  PROVE  /\ Oddities(item) \in SUBSET Oddity
         /\ "too deep" \notin Oddities(item) => (IsContainer(item) => ~(Len(open) >= MaxNesting))
         /\ "string key" \notin Oddities(item) => (item.kind = "text" => ~TopIsKey(open))
<1>1. Oddities(item) \in SUBSET Oddity
  BY DEF Oddities, Oddity
<1>2. IsContainer(item) /\ Len(open) >= MaxNesting => "too deep" \in Oddities(item)
  BY DEF Oddities
<1>3. item.kind = "text" /\ TopIsKey(open) => "string key" \in Oddities(item)
  BY DEF Oddities
<1> QED BY <1>1, <1>2, <1>3

LEMMA TypesOfEncode ==
  ASSUME StreamTypes, NEW item \in AnyItem, Encoded(item)
  PROVE  StreamTypes'
<1>1. caller' \in Callers /\ room' \in Nat \ {0}
  BY DEF Encoded, StreamTypes
<1>2. out' \in Seq(StreamUnits) /\ Len(out') <= room'
  BY DEF Encoded, WroteInto
<1>3. doc' \in Seq(AnyItem)
  BY AppendProperties DEF Encoded, StreamTypes
<1>4. open' \in Stacks /\ Trimmed(open')
  <2>1. open \in Stacks /\ Trimmed(open)
    BY DEF StreamTypes
  <2>2. open' = Opened(open, item)
    BY DEF Encoded
  <2> QED BY <2>1, <2>2, OpenedFacts
<1>5. refused' \in BOOLEAN /\ oddities' \in SUBSET Oddity
  <2>1. refused' \in BOOLEAN
    BY DEF Encoded, StreamTypes
  <2>2. oddities' = oddities \cup Oddities(item) /\ oddities \in SUBSET Oddity
    BY DEF Encoded, StreamTypes
  <2> QED BY <2>1, <2>2, OdditiesFacts
<1>6. levels' \in Stacks /\ items' \in Seq(AnyItem)
  BY DEF Encoded, StreamTypes
<1>7. outcome' \in {"writing", "reading"} \cup Endings
  BY DEF Encoded, Endings
<1> QED BY <1>1, <1>2, <1>3, <1>4, <1>5, <1>6, <1>7 DEF StreamTypes, Trimmed

LEMMA CodedByEncode ==
  ASSUME StreamTypes, Phases, Coded, outcome = "writing", NEW item \in AnyItem, Encoded(item),
         doc # << >> => open # << >>
  PROVE  Coded'
<1>0. PICK m \in Nat : \E p, o, k : k \in 0..m /\ WrittenAs(m, p, o) /\ ReadUpTo(k, p, o)
  BY DEF Coded
<1>1. PICK p, o, k : k \in 0..m /\ WrittenAs(m, p, o) /\ ReadUpTo(k, p, o)
  BY <1>0
<1>2. k = 0 /\ items = << >> /\ levels = << >> /\ at = 0
  <2>1. at = 0 /\ items = << >> /\ levels = << >>
    BY DEF Phases
  <2>2. k = Len(items) /\ Len(<< >>) = 0
    BY <1>1, EmptySeq DEF ReadUpTo
  <2> QED BY <2>1, <2>2
<1>3. PICK n \in Nat : n = Len(doc)
  BY LenProperties DEF StreamTypes
<1>4. /\ doc' \in Seq(AnyItem) /\ Len(doc') = n + 1 /\ doc'[n + 1] = item
      /\ \A i \in 1..n : doc'[i] = doc[i]
  <2>1. doc \in Seq(AnyItem) /\ doc' = Append(doc, item)
    BY DEF StreamTypes, Encoded
  <2> QED BY <1>3, <2>1, AppendProperties
<1>5. PICK l \in Nat, r \in Nat, l2 \in Nat : l = Len(out) /\ r = room /\ l <= r /\ r # 0
                                            /\ l2 = Len(out') /\ l <= l2 /\ l2 <= r
  <2>1. Len(out) \in Nat /\ room \in Nat /\ Len(out) <= room /\ room # 0
    BY LenProperties DEF StreamTypes
  <2>2. out' \in Seq(StreamUnits) /\ Len(out) <= Len(out') /\ Len(out') <= room
    BY DEF Encoded, WroteInto
  <2>3. Len(out') \in Nat
    BY <2>2, LenProperties
  <2> QED BY <2>1, <2>2, <2>3
<1>6. /\ out' \in Seq(StreamUnits) /\ \A i \in 1..l : out'[i] = out[i]
      /\ l < r => l < l2 /\ out'[l + 1] = <<"head", item>>
  BY <1>5 DEF Encoded, WroteInto
<1>7. Chain(doc, out, m, p, o)
  BY <1>1 DEF WrittenAs
<1>8. Chain(doc', out', m, p, o) /\ \A i \in 1..m : doc'[i] = doc[i]
  <2>1. Extends(AnyItem, doc, doc')
    BY <1>3, <1>4 DEF Extends
  <2>2. Extends(StreamUnits, out, out')
    BY <1>5, <1>6 DEF Extends
  <2>3. doc \in Seq(AnyItem) /\ out \in Seq(StreamUnits)
    BY DEF StreamTypes
  <2> QED BY <1>4, <1>6, <1>7, <2>1, <2>2, <2>3, ChainExtends
<1>9. /\ "too deep" \notin oddities' => "too deep" \notin oddities /\ "too deep" \notin Oddities(item)
      /\ "string key" \notin oddities' => "string key" \notin oddities /\ "string key" \notin Oddities(item)
  BY DEF Encoded
<1>10. /\ "too deep" \notin oddities' => Shallow(doc', m, o)
       /\ "string key" \notin oddities' => Keyed(doc', m, o)
  <2>1. /\ "too deep" \notin oddities' => Shallow(doc, m, o)
        /\ "string key" \notin oddities' => Keyed(doc, m, o)
    BY <1>1, <1>9 DEF WrittenAs
  <2>2. Shallow(doc, m, o) => Shallow(doc', m, o)
    BY <1>8 DEF Shallow
  <2>3. Keyed(doc, m, o) => Keyed(doc', m, o)
    BY <1>8 DEF Keyed
  <2> QED BY <2>1, <2>2, <2>3
<1>11. /\ 0 = Len(items') /\ at' = 0 /\ items' = << >> /\ levels' = << >> /\ room' = r
       /\ Unfinished(levels') = << >>
  <2>1. items' = << >> /\ levels' = << >> /\ at' = 0 /\ room' = r
    BY <1>2, <1>5 DEF Encoded
  <2>2. << >> \in Stacks /\ Trimmed(<< >>) /\ Len(<< >>) = 0
    BY EmptySeq DEF Stacks, Trimmed
  <2> QED BY <2>1, <2>2, UnfinishedTrimmed
<1>12. \A m2 \in Nat : \A p2, o2 : WrittenAs(m2, p2, o2)' => Coded'
  <2>1. SUFFICES ASSUME NEW m2 \in Nat, NEW p2, NEW o2, WrittenAs(m2, p2, o2)' PROVE Coded'
    OBVIOUS
  <2>2. Chain(doc', out', m2, p2, o2)
    BY <2>1 DEF WrittenAs
  <2>3. p2[0] = 0 /\ o2[0] = << >>
    BY <2>2 DEF Chain
  <2>4. \A i \in 1..0 : FALSE
    OBVIOUS
  <2>5. ReadUpTo(0, p2, o2)'
    BY <1>11, <2>3, <2>4 DEF ReadUpTo
  <2>6. 0 \in 0..m2
    OBVIOUS
  <2> QED BY <2>1, <2>5, <2>6 DEF Coded
<1>13. PICK z \in Nat \ {0} : z = Size(item)
  BY PartFacts
<1>14. PICK w : w = out \o Parts(item)[1] \o Parts(item)[2] \o Parts(item)[3]
  OBVIOUS
<1>15. /\ refused' = (refused \/ out' # w)
       /\ out' = w <=> l + z <= r
       /\ out' = w => l2 = l + z
  BY <1>5, <1>13, <1>14 DEF Encoded, WroteAll
<1>16. PICK q \in Nat : q = p[m] /\ q <= l
  <2>1. p[m] \in Nat /\ p[m] <= Len(out)
    BY <1>7 DEF Chain
  <2> QED BY <1>5, <2>1
<1>17. CASE refused
  <2>1. Lost(doc, out, room, m, p, o)
    BY <1>1, <1>17 DEF WrittenAs
  <2>2. /\ m < n /\ q + Size(doc[m + 1]) > r
        /\ \/ q < l /\ out[q + 1] = <<"head", doc[m + 1]>>
           \/ q = l /\ l = r /\ o[m] # << >>
    BY <1>3, <1>5, <1>16, <2>1 DEF Lost
  <2>3. doc'[m + 1] = doc[m + 1]
    <3>1. m + 1 \in 1..n
      BY <2>2
    <3> QED BY <1>4, <3>1
  <2>4. \/ q < l2 /\ out'[q + 1] = <<"head", doc'[m + 1]>>
        \/ q = l2 /\ l2 = r /\ o[m] # << >>
    <3>1. CASE q < l /\ out[q + 1] = <<"head", doc[m + 1]>>
      <4>1. q + 1 \in 1..l /\ q < l2
        BY <1>5, <3>1
      <4>2. out'[q + 1] = out[q + 1]
        BY <1>6, <4>1
      <4> QED BY <2>3, <3>1, <4>1, <4>2
    <3>2. CASE q = l /\ l = r /\ o[m] # << >>
      BY <1>5, <3>2
    <3> QED BY <2>2, <3>1, <3>2
  <2>5. m < n + 1 /\ q + Size(doc'[m + 1]) > r
    BY <2>2, <2>3
  <2>6. Lost(doc', out', room', m, p, o)
    BY <1>4, <1>5, <1>11, <1>16, <2>4, <2>5 DEF Lost
  <2>7. refused'
    BY <1>15, <1>17
  <2>8. WrittenAs(m, p, o)'
    BY <1>8, <1>10, <2>6, <2>7 DEF WrittenAs
  <2> QED BY <1>12, <2>8
<1>18. ASSUME ~refused PROVE m = n /\ q = l /\ open = o[n]
  <2>1. Kept(doc, out, open, m, p, o)
    BY <1>1, <1>18 DEF WrittenAs
  <2> QED BY <1>3, <1>5, <1>16, <2>1 DEF Kept
<1>19. CASE ~refused /\ out' # w
  <2>1. m = n /\ q = l /\ open = o[n]
    BY <1>18, <1>19
  <2>2. \/ q < l2 /\ out'[q + 1] = <<"head", doc'[m + 1]>>
        \/ q = l2 /\ l2 = r /\ o[m] # << >>
    <3>1. CASE l < r
      BY <1>4, <1>6, <2>1, <3>1
    <3>2. CASE ~(l < r)
      <4>1. l = r /\ l2 = r
        BY <1>5, <3>2
      <4>2. doc # << >>
        <5>1. SUFFICES ASSUME doc = << >> PROVE FALSE
          OBVIOUS
        <5>2. n = 0
          BY <1>3, <5>1, EmptySeq
        <5>3. p[0] = 0
          BY <1>7 DEF Chain
        <5>4. q = 0
          BY <1>16, <2>1, <5>2, <5>3
        <5> QED BY <1>5, <2>1, <4>1, <5>4
      <4> QED BY <2>1, <4>1, <4>2
    <3> QED BY <3>1, <3>2
  <2>3. q + z > r
    BY <1>15, <1>19, <2>1
  <2>4. m < n + 1 /\ q + Size(doc'[m + 1]) > r
    BY <1>4, <1>13, <2>1, <2>3
  <2>5. Lost(doc', out', room', m, p, o)
    BY <1>4, <1>5, <1>11, <1>16, <2>2, <2>4 DEF Lost
  <2>6. refused'
    BY <1>15, <1>19
  <2>7. WrittenAs(m, p, o)'
    BY <1>8, <1>10, <2>5, <2>6 DEF WrittenAs
  <2> QED BY <1>12, <2>7
<1>20. CASE ~refused /\ out' = w
  <2>1. m = n /\ q = l /\ open = o[n] /\ l2 = q + z
    BY <1>15, <1>18, <1>20
  <2>2. out'[p[n] + 1] = <<"head", item>>
    <3>1. l < r
      BY <1>15, <1>20
    <3> QED BY <1>6, <1>16, <2>1, <3>1
  <2>3. PICK e \in Nat : e = l2
    OBVIOUS
  <2>4. e = p[n] + Size(item) /\ e <= Len(out')
    BY <1>5, <1>13, <1>16, <2>1, <2>3
  <2>5. n + 1 = Len(doc') /\ item = doc'[n + 1] /\ Chain(doc', out', n, p, o)
    BY <1>4, <1>8, <2>1
  <2>6. PICK p2, o2 : /\ Chain(doc', out', n + 1, p2, o2)
                      /\ p2[n + 1] = e /\ o2[n + 1] = Opened(o[n], item)
                      /\ \A i \in 0..n : p2[i] = p[i] /\ o2[i] = o[i]
    <3>1. doc' \in Seq(AnyItem) /\ out' \in Seq(StreamUnits)
      BY <1>4, <1>6
    <3>2. Continues(doc', out', n, p, o, item, e)
      BY <2>2, <2>4, <2>5, <3>1 DEF Continues
    <3> QED BY <3>2, ChainGrows
  <2>7. open' = o2[n + 1]
    BY <2>1, <2>6 DEF Encoded
  <2>8. Kept(doc', out', open', n + 1, p2, o2)
    BY <1>4, <1>5, <2>3, <2>6, <2>7 DEF Kept
  <2>9. \A i \in 1..(n + 1) : o2[i - 1] = o[i - 1] /\ (i \in 1..n \/ (i = n + 1 /\ o[i - 1] = open))
    BY <2>1, <2>6
  <2>10. "too deep" \notin oddities' => Shallow(doc', n + 1, o2)
    <3>1. SUFFICES ASSUME "too deep" \notin oddities', NEW i \in 1..(n + 1), IsContainer(doc'[i])
                   PROVE  Len(o2[i - 1]) < MaxNesting
      BY DEF Shallow
    <3>2. CASE i \in 1..n
      BY <1>10, <2>1, <2>9, <3>1, <3>2 DEF Shallow
    <3>3. CASE i = n + 1 /\ o[i - 1] = open
      <4>1. ~(Len(open) >= MaxNesting)
        BY <1>4, <1>9, <3>1, <3>3, OdditiesFacts
      <4>2. Len(open) \in Nat /\ MaxNesting \in Nat
        BY StreamAssumption, LenProperties DEF StreamTypes, Stacks
      <4> QED BY <2>9, <3>3, <4>1, <4>2
    <3> QED BY <2>9, <3>2, <3>3
  <2>11. "string key" \notin oddities' => Keyed(doc', n + 1, o2)
    <3>1. SUFFICES ASSUME "string key" \notin oddities', NEW i \in 1..(n + 1), doc'[i].kind = "text"
                   PROVE  ~TopIsKey(o2[i - 1])
      BY DEF Keyed
    <3>2. CASE i \in 1..n
      BY <1>10, <2>1, <2>9, <3>1, <3>2 DEF Keyed
    <3>3. CASE i = n + 1 /\ o[i - 1] = open
      <4>1. ~TopIsKey(open)
        BY <1>4, <1>9, <3>1, <3>3, OdditiesFacts
      <4> QED BY <2>9, <3>3, <4>1
    <3> QED BY <2>9, <3>2, <3>3
  <2>12. ~refused'
    BY <1>15, <1>20
  <2>13. WrittenAs(n + 1, p2, o2)'
    BY <2>6, <2>8, <2>10, <2>11, <2>12 DEF WrittenAs
  <2>14. n + 1 \in Nat
    OBVIOUS
  <2> QED BY <1>12, <2>13, <2>14
<1> QED BY <1>17, <1>19, <1>20

\* Of a map that is the only level open.
LEMMA SingleLevel ==
  ASSUME NEW l \in Nat \ {0}
  PROVE  LET s == <<[map |-> TRUE, left |-> l]>>
         IN /\ s \in Stacks /\ s # << >> /\ Unfinished(s) = s
            /\ Charged(s) = <<[map |-> TRUE, left |-> l - 1]>>
<1>1. PICK e : e = [map |-> TRUE, left |-> l]
  OBVIOUS
<1>2. e \in AnyLevel /\ e.left > 0
  BY <1>1 DEF AnyLevel
<1>3. <<e>> \in Seq(AnyLevel) /\ Len(<<e>>) = 1 /\ <<e>>[1] = e /\ <<e>> # << >>
  BY <1>2
<1>4. Trimmed(<<e>>)
  BY <1>2, <1>3 DEF Trimmed
<1>5. Unfinished(<<e>>) = <<e>>
  BY <1>3, <1>4, UnfinishedTrimmed DEF Stacks
<1>6. [e EXCEPT !.left = @ - 1] = [map |-> TRUE, left |-> l - 1]
  <2>1. PICK v : v = l - 1
    OBVIOUS
  <2>2. e.left - 1 = v
    BY <1>1, <2>1
  <2>3. \A b \in BOOLEAN, i, j \in Nat : [[map |-> b, left |-> i] EXCEPT !.left = j] = [map |-> b, left |-> j]
    <3>1. \A x \in AnyLevel : x = [map |-> x.map, left |-> x.left]
      BY DEF AnyLevel
    <3>2. \A x \in AnyLevel, j \in Nat : /\ [x EXCEPT !.left = j] \in AnyLevel
                                        /\ [x EXCEPT !.left = j].left = j
                                        /\ [x EXCEPT !.left = j].map = x.map
      BY DEF AnyLevel
    <3>3. SUFFICES ASSUME NEW b \in BOOLEAN, NEW i \in Nat, NEW j \in Nat
                   PROVE  [[map |-> b, left |-> i] EXCEPT !.left = j] = [map |-> b, left |-> j]
      OBVIOUS
    <3>4. PICK x \in AnyLevel : x = [map |-> b, left |-> i] /\ x.map = b
      <4>1. [map |-> b, left |-> i] \in AnyLevel
        BY DEF AnyLevel
      <4>2. [map |-> b, left |-> i].map = b
        BY Zenon
      <4> QED BY <4>1, <4>2
    <3>5. PICK y \in AnyLevel : y = [x EXCEPT !.left = j] /\ y.left = j /\ y.map = x.map
      BY <3>2
    <3> QED BY <3>1, <3>4, <3>5
  <2>4. l - 1 \in Nat /\ TRUE \in BOOLEAN
    OBVIOUS
  <2> QED BY <1>1, <2>1, <2>2, <2>3, <2>4
<1>7. Charged(<<e>>) = [<<e>> EXCEPT ![1] = [e EXCEPT !.left = @ - 1]]
  BY <1>3 DEF Charged
<1>8. [<<e>> EXCEPT ![1] = [e EXCEPT !.left = @ - 1]] = <<[e EXCEPT !.left = @ - 1]>>
  OBVIOUS
<1> QED BY <1>1, <1>3, <1>5, <1>6, <1>7, <1>8 DEF Stacks

\* What is left of a document, as the writer takes its next item.
LEMMA TakeNext ==
  ASSUME NEW S, NEW d \in Seq(S), NEW q \in Seq(S), q # << >>
  PROVE  Append(d, Head(q)) \o Tail(q) = d \o q
<1>1. PICK h \in S, t \in Seq(S) : h = Head(q) /\ t = Tail(q)
  BY HeadTailProperties
<1>2. q = <<h>> \o t
  <2>1. /\ Len(t) = Len(q) - 1 /\ \A i \in 1..Len(t) : t[i] = q[i + 1]
    BY <1>1, HeadTailProperties
  <2>2. PICK n \in Nat : n = Len(t) /\ Len(q) = n + 1
    <3>1. Len(t) \in Nat /\ Len(q) \in Nat
      BY LenProperties
    <3> QED BY <2>1, <3>1
  <2>3. <<h>> \in Seq(S) /\ Len(<<h>>) = 1 /\ <<h>>[1] = h
    OBVIOUS
  <2>4. PICK u \in Seq(S) : u = <<h>> \o t /\ Len(u) = 1 + n
                            /\ \A i \in 1..(1 + n) : u[i] = IF i <= 1 THEN <<h>>[i] ELSE t[i - 1]
    <3>1. /\ <<h>> \o t \in Seq(S) /\ Len(<<h>> \o t) = Len(<<h>>) + Len(t)
          /\ \A i \in 1..(Len(<<h>>) + Len(t)) :
                (<<h>> \o t)[i] = IF i <= Len(<<h>>) THEN <<h>>[i] ELSE t[i - Len(<<h>>)]
      BY <2>3, ConcatProperties
    <3> QED BY <2>2, <2>3, <3>1
  <2>5. \A i \in 1..(n + 1) : u[i] = q[i]
    <3>1. SUFFICES ASSUME NEW i \in 1..(n + 1) PROVE u[i] = q[i]
      OBVIOUS
    <3>2. CASE i = 1
      <4>1. q[1] = h
        BY <1>1
      <4>2. u[1] = h
        BY <2>3, <2>4
      <4> QED BY <3>2, <4>1, <4>2
    <3>3. CASE i # 1
      <4>1. PICK j \in 1..n : j = i - 1 /\ j + 1 = i
        BY <3>3
      <4>2. u[i] = t[j]
        BY <2>4, <3>3, <4>1
      <4>3. t[j] = q[j + 1]
        BY <2>1, <2>2
      <4> QED BY <4>1, <4>2, <4>3
    <3> QED BY <3>2, <3>3
  <2>6. Len(u) = n + 1 /\ Len(q) = n + 1 /\ \A i \in 1..Len(q) : u[i] = q[i]
    BY <2>2, <2>4, <2>5
  <2>7. u = q
    BY <2>6, SeqEqual
  <2> QED BY <2>4, <2>7
<1>3. <<h>> \in Seq(S)
  OBVIOUS
<1>4. Append(d, h) = d \o <<h>>
  BY AppendIsConcat
<1>5. (d \o <<h>>) \o t = d \o (<<h>> \o t)
  BY <1>3, ConcatAssociative
<1> QED BY <1>1, <1>2, <1>4, <1>5

LEMMA PhasesOfEncode ==
  ASSUME StreamTypes, Phases, outcome = "writing", NEW item \in AnyItem, Encoded(item)
  PROVE  Phases'
<1>1. at = 0 /\ items = << >> /\ levels = << >>
  BY DEF Phases
<1>2. at' = 0 /\ items' = << >> /\ levels' = << >>
  BY <1>1 DEF Encoded
<1>3. PICK w : w = out \o Parts(item)[1] \o Parts(item)[2] \o Parts(item)[3]
  OBVIOUS
<1>4. /\ refused' = (refused \/ out' # w)
      /\ outcome' = IF out' # w /\ caller \in Strict THEN "given up" ELSE "writing"
  BY <1>3 DEF Encoded
<1>5. outcome' = "writing" \/ (outcome' = "given up" /\ refused')
  BY <1>4
<1> QED BY <1>2, <1>5 DEF Phases

LEMMA WritePlannedStep ==
  ASSUME StreamInv, WritePlanned
  PROVE  StreamInv'
<1>1. plan # << >> /\ Encode(Head(plan)) /\ plan' = Tail(plan)
  BY DEF WritePlanned
<1>2. StreamTypes /\ Phases /\ PlanLeft /\ Coded
  BY DEF StreamInv
<1>3. plan \in Seq(AnyItem) /\ doc \in Seq(AnyItem)
  BY <1>2 DEF PlanLeft, StreamTypes
<1>4. PICK h \in AnyItem, t \in Seq(AnyItem) : h = Head(plan) /\ t = Tail(plan)
  BY <1>1, <1>3, HeadTailProperties
<1>5. outcome = "writing" /\ Encoded(h)
  BY <1>1, <1>2, <1>4, EncodeFacts
<1>6. doc # << >> => open # << >>
  <2>1. doc # << >> => open = <<[map |-> TRUE, left |-> Len(plan)]>>
    BY <1>1, <1>2 DEF PlanLeft
  <2>2. \A e : <<e>> # << >>
    OBVIOUS
  <2> QED BY <2>1, <2>2
<1>7. StreamTypes'
  BY <1>2, <1>5, TypesOfEncode
<1>8. Phases'
  BY <1>2, <1>5, PhasesOfEncode
<1>9. Coded'
  BY <1>2, <1>5, <1>6, CodedByEncode
<1>10. PlanLeft'
  <2>1. plan' = t /\ plan' \in Seq(AnyItem)
    BY <1>1, <1>4
  <2>2. doc' = Append(doc, h) /\ open' = Opened(open, h) /\ caller' = caller
    BY <1>5 DEF Encoded
  <2>3. doc' # << >>
    BY <1>3, <2>2, AppendProperties
  <2>4. ASSUME t # << >>
        PROVE  t \in Seq(FlatItem) /\ open' = <<[map |-> TRUE, left |-> Len(t)]>>
    <3>1. CASE doc = << >>
      <4>1. PICK c \in Nat, rest \in Seq(FlatItem) :
               /\ plan = <<Plain("map", c)>> \o rest
               /\ Len(rest) = 2 * c \/ (caller = "any" /\ rest = << >>)
        BY <1>2, <3>1 DEF PlanLeft, SetOut
      <4>2. PICK root \in AnyItem : root = Plain("map", c)
        BY ItemFacts
      <4>3. h = root /\ t = rest
        <5>1. FlatItem \subseteq AnyItem
          BY DEF FlatItem
        <5>2. rest \in Seq(AnyItem)
          BY <5>1, SeqMonotonic
        <5>3. << >> \in Seq(AnyItem)
          OBVIOUS
        <5>4. Head(Append(<< >>, root)) = root
          OBVIOUS
        <5>5. <<root>> \in Seq(AnyItem) /\ <<root>> # << >>
          OBVIOUS
        <5>6. PICK r \in Seq(AnyItem) : r = <<root>> \o rest
          BY <5>2, <5>5, ConcatProperties
        <5>7. Len(r) = 1 + Len(rest) /\ r[1] = root /\ \A i \in 1..Len(rest) : r[i + 1] = rest[i]
          <6>1. PICK n \in Nat : n = Len(rest)
            BY LenProperties
          <6>2. Len(<<root>>) = 1 /\ <<root>>[1] = root
            OBVIOUS
          <6>3. /\ Len(r) = Len(<<root>>) + Len(rest)
                /\ \A i \in 1..(Len(<<root>>) + Len(rest)) :
                     r[i] = IF i <= Len(<<root>>) THEN <<root>>[i] ELSE rest[i - Len(<<root>>)]
            BY <5>2, <5>5, <5>6, ConcatProperties
          <6>4. Len(r) = 1 + n /\ \A i \in 1..(1 + n) : r[i] = IF i <= 1 THEN <<root>>[i] ELSE rest[i - 1]
            BY <6>1, <6>2, <6>3
          <6>5. r[1] = root
            BY <6>2, <6>4
          <6>6. \A i \in 1..n : r[i + 1] = rest[i]
            <7>1. SUFFICES ASSUME NEW i \in 1..n PROVE r[i + 1] = rest[i]
              OBVIOUS
            <7>2. PICK j \in 1..(1 + n) : j = i + 1 /\ ~(j <= 1) /\ j - 1 = i
              OBVIOUS
            <7>3. r[j] = rest[j - 1]
              BY <6>4, <7>2
            <7> QED BY <7>2, <7>3
          <6> QED BY <6>1, <6>4, <6>5, <6>6
        <5>8. r = plan
          BY <4>1, <4>2, <5>6
        <5>9. Len(t) = Len(r) - 1 /\ \A i \in 1..Len(t) : t[i] = r[i + 1]
          BY <1>1, <1>3, <1>4, <5>8, HeadTailProperties
        <5>10. PICK n \in Nat : n = Len(rest)
          BY LenProperties
        <5>11. Len(t) = n /\ \A i \in 1..n : t[i] = rest[i]
          <6>1. Len(r) - 1 = n
            BY <5>7, <5>10
          <6>2. Len(t) = n
            BY <5>9, <6>1
          <6> QED BY <5>7, <5>9, <5>10, <6>2
        <5>12. t = rest
          BY <5>2, <5>10, <5>11, SeqEqual
        <5>13. h = r[1]
          BY <1>4, <5>8
        <5> QED BY <5>7, <5>12, <5>13
      <4>4. Len(t) = 2 * c /\ t \in Seq(FlatItem)
        BY <2>4, <4>1, <4>3
      <4>5. PICK l \in Nat \ {0} : l = Len(t)
        BY <2>4, <4>4, EmptySeq
      <4>6. open = << >>
        BY <1>2, <3>1 DEF PlanLeft
      <4>7. Level(h) = [map |-> TRUE, left |-> l] /\ IsContainer(h)
        BY <4>2, <4>3, <4>4, <4>5 DEF Level, IsContainer, Plain
      <4>8. Charged(open) = << >>
        BY <4>6 DEF Charged
      <4>9. open' = Unfinished(Append(<< >>, Level(h)))
        BY <2>2, <4>7, <4>8 DEF Opened
      <4>10. PICK e : e = [map |-> TRUE, left |-> l]
        OBVIOUS
      <4>11. Append(<< >>, e) = <<e>>
        OBVIOUS
      <4>12. Unfinished(<<e>>) = <<e>>
        BY <4>10, SingleLevel
      <4> QED BY <4>4, <4>5, <4>7, <4>9, <4>10, <4>11, <4>12
    <3>2. CASE doc # << >>
      <4>1. plan \in Seq(FlatItem) /\ open = <<[map |-> TRUE, left |-> Len(plan)]>>
        BY <1>1, <1>2, <3>2 DEF PlanLeft
      <4>2. h \in FlatItem /\ t \in Seq(FlatItem) /\ Len(t) = Len(plan) - 1
        BY <1>1, <1>4, <4>1, HeadTailProperties
      <4>3. PICK l \in Nat \ {0} : l = Len(t)
        BY <2>4, <4>2, EmptySeq
      <4>4. PICK k \in Nat \ {0} : k = Len(plan) /\ k - 1 = l
        BY <1>1, <1>3, <4>2, <4>3, EmptySeq
      <4>5. Charged(open) = <<[map |-> TRUE, left |-> l]>>
        BY <4>1, <4>4, SingleLevel
      <4>6. ~IsContainer(h)
        BY <4>2 DEF FlatItem
      <4>7. open' = Unfinished(<<[map |-> TRUE, left |-> l]>>)
        BY <2>2, <4>5, <4>6 DEF Opened
      <4>8. open' = <<[map |-> TRUE, left |-> l]>>
        BY <4>7, SingleLevel
      <4> QED BY <4>2, <4>3, <4>8
    <3> QED BY <3>1, <3>2
  <2>5. ASSUME caller = "note event" PROVE \E n \in Lengths : doc' \o plan' = NoteEvent(n)
    <3>1. doc' \o plan' = doc \o plan
      BY <1>1, <1>3, <1>4, <2>1, <2>2, TakeNext
    <3> QED BY <1>2, <2>5, <3>1 DEF PlanLeft
  <2> QED BY <2>1, <2>2, <2>3, <2>4, <2>5 DEF PlanLeft
<1> QED BY <1>7, <1>8, <1>9, <1>10 DEF StreamInv

LEMMA WriteNextStep ==
  ASSUME StreamInv, NEW item \in Items, WriteNext(item)
  PROVE  StreamInv'
<1>1. caller = "any" /\ plan = << >> /\ open # << >> /\ Encode(item) /\ plan' = plan
  BY DEF WriteNext
<1>2. StreamTypes /\ Phases /\ PlanLeft /\ Coded /\ item \in AnyItem
  BY ItemsFacts DEF StreamInv
<1>3. outcome = "writing" /\ Encoded(item)
  BY <1>1, <1>2, EncodeFacts
<1>4. StreamTypes'
  BY <1>2, <1>3, TypesOfEncode
<1>5. Phases'
  BY <1>2, <1>3, PhasesOfEncode
<1>6. Coded'
  BY <1>1, <1>2, <1>3, CodedByEncode
<1>7. PlanLeft'
  <2>1. doc' = Append(doc, item) /\ caller' = "any" /\ plan' = << >>
    BY <1>1, <1>3 DEF Encoded
  <2>2. doc' # << >>
    BY <1>2, <2>1, AppendProperties DEF StreamTypes
  <2>3. plan' \in Seq(AnyItem)
    BY <1>1, <1>2 DEF PlanLeft
  <2> QED BY <2>1, <2>2, <2>3 DEF PlanLeft
<1> QED BY <1>4, <1>5, <1>6, <1>7 DEF StreamInv

-----------------------------------------------------------------------------
(* CborStream: the reader's steps. *)

LEMMA HandOverStep ==
  ASSUME StreamInv, HandOver
  PROVE  StreamInv'
<1>1. /\ outcome = "writing" /\ plan = << >> /\ outcome' = "reading"
      /\ caller' = caller /\ plan' = plan /\ room' = room /\ out' = out /\ doc' = doc /\ open' = open
      /\ refused' = refused /\ oddities' = oddities /\ at' = at /\ levels' = levels /\ items' = items
  BY DEF HandOver
<1>2. StreamTypes'
  BY <1>1 DEF StreamInv, StreamTypes, Trimmed
<1>3. Phases'
  BY <1>1 DEF Phases
<1>4. PlanLeft'
  BY <1>1 DEF StreamInv, PlanLeft
<1>5. Coded'
  <2>1. \A m, p, o : WrittenAs(m, p, o) => WrittenAs(m, p, o)'
    BY <1>1 DEF WrittenAs
  <2>2. Pending' <=> Pending
    BY <1>1 DEF Pending
  <2>3. \A k, p, o : ReadUpTo(k, p, o) => ReadUpTo(k, p, o)'
    BY <1>1 DEF ReadUpTo
  <2> QED BY <2>1, <2>3 DEF StreamInv, Coded
<1> QED BY <1>2, <1>3, <1>4, <1>5 DEF StreamInv

LEMMA ReadAllStep ==
  ASSUME StreamInv, ReadAll
  PROVE  StreamInv'
<1>1. /\ outcome = "reading" /\ at >= Len(out) /\ outcome' = "read"
      /\ caller' = caller /\ plan' = plan /\ room' = room /\ out' = out /\ doc' = doc /\ open' = open
      /\ refused' = refused /\ oddities' = oddities /\ at' = at /\ levels' = levels /\ items' = items
  BY DEF ReadAll
<1>2. StreamTypes'
  BY <1>1 DEF StreamInv, StreamTypes, Trimmed, Endings
<1>3. Phases'
  <2>1. plan = << >>
    BY <1>1 DEF StreamInv, Phases
  <2> QED BY <1>1, <2>1 DEF Phases
<1>4. PlanLeft'
  BY <1>1 DEF StreamInv, PlanLeft
<1>5. Coded'
  <2>1. \A m, p, o : WrittenAs(m, p, o) => WrittenAs(m, p, o)'
    BY <1>1 DEF WrittenAs
  <2>2. \A k, p, o : ReadUpTo(k, p, o) => ReadUpTo(k, p, o)'
    BY <1>1 DEF ReadUpTo
  <2> QED BY <2>1, <2>2 DEF StreamInv, Coded
<1> QED BY <1>2, <1>3, <1>4, <1>5 DEF StreamInv

\* What the next item does to the reader's stack is what it did to the writer's.
LEMMA LevelsFollow ==
  ASSUME NEW s \in Stacks, NEW item \in AnyItem, NEW next,
         LET charged == Advance(s)
         IN next = IF IsContainer(item) /\ Len(charged) < MaxNesting
                   THEN Append(charged, Level(item)) ELSE charged
  PROVE  /\ next \in Stacks
         /\ (IsContainer(item) => Len(Unfinished(s)) < MaxNesting) =>
               Unfinished(next) = Opened(Unfinished(s), item)
<1>1. PICK u \in Stacks : u = Unfinished(s) /\ Trimmed(u)
  BY UnfinishedFacts DEF Trims
<1>2. PICK c \in Stacks : c = Charged(u) /\ Len(c) = Len(u)
  BY <1>1, ChargedFacts
<1>3. Advance(s) = c
  BY <1>1, <1>2 DEF Advance
<1>4. next = IF IsContainer(item) /\ Len(c) < MaxNesting THEN Append(c, Level(item)) ELSE c
  BY <1>3
<1>5. Level(item) \in AnyLevel
  BY DEF Level, AnyLevel, AnyItem
<1>6. Append(c, Level(item)) \in Stacks
  BY <1>5, AppendProperties DEF Stacks
<1>7. next \in Stacks
  BY <1>4, <1>6
<1>8. ASSUME IsContainer(item) => Len(u) < MaxNesting PROVE Unfinished(next) = Opened(u, item)
  <2>1. next = IF IsContainer(item) THEN Append(c, Level(item)) ELSE c
    BY <1>2, <1>4, <1>8
  <2> QED BY <1>2, <2>1 DEF Opened
<1> QED BY <1>1, <1>7, <1>8

LEMMA ReadNextStep ==
  ASSUME StreamInv, ReadNext
  PROVE  StreamInv'
<1> DEFINE item == out[at + 1][2]
           taken == Take(at, 1 + item.wide + DataLen(item))
           rejected == item.kind = "text" /\ AtMapKey
<1>1. /\ outcome = "reading" /\ at < Len(out)
      /\ caller' = caller /\ plan' = plan /\ room' = room /\ out' = out /\ doc' = doc /\ open' = open
      /\ refused' = refused /\ oddities' = oddities
  BY DEF ReadNext
<1>2. \/ /\ rejected \/ taken = 0
         /\ outcome' = IF rejected THEN "StringKeyInCompactMode" ELSE "Truncated"
         /\ at' = at /\ levels' = levels /\ items' = items
      \/ /\ ~rejected /\ taken > 0
         /\ at' = at + taken /\ items' = Append(items, item) /\ outcome' = outcome
         /\ LET charged == Advance(levels)
            IN levels' = IF IsContainer(item) /\ Len(charged) < MaxNesting
                         THEN Append(charged, Level(item)) ELSE charged
  BY DEF ReadNext
<1> HIDE DEF taken, rejected
<1>3. StreamTypes /\ Phases /\ PlanLeft
  BY DEF StreamInv
<1>4. PICK m \in Nat : \E p, o, k : k \in 0..m /\ WrittenAs(m, p, o) /\ ReadUpTo(k, p, o)
  BY DEF StreamInv, Coded
<1>5. PICK p, o, k : k \in 0..m /\ WrittenAs(m, p, o) /\ ReadUpTo(k, p, o)
  BY <1>4
<1>6. Chain(doc, out, m, p, o)
  BY <1>5 DEF WrittenAs
<1>7. PICK n \in Nat, l \in Nat, r \in Nat : n = Len(doc) /\ l = Len(out) /\ r = room /\ l <= r
  <2>1. doc \in Seq(AnyItem) /\ out \in Seq(StreamUnits) /\ room \in Nat /\ Len(out) <= room
    BY <1>3 DEF StreamTypes
  <2> QED BY <2>1, LenProperties
<1>8. PICK a \in Nat : a = p[k] /\ a = at /\ a < l
  <2>1. p[k] \in Nat /\ at = p[k]
    BY <1>5, <1>6 DEF Chain, ReadUpTo
  <2> QED BY <1>1, <1>7, <2>1
<1>9. plan = << >>
  BY <1>1, <1>3 DEF Phases
<1>10. PlanLeft'
  BY <1>1, <1>3 DEF PlanLeft
<1>11. WrittenAs(m, p, o)'
  BY <1>1, <1>5 DEF WrittenAs
<1>12. m <= n
  BY <1>6, <1>7 DEF Chain
\* The item at the position, and whether there is enough of it.
<1>13. ASSUME k < m
       PROVE  /\ item = doc[k + 1] /\ item \in AnyItem
              /\ taken = Size(item) /\ taken > 0 /\ p[k + 1] = a + taken
  <2>1. k + 1 \in 1..m /\ k + 1 - 1 = k /\ k + 1 \in 0..m
    BY <1>5, <1>13
  <2>2. p[k + 1] = p[k] + Size(doc[k + 1]) /\ out[p[k] + 1] = <<"head", doc[k + 1]>>
    <3>1. PICK i \in 1..m : i = k + 1 /\ i - 1 = k
      BY <1>5, <1>13
    <3>2. p[i] = p[i - 1] + Size(doc[i]) /\ out[p[i - 1] + 1] = <<"head", doc[i]>>
      BY <1>6 DEF Chain
    <3> QED BY <3>1, <3>2
  <2>3. item = doc[k + 1]
    BY <1>8, <2>2
  <2>4. item \in AnyItem
    <3>1. doc \in Seq(AnyItem) /\ k + 1 \in 1..Len(doc)
      BY <1>3, <1>7, <1>12, <2>1 DEF StreamTypes
    <3> QED BY <2>3, <3>1, ElementOfSeq
  <2>5. PICK z \in Nat \ {0} : z = Size(item)
    <3>1. Size(item) \in Nat \ {0}
      BY <2>4, PartFacts
    <3> QED BY <3>1
  <2>6. p[k + 1] = a + z
    BY <1>8, <2>2, <2>3, <2>5
  <2>7. a + z <= l
    <3>1. CASE k + 1 = m
      BY <1>6, <1>7, <2>6, <3>1 DEF Chain
    <3>2. CASE k + 1 # m
      <4>1. k + 1 < m /\ m \in 0..m
        BY <1>5, <1>13, <3>2
      <4>2. p[k + 1] < p[m] /\ p[m] <= l /\ p[m] \in Nat
        BY <1>6, <1>7, <2>1, <4>1 DEF Chain
      <4> QED BY <2>6, <4>2
    <3> QED BY <3>1, <3>2
  <2>8. taken = z
    <3>1. 1 + item.wide + DataLen(item) = z
      BY <2>5 DEF Size
    <3>2. taken = Take(at, z)
      BY <3>1 DEF taken
    <3> QED BY <1>7, <1>8, <2>7, <3>2 DEF Take
  <2> QED BY <2>3, <2>4, <2>5, <2>6, <2>8
<1>14. ASSUME k = m PROVE taken = 0 /\ refused
  <2>0. p[m] = a
    BY <1>8, <1>14
  <2>1. refused
    <3>1. ~refused => p[m] = Len(out)
      BY <1>5 DEF WrittenAs, Kept
    <3>2. a # l
      BY <1>8
    <3> QED BY <1>7, <2>0, <3>1, <3>2
  <2>2. Lost(doc, out, room, m, p, o)
    BY <1>5, <2>1 DEF WrittenAs
  <2>3. a + Size(doc[m + 1]) > r /\ m < n
    BY <1>7, <1>8, <1>14, <2>2 DEF Lost
  <2>4. out[a + 1] = <<"head", doc[m + 1]>>
    <3>1. a # l
      BY <1>8
    <3>2. p[m] = a /\ a # Len(out)
      BY <1>7, <2>0, <3>1
    <3> QED BY <2>2, <3>2 DEF Lost
  <2>5. item = doc[m + 1]
    BY <1>8, <2>4
  <2>6. item \in AnyItem
    <3>1. doc \in Seq(AnyItem) /\ m + 1 \in 1..Len(doc)
      BY <1>3, <1>7, <2>3 DEF StreamTypes
    <3> QED BY <2>5, <3>1, ElementOfSeq
  <2>7. PICK z \in Nat : z = Size(item)
    <3>1. Size(item) \in Nat \ {0}
      BY <2>6, PartFacts
    <3> QED BY <3>1
  <2>8. taken = 0
    <3>1. 1 + item.wide + DataLen(item) = z
      BY <2>7 DEF Size
    <3>2. taken = Take(at, z)
      BY <3>1 DEF taken
    <3>3. a + z > l
      BY <1>7, <2>3, <2>5, <2>7
    <3> QED BY <1>7, <1>8, <3>2, <3>3 DEF Take
  <2> QED BY <2>1, <2>8
<1>15. k < m \/ k = m
  BY <1>5
<1>16. CASE /\ rejected \/ taken = 0
            /\ outcome' = IF rejected THEN "StringKeyInCompactMode" ELSE "Truncated"
            /\ at' = at /\ levels' = levels /\ items' = items
  <2>1. ~rejected => refused
    <3>1. SUFFICES ASSUME ~rejected PROVE refused
      OBVIOUS
    <3>2. taken = 0
      BY <1>16, <3>1
    <3>3. ~(k < m)
      BY <1>13, <3>2
    <3> QED BY <1>14, <1>15, <3>3
  <2>2. rejected => refused \/ ~(oddities \subseteq {"other key"})
    <3>1. SUFFICES ASSUME rejected, ~refused, oddities \subseteq {"other key"} PROVE FALSE
      OBVIOUS
    <3>2. k < m
      BY <1>14, <1>15, <3>1
    <3>3. "too deep" \notin oddities /\ "string key" \notin oddities
      BY <3>1
    <3>4. item.kind = "text" /\ TopIsKey(levels)
      BY <3>1 DEF rejected, AtMapKey
    <3>5. levels \in Stacks /\ Trimmed(levels)
      BY <1>3, <3>4 DEF StreamTypes, TopIsKey, Trimmed
    <3>6. Unfinished(levels) = levels
      BY <3>5, UnfinishedTrimmed
    <3>7. levels = o[k]
      BY <1>5, <3>3, <3>6 DEF ReadUpTo
    <3>8. Keyed(doc, m, o)
      BY <1>5, <3>3 DEF WrittenAs
    <3>9. PICK i \in 1..m : i = k + 1 /\ i - 1 = k
      BY <1>5, <3>2
    <3>10. ~TopIsKey(o[k])
      <4>1. doc[i].kind = "text"
        BY <1>13, <3>2, <3>4, <3>9
      <4>2. ~TopIsKey(o[i - 1])
        BY <3>8, <4>1 DEF Keyed
      <4> QED BY <3>9, <4>2
    <3> QED BY <3>4, <3>7, <3>10
  <2>3. Phases'
    <3>1. outcome' \in {"StringKeyInCompactMode", "Truncated"}
      BY <1>16
    <3>2. outcome' = "Truncated" => refused'
      BY <1>1, <1>16, <2>1
    <3>3. outcome' = "StringKeyInCompactMode" => refused' \/ ~(oddities' \subseteq {"other key"})
      BY <1>1, <1>16, <2>2
    <3> QED BY <1>1, <1>9, <3>1, <3>2, <3>3 DEF Phases
  <2>4. StreamTypes'
    BY <1>1, <1>3, <1>16 DEF StreamTypes, Trimmed, Endings
  <2>5. ReadUpTo(k, p, o)'
    BY <1>1, <1>5, <1>16 DEF ReadUpTo
  <2>6. Coded'
    BY <1>5, <1>11, <2>5 DEF Coded
  <2> QED BY <1>10, <2>3, <2>4, <2>6 DEF StreamInv
<1>17. CASE /\ ~rejected /\ taken > 0
            /\ at' = at + taken /\ items' = Append(items, item) /\ outcome' = outcome
            /\ LET charged == Advance(levels)
               IN levels' = IF IsContainer(item) /\ Len(charged) < MaxNesting
                            THEN Append(charged, Level(item)) ELSE charged
  <2>1. k < m
    <3>1. taken # 0
      BY <1>17
    <3> QED BY <1>14, <1>15, <3>1
  <2>2. PICK e \in AnyItem : e = item /\ e = doc[k + 1] /\ p[k + 1] = a + taken
    BY <1>13, <2>1
  <2>3. levels \in Stacks /\ items \in Seq(AnyItem)
    BY <1>3 DEF StreamTypes
  <2>4. LET charged == Advance(levels)
        IN levels' = IF IsContainer(e) /\ Len(charged) < MaxNesting
                     THEN Append(charged, Level(e)) ELSE charged
    BY <1>17, <2>2
  <2>5. /\ levels' \in Stacks
        /\ (IsContainer(e) => Len(Unfinished(levels)) < MaxNesting) =>
              Unfinished(levels') = Opened(Unfinished(levels), e)
    BY <2>3, <2>4, LevelsFollow
  <2>6. items' = Append(items, e)
    BY <1>17, <2>2
  <2>7. /\ items' \in Seq(AnyItem) /\ Len(items') = Len(items) + 1
        /\ \A i \in 1..Len(items) : items'[i] = items[i]
        /\ items'[Len(items) + 1] = e
    BY <2>3, <2>6, AppendProperties
  <2>8. StreamTypes'
    BY <1>1, <1>3, <1>17, <2>5, <2>7 DEF StreamTypes, Trimmed
  <2>9. Phases'
    BY <1>1, <1>9, <1>17 DEF Phases
  <2>10. k = Len(items) /\ \A i \in 1..k : items[i] = doc[i]
    BY <1>5 DEF ReadUpTo
  <2>11. k + 1 = Len(items') /\ \A i \in 1..(k + 1) : items'[i] = doc[i]
    <3>1. k \in Nat
      BY <1>5
    <3>2. \A i \in 1..(k + 1) : i \in 1..k \/ i = k + 1
      BY <3>1
    <3> QED BY <2>2, <2>7, <2>10, <3>2
  <2>12. at' = p[k + 1]
    BY <1>8, <1>17, <2>2
  <2>13. ASSUME "too deep" \notin oddities PROVE Unfinished(levels') = o[k + 1]
    <3>1. Unfinished(levels) = o[k]
      BY <1>5, <2>13 DEF ReadUpTo
    <3>2. PICK i \in 1..m : i = k + 1 /\ i - 1 = k /\ doc[i] = e
      BY <1>5, <2>1, <2>2
    <3>3. IsContainer(e) => Len(o[k]) < MaxNesting
      <4>1. Shallow(doc, m, o)
        BY <1>5, <2>13 DEF WrittenAs
      <4>2. IsContainer(doc[i]) => Len(o[i - 1]) < MaxNesting
        BY <4>1 DEF Shallow
      <4> QED BY <3>2, <4>2
    <3>4. o[k + 1] = Opened(o[k], e)
      <4>1. o[i] = Opened(o[i - 1], doc[i])
        BY <1>6 DEF Chain
      <4> QED BY <3>2, <4>1
    <3> QED BY <2>5, <3>1, <3>3, <3>4
  <2>14. ReadUpTo(k + 1, p, o)'
    BY <1>1, <2>11, <2>12, <2>13 DEF ReadUpTo
  <2>15. k + 1 \in 0..m
    BY <1>5, <2>1
  <2>16. Coded'
    BY <1>11, <2>14, <2>15 DEF Coded
  <2> QED BY <1>10, <2>8, <2>9, <2>16 DEF StreamInv
<1> QED BY <1>2, <1>16, <1>17

-----------------------------------------------------------------------------
(* CborStream: the invariant holds, and says what the runs check. *)

LEMMA StreamInvNext == StreamInv /\ [StreamNext]_streamVars => StreamInv'
<1>1. SUFFICES ASSUME StreamInv, [StreamNext]_streamVars PROVE StreamInv'
  OBVIOUS
<1>2. CASE WritePlanned
  BY <1>1, <1>2, WritePlannedStep
<1>3. CASE \E item \in Items : WriteNext(item)
  BY <1>1, <1>3, WriteNextStep
<1>4. CASE HandOver
  BY <1>1, <1>4, HandOverStep
<1>5. CASE ReadNext
  BY <1>1, <1>5, ReadNextStep
<1>6. CASE ReadAll
  BY <1>1, <1>6, ReadAllStep
<1>7. CASE UNCHANGED streamVars
  <2>1. /\ caller' = caller /\ plan' = plan /\ room' = room /\ out' = out /\ doc' = doc /\ open' = open
        /\ refused' = refused /\ oddities' = oddities /\ at' = at /\ levels' = levels /\ items' = items
        /\ outcome' = outcome
    BY <1>7 DEF streamVars
  <2>2. StreamTypes'
    BY <1>1, <2>1 DEF StreamInv, StreamTypes, Trimmed
  <2>3. Phases'
    BY <1>1, <2>1 DEF StreamInv, Phases
  <2>4. PlanLeft'
    BY <1>1, <2>1 DEF StreamInv, PlanLeft
  <2>5. Coded'
    <3>1. \A m, p, o : WrittenAs(m, p, o) => WrittenAs(m, p, o)'
      BY <2>1 DEF WrittenAs
    <3>2. \A k, p, o : ReadUpTo(k, p, o) => ReadUpTo(k, p, o)'
      BY <2>1 DEF ReadUpTo
    <3> QED BY <1>1, <3>1, <3>2 DEF StreamInv, Coded
  <2> QED BY <2>2, <2>3, <2>4, <2>5 DEF StreamInv
<1> QED BY <1>1, <1>2, <1>3, <1>4, <1>5, <1>6, <1>7 DEF StreamNext

\* In every state of the codec the buffer holds the first items of the document
\* whole, with what comes next cut off if an item was refused, and the decoder
\* stands behind one of these items with the levels the writer had there.
THEOREM StreamInvariant == StreamSpec => []StreamInv
<1>1. StreamInit => StreamInv
  BY StreamInvInit
<1>2. StreamInv /\ [StreamNext]_streamVars => StreamInv'
  BY StreamInvNext
<1> QED BY <1>1, <1>2, PTL DEF StreamSpec

LEMMA AtTheEnd ==
  ASSUME StreamInv, outcome = "read"
  PROVE  \E m \in Nat : \E p, o : /\ WrittenAs(m, p, o) /\ ReadUpTo(m, p, o)
                                  /\ p[m] = Len(out)
<1>1. PICK m \in Nat : \E p, o, k : k \in 0..m /\ WrittenAs(m, p, o) /\ ReadUpTo(k, p, o)
  BY DEF StreamInv, Coded
<1>2. PICK p, o, k : k \in 0..m /\ WrittenAs(m, p, o) /\ ReadUpTo(k, p, o)
  BY <1>1
<1>3. Chain(doc, out, m, p, o)
  BY <1>2 DEF WrittenAs
<1>4. PICK a \in Nat, b \in Nat, l \in Nat : a = p[k] /\ b = p[m] /\ l = Len(out)
  <2>1. p[k] \in Nat /\ p[m] \in Nat
    BY <1>2, <1>3 DEF Chain
  <2>2. Len(out) \in Nat
    BY LenProperties DEF StreamInv, StreamTypes
  <2> QED BY <2>1, <2>2
<1>5. a >= l /\ b <= l
  <2>1. at >= Len(out) /\ at = p[k]
    BY <1>2 DEF StreamInv, Phases, ReadUpTo
  <2>2. p[m] <= Len(out)
    BY <1>3 DEF Chain
  <2> QED BY <1>4, <2>1, <2>2
<1>6. k = m
  <2>1. SUFFICES ASSUME k # m PROVE FALSE
    OBVIOUS
  <2>2. k \in 0..m /\ m \in 0..m /\ k < m
    BY <1>2, <2>1
  <2>3. a < b
    BY <1>3, <1>4, <2>2 DEF Chain
  <2> QED BY <1>5, <2>3
<1>7. b = l
  BY <1>4, <1>5, <1>6
<1> QED BY <1>2, <1>4, <1>6, <1>7

LEMMA OverflowOfStream == StreamInv => OverflowIsSeen
<1>1. SUFFICES ASSUME StreamInv, outcome = "read", refused, "too deep" \notin oddities
               PROVE  Pending
  BY DEF OverflowIsSeen
<1>2. PICK m \in Nat : \E p, o : /\ WrittenAs(m, p, o) /\ ReadUpTo(m, p, o)
                                 /\ p[m] = Len(out)
  BY <1>1, AtTheEnd
<1>3. PICK p, o : /\ WrittenAs(m, p, o) /\ ReadUpTo(m, p, o)
                  /\ p[m] = Len(out)
  BY <1>2
<1>4. Lost(doc, out, room, m, p, o)
  BY <1>1, <1>3 DEF WrittenAs
<1>5. Len(out) \in Nat
  BY <1>1, LenProperties DEF StreamInv, StreamTypes
<1>6. o[m] # << >>
  BY <1>3, <1>4, <1>5 DEF Lost
<1>7. Unfinished(levels) = o[m]
  BY <1>1, <1>3 DEF ReadUpTo
<1>8. levels \in Stacks
  BY <1>1 DEF StreamInv, StreamTypes
<1> QED BY <1>6, <1>7, <1>8, PendingFacts

LEMMA ReadsBackOfStream == StreamInv => ReadsBack
<1>1. SUFFICES ASSUME StreamInv, ~refused, oddities \subseteq {"other key"} PROVE
        /\ outcome \in {"writing", "reading", "read"}
        /\ items = SubSeq(doc, 1, Len(items))
        /\ outcome = "read" => items = doc /\ (Pending <=> open # <<>>)
        /\ outcome = "read" /\ caller = "note event" =>
               /\ \A key \in 0..2 : NoteEventRead(key, "int") = <<doc[2 * key + 3]>>
               /\ NoteEventRead(3, "text") = SubSeq(doc, 9, Len(doc))
  BY DEF ReadsBack
<1>2. outcome \in {"writing", "reading", "read"}
  <2>1. outcome # "given up" /\ outcome # "Truncated" /\ outcome # "StringKeyInCompactMode"
    BY <1>1 DEF StreamInv, Phases
  <2>2. outcome \in {"writing", "reading"} \cup Endings
    BY <1>1 DEF StreamInv, StreamTypes
  <2> QED BY <2>1, <2>2 DEF Endings
<1>3. doc \in Seq(AnyItem) /\ items \in Seq(AnyItem) /\ levels \in Stacks
  BY <1>1 DEF StreamInv, StreamTypes
<1>4. PICK n \in Nat : n = Len(doc)
  BY <1>3, LenProperties
<1>5. items = SubSeq(doc, 1, Len(items))
  <2>1. PICK m \in Nat : \E p, o, k : k \in 0..m /\ WrittenAs(m, p, o) /\ ReadUpTo(k, p, o)
    BY <1>1 DEF StreamInv, Coded
  <2>2. PICK p, o, k : k \in 0..m /\ WrittenAs(m, p, o) /\ ReadUpTo(k, p, o)
    BY <2>1
  <2>3. m <= n
    <3>1. m \in 0..Len(doc)
      BY <2>2 DEF WrittenAs, Chain
    <3> QED BY <1>4, <3>1
  <2>4. PICK j \in 0..n : j = k
    BY <2>2, <2>3
  <2>5. j = Len(items) /\ \A i \in 1..j : items[i] = doc[i]
    BY <2>2, <2>4 DEF ReadUpTo
  <2>6. /\ SubSeq(doc, 1, j) \in Seq(AnyItem)
        /\ Len(SubSeq(doc, 1, j)) = IF 1 <= j THEN j - 1 + 1 ELSE 0
        /\ \A i \in 1..(j - 1 + 1) : SubSeq(doc, 1, j)[i] = doc[1 + i - 1]
    <3>1. \A i \in 1..j : doc[i] \in AnyItem
      BY <1>3, <1>4, ElementOfSeq
    <3> QED BY <3>1, SubSeqProperties
  <2>7. PICK s \in Seq(AnyItem) : s = SubSeq(doc, 1, j)
    BY <2>6
  <2>8. Len(s) = j /\ \A i \in 1..j : s[i] = doc[i]
    BY <2>6, <2>7
  <2>9. Len(s) = Len(items) /\ \A i \in 1..Len(s) : s[i] = items[i]
    BY <2>5, <2>8
  <2>10. s = items
    BY <1>3, <2>9, SeqEqual
  <2> QED BY <2>5, <2>7, <2>10
<1>6. ASSUME outcome = "read" PROVE items = doc /\ (Pending <=> open # << >>)
  <2>1. PICK m \in Nat : \E p, o : /\ WrittenAs(m, p, o) /\ ReadUpTo(m, p, o)
                                   /\ p[m] = Len(out)
    BY <1>1, <1>6, AtTheEnd
  <2>2. PICK p, o : /\ WrittenAs(m, p, o) /\ ReadUpTo(m, p, o)
                    /\ p[m] = Len(out)
    BY <2>1
  <2>3. m = Len(doc) /\ open = o[m]
    BY <1>1, <2>2 DEF WrittenAs, Kept
  <2>4. m = Len(items)
    BY <2>2 DEF ReadUpTo
  <2>5. items = doc
    BY <1>3, <1>5, <2>3, <2>4, SubSeqFull
  <2>6. Unfinished(levels) = open
    <3>1. "too deep" \notin oddities
      BY <1>1
    <3> QED BY <2>2, <2>3, <3>1 DEF ReadUpTo
  <2> QED BY <1>3, <2>5, <2>6, PendingFacts
<1>7. ASSUME outcome = "read", caller = "note event"
      PROVE  /\ \A key \in 0..2 : NoteEventRead(key, "int") = <<doc[2 * key + 3]>>
             /\ NoteEventRead(3, "text") = SubSeq(doc, 9, Len(doc))
  <2>1. plan = << >>
    BY <1>1, <1>7 DEF StreamInv, Phases
  <2>2. PICK n1 \in Lengths : doc \o plan = NoteEvent(n1)
    BY <1>1, <1>7 DEF StreamInv, PlanLeft
  <2>3. doc = NoteEvent(n1)
    BY <1>3, <2>1, <2>2, ConcatEmptySeq
  <2>4. items = NoteEvent(n1)
    BY <1>6, <1>7, <2>3
  <2> QED BY <2>3, <2>4, NoteEventReading
<1> QED BY <1>2, <1>5, <1>6, <1>7

\* Whatever the encoder refused, the reader finds out (encode.rs, decode.rs).
THEOREM RefusalsShow == StreamSpec => []OverflowIsSeen
<1>1. StreamInv => OverflowIsSeen
  BY OverflowOfStream
<1> QED BY <1>1, StreamInvariant, PTL

\* A document that fits is read back item by item, and the page reads from a
\* note event what it wrote there.
THEOREM DocumentsReadBack == StreamSpec => []ReadsBack
<1>1. StreamInv => ReadsBack
  BY ReadsBackOfStream
<1> QED BY <1>1, StreamInvariant, PTL
=============================================================================
