------------------------------ MODULE NotesSync ------------------------------
(* The notekeeper of r2-wasm on several browsers: each one runs a hive with    *)
(* the Notekeeper sentant and the notekeeper-sync plugin, and the sentants     *)
(* keep their notes together by last-writer-wins.  The page, which moves sync  *)
(* data between a plugin and the relay, is external, as is the relay: it       *)
(* passes messages on to everybody in one order.                               *)
(*                                                                             *)
(* The content of a note is the number of the write that made it, and a        *)
(* message is the number of the write it tells of.                             *)
EXTENDS Naturals, Sequences, FiniteSets

CONSTANTS Replicas, Notes, None,
          MaxTime, MaxWrites     \* bounds

Version == [content : 1..MaxWrites, at : 0..MaxTime, deleted : BOOLEAN]

ASSUME NotesAssumption ==
    MaxTime \in Nat /\ MaxWrites \in Nat /\ None \notin Version

VARIABLES notes,        \* the BTreeMap of each sentant: None, or a version
          sequence,     \* event_sequence of each sentant
          clock,        \* the time of each browser, in its own idea of it
          connected,    \* relay_connected of each plugin
          outbound,     \* the plugins' queues towards the relay
          inbound,      \* the plugins' queues towards the sentants, as places in relay
          polled,       \* whether the head of inbound has been polled
          relay,        \* everything the relay has passed on
          cursor,       \* how much of it each page has read
          writes,       \* the local writes, in order, as the messages tell of them
          lost          \* history: notes with a write the plugin refused

vars == <<notes, sequence, clock, connected, outbound, inbound, polled, relay,
          cursor, writes, lost>>
local == <<notes, sequence, writes, lost>>
transport == <<inbound, polled, relay, cursor>>

\* over is history: the version that was written over.
Sync == [op : {"create", "update", "delete"}, note : Notes,
         content : 1..MaxWrites, at : 0..MaxTime, by : Replicas,
         over : Version \cup {None}]

Init ==
    /\ notes = [r \in Replicas |-> [n \in Notes |-> None]]
    /\ sequence = [r \in Replicas |-> 0]
    /\ clock = [r \in Replicas |-> 0]
    /\ connected = [r \in Replicas |-> FALSE]
    /\ outbound = [r \in Replicas |-> <<>>]
    /\ inbound = [r \in Replicas |-> <<>>]
    /\ polled = [r \in Replicas |-> FALSE]
    /\ relay = <<>>
    /\ cursor = [r \in Replicas |-> 0]
    /\ writes = <<>> /\ lost = {}

-----------------------------------------------------------------------------
(* The local operations of the sentant. *)

NewWrite == Len(writes) + 1

(* execute of the plugin, on the broadcast command: queued for the page when   *)
(* the relay is connected, an error the event bus drops otherwise.             *)
Broadcast(r, n) ==
    IF connected[r]
    THEN outbound' = [outbound EXCEPT ![r] = Append(@, NewWrite)] /\ UNCHANGED lost
    ELSE UNCHANGED outbound /\ lost' = lost \cup {n}

\* Mutant: a write is not counted.
MutCounted(r) == sequence

Counted(r) == [sequence EXCEPT ![r] = @ + 1]

Write(r, op, n, version) ==
    /\ notes' = [notes EXCEPT ![r][n] = version]
    /\ sequence' = Counted(r)
    /\ writes' = Append(writes, [op |-> op, note |-> n, content |-> version.content,
                                 at |-> version.at, by |-> r, over |-> notes[r][n]])
    /\ Broadcast(r, n)
    /\ UNCHANGED <<clock, connected, transport>>

CanWrite == Len(writes) < MaxWrites

\* The page makes ids up at random: no two creations share one.
Unused(n) == \A i \in 1..Len(writes) : writes[i].note # n

NoteCreate(r, n) ==
    /\ CanWrite /\ Unused(n)
    /\ Write(r, "create", n, [content |-> NewWrite, at |-> clock[r], deleted |-> FALSE])

Updatable(r, n) == notes[r][n] # None /\ ~notes[r][n].deleted

NoteUpdate(r, n) ==
    /\ CanWrite /\ Updatable(r, n)
    /\ Write(r, "update", n, [content |-> NewWrite, at |-> clock[r], deleted |-> FALSE])

\* A tombstone keeps its content; a deleted note can be deleted again.
NoteDelete(r, n) ==
    /\ CanWrite /\ notes[r][n] # None
    /\ Write(r, "delete", n, [notes[r][n] EXCEPT !.at = clock[r], !.deleted = TRUE])

\* note.list: what the user sees
Active(r) == {n \in Notes : Updatable(r, n)}

-----------------------------------------------------------------------------
(* The merge of what comes in from the relay. *)

\* Mutant: an update as old as the note does not count.
MutDominates(v, s) == v = None \/ s.at > v.at

\* `dominated` in the code
Dominates(v, s) == v = None \/ s.at >= v.at

\* A deletion of a note nobody has told us of leaves nothing behind.
Merged(v, s) ==
    IF ~Dominates(v, s) THEN v
    ELSE IF s.op = "delete"
         THEN IF v = None THEN None ELSE [v EXCEPT !.at = s.at, !.deleted = TRUE]
         ELSE [content |-> s.content, at |-> s.at, deleted |-> FALSE]

\* What the message at a place in the relay says comes to the sentant.
Merge(r, place) ==
    LET s == writes[relay[place]]
    IN notes' = [notes EXCEPT ![r][s.note] = Merged(@, s)]

(* R2Hive::tick: poll_plugins shows the head of the plugin's queue, which      *)
(* stays there, to the sentant.                                                *)
Tick(r) ==
    /\ inbound[r] # <<>>
    /\ Merge(r, Head(inbound[r]))
    /\ polled' = [polled EXCEPT ![r] = TRUE]
    /\ UNCHANGED <<sequence, clock, connected, outbound, inbound, relay, cursor,
                   writes, lost>>

\* advance_inbound, after the poll
AdvanceInbound(r) ==
    /\ inbound[r] # <<>> /\ polled[r]
    /\ inbound' = [inbound EXCEPT ![r] = Tail(@)]
    /\ polled' = [polled EXCEPT ![r] = FALSE]
    /\ UNCHANGED <<local, clock, connected, outbound, relay, cursor>>

-----------------------------------------------------------------------------
(* The page and the relay. *)

Unread(r) == cursor[r] < Len(relay)

\* drain_outbound: the page encrypts the head of the queue and sends it.
DrainOutbound(r) ==
    /\ outbound[r] # <<>>
    /\ relay' = Append(relay, Head(outbound[r]))
    /\ outbound' = [outbound EXCEPT ![r] = Tail(@)]
    /\ UNCHANGED <<local, clock, connected, inbound, polled, cursor>>

NextRead(r) == cursor[r] + 1
Sender(place) == writes[relay[place]].by

\* The relay does not return a message to its sender.
SkipOwn(r) ==
    /\ Unread(r) /\ Sender(NextRead(r)) = r
    /\ cursor' = [cursor EXCEPT ![r] = @ + 1]
    /\ UNCHANGED <<local, clock, connected, outbound, inbound, polled, relay>>

\* push_inbound of the plugin
PushInbound(r) ==
    /\ Unread(r) /\ Sender(NextRead(r)) # r
    /\ inbound' = [inbound EXCEPT ![r] = Append(@, NextRead(r))]
    /\ cursor' = [cursor EXCEPT ![r] = @ + 1]
    /\ UNCHANGED <<local, clock, connected, outbound, polled, relay>>

\* R2Hive::push_sync_inbound: past the plugin, straight to the sentant
PushSyncInbound(r) ==
    /\ Unread(r) /\ Sender(NextRead(r)) # r
    /\ inbound[r] = <<>>
    /\ Merge(r, NextRead(r))
    /\ cursor' = [cursor EXCEPT ![r] = @ + 1]
    /\ UNCHANGED <<sequence, clock, connected, outbound, inbound, polled, relay, writes, lost>>

SetRelayConnected(r, up) ==
    /\ connected[r] # up
    /\ connected' = [connected EXCEPT ![r] = up]
    /\ UNCHANGED <<local, clock, outbound, transport>>

Pass(r) ==
    /\ clock[r] < MaxTime
    /\ clock' = [clock EXCEPT ![r] = @ + 1]
    /\ UNCHANGED <<local, connected, outbound, transport>>

Next ==
    \E r \in Replicas :
        \/ \E n \in Notes : NoteCreate(r, n)
        \/ \E n \in Notes : NoteUpdate(r, n)
        \/ \E n \in Notes : NoteDelete(r, n)
        \/ Tick(r) \/ AdvanceInbound(r)
        \/ DrainOutbound(r) \/ SkipOwn(r) \/ PushInbound(r) \/ PushSyncInbound(r)
        \/ \E up \in BOOLEAN : SetRelayConnected(r, up)
        \/ Pass(r)

Spec == Init /\ [][Next]_vars

-----------------------------------------------------------------------------
(* Every map holds versions, an event_sequence counts the writes of its own    *)
(* browser and never a merge, and only a message that waits has been polled.   *)
TypeOK ==
    /\ notes \in [Replicas -> [Notes -> Version \cup {None}]]
    /\ clock \in [Replicas -> 0..MaxTime] /\ connected \in [Replicas -> BOOLEAN]
    /\ outbound \in [Replicas -> Seq(1..Len(writes))] /\ polled \in [Replicas -> BOOLEAN]
    /\ relay \in Seq(1..Len(writes)) /\ cursor \in [Replicas -> 0..Len(relay)]
    /\ inbound \in [Replicas -> Seq(1..Len(relay))]
    /\ \A r \in Replicas : /\ inbound[r] \in Seq(1..cursor[r])
                           /\ polled[r] => inbound[r] # <<>>
    /\ writes \in Seq(Sync) /\ lost \subseteq Notes
    /\ sequence = [r \in Replicas |-> Cardinality({i \in 1..Len(writes) : writes[i].by = r})]

\* Everything broadcast has reached everybody.
Settled == \A r \in Replicas : outbound[r] = <<>> /\ inbound[r] = <<>> /\ ~Unread(r)

\* No two browsers stamped a write of the note with the same time, and none stamped one
\* with an earlier time than the version it replaced.
WellStamped(n) ==
    \A i, j \in {k \in 1..Len(writes) : writes[k].note = n} :
        /\ writes[i].at = writes[j].at => writes[i].by = writes[j].by
        /\ writes[i].over # None => writes[i].over.at <= writes[i].at

(* Once everything has been delivered the browsers show the same notes with    *)
(* the same content: for every note of which no write was refused by a         *)
(* disconnected plugin, no two browsers wrote at the same time, and no clock   *)
(* was behind the version it wrote over.  Writes may be concurrent, and a      *)
(* polled message that is not advanced yet may be shown to the sentant again   *)
(* (the merge under SYNC_RESULT).                                              *)
Convergence ==
    Settled =>
        \A n \in Notes \ lost : WellStamped(n) =>
            \A r, s \in Replicas :
                /\ n \in Active(r) <=> n \in Active(s)
                /\ n \in Active(r) => notes[r][n] = notes[s][n]
=============================================================================
