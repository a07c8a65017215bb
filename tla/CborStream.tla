----------------------------- MODULE CborStream -----------------------------
(* One r2-cbor payload: written item by item into the caller's fixed buffer    *)
(* and read back by the streaming decoder in Compact mode.                     *)
(*                                                                             *)
(* The buffer is a sequence of units.  An item is a head, an argument of       *)
(* item.wide units and, for strings and floats, item.n units of data; the      *)
(* encoder writes each of the three whole or not at all.  Negative integers    *)
(* are laid out as unsigned ones, byte strings as text.  The writer's own      *)
(* account of what is open is kept beside it as history.                       *)
EXTENDS Naturals, Sequences

CONSTANTS Rooms,        \* buffer sizes
          MaxNesting,   \* 8 levels of the decoder
          MaxItems,     \* bound on the items of a free-hand document
          Counts,       \* entries of arrays and maps
          Lengths,      \* lengths of strings
          WideArg       \* units of a long argument

ASSUME StreamAssumption ==
    /\ Rooms \subseteq Nat \ {0} /\ MaxNesting \in Nat \ {0} /\ MaxItems \in Nat \ {0}
    /\ Counts \subseteq Nat /\ Lengths \subseteq Nat /\ WideArg \in Nat \ {0}

VARIABLES caller,       \* who writes: "any", "lenient" or a function of the page
          plan,         \* what a caller with a fixed document has left to write
          room, out,    \* Encoder: the buffer's size and what is written
          doc, open,    \* history: the items asked for, and what they leave open
          refused,      \* history: the encoder said BufferFull
          oddities,     \* history: "string key", "other key", "too deep"
          at, levels,   \* Decoder: position and nesting stack
          items,        \* what the decoder returned
          outcome       \* writing, reading, or how it ended

streamVars == <<caller, plan, room, out, doc, open, refused, oddities,
                at, levels, items, outcome>>

-----------------------------------------------------------------------------
(* Items and their layout. *)

Plain(kind, n) == [kind |-> kind, n |-> n, wide |-> 0]
Integer(n, wide) == [kind |-> "int", n |-> n, wide |-> wide]

Items == {Integer(n, w) : n \in 0..1, w \in {0, WideArg}} \cup {Plain("simple", 0), Plain("float", 2)}
         \cup {Plain("text", n) : n \in Lengths}
         \cup {Plain(kind, n) : kind \in {"array", "map"}, n \in Counts}

IsContainer(item) == item.kind \in {"array", "map"}
DataLen(item) == IF item.kind \in {"text", "float"} THEN item.n ELSE 0

\* head(major, val): a byte, then the argument; value(): then the data
Parts(item) == << << <<"head", item>> >>,
                  [i \in 1..item.wide |-> <<"arg", item>>],
                  [i \in 1..DataLen(item) |-> <<"data", item>>] >>

\* The units of an item up to the first part that does not fit.
Written(buffer, item) ==
    LET one == buffer \o Parts(item)[1]
        two == one \o Parts(item)[2]
        three == two \o Parts(item)[3]
        fitting == {b \in {buffer, one, two, three} : Len(b) <= room}
    IN CHOOSE b \in fitting : \A other \in fitting : Len(other) <= Len(b)

-----------------------------------------------------------------------------
(* Nesting stacks: a level holds how many items it still expects. *)

Level(item) == [map |-> item.kind = "map",
                left |-> IF item.kind = "map" THEN 2 * item.n ELSE item.n]

\* Without the finished levels on top.
Unfinished(stack) ==
    LET live == {i \in DOMAIN stack : stack[i].left > 0}
    IN SubSeq(stack, 1, IF live = {} THEN 0 ELSE CHOOSE i \in live : \A j \in live : j <= i)

Charged(stack) ==
    IF stack = <<>> THEN <<>>
    ELSE [stack EXCEPT ![Len(stack)].left = @ - 1]

\* Mutant: the items of a finished level are charged to nobody.
MutAdvance(stack) == IF stack = <<>> \/ stack[Len(stack)].left = 0 THEN stack ELSE Charged(stack)

\* advance_nesting: pops what is finished and charges the item to the next level
Advance(stack) == Charged(Unfinished(stack))

\* The level on top is a map with an even number of items to come.
TopIsKey(stack) ==
    /\ stack # <<>>
    /\ stack[Len(stack)].map /\ stack[Len(stack)].left > 0 /\ stack[Len(stack)].left % 2 = 0

-----------------------------------------------------------------------------
(* The encoder's callers in the page, each of which hands over nothing when    *)
(* the encoder refuses.                                                        *)

Fields(values) == [i \in 1..(2 * Len(values)) |->
                      IF i % 2 = 1 THEN Integer((i - 1) \div 2, 0) ELSE values[i \div 2]]

NoteEvent(content) ==
    LET head == <<Integer(1, 0), Integer(2, WideArg), Integer(3, WideArg)>>
        values == IF content = 0 THEN head ELSE Append(head, Plain("text", content))
    IN <<Plain("map", Len(values))>> \o Fields(values)

IntMap(n) == <<Plain("map", n)>> \o Fields([i \in 1..n |-> Integer(1, WideArg)])

NotePayload(length) ==
    <<Plain("map", 4)>> \o Fields([i \in 1..3 |-> Plain("text", length)] \o <<Integer(1, WideArg)>>)

NoteIdPayload(length) ==
    <<Plain("map", 2)>> \o Fields(<<Plain("text", length), Integer(1, WideArg)>>)

\* The notekeeper, which ignores every error after the first header.
NoteChanged(length) ==
    <<Plain("map", 5)>> \o Fields([i \in 1..3 |-> Plain("text", length)]
                                  \o <<Integer(1, WideArg), Plain("simple", 0)>>)

Plans == [who : {"note event"}, items : {NoteEvent(n) : n \in Lengths}]
         \cup [who : {"page"}, items : {IntMap(n) : n \in Counts}
                                       \cup {NotePayload(n) : n \in Lengths}
                                       \cup {NoteIdPayload(n) : n \in Lengths}]
         \cup [who : {"lenient"}, items : {NoteChanged(n) : n \in Lengths}]
         \cup [who : {"any"}, items : {<<Plain("map", n)>> : n \in Counts}]

Strict == {"note event", "page"}

-----------------------------------------------------------------------------
StreamInit ==
    /\ room \in Rooms
    /\ \E p \in Plans : caller = p.who /\ plan = p.items
    /\ out = <<>> /\ doc = <<>> /\ open = <<>> /\ refused = FALSE /\ oddities = {}
    /\ at = 0 /\ levels = <<>> /\ items = <<>> /\ outcome = "writing"

Oddities(item) ==
    (IF ~TopIsKey(open) \/ item.kind = "int" THEN {}
     ELSE IF item.kind = "text" THEN {"string key"} ELSE {"other key"})
    \cup (IF IsContainer(item) /\ Len(open) >= MaxNesting THEN {"too deep"} ELSE {})

(* One call of the encoder.  A refused item leaves the parts that did fit.     *)
Encode(item) ==
    /\ outcome = "writing"
    /\ LET whole == out \o Parts(item)[1] \o Parts(item)[2] \o Parts(item)[3]
           charged == Charged(open)
       IN /\ out' = Written(out, item)
          /\ doc' = Append(doc, item)
          /\ open' = Unfinished(IF IsContainer(item) THEN Append(charged, Level(item)) ELSE charged)
          /\ oddities' = oddities \cup Oddities(item)
          /\ refused' = (refused \/ Written(out, item) # whole)
          /\ outcome' = IF Written(out, item) # whole /\ caller \in Strict
                        THEN "given up" ELSE "writing"
    /\ UNCHANGED <<caller, room, at, levels, items>>

WritePlanned ==
    /\ plan # <<>>
    /\ Encode(Head(plan))
    /\ plan' = Tail(plan)

\* kv, value, uint, negint, text, map, array in any order a document allows
WriteNext(item) ==
    /\ caller = "any" /\ plan = <<>>
    /\ open # <<>> /\ Len(doc) < MaxItems
    /\ Encode(item)
    /\ UNCHANGED plan

\* as_bytes: a caller may stop early, but not before its root
HandOver ==
    /\ outcome = "writing" /\ plan = <<>>
    /\ outcome' = "reading"
    /\ UNCHANGED <<caller, plan, room, out, doc, open, refused, oddities, at, levels, items>>

-----------------------------------------------------------------------------
\* at_map_key
AtMapKey == TopIsKey(levels)

\* Mutant: what ends beyond the buffer is cut short.
MutTake(from, n) == IF from + n > Len(out) THEN Len(out) - from ELSE n

\* take_byte, take_slice, argument: the units taken, none of them when Truncated
Take(from, n) == IF from + n > Len(out) THEN 0 ELSE n

(* Decoder::next on the item whose head is at the position.  A container is    *)
(* charged to the level above and opens a level of its own while there is one. *)
ReadNext ==
    /\ outcome = "reading" /\ at < Len(out)
    /\ LET item == out[at + 1][2]
           charged == Advance(levels)
           taken == Take(at, 1 + item.wide + DataLen(item))
           rejected == item.kind = "text" /\ AtMapKey
       IN \/ /\ rejected \/ taken = 0
             /\ outcome' = IF rejected THEN "StringKeyInCompactMode" ELSE "Truncated"
             /\ UNCHANGED <<at, levels, items>>
          \/ /\ ~rejected /\ taken > 0
             /\ at' = at + taken
             /\ items' = Append(items, item)
             /\ levels' = IF IsContainer(item) /\ Len(charged) < MaxNesting
                          THEN Append(charged, Level(item)) ELSE charged
             /\ UNCHANGED outcome
    /\ UNCHANGED <<caller, plan, room, out, doc, open, refused, oddities>>

\* is_done
ReadAll ==
    /\ outcome = "reading" /\ at >= Len(out)
    /\ outcome' = "read"
    /\ UNCHANGED <<caller, plan, room, out, doc, open, refused, oddities, at, levels, items>>

StreamNext == WritePlanned \/ (\E item \in Items : WriteNext(item)) \/ HandOver
              \/ ReadNext \/ ReadAll

StreamSpec == StreamInit /\ [][StreamNext]_streamVars

-----------------------------------------------------------------------------
\* has_pending_items
Pending == \E i \in DOMAIN levels : levels[i].left > 0

(* cbor_decode_note_event: of the pairs after the root, the last value of the  *)
(* kind expected under a key; <<>> is the default.                             *)
NoteEventRead(key, kind) ==
    LET hits == {i \in 1..(Len(items) - 1) \div 2 :
                    items[2 * i] = Integer(key, 0) /\ items[2 * i + 1].kind = kind}
    IN IF hits = {} THEN <<>>
       ELSE <<items[2 * (CHOOSE i \in hits : \A j \in hits : j <= i) + 1]>>

(* Whatever the encoder refused, the reader finds out: a document that lost an *)
(* item or a part of one either fails to decode or leaves items pending, as    *)
(* long as it is no deeper than the decoder's stack (the callers in            *)
(* notekeeper.rs write on after an error and send what is in the buffer).      *)
OverflowIsSeen ==
    outcome = "read" /\ refused /\ "too deep" \notin oddities => Pending

(* A document that fits, has no string keys and is no deeper than the decoder's *)
(* stack is read back item by item, never with an error, and items are pending *)
(* at its end exactly when the writer left something open; what the page reads *)
(* from a note event is what it wrote.                                         *)
ReadsBack ==
    ~refused /\ oddities \subseteq {"other key"} =>
        /\ outcome \in {"writing", "reading", "read"}
        /\ items = SubSeq(doc, 1, Len(items))
        /\ outcome = "read" => items = doc /\ (Pending <=> open # <<>>)
        /\ outcome = "read" /\ caller = "note event" =>
               /\ \A key \in 0..2 : NoteEventRead(key, "int") = <<doc[2 * key + 3]>>
               /\ NoteEventRead(3, "text") = SubSeq(doc, 9, Len(doc))

(* decode.rs:45: "In Mode::Compact, string keys in maps are rejected".         *)
StringKeysAreRejected ==
    outcome = "read" /\ ~refused => oddities # {"string key"}
=============================================================================
