----------------------------- MODULE WireFrames -----------------------------
(* One frame of r2-wire on its way through the mesh: encoded by its originator *)
(* in the compact form (BLE, LoRa) or the extended form (TCP, WiFi), relayed,  *)
(* transcoded by gateways between the two forms, cut short by a link, and      *)
(* decoded and classified by whoever holds it.                                 *)
(*                                                                             *)
(* A body is a sequence of units, one for two bytes of a route entry, for the  *)
(* route length, for a piece of payload and for a piece of the tag: enough to  *)
(* see where decoders cut it up.  The type and the event hash, which nobody    *)
(* changes, are left out.  The MAC is taken to be ideal.                       *)
EXTENDS Naturals, Sequences

CONSTANTS HiveIds,      \* hive ids: pairs of 16-bit halves <<high, low>>
          Targets,      \* target addresses, 0 among them
          Payloads,     \* payloads: sequences of data units
          Ids,          \* message ids of extended frames
          IdSpace,      \* 2^16
          Flood,        \* K = 15
          MaxTtl, Ks,
          MaxRoute,     \* 8 entries
          CompactRoom   \* the 256-byte buffer of transcode_to_compact, in body units

ASSUME WireAssumption ==
    /\ HiveIds \subseteq Nat \X Nat /\ Targets \subseteq Nat /\ 0 \in Targets
    /\ Ids \subseteq Nat
    /\ Payloads \subseteq Seq({"data"} \X Nat)
    /\ IdSpace \in Nat \ {0} /\ MaxTtl \in Nat /\ Ks \subseteq 0..Flood /\ Flood \in Nat
    /\ MaxRoute \in Nat \ {0} /\ CompactRoom \in Nat

VARIABLES frame,        \* the bytes on the wire
          original,     \* history: what the originator sent
          holder,       \* the hive that sends the frame next
          relays,       \* history: relays so far
          narrowed,     \* history: transcoded to compact at least once
          cut           \* history: the form in which the frame was last cut short

wireVars == <<frame, original, holder, relays, narrowed, cut>>

Forms == {"compact", "extended"}
EntryLen == [f \in Forms |-> IF f = "compact" THEN 1 ELSE 2]
TagLen == [f \in Forms |-> IF f = "compact" THEN 2 ELSE 4]

-----------------------------------------------------------------------------
(* Encoding. *)

\* What a receiver of the compact form learns of a hive id: the high half.
High(h) == <<h[1], 0>>

EntryUnits(form, h) == IF form = "compact" THEN << <<"half", h[1]>> >>
                       ELSE << <<"half", h[1]>>, <<"half", h[2]>> >>

\* The route field: absent, or a length and the entries.
RouteUnits(form, route) ==
    IF route = <<>> THEN <<>>
    ELSE LET w == EntryLen[form]
         IN << <<"len", Len(route)>> >> \o
            [i \in 1..(w * Len(route)) |->
                EntryUnits(form, route[1 + (i - 1) \div w])[1 + ((i - 1) % w)]]

Body(form, route, payload, tag) == RouteUnits(form, route) \o payload \o tag

\* The header, then route, payload and tag one after the other.
EncodeCompact(header, route, payload, tag) ==
    [form |-> "compact", routed |-> route # <<>>, signed |-> tag # <<>>,
     ttl |-> header.ttl, k |-> header.k, id |-> header.id, target |-> header.target,
     size |-> 0, body |-> Body("compact", route, payload, tag)]

\* The same with payload_len in the header.
EncodeExtended(header, route, payload, tag) ==
    [form |-> "extended", routed |-> route # <<>>, signed |-> tag # <<>>,
     ttl |-> header.ttl, k |-> header.k, id |-> header.id, target |-> header.target,
     size |-> header.size, body |-> Body("extended", route, payload, tag)]

-----------------------------------------------------------------------------
(* Decoding. *)

RouteCount(f) == IF f.routed /\ f.body # <<>> THEN f.body[1][2] ELSE 0

\* Where the payload begins, and where it ends: a tag is the last bytes of the frame.
Start(f) == IF f.routed THEN 1 + RouteCount(f) * EntryLen[f.form] ELSE 0

End(f) == IF f.signed THEN Len(f.body) - TagLen[f.form] ELSE Len(f.body)

Route(f) ==
    [i \in 1..RouteCount(f) |->
        IF f.form = "compact" THEN <<f.body[1 + i][2], 0>>
        ELSE <<f.body[2 * i][2], f.body[2 * i + 1][2]>>]
Payload(f) == SubSeq(f.body, Start(f) + 1, End(f))
Tag(f) == IF f.signed THEN SubSeq(f.body, End(f) + 1, Len(f.body)) ELSE <<>>

DecodesCompact(f) ==
    /\ f.routed => f.body # <<>> /\ RouteCount(f) \in 1..MaxRoute
    /\ Start(f) <= End(f)

\* Mutant: payload_len is not compared.
MutDecodesExtended(f) == DecodesCompact(f)

\* The same, and payload_len has to agree.
DecodesExtended(f) == DecodesCompact(f) /\ End(f) - Start(f) = f.size

Decodes(f) == IF f.form = "compact" THEN DecodesCompact(f) ELSE DecodesExtended(f)

-----------------------------------------------------------------------------
(* Signing and classification. *)

\* The bytes under the tag: type, event, the one or two target fields, payload.
AuthenticatedCompact(target, payload) == << <<"to", target[1]>> >> \o payload

AuthenticatedExtended(target, payload) ==
    << <<"to", target[1]>>, <<"to", target[2]>> >> \o payload

\* mac_compact and mac_extended: the same MAC, whole or its first 8 bytes
Mac(form, bytes) == [i \in 1..TagLen[form] |-> <<"mac", i, bytes>>]

SignCompact(f) == Mac("compact", AuthenticatedCompact(f.target, Payload(f)))
SignExtended(f) == Mac("extended", AuthenticatedExtended(f.target, Payload(f)))

\* hmac_compact_tag and hmac_extended_tag: decode, then sign what was decoded
TagFor(f) == IF f.form = "compact" THEN SignCompact(f) ELSE SignExtended(f)

\* The caller appends the tag and sets the flag.
Signed(f) == [f EXCEPT !.signed = TRUE, !.body = @ \o TagFor(f)]

Verify(f) == f.signed /\ Tag(f) = TagFor(f)

\* By a holder of the group key; a hive without it only ever says "Relay".
Classify(f) ==
    IF ~f.signed THEN "Unauthenticated"
    ELSE IF Verify(f) THEN "SameGroup" ELSE "Drop"

-----------------------------------------------------------------------------
(* The compact form of an originator has one target. *)
TargetsOf(form) == IF form = "compact" THEN {<<t>> : t \in Targets}
                   ELSE {<<g, h>> : g, h \in Targets}

Origins == [form : Forms, hive : HiveIds, routed : BOOLEAN, signed : BOOLEAN, id : Ids,
            ttl : 0..MaxTtl, k : Ks, target : UNION {TargetsOf(f) : f \in Forms},
            payload : Payloads]

Admissible(o) ==
    /\ o.target \in TargetsOf(o.form)
    /\ o.form = "compact" => o.id < IdSpace

FirstCompact(o) ==
    EncodeCompact([ttl |-> o.ttl, k |-> o.k, id |-> o.id, target |-> o.target],
                  IF o.routed THEN <<High(o.hive)>> ELSE <<>>, o.payload, <<>>)

FirstExtended(o) ==
    EncodeExtended([ttl |-> o.ttl, k |-> o.k, id |-> o.id, target |-> o.target,
                    size |-> Len(o.payload)],
                   IF o.routed THEN <<o.hive>> ELSE <<>>, o.payload, <<>>)

FirstFrame(o) ==
    LET plain == IF o.form = "compact" THEN FirstCompact(o) ELSE FirstExtended(o)
    IN IF o.signed THEN Signed(plain) ELSE plain

Sent(o) ==
    /\ Admissible(o)
    /\ original = o /\ frame = FirstFrame(o) /\ holder = o.hive
    /\ relays = 0 /\ narrowed = FALSE /\ cut = "no"

WireInit == \E o \in Origins : Sent(o)

-----------------------------------------------------------------------------
\* Mutant: the flood sentinel is halved like any other budget.
MutHalved(k) == k \div 2

\* floor(K/2), and 15 stays 15
Halved(k) == IF k = Flood THEN Flood ELSE k \div 2

\* The stack to append to: a frame without one gets its transport source.
StackOf(f) == IF f.routed THEN Route(f) ELSE <<holder>>

(* prepare_relay_extended on hive own, for a frame it has from the holder.     *)
(* The tag is copied as it is.                                                 *)
PrepareRelay(own) ==
    /\ frame.form = "extended" /\ Decodes(frame)
    /\ frame.ttl > 0
    /\ Len(StackOf(frame)) < MaxRoute
    /\ frame' = EncodeExtended(
                       [frame EXCEPT !.ttl = frame.ttl - 1, !.k = Halved(frame.k)],
                       Append(StackOf(frame), own), Payload(frame), Tag(frame))
    /\ holder' = own
    /\ relays' = relays + 1
    /\ UNCHANGED <<original, narrowed, cut>>

\* 8 bytes to 32, zeros after them
Widen(tag) == IF tag = <<>> THEN <<>> ELSE tag \o << <<"zero">>, <<"zero">> >>

\* transcode_compact_to_extended on a gateway: no TTL, no route entry of its own
ToExtended(gateway) ==
    /\ frame.form = "compact" /\ Decodes(frame)
    /\ frame' = EncodeExtended(
                       [frame EXCEPT !.target = <<frame.target[1], 0>>,
                                     !.size = Len(Payload(frame))],
                       Route(frame), Payload(frame), Widen(Tag(frame)))
    /\ holder' = gateway
    /\ UNCHANGED <<original, relays, narrowed, cut>>

\* the first 8 of 32 bytes
Narrow(tag) == IF tag = <<>> THEN <<>> ELSE SubSeq(tag, 1, TagLen["compact"])

\* target_group if nonzero, else target_hive
OneTarget(target) == IF target[1] # 0 THEN target[1] ELSE target[2]

\* Mutant: the id keeps its high half.
MutNarrowId(id) == id \div IdSpace

\* msg_id as u16
NarrowId(id) == id % IdSpace

\* transcode_extended_to_compact: the high halves of the entries and the short tag
ToCompact(gateway) ==
    /\ frame.form = "extended" /\ Decodes(frame)
    /\ LET narrow == EncodeCompact(
                            [frame EXCEPT !.target = <<OneTarget(frame.target)>>,
                                          !.id = NarrowId(frame.id)],
                            Route(frame), Payload(frame),
                            Narrow(Tag(frame)))
       IN Len(narrow.body) <= CompactRoom /\ frame' = narrow
    /\ holder' = gateway
    /\ narrowed' = TRUE
    /\ UNCHANGED <<original, relays, cut>>

\* A link that loses the end of a frame.
Cut(n) ==
    /\ n \in 1..Len(frame.body)
    /\ frame' = [frame EXCEPT !.body = SubSeq(@, 1, Len(@) - n)]
    /\ cut' = frame.form
    /\ UNCHANGED <<original, holder, relays, narrowed>>

WireNext ==
    \/ \E h \in HiveIds \ {holder} : PrepareRelay(h) \/ ToExtended(h) \/ ToCompact(h)
    \/ \E n \in 1..Len(frame.body) : Cut(n)

WireSpec == WireInit /\ [][WireNext]_wireVars

-----------------------------------------------------------------------------
(* A frame in flight has the header and the body of its form, and at most the  *)
(* route entries the format allows; its K never grows.                         *)
WireTypeOK ==
    /\ original \in Origins /\ Admissible(original)
    /\ holder \in HiveIds /\ relays \in 0..MaxTtl
    /\ narrowed \in BOOLEAN /\ cut \in Forms \cup {"no"}
    /\ frame.form \in Forms
    /\ frame.target \in TargetsOf(frame.form)
    /\ RouteCount(frame) <= MaxRoute
    /\ frame.form = "compact" => frame.id < IdSpace
    /\ frame.k <= original.k /\ (original.k = Flood => frame.k = Flood)

(* Through any sequence of relays and transcodings a frame no link has cut     *)
(* still decodes, to the payload it was sent with, the message id up to its 16 *)
(* low bits, the one target both forms can name, a TTL that has paid for every *)
(* relay, and a route that starts at its originator and has one more entry per *)
(* relay (prepare_relay_extended and the transcoders re-encode the whole       *)
(* frame).                                                                     *)
ContentIsCarried ==
    cut = "no" =>
        /\ Decodes(frame)
        /\ Payload(frame) = original.payload
        /\ frame.id % IdSpace = original.id % IdSpace
        /\ (Len(original.target) = 1 \/ narrowed) =>
               frame.target[1] = (IF Len(original.target) = 1 THEN original.target[1]
                                  ELSE OneTarget(original.target))
        /\ frame.ttl + relays = original.ttl
        /\ original.routed => /\ High(Route(frame)[1]) = High(original.hive)
                            /\ Len(Route(frame)) = 1 + relays

(* A signed frame verifies in the form it was signed in and in no other, a     *)
(* compact one again after any number of detours through the extended form, an *)
(* extended one never again once it has been compact; a frame that verifies is *)
(* the originator's, cut or not; and an extended frame that was cut does not   *)
(* decode, so it can be neither relayed nor transcoded (classify_*, the        *)
(* payload_len check of decode_extended).                                      *)
TagsVouchForOrigin ==
    /\ original.signed /\ cut = "no" =>
           (Classify(frame) = "SameGroup" <=>
                /\ frame.form = original.form
                /\ original.form = "extended" => ~narrowed)
    /\ Decodes(frame) /\ Classify(frame) = "SameGroup" =>
           Payload(frame) = original.payload /\ frame.target = original.target /\ cut = "no"
    /\ cut = "extended" => ~Decodes(frame)
=============================================================================
