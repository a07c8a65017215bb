------------------------------ MODULE MCCodecs ------------------------------
(* The three codecs side by side, one of them at work in a behaviour and the   *)
(* other two in one of their initial states.                                   *)
(*                                                                             *)
(* r2-wire: two hives, payloads of up to two units, two ids, one of them       *)
(* beyond 16 bits, routes of up to three entries, so that the limit turns a    *)
(* relay away, and room in the compact form for all frames but the longest.    *)
(* r2-cbor: two levels of nesting under documents of up to five items, so that *)
(* the stack overflows, and buffers that end in every part of an item.         *)
(* r2-trust: payloads one longer than their length field can say, four words.  *)
EXTENDS WireFrames, CborStream, TrustForms

VARIABLE subject

MCHives == {<<1, 1>>, <<2, 1>>}
MCPayloads == {<<>>, << <<"data", 1>> >>, << <<"data", 1>>, <<"data", 2>> >>}
MCKs == {2, 3}

MCWire == Sent([form |-> "compact", hive |-> <<1, 1>>, routed |-> FALSE, signed |-> FALSE,
                id |-> 1, ttl |-> 0, k |-> 2, target |-> <<0>>, payload |-> <<>>])
MCStream == StreamInit /\ caller = "any" /\ plan = IntMap(0) /\ room = 3
MCForms == Travels("request", Request)

MCInit ==
    \/ subject = "wire" /\ WireInit /\ MCStream /\ MCForms
    \/ subject = "stream" /\ MCWire /\ StreamInit /\ MCForms
    \/ subject = "forms" /\ MCWire /\ MCStream /\ FormsInit

MCNext ==
    /\ UNCHANGED subject
    /\ \/ subject = "wire" /\ WireNext /\ UNCHANGED <<streamVars, formVars>>
       \/ subject = "stream" /\ StreamNext /\ UNCHANGED <<wireVars, formVars>>
       \/ subject = "forms" /\ FormsNext /\ UNCHANGED <<wireVars, streamVars>>

MCSpec == MCInit /\ [][MCNext]_<<subject, wireVars, streamVars, formVars>>
=============================================================================
