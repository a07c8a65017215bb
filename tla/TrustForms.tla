----------------------------- MODULE TrustForms -----------------------------
(* The byte forms of r2-trust and of the page: certificates, revocations,      *)
(* invites, join requests and responses, group messages, the stored member and *)
(* the stored trust group, invite links and invitation words.  One form at a   *)
(* time is written with the source's widths, damaged on its way or not, and    *)
(* read at the source's offsets.                                               *)
(*                                                                             *)
(* A byte is <<token, i>>: the i-th byte of what a token stands for.  Where    *)
(* the code copies bytes the token is opaque; where it converts a number or an *)
(* enumerator the token carries it.  Signatures and ciphers are taken to be    *)
(* ideal.                                                                      *)
EXTENDS Naturals, Sequences

CONSTANTS MaxPayload,   \* u16::MAX: what payload_len can say
          WordSpace,    \* 2^11 words
          Prefixes      \* 2^8 of them may come first

ASSUME FormsAssumption == MaxPayload \in Nat /\ WordSpace \in Nat \ {0} /\ Prefixes \in 1..WordSpace

VARIABLES kind,         \* which form
          record,       \* history: the record that was written
          bytes,        \* its bytes
          harm,         \* history: what happened to them
          got           \* the record that was read, once it was

formVars == <<kind, record, bytes, harm, got>>

Refused == [refused |-> TRUE]
NotYet == [refused |-> FALSE]

-----------------------------------------------------------------------------
(* Bytes. *)

KeyLen == 32
SignatureLen == 64
DeviceCertLen == 147
JoinCodeLen == 16

Bytes(token, n) == [i \in 1..n |-> <<token, i>>]
Code(name) == <<"code", name>>

\* bytes[from..to] as the token they are the bytes of
Value(s, from, to) ==
    IF \A i \in from+1..to : s[i] = <<s[from + 1][1], i - from>> THEN s[from + 1][1]
    ELSE <<"mixed">>
Byte(s, at) == Value(s, at, at + 1)

\* A length field; anything else reads as a number no form is as long as.
Size(s, from, to) ==
    LET v == IF to <= Len(s) THEN Value(s, from, to) ELSE <<"mixed">>
    IN IF v[1] = "size" THEN v[2] ELSE 1000 + MaxPayload

SigAlgos == {Code("classical")}
KemAlgos == {Code("classical")}
Levels == {Code("classical"), Code("hybrid")}
Roles == {Code("keyholder"), Code("member")}
Reasons == {Code("leave"), Code("removal"), Code("compromise")}
OpCodes == {Code(o) : o \in {"request", "response", "leave", "revoke", "rotation", "ack", "invite"}}
Version == Code("v")

\* An ideal signature covers the fields, without the signature itself.
Signature(signer, fields) == <<"sig", signer, [fields EXCEPT !.signature = <<"none">>]>>
SignedBy(signer, fields) == [fields EXCEPT !.signature = Signature(signer, fields)]
Verifies(signer, fields) == fields.signature = Signature(signer, fields)

GroupKey == <<"key", "group">>
Device == <<"key", "device">>
Issuer == <<"key", "issuer">>

-----------------------------------------------------------------------------
(* Certificates: 147 bytes.                                                    *)

Certificate(role) ==
    SignedBy(GroupKey, [version |-> Version, sig_algo |-> Code("classical"),
                        device_public_key |-> Device, trust_group_id |-> GroupKey,
                        role |-> role, issued_at |-> <<"time", 1>>,
                        expires_at |-> <<"time", 2>>, signature |-> <<"none">>])

WriteCertificate(c) ==
    Bytes(c.version, 1) \o Bytes(c.sig_algo, 1) \o Bytes(c.device_public_key, KeyLen)
    \o Bytes(c.trust_group_id, KeyLen) \o Bytes(c.role, 1) \o Bytes(c.issued_at, 8)
    \o Bytes(c.expires_at, 8) \o Bytes(c.signature, SignatureLen)

ReadCertificate(s) ==
    IF Len(s) # DeviceCertLen \/ Byte(s, 1) \notin SigAlgos \/ Byte(s, 66) \notin Roles THEN Refused
    ELSE [version |-> Byte(s, 0), sig_algo |-> Byte(s, 1),
          device_public_key |-> Value(s, 2, 34), trust_group_id |-> Value(s, 34, 66),
          role |-> Byte(s, 66), issued_at |-> Value(s, 67, 75),
          expires_at |-> Value(s, 75, 83), signature |-> Value(s, 83, 147)]

\* The version is compared here and not by the reader.
VerifyCertificate(c) == c.version = Version /\ Verifies(GroupKey, c)

-----------------------------------------------------------------------------
(* Revocations: 106 bytes.                                                     *)

Revocation(reason) ==
    SignedBy(GroupKey, [sig_algo |-> Code("classical"), device_public_key |-> Device,
                        revoked_at |-> <<"time", 1>>, reason |-> reason, signature |-> <<"none">>])

WriteRevocation(r) ==
    Bytes(r.sig_algo, 1) \o Bytes(r.device_public_key, KeyLen) \o Bytes(r.revoked_at, 8)
    \o Bytes(r.reason, 1) \o Bytes(r.signature, SignatureLen)

ReadRevocation(s) ==
    IF Len(s) # 106 \/ Byte(s, 0) \notin SigAlgos \/ Byte(s, 41) \notin Reasons THEN Refused
    ELSE [sig_algo |-> Byte(s, 0), device_public_key |-> Value(s, 1, 33),
          revoked_at |-> Value(s, 33, 41), reason |-> Byte(s, 41),
          signature |-> Value(s, 42, 106)]

VerifyRevocation(r) == Verifies(GroupKey, r)

-----------------------------------------------------------------------------
(* Join invites: 161 bytes, of which the first 97 are signed by the issuer     *)
(* they name.                                                                  *)

Invite(uses) ==
    SignedBy(Issuer, [invite_code |-> <<"joincode">>, trust_group_id |-> GroupKey,
                      issuer_pk |-> Issuer, created_at |-> <<"time", 1>>,
                      expires_at |-> <<"time", 2>>, max_uses |-> uses, signature |-> <<"none">>])

WriteInvite(v) ==
    Bytes(v.invite_code, JoinCodeLen) \o Bytes(v.trust_group_id, KeyLen) \o Bytes(v.issuer_pk, KeyLen)
    \o Bytes(v.created_at, 8) \o Bytes(v.expires_at, 8) \o Bytes(v.max_uses, 1)
    \o Bytes(v.signature, SignatureLen)

ReadInvite(s) ==
    IF Len(s) # 161 THEN Refused
    ELSE [invite_code |-> Value(s, 0, 16), trust_group_id |-> Value(s, 16, 48),
          issuer_pk |-> Value(s, 48, 80), created_at |-> Value(s, 80, 88),
          expires_at |-> Value(s, 88, 96), max_uses |-> Byte(s, 96),
          signature |-> Value(s, 97, 161)]

\* At time 1: max_uses, the expiry, then the signature against the inline key.
VerifyInvite(v) ==
    /\ v.max_uses # <<"uses", 0>>
    /\ v.expires_at = <<"time", 2>>
    /\ Verifies(v.issuer_pk, v)

-----------------------------------------------------------------------------
(* Join requests: 49 bytes.                                                    *)

Request == [kem_algo |-> Code("classical"), join_code |-> <<"joincode">>, nonce |-> <<"nonce">>]

WriteRequest(r) == Bytes(r.kem_algo, 1) \o Bytes(r.join_code, JoinCodeLen) \o Bytes(r.nonce, 32)

ReadRequest(s) ==
    IF Len(s) # 49 \/ Byte(s, 0) \notin KemAlgos THEN Refused
    ELSE [kem_algo |-> Byte(s, 0), join_code |-> Value(s, 1, 17), nonce |-> Value(s, 17, 49)]

-----------------------------------------------------------------------------
(* Join responses: a bundle of 212 bytes, sealed for the device and put behind *)
(* a nonce and a length.                                                       *)

Bundle(level) == [certificate |-> Certificate(Code("member")),
                  dek |-> <<"dek">>, hk |-> <<"hk">>, min_crypto_level |-> level]

WriteBundle(b) == WriteCertificate(b.certificate) \o Bytes(b.dek, KeyLen) \o Bytes(b.hk, KeyLen)
                  \o Bytes(b.min_crypto_level, 1)

\* Mutant: the two keys change places.
MutReadBundle(s) ==
    IF Len(s) # 212 \/ Byte(s, 211) \notin Levels THEN Refused
    ELSE [certificate |-> ReadCertificate(SubSeq(s, 1, DeviceCertLen)), dek |-> Value(s, 179, 211),
          hk |-> Value(s, 147, 179), min_crypto_level |-> Byte(s, 211)]

ReadBundle(s) ==
    IF \/ Len(s) # 212 \/ ReadCertificate(SubSeq(s, 1, DeviceCertLen)) = Refused
       \/ Byte(s, 211) \notin Levels
    THEN Refused
    ELSE [certificate |-> ReadCertificate(SubSeq(s, 1, DeviceCertLen)), dek |-> Value(s, 147, 179),
          hk |-> Value(s, 179, 211), min_crypto_level |-> Byte(s, 211)]

\* derive_join_key: the same on both sides, from a secret key and a public one
JoinKey(holder, device) == <<"joinkey", holder, device>>

\* encrypt_join_response and encrypt_with_dek: 16 bytes longer than the plaintext
Seal(key, nonce, plain, length) == Bytes(<<"sealed", key, nonce, plain, length>>, length + 16)

\* The ciphertext as a whole, under the key and the nonce it was sealed with.
Unsealed(key, nonce, s) ==
    LET c == IF s = <<>> THEN <<"mixed">> ELSE Value(s, 0, Len(s))
    IN IF c[1] = "sealed" /\ c[2] = key /\ c[3] = nonce /\ Len(s) = c[5] + 16 THEN <<c[4]>> ELSE <<>>

WriteResponse(b) ==
    LET sealed == Seal(JoinKey(GroupKey, Device), <<"nonce">>, b, Len(WriteBundle(b)))
    IN Bytes(<<"nonce">>, 24) \o Bytes(<<"size", Len(sealed)>>, 4) \o sealed

\* deserialize_encrypted_response takes ct_len bytes and does not look behind them
Container(s) ==
    IF Len(s) < 28 \/ Len(s) < 28 + Size(s, 24, 28) THEN Refused
    ELSE [nonce |-> Value(s, 0, 24), ciphertext |-> SubSeq(s, 29, 28 + Size(s, 24, 28))]

ReadResponse(s) ==
    LET box == Container(s)
        plain == IF box = Refused THEN <<>>
                 ELSE Unsealed(JoinKey(GroupKey, Device), box.nonce, box.ciphertext)
    IN IF plain = <<>> THEN Refused ELSE ReadBundle(WriteBundle(plain[1]))

-----------------------------------------------------------------------------
(* The stored member, 277 bytes, and the stored trust group, 38 bytes.         *)

\* from_join_response, of a certificate that verifies and is for this device
Member(b) == [device_key |-> Device, trust_group_public |-> GroupKey, certificate |-> b.certificate,
              dek |-> b.dek, hk |-> b.hk, min_crypto_level |-> b.min_crypto_level]

WriteMember(m) ==
    Bytes(Version, 1) \o Bytes(m.device_key, KeyLen) \o Bytes(m.trust_group_public, KeyLen)
    \o WriteCertificate(m.certificate) \o Bytes(m.dek, KeyLen) \o Bytes(m.hk, KeyLen)
    \o Bytes(m.min_crypto_level, 1)

ReadMember(s) ==
    IF \/ s = <<>> \/ Byte(s, 0) # Version \/ Len(s) # 277
       \/ ReadCertificate(SubSeq(s, 66, 212)) = Refused \/ Byte(s, 276) \notin Levels
    THEN Refused
    ELSE [device_key |-> Value(s, 1, 33), trust_group_public |-> Value(s, 33, 65),
          certificate |-> ReadCertificate(SubSeq(s, 66, 212)), dek |-> Value(s, 212, 244),
          hk |-> Value(s, 244, 276), min_crypto_level |-> Byte(s, 276)]

StoredGroup(level) == [signing_key |-> GroupKey, sequence |-> <<"sequence", 3>>,
                       min_crypto_level |-> level, members |-> {Device}]

WriteGroup(g) == Bytes(Version, 1) \o Bytes(g.signing_key, KeyLen) \o Bytes(g.sequence, 4)
                 \o Bytes(g.min_crypto_level, 1)

\* The members and the revocations are gone.
ReadGroup(s) ==
    IF s = <<>> \/ Byte(s, 0) # Version \/ Len(s) # 38 \/ Byte(s, 37) \notin Levels THEN Refused
    ELSE [signing_key |-> Value(s, 1, 33), sequence |-> Value(s, 33, 37),
          min_crypto_level |-> Byte(s, 37), members |-> {}]

-----------------------------------------------------------------------------
(* Group management messages: 81 bytes, the payload, and the signature.        *)

Message(opcode, payload) ==
    SignedBy(Device, [version |-> Version, sig_algo |-> Code("classical"), opcode |-> opcode,
                      trust_group_id |-> GroupKey, sender_pk |-> Device,
                      sequence |-> <<"sequence", 3>>, timestamp |-> <<"time", 1>>,
                      payload |-> payload, signature |-> <<"none">>])

\* payload.len() as u16
WriteMessage(m) ==
    Bytes(m.version, 1) \o Bytes(m.sig_algo, 1) \o Bytes(m.opcode, 1)
    \o Bytes(m.trust_group_id, KeyLen) \o Bytes(m.sender_pk, KeyLen) \o Bytes(m.sequence, 4)
    \o Bytes(m.timestamp, 8) \o Bytes(<<"size", Len(m.payload) % (MaxPayload + 1)>>, 2)
    \o m.payload \o Bytes(m.signature, SignatureLen)

\* GroupMgmtMessage::encode says PayloadTooLarge otherwise
Encodable(m) == Len(m.payload) <= MaxPayload

ReadMessage(s) ==
    LET n == Size(s, 79, 81)
    IN IF \/ Len(s) < 145 \/ Byte(s, 1) \notin SigAlgos \/ Byte(s, 2) \notin OpCodes
          \/ Len(s) # 81 + n + 64
       THEN Refused
       ELSE [version |-> Byte(s, 0), sig_algo |-> Byte(s, 1), opcode |-> Byte(s, 2),
             trust_group_id |-> Value(s, 3, 35), sender_pk |-> Value(s, 35, 67),
             sequence |-> Value(s, 67, 71), timestamp |-> Value(s, 71, 79),
             payload |-> SubSeq(s, 82, 81 + n), signature |-> Value(s, 81 + n, 81 + n + 64)]

\* By the key the caller knows the sender by.
VerifyMessage(m) == Verifies(Device, m)

-----------------------------------------------------------------------------
(* The page's own forms. *)

\* encrypt_with_dek and decrypt_with_dek: a nonce and the ciphertext
WriteSecret(plain) == Bytes(<<"nonce">>, 24) \o Seal(<<"dek">>, <<"nonce">>, plain, 8)

ReadSecret(s) ==
    LET plain == IF Len(s) < 40 THEN <<>>
                 ELSE Unsealed(<<"dek">>, Value(s, 0, 24), SubSeq(s, 25, Len(s)))
    IN IF plain = <<>> THEN Refused ELSE plain[1]

\* base64url without padding: three bytes are four characters, and a shorter rest
\* one character more than it has bytes
EncodeBase64(s) ==
    LET Rest(g) == SubSeq(s, 3 * g + 1, IF 3 * g + 3 > Len(s) THEN Len(s) ELSE 3 * g + 3)
        chars == Len(s) + (Len(s) + 2) \div 3
    IN [c \in 1..chars |-> << <<"group", Rest((c - 1) \div 4)>>, 1 + ((c - 1) % 4)>>]

\* Byte k of a group is in its characters k and k + 1; one character is one byte.
DecodeBase64(s) ==
    LET rest == Len(s) % 4
        count == 3 * (Len(s) \div 4) + (IF rest < 2 THEN rest ELSE rest - 1)
        Decoded(g, k) ==
            LET a == 4 * g + k
            IN IF a < Len(s) /\ s[a][1][1] = "group" /\ s[a][1] = s[a + 1][1]
                  /\ s[a][2] = k /\ s[a + 1][2] = k + 1 /\ k <= Len(s[a][1][2])
               THEN s[a][1][2][k] ELSE << <<"junk">>, 1>>
    IN [b \in 1..count |-> Decoded((b - 1) \div 3, 1 + ((b - 1) % 3))]

\* encode_invite and decode_invite: a public key and a join code
WriteLink(l) == EncodeBase64(Bytes(l.tg_public_key, KeyLen) \o Bytes(l.join_code, JoinCodeLen))

ReadLink(s) ==
    LET data == DecodeBase64(s)
    IN IF (\E c \in DOMAIN s : s[c][1] = Code("unknown")) \/ Len(data) # 48 THEN Refused
       ELSE [tg_public_key |-> Value(data, 0, 32), join_code |-> Value(data, 32, 48)]

\* encode_words: a prefix, and 22 bits of a code in two words
WordAt(n) == << <<"word", n>>, 1>>
WriteWords(w) == <<WordAt(w.prefix), WordAt((w.secret \div WordSpace) % WordSpace),
                   WordAt(w.secret % WordSpace)>>

\* decode_word_code and decode_words
ReadWords(s) ==
    IF \/ Len(s) # 3 \/ \E i \in DOMAIN s : s[i][1][1] # "word" \/ s[i][1][2] >= WordSpace
       \/ s[1][1][2] >= Prefixes
    THEN Refused
    ELSE [prefix |-> s[1][1][2], secret |-> s[2][1][2] * WordSpace + s[3][1][2]]

-----------------------------------------------------------------------------
Kinds == {"certificate", "revocation", "invite", "request", "bundle", "response", "member",
          "group", "message", "secret", "link", "words"}

RecordsOf(k) ==
    CASE k = "certificate" -> {Certificate(r) : r \in Roles}
      [] k = "revocation"  -> {Revocation(r) : r \in Reasons}
      [] k = "invite"      -> {Invite(<<"uses", n>>) : n \in 0..1}
      [] k = "request"     -> {Request}
      [] k \in {"bundle", "response"} -> {Bundle(l) : l \in Levels}
      [] k = "member"      -> {Member(Bundle(l)) : l \in Levels}
      [] k = "group"       -> {StoredGroup(l) : l \in Levels}
      [] k = "message"     -> {Message(o, Bytes(<<"payload">>, n)) :
                                 o \in OpCodes, n \in 0..MaxPayload + 1}
      [] k = "secret"      -> {[text |-> <<"text">>]}
      [] k = "link"        -> {[tg_public_key |-> GroupKey, join_code |-> <<"joincode">>]}
      [] k = "words"       -> [prefix : 0..Prefixes - 1, secret : 0..2 * WordSpace * WordSpace - 1]

WriteForm(k, r) ==
    CASE k = "certificate" -> WriteCertificate(r)
      [] k = "revocation"  -> WriteRevocation(r)
      [] k = "invite"      -> WriteInvite(r)
      [] k = "request"     -> WriteRequest(r)
      [] k = "bundle"      -> WriteBundle(r)
      [] k = "response"    -> WriteResponse(r)
      [] k = "member"      -> WriteMember(r)
      [] k = "group"       -> WriteGroup(r)
      [] k = "message"     -> WriteMessage(r)
      [] k = "secret"      -> WriteSecret(r)
      [] k = "link"        -> WriteLink(r)
      [] k = "words"       -> WriteWords(r)

ReadForm(k, s) ==
    CASE k = "certificate" -> ReadCertificate(s)
      [] k = "revocation"  -> ReadRevocation(s)
      [] k = "invite"      -> ReadInvite(s)
      [] k = "request"     -> ReadRequest(s)
      [] k = "bundle"      -> ReadBundle(s)
      [] k = "response"    -> ReadResponse(s)
      [] k = "member"      -> ReadMember(s)
      [] k = "group"       -> ReadGroup(s)
      [] k = "message"     -> ReadMessage(s)
      [] k = "secret"      -> ReadSecret(s)
      [] k = "link"        -> ReadLink(s)
      [] k = "words"       -> ReadWords(s)

Travels(k, r) ==
    /\ kind = k /\ record = r /\ bytes = WriteForm(k, r)
    /\ harm = "none" /\ got = NotYet

\* A member is only stored by one who received it.
FormsInit == \E k \in Kinds \ {"member"} : \E r \in RecordsOf(k) :
                 (k = "message" => Encodable(r)) /\ Travels(k, r)

-----------------------------------------------------------------------------
(* Transport and storage. *)

CutShort(n) ==
    /\ harm = "none" /\ got = NotYet /\ n < Len(bytes)
    /\ bytes' = SubSeq(bytes, 1, Len(bytes) - n)
    /\ harm' = "cut"
    /\ UNCHANGED <<kind, record, got>>

Extend ==
    /\ harm = "none" /\ got = NotYet
    /\ bytes' = Append(bytes, << <<"junk">>, 1>>)
    /\ harm' = "extended"
    /\ UNCHANGED <<kind, record, got>>

\* The first byte of a field becomes another one, a legal one or not.
Change(i, token) ==
    /\ harm = "none" /\ got = NotYet
    /\ i \in DOMAIN bytes /\ bytes[i][2] = 1 /\ bytes[i][1] # token
    /\ bytes' = [bytes EXCEPT ![i] = <<token, 1>>]
    /\ harm' = "changed"
    /\ UNCHANGED <<kind, record, got>>

Parse ==
    /\ got = NotYet
    /\ got' = ReadForm(kind, bytes)
    /\ UNCHANGED <<kind, record, bytes, harm>>

\* complete_join, then R2Member::to_bytes
Store ==
    /\ kind = "response" /\ got # NotYet /\ got # Refused
    /\ VerifyCertificate(got.certificate) /\ got.certificate.device_public_key = Device
    /\ kind' = "member" /\ record' = Member(got) /\ bytes' = WriteMember(Member(got))
    /\ harm' = "none" /\ got' = NotYet

Tokens == OpCodes \cup Levels \cup Roles \cup Reasons
          \cup {Code("unknown"), <<"junk">>, <<"size", 0>>, <<"uses", 2>>}
          \cup {<<"word", n>> : n \in 0..WordSpace}

FormsNext ==
    \/ \E n \in {1, 16} : CutShort(n)
    \/ Extend
    \/ \E i \in 1..300, token \in Tokens : Change(i, token)
    \/ Parse
    \/ Store

FormsSpec == FormsInit /\ [][FormsNext]_formVars

-----------------------------------------------------------------------------
SignedKinds == {"certificate", "revocation", "invite", "message"}
SealedKinds == {"response", "secret"}

Verified(k, r) ==
    CASE k = "certificate" -> VerifyCertificate(r)
      [] k = "revocation"  -> VerifyRevocation(r)
      [] k = "invite"      -> VerifyInvite(r)
      [] k = "message"     -> VerifyMessage(r)

\* What a reader is to get back: a stored group forgets its members, and of a
\* join code the words carry the bits they have room for.
Restored ==
    CASE kind = "group" -> [record EXCEPT !.members = {}]
      [] kind = "words" -> [record EXCEPT !.secret = @ % (WordSpace * WordSpace)]
      [] OTHER          -> record

(* An intact form is read back field by field, at offsets that agree with the  *)
(* order it was written in, and verifies unless it is an invite for no use; a  *)
(* form of another length is refused, except that a join response may have a   *)
(* tail; a changed one that was signed does not verify, one that was sealed     *)
(* is refused, and no enumerator out of range gets in (to_bytes, from_bytes,   *)
(* encode, decode, serialize_* and deserialize_* of r2-trust and r2-wasm).     *)
FormsReadBack ==
    got # NotYet =>
        /\ harm = "none" =>
               /\ got = Restored
               /\ kind \in SignedKinds => (Verified(kind, got) <=> record # Invite(<<"uses", 0>>))
        /\ harm \in {"cut", "extended"} =>
               got = (IF kind = "response" /\ harm = "extended" THEN Restored ELSE Refused)
        /\ harm = "changed" /\ got # Refused =>
               /\ kind \in SignedKinds => ~Verified(kind, got)
               /\ kind \notin SealedKinds
               /\ \A f \in DOMAIN got \cap {"sig_algo", "kem_algo", "min_crypto_level", "role",
                                            "reason", "opcode"} : got[f] # Code("unknown")
=============================================================================
