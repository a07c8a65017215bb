------------------------ MODULE TrustCeremonyProofs ------------------------
(***************************************************************************)
(* Proofs about TrustCeremony, for any devices, lifetimes and bounds.  The *)
(* inductive invariant says where a grant may be before it reaches its     *)
(* device: its code has left the group, the save puts it in the file       *)
(* before the send puts it on the air, and its sequence number is above    *)
(* those of all responses sent before.                                     *)
(*                                                                         *)
(* Then proofs about TrustForms, for any longest payload and word list: a  *)
(* written form is fields from its first byte to its last, each read at    *)
(* the offsets it was written at; a changed byte shows in one of them, and *)
(* a signature or a cipher covers them all.                                *)
(***************************************************************************)
EXTENDS TrustCeremony, TrustForms, Integers, SequenceTheorems, TLAPS

USE CeremonyAssumption

-----------------------------------------------------------------------------
(* What the operations of a group return. *)

\* An empty group is consistent.
LEMMA FreshConsistent ==
  /\ Consistent(Fresh)
  /\ Fresh.members = {} /\ Fresh.revoked = {} /\ Fresh.sequence = 0
  BY DEF Fresh, Consistent, Group, DevicesOf

\* A save keeps the group's sequence and, at the orchestrator, its members.
LEMMA SavedGroup ==
  ASSUME Consistent(group)
  PROVE  /\ Consistent(Saved)
         /\ Saved.sequence = group.sequence
         /\ custodian = "orchestrator" => Saved = group
<1>1. CASE custodian = "orchestrator"
  BY <1>1 DEF Saved
<1>2. CASE custodian # "orchestrator"
  <2>1. group.sequence \in Nat
    BY DEF Consistent, Group
  <2>2. Saved = [members |-> {}, revoked |-> {}, sequence |-> group.sequence]
    BY <1>2 DEF Saved, Fresh
  <2> QED BY <1>2, <2>1, <2>2 DEF Consistent, Group, DevicesOf
<1> QED BY <1>1, <1>2

\* A join adds one grant, of a device the group did not list, and one to the sequence.
LEMMA JoinedGroup ==
  ASSUME TypeOK, group # None, NEW d \in Devices, NEW c \in 1 .. Len(minted), Admissible(d)
  PROVE  LET g == NewGrant(d, c) gr == WithMember(g) IN
         /\ g \in Grant /\ g.device = d /\ g.code = c /\ g.at = clock
         /\ g.seq = group.sequence + 1 /\ group.sequence \in Nat
         /\ gr.members = group.members \cup {g}
         /\ gr.sequence = group.sequence + 1
         /\ Consistent(gr)
<1> DEFINE g == NewGrant(d, c) gr == WithMember(g)
<1>1. group \in Group /\ clock \in Nat /\ Consistent(group) /\ Len(minted) \in Nat
  BY DEF TypeOK, Consistent
<1>2. g \in Grant /\ g.device = d /\ g.code = c /\ g.at = clock /\ g.seq = group.sequence + 1
  BY <1>1 DEF NewGrant, Grant, Group
<1>3. /\ gr = [members |-> group.members \cup {g}, revoked |-> group.revoked,
               sequence |-> group.sequence + 1]
      /\ group.sequence \in Nat
  BY <1>1 DEF WithMember, Group
<1> HIDE DEF g, gr
<1>4. gr \in Group
  BY <1>1, <1>2, <1>3 DEF Group
<1>5. \A h, k \in gr.members : h.device = k.device => h = k
  BY <1>1, <1>2, <1>3 DEF Consistent, Admissible, DevicesOf
<1>6. DevicesOf(gr.members) \cap gr.revoked = {}
  BY <1>1, <1>2, <1>3 DEF Consistent, Admissible, DevicesOf
<1>7. Consistent(gr)
  BY <1>4, <1>5, <1>6 DEF Consistent
<1> QED BY <1>2, <1>3, <1>7 DEF g, gr

\* A revocation keeps the group consistent and adds one to the sequence.
LEMMA RevokedGroup ==
  ASSUME Consistent(group), NEW d \in Devices
  PROVE  /\ Consistent(Without(d))
         /\ Without(d).sequence = group.sequence + 1 /\ group.sequence \in Nat
<1>1. /\ Without(d) = [members |-> {g \in group.members : g.device # d},
                       revoked |-> group.revoked \cup {d}, sequence |-> group.sequence + 1]
      /\ group.sequence \in Nat
  BY DEF Without, Consistent, Group
<1>2. Without(d) \in Group
  BY <1>1 DEF Consistent, Group
<1> QED BY <1>1, <1>2 DEF Consistent, DevicesOf

\* A new code has a number no earlier code had; earlier expiries stay.
LEMMA MintedCodes ==
  ASSUME TypeOK, MintCode
  PROVE  /\ minted' \in Seq(Nat)
         /\ DOMAIN minted \subseteq DOMAIN minted'
         /\ \A c \in DOMAIN minted : minted'[c] = minted[c]
         /\ codes' \subseteq DOMAIN minted'
         /\ \A c \in codes' : c \in codes \/ c \notin DOMAIN minted
<1>1. /\ minted \in Seq(Nat) /\ codes \subseteq DOMAIN minted
      /\ clock + JoinCodeTtl \in Nat /\ Len(minted) \in Nat /\ DOMAIN minted = 1 .. Len(minted)
  BY DEF TypeOK
<1>2. minted' = Append(minted, clock + JoinCodeTtl)
  BY DEF MintCode
<1>3. /\ minted' \in Seq(Nat) /\ DOMAIN minted' = 1 .. (Len(minted) + 1)
      /\ \A c \in 1 .. Len(minted) : minted'[c] = minted[c]
  BY <1>1, <1>2
<1>4. \A c \in codes' : c \in codes \/ c = Len(minted) + 1
  BY DEF MintCode, Unexpired
<1> QED BY <1>1, <1>3, <1>4

-----------------------------------------------------------------------------
(* Type correctness. *)

\* The initial states have the types.
LEMMA InitTypeOK == Init => TypeOK
  BY FreshConsistent DEF Init, TypeOK, Custodian

\* Every step keeps the types.
LEMMA NextTypeOK == TypeOK /\ [Next]_vars => TypeOK'
<1> SUFFICES ASSUME TypeOK, [Next]_vars PROVE TypeOK'
  OBVIOUS
<1>1. CASE Tick
  BY <1>1 DEF Tick, TypeOK, files, wire
<1>2. CASE Open
  <2>1. group' # None => Consistent(group')
    BY <1>2, FreshConsistent DEF Open, Loaded, TypeOK
  <2>2. minted' \in Seq(Nat) /\ codes' \subseteq DOMAIN minted'
    BY <1>2, MintedCodes DEF Open, TypeOK
  <2> QED BY <1>2, <2>1, <2>2 DEF Open, TypeOK, files, wire
<1>3. CASE GenerateJoinCode
  BY <1>3, MintedCodes DEF GenerateJoinCode, TypeOK, files, wire
<1>4. CASE Save
  BY <1>4, SavedGroup DEF Save, TypeOK, wire
<1>5. CASE Send
  <2>1. codes' \subseteq DOMAIN minted'
    BY <1>5 DEF Send, TypeOK
  <2>2. group' # None => Consistent(group')
    BY <1>5 DEF Send, TypeOK
  <2>3. reply \in Grant
    BY <1>5 DEF Send, TypeOK
  <2> QED BY <1>5, <2>1, <2>2, <2>3 DEF Send, TypeOK, files
<1>6. CASE Close
  BY <1>6 DEF Close, TypeOK, files, wire
<1>7. CASE Flush
  BY <1>7 DEF Flush, TypeOK, wire
<1>8. CASE PowerLoss
  BY <1>8 DEF PowerLoss, TypeOK, wire
<1>9. ASSUME NEW d \in Devices, RevokeDevice(d) PROVE TypeOK'
  BY <1>9, RevokedGroup DEF RevokeDevice, TypeOK, files, wire
<1>10. ASSUME NEW d \in Devices, NEW c \in 1 .. Len(minted), Join(d, c) PROVE TypeOK'
  <2>1. Admissible(d) /\ group # None
    BY <1>10 DEF Join
  <2>2. group' = WithMember(NewGrant(d, c)) /\ reply' = NewGrant(d, c)
    BY <1>10 DEF Join
  <2>3. Consistent(group') /\ reply' \in Grant
    BY <2>1, <2>2, JoinedGroup
  <2>4. air' \cup sent' \cup admitted' \subseteq Grant
    BY <1>10, <2>2, <2>3 DEF Join, TypeOK, wire
  <2>5. codes' \subseteq DOMAIN minted'
    BY <1>10 DEF Join, Consumed, Unexpired, TypeOK
  <2> QED BY <1>10, <2>3, <2>4, <2>5 DEF Join, TypeOK, files, wire
<1>11. ASSUME NEW d \in Devices, NEW c \in 1 .. Len(minted), JoinRefused(d, c) PROVE TypeOK'
  BY <1>11 DEF JoinRefused, Consumed, Unexpired, TypeOK, files, wire
<1>12. ASSUME NEW g \in air, NEW d \in Devices, Deliver(g, d) PROVE TypeOK'
  <2>1. g \in Grant
    BY DEF TypeOK
  <2>2. keys' \in [Devices -> SUBSET Grant]
    BY <1>12, <2>1 DEF Deliver, TypeOK
  <2> QED BY <1>12, <2>2 DEF Deliver, TypeOK, files
<1>13. CASE UNCHANGED vars
  BY <1>13 DEF vars, TypeOK
<1> QED BY <1>1, <1>2, <1>3, <1>4, <1>5, <1>6, <1>7, <1>8, <1>9, <1>10, <1>11, <1>12, <1>13 DEF Next

\* TypeOK of TrustCeremony holds for every value of the constants.
THEOREM TypeCorrect == Spec => []TypeOK
<1>1. Init => TypeOK
  BY InitTypeOK
<1>2. TypeOK /\ [Next]_vars => TypeOK'
  BY NextTypeOK
<1> QED BY <1>1, <1>2, PTL DEF Spec

-----------------------------------------------------------------------------
(* Where a code is: a grant's code has left the group, and what the key        *)
(* holder is answering or has sent was granted.                                *)

CodeInv ==
  /\ KeysComeFromOneCode
  /\ \A g \in admitted : g.code \notin codes
  /\ reply \in admitted \cup {None}
  /\ phase # "serving" => reply \in admitted
  /\ sent \subseteq admitted

\* At the start there is no grant.
LEMMA InitCodeInv == Init => CodeInv
  BY DEF Init, CodeInv, KeysComeFromOneCode

\* Minting a code keeps the invariant: the new code admitted nobody yet.
LEMMA MintCodeInv ==
  ASSUME TypeOK, CodeInv, MintCode,
         UNCHANGED <<admitted, air, keys, sent, reply, phase>>
  PROVE  CodeInv'
<1>1. \A g \in admitted : g.code \in DOMAIN minted' /\ g.at < minted'[g.code]
  BY MintedCodes DEF CodeInv, KeysComeFromOneCode
<1>2. \A g \in admitted : g.code \notin codes'
  BY MintedCodes DEF CodeInv, KeysComeFromOneCode
<1> QED BY <1>1, <1>2 DEF CodeInv, KeysComeFromOneCode

\* A step that makes no grant, takes no bundle and mints no code keeps it.
LEMMA QuietCodeInv ==
  ASSUME CodeInv, UNCHANGED <<admitted, minted, keys>>, codes' \subseteq codes,
         reply' \in admitted \cup {None}, phase' # "serving" => reply' \in admitted,
         air' \subseteq admitted, sent' \subseteq admitted
  PROVE  CodeInv'
  BY DEF CodeInv, KeysComeFromOneCode

\* Every step keeps it.
LEMMA NextCodeInv == TypeOK /\ CodeInv /\ [Next]_vars => CodeInv'
<1> SUFFICES ASSUME TypeOK, CodeInv, [Next]_vars PROVE CodeInv'
  OBVIOUS
<1>0. /\ reply \in admitted \cup {None} /\ (phase # "serving" => reply \in admitted)
      /\ air \subseteq admitted /\ sent \subseteq admitted
  BY DEF CodeInv, KeysComeFromOneCode
<1>1. CASE Tick
  BY <1>1, <1>0, QuietCodeInv DEF Tick, files, wire
<1>2. CASE Open
  <2>1. CASE MintCode
    BY <1>2, <2>1, MintCodeInv DEF Open, wire
  <2>2. CASE ~MintCode
    BY <1>2, <2>2, <1>0, QuietCodeInv DEF Open, wire
  <2> QED BY <2>1, <2>2
<1>3. CASE GenerateJoinCode
  BY <1>3, MintCodeInv DEF GenerateJoinCode, wire
<1>4. CASE Save
  BY <1>4, <1>0, QuietCodeInv DEF Save, wire
<1>5. CASE Send
  BY <1>5, <1>0, QuietCodeInv DEF Send
<1>6. CASE Close
  BY <1>6, <1>0, QuietCodeInv DEF Close, wire
<1>7. CASE Flush
  BY <1>7, <1>0, QuietCodeInv DEF Flush, wire
<1>8. CASE PowerLoss
  BY <1>8, <1>0, QuietCodeInv DEF PowerLoss, wire
<1>9. ASSUME NEW d \in Devices, RevokeDevice(d) PROVE CodeInv'
  BY <1>9, <1>0, QuietCodeInv DEF RevokeDevice, wire
<1>10. ASSUME NEW d \in Devices, NEW c \in 1 .. Len(minted), Join(d, c) PROVE CodeInv'
  <2> DEFINE g == NewGrant(d, c)
  <2>1. g.code = c /\ g.at = clock
    BY <1>10, JoinedGroup DEF Join
  <2>2. c \in codes /\ clock < minted[c] /\ c \in DOMAIN minted
    BY <1>10 DEF Join, Valid, TypeOK
  <2>3. admitted' = admitted \cup {g} /\ reply' = g /\ minted' = minted
    BY <1>10 DEF Join
  <2>4. codes' \subseteq codes \ {c}
    BY <1>10 DEF Join, Consumed, Unexpired
  <2>5. \A h \in admitted : h.code # c
    BY <2>2 DEF CodeInv
  <2> HIDE DEF g
  <2>6. \A h, k \in admitted' : h.code = k.code => h = k
    BY <2>1, <2>3, <2>5 DEF CodeInv, KeysComeFromOneCode
  <2>7. \A h \in admitted' : h.code \in DOMAIN minted' /\ h.at < minted'[h.code]
    BY <2>1, <2>2, <2>3 DEF CodeInv, KeysComeFromOneCode
  <2>8. \A h \in admitted' : h.code \notin codes'
    BY <2>1, <2>3, <2>4 DEF CodeInv
  <2>9. air' = air /\ keys' = keys /\ sent' = sent
    BY <1>10 DEF Join, wire
  <2> QED BY <2>3, <2>6, <2>7, <2>8, <2>9 DEF CodeInv, KeysComeFromOneCode
<1>11. ASSUME NEW d \in Devices, NEW c \in 1 .. Len(minted), JoinRefused(d, c) PROVE CodeInv'
  BY <1>11, <1>0, QuietCodeInv DEF JoinRefused, Consumed, Unexpired, wire
<1>12. ASSUME NEW g \in air, NEW d \in Devices, Deliver(g, d) PROVE CodeInv'
  <2>1. \A e \in Devices : \A h \in keys'[e] : h \in keys[e] \/ (h = g /\ e = g.device)
    BY <1>12 DEF Deliver, TypeOK
  <2>2. \A e \in Devices : \A h \in keys'[e] : h \in admitted /\ h.device = e
    BY <2>1, <1>0 DEF CodeInv, KeysComeFromOneCode
  <2>3. air' \subseteq admitted
    BY <1>12, <1>0 DEF Deliver
  <2> QED BY <1>12, <2>2, <2>3 DEF Deliver, CodeInv, KeysComeFromOneCode
<1>13. CASE UNCHANGED vars
  BY <1>13 DEF vars, CodeInv, KeysComeFromOneCode
<1> QED BY <1>1, <1>2, <1>3, <1>4, <1>5, <1>6, <1>7, <1>8, <1>9, <1>10, <1>11, <1>12, <1>13 DEF Next

(* A join code admits at most one device, in time, and all keys a device has   *)
(* come from such an admission: for any number of devices, codes, restarts     *)
(* and power losses.                                                           *)
THEOREM OneCodeOneMember == Spec => []KeysComeFromOneCode
<1>1. Init => TypeOK /\ CodeInv
  BY InitTypeOK, InitCodeInv
<1>2. TypeOK /\ CodeInv /\ [Next]_vars => (TypeOK /\ CodeInv)'
  BY NextTypeOK, NextCodeInv
<1>3. CodeInv => KeysComeFromOneCode
  BY DEF CodeInv
<1> QED BY <1>1, <1>2, <1>3, PTL DEF Spec

-----------------------------------------------------------------------------
(* What the key holder remembers, as long as no power was lost: the file is    *)
(* ahead of what was sent, memory is ahead of the file, and an answer in       *)
(* preparation is ahead of all answers sent.                                   *)

Filed == cache \notin {None, Torn}

Numbered ==
  /\ \A g \in sent : Filed /\ g.seq <= cache.sequence
  /\ group # None => \A g \in sent : g.seq <= group.sequence
  /\ phase # "serving" =>
        /\ group # None /\ reply.seq <= group.sequence
        /\ \A g \in sent : g.seq < reply.seq
  /\ phase = "sending" => Filed /\ reply.seq <= cache.sequence
  /\ \A g, h \in sent : g.seq = h.seq => g = h

Recorded ==
  /\ \A g \in sent : OnRecord(g)
  /\ group # None => sent \subseteq group.members
  /\ phase # "serving" => group # None /\ reply \in group.members
  /\ phase = "sending" => OnRecord(reply)

LedgerInv == losses = 0 => Numbered /\ (custodian = "orchestrator" => Recorded)

\* At the start nothing was sent.
LEMMA InitLedgerInv == Init => LedgerInv
  BY DEF Init, LedgerInv, Numbered, Recorded

\* A step that leaves the files, the answers and the group's record alone keeps it.
LEMMA QuietLedgerInv ==
  ASSUME LedgerInv, UNCHANGED <<custodian, losses, cache, sent, phase, reply, group>>
  PROVE  LedgerInv'
  BY DEF LedgerInv, Numbered, Recorded, Filed, OnRecord

\* Dropping the group and the answer in preparation keeps it.
LEMMA DropLedgerInv ==
  ASSUME LedgerInv, UNCHANGED <<custodian, losses, cache, sent>>,
         group' = None, phase' = "serving"
  PROVE  LedgerInv'
  BY DEF LedgerInv, Numbered, Recorded, Filed, OnRecord

\* Every step keeps it.
LEMMA NextLedgerInv == TypeOK /\ LedgerInv /\ [Next]_vars => LedgerInv'
<1> SUFFICES ASSUME TypeOK, LedgerInv, [Next]_vars PROVE LedgerInv'
  OBVIOUS
<1> USE NoneAssumption
<1>1. CASE Tick
  BY <1>1, QuietLedgerInv DEF Tick, files, wire
<1>2. CASE Open
  <2>1. UNCHANGED <<custodian, losses, cache, sent, phase, reply>> /\ group = None
    BY <1>2 DEF Open, files, wire
  <2>2. sent # {} /\ losses = 0 => group' = cache
    BY <1>2 DEF Open, Loaded, LedgerInv, Numbered, Filed
  <2>3. losses = 0 => phase = "serving"
    BY <2>1 DEF LedgerInv, Numbered
  <2> QED BY <2>1, <2>2, <2>3 DEF LedgerInv, Numbered, Recorded, Filed, OnRecord
<1>3. CASE GenerateJoinCode
  BY <1>3, QuietLedgerInv DEF GenerateJoinCode, files, wire
<1>4. CASE Save
  <2>1. /\ cache' = Saved /\ phase' = "sending" /\ phase = "saving" /\ group # None
        /\ UNCHANGED <<custodian, losses, sent, reply, group>>
    BY <1>4 DEF Save, wire
  <2>2. /\ Saved \in Group /\ Saved.sequence = group.sequence
        /\ custodian = "orchestrator" => Saved = group
    BY <2>1, SavedGroup DEF TypeOK, Consistent
  <2>3. Filed'
    BY <2>1, <2>2, NoneAssumption DEF Filed
  <2> QED BY <2>1, <2>2, <2>3 DEF LedgerInv, Numbered, Recorded, Filed, OnRecord
<1>5. CASE Send
  <2>1. /\ sent' = sent \cup {reply} /\ phase' = "serving" /\ phase = "sending"
        /\ group' \in {group, None} /\ UNCHANGED <<custodian, losses, cache>>
    BY <1>5 DEF Send, files
  <2>2. /\ reply.seq \in Nat /\ (\A g \in sent : g.seq \in Nat)
    BY <1>5 DEF Send, TypeOK, Grant
  <2>3. ASSUME losses = 0 PROVE Numbered'
    BY <2>1, <2>2, <2>3 DEF LedgerInv, Numbered, Filed
  <2>4. ASSUME losses = 0, custodian = "orchestrator" PROVE Recorded'
    BY <2>1, <2>4 DEF LedgerInv, Recorded, OnRecord
  <2> QED BY <2>1, <2>3, <2>4 DEF LedgerInv
<1>6. CASE Close
  BY <1>6, DropLedgerInv DEF Close, files, wire
<1>7. CASE Flush
  BY <1>7, QuietLedgerInv DEF Flush, wire
<1>8. CASE PowerLoss
  BY <1>8 DEF PowerLoss, TypeOK, LedgerInv
<1>9. ASSUME NEW d \in Devices, RevokeDevice(d) PROVE LedgerInv'
  <2>1. /\ group' = Without(d) /\ phase = "serving" /\ group # None
        /\ custodian = "page" /\ UNCHANGED <<custodian, losses, cache, sent, phase, reply>>
    BY <1>9 DEF RevokeDevice, files, wire
  <2>2. group'.sequence = group.sequence + 1 /\ group.sequence \in Nat
    BY <2>1, RevokedGroup DEF TypeOK
  <2>3. \A g \in sent : g.seq \in Nat
    BY DEF TypeOK, Grant
  <2> QED BY <2>1, <2>2, <2>3 DEF LedgerInv, Numbered, Filed
<1>10. ASSUME NEW d \in Devices, NEW c \in 1 .. Len(minted), Join(d, c) PROVE LedgerInv'
  <2> DEFINE g == NewGrant(d, c)
  <2>1. /\ group # None /\ Admissible(d) /\ phase = "serving" /\ phase' = "saving"
        /\ group' = WithMember(g) /\ reply' = g
        /\ UNCHANGED <<custodian, losses, cache, sent>>
    BY <1>10 DEF Join, files, wire
  <2>2. /\ g.seq = group.sequence + 1 /\ group.sequence \in Nat
        /\ WithMember(g).members = group.members \cup {g}
        /\ WithMember(g).sequence = group.sequence + 1 /\ WithMember(g) \in Group
    BY <2>1, JoinedGroup DEF Consistent
  <2>3. \A h \in sent : h.seq \in Nat
    BY DEF TypeOK, Grant
  <2> HIDE DEF g
  <2>4. ASSUME losses = 0 PROVE Numbered'
    BY <2>1, <2>2, <2>3, <2>4 DEF LedgerInv, Numbered, Filed
  <2>5. ASSUME losses = 0, custodian = "orchestrator" PROVE Recorded'
    BY <2>1, <2>2, <2>5 DEF LedgerInv, Recorded, OnRecord
  <2> QED BY <2>1, <2>4, <2>5 DEF LedgerInv
<1>11. ASSUME NEW d \in Devices, NEW c \in 1 .. Len(minted), JoinRefused(d, c) PROVE LedgerInv'
  <2>1. CASE custodian = "orchestrator"
    BY <1>11, <2>1, DropLedgerInv DEF JoinRefused, files, wire
  <2>2. CASE custodian # "orchestrator"
    BY <1>11, <2>2, QuietLedgerInv DEF JoinRefused, files, wire
  <2> QED BY <2>1, <2>2
<1>12. ASSUME NEW g \in air, NEW d \in Devices, Deliver(g, d) PROVE LedgerInv'
  BY <1>12, QuietLedgerInv DEF Deliver, files
<1>13. CASE UNCHANGED vars
  BY <1>13, QuietLedgerInv DEF vars
<1> QED BY <1>1, <1>2, <1>3, <1>4, <1>5, <1>6, <1>7, <1>8, <1>9, <1>10, <1>11, <1>12, <1>13 DEF Next

\* Of the two ledgers: whoever may have the keys is in the orchestrator's file.
THEOREM HoldersAreOnRecord == Spec => []KeysAreOnRecord
<1>1. Init => TypeOK /\ LedgerInv
  BY InitTypeOK, InitLedgerInv
<1>2. TypeOK /\ LedgerInv /\ [Next]_vars => (TypeOK /\ LedgerInv)'
  BY NextTypeOK, NextLedgerInv
<1>3. LedgerInv => KeysAreOnRecord
  BY DEF LedgerInv, Recorded, KeysAreOnRecord
<1> QED BY <1>1, <1>2, <1>3, PTL DEF Spec

\* And no two responses sent by either custodian share a sequence number.
THEOREM ResponsesAreNumberedApart == Spec => []SequencesAreFresh
<1>1. Init => TypeOK /\ LedgerInv
  BY InitTypeOK, InitLedgerInv
<1>2. TypeOK /\ LedgerInv /\ [Next]_vars => (TypeOK /\ LedgerInv)'
  BY NextTypeOK, NextLedgerInv
<1>3. LedgerInv => SequencesAreFresh
  BY DEF LedgerInv, Numbered, SequencesAreFresh
<1> QED BY <1>1, <1>2, <1>3, PTL DEF Spec

-----------------------------------------------------------------------------
(* The byte forms (TrustForms). *)

HIDE CeremonyAssumption

Mixed == <<"mixed">>

\* The bytes of a field, as the bytes of its token.
Field(from, to, token) == [from |-> from, to |-> to, token |-> token]
Holds(s, f) == \A i \in f.from + 1..f.to : s[i] = <<f.token, i - f.from>>
Long(s, n) == n \in Nat /\ Len(s) = n /\ \E S : s \in Seq(S)

\* n bytes with these fields among them.
Fields(s, F, n) ==
    /\ Long(s, n)
    /\ \A f \in F : /\ f.from \in 0..n /\ f.to \in f.from..n
                    /\ Holds(s, f) /\ f.token # Mixed

\* No byte is outside of a field.
Tiled(F, n) == \A i \in 1..n : \E f \in F : i \in f.from + 1..f.to

LEMMA LongElements ==
  ASSUME NEW s, NEW n, Long(s, n)
  PROVE  s \in Seq({s[i] : i \in 1..n}) /\ DOMAIN s = 1..n
<1>1. PICK S : s \in Seq(S)
  BY DEF Long
<1>2. DOMAIN s = 1..n /\ s = [i \in 1..n |-> s[i]] /\ n \in Nat
  BY <1>1, LenProperties DEF Long
<1> QED BY <1>2, SeqDef

LEMMA BytesFacts ==
  ASSUME NEW t, NEW n \in Nat
  PROVE  Long(Bytes(t, n), n) /\ \A i \in 1..n : Bytes(t, n)[i] = <<t, i>>
<1> DEFINE S == {<<t, i>> : i \in 1..n}
<1>1. Bytes(t, n) \in [1..n -> S]
  BY DEF Bytes
<1>2. Bytes(t, n) \in Seq(S)
  <2> HIDE DEF S
  <2> QED BY <1>1, SeqDef
<1>3. Len(Bytes(t, n)) \in Nat /\ DOMAIN Bytes(t, n) = 1..Len(Bytes(t, n))
  <2> HIDE DEF S
  <2> QED BY <1>2, LenProperties
<1>4. DOMAIN Bytes(t, n) = 1..n
  BY DEF Bytes
<1>5. Len(Bytes(t, n)) = n
  <2>1. PICK m \in Nat : m = Len(Bytes(t, n)) /\ 1..m = 1..n
    BY <1>3, <1>4
  <2> QED BY <2>1
<1>6. \A i \in 1..n : Bytes(t, n)[i] = <<t, i>>
  BY DEF Bytes
<1> HIDE DEF S
<1> QED BY <1>2, <1>5, <1>6 DEF Long

\* u is s and then t.
Joins(u, s, n, t, m) ==
    /\ Long(u, n + m)
    /\ \A i \in 1..n : u[i] = s[i]
    /\ \A i \in n + 1..n + m : u[i] = t[i - n]

LEMMA Joined ==
  ASSUME NEW s, NEW n, Long(s, n), NEW t, NEW m, Long(t, m)
  PROVE  Joins(s \o t, s, n, t, m)
<1>1. PICK S, T : s \in Seq(S) /\ t \in Seq(T)
  BY DEF Long
<1>2. PICK U : U = S \cup T
  OBVIOUS
<1>3. s \in Seq(U) /\ t \in Seq(U)
  <2>1. S \subseteq U /\ T \subseteq U
    BY <1>2
  <2> QED BY <1>1, <2>1, SeqMonotonic
<1>4. n \in Nat /\ m \in Nat /\ Len(s) = n /\ Len(t) = m
  BY DEF Long
<1>5. /\ s \o t \in Seq(U) /\ Len(s \o t) = n + m
      /\ \A i \in 1..(n + m) : (s \o t)[i] = IF i <= n THEN s[i] ELSE t[i - n]
  BY <1>3, <1>4, ConcatProperties
<1>6. Long(s \o t, n + m)
  BY <1>4, <1>5 DEF Long
<1>7. \A i \in 1..n : i \in 1..(n + m) /\ i <= n
  BY <1>4
<1>8. \A i \in n + 1..n + m : i \in 1..(n + m) /\ ~(i <= n)
  BY <1>4
<1> QED BY <1>5, <1>6, <1>7, <1>8 DEF Joins

\* v is s from a to b.
Slices(v, s, a, b) == Long(v, b - a + 1) /\ \A i \in 1..(b - a + 1) : v[i] = s[a + i - 1]

LEMMA Slice ==
  ASSUME NEW s, NEW n, Long(s, n), NEW a \in Nat \ {0}, NEW b \in Nat, a <= b + 1, b <= n
  PROVE  Slices(SubSeq(s, a, b), s, a, b)
<1>1. n \in Nat /\ Len(s) = n
  BY DEF Long
<1>2. PICK S : s \in Seq(S)
  BY DEF Long
<1>3. a \in Int /\ b \in Int /\ \A i \in a..b : s[i] \in S
  <2>1. \A i \in a..b : i \in 1..Len(s)
    BY <1>1
  <2> QED BY <1>2, <2>1, ElementOfSeq
<1>4. /\ SubSeq(s, a, b) \in Seq(S)
      /\ Len(SubSeq(s, a, b)) = (IF a <= b THEN b - a + 1 ELSE 0)
  BY <1>3, SubSeqProperties
<1>5. b - a + 1 \in Nat /\ (IF a <= b THEN b - a + 1 ELSE 0) = b - a + 1
  OBVIOUS
<1>6. \A i \in 1..(b - a + 1) : SubSeq(s, a, b)[i] = s[a + i - 1]
  BY SubSeqProperties, <1>3
<1> QED BY <1>4, <1>5, <1>6 DEF Long, Slices

\* v is the n bytes of s behind the first ones.
SliceAt(v, s, at, n) == Long(v, n) /\ \A i \in 1..n : v[i] = s[at + i]

LEMMA SliceFrom ==
  ASSUME NEW s, NEW k, Long(s, k), NEW at \in Nat, NEW n \in Nat, at + n <= k,
         NEW a, a = at + 1, NEW b, b = at + n
  PROVE  SliceAt(SubSeq(s, a, b), s, at, n)
<1>1. a \in Nat \ {0} /\ b \in Nat /\ a <= b + 1 /\ b <= k /\ b - a + 1 = n
  OBVIOUS
<1>2. Slices(SubSeq(s, a, b), s, a, b)
  BY <1>1, Slice
<1>3. PICK v : v = SubSeq(s, a, b)
  OBVIOUS
<1>4. Long(v, n) /\ \A i \in 1..n : v[i] = s[a + i - 1]
  BY <1>1, <1>2, <1>3 DEF Slices
<1>5. ASSUME NEW i \in 1..n PROVE v[i] = s[at + i]
  <2>1. a + i - 1 = at + i
    OBVIOUS
  <2> QED BY <1>4, <2>1
<1> QED BY <1>3, <1>4, <1>5 DEF SliceAt

LEMMA SameBytes ==
  ASSUME NEW s, NEW t, NEW n, Long(s, n), Long(t, n), \A i \in 1..n : s[i] = t[i]
  PROVE  s = t
<1>1. PICK S, T : s \in Seq(S) /\ t \in Seq(T)
  BY DEF Long
<1>2. /\ s = [i \in 1..n |-> s[i]] /\ t = [i \in 1..n |-> t[i]]
  BY <1>1, LenProperties DEF Long
<1> QED BY <1>2

-----------------------------------------------------------------------------
(* Fields. *)

\* The first field.
LEMMA FirstField ==
  ASSUME NEW t, t # Mixed, NEW w \in Nat
  PROVE  Fields(Bytes(t, w), {Field(0, w, t)}, w) /\ Tiled({Field(0, w, t)}, w)
<1>1. /\ Field(0, w, t).from = 0 /\ Field(0, w, t).to = w /\ Field(0, w, t).token = t
  BY DEF Field
<1>2. Holds(Bytes(t, w), Field(0, w, t))
  BY <1>1, BytesFacts DEF Holds
<1>3. Fields(Bytes(t, w), {Field(0, w, t)}, w)
  BY <1>1, <1>2, BytesFacts DEF Fields
<1>4. Tiled({Field(0, w, t)}, w)
  BY <1>1 DEF Tiled
<1> QED BY <1>3, <1>4

\* u is s, of n bytes and these fields, and m bytes behind it.
Behind(u, s, F, n, t, m) ==
    /\ Fields(u, F, n + m)
    /\ \A a \in Nat \ {0}, b \in 0..n : a <= b + 1 => SubSeq(u, a, b) = SubSeq(s, a, b)
    /\ SubSeq(u, n + 1, n + m) = t

\* What is put behind fields leaves them where they are.
LEMMA FieldsStay ==
  ASSUME NEW s, NEW F, NEW n, Fields(s, F, n), NEW t, NEW m, Long(t, m)
  PROVE  Behind(s \o t, s, F, n, t, m)
<1>1. n \in Nat /\ m \in Nat /\ Long(s, n)
  BY DEF Fields, Long
<1> DEFINE u == s \o t
<1>2. /\ Long(u, n + m)
      /\ \A i \in 1..n : u[i] = s[i]
      /\ \A i \in n + 1..n + m : u[i] = t[i - n]
  <2>1. Joins(u, s, n, t, m)
    BY <1>1, Joined
  <2> QED BY <2>1 DEF Joins
<1> HIDE DEF u
<1>3. ASSUME NEW f \in F
      PROVE  /\ f.from \in 0..(n + m) /\ f.to \in f.from..(n + m)
             /\ Holds(u, f) /\ f.token # Mixed
  <2>1. f.from \in 0..n /\ f.to \in f.from..n /\ Holds(s, f) /\ f.token # Mixed
    BY DEF Fields
  <2>2. \A i \in f.from + 1..f.to : i \in 1..n
    BY <1>1, <2>1
  <2>3. Holds(u, f)
    BY <1>2, <2>1, <2>2 DEF Holds
  <2>4. f.from \in 0..(n + m) /\ f.to \in f.from..(n + m)
    BY <1>1, <2>1
  <2> QED BY <2>1, <2>3, <2>4
<1>4. ASSUME NEW a \in Nat \ {0}, NEW b \in 0..n, a <= b + 1
      PROVE  SubSeq(u, a, b) = SubSeq(s, a, b)
  <2>1. b \in Nat /\ b <= n /\ b <= n + m
    BY <1>1
  <2>2. Slices(SubSeq(s, a, b), s, a, b)
    BY <1>1, <1>4, <2>1, Slice
  <2>3. Slices(SubSeq(u, a, b), u, a, b)
    BY <1>2, <1>4, <2>1, Slice
  <2>4. PICK v, w, z : v = SubSeq(s, a, b) /\ w = SubSeq(u, a, b) /\ z = b - a + 1
    OBVIOUS
  <2>5. \A i \in 1..z : a + i - 1 \in 1..n
    BY <1>1, <2>1, <2>4
  <2>6. \A i \in 1..z : v[i] = w[i]
    BY <1>2, <2>2, <2>3, <2>4, <2>5 DEF Slices
  <2>7. Long(v, z) /\ Long(w, z)
    BY <2>2, <2>3, <2>4 DEF Slices
  <2> QED BY <2>4, <2>6, <2>7, SameBytes
<1>5. SubSeq(u, n + 1, n + m) = t
  <2>1. /\ n + 1 \in Nat \ {0} /\ n + m \in Nat /\ n + 1 <= (n + m) + 1 /\ n + m <= n + m
        /\ (n + m) - (n + 1) + 1 = m
    BY <1>1
  <2>2. PICK a, b : a = n + 1 /\ b = n + m
    OBVIOUS
  <2>3. Slices(SubSeq(u, a, b), u, a, b)
    <3>1. a \in Nat \ {0} /\ b \in Nat /\ a <= b + 1 /\ b <= n + m
      BY <2>1, <2>2
    <3> QED BY <1>2, <3>1, Slice
  <2>4. PICK v : v = SubSeq(u, a, b)
    OBVIOUS
  <2>5. \A i \in 1..m : a + i - 1 \in n + 1..n + m /\ a + i - 1 - n = i
    BY <1>1, <2>2
  <2>6. b - a + 1 = m
    BY <2>1, <2>2
  <2>7. Long(v, m) /\ \A i \in 1..m : v[i] = u[a + i - 1]
    BY <2>3, <2>4, <2>6 DEF Slices
  <2>8. ASSUME NEW i \in 1..m PROVE v[i] = t[i]
    <3>1. PICK j \in n + 1..n + m : j = a + i - 1 /\ j - n = i
      BY <1>1, <2>2
    <3> QED BY <1>2, <2>7, <3>1
  <2> QED BY <2>2, <2>4, <2>7, <2>8, SameBytes
<1> QED BY <1>2, <1>3, <1>4, <1>5 DEF Fields, Behind, u

\* One more field behind the others.
LEMMA OneMoreField ==
  ASSUME NEW s, NEW F, NEW n, Fields(s, F, n), NEW t, t # Mixed, NEW w \in Nat, NEW to, to = n + w
  PROVE  /\ Fields(s \o Bytes(t, w), F \cup {Field(n, to, t)}, to)
         /\ Tiled(F, n) => Tiled(F \cup {Field(n, to, t)}, to)
<1>1. n \in Nat /\ Long(s, n)
  BY DEF Fields, Long
<1>2. Long(Bytes(t, w), w) /\ \A i \in 1..w : Bytes(t, w)[i] = <<t, i>>
  BY BytesFacts
<1>3. Fields(s \o Bytes(t, w), F, to)
  BY <1>2, FieldsStay DEF Behind
<1>4. \A i \in n + 1..n + w : (s \o Bytes(t, w))[i] = Bytes(t, w)[i - n]
  <2>1. Joins(s \o Bytes(t, w), s, n, Bytes(t, w), w)
    BY <1>1, <1>2, Joined
  <2> QED BY <2>1 DEF Joins
<1> DEFINE g == Field(n, to, t)
<1>5. g.from = n /\ g.to = to /\ g.token = t
  BY DEF Field
<1>6. \A i \in n + 1..to : i - n \in 1..w
  BY <1>1
<1>7. Holds(s \o Bytes(t, w), g)
  BY <1>2, <1>4, <1>5, <1>6 DEF Holds
<1>8. g.from \in 0..to /\ g.to \in g.from..to
  BY <1>1, <1>5
<1>9. Fields(s \o Bytes(t, w), F \cup {g}, to)
  BY <1>3, <1>5, <1>7, <1>8 DEF Fields
<1>10. ASSUME Tiled(F, n) PROVE Tiled(F \cup {g}, to)
  <2>1. \A i \in 1..to : i \in 1..n \/ i \in n + 1..to
    BY <1>1
  <2> QED BY <1>5, <1>10, <2>1 DEF Tiled
<1> QED BY <1>9, <1>10

\* A field reads as its token.
LEMMA FieldValue ==
  ASSUME NEW s, NEW F, NEW n, Fields(s, F, n), NEW f \in F, f.from < f.to
  PROVE  Value(s, f.from, f.to) = f.token
<1>1. f.from \in 0..n /\ f.to \in f.from..n /\ Holds(s, f) /\ n \in Nat
  BY DEF Fields, Long
<1>2. f.from + 1 \in f.from + 1..f.to /\ f.from + 1 - f.from = 1
  BY <1>1
<1>3. s[f.from + 1] = <<f.token, 1>>
  BY <1>1, <1>2 DEF Holds
<1>4. s[f.from + 1][1] = f.token
  BY <1>3
<1> QED BY <1>1, <1>4 DEF Value, Holds

\* What a field reads as once byte i is another one.
Damaged(c, i, f) ==
    IF i \in f.from + 1..f.to
    THEN /\ i = f.from + 1 /\ Value(c, f.from, f.to) # f.token
         /\ f.to # f.from + 1 => Value(c, f.from, f.to) = Mixed
    ELSE Value(c, f.from, f.to) = f.token

\* The first byte of one field has become another one.
Changed(c, s, i, u, n) ==
    i \in 1..n /\ s[i][2] = 1 /\ s[i][1] # u /\ c = [s EXCEPT ![i] = <<u, 1>>]

LEMMA LongChanged ==
  ASSUME NEW s, NEW n, Long(s, n), NEW c, NEW i, NEW u, Changed(c, s, i, u, n)
  PROVE  /\ Long(c, n) /\ c[i] = <<u, 1>>
         /\ \A j \in 1..n : j # i => c[j] = s[j]
<1>1. PICK S : s \in Seq(S)
  BY DEF Long
<1>2. n \in Nat /\ Len(s) = n /\ i \in 1..n
  BY DEF Long, Changed
<1>3. PICK T : T = S \cup {<<u, 1>>}
  OBVIOUS
<1>4. s \in Seq(T) /\ <<u, 1>> \in T
  <2>1. S \subseteq T
    BY <1>3
  <2> QED BY <1>1, <1>3, <2>1, SeqMonotonic
<1>5. PICK e : e = <<u, 1>>
  OBVIOUS
<1>6. c = [s EXCEPT ![i] = e]
  BY <1>5 DEF Changed
<1>7. c \in Seq(T) /\ Len(c) = n /\ \A j \in 1..n : c[j] = IF j = i THEN e ELSE s[j]
  <2>1. i \in 1..Len(s) /\ e \in T
    BY <1>2, <1>4, <1>5
  <2> QED BY <1>2, <1>4, <1>6, <2>1, ExceptSeq
<1>8. Long(c, n)
  BY <1>2, <1>7 DEF Long
<1> QED BY <1>2, <1>5, <1>7, <1>8

LEMMA FieldChanged ==
  ASSUME NEW s, NEW F, NEW n, Fields(s, F, n), NEW c, NEW i, NEW u, Changed(c, s, i, u, n),
         NEW f \in F, f.from < f.to
  PROVE  Damaged(c, i, f)
<1>1. /\ Long(c, n) /\ c[i] = <<u, 1>> /\ i \in 1..n /\ n \in Nat
      /\ \A j \in 1..n : j # i => c[j] = s[j]
  <2>1. Long(s, n)
    BY DEF Fields
  <2>2. i \in 1..n /\ n \in Nat
    BY <2>1 DEF Changed, Long
  <2> QED BY <2>1, <2>2, LongChanged
<1>2. f.from \in 0..n /\ f.to \in f.from..n /\ Holds(s, f) /\ f.token # Mixed
  BY DEF Fields
<1>3. PICK a \in Nat, b \in Nat : a = f.from /\ b = f.to /\ a < b /\ b <= n
  BY <1>1, <1>2
<1>4. PICK t : t = f.token /\ t # Mixed
  BY <1>2
<1>5. \A j \in a + 1..b : s[j] = <<t, j - a>> /\ j \in 1..n
  BY <1>1, <1>2, <1>3, <1>4 DEF Holds
<1>6. a + 1 \in a + 1..b /\ a + 1 - a = 1
  BY <1>3
<1>7. CASE i \in a + 1..b
  <2>1. s[i][2] = i - a
    BY <1>5, <1>7
  <2>2. i = a + 1
    <3>1. i - a = 1
      BY <2>1 DEF Changed
    <3> QED BY <1>1, <1>3, <3>1
  <2>3. s[i][1] = t
    BY <1>5, <1>7
  <2>4. u # t
    BY <2>3 DEF Changed
  <2>5. c[a + 1][1] = u
    BY <1>1, <2>2
  <2>6. Value(c, a, b) = u \/ Value(c, a, b) = Mixed
    BY <2>5 DEF Value, Mixed
  <2>7. Value(c, a, b) # t
    BY <1>4, <2>4, <2>6
  <2>8. ASSUME b # a + 1 PROVE Value(c, a, b) = Mixed
    <3>1. a + 2 \in a + 1..b /\ a + 2 # i /\ a + 2 - a = 2
      BY <1>3, <2>2, <2>8
    <3>2. c[a + 2] = <<t, 2>>
      BY <1>1, <1>5, <3>1
    <3>3. <<t, 2>> # <<u, 2>>
      BY <2>4
    <3>4. ~(\A j \in a + 1..b : c[j] = <<c[a + 1][1], j - a>>)
      BY <2>5, <3>1, <3>2, <3>3
    <3> QED BY <3>4 DEF Value, Mixed
  <2> QED BY <1>3, <1>4, <1>7, <2>2, <2>7, <2>8 DEF Damaged
<1>8. CASE i \notin a + 1..b
  <2>1. \A j \in a + 1..b : c[j] = <<t, j - a>>
    BY <1>1, <1>5, <1>8
  <2>2. c[a + 1] = <<t, 1>>
    BY <1>6, <2>1
  <2>3. c[a + 1][1] = t
    BY <2>2
  <2>4. Value(c, a, b) = t
    BY <2>1, <2>3 DEF Value
  <2> QED BY <1>3, <1>4, <1>8, <2>4 DEF Damaged
<1> QED BY <1>7, <1>8

\* A form that is shorter or longer than it was.
LEMMA LongCut ==
  ASSUME NEW s, NEW n, Long(s, n), NEW k \in Nat, k < Len(s)
  PROVE  /\ Long(SubSeq(s, 1, Len(s) - k), n - k)
         /\ \A i \in 1..(n - k) : SubSeq(s, 1, Len(s) - k)[i] = s[i]
<1>1. n \in Nat /\ Len(s) = n /\ n - k \in Nat /\ 1 <= n - k + 1 /\ n - k <= n /\ n - k - 1 + 1 = n - k
  BY DEF Long
<1>2. PICK b : b = n - k
  OBVIOUS
<1>3. Slices(SubSeq(s, 1, b), s, 1, b)
  <2>1. b \in Nat /\ 1 <= b + 1 /\ b <= n /\ 1 \in Nat \ {0}
    BY <1>1, <1>2
  <2> QED BY <2>1, Slice
<1>4. b - 1 + 1 = b /\ \A i \in 1..b : 1 + i - 1 = i
  BY <1>1, <1>2
<1> QED BY <1>1, <1>2, <1>3, <1>4 DEF Slices

LEMMA LongExtended ==
  ASSUME NEW s, NEW n, Long(s, n), NEW e
  PROVE  /\ Long(Append(s, e), n + 1)
         /\ \A i \in 1..n : Append(s, e)[i] = s[i]
<1>1. PICK S : s \in Seq(S)
  BY DEF Long
<1>2. PICK T : T = S \cup {e}
  OBVIOUS
<1>3. s \in Seq(T) /\ e \in T
  <2>1. S \subseteq T
    BY <1>2
  <2> QED BY <1>1, <1>2, <2>1, SeqMonotonic
<1>4. n \in Nat /\ Len(s) = n
  BY DEF Long
<1>5. /\ Append(s, e) \in Seq(T) /\ Len(Append(s, e)) = Len(s) + 1
      /\ \A i \in 1..Len(s) : Append(s, e)[i] = s[i]
  BY <1>3
<1> QED BY <1>4, <1>5 DEF Long

-----------------------------------------------------------------------------
(* The forms, whatever tokens their fields have. *)

\* Fields from the first byte to the last.
Form(s, F, n) == Fields(s, F, n) /\ Tiled(F, n)

LEMMA FormOfOne ==
  ASSUME NEW t, t # Mixed, NEW w \in Nat
  PROVE  Form(Bytes(t, w), {Field(0, w, t)}, w)
BY FirstField DEF Form

\* u is s with one more field behind the others.
Grown(s, F, n, t, w, to, u, G) ==
    /\ Form(s, F, n) /\ t # Mixed /\ w \in Nat /\ to = n + w
    /\ u = s \o Bytes(t, w) /\ G = F \cup {Field(n, to, t)}

LEMMA FormGrows ==
  ASSUME NEW s, NEW F, NEW n, NEW t, NEW w, NEW to, NEW u, NEW G, Grown(s, F, n, t, w, to, u, G)
  PROVE  Form(u, G, to)
BY OneMoreField DEF Form, Grown

CertificateFields(c) ==
    {Field(0, 1, c.version), Field(1, 2, c.sig_algo), Field(2, 34, c.device_public_key),
     Field(34, 66, c.trust_group_id), Field(66, 67, c.role), Field(67, 75, c.issued_at),
     Field(75, 83, c.expires_at), Field(83, 147, c.signature)}

LEMMA CertificateForm ==
  ASSUME NEW c,
         c.version # Mixed, c.sig_algo # Mixed, c.device_public_key # Mixed,
         c.trust_group_id # Mixed, c.role # Mixed, c.issued_at # Mixed, c.expires_at # Mixed,
         c.signature # Mixed
  PROVE  Form(WriteCertificate(c), CertificateFields(c), 147)
<1>1. PICK t1, t2, t3, t4, t5, t6, t7, t8 :
         /\ t1 = c.version /\ t1 # Mixed
         /\ t2 = c.sig_algo /\ t2 # Mixed
         /\ t3 = c.device_public_key /\ t3 # Mixed
         /\ t4 = c.trust_group_id /\ t4 # Mixed
         /\ t5 = c.role /\ t5 # Mixed
         /\ t6 = c.issued_at /\ t6 # Mixed
         /\ t7 = c.expires_at /\ t7 # Mixed
         /\ t8 = c.signature /\ t8 # Mixed
  OBVIOUS
<1> DEFINE F1 == {Field(0, 1, t1)}
           F2 == F1 \cup {Field(1, 2, t2)}
           F3 == F2 \cup {Field(2, 34, t3)}
           F4 == F3 \cup {Field(34, 66, t4)}
           F5 == F4 \cup {Field(66, 67, t5)}
           F6 == F5 \cup {Field(67, 75, t6)}
           F7 == F6 \cup {Field(75, 83, t7)}
           F8 == F7 \cup {Field(83, 147, t8)}
           s1 == Bytes(t1, 1)
           s2 == s1 \o Bytes(t2, 1)
           s3 == s2 \o Bytes(t3, 32)
           s4 == s3 \o Bytes(t4, 32)
           s5 == s4 \o Bytes(t5, 1)
           s6 == s5 \o Bytes(t6, 8)
           s7 == s6 \o Bytes(t7, 8)
           s8 == s7 \o Bytes(t8, 64)
<1>2. Form(s1, F1, 1)
  BY <1>1, FormOfOne
<1> HIDE DEF s1, F1
<1>3. Form(s2, F2, 2)
  <2>1. Grown(s1, F1, 1, t2, 1, 2, s2, F2)
    BY <1>1, <1>2 DEF Grown
  <2> HIDE DEF s2, F2
  <2> QED BY <2>1, FormGrows
<1> HIDE DEF s2, F2
<1>4. Form(s3, F3, 34)
  <2>1. Grown(s2, F2, 2, t3, 32, 34, s3, F3)
    BY <1>1, <1>3 DEF Grown
  <2> HIDE DEF s3, F3
  <2> QED BY <2>1, FormGrows
<1> HIDE DEF s3, F3
<1>5. Form(s4, F4, 66)
  <2>1. Grown(s3, F3, 34, t4, 32, 66, s4, F4)
    BY <1>1, <1>4 DEF Grown
  <2> HIDE DEF s4, F4
  <2> QED BY <2>1, FormGrows
<1> HIDE DEF s4, F4
<1>6. Form(s5, F5, 67)
  <2>1. Grown(s4, F4, 66, t5, 1, 67, s5, F5)
    BY <1>1, <1>5 DEF Grown
  <2> HIDE DEF s5, F5
  <2> QED BY <2>1, FormGrows
<1> HIDE DEF s5, F5
<1>7. Form(s6, F6, 75)
  <2>1. Grown(s5, F5, 67, t6, 8, 75, s6, F6)
    BY <1>1, <1>6 DEF Grown
  <2> HIDE DEF s6, F6
  <2> QED BY <2>1, FormGrows
<1> HIDE DEF s6, F6
<1>8. Form(s7, F7, 83)
  <2>1. Grown(s6, F6, 75, t7, 8, 83, s7, F7)
    BY <1>1, <1>7 DEF Grown
  <2> HIDE DEF s7, F7
  <2> QED BY <2>1, FormGrows
<1> HIDE DEF s7, F7
<1>9. Form(s8, F8, 147)
  <2>1. Grown(s7, F7, 83, t8, 64, 147, s8, F8)
    BY <1>1, <1>8 DEF Grown
  <2> HIDE DEF s8, F8
  <2> QED BY <2>1, FormGrows
<1> HIDE DEF s8, F8
<1>10. s8 = WriteCertificate(c)
  BY <1>1 DEF WriteCertificate, KeyLen, SignatureLen, JoinCodeLen, s1, s2, s3, s4, s5, s6, s7, s8
<1>11. F8 = CertificateFields(c)
  BY <1>1 DEF CertificateFields, F1, F2, F3, F4, F5, F6, F7, F8
<1> QED BY <1>9, <1>10, <1>11

RevocationFields(r) ==
    {Field(0, 1, r.sig_algo), Field(1, 33, r.device_public_key), Field(33, 41, r.revoked_at),
     Field(41, 42, r.reason), Field(42, 106, r.signature)}

LEMMA RevocationForm ==
  ASSUME NEW r,
         r.sig_algo # Mixed, r.device_public_key # Mixed, r.revoked_at # Mixed,
         r.reason # Mixed, r.signature # Mixed
  PROVE  Form(WriteRevocation(r), RevocationFields(r), 106)
<1>1. PICK t1, t2, t3, t4, t5 :
         /\ t1 = r.sig_algo /\ t1 # Mixed
         /\ t2 = r.device_public_key /\ t2 # Mixed
         /\ t3 = r.revoked_at /\ t3 # Mixed
         /\ t4 = r.reason /\ t4 # Mixed
         /\ t5 = r.signature /\ t5 # Mixed
  OBVIOUS
<1> DEFINE F1 == {Field(0, 1, t1)}
           F2 == F1 \cup {Field(1, 33, t2)}
           F3 == F2 \cup {Field(33, 41, t3)}
           F4 == F3 \cup {Field(41, 42, t4)}
           F5 == F4 \cup {Field(42, 106, t5)}
           s1 == Bytes(t1, 1)
           s2 == s1 \o Bytes(t2, 32)
           s3 == s2 \o Bytes(t3, 8)
           s4 == s3 \o Bytes(t4, 1)
           s5 == s4 \o Bytes(t5, 64)
<1>2. Form(s1, F1, 1)
  BY <1>1, FormOfOne
<1> HIDE DEF s1, F1
<1>3. Form(s2, F2, 33)
  <2>1. Grown(s1, F1, 1, t2, 32, 33, s2, F2)
    BY <1>1, <1>2 DEF Grown
  <2> HIDE DEF s2, F2
  <2> QED BY <2>1, FormGrows
<1> HIDE DEF s2, F2
<1>4. Form(s3, F3, 41)
  <2>1. Grown(s2, F2, 33, t3, 8, 41, s3, F3)
    BY <1>1, <1>3 DEF Grown
  <2> HIDE DEF s3, F3
  <2> QED BY <2>1, FormGrows
<1> HIDE DEF s3, F3
<1>5. Form(s4, F4, 42)
  <2>1. Grown(s3, F3, 41, t4, 1, 42, s4, F4)
    BY <1>1, <1>4 DEF Grown
  <2> HIDE DEF s4, F4
  <2> QED BY <2>1, FormGrows
<1> HIDE DEF s4, F4
<1>6. Form(s5, F5, 106)
  <2>1. Grown(s4, F4, 42, t5, 64, 106, s5, F5)
    BY <1>1, <1>5 DEF Grown
  <2> HIDE DEF s5, F5
  <2> QED BY <2>1, FormGrows
<1> HIDE DEF s5, F5
<1>7. s5 = WriteRevocation(r)
  BY <1>1 DEF WriteRevocation, KeyLen, SignatureLen, JoinCodeLen, s1, s2, s3, s4, s5
<1>8. F5 = RevocationFields(r)
  BY <1>1 DEF RevocationFields, F1, F2, F3, F4, F5
<1> QED BY <1>6, <1>7, <1>8

InviteFields(v) ==
    {Field(0, 16, v.invite_code), Field(16, 48, v.trust_group_id), Field(48, 80, v.issuer_pk),
     Field(80, 88, v.created_at), Field(88, 96, v.expires_at), Field(96, 97, v.max_uses),
     Field(97, 161, v.signature)}

LEMMA InviteForm ==
  ASSUME NEW v,
         v.invite_code # Mixed, v.trust_group_id # Mixed, v.issuer_pk # Mixed,
         v.created_at # Mixed, v.expires_at # Mixed, v.max_uses # Mixed, v.signature # Mixed
  PROVE  Form(WriteInvite(v), InviteFields(v), 161)
<1>1. PICK t1, t2, t3, t4, t5, t6, t7 :
         /\ t1 = v.invite_code /\ t1 # Mixed
         /\ t2 = v.trust_group_id /\ t2 # Mixed
         /\ t3 = v.issuer_pk /\ t3 # Mixed
         /\ t4 = v.created_at /\ t4 # Mixed
         /\ t5 = v.expires_at /\ t5 # Mixed
         /\ t6 = v.max_uses /\ t6 # Mixed
         /\ t7 = v.signature /\ t7 # Mixed
  OBVIOUS
<1> DEFINE F1 == {Field(0, 16, t1)}
           F2 == F1 \cup {Field(16, 48, t2)}
           F3 == F2 \cup {Field(48, 80, t3)}
           F4 == F3 \cup {Field(80, 88, t4)}
           F5 == F4 \cup {Field(88, 96, t5)}
           F6 == F5 \cup {Field(96, 97, t6)}
           F7 == F6 \cup {Field(97, 161, t7)}
           s1 == Bytes(t1, 16)
           s2 == s1 \o Bytes(t2, 32)
           s3 == s2 \o Bytes(t3, 32)
           s4 == s3 \o Bytes(t4, 8)
           s5 == s4 \o Bytes(t5, 8)
           s6 == s5 \o Bytes(t6, 1)
           s7 == s6 \o Bytes(t7, 64)
<1>2. Form(s1, F1, 16)
  BY <1>1, FormOfOne
<1> HIDE DEF s1, F1
<1>3. Form(s2, F2, 48)
  <2>1. Grown(s1, F1, 16, t2, 32, 48, s2, F2)
    BY <1>1, <1>2 DEF Grown
  <2> HIDE DEF s2, F2
  <2> QED BY <2>1, FormGrows
<1> HIDE DEF s2, F2
<1>4. Form(s3, F3, 80)
  <2>1. Grown(s2, F2, 48, t3, 32, 80, s3, F3)
    BY <1>1, <1>3 DEF Grown
  <2> HIDE DEF s3, F3
  <2> QED BY <2>1, FormGrows
<1> HIDE DEF s3, F3
<1>5. Form(s4, F4, 88)
  <2>1. Grown(s3, F3, 80, t4, 8, 88, s4, F4)
    BY <1>1, <1>4 DEF Grown
  <2> HIDE DEF s4, F4
  <2> QED BY <2>1, FormGrows
<1> HIDE DEF s4, F4
<1>6. Form(s5, F5, 96)
  <2>1. Grown(s4, F4, 88, t5, 8, 96, s5, F5)
    BY <1>1, <1>5 DEF Grown
  <2> HIDE DEF s5, F5
  <2> QED BY <2>1, FormGrows
<1> HIDE DEF s5, F5
<1>7. Form(s6, F6, 97)
  <2>1. Grown(s5, F5, 96, t6, 1, 97, s6, F6)
    BY <1>1, <1>6 DEF Grown
  <2> HIDE DEF s6, F6
  <2> QED BY <2>1, FormGrows
<1> HIDE DEF s6, F6
<1>8. Form(s7, F7, 161)
  <2>1. Grown(s6, F6, 97, t7, 64, 161, s7, F7)
    BY <1>1, <1>7 DEF Grown
  <2> HIDE DEF s7, F7
  <2> QED BY <2>1, FormGrows
<1> HIDE DEF s7, F7
<1>9. s7 = WriteInvite(v)
  BY <1>1 DEF WriteInvite, KeyLen, SignatureLen, JoinCodeLen, s1, s2, s3, s4, s5, s6, s7
<1>10. F7 = InviteFields(v)
  BY <1>1 DEF InviteFields, F1, F2, F3, F4, F5, F6, F7
<1> QED BY <1>8, <1>9, <1>10

RequestFields(r) ==
    {Field(0, 1, r.kem_algo), Field(1, 17, r.join_code), Field(17, 49, r.nonce)}

LEMMA RequestForm ==
  ASSUME NEW r,
         r.kem_algo # Mixed, r.join_code # Mixed, r.nonce # Mixed
  PROVE  Form(WriteRequest(r), RequestFields(r), 49)
<1>1. PICK t1, t2, t3 :
         /\ t1 = r.kem_algo /\ t1 # Mixed
         /\ t2 = r.join_code /\ t2 # Mixed
         /\ t3 = r.nonce /\ t3 # Mixed
  OBVIOUS
<1> DEFINE F1 == {Field(0, 1, t1)}
           F2 == F1 \cup {Field(1, 17, t2)}
           F3 == F2 \cup {Field(17, 49, t3)}
           s1 == Bytes(t1, 1)
           s2 == s1 \o Bytes(t2, 16)
           s3 == s2 \o Bytes(t3, 32)
<1>2. Form(s1, F1, 1)
  BY <1>1, FormOfOne
<1> HIDE DEF s1, F1
<1>3. Form(s2, F2, 17)
  <2>1. Grown(s1, F1, 1, t2, 16, 17, s2, F2)
    BY <1>1, <1>2 DEF Grown
  <2> HIDE DEF s2, F2
  <2> QED BY <2>1, FormGrows
<1> HIDE DEF s2, F2
<1>4. Form(s3, F3, 49)
  <2>1. Grown(s2, F2, 17, t3, 32, 49, s3, F3)
    BY <1>1, <1>3 DEF Grown
  <2> HIDE DEF s3, F3
  <2> QED BY <2>1, FormGrows
<1> HIDE DEF s3, F3
<1>5. s3 = WriteRequest(r)
  BY <1>1 DEF WriteRequest, KeyLen, SignatureLen, JoinCodeLen, s1, s2, s3
<1>6. F3 = RequestFields(r)
  BY <1>1 DEF RequestFields, F1, F2, F3
<1> QED BY <1>4, <1>5, <1>6

\* A field is read back as its token.
AllRead(s, F) == \A f \in F : f.from < f.to => Value(s, f.from, f.to) = f.token

LEMMA FieldsRead ==
  ASSUME NEW s, NEW F, NEW n, Form(s, F, n)
  PROVE  AllRead(s, F) /\ Len(s) = n /\ Long(s, n) /\ n \in Nat
<1>1. Fields(s, F, n)
  BY DEF Form
<1>2. Len(s) = n /\ Long(s, n) /\ n \in Nat
  BY <1>1 DEF Fields, Long
<1>3. AllRead(s, F)
  BY <1>1, FieldValue DEF AllRead
<1> QED BY <1>2, <1>3

\* What a changed byte does to the fields: one of them is read as something else.
AllDamaged(c, i, F, n) ==
    /\ Long(c, n) /\ i \in 1..n
    /\ \A f \in F : f.from < f.to => Damaged(c, i, f)
    /\ \E f \in F : i \in f.from + 1..f.to /\ f.from < f.to

LEMMA FieldsChanged ==
  ASSUME NEW s, NEW F, NEW n, Form(s, F, n), NEW c, NEW i, NEW u, Changed(c, s, i, u, n)
  PROVE  AllDamaged(c, i, F, n)
<1>1. Fields(s, F, n) /\ Tiled(F, n) /\ Long(s, n)
  BY DEF Form, Fields
<1>2. Long(c, n) /\ i \in 1..n
  BY <1>1, LongChanged DEF Changed
<1>3. \A f \in F : f.from < f.to => Damaged(c, i, f)
  BY <1>1, FieldChanged
<1>4. PICK f \in F : i \in f.from + 1..f.to
  BY <1>1, <1>2 DEF Tiled
<1>5. f.from < f.to
  <2>1. f.from \in 0..n /\ f.to \in f.from..n /\ n \in Nat
    BY <1>1 DEF Fields, Long
  <2> QED BY <1>4, <2>1
<1> QED BY <1>2, <1>3, <1>4, <1>5 DEF AllDamaged

\* The fields at the front are a form of their own.
LEMMA FormAtFront ==
  ASSUME NEW s, NEW F, NEW n, Form(s, F, n), NEW u, NEW G, NEW m, Form(u, G, m), F \subseteq G, n <= m
  PROVE  SubSeq(u, 1, n) = s
<1>1. n \in Nat /\ m \in Nat /\ Long(s, n) /\ Long(u, m)
  BY FieldsRead
<1>2. Slices(SubSeq(u, 1, n), u, 1, n)
  <2>1. 1 \in Nat \ {0} /\ 1 <= n + 1
    BY <1>1
  <2> QED BY <1>1, <2>1, Slice
<1>3. PICK v : v = SubSeq(u, 1, n)
  OBVIOUS
<1>4. Long(v, n) /\ \A i \in 1..n : v[i] = u[i]
  <2>1. n - 1 + 1 = n /\ \A i \in 1..n : 1 + i - 1 = i
    BY <1>1
  <2> QED BY <1>2, <1>3, <2>1 DEF Slices
<1>5. ASSUME NEW i \in 1..n PROVE v[i] = s[i]
  <2>1. PICK f \in F : i \in f.from + 1..f.to
    BY DEF Form, Tiled
  <2>2. Holds(s, f) /\ Holds(u, f)
    BY DEF Form, Fields
  <2> QED BY <1>4, <2>1, <2>2 DEF Holds
<1> QED BY <1>1, <1>3, <1>4, <1>5, SameBytes

-----------------------------------------------------------------------------
(* What the readers make of the forms. *)

CertificateRecord(c) ==
    /\ c = [version |-> c.version, sig_algo |-> c.sig_algo,
            device_public_key |-> c.device_public_key, trust_group_id |-> c.trust_group_id,
            role |-> c.role, issued_at |-> c.issued_at, expires_at |-> c.expires_at,
            signature |-> c.signature]
    /\ c.sig_algo \in SigAlgos /\ c.role \in Roles
    /\ c.version # Mixed /\ c.sig_algo # Mixed /\ c.device_public_key # Mixed
    /\ c.trust_group_id # Mixed /\ c.role # Mixed /\ c.issued_at # Mixed
    /\ c.expires_at # Mixed /\ c.signature # Mixed

LEMMA CertificateRead ==
  ASSUME NEW c, CertificateRecord(c), NEW s, Form(s, CertificateFields(c), 147)
  PROVE  ReadCertificate(s) = c
<1>1. AllRead(s, CertificateFields(c)) /\ Len(s) = 147
  BY FieldsRead
<1>2. /\ Value(s, 0, 1) = c.version /\ Value(s, 1, 2) = c.sig_algo
      /\ Value(s, 2, 34) = c.device_public_key /\ Value(s, 34, 66) = c.trust_group_id
      /\ Value(s, 66, 67) = c.role /\ Value(s, 67, 75) = c.issued_at
      /\ Value(s, 75, 83) = c.expires_at /\ Value(s, 83, 147) = c.signature
  <2> DEFINE F == CertificateFields(c)
  <2>1. \A a, b, t : Field(a, b, t) \in F /\ a < b => Value(s, a, b) = t
    BY <1>1 DEF AllRead, Field
  <2> QED BY <2>1 DEF CertificateFields
<1>3. /\ Byte(s, 0) = c.version /\ Byte(s, 1) = c.sig_algo /\ Byte(s, 66) = c.role
  BY <1>2 DEF Byte
<1> QED BY <1>1, <1>2, <1>3 DEF ReadCertificate, CertificateRecord, DeviceCertLen

LEMMA CertificateFacts ==
  ASSUME NEW role \in Roles, NEW c, c = Certificate(role)
  PROVE  CertificateRecord(c) /\ VerifyCertificate(c) /\ c.device_public_key = Device
<1>1. PICK f : f = [version |-> Version, sig_algo |-> Code("classical"),
                    device_public_key |-> Device, trust_group_id |-> GroupKey,
                    role |-> role, issued_at |-> <<"time", 1>>,
                    expires_at |-> <<"time", 2>>, signature |-> <<"none">>]
  OBVIOUS
<1>2. PICK g : g = Signature(GroupKey, f)
  OBVIOUS
<1>3. c = [f EXCEPT !.signature = g]
  BY <1>1, <1>2 DEF Certificate, SignedBy
<1>4. c = [version |-> Version, sig_algo |-> Code("classical"),
           device_public_key |-> Device, trust_group_id |-> GroupKey,
           role |-> role, issued_at |-> <<"time", 1>>,
           expires_at |-> <<"time", 2>>, signature |-> g]
  BY <1>1, <1>3
<1>5. [c EXCEPT !.signature = <<"none">>] = [f EXCEPT !.signature = <<"none">>]
  BY <1>1, <1>4
<1>6. Signature(GroupKey, c) = g
  BY <1>2, <1>5 DEF Signature
<1>7. g # Mixed
  BY <1>2 DEF Signature, Mixed
<1>8. role # Mixed
  BY DEF Roles, Code, Mixed
<1>9. /\ Version # Mixed /\ Code("classical") # Mixed /\ Device # Mixed /\ GroupKey # Mixed
      /\ <<"time", 1>> # Mixed /\ <<"time", 2>> # Mixed
  BY DEF Mixed, Version, Code, Device, GroupKey
<1>10. VerifyCertificate(c)
  BY <1>4, <1>6 DEF VerifyCertificate, Verifies
<1>11. CertificateRecord(c)
  <2>1. Code("classical") \in SigAlgos
    BY DEF SigAlgos
  <2> QED BY <1>4, <1>7, <1>8, <1>9, <2>1 DEF CertificateRecord
<1> QED BY <1>4, <1>10, <1>11

\* Not all fields read the same after a change.
LEMMA ChangeShows ==
  ASSUME NEW c, NEW i, NEW F, NEW n, AllDamaged(c, i, F, n)
  PROVE  ~AllRead(c, F)
<1>1. PICK f \in F : i \in f.from + 1..f.to /\ f.from < f.to
  BY DEF AllDamaged
<1>2. Damaged(c, i, f)
  BY <1>1 DEF AllDamaged
<1> QED BY <1>1, <1>2 DEF AllRead, Damaged

\* Nor is a signature read as another one.
LEMMA SignatureDamaged ==
  ASSUME NEW c, NEW i, NEW F, NEW n, AllDamaged(c, i, F, n),
         NEW a \in Nat, NEW b \in Nat, NEW g, Field(a, b, g) \in F, a + 1 < b
  PROVE  Value(c, a, b) = g \/ Value(c, a, b) = Mixed
<1>1. Damaged(c, i, Field(a, b, g))
  BY DEF AllDamaged, Field
<1> QED BY <1>1 DEF Damaged, Field

LEMMA SignaturesSay ==
  ASSUME NEW k, NEW r, NEW j, NEW c, Verifies(k, r), Verifies(j, c), r.signature \in {c.signature, Mixed}
  PROVE  k = j /\ [r EXCEPT !.signature = <<"none">>] = [c EXCEPT !.signature = <<"none">>]
<1>1. PICK x, y : /\ x = [r EXCEPT !.signature = <<"none">>]
                  /\ y = [c EXCEPT !.signature = <<"none">>]
  OBVIOUS
<1>2. r.signature = <<"sig", k, x>> /\ c.signature = <<"sig", j, y>>
  BY <1>1 DEF Verifies, Signature
<1>3. <<"sig", k, x>> # Mixed
  BY DEF Mixed
<1>4. <<"sig", k, x>> = <<"sig", j, y>>
  BY <1>2, <1>3
<1> QED BY <1>1, <1>4

LEMMA CertificateChanged ==
  ASSUME NEW role \in Roles, NEW c, c = Certificate(role), NEW s, Form(s, CertificateFields(c), 147),
         NEW d, NEW i, NEW u, Changed(d, s, i, u, 147), ReadCertificate(d) # Refused
  PROVE  ~VerifyCertificate(ReadCertificate(d))
<1>1. CertificateRecord(c) /\ Verifies(GroupKey, c)
  BY CertificateFacts DEF VerifyCertificate
<1>2. AllDamaged(d, i, CertificateFields(c), 147)
  BY FieldsChanged
<1>3. PICK r : r = ReadCertificate(d)
  OBVIOUS
<1>4. r = [version |-> Byte(d, 0), sig_algo |-> Byte(d, 1),
           device_public_key |-> Value(d, 2, 34), trust_group_id |-> Value(d, 34, 66),
           role |-> Byte(d, 66), issued_at |-> Value(d, 67, 75),
           expires_at |-> Value(d, 75, 83), signature |-> Value(d, 83, 147)]
  BY <1>3 DEF ReadCertificate
<1> SUFFICES ASSUME Verifies(GroupKey, r) PROVE FALSE
  BY <1>3 DEF VerifyCertificate
<1>5. r.signature \in {c.signature, Mixed}
  <2>1. Field(83, 147, c.signature) \in CertificateFields(c)
    BY DEF CertificateFields
  <2> QED BY <1>2, <1>4, <2>1, SignatureDamaged
<1>6. [r EXCEPT !.signature = <<"none">>] = [c EXCEPT !.signature = <<"none">>]
  BY <1>1, <1>5, SignaturesSay
<1>7. /\ r.version = c.version /\ r.sig_algo = c.sig_algo
      /\ r.device_public_key = c.device_public_key /\ r.trust_group_id = c.trust_group_id
      /\ r.role = c.role /\ r.issued_at = c.issued_at /\ r.expires_at = c.expires_at
  BY <1>1, <1>4, <1>6 DEF CertificateRecord
<1>8. r.signature = c.signature
  BY <1>1, <1>6 DEF Verifies, Signature
<1>9. AllRead(d, CertificateFields(c))
  BY <1>4, <1>7, <1>8 DEF AllRead, CertificateFields, Field, Byte
<1> QED BY <1>2, <1>9, ChangeShows

RevocationRecord(c) ==
    /\ c = [sig_algo |-> c.sig_algo, device_public_key |-> c.device_public_key,
            revoked_at |-> c.revoked_at, reason |-> c.reason, signature |-> c.signature]
    /\ c.sig_algo \in SigAlgos /\ c.reason \in Reasons
    /\ c.sig_algo # Mixed /\ c.device_public_key # Mixed /\ c.revoked_at # Mixed
    /\ c.reason # Mixed /\ c.signature # Mixed

LEMMA RevocationRead ==
  ASSUME NEW c, RevocationRecord(c), NEW s, Form(s, RevocationFields(c), 106)
  PROVE  ReadRevocation(s) = c
<1>1. AllRead(s, RevocationFields(c)) /\ Len(s) = 106
  BY FieldsRead
<1>2. /\ Value(s, 0, 1) = c.sig_algo /\ Value(s, 1, 33) = c.device_public_key
      /\ Value(s, 33, 41) = c.revoked_at /\ Value(s, 41, 42) = c.reason
      /\ Value(s, 42, 106) = c.signature
  <2> DEFINE F == RevocationFields(c)
  <2>1. \A a, b, t : Field(a, b, t) \in F /\ a < b => Value(s, a, b) = t
    BY <1>1 DEF AllRead, Field
  <2> QED BY <2>1 DEF RevocationFields
<1>3. Byte(s, 0) = c.sig_algo /\ Byte(s, 41) = c.reason
  BY <1>2 DEF Byte
<1> QED BY <1>1, <1>2, <1>3 DEF ReadRevocation, RevocationRecord

LEMMA RevocationFacts ==
  ASSUME NEW reason \in Reasons, NEW c, c = Revocation(reason)
  PROVE  RevocationRecord(c) /\ VerifyRevocation(c)
<1>1. PICK f : f = [sig_algo |-> Code("classical"), device_public_key |-> Device,
                    revoked_at |-> <<"time", 1>>, reason |-> reason, signature |-> <<"none">>]
  OBVIOUS
<1>2. PICK g : g = Signature(GroupKey, f)
  OBVIOUS
<1>3. c = [f EXCEPT !.signature = g]
  BY <1>1, <1>2 DEF Revocation, SignedBy
<1>4. c = [sig_algo |-> Code("classical"), device_public_key |-> Device,
           revoked_at |-> <<"time", 1>>, reason |-> reason, signature |-> g]
  BY <1>1, <1>3
<1>5. [c EXCEPT !.signature = <<"none">>] = [f EXCEPT !.signature = <<"none">>]
  BY <1>1, <1>4
<1>6. Signature(GroupKey, c) = g
  BY <1>2, <1>5 DEF Signature
<1>7. g # Mixed
  BY <1>2 DEF Signature, Mixed
<1>8. reason # Mixed
  BY DEF Reasons, Code, Mixed
<1>9. Code("classical") # Mixed /\ Device # Mixed /\ <<"time", 1>> # Mixed
  BY DEF Mixed, Code, Device
<1>10. VerifyRevocation(c)
  BY <1>4, <1>6 DEF VerifyRevocation, Verifies
<1>11. RevocationRecord(c)
  <2>1. Code("classical") \in SigAlgos
    BY DEF SigAlgos
  <2> QED BY <1>4, <1>7, <1>8, <1>9, <2>1 DEF RevocationRecord
<1> QED BY <1>10, <1>11

LEMMA RevocationChanged ==
  ASSUME NEW reason \in Reasons, NEW c, c = Revocation(reason),
         NEW s, Form(s, RevocationFields(c), 106),
         NEW d, NEW i, NEW u, Changed(d, s, i, u, 106), ReadRevocation(d) # Refused
  PROVE  ~VerifyRevocation(ReadRevocation(d))
<1>1. RevocationRecord(c) /\ Verifies(GroupKey, c)
  BY RevocationFacts DEF VerifyRevocation
<1>2. AllDamaged(d, i, RevocationFields(c), 106)
  BY FieldsChanged
<1>3. PICK r : r = ReadRevocation(d)
  OBVIOUS
<1>4. r = [sig_algo |-> Byte(d, 0), device_public_key |-> Value(d, 1, 33),
           revoked_at |-> Value(d, 33, 41), reason |-> Byte(d, 41),
           signature |-> Value(d, 42, 106)]
  BY <1>3 DEF ReadRevocation
<1> SUFFICES ASSUME Verifies(GroupKey, r) PROVE FALSE
  BY <1>3 DEF VerifyRevocation
<1>5. r.signature \in {c.signature, Mixed}
  <2>1. Field(42, 106, c.signature) \in RevocationFields(c)
    BY DEF RevocationFields
  <2> QED BY <1>2, <1>4, <2>1, SignatureDamaged
<1>6. [r EXCEPT !.signature = <<"none">>] = [c EXCEPT !.signature = <<"none">>]
  BY <1>1, <1>5, SignaturesSay
<1>7. /\ r.sig_algo = c.sig_algo /\ r.device_public_key = c.device_public_key
      /\ r.revoked_at = c.revoked_at /\ r.reason = c.reason
  BY <1>1, <1>4, <1>6 DEF RevocationRecord
<1>8. r.signature = c.signature
  BY <1>1, <1>6 DEF Verifies, Signature
<1>9. AllRead(d, RevocationFields(c))
  BY <1>4, <1>7, <1>8 DEF AllRead, RevocationFields, Field, Byte
<1> QED BY <1>2, <1>9, ChangeShows

InviteRecord(c) ==
    /\ c = [invite_code |-> c.invite_code, trust_group_id |-> c.trust_group_id,
            issuer_pk |-> c.issuer_pk, created_at |-> c.created_at,
            expires_at |-> c.expires_at, max_uses |-> c.max_uses, signature |-> c.signature]
    /\ c.invite_code # Mixed /\ c.trust_group_id # Mixed /\ c.issuer_pk # Mixed
    /\ c.created_at # Mixed /\ c.expires_at # Mixed /\ c.max_uses # Mixed /\ c.signature # Mixed

LEMMA InviteRead ==
  ASSUME NEW c, InviteRecord(c), NEW s, Form(s, InviteFields(c), 161)
  PROVE  ReadInvite(s) = c
<1>1. AllRead(s, InviteFields(c)) /\ Len(s) = 161
  BY FieldsRead
<1>2. /\ Value(s, 0, 16) = c.invite_code /\ Value(s, 16, 48) = c.trust_group_id
      /\ Value(s, 48, 80) = c.issuer_pk /\ Value(s, 80, 88) = c.created_at
      /\ Value(s, 88, 96) = c.expires_at /\ Value(s, 96, 97) = c.max_uses
      /\ Value(s, 97, 161) = c.signature
  <2> DEFINE F == InviteFields(c)
  <2>1. \A a, b, t : Field(a, b, t) \in F /\ a < b => Value(s, a, b) = t
    BY <1>1 DEF AllRead, Field
  <2> QED BY <2>1 DEF InviteFields
<1>3. Byte(s, 96) = c.max_uses
  BY <1>2 DEF Byte
<1> QED BY <1>1, <1>2, <1>3 DEF ReadInvite, InviteRecord

LEMMA InviteFacts ==
  ASSUME NEW n \in 0..1, NEW c, c = Invite(<<"uses", n>>)
  PROVE  /\ InviteRecord(c) /\ Verifies(Issuer, c) /\ c.issuer_pk = Issuer
         /\ c.max_uses = <<"uses", n>> /\ c.expires_at = <<"time", 2>>
<1>1. PICK f, m : /\ m = <<"uses", n>>
                  /\ f = [invite_code |-> <<"joincode">>, trust_group_id |-> GroupKey,
                          issuer_pk |-> Issuer, created_at |-> <<"time", 1>>,
                          expires_at |-> <<"time", 2>>, max_uses |-> m, signature |-> <<"none">>]
  OBVIOUS
<1>2. PICK g : g = Signature(Issuer, f)
  OBVIOUS
<1>3. c = [f EXCEPT !.signature = g]
  BY <1>1, <1>2 DEF Invite, SignedBy
<1>4. c = [invite_code |-> <<"joincode">>, trust_group_id |-> GroupKey,
           issuer_pk |-> Issuer, created_at |-> <<"time", 1>>,
           expires_at |-> <<"time", 2>>, max_uses |-> m, signature |-> g]
  BY <1>1, <1>3
<1>5. [c EXCEPT !.signature = <<"none">>] = [f EXCEPT !.signature = <<"none">>]
  BY <1>1, <1>4
<1>6. Signature(Issuer, c) = g
  BY <1>2, <1>5 DEF Signature
<1>7. g # Mixed
  BY <1>2 DEF Signature, Mixed
<1>8. m # Mixed
  BY <1>1 DEF Mixed
<1>9. /\ <<"joincode">> # Mixed /\ GroupKey # Mixed /\ Issuer # Mixed
      /\ <<"time", 1>> # Mixed /\ <<"time", 2>> # Mixed
  BY DEF Mixed, GroupKey, Issuer
<1>10. Verifies(Issuer, c)
  BY <1>4, <1>6 DEF Verifies
<1>11. InviteRecord(c)
  BY <1>4, <1>7, <1>8, <1>9 DEF InviteRecord
<1> QED BY <1>1, <1>4, <1>10, <1>11

LEMMA InviteChanged ==
  ASSUME NEW n \in 0..1, NEW c, c = Invite(<<"uses", n>>), NEW s, Form(s, InviteFields(c), 161),
         NEW d, NEW i, NEW u, Changed(d, s, i, u, 161), ReadInvite(d) # Refused
  PROVE  ~VerifyInvite(ReadInvite(d))
<1>1. InviteRecord(c) /\ Verifies(Issuer, c)
  BY InviteFacts
<1>2. AllDamaged(d, i, InviteFields(c), 161)
  BY FieldsChanged
<1>3. PICK r : r = ReadInvite(d)
  OBVIOUS
<1>4. r = [invite_code |-> Value(d, 0, 16), trust_group_id |-> Value(d, 16, 48),
           issuer_pk |-> Value(d, 48, 80), created_at |-> Value(d, 80, 88),
           expires_at |-> Value(d, 88, 96), max_uses |-> Byte(d, 96),
           signature |-> Value(d, 97, 161)]
  BY <1>3 DEF ReadInvite
<1> SUFFICES ASSUME Verifies(r.issuer_pk, r) PROVE FALSE
  BY <1>3 DEF VerifyInvite
<1>5. r.signature \in {c.signature, Mixed}
  <2>1. Field(97, 161, c.signature) \in InviteFields(c)
    BY DEF InviteFields
  <2> QED BY <1>2, <1>4, <2>1, SignatureDamaged
<1>6. /\ r.issuer_pk = Issuer
      /\ [r EXCEPT !.signature = <<"none">>] = [c EXCEPT !.signature = <<"none">>]
  <2>1. PICK k : k = r.issuer_pk /\ Verifies(k, r)
    OBVIOUS
  <2>2. Verifies(Issuer, c) /\ r.signature \in {c.signature, Mixed}
    BY <1>1, <1>5
  <2>3. k = Issuer /\ [r EXCEPT !.signature = <<"none">>] = [c EXCEPT !.signature = <<"none">>]
    BY <2>1, <2>2, SignaturesSay
  <2> QED BY <2>1, <2>3
<1>7. /\ r.invite_code = c.invite_code /\ r.trust_group_id = c.trust_group_id
      /\ r.issuer_pk = c.issuer_pk /\ r.created_at = c.created_at
      /\ r.expires_at = c.expires_at /\ r.max_uses = c.max_uses
  BY <1>1, <1>4, <1>6 DEF InviteRecord
<1>8. r.signature = c.signature
  BY <1>1, <1>6 DEF Verifies, Signature
<1>9. AllRead(d, InviteFields(c))
  BY <1>4, <1>7, <1>8 DEF AllRead, InviteFields, Field, Byte
<1> QED BY <1>2, <1>9, ChangeShows

BundleFields(b) ==
    CertificateFields(b.certificate)
    \cup {Field(147, 179, b.dek), Field(179, 211, b.hk), Field(211, 212, b.min_crypto_level)}

LEMMA BundleForm ==
  ASSUME NEW b, CertificateRecord(b.certificate),
         b.dek # Mixed, b.hk # Mixed, b.min_crypto_level # Mixed
  PROVE  Form(WriteBundle(b), BundleFields(b), 212)
<1>1. PICK t1, t2, t3 :
         /\ t1 = b.dek /\ t1 # Mixed
         /\ t2 = b.hk /\ t2 # Mixed
         /\ t3 = b.min_crypto_level /\ t3 # Mixed
  OBVIOUS
<1> DEFINE F0 == CertificateFields(b.certificate)
           F1 == F0 \cup {Field(147, 179, t1)}
           F2 == F1 \cup {Field(179, 211, t2)}
           F3 == F2 \cup {Field(211, 212, t3)}
           s0 == WriteCertificate(b.certificate)
           s1 == s0 \o Bytes(t1, 32)
           s2 == s1 \o Bytes(t2, 32)
           s3 == s2 \o Bytes(t3, 1)
<1>2. Form(s0, F0, 147)
  BY CertificateForm DEF CertificateRecord
<1> HIDE DEF s0, F0
<1>3. Form(s1, F1, 179)
  <2>1. Grown(s0, F0, 147, t1, 32, 179, s1, F1)
    BY <1>1, <1>2 DEF Grown
  <2> HIDE DEF s1, F1
  <2> QED BY <2>1, FormGrows
<1> HIDE DEF s1, F1
<1>4. Form(s2, F2, 211)
  <2>1. Grown(s1, F1, 179, t2, 32, 211, s2, F2)
    BY <1>1, <1>3 DEF Grown
  <2> HIDE DEF s2, F2
  <2> QED BY <2>1, FormGrows
<1> HIDE DEF s2, F2
<1>5. Form(s3, F3, 212)
  <2>1. Grown(s2, F2, 211, t3, 1, 212, s3, F3)
    BY <1>1, <1>4 DEF Grown
  <2> HIDE DEF s3, F3
  <2> QED BY <2>1, FormGrows
<1> HIDE DEF s3, F3
<1>6. s3 = WriteBundle(b)
  BY <1>1 DEF WriteBundle, KeyLen, s0, s1, s2, s3
<1>7. F3 = BundleFields(b)
  BY <1>1 DEF BundleFields, F0, F1, F2, F3
<1> QED BY <1>5, <1>6, <1>7

GroupFields(g) ==
    {Field(0, 1, Version), Field(1, 33, g.signing_key), Field(33, 37, g.sequence),
     Field(37, 38, g.min_crypto_level)}

LEMMA GroupForm ==
  ASSUME NEW g, g.signing_key # Mixed, g.sequence # Mixed, g.min_crypto_level # Mixed
  PROVE  Form(WriteGroup(g), GroupFields(g), 38)
<1>0. Version # Mixed
  BY DEF Version, Code, Mixed
<1>1. PICK t1, t2, t3, t4 :
         /\ t1 = Version /\ t1 # Mixed
         /\ t2 = g.signing_key /\ t2 # Mixed
         /\ t3 = g.sequence /\ t3 # Mixed
         /\ t4 = g.min_crypto_level /\ t4 # Mixed
  BY <1>0
<1> DEFINE F1 == {Field(0, 1, t1)}
           F2 == F1 \cup {Field(1, 33, t2)}
           F3 == F2 \cup {Field(33, 37, t3)}
           F4 == F3 \cup {Field(37, 38, t4)}
           s1 == Bytes(t1, 1)
           s2 == s1 \o Bytes(t2, 32)
           s3 == s2 \o Bytes(t3, 4)
           s4 == s3 \o Bytes(t4, 1)
<1>2. Form(s1, F1, 1)
  BY <1>1, FormOfOne
<1> HIDE DEF s1, F1
<1>3. Form(s2, F2, 33)
  <2>1. Grown(s1, F1, 1, t2, 32, 33, s2, F2)
    BY <1>1, <1>2 DEF Grown
  <2> HIDE DEF s2, F2
  <2> QED BY <2>1, FormGrows
<1> HIDE DEF s2, F2
<1>4. Form(s3, F3, 37)
  <2>1. Grown(s2, F2, 33, t3, 4, 37, s3, F3)
    BY <1>1, <1>3 DEF Grown
  <2> HIDE DEF s3, F3
  <2> QED BY <2>1, FormGrows
<1> HIDE DEF s3, F3
<1>5. Form(s4, F4, 38)
  <2>1. Grown(s3, F3, 37, t4, 1, 38, s4, F4)
    BY <1>1, <1>4 DEF Grown
  <2> HIDE DEF s4, F4
  <2> QED BY <2>1, FormGrows
<1> HIDE DEF s4, F4
<1>6. s4 = WriteGroup(g)
  BY <1>1 DEF WriteGroup, KeyLen, s1, s2, s3, s4
<1>7. F4 = GroupFields(g)
  BY <1>1 DEF GroupFields, F1, F2, F3, F4
<1> QED BY <1>5, <1>6, <1>7

MessageFields(m, n) ==
    {Field(0, 1, m.version), Field(1, 2, m.sig_algo), Field(2, 3, m.opcode),
     Field(3, 35, m.trust_group_id), Field(35, 67, m.sender_pk), Field(67, 71, m.sequence),
     Field(71, 79, m.timestamp), Field(79, 81, <<"size", n>>),
     Field(81, 81 + n, <<"payload">>), Field(81 + n, 145 + n, m.signature)}

LEMMA MessageForm ==
  ASSUME NEW m, NEW n \in 0..MaxPayload, m.payload = Bytes(<<"payload">>, n),
         m.version # Mixed, m.sig_algo # Mixed, m.opcode # Mixed, m.trust_group_id # Mixed,
         m.sender_pk # Mixed, m.sequence # Mixed, m.timestamp # Mixed, m.signature # Mixed
  PROVE  Form(WriteMessage(m), MessageFields(m, n), 145 + n)
<1>0. PICK t8, t9 : t8 = <<"size", n>> /\ t9 = <<"payload">>
  OBVIOUS
<1>0a. t8 # Mixed /\ t9 # Mixed
  BY <1>0 DEF Mixed
<1>1. PICK t1, t2, t3, t4, t5, t6, t7, t10 :
         /\ t1 = m.version /\ t1 # Mixed
         /\ t2 = m.sig_algo /\ t2 # Mixed
         /\ t3 = m.opcode /\ t3 # Mixed
         /\ t4 = m.trust_group_id /\ t4 # Mixed
         /\ t5 = m.sender_pk /\ t5 # Mixed
         /\ t6 = m.sequence /\ t6 # Mixed
         /\ t7 = m.timestamp /\ t7 # Mixed
         /\ t8 = <<"size", n>> /\ t8 # Mixed
         /\ t9 = <<"payload">> /\ t9 # Mixed
         /\ t10 = m.signature /\ t10 # Mixed
  BY <1>0, <1>0a
<1> DEFINE F1 == {Field(0, 1, t1)}
           F2 == F1 \cup {Field(1, 2, t2)}
           F3 == F2 \cup {Field(2, 3, t3)}
           F4 == F3 \cup {Field(3, 35, t4)}
           F5 == F4 \cup {Field(35, 67, t5)}
           F6 == F5 \cup {Field(67, 71, t6)}
           F7 == F6 \cup {Field(71, 79, t7)}
           F8 == F7 \cup {Field(79, 81, t8)}
           F9 == F8 \cup {Field(81, 81 + n, t9)}
           F10 == F9 \cup {Field(81 + n, 145 + n, t10)}
           s1 == Bytes(t1, 1)
           s2 == s1 \o Bytes(t2, 1)
           s3 == s2 \o Bytes(t3, 1)
           s4 == s3 \o Bytes(t4, 32)
           s5 == s4 \o Bytes(t5, 32)
           s6 == s5 \o Bytes(t6, 4)
           s7 == s6 \o Bytes(t7, 8)
           s8 == s7 \o Bytes(t8, 2)
           s9 == s8 \o Bytes(t9, n)
           s10 == s9 \o Bytes(t10, 64)
<1>2. Form(s1, F1, 1)
  BY <1>1, FormOfOne
<1> HIDE DEF s1, F1
<1>3. Form(s2, F2, 2)
  <2>1. Grown(s1, F1, 1, t2, 1, 2, s2, F2)
    BY <1>1, <1>2 DEF Grown
  <2> HIDE DEF s2, F2
  <2> QED BY <2>1, FormGrows
<1> HIDE DEF s2, F2
<1>4. Form(s3, F3, 3)
  <2>1. Grown(s2, F2, 2, t3, 1, 3, s3, F3)
    BY <1>1, <1>3 DEF Grown
  <2> HIDE DEF s3, F3
  <2> QED BY <2>1, FormGrows
<1> HIDE DEF s3, F3
<1>5. Form(s4, F4, 35)
  <2>1. Grown(s3, F3, 3, t4, 32, 35, s4, F4)
    BY <1>1, <1>4 DEF Grown
  <2> HIDE DEF s4, F4
  <2> QED BY <2>1, FormGrows
<1> HIDE DEF s4, F4
<1>6. Form(s5, F5, 67)
  <2>1. Grown(s4, F4, 35, t5, 32, 67, s5, F5)
    BY <1>1, <1>5 DEF Grown
  <2> HIDE DEF s5, F5
  <2> QED BY <2>1, FormGrows
<1> HIDE DEF s5, F5
<1>7. Form(s6, F6, 71)
  <2>1. Grown(s5, F5, 67, t6, 4, 71, s6, F6)
    BY <1>1, <1>6 DEF Grown
  <2> HIDE DEF s6, F6
  <2> QED BY <2>1, FormGrows
<1> HIDE DEF s6, F6
<1>8. Form(s7, F7, 79)
  <2>1. Grown(s6, F6, 71, t7, 8, 79, s7, F7)
    BY <1>1, <1>7 DEF Grown
  <2> HIDE DEF s7, F7
  <2> QED BY <2>1, FormGrows
<1> HIDE DEF s7, F7
<1>9. Form(s8, F8, 81)
  <2>1. Grown(s7, F7, 79, t8, 2, 81, s8, F8)
    BY <1>1, <1>8 DEF Grown
  <2> HIDE DEF s8, F8
  <2> QED BY <2>1, FormGrows
<1> HIDE DEF s8, F8
<1>10. Form(s9, F9, 81 + n)
  <2>1. Grown(s8, F8, 81, t9, n, 81 + n, s9, F9)
    BY <1>1, <1>9 DEF Grown
  <2> HIDE DEF s9, F9
  <2> QED BY <2>1, FormGrows
<1> HIDE DEF s9, F9
<1>11. Form(s10, F10, 145 + n)
  <2>1. Grown(s9, F9, 81 + n, t10, 64, 145 + n, s10, F10)
    BY <1>1, <1>10 DEF Grown
  <2> HIDE DEF s10, F10
  <2> QED BY <2>1, FormGrows
<1> HIDE DEF s10, F10
<1>12. s10 = WriteMessage(m)
  <2>1. Len(m.payload) = n
    BY FormsAssumption, BytesFacts DEF Long
  <2>2. n % (MaxPayload + 1) = n
    BY FormsAssumption
  <2>3. Bytes(<<"size", Len(m.payload) % (MaxPayload + 1)>>, 2) = Bytes(t8, 2)
    BY <1>1, <2>1, <2>2
  <2>4. m.payload = Bytes(t9, n)
    BY <1>1
  <2> QED BY <1>1, <2>3, <2>4
          DEF WriteMessage, KeyLen, SignatureLen, s1, s2, s3, s4, s5, s6, s7, s8, s9, s10
<1>13. F10 = MessageFields(m, n)
  BY <1>1 DEF MessageFields, F1, F2, F3, F4, F5, F6, F7, F8, F9, F10
<1> QED BY <1>11, <1>12, <1>13

MessageRecord(m, n) ==
    /\ n \in 0..MaxPayload /\ m.payload = Bytes(<<"payload">>, n)
    /\ m = [version |-> m.version, sig_algo |-> m.sig_algo, opcode |-> m.opcode,
            trust_group_id |-> m.trust_group_id, sender_pk |-> m.sender_pk,
            sequence |-> m.sequence, timestamp |-> m.timestamp,
            payload |-> m.payload, signature |-> m.signature]
    /\ m.sig_algo \in SigAlgos /\ m.opcode \in OpCodes
    /\ m.version # Mixed /\ m.sig_algo # Mixed /\ m.opcode # Mixed
    /\ m.trust_group_id # Mixed /\ m.sender_pk # Mixed /\ m.sequence # Mixed
    /\ m.timestamp # Mixed /\ m.signature # Mixed

\* The length of the payload, when it can be read and when it cannot.
LEMMA SizeRead ==
  ASSUME NEW s, NEW a, NEW b, b <= Len(s)
  PROVE  /\ \A n : Value(s, a, b) = <<"size", n>> => Size(s, a, b) = n
         /\ Value(s, a, b) = Mixed => Size(s, a, b) = 1000 + MaxPayload
<1>1. ASSUME NEW n, Value(s, a, b) = <<"size", n>> PROVE Size(s, a, b) = n
  BY <1>1 DEF Size
<1>2. ASSUME Value(s, a, b) = Mixed PROVE Size(s, a, b) = 1000 + MaxPayload
  <2>1. Mixed[1] # "size"
    BY DEF Mixed
  <2> QED BY <1>2, <2>1 DEF Size
<1> QED BY <1>1, <1>2

LEMMA ReadMessageIs ==
  ASSUME NEW s, NEW n, Size(s, 79, 81) = n
  PROVE  ReadMessage(s) =
           IF \/ Len(s) < 145 \/ Byte(s, 1) \notin SigAlgos \/ Byte(s, 2) \notin OpCodes
              \/ Len(s) # 81 + n + 64
           THEN Refused
           ELSE [version |-> Byte(s, 0), sig_algo |-> Byte(s, 1), opcode |-> Byte(s, 2),
                 trust_group_id |-> Value(s, 3, 35), sender_pk |-> Value(s, 35, 67),
                 sequence |-> Value(s, 67, 71), timestamp |-> Value(s, 71, 79),
                 payload |-> SubSeq(s, 82, 81 + n), signature |-> Value(s, 81 + n, 81 + n + 64)]
BY Zenon DEF ReadMessage

\* A message that is not refused, part by part.
MessageParts(s, n, g) ==
    /\ Byte(s, 1) \in SigAlgos /\ Byte(s, 2) \in OpCodes
    /\ g = [version |-> Byte(s, 0), sig_algo |-> Byte(s, 1), opcode |-> Byte(s, 2),
            trust_group_id |-> Value(s, 3, 35), sender_pk |-> Value(s, 35, 67),
            sequence |-> Value(s, 67, 71), timestamp |-> Value(s, 71, 79),
            payload |-> SubSeq(s, 82, 81 + n), signature |-> Value(s, 81 + n, 81 + n + 64)]

LEMMA MessageAsParts ==
  ASSUME NEW s, NEW n, Size(s, 79, 81) = n, ReadMessage(s) # Refused
  PROVE  MessageParts(s, n, ReadMessage(s))
<1>1. ~(\/ Len(s) < 145 \/ Byte(s, 1) \notin SigAlgos \/ Byte(s, 2) \notin OpCodes
        \/ Len(s) # 81 + n + 64)
  BY ReadMessageIs
<1> QED BY <1>1, ReadMessageIs DEF MessageParts

LEMMA MessageRead ==
  ASSUME NEW m, NEW n, MessageRecord(m, n), NEW s, Form(s, MessageFields(m, n), 145 + n)
  PROVE  ReadMessage(s) = m
<1>1. AllRead(s, MessageFields(m, n)) /\ Len(s) = 145 + n /\ Long(s, 145 + n)
  BY FieldsRead
<1>2. n \in Nat
  BY FormsAssumption DEF MessageRecord
<1>3. /\ Value(s, 0, 1) = m.version /\ Value(s, 1, 2) = m.sig_algo /\ Value(s, 2, 3) = m.opcode
      /\ Value(s, 3, 35) = m.trust_group_id /\ Value(s, 35, 67) = m.sender_pk
      /\ Value(s, 67, 71) = m.sequence /\ Value(s, 71, 79) = m.timestamp
      /\ Value(s, 79, 81) = <<"size", n>> /\ Value(s, 81 + n, 145 + n) = m.signature
  <2> DEFINE F == MessageFields(m, n)
  <2>1. \A a, b, t : Field(a, b, t) \in F /\ a < b => Value(s, a, b) = t
    BY <1>1 DEF AllRead, Field
  <2>2. 81 + n < 145 + n
    BY <1>2
  <2> QED BY <2>1, <2>2 DEF MessageFields
<1>4. Byte(s, 0) = m.version /\ Byte(s, 1) = m.sig_algo /\ Byte(s, 2) = m.opcode
  BY <1>3 DEF Byte
<1>5. Size(s, 79, 81) = n
  BY <1>1, <1>2, <1>3, SizeRead
<1>6. SubSeq(s, 82, 81 + n) = m.payload
  <2>1. PICK b : b = 81 + n
    OBVIOUS
  <2>2. PICK v : v = SubSeq(s, 82, b)
    OBVIOUS
  <2>3. Long(v, n) /\ \A i \in 1..n : v[i] = s[81 + i]
    <3>1. 81 \in Nat /\ 81 + n <= 145 + n /\ 82 = 81 + 1
      BY <1>2
    <3>2. SliceAt(v, s, 81, n)
      BY <1>1, <1>2, <2>1, <2>2, <3>1, SliceFrom
    <3> QED BY <3>2 DEF SliceAt
  <2>4. \A i \in 82..81 + n : s[i] = <<<<"payload">>, i - 81>>
    <3>1. Field(81, 81 + n, <<"payload">>) \in MessageFields(m, n)
      BY DEF MessageFields
    <3>2. Holds(s, Field(81, 81 + n, <<"payload">>))
      BY <3>1 DEF Form, Fields
    <3> QED BY <3>2 DEF Holds, Field
  <2>5. \A i \in 1..n : v[i] = <<<<"payload">>, i>>
    <3>1. SUFFICES ASSUME NEW i \in 1..n PROVE v[i] = <<<<"payload">>, i>>
      OBVIOUS
    <3>2. PICK j \in 82..81 + n : j = 81 + i /\ j - 81 = i
      BY <1>2
    <3> QED BY <2>3, <2>4, <3>2
  <2>6. v = Bytes(<<"payload">>, n)
    BY <1>2, <2>3, <2>5, BytesFacts, SameBytes
  <2> QED BY <2>1, <2>2, <2>6 DEF MessageRecord
<1>7. Len(s) = 81 + n + 64 /\ ~(Len(s) < 145)
  BY <1>1, <1>2
<1>8. Value(s, 81 + n, 81 + n + 64) = m.signature
  <2>1. 81 + n + 64 = 145 + n
    BY <1>2
  <2> QED BY <1>3, <2>1
<1>9. ReadMessage(s) = [version |-> m.version, sig_algo |-> m.sig_algo, opcode |-> m.opcode,
                        trust_group_id |-> m.trust_group_id, sender_pk |-> m.sender_pk,
                        sequence |-> m.sequence, timestamp |-> m.timestamp,
                        payload |-> m.payload, signature |-> m.signature]
  <2>1. m.sig_algo \in SigAlgos /\ m.opcode \in OpCodes
    BY DEF MessageRecord
  <2>2. PICK a, b, p : a = 81 + n /\ b = 81 + n + 64 /\ p = SubSeq(s, 82, a)
    OBVIOUS
  <2>3. ReadMessage(s) =
          IF \/ Len(s) < 145 \/ Byte(s, 1) \notin SigAlgos \/ Byte(s, 2) \notin OpCodes
             \/ Len(s) # b
          THEN Refused
          ELSE [version |-> Byte(s, 0), sig_algo |-> Byte(s, 1), opcode |-> Byte(s, 2),
                trust_group_id |-> Value(s, 3, 35), sender_pk |-> Value(s, 35, 67),
                sequence |-> Value(s, 67, 71), timestamp |-> Value(s, 71, 79),
                payload |-> p, signature |-> Value(s, a, b)]
    BY <1>5, <2>2, ReadMessageIs
  <2>4. Len(s) = b /\ p = m.payload /\ Value(s, a, b) = m.signature
    BY <1>6, <1>7, <1>8, <2>2
  <2> QED BY <1>3, <1>4, <1>7, <2>1, <2>3, <2>4
<1> QED BY <1>9 DEF MessageRecord

LEMMA MessageFacts ==
  ASSUME NEW opcode \in OpCodes, NEW n \in 0..MaxPayload,
         NEW c, c = Message(opcode, Bytes(<<"payload">>, n))
  PROVE  MessageRecord(c, n) /\ VerifyMessage(c)
<1>1. PICK f, p : /\ p = Bytes(<<"payload">>, n)
                  /\ f = [version |-> Version, sig_algo |-> Code("classical"), opcode |-> opcode,
                          trust_group_id |-> GroupKey, sender_pk |-> Device,
                          sequence |-> <<"sequence", 3>>, timestamp |-> <<"time", 1>>,
                          payload |-> p, signature |-> <<"none">>]
  OBVIOUS
<1>2. PICK g : g = Signature(Device, f)
  OBVIOUS
<1>3. c = [f EXCEPT !.signature = g]
  BY <1>1, <1>2 DEF Message, SignedBy
<1>4. c = [version |-> Version, sig_algo |-> Code("classical"), opcode |-> opcode,
           trust_group_id |-> GroupKey, sender_pk |-> Device,
           sequence |-> <<"sequence", 3>>, timestamp |-> <<"time", 1>>,
           payload |-> p, signature |-> g]
  BY <1>1, <1>3
<1>5. [c EXCEPT !.signature = <<"none">>] = [f EXCEPT !.signature = <<"none">>]
  BY <1>1, <1>4
<1>6. Signature(Device, c) = g
  BY <1>2, <1>5 DEF Signature
<1>7. g # Mixed
  BY <1>2 DEF Signature, Mixed
<1>8. opcode # Mixed
  BY DEF OpCodes, Code, Mixed
<1>9. /\ Version # Mixed /\ Code("classical") # Mixed /\ Device # Mixed /\ GroupKey # Mixed
      /\ <<"time", 1>> # Mixed /\ <<"sequence", 3>> # Mixed
  BY DEF Mixed, Version, Code, Device, GroupKey
<1>10. VerifyMessage(c)
  BY <1>4, <1>6 DEF VerifyMessage, Verifies
<1>11. MessageRecord(c, n)
  <2>1. Code("classical") \in SigAlgos
    BY DEF SigAlgos
  <2> QED BY <1>1, <1>4, <1>7, <1>8, <1>9, <2>1 DEF MessageRecord
<1> QED BY <1>10, <1>11

LEMMA MessageChanged ==
  ASSUME NEW opcode \in OpCodes, NEW n \in 0..MaxPayload,
         NEW c, c = Message(opcode, Bytes(<<"payload">>, n)),
         NEW s, Form(s, MessageFields(c, n), 145 + n),
         NEW d, NEW i, NEW u, Changed(d, s, i, u, 145 + n), ReadMessage(d) # Refused
  PROVE  ~VerifyMessage(ReadMessage(d))
<1>0. n \in Nat /\ n <= MaxPayload /\ MaxPayload \in Nat
  BY FormsAssumption
<1>1. MessageRecord(c, n) /\ Verifies(Device, c)
  BY MessageFacts DEF VerifyMessage
<1>2. AllDamaged(d, i, MessageFields(c, n), 145 + n)
  BY FieldsChanged
<1>3. Len(d) = 145 + n /\ Long(d, 145 + n)
  BY <1>2 DEF AllDamaged, Long
<1>4. Value(d, 79, 81) = <<"size", n>> /\ Size(d, 79, 81) = n
  <2>1. Value(d, 79, 81) = <<"size", n>> \/ Value(d, 79, 81) = Mixed
    <3>1. Field(79, 81, <<"size", n>>) \in MessageFields(c, n)
      BY DEF MessageFields
    <3> QED BY <1>2, <3>1, SignatureDamaged
  <2>2. 81 <= Len(d)
    BY <1>0, <1>3
  <2>3. CASE Value(d, 79, 81) = Mixed
    <3>1. Size(d, 79, 81) = 1000 + MaxPayload
      BY <2>2, <2>3, SizeRead
    <3>2. Len(d) # 81 + (1000 + MaxPayload) + 64
      BY <1>0, <1>3
    <3> QED BY <3>1, <3>2 DEF ReadMessage
  <2> QED BY <2>1, <2>2, <2>3, SizeRead
<1>5. PICK r : r = ReadMessage(d)
  OBVIOUS
<1>6. PICK z, y : z = 145 + n /\ z = 81 + n + 64 /\ y = 81 + n
  BY <1>0
<1>7. r = [version |-> Byte(d, 0), sig_algo |-> Byte(d, 1), opcode |-> Byte(d, 2),
           trust_group_id |-> Value(d, 3, 35), sender_pk |-> Value(d, 35, 67),
           sequence |-> Value(d, 67, 71), timestamp |-> Value(d, 71, 79),
           payload |-> SubSeq(d, 82, y), signature |-> Value(d, y, z)]
  <2>1. r = [version |-> Byte(d, 0), sig_algo |-> Byte(d, 1), opcode |-> Byte(d, 2),
             trust_group_id |-> Value(d, 3, 35), sender_pk |-> Value(d, 35, 67),
             sequence |-> Value(d, 67, 71), timestamp |-> Value(d, 71, 79),
             payload |-> SubSeq(d, 82, 81 + n), signature |-> Value(d, 81 + n, 81 + n + 64)]
    <3>1. MessageParts(d, n, ReadMessage(d))
      BY <1>4, MessageAsParts
    <3> QED BY <1>5, <3>1 DEF MessageParts
  <2> QED BY <1>6, <2>1
<1> SUFFICES ASSUME Verifies(Device, r) PROVE FALSE
  BY <1>5 DEF VerifyMessage
<1>8. r.signature \in {c.signature, Mixed}
  <2>1. Field(y, z, c.signature) \in MessageFields(c, n)
    BY <1>6 DEF MessageFields
  <2>2. y \in Nat /\ z \in Nat /\ y + 1 < z
    BY <1>0, <1>6
  <2> QED BY <1>2, <1>7, <2>1, <2>2, SignatureDamaged
<1>9. [r EXCEPT !.signature = <<"none">>] = [c EXCEPT !.signature = <<"none">>]
  BY <1>1, <1>8, SignaturesSay
<1>10. /\ r.version = c.version /\ r.sig_algo = c.sig_algo /\ r.opcode = c.opcode
       /\ r.trust_group_id = c.trust_group_id /\ r.sender_pk = c.sender_pk
       /\ r.sequence = c.sequence /\ r.timestamp = c.timestamp /\ r.payload = c.payload
  BY <1>1, <1>7, <1>9 DEF MessageRecord
<1>11. r.signature = c.signature
  BY <1>1, <1>9 DEF Verifies, Signature
<1>12. 81 < y => Value(d, 81, y) = <<"payload">>
  <2>1. SUFFICES ASSUME 81 < y PROVE Value(d, 81, y) = <<"payload">>
    OBVIOUS
  <2>2. SubSeq(d, 82, y) = Bytes(<<"payload">>, n)
    BY <1>1, <1>7, <1>10 DEF MessageRecord
  <2>3. SliceAt(SubSeq(d, 82, y), d, 81, n)
    <3>1. 81 \in Nat /\ 81 + n <= 145 + n /\ 82 = 81 + 1
      BY <1>0
    <3> QED BY <1>0, <1>3, <1>6, <3>1, SliceFrom
  <2>4. \A j \in 1..n : Bytes(<<"payload">>, n)[j] = d[81 + j]
    BY <2>2, <2>3 DEF SliceAt
  <2>5. \A j \in 82..y : d[j] = <<<<"payload">>, j - 81>>
    <3>1. SUFFICES ASSUME NEW j \in 82..y PROVE d[j] = <<<<"payload">>, j - 81>>
      OBVIOUS
    <3>2. PICK k \in 1..n : k = j - 81 /\ 81 + k = j
      BY <1>0, <1>6
    <3>3. Bytes(<<"payload">>, n)[k] = <<<<"payload">>, k>>
      BY <1>0, BytesFacts
    <3> QED BY <2>4, <3>2, <3>3
  <2>6. 82 \in 82..y /\ 82 - 81 = 1
    BY <1>0, <1>6, <2>1
  <2>7. d[82][1] = <<"payload">>
    BY <2>5, <2>6
  <2> QED BY <2>5, <2>7 DEF Value
<1>13. AllRead(d, MessageFields(c, n))
  <2>1. MessageFields(c, n) =
          {Field(0, 1, c.version), Field(1, 2, c.sig_algo), Field(2, 3, c.opcode),
           Field(3, 35, c.trust_group_id), Field(35, 67, c.sender_pk), Field(67, 71, c.sequence),
           Field(71, 79, c.timestamp), Field(79, 81, <<"size", n>>),
           Field(81, y, <<"payload">>), Field(y, z, c.signature)}
    BY <1>6 DEF MessageFields
  <2>2. PICK a, b : a = <<"size", n>> /\ b = <<"payload">>
    OBVIOUS
  <2>3. /\ Value(d, 0, 1) = c.version /\ Value(d, 1, 2) = c.sig_algo /\ Value(d, 2, 3) = c.opcode
        /\ Value(d, 3, 35) = c.trust_group_id /\ Value(d, 35, 67) = c.sender_pk
        /\ Value(d, 67, 71) = c.sequence /\ Value(d, 71, 79) = c.timestamp
        /\ Value(d, 79, 81) = a /\ (81 < y => Value(d, 81, y) = b) /\ Value(d, y, z) = c.signature
    BY <1>4, <1>7, <1>10, <1>11, <1>12, <2>2 DEF Byte
  <2> QED BY <2>1, <2>2, <2>3 DEF AllRead, Field
<1> QED BY <1>2, <1>13, ChangeShows

-----------------------------------------------------------------------------
(* What happens to a form on its way, and what its reader is to make of it. *)

\* t is what has become of s.
Harmed(s, h, t) ==
    \/ h = "none" /\ t = s
    \/ h = "cut" /\ \E k \in {1, 16} : k < Len(s) /\ t = SubSeq(s, 1, Len(s) - k)
    \/ h = "extended" /\ t = Append(s, << <<"junk">>, 1>>)
    \/ h = "changed" /\ \E i \in DOMAIN s, u \in Tokens :
                             s[i][2] = 1 /\ s[i][1] # u /\ t = [s EXCEPT ![i] = <<u, 1>>]

\* Another length, and the bytes up to the shorter one.
OtherLength(s, t, n) ==
    \E m \in Nat : /\ Long(t, m) /\ m \in {n - 1, n - 16, n + 1}
                   /\ \A i \in 1..m : i <= n => t[i] = s[i]

LEMMA HarmedForm ==
  ASSUME NEW s, NEW n, Long(s, n), NEW h, NEW t, Harmed(s, h, t)
  PROVE  \/ h = "none" /\ t = s
         \/ h = "cut" /\ OtherLength(s, t, n)
         \/ h = "extended" /\ OtherLength(s, t, n) /\ t = Append(s, << <<"junk">>, 1>>)
         \/ h = "changed" /\ \E i, u : Changed(t, s, i, u, n)
<1>0. n \in Nat /\ Len(s) = n /\ DOMAIN s = 1..n
  BY LongElements DEF Long
<1>1. CASE h = "none" /\ t = s
  BY <1>1
<1>2. CASE h = "cut" /\ \E k \in {1, 16} : k < Len(s) /\ t = SubSeq(s, 1, Len(s) - k)
  <2>1. PICK k \in {1, 16} : k < Len(s) /\ t = SubSeq(s, 1, Len(s) - k)
    BY <1>2
  <2>2. PICK m : m = n - k
    OBVIOUS
  <2>3. Long(t, m) /\ \A i \in 1..m : t[i] = s[i]
    <3>1. k \in Nat
      OBVIOUS
    <3> QED BY <2>1, <2>2, <3>1, LongCut
  <2>4. m \in Nat /\ m \in {n - 1, n - 16, n + 1}
    BY <1>0, <2>1, <2>2
  <2> QED BY <1>2, <2>3, <2>4 DEF OtherLength
<1>3. CASE h = "extended" /\ t = Append(s, << <<"junk">>, 1>>)
  <2>1. PICK e : e = << <<"junk">>, 1>>
    OBVIOUS
  <2>2. Long(t, n + 1) /\ \A i \in 1..n : t[i] = s[i]
    BY <1>3, <2>1, LongExtended
  <2>3. n + 1 \in Nat /\ \A i \in 1..(n + 1) : i <= n => i \in 1..n
    BY <1>0
  <2> QED BY <1>3, <2>2, <2>3 DEF OtherLength
<1>4. CASE h = "changed" /\ \E i \in DOMAIN s, u \in Tokens :
                                 s[i][2] = 1 /\ s[i][1] # u /\ t = [s EXCEPT ![i] = <<u, 1>>]
  BY <1>0, <1>4 DEF Changed
<1> QED BY <1>1, <1>2, <1>3, <1>4 DEF Harmed

LEMMA LengthIsOther ==
  ASSUME NEW s, NEW t, NEW n \in Nat, OtherLength(s, t, n)
  PROVE  Len(t) # n
<1>1. PICK m \in Nat : Len(t) = m /\ m \in {n - 1, n - 16, n + 1}
  BY DEF OtherLength, Long
<1> QED BY <1>1

\* What is to be read from a form that was written for r.
RestoredFrom(k, r) ==
    CASE k = "group" -> [r EXCEPT !.members = {}]
      [] k = "words" -> [r EXCEPT !.secret = @ % (WordSpace * WordSpace)]
      [] OTHER       -> r

Legal(g) == \A f \in DOMAIN g \cap {"sig_algo", "kem_algo", "min_crypto_level", "role",
                                    "reason", "opcode"} : g[f] # Code("unknown")

ReadRight(k, r, h, g) ==
    /\ h = "none" =>
           /\ g = RestoredFrom(k, r)
           /\ k \in SignedKinds => (Verified(k, g) <=> r # Invite(<<"uses", 0>>))
    /\ h \in {"cut", "extended"} =>
           g = (IF k = "response" /\ h = "extended" THEN RestoredFrom(k, r) ELSE Refused)
    /\ h = "changed" /\ g # Refused =>
           /\ k \in SignedKinds => ~Verified(k, g)
           /\ k \notin SealedKinds
           /\ Legal(g)

LEMMA NoUnknowns ==
  /\ Code("unknown") \notin SigAlgos /\ Code("unknown") \notin KemAlgos
  /\ Code("unknown") \notin Levels /\ Code("unknown") \notin Roles
  /\ Code("unknown") \notin Reasons /\ Code("unknown") \notin OpCodes
BY DEF Code, SigAlgos, KemAlgos, Levels, Roles, Reasons, OpCodes

\* A form that is refused at any other length.
LEMMA Strict ==
  ASSUME NEW k, k # "response", NEW r, NEW s, NEW n, Long(s, n), NEW h, NEW t, NEW g, Harmed(s, h, t),
         t = s => /\ g = RestoredFrom(k, r)
                  /\ k \in SignedKinds => (Verified(k, g) <=> r # Invite(<<"uses", 0>>)),
         OtherLength(s, t, n) => g = Refused,
         \A i, u : Changed(t, s, i, u, n) /\ g # Refused =>
             (k \in SignedKinds => ~Verified(k, g)) /\ k \notin SealedKinds /\ Legal(g)
  PROVE  ReadRight(k, r, h, g)
BY HarmedForm DEF ReadRight

LEMMA CertificateRight ==
  ASSUME NEW r \in RecordsOf("certificate"), NEW h, NEW t, Harmed(WriteCertificate(r), h, t)
  PROVE  ReadRight("certificate", r, h, ReadCertificate(t))
<1>1. PICK role \in Roles : r = Certificate(role)
  BY DEF RecordsOf
<1>2. CertificateRecord(r) /\ VerifyCertificate(r)
  BY <1>1, CertificateFacts
<1>3. PICK s : s = WriteCertificate(r)
  OBVIOUS
<1>4. Form(s, CertificateFields(r), 147)
  BY <1>2, <1>3, CertificateForm DEF CertificateRecord
<1>5. Long(s, 147)
  BY <1>4, FieldsRead
<1>6. r # Invite(<<"uses", 0>>)
  <2>1. PICK v : v = Invite(<<"uses", 0>>) /\ InviteRecord(v)
    BY InviteFacts
  <2>2. "role" \in DOMAIN r /\ "role" \notin DOMAIN v
    BY <1>2, <2>1 DEF CertificateRecord, InviteRecord
  <2> QED BY <2>1, <2>2
<1>7. ReadCertificate(s) = r
  BY <1>2, <1>4, CertificateRead
<1>8. OtherLength(s, t, 147) => ReadCertificate(t) = Refused
  <2>1. OtherLength(s, t, 147) => Len(t) # 147
    <3>1. PICK n \in Nat : n = 147
      OBVIOUS
    <3> QED BY <3>1, LengthIsOther
  <2> QED BY <2>1 DEF ReadCertificate, DeviceCertLen
<1>9. ASSUME NEW i, NEW u, Changed(t, s, i, u, 147), ReadCertificate(t) # Refused
      PROVE  ~VerifyCertificate(ReadCertificate(t)) /\ Legal(ReadCertificate(t))
  <2>1. ~VerifyCertificate(ReadCertificate(t))
    BY <1>1, <1>4, <1>9, CertificateChanged
  <2>2. Legal(ReadCertificate(t))
    BY <1>9, NoUnknowns DEF ReadCertificate, Legal
  <2> QED BY <2>1, <2>2
<1>10. "certificate" # "response" /\ "certificate" \notin SealedKinds
       /\ RestoredFrom("certificate", r) = r
       /\ \A g : Verified("certificate", g) = VerifyCertificate(g)
  BY DEF SealedKinds, RestoredFrom, Verified
<1> QED BY <1>2, <1>3, <1>5, <1>6, <1>7, <1>8, <1>9, <1>10, Strict

LEMMA RevocationRight ==
  ASSUME NEW r \in RecordsOf("revocation"), NEW h, NEW t, Harmed(WriteRevocation(r), h, t)
  PROVE  ReadRight("revocation", r, h, ReadRevocation(t))
<1>1. PICK reason \in Reasons : r = Revocation(reason)
  BY DEF RecordsOf
<1>2. RevocationRecord(r) /\ VerifyRevocation(r)
  BY <1>1, RevocationFacts
<1>3. PICK s : s = WriteRevocation(r)
  OBVIOUS
<1>4. Form(s, RevocationFields(r), 106)
  BY <1>2, <1>3, RevocationForm DEF RevocationRecord
<1>5. Long(s, 106)
  BY <1>4, FieldsRead
<1>6. r # Invite(<<"uses", 0>>)
  <2>1. PICK v : v = Invite(<<"uses", 0>>) /\ InviteRecord(v)
    BY InviteFacts
  <2>2. "reason" \in DOMAIN r /\ "reason" \notin DOMAIN v
    BY <1>2, <2>1 DEF RevocationRecord, InviteRecord
  <2> QED BY <2>1, <2>2
<1>7. ReadRevocation(s) = r
  BY <1>2, <1>4, RevocationRead
<1>8. OtherLength(s, t, 106) => ReadRevocation(t) = Refused
  <2>1. OtherLength(s, t, 106) => Len(t) # 106
    <3>1. PICK n \in Nat : n = 106
      OBVIOUS
    <3> QED BY <3>1, LengthIsOther
  <2> QED BY <2>1 DEF ReadRevocation
<1>9. ASSUME NEW i, NEW u, Changed(t, s, i, u, 106), ReadRevocation(t) # Refused
      PROVE  ~VerifyRevocation(ReadRevocation(t)) /\ Legal(ReadRevocation(t))
  <2>1. ~VerifyRevocation(ReadRevocation(t))
    BY <1>1, <1>4, <1>9, RevocationChanged
  <2>2. Legal(ReadRevocation(t))
    BY <1>9, NoUnknowns DEF ReadRevocation, Legal
  <2> QED BY <2>1, <2>2
<1>10. "revocation" # "response" /\ "revocation" \notin SealedKinds
       /\ RestoredFrom("revocation", r) = r
       /\ \A g : Verified("revocation", g) = VerifyRevocation(g)
  BY DEF SealedKinds, RestoredFrom, Verified
<1> QED BY <1>2, <1>3, <1>5, <1>6, <1>7, <1>8, <1>9, <1>10, Strict

LEMMA InviteRight ==
  ASSUME NEW r \in RecordsOf("invite"), NEW h, NEW t, Harmed(WriteInvite(r), h, t)
  PROVE  ReadRight("invite", r, h, ReadInvite(t))
<1>1. PICK n \in 0..1 : r = Invite(<<"uses", n>>)
  BY DEF RecordsOf
<1>2. /\ InviteRecord(r) /\ Verifies(Issuer, r) /\ r.issuer_pk = Issuer
      /\ r.max_uses = <<"uses", n>> /\ r.expires_at = <<"time", 2>>
  BY <1>1, InviteFacts
<1>3. PICK s : s = WriteInvite(r)
  OBVIOUS
<1>4. Form(s, InviteFields(r), 161)
  BY <1>2, <1>3, InviteForm DEF InviteRecord
<1>5. Long(s, 161)
  BY <1>4, FieldsRead
<1>6. VerifyInvite(r) <=> r # Invite(<<"uses", 0>>)
  <2>1. PICK v : v = Invite(<<"uses", 0>>) /\ v.max_uses = <<"uses", 0>>
    BY InviteFacts
  <2>2. CASE n = 0
    BY <1>1, <1>2, <2>1, <2>2 DEF VerifyInvite
  <2>3. CASE n = 1
    <3>1. <<"uses", 1>> # <<"uses", 0>>
      OBVIOUS
    <3> QED BY <1>2, <2>1, <2>3, <3>1 DEF VerifyInvite
  <2> QED BY <2>2, <2>3
<1>7. ReadInvite(s) = r
  BY <1>2, <1>4, InviteRead
<1>8. OtherLength(s, t, 161) => ReadInvite(t) = Refused
  <2>1. OtherLength(s, t, 161) => Len(t) # 161
    <3>1. PICK k \in Nat : k = 161
      OBVIOUS
    <3> QED BY <3>1, LengthIsOther
  <2> QED BY <2>1 DEF ReadInvite
<1>9. ASSUME NEW i, NEW u, Changed(t, s, i, u, 161), ReadInvite(t) # Refused
      PROVE  ~VerifyInvite(ReadInvite(t)) /\ Legal(ReadInvite(t))
  <2>1. ~VerifyInvite(ReadInvite(t))
    BY <1>1, <1>4, <1>9, InviteChanged
  <2>2. Legal(ReadInvite(t))
    BY <1>9 DEF ReadInvite, Legal
  <2> QED BY <2>1, <2>2
<1>10. "invite" # "response" /\ "invite" \notin SealedKinds
       /\ RestoredFrom("invite", r) = r
       /\ \A g : Verified("invite", g) = VerifyInvite(g)
  BY DEF SealedKinds, RestoredFrom, Verified
<1> QED BY <1>2, <1>3, <1>5, <1>6, <1>7, <1>8, <1>9, <1>10, Strict

LEMMA RequestRight ==
  ASSUME NEW r \in RecordsOf("request"), NEW h, NEW t, Harmed(WriteRequest(r), h, t)
  PROVE  ReadRight("request", r, h, ReadRequest(t))
<1>1. r = [kem_algo |-> Code("classical"), join_code |-> <<"joincode">>, nonce |-> <<"nonce">>]
  BY DEF RecordsOf, Request
<1>2. r.kem_algo # Mixed /\ r.join_code # Mixed /\ r.nonce # Mixed /\ r.kem_algo \in KemAlgos
  BY <1>1 DEF Mixed, Code, KemAlgos
<1>3. PICK s : s = WriteRequest(r)
  OBVIOUS
<1>4. Form(s, RequestFields(r), 49)
  BY <1>2, <1>3, RequestForm
<1>5. Long(s, 49) /\ Len(s) = 49 /\ AllRead(s, RequestFields(r))
  <2>1. Long(s, 49)
    BY <1>4, FieldsRead
  <2>2. Len(s) = 49 /\ AllRead(s, RequestFields(r))
    BY <1>4, FieldsRead
  <2> QED BY <2>1, <2>2
<1>6. Value(s, 0, 1) = r.kem_algo /\ Value(s, 1, 17) = r.join_code /\ Value(s, 17, 49) = r.nonce
  BY <1>5 DEF AllRead, RequestFields, Field
<1>7. ReadRequest(s) = r
  BY <1>1, <1>2, <1>5, <1>6 DEF ReadRequest, Byte
<1>8. OtherLength(s, t, 49) => ReadRequest(t) = Refused
  <2>1. OtherLength(s, t, 49) => Len(t) # 49
    <3>1. PICK n \in Nat : n = 49
      OBVIOUS
    <3> QED BY <3>1, LengthIsOther
  <2> QED BY <2>1 DEF ReadRequest
<1>9. ReadRequest(t) # Refused => Legal(ReadRequest(t))
  BY NoUnknowns DEF ReadRequest, Legal
<1>10. "request" # "response" /\ "request" \notin SealedKinds /\ "request" \notin SignedKinds
       /\ RestoredFrom("request", r) = r
  BY DEF SealedKinds, SignedKinds, RestoredFrom
<1> QED BY <1>3, <1>5, <1>7, <1>8, <1>9, <1>10, Strict

LEMMA GroupRight ==
  ASSUME NEW r \in RecordsOf("group"), NEW h, NEW t, Harmed(WriteGroup(r), h, t)
  PROVE  ReadRight("group", r, h, ReadGroup(t))
<1>1. PICK level \in Levels :
         r = [signing_key |-> GroupKey, sequence |-> <<"sequence", 3>>,
              min_crypto_level |-> level, members |-> {Device}]
  BY DEF RecordsOf, StoredGroup
<1>2. r.signing_key # Mixed /\ r.sequence # Mixed /\ r.min_crypto_level # Mixed
      /\ r.min_crypto_level \in Levels
  BY <1>1 DEF Mixed, Code, Levels, GroupKey
<1>3. PICK s : s = WriteGroup(r)
  OBVIOUS
<1>4. Form(s, GroupFields(r), 38)
  BY <1>2, <1>3, GroupForm
<1>5. Long(s, 38) /\ Len(s) = 38 /\ AllRead(s, GroupFields(r))
  <2>1. Long(s, 38)
    BY <1>4, FieldsRead
  <2>2. Len(s) = 38 /\ AllRead(s, GroupFields(r))
    BY <1>4, FieldsRead
  <2> QED BY <2>1, <2>2
<1>6. /\ Value(s, 0, 1) = Version /\ Value(s, 1, 33) = r.signing_key
      /\ Value(s, 33, 37) = r.sequence /\ Value(s, 37, 38) = r.min_crypto_level
  BY <1>5 DEF AllRead, GroupFields, Field
<1>7. ReadGroup(s) = [r EXCEPT !.members = {}]
  <2>1. s # <<>>
    BY <1>5
  <2>2. [r EXCEPT !.members = {}] = [signing_key |-> r.signing_key, sequence |-> r.sequence,
                                     min_crypto_level |-> r.min_crypto_level, members |-> {}]
    BY <1>1
  <2>3. ReadGroup(s) = [signing_key |-> Value(s, 1, 33), sequence |-> Value(s, 33, 37),
                        min_crypto_level |-> Value(s, 37, 38), members |-> {}]
    BY <1>2, <1>5, <1>6, <2>1 DEF ReadGroup, Byte
  <2> QED BY <1>6, <2>2, <2>3
<1>8. OtherLength(s, t, 38) => ReadGroup(t) = Refused
  <2>1. OtherLength(s, t, 38) => Len(t) # 38
    <3>1. PICK n \in Nat : n = 38
      OBVIOUS
    <3> QED BY <3>1, LengthIsOther
  <2> QED BY <2>1 DEF ReadGroup
<1>9. ReadGroup(t) # Refused => Legal(ReadGroup(t))
  BY NoUnknowns DEF ReadGroup, Legal
<1>10. "group" # "response" /\ "group" \notin SealedKinds /\ "group" \notin SignedKinds
       /\ RestoredFrom("group", r) = [r EXCEPT !.members = {}]
  BY DEF SealedKinds, SignedKinds, RestoredFrom
<1> QED BY <1>3, <1>5, <1>7, <1>8, <1>9, <1>10, Strict

LEMMA MessageRight ==
  ASSUME NEW r \in RecordsOf("message"), Encodable(r), NEW h, NEW t, Harmed(WriteMessage(r), h, t)
  PROVE  ReadRight("message", r, h, ReadMessage(t))
<1>1. PICK opcode \in OpCodes, n \in 0..MaxPayload : r = Message(opcode, Bytes(<<"payload">>, n))
  <2>1. PICK o \in OpCodes, m \in 0..MaxPayload + 1 : r = Message(o, Bytes(<<"payload">>, m))
    BY DEF RecordsOf
  <2>2. m \in Nat
    BY FormsAssumption
  <2>3. r.payload = Bytes(<<"payload">>, m)
    BY <2>1 DEF Message, SignedBy
  <2>4. Len(r.payload) = m
    BY <2>2, <2>3, BytesFacts DEF Long
  <2>5. m \in 0..MaxPayload
    BY <2>2, <2>4, FormsAssumption DEF Encodable
  <2> QED BY <2>1, <2>5
<1>2. MessageRecord(r, n) /\ VerifyMessage(r)
  BY <1>1, MessageFacts
<1>3. PICK s, z : s = WriteMessage(r) /\ z = 145 + n
  OBVIOUS
<1>4. Form(s, MessageFields(r, n), z)
  BY <1>2, <1>3, MessageForm DEF MessageRecord
<1>5. Long(s, z) /\ AllRead(s, MessageFields(r, n)) /\ n \in Nat /\ n <= MaxPayload /\ MaxPayload \in Nat
  BY <1>1, <1>4, FieldsRead, FormsAssumption
<1>6. r # Invite(<<"uses", 0>>)
  <2>1. PICK v : v = Invite(<<"uses", 0>>) /\ InviteRecord(v)
    BY InviteFacts
  <2>2. "opcode" \in DOMAIN r /\ "opcode" \notin DOMAIN v
    BY <1>2, <2>1 DEF MessageRecord, InviteRecord
  <2> QED BY <2>1, <2>2
<1>7. ReadMessage(s) = r
  BY <1>2, <1>3, <1>4, MessageRead
<1>8. ASSUME OtherLength(s, t, z) PROVE ReadMessage(t) = Refused
  <2>1. PICK m \in Nat : /\ Long(t, m) /\ m \in {z - 1, z - 16, z + 1}
                         /\ \A i \in 1..m : i <= z => t[i] = s[i]
    BY <1>8 DEF OtherLength
  <2>2. Len(t) = m /\ 81 <= m /\ m # z
    BY <1>3, <1>5, <2>1 DEF Long
  <2>3. \A i \in 80..81 : t[i] = s[i]
    <3>1. \A i \in 80..81 : i \in 1..m /\ i <= z
      BY <1>3, <1>5, <2>2
    <3> QED BY <2>1, <3>1
  <2>4. Value(s, 79, 81) = <<"size", n>>
    <3>1. Field(79, 81, <<"size", n>>) \in MessageFields(r, n)
      BY DEF MessageFields
    <3> QED BY <1>5, <3>1 DEF AllRead, Field
  <2>5. Value(t, 79, 81) = Value(s, 79, 81)
    BY <2>3 DEF Value
  <2>6. Size(t, 79, 81) = n
    BY <2>2, <2>4, <2>5, SizeRead
  <2>7. Len(t) # 81 + n + 64
    BY <1>3, <1>5, <2>2
  <2> QED BY <2>6, <2>7, ReadMessageIs
<1>9. ASSUME NEW i, NEW u, Changed(t, s, i, u, z), ReadMessage(t) # Refused
      PROVE  ~VerifyMessage(ReadMessage(t)) /\ Legal(ReadMessage(t))
  <2>1. ~VerifyMessage(ReadMessage(t))
    BY <1>1, <1>3, <1>4, <1>9, MessageChanged
  <2>2. PICK a, g : Size(t, 79, 81) = a /\ g = ReadMessage(t)
    OBVIOUS
  <2>3. MessageParts(t, a, g)
    BY <1>9, <2>2, MessageAsParts
  <2>4. Legal(g)
    BY <2>3, NoUnknowns DEF Legal, MessageParts
  <2> QED BY <2>1, <2>2, <2>4
<1>10. "message" # "response" /\ "message" \notin SealedKinds
       /\ RestoredFrom("message", r) = r
       /\ \A g : Verified("message", g) = VerifyMessage(g)
  BY DEF SealedKinds, RestoredFrom, Verified
<1> QED BY <1>2, <1>3, <1>5, <1>6, <1>7, <1>8, <1>9, <1>10, Strict

BundleRecord(b) ==
    /\ b = [certificate |-> b.certificate, dek |-> b.dek, hk |-> b.hk,
            min_crypto_level |-> b.min_crypto_level]
    /\ CertificateRecord(b.certificate) /\ b.min_crypto_level \in Levels
    /\ b.dek # Mixed /\ b.hk # Mixed /\ b.min_crypto_level # Mixed

LEMMA BundleFacts ==
  ASSUME NEW b \in RecordsOf("bundle")
  PROVE  /\ BundleRecord(b) /\ VerifyCertificate(b.certificate)
         /\ b.certificate.device_public_key = Device
<1>1. PICK level \in Levels : b = Bundle(level)
  BY DEF RecordsOf
<1>2. PICK c : c = Certificate(Code("member"))
  OBVIOUS
<1>3. CertificateRecord(c) /\ VerifyCertificate(c) /\ c.device_public_key = Device
  <2>1. Code("member") \in Roles
    BY DEF Roles
  <2> QED BY <1>2, <2>1, CertificateFacts
<1>4. b = [certificate |-> c, dek |-> <<"dek">>, hk |-> <<"hk">>, min_crypto_level |-> level]
  BY <1>1, <1>2 DEF Bundle
<1>5. <<"dek">> # Mixed /\ <<"hk">> # Mixed /\ level # Mixed
  BY DEF Mixed, Levels, Code
<1> QED BY <1>3, <1>4, <1>5 DEF BundleRecord

LEMMA NotRefused ==
  ASSUME NEW c, CertificateRecord(c)
  PROVE  c # Refused
<1>1. "role" \in DOMAIN c
  BY DEF CertificateRecord
<1>2. "role" \notin DOMAIN Refused
  BY DEF Refused
<1> QED BY <1>1, <1>2

LEMMA BundleRead ==
  ASSUME NEW b, BundleRecord(b), NEW s, s = WriteBundle(b)
  PROVE  ReadBundle(s) = b /\ Long(s, 212)
<1>1. PICK c : c = b.certificate /\ CertificateRecord(c)
  BY DEF BundleRecord
<1>2. Form(s, BundleFields(b), 212)
  BY BundleForm DEF BundleRecord
<1>3. PICK x : x = WriteCertificate(c)
  OBVIOUS
<1>4. Form(x, CertificateFields(c), 147)
  BY <1>1, <1>3, CertificateForm DEF CertificateRecord
<1>5. SubSeq(s, 1, 147) = x
  <2>1. CertificateFields(c) \subseteq BundleFields(b)
    BY <1>1 DEF BundleFields
  <2>2. PICK n, m, F, G : /\ n = 147 /\ m = 212 /\ n <= m
                          /\ F = CertificateFields(c) /\ G = BundleFields(b) /\ F \subseteq G
    BY <2>1
  <2>3. Form(x, F, n) /\ Form(s, G, m)
    BY <1>2, <1>4, <2>2
  <2>4. SubSeq(s, 1, n) = x
    BY <2>2, <2>3, FormAtFront
  <2> QED BY <2>2, <2>4
<1>6. ReadCertificate(SubSeq(s, 1, 147)) = c
  BY <1>1, <1>4, <1>5, CertificateRead
<1>7. AllRead(s, BundleFields(b)) /\ Len(s) = 212
  BY <1>2, FieldsRead
<1>8. /\ Value(s, 147, 179) = b.dek /\ Value(s, 179, 211) = b.hk
      /\ Value(s, 211, 212) = b.min_crypto_level
  <2>1. \A from, to, v : Field(from, to, v) \in BundleFields(b) /\ from < to => Value(s, from, to) = v
    BY <1>7 DEF AllRead, Field
  <2> QED BY <2>1 DEF BundleFields
<1>9. c # Refused
  BY <1>1, NotRefused
<1>10. ReadBundle(s) = [certificate |-> c, dek |-> Value(s, 147, 179), hk |-> Value(s, 179, 211),
                        min_crypto_level |-> Value(s, 211, 212)]
  BY <1>6, <1>7, <1>8, <1>9 DEF ReadBundle, DeviceCertLen, Byte, BundleRecord
<1>11. Long(s, 212)
  BY <1>2, FieldsRead
<1> QED BY <1>1, <1>8, <1>10, <1>11 DEF BundleRecord

LEMMA BundleRight ==
  ASSUME NEW r \in RecordsOf("bundle"), NEW h, NEW t, Harmed(WriteBundle(r), h, t)
  PROVE  ReadRight("bundle", r, h, ReadBundle(t))
<1>1. PICK s : s = WriteBundle(r)
  OBVIOUS
<1>2. BundleRecord(r)
  BY BundleFacts
<1>3. ReadBundle(s) = r /\ Long(s, 212)
  BY <1>1, <1>2, BundleRead
<1>4. OtherLength(s, t, 212) => ReadBundle(t) = Refused
  <2>1. OtherLength(s, t, 212) => Len(t) # 212
    <3>1. PICK n \in Nat : n = 212
      OBVIOUS
    <3> QED BY <3>1, LengthIsOther
  <2> QED BY <2>1 DEF ReadBundle
<1>5. ReadBundle(t) # Refused => Legal(ReadBundle(t))
  BY NoUnknowns DEF ReadBundle, Legal
<1>6. "bundle" # "response" /\ "bundle" \notin SealedKinds /\ "bundle" \notin SignedKinds
       /\ RestoredFrom("bundle", r) = r
  BY DEF SealedKinds, SignedKinds, RestoredFrom
<1> QED BY <1>1, <1>3, <1>4, <1>5, <1>6, Strict

\* The stored member: fields in front of the certificate and behind it.
Around(s, F, n, c) == Fields(s, F, n) /\ n >= 212 /\ SubSeq(s, 66, 212) = c

Grows(s, F, n, c, t, w, to, u, G) ==
    /\ Around(s, F, n, c) /\ t # Mixed /\ w \in Nat /\ to = n + w
    /\ u = s \o Bytes(t, w) /\ G = F \cup {Field(n, to, t)}

LEMMA AroundGrows ==
  ASSUME NEW s, NEW F, NEW n, NEW c, NEW t, NEW w, NEW to, NEW u, NEW G,
         Grows(s, F, n, c, t, w, to, u, G)
  PROVE  Around(u, G, to, c)
<1>1. Fields(s, F, n) /\ n >= 212 /\ SubSeq(s, 66, 212) = c /\ n \in Nat
  BY DEF Around, Grows, Fields, Long
<1>2. Fields(u, G, to)
  BY <1>1, OneMoreField DEF Grows
<1>3. w \in Nat /\ to = n + w /\ Long(Bytes(t, w), w) /\ u = s \o Bytes(t, w)
  BY BytesFacts DEF Grows
<1>4. SubSeq(u, 66, 212) = SubSeq(s, 66, 212)
  <2>1. 66 \in Nat \ {0} /\ 212 \in 0..n /\ 66 <= 212 + 1
    BY <1>1
  <2>2. PICK z : z = Bytes(t, w)
    OBVIOUS
  <2>3. Behind(s \o z, s, F, n, z, w)
    BY <1>1, <1>3, <2>2, FieldsStay
  <2> QED BY <1>3, <2>1, <2>2, <2>3 DEF Behind
<1>5. to >= 212
  BY <1>1, <1>3
<1> QED BY <1>1, <1>2, <1>4, <1>5 DEF Around

MemberFields(m) ==
    {Field(0, 1, Version), Field(1, 33, m.device_key), Field(33, 65, m.trust_group_public),
     Field(212, 244, m.dek), Field(244, 276, m.hk), Field(276, 277, m.min_crypto_level)}

LEMMA MemberForm ==
  ASSUME NEW m, CertificateRecord(m.certificate),
         m.device_key # Mixed, m.trust_group_public # Mixed, m.dek # Mixed, m.hk # Mixed,
         m.min_crypto_level # Mixed
  PROVE  Around(WriteMember(m), MemberFields(m), 277, WriteCertificate(m.certificate))
<1>0. Version # Mixed
  BY DEF Version, Code, Mixed
<1>1. PICK t1, t2, t3, t4, t5, t6 :
         /\ t1 = Version /\ t1 # Mixed
         /\ t2 = m.device_key /\ t2 # Mixed
         /\ t3 = m.trust_group_public /\ t3 # Mixed
         /\ t4 = m.dek /\ t4 # Mixed
         /\ t5 = m.hk /\ t5 # Mixed
         /\ t6 = m.min_crypto_level /\ t6 # Mixed
  BY <1>0
<1>2. PICK c : c = WriteCertificate(m.certificate)
  OBVIOUS
<1> DEFINE F1 == {Field(0, 1, t1)}
           F2 == F1 \cup {Field(1, 33, t2)}
           F3 == F2 \cup {Field(33, 65, t3)}
           F4 == F3 \cup {Field(212, 244, t4)}
           F5 == F4 \cup {Field(244, 276, t5)}
           F6 == F5 \cup {Field(276, 277, t6)}
           s1 == Bytes(t1, 1)
           s2 == s1 \o Bytes(t2, 32)
           s3 == s2 \o Bytes(t3, 32)
           s0 == s3 \o c
           s4 == s0 \o Bytes(t4, 32)
           s5 == s4 \o Bytes(t5, 32)
           s6 == s5 \o Bytes(t6, 1)
<1>3. Form(s1, F1, 1)
  BY <1>1, FormOfOne
<1> HIDE DEF s1, F1
<1>4. Form(s2, F2, 33)
  <2>1. Grown(s1, F1, 1, t2, 32, 33, s2, F2)
    BY <1>1, <1>3 DEF Grown
  <2> HIDE DEF s2, F2
  <2> QED BY <2>1, FormGrows
<1> HIDE DEF s2, F2
<1>5. Form(s3, F3, 65)
  <2>1. Grown(s2, F2, 33, t3, 32, 65, s3, F3)
    BY <1>1, <1>4 DEF Grown
  <2> HIDE DEF s3, F3
  <2> QED BY <2>1, FormGrows
<1> HIDE DEF s3, F3
<1>6. Around(s0, F3, 212, c)
  <2>1. Long(c, 147)
    BY <1>2, CertificateForm, FieldsRead DEF CertificateRecord
  <2>2. Fields(s3, F3, 65)
    BY <1>5 DEF Form
  <2>3. PICK n, z : n = 65 /\ z = 147 /\ n + 1 = 66 /\ n + z = 212
    OBVIOUS
  <2>4. Fields(s3, F3, n) /\ Long(c, z)
    BY <2>1, <2>2, <2>3
  <2>5. Behind(s0, s3, F3, n, c, z)
    BY <2>4, FieldsStay DEF s0
  <2>6. Fields(s0, F3, 212) /\ SubSeq(s0, 66, 212) = c
    BY <2>3, <2>5 DEF Behind
  <2> HIDE DEF s0
  <2> QED BY <2>6 DEF Around
<1> HIDE DEF s0
<1>7. Around(s4, F4, 244, c)
  <2>1. Grows(s0, F3, 212, c, t4, 32, 244, s4, F4)
    BY <1>1, <1>6 DEF Grows
  <2> HIDE DEF s4, F4
  <2> QED BY <2>1, AroundGrows
<1> HIDE DEF s4, F4
<1>8. Around(s5, F5, 276, c)
  <2>1. Grows(s4, F4, 244, c, t5, 32, 276, s5, F5)
    BY <1>1, <1>7 DEF Grows
  <2> HIDE DEF s5, F5
  <2> QED BY <2>1, AroundGrows
<1> HIDE DEF s5, F5
<1>9. Around(s6, F6, 277, c)
  <2>1. Grows(s5, F5, 276, c, t6, 1, 277, s6, F6)
    BY <1>1, <1>8 DEF Grows
  <2> HIDE DEF s6, F6
  <2> QED BY <2>1, AroundGrows
<1> HIDE DEF s6, F6
<1>10. s6 = WriteMember(m)
  BY <1>1, <1>2 DEF WriteMember, KeyLen, s0, s1, s2, s3, s4, s5, s6
<1>11. F6 = MemberFields(m)
  BY <1>1 DEF MemberFields, F1, F2, F3, F4, F5, F6
<1> QED BY <1>2, <1>9, <1>10, <1>11

LEMMA MemberRight ==
  ASSUME NEW r \in RecordsOf("member"), NEW h, NEW t, Harmed(WriteMember(r), h, t)
  PROVE  ReadRight("member", r, h, ReadMember(t))
<1>1. PICK b \in RecordsOf("bundle") : r = Member(b)
  BY DEF RecordsOf
<1>2. BundleRecord(b)
  BY BundleFacts
<1>3. /\ r = [device_key |-> Device, trust_group_public |-> GroupKey, certificate |-> b.certificate,
              dek |-> b.dek, hk |-> b.hk, min_crypto_level |-> b.min_crypto_level]
      /\ Device # Mixed /\ GroupKey # Mixed
  BY <1>1 DEF Member, Device, GroupKey, Mixed
<1>4. PICK s, c, x : s = WriteMember(r) /\ c = r.certificate /\ x = WriteCertificate(c)
  OBVIOUS
<1>5. CertificateRecord(c)
  BY <1>2, <1>3, <1>4 DEF BundleRecord
<1>6. Around(s, MemberFields(r), 277, x)
  BY <1>2, <1>3, <1>4, <1>5, MemberForm DEF BundleRecord
<1>7. Long(s, 277) /\ Len(s) = 277
  BY <1>6 DEF Around, Fields, Long
<1>8. /\ Value(s, 0, 1) = Version /\ Value(s, 1, 33) = Device /\ Value(s, 33, 65) = GroupKey
      /\ Value(s, 212, 244) = r.dek /\ Value(s, 244, 276) = r.hk
      /\ Value(s, 276, 277) = r.min_crypto_level
  <2> DEFINE F == MemberFields(r)
  <2>1. \A f \in F : f.from < f.to => Value(s, f.from, f.to) = f.token
    BY <1>6, FieldValue DEF Around
  <2>2. \A from, to, v : Field(from, to, v) \in F /\ from < to => Value(s, from, to) = v
    BY <2>1 DEF Field
  <2> QED BY <1>3, <2>2 DEF MemberFields
<1>9. ReadCertificate(SubSeq(s, 66, 212)) = c /\ c # Refused
  <2>1. Form(x, CertificateFields(c), 147)
    BY <1>4, <1>5, CertificateForm DEF CertificateRecord
  <2> QED BY <1>5, <1>6, <2>1, CertificateRead, NotRefused DEF Around
<1>10. ReadMember(s) = r
  <2>1. s # <<>>
    <3>1. SUFFICES ASSUME s = <<>> PROVE FALSE
      OBVIOUS
    <3>2. Len(s) = 0
      BY <3>1
    <3>3. 0 # 277
      OBVIOUS
    <3> QED BY <1>7, <3>2, <3>3
  <2>2. r.min_crypto_level \in Levels
    BY <1>2, <1>3 DEF BundleRecord
  <2>3. ReadMember(s) = [device_key |-> Value(s, 1, 33), trust_group_public |-> Value(s, 33, 65),
                         certificate |-> c, dek |-> Value(s, 212, 244),
                         hk |-> Value(s, 244, 276), min_crypto_level |-> Value(s, 276, 277)]
    BY <1>7, <1>8, <1>9, <2>1, <2>2 DEF ReadMember, Byte
  <2> QED BY <1>3, <1>4, <1>8, <2>3
<1>11. OtherLength(s, t, 277) => ReadMember(t) = Refused
  <2>1. OtherLength(s, t, 277) => Len(t) # 277
    <3>1. PICK n \in Nat : n = 277
      OBVIOUS
    <3> QED BY <3>1, LengthIsOther
  <2> QED BY <2>1 DEF ReadMember
<1>12. ReadMember(t) # Refused => Legal(ReadMember(t))
  BY NoUnknowns DEF ReadMember, Legal
<1>13. "member" # "response" /\ "member" \notin SealedKinds /\ "member" \notin SignedKinds
       /\ RestoredFrom("member", r) = r
  BY DEF SealedKinds, SignedKinds, RestoredFrom
<1> QED BY <1>4, <1>7, <1>10, <1>11, <1>12, <1>13, Strict

-----------------------------------------------------------------------------
(* Sealed forms. *)

\* n bytes cut out of a form read as they did where they were.
LEMMA ValueOfSlice ==
  ASSUME NEW v, NEW s, NEW at \in Nat, NEW n \in Nat \ {0}, SliceAt(v, s, at, n),
         NEW b, b = at + n
  PROVE  Value(v, 0, n) = Value(s, at, b)
<1>1. Long(v, n) /\ \A i \in 1..n : v[i] = s[at + i]
  BY DEF SliceAt
<1>2. PICK x : x = v[1][1]
  OBVIOUS
<1>3. 1 \in 1..n /\ at + 1 \in at + 1..b
  OBVIOUS
<1>4. s[at + 1][1] = x
  BY <1>1, <1>2, <1>3
<1>5. (\A i \in 1..n : v[i] = <<x, i>>) <=> (\A i \in at + 1..b : s[i] = <<x, i - at>>)
  <2>1. ASSUME \A i \in 1..n : v[i] = <<x, i>>, NEW i \in at + 1..b PROVE s[i] = <<x, i - at>>
    <3>1. PICK j \in 1..n : j = i - at /\ at + j = i
      OBVIOUS
    <3> QED BY <1>1, <2>1, <3>1
  <2>2. ASSUME \A i \in at + 1..b : s[i] = <<x, i - at>>, NEW i \in 1..n PROVE v[i] = <<x, i>>
    <3>1. PICK j \in at + 1..b : j = at + i /\ j - at = i
      OBVIOUS
    <3> QED BY <1>1, <2>2, <3>1
  <2> QED BY <2>1, <2>2
<1>6. Value(v, 0, n) = IF \A i \in 1..n : v[i] = <<x, i>> THEN x ELSE Mixed
  <2>1. \A i \in 1..n : i - 0 = i
    OBVIOUS
  <2>2. 0 + 1 = 1
    OBVIOUS
  <2> QED BY <1>2, <2>1, <2>2 DEF Value, Mixed
<1>7. Value(s, at, b) = IF \A i \in at + 1..b : s[i] = <<x, i - at>> THEN x ELSE Mixed
  BY <1>4 DEF Value, Mixed
<1> QED BY <1>5, <1>6, <1>7

\* What a cipher of n bytes opens to, by the token it reads as.
Opened(key, nonce, c, n) ==
    IF c[1] = "sealed" /\ c[2] = key /\ c[3] = nonce /\ n = c[5] + 16 THEN <<c[4]>> ELSE <<>>

CutOut(v, s, at, n, b) == at \in Nat /\ n \in Nat \ {0} /\ SliceAt(v, s, at, n) /\ b = at + n

LEMMA UnsealedSlice ==
  ASSUME NEW v, NEW s, NEW at, NEW n, NEW b, CutOut(v, s, at, n, b), NEW key, NEW nonce
  PROVE  Unsealed(key, nonce, v) = Opened(key, nonce, Value(s, at, b), n)
<1>0. at \in Nat /\ n \in Nat \ {0} /\ SliceAt(v, s, at, n) /\ b = at + n
  BY DEF CutOut
<1>1. Len(v) = n
  BY <1>0 DEF SliceAt, Long
<1>2. v # <<>>
  <2>1. SUFFICES ASSUME v = <<>> PROVE FALSE
    OBVIOUS
  <2>2. Len(v) = 0
    BY <2>1
  <2> QED BY <1>0, <1>1, <2>2
<1>3. PICK c : c = Value(v, 0, n) /\ c = Value(s, at, b)
  BY <1>0, ValueOfSlice
<1>4. (IF v = <<>> THEN <<"mixed">> ELSE Value(v, 0, Len(v))) = c
  BY <1>1, <1>2, <1>3
<1>5. Unsealed(key, nonce, v) = Opened(key, nonce, c, Len(v))
  BY <1>4, Zenon DEF Unsealed, Opened
<1> QED BY <1>1, <1>3, <1>5

\* A cipher opens under its key and nonce and at its length, and no other way.
LEMMA Opening ==
  ASSUME NEW key, NEW nonce, NEW plain, NEW k \in Nat, NEW z, z = k + 16,
         NEW c, c = <<"sealed", key, nonce, plain, k>>
  PROVE  /\ Opened(key, nonce, c, z) = <<plain>>
         /\ \A n \in Nat : n # z => Opened(key, nonce, c, n) = <<>>
         /\ \A other, n : other # nonce => Opened(key, other, c, n) = <<>>
         /\ \A other, n : Opened(key, other, Mixed, n) = <<>>
<1>1. c[1] = "sealed" /\ c[2] = key /\ c[3] = nonce
  OBVIOUS
<1>2. c[4] = plain
  OBVIOUS
<1>3. c[5] = k
  OBVIOUS
<1>4. Opened(key, nonce, c, z) = <<plain>>
  BY <1>1, <1>2, <1>3 DEF Opened
<1>5. \A n \in Nat : n # z => Opened(key, nonce, c, n) = <<>>
  BY <1>1, <1>2, <1>3 DEF Opened
<1>6. \A other, n : other # nonce => Opened(key, other, c, n) = <<>>
  BY <1>1 DEF Opened
<1>7. \A other, n : Opened(key, other, Mixed, n) = <<>>
  <2>1. Mixed[1] # "sealed"
    BY DEF Mixed
  <2> QED BY <2>1 DEF Opened
<1> QED BY <1>4, <1>5, <1>6, <1>7

SecretToken(plain) == <<"sealed", <<"dek">>, <<"nonce">>, plain, 8>>
SecretFields(plain) == {Field(0, 24, <<"nonce">>), Field(24, 48, SecretToken(plain))}

LEMMA SecretForm ==
  ASSUME NEW plain
  PROVE  Form(WriteSecret(plain), SecretFields(plain), 48)
<1>1. PICK t1, t2 : t1 = <<"nonce">> /\ t2 = SecretToken(plain)
  OBVIOUS
<1>2. t1 # Mixed /\ t2 # Mixed
  BY <1>1 DEF Mixed, SecretToken
<1> DEFINE F1 == {Field(0, 24, t1)}
           F2 == F1 \cup {Field(24, 48, t2)}
           s1 == Bytes(t1, 24)
           s2 == s1 \o Bytes(t2, 24)
<1>3. Form(s1, F1, 24)
  BY <1>2, FormOfOne
<1> HIDE DEF s1, F1
<1>4. Form(s2, F2, 48)
  <2>1. Grown(s1, F1, 24, t2, 24, 48, s2, F2)
    BY <1>2, <1>3 DEF Grown
  <2> HIDE DEF s2, F2
  <2> QED BY <2>1, FormGrows
<1> HIDE DEF s2, F2
<1>5. s2 = WriteSecret(plain)
  <2>1. 8 + 16 = 24
    OBVIOUS
  <2>2. Seal(<<"dek">>, <<"nonce">>, plain, 8) = Bytes(t2, 24)
    BY <1>1, <2>1 DEF Seal, SecretToken
  <2> QED BY <1>1, <2>2 DEF WriteSecret, s1, s2
<1>6. F2 = SecretFields(plain)
  BY <1>1 DEF SecretFields, F1, F2
<1> QED BY <1>4, <1>5, <1>6

\* Behind a nonce of 24 bytes.
LEMMA SecretReads ==
  ASSUME NEW t, NEW m \in Nat, Long(t, m), 40 <= m, NEW n, n = m - 24,
         NEW p, p = Opened(<<"dek">>, Value(t, 0, 24), Value(t, 24, m), n)
  PROVE  ReadSecret(t) = IF p = <<>> THEN Refused ELSE p[1]
<1>1. Len(t) = m /\ ~(m < 40) /\ n \in Nat \ {0} /\ 24 + n = m /\ 24 + n <= m /\ 25 = 24 + 1
  BY DEF Long
<1>2. PICK v : v = SubSeq(t, 25, m)
  OBVIOUS
<1>3. SliceAt(v, t, 24, n)
  <2>1. 24 \in Nat /\ m = 24 + n
    BY <1>1
  <2> QED BY <1>1, <1>2, <2>1, SliceFrom
<1>4. PICK key, nonce : key = <<"dek">> /\ nonce = Value(t, 0, 24)
  OBVIOUS
<1>5. Unsealed(key, nonce, v) = Opened(key, nonce, Value(t, 24, m), n)
  <2>1. PICK at \in Nat : at = 24 /\ m = at + n
    BY <1>1
  <2>2. CutOut(v, t, at, n, m)
    BY <1>1, <1>3, <2>1 DEF CutOut
  <2>3. Unsealed(key, nonce, v) = Opened(key, nonce, Value(t, at, m), n)
    BY <2>2, UnsealedSlice
  <2> QED BY <2>1, <2>3
<1>6. (IF Len(t) < 40 THEN <<>> ELSE Unsealed(<<"dek">>, Value(t, 0, 24), SubSeq(t, 25, Len(t)))) = p
  BY <1>1, <1>2, <1>4, <1>5
<1> QED BY <1>6, Zenon DEF ReadSecret

LEMMA SecretRight ==
  ASSUME NEW r \in RecordsOf("secret"), NEW h, NEW t, Harmed(WriteSecret(r), h, t)
  PROVE  ReadRight("secret", r, h, ReadSecret(t))
<1>1. PICK s, key, nonce, c : /\ s = WriteSecret(r) /\ key = <<"dek">> /\ nonce = <<"nonce">>
                              /\ c = SecretToken(r) /\ c = <<"sealed", key, nonce, r, 8>>
  BY DEF SecretToken
<1>2. nonce # Mixed /\ c # Mixed
  BY <1>1 DEF Mixed
<1>3. Form(s, SecretFields(r), 48)
  BY <1>1, SecretForm
<1>4. Long(s, 48)
  BY <1>3, FieldsRead
<1>5. /\ Field(0, 24, nonce) \in SecretFields(r) /\ Field(24, 48, c) \in SecretFields(r)
      /\ \A f \in SecretFields(r) : f = Field(0, 24, nonce) \/ f = Field(24, 48, c)
  BY <1>1 DEF SecretFields
<1>6. /\ Opened(key, nonce, c, 24) = <<r>>
      /\ \A n \in Nat : n # 24 => Opened(key, nonce, c, n) = <<>>
      /\ \A other, n : other # nonce => Opened(key, other, c, n) = <<>>
      /\ \A other, n : Opened(key, other, Mixed, n) = <<>>
  <2>1. PICK k \in Nat, z \in Nat : k = 8 /\ z = k + 16 /\ z = 24
    OBVIOUS
  <2>2. c = <<"sealed", key, nonce, r, k>>
    BY <1>1, <2>1
  <2>3. /\ Opened(key, nonce, c, z) = <<r>>
        /\ \A n \in Nat : n # z => Opened(key, nonce, c, n) = <<>>
        /\ \A other, n : other # nonce => Opened(key, other, c, n) = <<>>
        /\ \A other, n : Opened(key, other, Mixed, n) = <<>>
    BY <2>1, <2>2, Opening
  <2> QED BY <2>1, <2>3
<1>7. ReadSecret(s) = r
  <2>1. Value(s, 0, 24) = nonce /\ Value(s, 24, 48) = c
    BY <1>3, <1>5, FieldsRead DEF AllRead, Field
  <2>2. PICK m \in Nat, n \in Nat : m = 48 /\ n = m - 24 /\ n = 24 /\ 40 <= m
    OBVIOUS
  <2>3. Long(s, m)
    BY <1>4, <2>2
  <2>4. PICK p : p = Opened(<<"dek">>, Value(s, 0, 24), Value(s, 24, m), n)
    OBVIOUS
  <2>5. ReadSecret(s) = IF p = <<>> THEN Refused ELSE p[1]
    BY <2>2, <2>3, <2>4, SecretReads
  <2>6. p = <<r>>
    BY <1>1, <1>6, <2>1, <2>2, <2>4
  <2> QED BY <2>5, <2>6
<1>8. ASSUME OtherLength(s, t, 48) PROVE ReadSecret(t) = Refused
  <2>1. PICK m \in Nat : /\ Long(t, m) /\ m \in {48 - 1, 48 - 16, 48 + 1}
                         /\ \A i \in 1..m : i <= 48 => t[i] = s[i]
    BY <1>8 DEF OtherLength
  <2>2. CASE m < 40
    BY <2>1, <2>2 DEF ReadSecret, Long
  <2>3. CASE 40 <= m
    <3>1. PICK n \in Nat : n = m - 24 /\ n # 24
      BY <2>1, <2>3
    <3>2. PICK p : p = Opened(<<"dek">>, Value(t, 0, 24), Value(t, 24, m), n)
      OBVIOUS
    <3>3. ReadSecret(t) = IF p = <<>> THEN Refused ELSE p[1]
      BY <2>1, <2>3, <3>1, <3>2, SecretReads
    <3>4. t[25][1] = c
      <4>1. 25 \in 1..m /\ 25 <= 48 /\ 25 \in 24 + 1..48 /\ 25 - 24 = 1
        BY <2>3
      <4>2. Holds(s, Field(24, 48, c))
        BY <1>3, <1>5 DEF Form, Fields
      <4>3. s[25] = <<c, 1>>
        BY <4>1, <4>2 DEF Holds, Field
      <4> QED BY <2>1, <4>1, <4>3
    <3>5. Value(t, 24, m) = c \/ Value(t, 24, m) = Mixed
      BY <3>4 DEF Value, Mixed
    <3>6. p = <<>>
      <4>1. PICK other : other = Value(t, 0, 24)
        OBVIOUS
      <4>2. CASE Value(t, 24, m) = Mixed
        BY <1>1, <1>6, <3>2, <4>1, <4>2
      <4>3. CASE Value(t, 24, m) = c
        BY <1>1, <1>6, <3>1, <3>2, <4>1, <4>3
      <4> QED BY <3>5, <4>2, <4>3
    <3> QED BY <3>3, <3>6
  <2> QED BY <2>1, <2>2, <2>3
<1>9. ASSUME NEW i, NEW u, Changed(t, s, i, u, 48) PROVE ReadSecret(t) = Refused
  <2>1. AllDamaged(t, i, SecretFields(r), 48)
    BY <1>3, <1>9, FieldsChanged
  <2>2. PICK m \in Nat, n \in Nat : m = 48 /\ n = m - 24 /\ 40 <= m
    OBVIOUS
  <2>3. PICK p : p = Opened(<<"dek">>, Value(t, 0, 24), Value(t, 24, m), n)
    OBVIOUS
  <2>4. ReadSecret(t) = IF p = <<>> THEN Refused ELSE p[1]
    BY <2>1, <2>2, <2>3, SecretReads DEF AllDamaged
  <2>5. Value(t, 24, 48) = c \/ Value(t, 24, 48) = Mixed
    BY <1>5, <2>1, SignatureDamaged
  <2>6. Value(t, 24, 48) = c => Value(t, 0, 24) # nonce
    <3>1. ~AllRead(t, SecretFields(r))
      BY <2>1, ChangeShows
    <3> QED BY <1>5, <3>1 DEF AllRead, Field
  <2>7. p = <<>>
    <3>1. PICK other : other = Value(t, 0, 24)
      OBVIOUS
    <3>2. CASE Value(t, 24, 48) = Mixed
      BY <1>1, <1>6, <2>2, <2>3, <3>1, <3>2
    <3>3. CASE Value(t, 24, 48) = c
      BY <1>1, <1>6, <2>2, <2>3, <2>6, <3>1, <3>3
    <3> QED BY <2>5, <3>2, <3>3
  <2> QED BY <2>4, <2>7
<1>10. "secret" # "response" /\ "secret" \notin SignedKinds /\ RestoredFrom("secret", r) = r
  BY DEF SignedKinds, RestoredFrom
<1> QED BY <1>1, <1>4, <1>7, <1>8, <1>9, <1>10, Strict

ResponseKey == JoinKey(GroupKey, Device)
ResponseToken(b) == <<"sealed", ResponseKey, <<"nonce">>, b, 212>>
ResponseFields(b) == {Field(0, 24, <<"nonce">>), Field(24, 28, <<"size", 228>>),
                      Field(28, 256, ResponseToken(b))}

LEMMA ResponseForm ==
  ASSUME NEW b, BundleRecord(b)
  PROVE  Form(WriteResponse(b), ResponseFields(b), 256)
<1>1. PICK t1, t2, t3 : t1 = <<"nonce">> /\ t2 = <<"size", 228>> /\ t3 = ResponseToken(b)
  OBVIOUS
<1>2. t1 # Mixed /\ t2 # Mixed /\ t3 # Mixed
  BY <1>1 DEF Mixed, ResponseToken
<1> DEFINE F1 == {Field(0, 24, t1)}
           F2 == F1 \cup {Field(24, 28, t2)}
           F3 == F2 \cup {Field(28, 256, t3)}
           s1 == Bytes(t1, 24)
           s2 == s1 \o Bytes(t2, 4)
           s3 == s2 \o Bytes(t3, 228)
<1>3. Form(s1, F1, 24)
  BY <1>2, FormOfOne
<1> HIDE DEF s1, F1
<1>4. Form(s2, F2, 28)
  <2>1. Grown(s1, F1, 24, t2, 4, 28, s2, F2)
    BY <1>2, <1>3 DEF Grown
  <2> HIDE DEF s2, F2
  <2> QED BY <2>1, FormGrows
<1> HIDE DEF s2, F2
<1>5. Form(s3, F3, 256)
  <2>1. Grown(s2, F2, 28, t3, 228, 256, s3, F3)
    BY <1>2, <1>4 DEF Grown
  <2> HIDE DEF s3, F3
  <2> QED BY <2>1, FormGrows
<1> HIDE DEF s3, F3
<1>6. s3 = WriteResponse(b)
  <2>1. Len(WriteBundle(b)) = 212
    BY BundleRead DEF Long
  <2>2. PICK sealed : sealed = Seal(JoinKey(GroupKey, Device), <<"nonce">>, b, Len(WriteBundle(b)))
    OBVIOUS
  <2>3. sealed = Bytes(t3, 228)
    <3>1. 212 + 16 = 228
      OBVIOUS
    <3> QED BY <1>1, <2>1, <2>2, <3>1 DEF Seal, ResponseToken, ResponseKey
  <2>4. Len(sealed) = 228
    <3>1. PICK n \in Nat : n = 228
      OBVIOUS
    <3>2. Long(Bytes(t3, n), n)
      BY <3>1, BytesFacts
    <3> QED BY <2>3, <3>1, <3>2 DEF Long
  <2>5. WriteResponse(b) = Bytes(<<"nonce">>, 24) \o Bytes(<<"size", Len(sealed)>>, 4) \o sealed
    BY <2>2, Zenon DEF WriteResponse
  <2> QED BY <1>1, <2>3, <2>4, <2>5 DEF s1, s2, s3
<1>7. F3 = ResponseFields(b)
  BY <1>1 DEF ResponseFields, F1, F2, F3
<1> QED BY <1>5, <1>6, <1>7

\* A response that is too short for its length field.
LEMMA ResponseTooShort ==
  ASSUME NEW t, NEW n, Size(t, 24, 28) = n, Len(t) < 28 \/ Len(t) < 28 + n
  PROVE  ReadResponse(t) = Refused
<1>1. Container(t) = Refused
  BY DEF Container
<1>2. PICK box : box = Container(t) /\ box = Refused
  BY <1>1
<1>3. (IF box = Refused THEN <<>>
       ELSE Unsealed(JoinKey(GroupKey, Device), box.nonce, box.ciphertext)) = <<>>
  BY <1>2
<1> QED BY <1>2, <1>3, Zenon DEF ReadResponse

\* The cipher behind a nonce of 24 bytes and a length of four that says 228.
ResponseHeld(t, m, p) ==
    /\ m \in Nat /\ Long(t, m) /\ 256 <= m /\ Size(t, 24, 28) = 228
    /\ p = Opened(ResponseKey, Value(t, 0, 24), Value(t, 28, 256), 228)

LEMMA ResponseReads ==
  ASSUME NEW t, NEW m, NEW p, ResponseHeld(t, m, p)
  PROVE  ReadResponse(t) = IF p = <<>> THEN Refused ELSE ReadBundle(WriteBundle(p[1]))
<1>0. /\ m \in Nat /\ Long(t, m) /\ 256 <= m /\ Size(t, 24, 28) = 228
      /\ p = Opened(ResponseKey, Value(t, 0, 24), Value(t, 28, 256), 228)
  BY DEF ResponseHeld
<1>1. PICK v, nonce : v = SubSeq(t, 29, 256) /\ nonce = Value(t, 0, 24)
  OBVIOUS
<1>2. PICK at \in Nat, n \in Nat \ {0}, b \in Nat : at = 28 /\ n = 228 /\ b = at + n /\ b = 256 /\ b <= m
  BY <1>0
<1>3. SliceAt(v, t, at, n)
  <2>1. at + n <= m /\ 29 = at + 1 /\ 256 = at + n /\ n \in Nat
    BY <1>0, <1>2
  <2> QED BY <1>0, <1>1, <1>2, <2>1, SliceFrom
<1>4. CutOut(v, t, at, n, b)
  BY <1>2, <1>3 DEF CutOut
<1>5. Unsealed(ResponseKey, nonce, v) = p
  <2>1. Unsealed(ResponseKey, nonce, v) = Opened(ResponseKey, nonce, Value(t, at, b), n)
    BY <1>4, UnsealedSlice
  <2> QED BY <1>0, <1>1, <1>2, <2>1
<1>6. PICK box : box = [nonce |-> nonce, ciphertext |-> v]
  OBVIOUS
<1>7. Container(t) = box
  <2>1. Len(t) = m /\ ~(m < 28) /\ ~(m < 28 + 228) /\ 28 + 228 = 256
    BY <1>0 DEF Long
  <2>2. Container(t) = [nonce |-> Value(t, 0, 24), ciphertext |-> SubSeq(t, 29, 28 + 228)]
    BY <1>0, <2>1 DEF Container
  <2> QED BY <1>1, <1>6, <2>1, <2>2
<1>8. box # Refused
  <2>1. "nonce" \in DOMAIN box
    BY <1>6
  <2>2. "nonce" \notin DOMAIN Refused
    BY DEF Refused
  <2> QED BY <2>1, <2>2
<1>9. (IF Container(t) = Refused THEN <<>>
       ELSE Unsealed(JoinKey(GroupKey, Device), Container(t).nonce, Container(t).ciphertext)) = p
  BY <1>5, <1>6, <1>7, <1>8 DEF ResponseKey
<1> QED BY <1>9, Zenon DEF ReadResponse

LEMMA ResponseRight ==
  ASSUME NEW r \in RecordsOf("response"), NEW h, NEW t, Harmed(WriteResponse(r), h, t)
  PROVE  ReadRight("response", r, h, ReadResponse(t))
<1>0. BundleRecord(r)
  <2>1. r \in RecordsOf("bundle")
    BY DEF RecordsOf
  <2> QED BY <2>1, BundleFacts
<1>1. PICK s, nonce, c, z : /\ s = WriteResponse(r) /\ nonce = <<"nonce">>
                            /\ c = ResponseToken(r) /\ z = <<"size", 228>>
                            /\ c = <<"sealed", ResponseKey, nonce, r, 212>>
  BY DEF ResponseToken
<1>2. nonce # Mixed /\ c # Mixed
  BY <1>1 DEF Mixed
<1>3. Form(s, ResponseFields(r), 256)
  BY <1>0, <1>1, ResponseForm
<1>4. Long(s, 256)
  BY <1>3, FieldsRead
<1>5. /\ Field(0, 24, nonce) \in ResponseFields(r) /\ Field(24, 28, z) \in ResponseFields(r)
      /\ Field(28, 256, c) \in ResponseFields(r)
      /\ \A f \in ResponseFields(r) :
             f = Field(0, 24, nonce) \/ f = Field(24, 28, z) \/ f = Field(28, 256, c)
  BY <1>1 DEF ResponseFields
<1>6. /\ Opened(ResponseKey, nonce, c, 228) = <<r>>
      /\ \A other, n : other # nonce => Opened(ResponseKey, other, c, n) = <<>>
      /\ \A other, n : Opened(ResponseKey, other, Mixed, n) = <<>>
  <2>1. PICK k \in Nat, y \in Nat : k = 212 /\ y = k + 16 /\ y = 228
    OBVIOUS
  <2>2. c = <<"sealed", ResponseKey, nonce, r, k>>
    BY <1>1, <2>1
  <2>3. /\ Opened(ResponseKey, nonce, c, y) = <<r>>
        /\ \A other, n : other # nonce => Opened(ResponseKey, other, c, n) = <<>>
        /\ \A other, n : Opened(ResponseKey, other, Mixed, n) = <<>>
    BY <2>1, <2>2, Opening
  <2> QED BY <2>1, <2>3
<1>7. Value(s, 0, 24) = nonce /\ Value(s, 24, 28) = z /\ Value(s, 28, 256) = c
  BY <1>3, <1>5, FieldsRead DEF AllRead, Field
<1>8. \* the first 256 bytes, and whatever is behind them
      ASSUME NEW x, NEW m \in Nat, Long(x, m), 256 <= m, \A i \in 1..256 : x[i] = s[i]
      PROVE  ReadResponse(x) = r
  <2>1. Value(x, 0, 24) = nonce /\ Value(x, 24, 28) = z /\ Value(x, 28, 256) = c
    <3>1. \A i \in 0 + 1..24 : x[i] = s[i]
      BY <1>8
    <3>2. \A i \in 24 + 1..28 : x[i] = s[i]
      BY <1>8
    <3>3. \A i \in 28 + 1..256 : x[i] = s[i]
      BY <1>8
    <3>4. /\ 0 + 1 \in 0 + 1..24 /\ 24 + 1 \in 24 + 1..28 /\ 28 + 1 \in 28 + 1..256
      OBVIOUS
    <3>5. Value(x, 0, 24) = Value(s, 0, 24)
      BY <3>1, <3>4 DEF Value
    <3>6. Value(x, 24, 28) = Value(s, 24, 28)
      BY <3>2, <3>4 DEF Value
    <3>7. Value(x, 28, 256) = Value(s, 28, 256)
      BY <3>3, <3>4 DEF Value
    <3> QED BY <1>7, <3>5, <3>6, <3>7
  <2>2. Size(x, 24, 28) = 228
    <3>1. 28 <= Len(x)
      BY <1>8 DEF Long
    <3> QED BY <1>1, <2>1, <3>1, SizeRead
  <2>3. PICK p : p = Opened(ResponseKey, Value(x, 0, 24), Value(x, 28, 256), 228)
    OBVIOUS
  <2>4. ReadResponse(x) = IF p = <<>> THEN Refused ELSE ReadBundle(WriteBundle(p[1]))
    <3>1. ResponseHeld(x, m, p)
      BY <1>8, <2>2, <2>3 DEF ResponseHeld
    <3> QED BY <3>1, ResponseReads
  <2>5. p = <<r>>
    BY <1>6, <2>1, <2>3
  <2> QED BY <1>0, <2>4, <2>5, BundleRead
<1>9. ReadResponse(s) = r
  <2>1. PICK m \in Nat : m = 256 /\ 256 <= m
    OBVIOUS
  <2> QED BY <1>4, <1>8, <2>1
<1>10. ASSUME OtherLength(s, t, 256), h = "cut" PROVE ReadResponse(t) = Refused
  <2>0. PICK k \in {1, 16} : k < Len(s) /\ t = SubSeq(s, 1, Len(s) - k)
    BY <1>1, <1>10 DEF Harmed
  <2>1. PICK m \in Nat : Long(t, m) /\ m = 256 - k /\ \A i \in 1..m : t[i] = s[i]
    <3>1. PICK n \in Nat : n <= 256 /\ 256 <= n /\ Long(s, n)
      BY <1>4
    <3>2. PICK m \in Nat : m = n - k
      BY <3>1
    <3>3. k \in Nat
      OBVIOUS
    <3>4. Long(t, m) /\ \A i \in 1..m : t[i] = s[i]
      <4>1. k < Len(s) /\ Long(s, n)
        BY <2>0, <3>1
      <4>2. /\ Long(SubSeq(s, 1, Len(s) - k), n - k)
            /\ \A i \in 1..(n - k) : SubSeq(s, 1, Len(s) - k)[i] = s[i]
        BY <3>3, <4>1, LongCut
      <4> QED BY <2>0, <3>2, <4>2
    <3> QED BY <3>1, <3>2, <3>4
  <2>2. Len(t) = m /\ 28 <= m /\ m < 28 + 228
    BY <2>1 DEF Long
  <2>3. Value(t, 24, 28) = z
    <3>1. \A i \in 24 + 1..28 : t[i] = s[i]
      BY <2>1, <2>2
    <3>2. 24 + 1 \in 24 + 1..28
      OBVIOUS
    <3>3. Value(t, 24, 28) = Value(s, 24, 28)
      BY <3>1, <3>2 DEF Value
    <3> QED BY <1>7, <3>3
  <2>4. Size(t, 24, 28) = 228
    BY <1>1, <2>2, <2>3, SizeRead
  <2> QED BY <2>2, <2>4, ResponseTooShort
<1>11. ASSUME t = Append(s, << <<"junk">>, 1>>) PROVE ReadResponse(t) = r
  <2>1. PICK e : e = << <<"junk">>, 1>>
    OBVIOUS
  <2>2. PICK n \in Nat : n <= 256 /\ 256 <= n /\ Long(s, n)
    BY <1>4
  <2>3. Long(t, n + 1) /\ \A i \in 1..n : t[i] = s[i]
    <3>1. t = Append(s, e)
      BY <1>11, <2>1
    <3>2. Long(Append(s, e), n + 1) /\ \A i \in 1..n : Append(s, e)[i] = s[i]
      BY <2>2, LongExtended
    <3> QED BY <3>1, <3>2
  <2>4. PICK m \in Nat : Long(t, m) /\ 256 <= m /\ \A i \in 1..256 : t[i] = s[i]
    BY <2>2, <2>3
  <2> QED BY <1>8, <2>4
<1>12. ASSUME NEW i, NEW u, Changed(t, s, i, u, 256) PROVE ReadResponse(t) = Refused
  <2>1. AllDamaged(t, i, ResponseFields(r), 256)
    BY <1>3, <1>12, FieldsChanged
  <2>2. Long(t, 256) /\ Len(t) = 256
    BY <2>1 DEF AllDamaged, Long
  <2>6. 28 <= Len(t)
    BY <2>2
  <2>3. /\ Value(t, 24, 28) = z \/ Value(t, 24, 28) = Mixed
        /\ Value(t, 28, 256) = c \/ Value(t, 28, 256) = Mixed
    BY <1>5, <2>1, SignatureDamaged
  <2>4. CASE Value(t, 24, 28) = Mixed
    <3>1. PICK n : n = 1000 + MaxPayload
      OBVIOUS
    <3>2. Size(t, 24, 28) = n
      BY <2>4, <2>6, <3>1, SizeRead
    <3>3. Len(t) < 28 + n
      BY <2>2, <3>1, FormsAssumption
    <3> QED BY <3>2, <3>3, ResponseTooShort
  <2>5. CASE Value(t, 24, 28) = z
    <3>1. Size(t, 24, 28) = 228
      BY <1>1, <2>5, <2>6, SizeRead
    <3>2. PICK p : p = Opened(ResponseKey, Value(t, 0, 24), Value(t, 28, 256), 228)
      OBVIOUS
    <3>3. ReadResponse(t) = IF p = <<>> THEN Refused ELSE ReadBundle(WriteBundle(p[1]))
      <4>1. ResponseHeld(t, 256, p)
        BY <2>2, <3>1, <3>2 DEF ResponseHeld
      <4> QED BY <4>1, ResponseReads
    <3>4. Value(t, 28, 256) = c => Value(t, 0, 24) # nonce
      <4>1. ~AllRead(t, ResponseFields(r))
        BY <2>1, ChangeShows
      <4> QED BY <1>5, <2>5, <4>1 DEF AllRead, Field
    <3>5. p = <<>>
      <4>1. PICK other : other = Value(t, 0, 24)
        OBVIOUS
      <4>2. CASE Value(t, 28, 256) = Mixed
        BY <1>6, <3>2, <4>1, <4>2
      <4>3. CASE Value(t, 28, 256) = c
        BY <1>6, <3>2, <3>4, <4>1, <4>3
      <4> QED BY <2>3, <4>2, <4>3
    <3> QED BY <3>3, <3>5
  <2> QED BY <2>3, <2>4, <2>5
<1>13. RestoredFrom("response", r) = r /\ "response" \notin SignedKinds
  BY DEF RestoredFrom, SignedKinds
<1> QED BY <1>1, <1>4, <1>9, <1>10, <1>11, <1>12, <1>13, HarmedForm DEF ReadRight

-----------------------------------------------------------------------------
(* Numbers in words. *)

LEMMA Division ==
  ASSUME NEW x \in Nat, NEW n \in Nat \ {0}
  PROVE  \E q \in Nat, r \in 0..n - 1 : q = x \div n /\ r = x % n /\ x = n * q + r
<1>1. x \div n \in Nat /\ x % n \in 0..n - 1 /\ x = n * (x \div n) + (x % n)
  OBVIOUS
<1> QED BY <1>1

LEMMA TimesMore ==
  ASSUME NEW n \in Nat, NEW a \in Nat, NEW b \in Nat, a + 1 <= b
  PROVE  n * a + n <= n * b
<1>1. PICK d \in Nat : b = a + 1 + d
  <2>1. b - a - 1 \in Nat /\ b = a + 1 + (b - a - 1)
    OBVIOUS
  <2> QED BY <2>1
<1>2. n * (a + 1 + d) = n * a + n + n * d
  OBVIOUS
<1>3. n * d \in Nat /\ n * a \in Nat
  OBVIOUS
<1> QED BY <1>1, <1>2, <1>3

LEMMA Remainder ==
  ASSUME NEW n \in Nat \ {0}, NEW a \in Nat, NEW y \in 0..n - 1, NEW x, x = n * a + y
  PROVE  x % n = y
<1>1. x \in Nat
  <2>1. n * a \in Nat
    OBVIOUS
  <2> QED BY <2>1
<1>2. PICK q \in Nat, r \in 0..n - 1 : x = n * q + r /\ r = x % n
  BY <1>1, Division
<1>3. CASE q = a
  <2>1. PICK p \in Nat : p = n * a
    OBVIOUS
  <2>2. x = p + y /\ x = p + r
    BY <1>2, <1>3, <2>1
  <2>3. y = r
    BY <2>2
  <2> QED BY <1>2, <2>3
<1>4. CASE q + 1 <= a
  <2>1. n * q + n <= n * a
    BY <1>4, TimesMore
  <2>2. PICK p \in Nat, z \in Nat : p = n * a /\ z = n * q
    OBVIOUS
  <2> QED BY <1>2, <2>1, <2>2
<1>5. CASE a + 1 <= q
  <2>1. n * a + n <= n * q
    BY <1>5, TimesMore
  <2>2. PICK p \in Nat, z \in Nat : p = n * a /\ z = n * q
    OBVIOUS
  <2> QED BY <1>2, <2>1, <2>2
<1> QED BY <1>3, <1>4, <1>5

LEMMA TwoDigits ==
  ASSUME NEW n \in Nat \ {0}, NEW x \in Nat
  PROVE  ((x \div n) % n) * n + (x % n) = x % (n * n)
<1>1. PICK q \in Nat, r \in 0..n - 1 : q = x \div n /\ r = x % n /\ x = n * q + r
  BY Division
<1>2. PICK a \in Nat, b \in 0..n - 1 : a = q \div n /\ b = q % n /\ q = n * a + b
  BY Division
<1>3. PICK m \in Nat \ {0} : m = n * n
  OBVIOUS
<1>4. PICK y \in Nat : y = n * b + r
  OBVIOUS
<1>5. y \in 0..m - 1
  <2>1. b + 1 <= n
    OBVIOUS
  <2>2. n * b + n <= n * n
    BY <2>1, TimesMore
  <2>3. PICK p \in Nat : p = n * b
    OBVIOUS
  <2> QED BY <1>3, <1>4, <2>2, <2>3
<1>6. x = m * a + y
  <2>1. n * (n * a + b) = (n * n) * a + n * b
    OBVIOUS
  <2>2. x = (n * n) * a + n * b + r
    BY <1>1, <1>2, <2>1
  <2> QED BY <1>3, <1>4, <2>2
<1>7. x % m = y
  BY <1>5, <1>6, Remainder
<1>8. b * n = n * b
  OBVIOUS
<1> QED BY <1>1, <1>2, <1>3, <1>4, <1>7, <1>8

LEMMA WordsRight ==
  ASSUME NEW r \in RecordsOf("words"), NEW h, NEW t, Harmed(WriteWords(r), h, t)
  PROVE  ReadRight("words", r, h, ReadWords(t))
<1>1. /\ r \in [prefix : 0..Prefixes - 1, secret : 0..2 * WordSpace * WordSpace - 1]
      /\ WordSpace \in Nat \ {0} /\ Prefixes \in Nat /\ Prefixes <= WordSpace
  BY FormsAssumption DEF RecordsOf
<1>2. PICK p \in Nat, x \in Nat : p = r.prefix /\ x = r.secret /\ p < Prefixes
  <2>1. r.secret \in Nat
    <3>1. 2 * WordSpace * WordSpace - 1 \in Int
      BY <1>1
    <3> QED BY <1>1, <3>1
  <2> QED BY <1>1, <2>1
<1>3. PICK a \in 0..WordSpace - 1, b \in 0..WordSpace - 1 :
         a = (x \div WordSpace) % WordSpace /\ b = x % WordSpace
  <2>1. x \div WordSpace \in Nat
    BY <1>1, Division
  <2> QED BY <1>1, <2>1, Division
<1>4. PICK s, u, v, w : /\ u = WordAt(p) /\ v = WordAt(a) /\ w = WordAt(b)
                        /\ s = <<u, v, w>> /\ s = WriteWords(r)
  BY <1>2, <1>3 DEF WriteWords
<1>5. Long(s, 3) /\ Len(s) = 3 /\ DOMAIN s = 1..3
  <2>1. s \in Seq({u, v, w}) /\ Len(s) = 3
    BY <1>4
  <2> QED BY <2>1 DEF Long
<1>6. /\ u[1][1] = "word" /\ v[1][1] = "word" /\ w[1][1] = "word"
      /\ u[1][2] = p /\ v[1][2] = a /\ w[1][2] = b
  BY <1>4 DEF WordAt
<1>7. ReadWords(s) = [r EXCEPT !.secret = @ % (WordSpace * WordSpace)]
  <2>1. s[1] = u /\ s[2] = v /\ s[3] = w
    BY <1>4
  <2>2. ~(\E i \in DOMAIN s : s[i][1][1] # "word" \/ s[i][1][2] >= WordSpace)
    <3>1. SUFFICES ASSUME NEW i \in 1..3 PROVE ~(s[i][1][1] # "word" \/ s[i][1][2] >= WordSpace)
      BY <1>5
    <3>2. i = 1 \/ i = 2 \/ i = 3
      OBVIOUS
    <3>3. ~(p >= WordSpace) /\ ~(a >= WordSpace) /\ ~(b >= WordSpace)
      BY <1>1, <1>2
    <3> QED BY <1>6, <2>1, <3>2, <3>3
  <2>3. ~(s[1][1][2] >= Prefixes)
    BY <1>1, <1>2, <1>6, <2>1
  <2>4. ReadWords(s) = [prefix |-> s[1][1][2], secret |-> s[2][1][2] * WordSpace + s[3][1][2]]
    BY <1>5, <2>2, <2>3 DEF ReadWords
  <2>5. PICK y : y = x % (WordSpace * WordSpace) /\ y = a * WordSpace + b
    BY <1>1, <1>3, TwoDigits
  <2>6. ReadWords(s) = [prefix |-> p, secret |-> y]
    BY <1>6, <2>1, <2>4, <2>5
  <2>7. [r EXCEPT !.secret = @ % (WordSpace * WordSpace)] = [prefix |-> p, secret |-> y]
    BY <1>1, <1>2, <2>5
  <2> QED BY <2>6, <2>7
<1>8. OtherLength(s, t, 3) => ReadWords(t) = Refused
  <2>1. OtherLength(s, t, 3) => Len(t) # 3
    <3>1. PICK n \in Nat : n = 3
      OBVIOUS
    <3> QED BY <3>1, LengthIsOther
  <2> QED BY <2>1 DEF ReadWords
<1>9. ReadWords(t) # Refused => Legal(ReadWords(t))
  BY DEF ReadWords, Legal
<1>10. "words" # "response" /\ "words" \notin SealedKinds /\ "words" \notin SignedKinds
       /\ RestoredFrom("words", r) = [r EXCEPT !.secret = @ % (WordSpace * WordSpace)]
  BY DEF SealedKinds, SignedKinds, RestoredFrom
<1> QED BY <1>4, <1>5, <1>7, <1>8, <1>9, <1>10, Strict

-----------------------------------------------------------------------------
(* Links. *)

LEMMA Counting ==
  ASSUME NEW g \in 0..15, NEW k \in 1..3
  PROVE  /\ 3 * g + k \in 1..48 /\ 4 * g + k \in 1..63
         /\ ((4 * g + k) - 1) \div 4 = g /\ 1 + (((4 * g + k) - 1) % 4) = k
         /\ ((4 * g + k + 1) - 1) \div 4 = g /\ 1 + (((4 * g + k + 1) - 1) % 4) = k + 1
OBVIOUS

LEMMA Counted ==
  ASSUME NEW b \in 1..48
  PROVE  \E g \in 0..15, k \in 1..3 : g = (b - 1) \div 3 /\ k = 1 + ((b - 1) % 3) /\ b = 3 * g + k
<1>1. /\ (b - 1) \div 3 \in 0..15 /\ 1 + ((b - 1) % 3) \in 1..3
      /\ b = 3 * ((b - 1) \div 3) + (1 + ((b - 1) % 3))
  OBVIOUS
<1> QED BY <1>1

\* A group of three bytes, and the character that is k-th of its four.
Group3(d, g) == SubSeq(d, 3 * g + 1, 3 * g + 3)
Char(d, g, k) == << <<"group", Group3(d, g)>>, k>>

LEMMA GroupBytes ==
  ASSUME NEW d, Long(d, 48), NEW g \in 0..15
  PROVE  Len(Group3(d, g)) = 3 /\ \A k \in 1..3 : Group3(d, g)[k] = d[3 * g + k]
<1>1. PICK at \in Nat, n \in Nat, a \in Nat, b \in Nat, z \in Nat :
         /\ at = 3 * g /\ n = 3 /\ a = at + 1 /\ b = at + n
         /\ at + n <= z /\ z = 48
  OBVIOUS
<1>2. Long(d, z)
  BY <1>1
<1>3. SliceAt(SubSeq(d, a, b), d, at, n)
  BY <1>1, <1>2, SliceFrom
<1>4. SubSeq(d, a, b) = Group3(d, g)
  BY <1>1 DEF Group3
<1> QED BY <1>1, <1>3, <1>4 DEF SliceAt, Long

\* 48 bytes are 64 characters.
LEMMA EncodedLink ==
  ASSUME NEW d, Long(d, 48), NEW e, e = EncodeBase64(d)
  PROVE  Long(e, 64) /\ \A c \in 1..64 : e[c] = Char(d, (c - 1) \div 4, 1 + ((c - 1) % 4))
<1>1. Len(d) = 48 /\ Len(d) + (Len(d) + 2) \div 3 = 64
  BY DEF Long
<1> DEFINE Rest(g) == SubSeq(d, 3 * g + 1, IF 3 * g + 3 > Len(d) THEN Len(d) ELSE 3 * g + 3)
<1>2. EncodeBase64(d) = [c \in 1..64 |-> << <<"group", Rest((c - 1) \div 4)>>, 1 + ((c - 1) % 4)>>]
  BY <1>1 DEF EncodeBase64
<1>3. ASSUME NEW g \in 0..15 PROVE Rest(g) = Group3(d, g)
  <2>1. ~(3 * g + 3 > Len(d))
    BY <1>1
  <2> QED BY <2>1 DEF Group3
<1> HIDE DEF Rest
<1>4. ASSUME NEW c \in 1..64 PROVE e[c] = Char(d, (c - 1) \div 4, 1 + ((c - 1) % 4))
  <2>1. PICK g \in 0..15 : g = (c - 1) \div 4
    OBVIOUS
  <2>2. e[c] = << <<"group", Rest((c - 1) \div 4)>>, 1 + ((c - 1) % 4)>>
    BY <1>2
  <2> QED BY <1>3, <2>1, <2>2 DEF Char
<1>5. Long(e, 64)
  <2>1. PICK S : S = {e[c] : c \in 1..64}
    OBVIOUS
  <2>2. e \in [1..64 -> S]
    BY <1>2, <2>1
  <2>3. e \in Seq(S)
    BY <2>2, SeqDef
  <2>4. PICK m \in Nat : m = Len(e) /\ 1..m = 1..64
    BY <2>2, <2>3, LenProperties
  <2>5. m = 64
    BY <2>4
  <2> QED BY <2>3, <2>4, <2>5 DEF Long
<1> QED BY <1>4, <1>5

\* How many bytes m characters are, and what the k-th of a group is read from.
DecodedLen(m) == 3 * (m \div 4) + (IF m % 4 < 2 THEN m % 4 ELSE (m % 4) - 1)
DecodedAt(s, g, k) ==
    LET a == 4 * g + k
    IN IF a < Len(s) /\ s[a][1][1] = "group" /\ s[a][1] = s[a + 1][1]
          /\ s[a][2] = k /\ s[a + 1][2] = k + 1 /\ k <= Len(s[a][1][2])
       THEN s[a][1][2][k] ELSE << <<"junk">>, 1>>

LEMMA Decoding ==
  ASSUME NEW s
  PROVE  DecodeBase64(s) = [b \in 1..DecodedLen(Len(s)) |-> DecodedAt(s, (b - 1) \div 3, 1 + ((b - 1) % 3))]
BY Zenon DEF DecodeBase64, DecodedLen, DecodedAt

LEMMA FunctionLong ==
  ASSUME NEW e, NEW n \in Nat, NEW S, e \in [1..n -> S]
  PROVE  Long(e, n)
<1>1. e \in Seq(S)
  BY SeqDef
<1>2. PICK m \in Nat : m = Len(e) /\ 1..m = 1..n
  BY <1>1, LenProperties
<1>3. m = n
  BY <1>2
<1> QED BY <1>1, <1>2, <1>3 DEF Long

LEMMA DecodedLong ==
  ASSUME NEW s, NEW n \in Nat, n = DecodedLen(Len(s))
  PROVE  Long(DecodeBase64(s), n) /\ \A b \in 1..n :
             DecodeBase64(s)[b] = DecodedAt(s, (b - 1) \div 3, 1 + ((b - 1) % 3))
<1>1. PICK e : e = DecodeBase64(s)
  OBVIOUS
<1>2. e = [b \in 1..n |-> DecodedAt(s, (b - 1) \div 3, 1 + ((b - 1) % 3))]
  BY <1>1, Decoding
<1>3. PICK S : S = {e[b] : b \in 1..n}
  OBVIOUS
<1>4. e \in [1..n -> S]
  BY <1>2, <1>3
<1>5. Long(e, n)
  BY <1>4, FunctionLong
<1> QED BY <1>1, <1>2, <1>5

\* The characters of 48 bytes are decoded to them.
LEMMA DecodedLink ==
  ASSUME NEW d, Long(d, 48), NEW e, e = EncodeBase64(d)
  PROVE  DecodeBase64(e) = d
<1>1. /\ Long(e, 64) /\ Len(e) = 64
      /\ \A c \in 1..64 : e[c] = Char(d, (c - 1) \div 4, 1 + ((c - 1) % 4))
  <2>1. Long(e, 64) /\ \A c \in 1..64 : e[c] = Char(d, (c - 1) \div 4, 1 + ((c - 1) % 4))
    BY EncodedLink
  <2> QED BY <2>1 DEF Long
<1>2. PICK n \in Nat : n = 48 /\ n = DecodedLen(Len(e))
  <2>1. 64 \div 4 = 16 /\ 64 % 4 = 0
    OBVIOUS
  <2>2. DecodedLen(64) = 48
    BY <2>1 DEF DecodedLen
  <2> QED BY <1>1, <2>2
<1>3. /\ Long(DecodeBase64(e), n)
      /\ \A b \in 1..n : DecodeBase64(e)[b] = DecodedAt(e, (b - 1) \div 3, 1 + ((b - 1) % 3))
  BY <1>2, DecodedLong
<1>4. ASSUME NEW b \in 1..48 PROVE DecodeBase64(e)[b] = d[b]
  <2>1. PICK g \in 0..15, k \in 1..3 : g = (b - 1) \div 3 /\ k = 1 + ((b - 1) % 3) /\ b = 3 * g + k
    BY Counted
  <2>2. PICK a \in 1..63 : /\ a = 4 * g + k /\ (a - 1) \div 4 = g /\ 1 + ((a - 1) % 4) = k
                           /\ ((a + 1) - 1) \div 4 = g /\ 1 + (((a + 1) - 1) % 4) = k + 1
    BY Counting
  <2>3. a \in 1..64 /\ a + 1 \in 1..64
    OBVIOUS
  <2>4. e[a] = Char(d, g, k) /\ e[a + 1] = Char(d, g, k + 1)
    BY <1>1, <2>2, <2>3
  <2>5. PICK x, y : x = Group3(d, g) /\ y = <<"group", x>>
    OBVIOUS
  <2>6. /\ e[a][1] = y /\ e[a][2] = k /\ e[a + 1][1] = y /\ e[a + 1][2] = k + 1
    BY <2>4, <2>5 DEF Char
  <2>7. y[1] = "group" /\ y[2] = x
    BY <2>5
  <2>8. Len(x) = 3 /\ x[k] = d[b] /\ k <= 3
    BY <2>1, <2>5, GroupBytes
  <2>9. a < Len(e)
    BY <1>1
  <2>10. DecodedAt(e, g, k) = IF a < Len(e) /\ e[a][1][1] = "group" /\ e[a][1] = e[a + 1][1]
                                 /\ e[a][2] = k /\ e[a + 1][2] = k + 1 /\ k <= Len(e[a][1][2])
                              THEN e[a][1][2][k] ELSE << <<"junk">>, 1>>
    BY <2>2, Zenon DEF DecodedAt
  <2>11. DecodedAt(e, g, k) = d[b]
    BY <2>6, <2>7, <2>8, <2>9, <2>10
  <2> QED BY <1>2, <1>3, <2>1, <2>11
<1>5. Long(d, n) /\ \A b \in 1..n : DecodeBase64(e)[b] = d[b]
  BY <1>2, <1>4
<1> QED BY <1>3, <1>5, SameBytes

LinkFields(l) == {Field(0, 32, l.tg_public_key), Field(32, 48, l.join_code)}
LinkBytes(l) == Bytes(l.tg_public_key, KeyLen) \o Bytes(l.join_code, JoinCodeLen)

LEMMA LinkForm ==
  ASSUME NEW l, l.tg_public_key # Mixed, l.join_code # Mixed
  PROVE  Form(LinkBytes(l), LinkFields(l), 48)
<1>1. PICK t1, t2 : t1 = l.tg_public_key /\ t2 = l.join_code /\ t1 # Mixed /\ t2 # Mixed
  OBVIOUS
<1> DEFINE F1 == {Field(0, 32, t1)}
           F2 == F1 \cup {Field(32, 48, t2)}
           s1 == Bytes(t1, 32)
           s2 == s1 \o Bytes(t2, 16)
<1>3. Form(s1, F1, 32)
  BY <1>1, FormOfOne
<1> HIDE DEF s1, F1
<1>4. Form(s2, F2, 48)
  <2>1. Grown(s1, F1, 32, t2, 16, 48, s2, F2)
    BY <1>1, <1>3 DEF Grown
  <2> HIDE DEF s2, F2
  <2> QED BY <2>1, FormGrows
<1> HIDE DEF s2, F2
<1>5. s2 = LinkBytes(l)
  BY <1>1 DEF LinkBytes, KeyLen, JoinCodeLen, s1, s2
<1>6. F2 = LinkFields(l)
  BY <1>1 DEF LinkFields, F1, F2
<1> QED BY <1>4, <1>5, <1>6

LEMMA ReadLinkIs ==
  ASSUME NEW s, NEW data, data = DecodeBase64(s)
  PROVE  ReadLink(s) =
           IF (\E c \in DOMAIN s : s[c][1] = Code("unknown")) \/ Len(data) # 48 THEN Refused
           ELSE [tg_public_key |-> Value(data, 0, 32), join_code |-> Value(data, 32, 48)]
BY Zenon DEF ReadLink

LEMMA LinkRight ==
  ASSUME NEW r \in RecordsOf("link"), NEW h, NEW t, Harmed(WriteLink(r), h, t)
  PROVE  ReadRight("link", r, h, ReadLink(t))
<1>1. r = [tg_public_key |-> GroupKey, join_code |-> <<"joincode">>]
  BY DEF RecordsOf
<1>2. r.tg_public_key # Mixed /\ r.join_code # Mixed
  BY <1>1 DEF GroupKey, Mixed
<1>3. PICK d, s : d = LinkBytes(r) /\ s = EncodeBase64(d) /\ s = WriteLink(r)
  BY DEF LinkBytes, WriteLink
<1>4. Form(d, LinkFields(r), 48)
  BY <1>2, <1>3, LinkForm
<1>5. Long(d, 48)
  BY <1>4, FieldsRead
<1>6. Len(d) = 48 /\ AllRead(d, LinkFields(r))
  BY <1>4, FieldsRead
<1>7. Value(d, 0, 32) = r.tg_public_key /\ Value(d, 32, 48) = r.join_code
  BY <1>6 DEF AllRead, LinkFields, Field
<1>8. DecodeBase64(s) = d
  BY <1>3, <1>5, DecodedLink
<1>9. /\ Long(s, 64) /\ DOMAIN s = 1..64
      /\ \A c \in 1..64 : s[c] = Char(d, (c - 1) \div 4, 1 + ((c - 1) % 4))
  <2>1. Long(s, 64) /\ \A c \in 1..64 : s[c] = Char(d, (c - 1) \div 4, 1 + ((c - 1) % 4))
    BY <1>3, <1>5, EncodedLink
  <2> QED BY <2>1, LongElements
<1>10. ReadLink(s) = r
  <2>1. ASSUME NEW c \in DOMAIN s PROVE s[c][1] # Code("unknown")
    <3>1. PICK x : s[c][1] = <<"group", x>>
      BY <1>9 DEF Char
    <3>2. <<"group", x>> # Code("unknown")
      BY DEF Code
    <3> QED BY <3>1, <3>2
  <2>2. ReadLink(s) = [tg_public_key |-> Value(d, 0, 32), join_code |-> Value(d, 32, 48)]
    BY <1>6, <1>8, <2>1, ReadLinkIs
  <2> QED BY <1>1, <1>7, <2>2
<1>11. ASSUME OtherLength(s, t, 64) PROVE ReadLink(t) = Refused
  <2>1. PICK m \in Nat : Long(t, m) /\ m \in {64 - 1, 64 - 16, 64 + 1}
    BY <1>11 DEF OtherLength
  <2>2. PICK n \in Nat : n = DecodedLen(m) /\ n # 48
    <3>1. m = 63 \/ m = 48 \/ m = 65
      BY <2>1
    <3>2. DecodedLen(63) = 47 /\ DecodedLen(48) = 36 /\ DecodedLen(65) = 49
      BY DEF DecodedLen
    <3> QED BY <3>1, <3>2
  <2>3. PICK data : data = DecodeBase64(t)
    OBVIOUS
  <2>4. Len(t) = m
    BY <2>1 DEF Long
  <2>5. Len(data) = n
    BY <2>2, <2>3, <2>4, DecodedLong DEF Long
  <2> QED BY <2>2, <2>3, <2>5, ReadLinkIs
<1>12. ReadLink(t) # Refused => Legal(ReadLink(t))
  <2>1. PICK data : data = DecodeBase64(t)
    OBVIOUS
  <2> QED BY <2>1, ReadLinkIs DEF Legal
<1>13. "link" # "response" /\ "link" \notin SealedKinds /\ "link" \notin SignedKinds
       /\ RestoredFrom("link", r) = r
  BY DEF SealedKinds, SignedKinds, RestoredFrom
<1> QED BY <1>3, <1>9, <1>10, <1>11, <1>12, <1>13, Strict

-----------------------------------------------------------------------------
(* All forms. *)

LEMMA FormRight ==
  ASSUME NEW k \in Kinds, NEW r \in RecordsOf(k), k = "message" => Encodable(r),
         NEW h, NEW t, Harmed(WriteForm(k, r), h, t)
  PROVE  ReadRight(k, r, h, ReadForm(k, t))
<1>1. CASE k = "certificate"
  BY <1>1, CertificateRight DEF WriteForm, ReadForm
<1>2. CASE k = "revocation"
  BY <1>2, RevocationRight DEF WriteForm, ReadForm
<1>3. CASE k = "invite"
  BY <1>3, InviteRight DEF WriteForm, ReadForm
<1>4. CASE k = "request"
  BY <1>4, RequestRight DEF WriteForm, ReadForm
<1>5. CASE k = "bundle"
  BY <1>5, BundleRight DEF WriteForm, ReadForm
<1>6. CASE k = "response"
  BY <1>6, ResponseRight DEF WriteForm, ReadForm
<1>7. CASE k = "member"
  BY <1>7, MemberRight DEF WriteForm, ReadForm
<1>8. CASE k = "group"
  BY <1>8, GroupRight DEF WriteForm, ReadForm
<1>9. CASE k = "message"
  BY <1>9, MessageRight DEF WriteForm, ReadForm
<1>10. CASE k = "secret"
  BY <1>10, SecretRight DEF WriteForm, ReadForm
<1>11. CASE k = "link"
  BY <1>11, LinkRight DEF WriteForm, ReadForm
<1>12. CASE k = "words"
  BY <1>12, WordsRight DEF WriteForm, ReadForm
<1> QED BY <1>1, <1>2, <1>3, <1>4, <1>5, <1>6, <1>7, <1>8, <1>9, <1>10, <1>11, <1>12 DEF Kinds

(* The bytes are those of the record, but for the harm that was done to them,  *)
(* and what was read was read from them.                                       *)
FormsInv ==
    /\ kind \in Kinds /\ record \in RecordsOf(kind)
    /\ kind = "message" => Encodable(record)
    /\ Harmed(WriteForm(kind, record), harm, bytes)
    /\ got # NotYet => got = ReadForm(kind, bytes)

LEMMA FormsStart == FormsInit => FormsInv
<1> SUFFICES ASSUME FormsInit PROVE FormsInv
  OBVIOUS
<1>1. PICK k \in Kinds \ {"member"} : \E r \in RecordsOf(k) :
          (k = "message" => Encodable(r)) /\ Travels(k, r)
  BY DEF FormsInit
<1>2. PICK r \in RecordsOf(k) : (k = "message" => Encodable(r)) /\ Travels(k, r)
  BY <1>1
<1>3. kind = k /\ record = r /\ bytes = WriteForm(k, r) /\ harm = "none" /\ got = NotYet
  BY <1>2 DEF Travels
<1> QED BY <1>1, <1>2, <1>3 DEF FormsInv, Harmed

LEMMA FormsStep == FormsInv /\ [FormsNext]_formVars => FormsInv'
<1> SUFFICES ASSUME FormsInv, [FormsNext]_formVars PROVE FormsInv'
  OBVIOUS
<1>0. /\ kind \in Kinds /\ record \in RecordsOf(kind)
      /\ kind = "message" => Encodable(record)
      /\ Harmed(WriteForm(kind, record), harm, bytes)
      /\ got # NotYet => got = ReadForm(kind, bytes)
  BY DEF FormsInv
<1>1. harm = "none" => bytes = WriteForm(kind, record)
  BY <1>0 DEF Harmed
<1>2. ASSUME NEW n \in {1, 16}, CutShort(n) PROVE FormsInv'
  BY <1>0, <1>1, <1>2 DEF CutShort, FormsInv, Harmed
<1>3. CASE Extend
  BY <1>0, <1>1, <1>3 DEF Extend, FormsInv, Harmed
<1>4. ASSUME NEW i \in 1..300, NEW token \in Tokens, Change(i, token) PROVE FormsInv'
  <2>1. UNCHANGED <<kind, record, got>> /\ harm' = "changed" /\ got = NotYet
    BY <1>4 DEF Change
  <2>2. PICK s : s = WriteForm(kind, record) /\ bytes = s
    BY <1>1, <1>4 DEF Change
  <2>3. /\ i \in DOMAIN s /\ s[i][2] = 1 /\ s[i][1] # token
        /\ bytes' = [s EXCEPT ![i] = <<token, 1>>]
    BY <1>4, <2>2 DEF Change
  <2>4. Harmed(s, harm', bytes')
    BY <2>1, <2>3 DEF Harmed
  <2> QED BY <1>0, <2>1, <2>2, <2>4 DEF FormsInv
<1>5. CASE Parse
  BY <1>0, <1>5 DEF Parse, FormsInv
<1>6. CASE Store
  <2>1. /\ kind = "response" /\ got # NotYet /\ got # Refused
        /\ kind' = "member" /\ record' = Member(got) /\ bytes' = WriteMember(Member(got))
        /\ harm' = "none" /\ got' = NotYet
    BY <1>6 DEF Store
  <2>2. ReadRight(kind, record, harm, got)
    BY <1>0, <2>1, FormRight
  <2>3. got = record
    <3>1. harm = "none" \/ harm = "cut" \/ harm = "extended" \/ harm = "changed"
      BY <1>0 DEF Harmed
    <3>2. kind \in SealedKinds /\ RestoredFrom(kind, record) = record
      BY <2>1 DEF SealedKinds, RestoredFrom
    <3> QED BY <2>1, <2>2, <3>1, <3>2 DEF ReadRight
  <2>4. Member(got) \in RecordsOf("member")
    BY <1>0, <2>1, <2>3 DEF RecordsOf
  <2>5. WriteForm("member", Member(got)) = WriteMember(Member(got))
    BY DEF WriteForm
  <2> QED BY <2>1, <2>4, <2>5 DEF FormsInv, Kinds, Harmed
<1>7. CASE UNCHANGED formVars
  BY <1>0, <1>7 DEF formVars, FormsInv
<1> QED BY <1>2, <1>3, <1>4, <1>5, <1>6, <1>7 DEF FormsNext

(* What travels is what was written, cut short, made longer or with one byte   *)
(* changed, and what is read is read from that (TrustForms as a whole).        *)
THEOREM FormsInvariant == FormsSpec => []FormsInv
BY FormsStart, FormsStep, PTL DEF FormsSpec

(* Whatever the sizes of a payload and of the word list: an intact form is     *)
(* read back field by field and verifies, one of another length is refused     *)
(* unless it is a response with a tail, a changed one does not verify or open, *)
(* and no enumerator out of range gets in.                                     *)
THEOREM FormsHold == FormsSpec => []FormsReadBack
<1>1. FormsInv => FormsReadBack
  <2> SUFFICES ASSUME FormsInv, got # NotYet
               PROVE  FormsReadBack
    BY DEF FormsReadBack
  <2>1. ReadRight(kind, record, harm, got)
    BY FormRight DEF FormsInv
  <2>2. Restored = RestoredFrom(kind, record)
    BY DEF Restored, RestoredFrom
  <2> QED BY <2>1, <2>2 DEF FormsReadBack, ReadRight, Legal
<1> QED BY <1>1, FormsInvariant, PTL
=============================================================================
