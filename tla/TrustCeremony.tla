---------------------------- MODULE TrustCeremony ----------------------------
(* The join ceremony of r2-trust (R2-TRUST §5) between a key holder, who owns  *)
(* the trust group, and the devices that ask to join, with the two custodians  *)
(* the repository has for the group: the orchestrator's handshake worker,      *)
(* which loads it from tg_state.bin for every attempt, and the browser page,   *)
(* which keeps it in memory and 38 bytes of it in localStorage.                *)
(*                                                                             *)
(* A grant stands for a device certificate together with the encrypted bundle  *)
(* that carries it; its code and its sequence number are those of the join     *)
(* request it answers.  Signatures and encryption are taken to be sound: only  *)
(* the device a bundle is made for can open it.                                *)
EXTENDS Naturals, Sequences, FiniteSets

CONSTANTS Devices,      \* device keys
          None,         \* no group open, no state file
          Torn,         \* a state file that load rejects
          JoinCodeTtl, CertTtl,
          MaxTime, MaxSkew, MaxCodes, MaxPowerLosses   \* bounds

ASSUME CeremonyAssumption ==
    /\ JoinCodeTtl \in Nat /\ CertTtl \in Nat
    /\ MaxTime \in Nat /\ MaxSkew \in Nat /\ MaxCodes \in Nat /\ MaxPowerLosses \in Nat

VARIABLES custodian,    \* who holds the group: "orchestrator" or "page"
          clock,
          group,        \* the TrustGroup in memory, or None
          phase,        \* "serving" requests, "saving" a join, "sending" its answer
          reply,        \* the grant being answered
          minted,       \* the expiry of every join code ever generated
          codes,        \* the join codes the group still holds
          cache,        \* the state file as a load would see it
          platter,      \* the state file as a power loss would leave it
          air,          \* join responses under way
          keys,         \* the grants whose keys each device holds
          admitted,     \* history: every grant made
          sent,         \* history: every grant that left the key holder
          losses        \* power losses so far

vars == <<custodian, clock, group, phase, reply, minted, codes, cache, platter,
          air, keys, admitted, sent, losses>>
files == <<cache, platter>>
wire == <<air, keys, sent>>

Custodian == {"orchestrator", "page"}
Grant == [device : Devices, code : Nat, seq : Nat, at : Nat]
Group == [members : SUBSET Grant, revoked : SUBSET Devices, sequence : Nat]

ASSUME NoneAssumption == None \notin Group /\ Torn \notin Group

Fresh == [members |-> {}, revoked |-> {}, sequence |-> 0]
DevicesOf(grants) == {g.device : g \in grants}

-----------------------------------------------------------------------------
(* The operations of a TrustGroup. *)

\* validate: unexpired and unused
Valid(c) == c \in codes /\ clock < minted[c]

\* cleanup_expired_codes
Unexpired(cs) == {c \in cs : clock < minted[c]}

\* Mutant: a used code is not marked.
MutConsumed(c) == Unexpired(codes)

\* mark_used, then cleanup: the code is gone whether or not the join succeeds
Consumed(c) == Unexpired(codes \ {c})

\* Mutant: no check for a member already listed.
MutAdmissible(d) == d \notin group.revoked

\* the checks on the device, made after the code is consumed
Admissible(d) == d \notin group.revoked /\ d \notin DevicesOf(group.members)

NewGrant(d, c) == [device |-> d, code |-> c, seq |-> group.sequence + 1, at |-> clock]

\* Mutant: the sequence is not advanced by a join.
MutWithMember(g) == [members |-> group.members \cup {g}, revoked |-> group.revoked,
                     sequence |-> group.sequence]

WithMember(g) == [members |-> group.members \cup {g}, revoked |-> group.revoked,
                  sequence |-> group.sequence + 1]

\* revoke_device
Without(d) == [members |-> {g \in group.members : g.device # d},
               revoked |-> group.revoked \cup {d},
               sequence |-> group.sequence + 1]

\* Mutant: the orchestrator saves the page's short form.
MutSaved == [Fresh EXCEPT !.sequence = group.sequence]

(* What a save keeps: tg_state.bin has members, revocations and sequence; the  *)
(* page's 38 bytes have the signing key, the sequence and the crypto level.    *)
Saved == IF custodian = "orchestrator" THEN group
         ELSE [Fresh EXCEPT !.sequence = group.sequence]

\* No file: TrustGroup::from_signing_key
Loaded == IF cache = None THEN Fresh ELSE cache

-----------------------------------------------------------------------------
Init ==
    /\ custodian \in Custodian
    /\ clock = 0 /\ losses = 0
    /\ minted = <<>> /\ codes = {}
    /\ group = IF custodian = "page" THEN Fresh ELSE None
    /\ cache = IF custodian = "page" THEN Fresh ELSE None
    /\ platter = cache
    /\ phase = "serving" /\ reply = None
    /\ air = {} /\ keys = [d \in Devices |-> {}] /\ admitted = {} /\ sent = {}

Tick ==
    /\ clock < MaxTime
    /\ clock' = clock + 1
    /\ UNCHANGED <<custodian, group, phase, reply, minted, codes, files, wire, admitted, losses>>

MintCode ==
    /\ Len(minted) < MaxCodes
    /\ minted' = Append(minted, clock + JoinCodeTtl)
    /\ codes' = Unexpired(codes) \cup {Len(minted) + 1}

(* The start of a handshake attempt, with the code its invite carries; a page  *)
(* that is loaded again restores the group and has no code.                    *)
Open ==
    /\ group = None /\ cache # Torn
    /\ group' = Loaded
    /\ IF custodian = "orchestrator" THEN MintCode ELSE UNCHANGED <<minted, codes>>
    /\ UNCHANGED <<custodian, clock, phase, reply, files, wire, admitted, losses>>

\* The page's invite button.
GenerateJoinCode ==
    /\ group # None /\ custodian = "page"
    /\ MintCode
    /\ UNCHANGED <<custodian, clock, group, phase, reply, files, wire, admitted, losses>>

(* process_join_request answers, for a device d that presents code c.          *)
Join(d, c) ==
    /\ group # None /\ phase = "serving"
    /\ Valid(c) /\ Admissible(d)
    /\ codes' = Consumed(c)
    /\ group' = WithMember(NewGrant(d, c))
    /\ reply' = NewGrant(d, c)
    /\ admitted' = admitted \cup {NewGrant(d, c)}
    /\ phase' = "saving"
    /\ UNCHANGED <<custodian, clock, minted, files, wire, losses>>

(* process_join_request refuses after it has used the code up: Revoked or      *)
(* DuplicateMember.  The orchestrator's attempt is over.                       *)
JoinRefused(d, c) ==
    /\ group # None /\ phase = "serving"
    /\ Valid(c) /\ ~Admissible(d)
    /\ codes' = IF custodian = "orchestrator" THEN {} ELSE Consumed(c)
    /\ group' = IF custodian = "orchestrator" THEN None ELSE group
    /\ UNCHANGED <<custodian, clock, phase, reply, minted, files, wire, admitted, losses>>

(* tg_state::save, or saveAuth: before the device sees the response.  The      *)
(* orchestrator writes a temporary file and renames it, without an fsync; a    *)
(* localStorage write is taken to be durable.                                  *)
Save ==
    /\ group # None /\ phase = "saving"
    /\ cache' = Saved
    /\ platter' = IF custodian = "page" THEN Saved ELSE platter
    /\ phase' = "sending"
    /\ UNCHANGED <<custodian, clock, group, reply, minted, codes, wire, admitted, losses>>

(* The response is written; the orchestrator's attempt ends with it.           *)
Send ==
    /\ group # None /\ phase = "sending"
    /\ air' = air \cup {reply} /\ sent' = sent \cup {reply}
    /\ reply' = None /\ phase' = "serving"
    /\ group' = IF custodian = "orchestrator" THEN None ELSE group
    /\ codes' = IF custodian = "orchestrator" THEN {} ELSE codes
    /\ UNCHANGED <<custodian, clock, minted, files, keys, admitted, losses>>

\* R2TrustGroup::revoke_member, which does not save
RevokeDevice(d) ==
    /\ group # None /\ custodian = "page" /\ phase = "serving"
    /\ d \in DevicesOf(group.members)
    /\ group' = Without(d)
    /\ UNCHANGED <<custodian, clock, phase, reply, minted, codes, files, wire, admitted, losses>>

(* A timeout, a failed write, a page closed, a process killed: the group in    *)
(* memory, its join codes and an unsent answer are dropped.                    *)
Close ==
    /\ group # None
    /\ group' = None /\ codes' = {} /\ reply' = None /\ phase' = "serving"
    /\ UNCHANGED <<custodian, clock, minted, files, wire, admitted, losses>>

-----------------------------------------------------------------------------
(* The network and the joining device. *)

\* The certificate's validity window, by the device's own clock
CertValid(g, now) == g.at <= now /\ now < g.at + CertTtl

(* complete_join: another device cannot decrypt the bundle; its own device     *)
(* checks the certificate by a clock that may be off, and takes the keys.      *)
Deliver(g, d) ==
    /\ g \in air
    /\ air' = air \ {g}
    /\ \E now \in 0 .. clock + MaxSkew :
          /\ clock <= now + MaxSkew
          /\ keys' = IF d = g.device /\ CertValid(g, now)
                       THEN [keys EXCEPT ![d] = @ \cup {g}] ELSE keys
    /\ UNCHANGED <<custodian, clock, group, phase, reply, minted, codes, files, sent, admitted, losses>>

\* The operating system writes the file back.
Flush ==
    /\ platter # cache
    /\ platter' = cache
    /\ UNCHANGED <<custodian, clock, group, phase, reply, minted, codes, cache, wire, admitted, losses>>

(* A power loss at the orchestrator: with neither the file nor its directory   *)
(* synced the old file, the new one, or a name without its data survives.      *)
PowerLoss ==
    /\ custodian = "orchestrator" /\ losses < MaxPowerLosses
    /\ platter' \in {platter, cache, Torn}
    /\ cache' = platter'
    /\ group' = None /\ codes' = {} /\ reply' = None /\ phase' = "serving"
    /\ losses' = losses + 1
    /\ UNCHANGED <<custodian, clock, minted, wire, admitted>>

Next ==
    \/ Tick \/ Open \/ GenerateJoinCode \/ Save \/ Send \/ Close \/ Flush \/ PowerLoss
    \/ \E d \in Devices : RevokeDevice(d)
    \/ \E d \in Devices, c \in 1 .. Len(minted) : Join(d, c) \/ JoinRefused(d, c)
    \/ \E g \in air, d \in Devices : Deliver(g, d)

Spec == Init /\ [][Next]_vars

-----------------------------------------------------------------------------
(* A loaded or running group lists a device once and never as revoked too,     *)
(* and codes, grants and files are of their kinds.                             *)
Consistent(gr) ==
    /\ gr \in Group
    /\ \A g, h \in gr.members : g.device = h.device => g = h
    /\ DevicesOf(gr.members) \cap gr.revoked = {}

TypeOK ==
    /\ custodian \in Custodian
    /\ clock \in Nat /\ losses \in Nat
    /\ minted \in Seq(Nat) /\ codes \subseteq DOMAIN minted
    /\ phase \in {"serving", "saving", "sending"}
    /\ reply \in Grant \cup {None} /\ (phase # "serving" => reply \in Grant)
    /\ group # None => Consistent(group)
    /\ \A file \in {cache, platter} : file \in {None, Torn} \/ Consistent(file)
    /\ air \cup sent \cup admitted \subseteq Grant
    /\ keys \in [Devices -> SUBSET Grant]

(* A join code admits at most one device, before it expires, through refused   *)
(* requests, restarts and restored groups; and every certificate a device has  *)
(* taken or may still take comes from such an admission and is its own.        *)
KeysComeFromOneCode ==
    /\ \A g, h \in admitted : g.code = h.code => g = h
    /\ \A g \in admitted : g.code \in DOMAIN minted /\ g.at < minted[g.code]
    /\ air \subseteq admitted
    /\ \A d \in Devices : \A g \in keys[d] : g \in admitted /\ g.device = d

(* While the machine keeps its power, whoever has the group's keys, or a       *)
(* response with them under way, is in the state file the next attempt loads:  *)
(* the save comes before the send ("the orchestrator must have it on disk      *)
(* first", provision_handshake.rs).                                            *)
OnRecord(g) == cache \notin {None, Torn} /\ g \in cache.members

KeysAreOnRecord ==
    custodian = "orchestrator" /\ losses = 0 => \A g \in sent : OnRecord(g)

(* No two responses that left the key holder carry the same sequence number,   *)
(* which a device's replay protection depends on, whatever restarts, refusals  *)
(* and unsaved revocations came between.                                       *)
SequencesAreFresh ==
    losses = 0 => \A g, h \in sent : g.seq = h.seq => g = h

(* tg_state::save says it is "Atomic via write-temp + rename + fsync the       *)
(* parent dir": an answered join would survive a power loss.                   *)
RecordSurvivesPowerLoss ==
    custodian = "orchestrator" => \A g \in sent : OnRecord(g)
=============================================================================
