----------------------------- MODULE Enrolment -----------------------------
(***************************************************************************)
(* What the provisioning chain of the composer promises, with every queue, *)
(* thread and radio left out: a board is admitted to the trust group at    *)
(* most once, and a roster slot is given, once and for good, to one        *)
(* admitted board that holds no other slot.  Provisioning implements this. *)
(***************************************************************************)
CONSTANTS Devices, Slots, None

VARIABLES
  members,   \* the boards that hold a certificate of the trust group
  state,     \* the life-cycle state of each roster slot
  holder     \* the board each slot is enrolled to, or None

vars == <<members, state, holder>>

Init ==
  /\ members = {}
  /\ state = [s \in Slots |-> "absent"]
  /\ holder = [s \in Slots |-> None]

\* A slot is declared, then flashed: the two states before enrolment.
Declare(s) ==
  /\ state[s] = "absent"
  /\ state' = [state EXCEPT ![s] = "placeholder"]
  /\ UNCHANGED <<members, holder>>

Flash(s) ==
  /\ state[s] = "placeholder"
  /\ state' = [state EXCEPT ![s] = "flashed_pending_pk"]
  /\ UNCHANGED <<members, holder>>

Admit(d) ==
  /\ d \notin members
  /\ members' = members \cup {d}
  /\ UNCHANGED <<state, holder>>

Bind(s, d) ==
  /\ state[s] = "flashed_pending_pk"
  /\ d \in members
  /\ \A t \in Slots : holder[t] # d
  /\ state' = [state EXCEPT ![s] = "enrolled"]
  /\ holder' = [holder EXCEPT ![s] = d]
  /\ UNCHANGED members

Next ==
  \/ \E s \in Slots : Declare(s) \/ Flash(s)
  \/ \E d \in Devices : Admit(d)
  \/ \E s \in Slots, d \in Devices : Bind(s, d)

Spec == Init /\ [][Next]_vars
=============================================================================
