--------------------------- MODULE MCProvisioning ---------------------------
(* TLC instances of Provisioning. *)
EXTENDS Provisioning, TLC

\* Boards and slots are interchangeable.
Symmetry == Permutations(Devices) \cup Permutations(Slots)

\* A behaviour has one fault: an event lost by the tick, or a restart.
OneFault == drops + restarts <= 1
=============================================================================
