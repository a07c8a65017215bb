--------------------------- MODULE MCTrustCeremony ---------------------------
(* Two devices, three join codes, one power loss. *)
EXTENDS TrustCeremony, TLC
DeviceSymmetry == Permutations(Devices)
=============================================================================
