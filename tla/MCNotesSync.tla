----------------------------- MODULE MCNotesSync -----------------------------
(* Two browsers, a note (notes do not touch each other), three writes at three *)
(* possible times.                                                             *)
EXTENDS NotesSync, TLC

Symmetry == Permutations(Replicas)
=============================================================================
