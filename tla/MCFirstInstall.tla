--------------------------- MODULE MCFirstInstall ---------------------------
(* TLC instances of FirstInstall. *)
EXTENDS FirstInstall
=============================================================================
