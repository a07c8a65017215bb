----------------------------- MODULE MCEventBus -----------------------------
(* TLC instances of EventBus: two sentants that share one of two hashes. *)
EXTENDS EventBus

MCSubscriptions == << {"a"}, {"a", "b"} >>
=============================================================================
