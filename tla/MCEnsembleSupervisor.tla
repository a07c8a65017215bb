------------------------ MODULE MCEnsembleSupervisor ------------------------
(* TLC instances of EnsembleSupervisor. *)
EXTENDS EnsembleSupervisor, TLC

\* Callers are interchangeable.
Symmetry == Permutations(Callers)

\* A behaviour has three disturbances: three crashes, or two and a reset.
ThreeDisturbances == crashes + resets <= 3
=============================================================================
