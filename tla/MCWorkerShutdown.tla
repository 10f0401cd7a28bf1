------------------------- MODULE MCWorkerShutdown -------------------------
(* WorkerShutdown for TLC: deployments and processes are interchangeable. *)
EXTENDS WorkerShutdown, TLC

Symmetry == Permutations(Deployments) \cup Permutations(Workers)
=============================================================================
