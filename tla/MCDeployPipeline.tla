------------------------- MODULE MCDeployPipeline -------------------------
(* DeployPipeline for TLC: requests and workers are interchangeable. *)
EXTENDS DeployPipeline, TLC

Symmetry == Permutations(Handlers) \cup Permutations(Workers)
=============================================================================
