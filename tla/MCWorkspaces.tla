---------------------------- MODULE MCWorkspaces ----------------------------
(* Workspaces for TLC: requests and workers are interchangeable. *)
EXTENDS Workspaces, TLC

Symmetry == Permutations(Requests) \cup Permutations(Workers)
=============================================================================
