-------------------------- MODULE MCEventStreams --------------------------
(* EventStreams for TLC: deployments of functions of one name, d1 in the      *)
(* workspace of the user and d2 in another one.                               *)
EXTENDS EventStreams

CONSTANTS u1, d1, d2

MCOwner == [x \in {u1, d1, d2} |-> IF x = d2 THEN "wsB" ELSE "wsA"]
=============================================================================
