------------------------ MODULE MCKnativeDeployer ------------------------
(* KnativeDeployer for TLC. *)
EXTENDS KnativeDeployer

Operation(kind, fn, version, public, managed) ==
  [kind |-> kind, fn |-> fn, version |-> version, public |-> public, managed |-> managed]

\* The first deployments of two functions of a new workspace; one of them is
\* then made public and deleted.
TwoFunctions ==
  <<Operation("deploy", "f", 1, FALSE, TRUE),
    Operation("deploy", "g", 2, FALSE, FALSE),
    Operation("deploy", "f", 3, TRUE, TRUE),
    Operation("delete", "f", 4, TRUE, TRUE)>>
=============================================================================
