------------------------ MODULE DeploymentLifecycle ------------------------
(***************************************************************************)
(* What the deployment queue promises a client: a deployment that was      *)
(* accepted is active until it is settled, once and for good, as running   *)
(* or failed; deleting its function is the only other way out.             *)
(***************************************************************************)
CONSTANT Deployments

VARIABLE outcome

Outcomes == {"absent", "active", "running", "failed", "gone"}

Init == outcome = [d \in Deployments |-> "absent"]

\* Create or Update answers 202 with the deployment's id.
Accept(d) ==
  /\ outcome[d] = "absent"
  /\ outcome' = [outcome EXCEPT ![d] = "active"]

Settle(d) ==
  /\ outcome[d] = "active"
  /\ \E o \in {"running", "failed"} : outcome' = [outcome EXCEPT ![d] = o]

\* A function is deleted with all its deployments.
Remove(D) ==
  /\ \A d \in D : outcome[d] # "absent"
  /\ outcome' = [d \in Deployments |-> IF d \in D THEN "gone" ELSE outcome[d]]

Next ==
  \/ \E d \in Deployments : Accept(d) \/ Settle(d)
  \/ \E D \in SUBSET Deployments : Remove(D)

Spec == Init /\ [][Next]_outcome
=============================================================================
