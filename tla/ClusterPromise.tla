--------------------------- MODULE ClusterPromise ---------------------------
(***************************************************************************)
(* What the deployer promises those who deploy and delete functions: what  *)
(* the cluster shows of a function is at every moment what one operation   *)
(* asked for, put there in one piece while that operation was under way;   *)
(* an operation that succeeded is shown, one that failed may be.           *)
(***************************************************************************)
EXTENDS Naturals

CONSTANTS
  Operations,  \* numbered in the order in which they are begun on a function
  Target,      \* operation -> the function it is about
  Asked        \* operation -> what it wants shown: a set of one content, or none

VARIABLES
  shown,  \* function -> what the cluster shows of it: a set of at most one content
  state   \* operation -> how far it is

vars == <<shown, state>>

Init ==
  /\ shown = [f \in {Target[j] : j \in Operations} |-> {}]
  /\ state = [j \in Operations |-> "waiting"]

Begin(j) ==
  /\ state[j] = "waiting"
  /\ \A i \in Operations : i < j /\ Target[i] = Target[j] => state[i] \in {"done", "failed"}
  /\ state' = [state EXCEPT ![j] = "active"]
  /\ UNCHANGED shown

Put(j) == shown' = [shown EXCEPT ![Target[j]] = Asked[j]]

\* Shown, and the operation does not know it yet.
Apply(j) == state[j] = "active" /\ Put(j) /\ UNCHANGED state

Succeed(j) ==
  /\ state[j] = "active"
  /\ Put(j)
  /\ state' = [state EXCEPT ![j] = "done"]

Fail(j) ==
  /\ state[j] = "active"
  /\ Put(j) \/ UNCHANGED shown
  /\ state' = [state EXCEPT ![j] = "failed"]

Next == \E j \in Operations : Begin(j) \/ Apply(j) \/ Succeed(j) \/ Fail(j)

Spec == Init /\ [][Next]_vars
=============================================================================
