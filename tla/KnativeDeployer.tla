-------------------------- MODULE KnativeDeployer --------------------------
(***************************************************************************)
(* The calls by which a deploy worker and the API change the cluster, one  *)
(* Kubernetes request at a time: EnsureNamespace, EnsureNamespaceRBAC and  *)
(* Deploy as executeDeploy makes them, repeated by the queue when one of   *)
(* them fails, and Delete as FunctionService.Delete makes it, once.  All   *)
(* functions are of one workspace.  The API server keeps a                 *)
(* resourceVersion per object and refuses an Update whose version is not   *)
(* the current one.  The operations on one function follow each other,     *)
(* those on different functions run side by side.                          *)
(***************************************************************************)
EXTENDS Integers, Sequences

CONSTANTS
  Script,       \* the operations, each [kind, fn, version, public, managed]
  MaxAttempts,  \* the consumer's MaxDeliver
  MaxFaults,    \* bound: requests that fail for no reason of the model
  MaxReconciles \* bound: writes of Knative's controllers to a service

Functions == {Script[i].fn : i \in DOMAIN Script}
Versions  == {Script[i].version : i \in DOMAIN Script}
Jobs      == DOMAIN Script

ASSUME DeployerAssumption ==
  /\ Script \in Seq([kind : {"deploy", "delete"}, fn : Functions, version : Nat \ {0},
                     public : BOOLEAN, managed : BOOLEAN])
  /\ MaxAttempts \in Nat \ {0}
  /\ {MaxFaults, MaxReconciles} \subseteq Nat

VARIABLES
  objects,    \* which of the workspace's namespace, role, binding and secret exist
  configMap,  \* function -> its ConfigMap; rv 0 when it does not exist
  service,    \* function -> its Knative service; rv 0 when it does not exist
  revision,   \* the API server's last resourceVersion
  job,        \* the operations
  faults,     \* faults so far
  reconciles  \* controller writes so far

vars == <<objects, configMap, service, revision, job, faults, reconciles>>

Ensured == <<"namespace", "role", "binding">>     \* in this order
Steps   == {"idle", "get", "create", "secret", "cmGet", "cmWrite", "svcGet", "svcWrite",
            "delGet", "delService", "delConfigMap", "done", "failed"}

TypeOK ==
  /\ objects \subseteq {"namespace", "role", "binding", "secret"}
  /\ configMap \in [Functions -> [rv : Nat, version : Versions \cup {0}]]
  /\ service \in [Functions -> [rv : Nat, version : Versions \cup {0},
                                local : BOOLEAN, managed : BOOLEAN]]
  /\ revision \in Nat
  /\ job \in [Jobs -> [pc : Steps, at : 1..3, seen : Nat, managed : BOOLEAN,
                       attempt : 1..MaxAttempts]]
  /\ faults \in 0..MaxFaults
  /\ reconciles \in 0..MaxReconciles

Init ==
  /\ objects = {}
  /\ configMap = [f \in Functions |-> [rv |-> 0, version |-> 0]]
  /\ service = [f \in Functions |-> [rv |-> 0, version |-> 0, local |-> FALSE,
                                     managed |-> FALSE]]
  /\ revision = 0
  /\ job = [j \in Jobs |-> [pc |-> "idle", at |-> 1, seen |-> 0, managed |-> FALSE,
                            attempt |-> 1]]
  /\ faults = 0
  /\ reconciles = 0

Op(j) == Script[j]
Ended(j) == job[j].pc \in {"done", "failed"}

Go(j, pc) == job' = [job EXCEPT ![j].pc = pc]

\* Mutant: a failed attempt is not counted.
MutRetry(j) ==
  job' = [job EXCEPT ![j].at = 1, ![j].seen = 0, ![j].attempt = @ + 1, ![j].pc = "get"]

\* The attempt fails: Nak and delivered again, or the last delivery was used.
Retry(j) ==
  IF job[j].attempt < MaxAttempts
  THEN job' = [job EXCEPT ![j].at = 1, ![j].seen = 0, ![j].attempt = @ + 1, ![j].pc = "get"]
  ELSE Go(j, "failed")

\* A request that fails by itself is counted.
Fault == faults < MaxFaults /\ faults' = faults + 1

\* Assumed of the clients: they await one operation on a function before the next.
Start(j) ==
  /\ job[j].pc = "idle"
  /\ \A i \in Jobs : i < j /\ Op(i).fn = Op(j).fn => Ended(i)
  /\ Go(j, IF Op(j).kind = "deploy" THEN "get" ELSE "delGet")
  /\ UNCHANGED <<objects, configMap, service, revision, faults, reconciles>>

-----------------------------------------------------------------------------
(* EnsureNamespace, EnsureNamespaceRBAC and copySecret *)

\* To the next object, or to the secret after the last one.
Further(j) ==
  IF job[j].at < 3 THEN job' = [job EXCEPT ![j].at = @ + 1, ![j].pc = "get"]
  ELSE Go(j, "secret")

\* An error other than NotFound fails the namespace's Get; for the role and the
\* binding it is ignored and nothing is created.
EnsureGet(j) ==
  LET o == Ensured[job[j].at] IN
  /\ job[j].pc = "get"
  /\ \/ /\ IF o \in objects THEN Further(j) ELSE Go(j, "create")
        /\ UNCHANGED faults
     \/ /\ Fault
        /\ IF o = "namespace" THEN Retry(j) ELSE Further(j)
  /\ UNCHANGED <<objects, configMap, service, revision, reconciles>>

\* AlreadyExists is an error here.
EnsureCreate(j) ==
  LET o == Ensured[job[j].at] IN
  /\ job[j].pc = "create"
  /\ \/ /\ objects' = objects \cup {o}
        /\ IF o \in objects THEN Retry(j) ELSE Further(j)
        /\ UNCHANGED faults
     \/ /\ Fault
        /\ objects' \in {objects, objects \cup {o}}
        /\ Retry(j)
  /\ UNCHANGED <<configMap, service, revision, reconciles>>

\* Where Deploy begins.
DeployStep(j) == IF Op(j).managed THEN "cmGet" ELSE "svcGet"

\* Mutant: AlreadyExists is an error for the secret too.
MutCopySecret(j) ==
  /\ job[j].pc = "secret"
  /\ \/ /\ objects' = objects \cup {"secret"}
        /\ IF "secret" \in objects THEN Retry(j) ELSE Go(j, DeployStep(j))
        /\ UNCHANGED faults
     \/ /\ Fault
        /\ objects' \in {objects, objects \cup {"secret"}}
        /\ Retry(j)
  /\ UNCHANGED <<configMap, service, revision, reconciles>>

\* AlreadyExists is fine here, and so is a platform without a pull secret.
CopySecret(j) ==
  /\ job[j].pc = "secret"
  /\ \/ /\ objects' \in {objects, objects \cup {"secret"}}
        /\ Go(j, DeployStep(j))
        /\ UNCHANGED faults
     \/ /\ Fault
        /\ objects' \in {objects, objects \cup {"secret"}}
        /\ Retry(j)
  /\ UNCHANGED <<configMap, service, revision, reconciles>>

-----------------------------------------------------------------------------
(* Deploy: ensureConfigMap, then the Knative service. *)

\* Any error of Get leads to Create.
ConfigMapGet(j) ==
  /\ job[j].pc = "cmGet"
  /\ \/ /\ job' = [job EXCEPT ![j].pc = "cmWrite", ![j].seen = configMap[Op(j).fn].rv]
        /\ UNCHANGED faults
     \/ /\ Fault
        /\ job' = [job EXCEPT ![j].pc = "cmWrite", ![j].seen = 0]
  /\ UNCHANGED <<objects, configMap, service, revision, reconciles>>

\* Update of the version seen, or Create: refused unless it is the current one.
ConfigMapWrite(j) ==
  LET f       == Op(j).fn
      current == configMap[f].rv = job[j].seen
      written == [configMap EXCEPT ![f] = [rv |-> revision + 1, version |-> Op(j).version]]
  IN
  /\ job[j].pc = "cmWrite"
  /\ \/ /\ current
        /\ configMap' = written
        /\ revision' = revision + 1
        /\ Go(j, "svcGet")
        /\ UNCHANGED faults
     \/ /\ ~ current
        /\ Retry(j)
        /\ UNCHANGED <<configMap, revision, faults>>
     \/ /\ Fault
        /\ \/ UNCHANGED <<configMap, revision>>
           \/ current /\ configMap' = written /\ revision' = revision + 1
        /\ Retry(j)
  /\ UNCHANGED <<objects, service, reconciles>>

ServiceGet(j) ==
  /\ job[j].pc = "svcGet"
  /\ \/ /\ job' = [job EXCEPT ![j].pc = "svcWrite", ![j].seen = service[Op(j).fn].rv]
        /\ UNCHANGED faults
     \/ /\ Fault
        /\ job' = [job EXCEPT ![j].pc = "svcWrite", ![j].seen = 0]
  /\ UNCHANGED <<objects, configMap, service, revision, reconciles>>

\* Mutant: an update adds the visibility annotation but never removes it.
MutBuilt(j) ==
  [rv |-> revision + 1, version |-> Op(j).version, managed |-> Op(j).managed,
   local |-> service[Op(j).fn].local \/ ~ Op(j).public]

\* buildService, and the annotation's removal in the update of a public function.
Built(j) ==
  [rv |-> revision + 1, version |-> Op(j).version, managed |-> Op(j).managed,
   local |-> ~ Op(j).public]

\* Mutant: a refused write makes room for the next attempt.
MutServiceWrite(j) ==
  LET f       == Op(j).fn
      current == service[f].rv = job[j].seen
      written == [service EXCEPT ![f] = Built(j)]
      removed == [service EXCEPT ![f] = [rv |-> 0, version |-> 0, local |-> FALSE,
                                         managed |-> FALSE]]
  IN
  /\ job[j].pc = "svcWrite"
  /\ \/ /\ current
        /\ service' = written
        /\ revision' = revision + 1
        /\ Go(j, "done")
        /\ UNCHANGED faults
     \/ /\ ~ current
        /\ Retry(j)
        /\ service' = removed
        /\ UNCHANGED <<revision, faults>>
     \/ /\ Fault
        /\ \/ UNCHANGED <<service, revision>>
           \/ current /\ service' = written /\ revision' = revision + 1
        /\ Retry(j)
  /\ UNCHANGED <<objects, configMap, reconciles>>

ServiceWrite(j) ==
  LET f       == Op(j).fn
      current == service[f].rv = job[j].seen
      written == [service EXCEPT ![f] = Built(j)]
  IN
  /\ job[j].pc = "svcWrite"
  /\ \/ /\ current
        /\ service' = written
        /\ revision' = revision + 1
        /\ Go(j, "done")
        /\ UNCHANGED faults
     \/ /\ ~ current
        /\ Retry(j)
        /\ UNCHANGED <<service, revision, faults>>
     \/ /\ Fault
        /\ \/ UNCHANGED <<service, revision>>
           \/ current /\ service' = written /\ revision' = revision + 1
        /\ Retry(j)
  /\ UNCHANGED <<objects, configMap, reconciles>>

\* Knative's controllers write the service's status: a new resourceVersion.
Reconcile(f) ==
  /\ service[f].rv # 0
  /\ reconciles < MaxReconciles
  /\ reconciles' = reconciles + 1
  /\ service' = [service EXCEPT ![f].rv = revision + 1]
  /\ revision' = revision + 1
  /\ UNCHANGED <<objects, configMap, job, faults>>

-----------------------------------------------------------------------------
(* Delete.  Its error is logged by FunctionService.Delete and never retried. *)

DeleteGet(j) ==
  LET s == service[Op(j).fn] IN
  /\ job[j].pc = "delGet"
  /\ \/ /\ job' = [job EXCEPT ![j].pc = IF s.rv = 0 THEN "failed" ELSE "delService",
                              ![j].managed = s.managed]
        /\ UNCHANGED faults
     \/ Fault /\ Go(j, "failed")
  /\ UNCHANGED <<objects, configMap, service, revision, reconciles>>

DeleteService(j) ==
  LET f       == Op(j).fn
      removed == [service EXCEPT ![f] = [rv |-> 0, version |-> 0, local |-> FALSE,
                                         managed |-> FALSE]]
  IN
  /\ job[j].pc = "delService"
  /\ \/ /\ service' = removed
        /\ Go(j, IF service[f].rv = 0 THEN "failed"
                 ELSE IF job[j].managed THEN "delConfigMap" ELSE "done")
        /\ UNCHANGED faults
     \/ Fault /\ service' \in {service, removed} /\ Go(j, "failed")
  /\ UNCHANGED <<objects, configMap, revision, reconciles>>

\* The ConfigMap is deleted by name and the error is dropped.
DeleteConfigMap(j) ==
  LET removed == [configMap EXCEPT ![Op(j).fn] = [rv |-> 0, version |-> 0]] IN
  /\ job[j].pc = "delConfigMap"
  /\ \/ configMap' = removed /\ UNCHANGED faults
     \/ Fault /\ configMap' \in {configMap, removed}
  /\ Go(j, "done")
  /\ UNCHANGED <<objects, service, revision, reconciles>>

-----------------------------------------------------------------------------
Step(j) ==
  \/ Start(j) \/ EnsureGet(j) \/ EnsureCreate(j) \/ CopySecret(j)
  \/ ConfigMapGet(j) \/ ConfigMapWrite(j) \/ ServiceGet(j) \/ ServiceWrite(j)
  \/ DeleteGet(j) \/ DeleteService(j) \/ DeleteConfigMap(j)

Next == (\E j \in Jobs : Step(j)) \/ (\E f \in Functions : Reconcile(f))

Spec == Init /\ [][Next]_vars

-----------------------------------------------------------------------------
(* Properties. *)

\* Workers that deploy the first functions of a workspace at the same time lose
\* races for its namespace, role and binding, each an error of the attempt; the
\* retries of MaxDeliver are always enough when nothing else fails or writes.
WithinBudget ==
  faults = 0 /\ reconciles = 0 =>
    \A j \in Jobs : Op(j).kind = "deploy" => job[j].pc # "failed"

\* Operations on a function one after the other: when the last one succeeded,
\* the cluster shows it and nothing of the ones before, whatever failed and was
\* retried on the way.  A byoi function has no ConfigMap to compare.
Latest(j) ==
  /\ job[j].pc = "done"
  /\ \A i \in Jobs : i > j /\ Op(i).fn = Op(j).fn => job[i].pc = "idle"

LastOperationShows ==
  \A j \in Jobs :
    LET s == service[Op(j).fn]
        c == configMap[Op(j).fn]
    IN
    Latest(j) =>
      IF Op(j).kind = "delete" THEN s.rv = 0
      ELSE /\ s.rv # 0
           /\ s.version = Op(j).version
           /\ s.local = ~ Op(j).public
           /\ Op(j).managed => c.rv # 0 /\ c.version = Op(j).version

\* What an operation wants shown of its function, and what the cluster shows.
Wanted(j) ==
  IF Op(j).kind = "delete" THEN {}
  ELSE {[version |-> Op(j).version, local |-> ~ Op(j).public, managed |-> Op(j).managed]}

Showing(f) ==
  IF service[f].rv = 0 THEN {}
  ELSE {[version |-> service[f].version, local |-> service[f].local,
         managed |-> service[f].managed]}

Stage(j) ==
  CASE job[j].pc = "idle"   -> "waiting"
    [] job[j].pc = "done"   -> "done"
    [] job[j].pc = "failed" -> "failed"
    [] OTHER                -> "active"

Promise ==
  INSTANCE ClusterPromise WITH
    Operations <- Jobs,
    Target     <- [j \in Jobs |-> Op(j).fn],
    Asked      <- [j \in Jobs |-> Wanted(j)],
    shown      <- [f \in Functions |-> Showing(f)],
    state      <- [j \in Jobs |-> Stage(j)]

\* A function's service changes in one piece, only under an operation that is under
\* way, to what that operation asks for: while it is updated, with refused writes,
\* lost answers and retries, it stays what it was or is already the new one, an
\* operation that is over never reaches through, and "done" means shown.
ShowsWhatWasAsked == Promise!Spec
=============================================================================
