----------------------------- MODULE Workspaces -----------------------------
(***************************************************************************)
(* Workspaces and their Kubernetes namespaces.  The admin creates and      *)
(* deletes workspaces, clients deploy the function of a workspace, workers *)
(* execute those deployments in the namespace fn-<slug>, and Kubernetes    *)
(* takes its time to remove a namespace.  A slug may be used again, by a   *)
(* row with another id.                                                    *)
(*                                                                         *)
(* Every workspace has one function, the name of which is the same in all  *)
(* of them.  The queue is that of DeployPipeline without lost              *)
(* acknowledgements, early expiry and crashes; a publish that fails did    *)
(* not reach it.                                                           *)
(***************************************************************************)
EXTENDS Integers, FiniteSets

CONSTANTS
  Slugs,
  Requests,       \* concurrent API requests
  Workers,
  MaxWorkspaces,  \* bound: workspaces created in a behaviour
  MaxDeployments, \* bound: deployments created in a behaviour
  MaxDeliver      \* the consumer's MaxDeliver

ASSUME WorkspacesAssumption ==
  /\ Slugs # {}
  /\ {MaxWorkspaces, MaxDeployments} \subseteq Nat
  /\ MaxDeliver \in Nat \ {0}

VARIABLES
  workspaces,  \* workspaces table: slug -> id of its row, 0 without one
  lastId,      \* ids handed out so far
  functions,   \* ids of the workspaces that have the function's row
  deployments, \* deployments table, with what the request of each one says
  lastDep,     \* deployment ids handed out so far
  message,     \* the request in the consumer: "none", "ready", "out" or "done"
  deliveries,  \* NumDelivered
  request,     \* the API requests
  worker,      \* the deploy workers
  namespace,   \* the namespace fn-<slug>: "absent", "active" or "terminating"
  rbac,        \* slugs whose namespace has its role and binding
  service,     \* slug -> id of the workspace whose function its Knative service is
  quiet,       \* history: ids of rows deleted with none of their deployments active
  removed,     \* history: those of quiet whose namespace was deleted
  fresh        \* history: ids of rows created when nothing of their slug was around

tables  == <<workspaces, lastId, functions, deployments, lastDep>>
queue   == <<message, deliveries>>
cluster == <<namespace, rbac, service>>
history == <<quiet, removed, fresh>>
vars    == <<workspaces, lastId, functions, deployments, lastDep, message, deliveries,
             request, worker, namespace, rbac, service, quiet, removed, fresh>>

Ids  == 1..MaxWorkspaces
Deps == 1..MaxDeployments

NoDeployment == [slug |-> CHOOSE s \in Slugs : TRUE, id |-> 0, status |-> "none"]
Idle         == [pc |-> "idle", slug |-> NoDeployment.slug, id |-> 0, dep |-> 0]
Free         == [pc |-> "fetch", dep |-> 0, ok |-> FALSE]

Calls == {"getNamespace", "createNamespace", "rbac", "deploy"}

TypeOK ==
  /\ workspaces \in [Slugs -> Ids \cup {0}]
  /\ lastId \in Ids \cup {0}
  /\ functions \subseteq Ids
  /\ deployments \in [Deps -> [slug : Slugs, id : Ids \cup {0},
                               status : {"none", "active", "running", "failed", "gone"}]]
  /\ lastDep \in Deps \cup {0}
  /\ message \in [Deps -> {"none", "ready", "out", "done"}]
  /\ deliveries \in [Deps -> 0..MaxDeliver]
  /\ request \in [Requests -> [pc : {"idle", "deleteNamespace", "save", "insert", "publish"},
                               slug : Slugs, id : Ids \cup {0}, dep : Deps \cup {0}]]
  /\ worker \in [Workers -> [pc : Calls \cup {"fetch", "report", "settle"},
                             dep : Deps \cup {0}, ok : BOOLEAN]]
  /\ \A w \in Workers : worker[w].pc # "fetch" => worker[w].dep # 0
  /\ namespace \in [Slugs -> {"absent", "active", "terminating"}]
  /\ service \in [Slugs -> Ids \cup {0}]
  /\ rbac \subseteq Slugs
  /\ \A s \in Slugs : namespace[s] = "absent" => s \notin rbac /\ service[s] = 0
  /\ removed \subseteq quiet /\ quiet \subseteq Ids /\ fresh \subseteq Ids

Init ==
  /\ workspaces = [s \in Slugs |-> 0] /\ lastId = 0
  /\ functions = {}
  /\ deployments = [d \in Deps |-> NoDeployment] /\ lastDep = 0
  /\ message = [d \in Deps |-> "none"] /\ deliveries = [d \in Deps |-> 0]
  /\ request = [q \in Requests |-> Idle]
  /\ worker = [w \in Workers |-> Free]
  /\ namespace = [s \in Slugs |-> "absent"] /\ rbac = {}
  /\ service = [s \in Slugs |-> 0]
  /\ quiet = {} /\ removed = {} /\ fresh = {}

\* The status of a row that is gone stays so.
WithStatus(d, s) ==
  IF deployments[d].status = "gone" THEN deployments
  ELSE [deployments EXCEPT ![d].status = s]

-----------------------------------------------------------------------------
(* WorkspaceHandler *)

\* Neither a namespace, nor a deletion on its way to it, nor a request that the
\* queue may still deliver is left of the slug's earlier workspaces.
Undisturbed(s) ==
  /\ namespace[s] = "absent"
  /\ \A q \in Requests : request[q].slug = s =>
       /\ request[q].pc = "deleteNamespace" => request[q].id = 0
       /\ request[q].pc # "publish"
  /\ \A d \in Deps : deployments[d].slug = s => message[d] \in {"none", "done"}

\* The slug is unique.
CreateWorkspace(s) ==
  /\ workspaces[s] = 0
  /\ lastId < MaxWorkspaces
  /\ lastId' = lastId + 1
  /\ workspaces' = [workspaces EXCEPT ![s] = lastId + 1]
  /\ fresh' = IF Undisturbed(s) THEN fresh \cup {lastId + 1} ELSE fresh
  /\ UNCHANGED <<functions, deployments, lastDep, queue, request, worker, cluster,
                 quiet, removed>>

\* Mutant: that no row was deleted is not an error.
MutDeleteWorkspace(q, s) ==
  LET id == workspaces[s]
      of == {d \in Deps : id # 0 /\ deployments[d].id = id}
  IN
  /\ request[q].pc = "idle"
  /\ workspaces' = [workspaces EXCEPT ![s] = 0]
  /\ functions' = functions \ {id}
  /\ deployments' = [d \in Deps |-> IF d \in of THEN [deployments[d] EXCEPT !.status = "gone"]
                                    ELSE deployments[d]]
  /\ request' = [request EXCEPT ![q] = [Idle EXCEPT !.pc = "deleteNamespace",
                                                    !.slug = s, !.id = id]]
  /\ quiet' = IF id # 0 /\ \A d \in of : deployments[d].status # "active"
              THEN quiet \cup {id} ELSE quiet
  /\ UNCHANGED <<lastId, lastDep, queue, worker, cluster, removed, fresh>>

\* The row, and by the foreign keys its functions and deployments.
DeleteWorkspace(q, s) ==
  LET id == workspaces[s]
      of == {d \in Deps : deployments[d].id = id}
  IN
  /\ request[q].pc = "idle"
  /\ id # 0
  /\ workspaces' = [workspaces EXCEPT ![s] = 0]
  /\ functions' = functions \ {id}
  /\ deployments' = [d \in Deps |-> IF d \in of THEN [deployments[d] EXCEPT !.status = "gone"]
                                    ELSE deployments[d]]
  /\ request' = [request EXCEPT ![q] = [Idle EXCEPT !.pc = "deleteNamespace",
                                                    !.slug = s, !.id = id]]
  /\ quiet' = IF \A d \in of : deployments[d].status # "active"
              THEN quiet \cup {id} ELSE quiet
  /\ UNCHANGED <<lastId, lastDep, queue, worker, cluster, removed, fresh>>

\* By its name, whosever it is by now.  No namespace is no error.
DeleteNamespace(q) ==
  LET s == request[q].slug IN
  /\ request[q].pc = "deleteNamespace"
  /\ namespace' = IF namespace[s] = "active"
                  THEN [namespace EXCEPT ![s] = "terminating"] ELSE namespace
  /\ removed' = IF request[q].id \in quiet THEN removed \cup {request[q].id} ELSE removed
  /\ request' = [request EXCEPT ![q] = Idle]
  /\ UNCHANGED <<tables, queue, worker, rbac, service, quiet, fresh>>

-----------------------------------------------------------------------------
(* FunctionService.Create and Update, by workspace *)

\* GetWorkspaceBySlug, with the slug in the caller's token.
Resolve(q, s) ==
  /\ request[q].pc = "idle"
  /\ workspaces[s] # 0
  /\ lastDep < MaxDeployments
  /\ request' = [request EXCEPT ![q] = [Idle EXCEPT !.pc = "save", !.slug = s,
                                                    !.id = workspaces[s]]]
  /\ UNCHANGED <<tables, queue, worker, cluster, history>>

\* The function's row refers to the workspace's: an insert or an update, or an
\* error when the workspace is gone.
Save(q) ==
  LET r == request[q] IN
  /\ r.pc = "save"
  /\ IF workspaces[r.slug] = r.id
     THEN /\ functions' = functions \cup {r.id}
          /\ request' = [request EXCEPT ![q].pc = "insert"]
     ELSE /\ request' = [request EXCEPT ![q] = Idle]
          /\ UNCHANGED functions
  /\ UNCHANGED <<workspaces, lastId, deployments, lastDep, queue, worker, cluster, history>>

\* Mutant: without the foreign key on the function.
MutInsertDeployment(q) ==
  LET r == request[q]
      d == lastDep + 1
  IN
  /\ r.pc = "insert"
  /\ lastDep < MaxDeployments
  /\ lastDep' = d
  /\ deployments' = [deployments EXCEPT ![d] = [slug |-> r.slug, id |-> r.id,
                                                status |-> "active"]]
  /\ request' = [request EXCEPT ![q].pc = "publish", ![q].dep = d]
  /\ UNCHANGED <<workspaces, lastId, functions, queue, worker, cluster, history>>

\* The deployment's row refers to the function's.
InsertDeployment(q) ==
  LET r == request[q]
      d == lastDep + 1
  IN
  /\ r.pc = "insert"
  /\ lastDep < MaxDeployments
  /\ IF r.id \in functions
     THEN /\ lastDep' = d
          /\ deployments' = [deployments EXCEPT ![d] = [slug |-> r.slug, id |-> r.id,
                                                        status |-> "active"]]
          /\ request' = [request EXCEPT ![q].pc = "publish", ![q].dep = d]
     ELSE /\ request' = [request EXCEPT ![q] = Idle]
          /\ UNCHANGED <<deployments, lastDep>>
  /\ UNCHANGED <<workspaces, lastId, functions, queue, worker, cluster, history>>

Publish(q) ==
  /\ request[q].pc = "publish"
  /\ message' = [message EXCEPT ![request[q].dep] = "ready"]
  /\ request' = [request EXCEPT ![q] = Idle]
  /\ UNCHANGED <<tables, deliveries, worker, cluster, history>>

\* The request's context is cancelled, a call fails, the process dies.  What was
\* not yet done is not done; only the failed publish leaves a mark.
Abort(q) ==
  LET r == request[q] IN
  /\ r.pc # "idle"
  /\ request' = [request EXCEPT ![q] = Idle]
  /\ deployments' \in IF r.pc = "publish" THEN {deployments, WithStatus(r.dep, "failed")}
                      ELSE {deployments}
  /\ UNCHANGED <<workspaces, lastId, functions, lastDep, queue, worker, cluster, history>>

-----------------------------------------------------------------------------
(* DeployWorker *)

Go(w, pc)   == worker' = [worker EXCEPT ![w].pc = pc]
Error(w)    == worker' = [worker EXCEPT ![w].pc = "settle", ![w].ok = FALSE]
SlugOf(w)   == deployments[worker[w].dep].slug

Fetch(w) ==
  \E d \in Deps :
    /\ worker[w].pc = "fetch"
    /\ message[d] = "ready"
    /\ message' = [message EXCEPT ![d] = "out"]
    /\ deliveries' = [deliveries EXCEPT ![d] = @ + 1]
    /\ worker' = [worker EXCEPT ![w] = [Free EXCEPT !.pc = "getNamespace", !.dep = d]]
    /\ UNCHANGED <<tables, request, cluster, history>>

\* A namespace that is terminating is found like any other.
GetNamespace(w) ==
  /\ worker[w].pc = "getNamespace"
  /\ Go(w, IF namespace[SlugOf(w)] = "absent" THEN "createNamespace" ELSE "rbac")
  /\ UNCHANGED <<tables, queue, request, cluster, history>>

CreateNamespace(w) ==
  LET s == SlugOf(w) IN
  /\ worker[w].pc = "createNamespace"
  /\ IF namespace[s] = "absent"
     THEN namespace' = [namespace EXCEPT ![s] = "active"] /\ Go(w, "rbac")
     ELSE UNCHANGED namespace /\ Error(w)
  /\ UNCHANGED <<tables, queue, request, rbac, service, history>>

\* Nothing can be created in a namespace that is terminating or gone.
EnsureRBAC(w) ==
  LET s == SlugOf(w) IN
  /\ worker[w].pc = "rbac"
  /\ IF s \in rbac \/ namespace[s] = "active"
     THEN rbac' = rbac \cup {s} /\ Go(w, "deploy")
     ELSE UNCHANGED rbac /\ Error(w)
  /\ UNCHANGED <<tables, queue, request, namespace, service, history>>

\* ConfigMap and service: created in an active namespace; in a terminating one
\* updated as long as they are still there.
Deploy(w) ==
  LET s == SlugOf(w) IN
  /\ worker[w].pc = "deploy"
  /\ namespace[s] = "active" \/ (namespace[s] = "terminating" /\ service[s] # 0)
  /\ service' = [service EXCEPT ![s] = deployments[worker[w].dep].id]
  /\ Go(w, "report")
  /\ UNCHANGED <<tables, queue, request, namespace, rbac, history>>

\* A call of the cluster fails, for the namespace's sake or for another.
CallFails(w) ==
  /\ worker[w].pc \in Calls
  /\ Error(w)
  /\ UNCHANGED <<tables, queue, request, cluster, history>>

Report(w) ==
  /\ worker[w].pc = "report"
  /\ deployments' = WithStatus(worker[w].dep, "running")
  /\ worker' = [worker EXCEPT ![w].pc = "settle", ![w].ok = TRUE]
  /\ UNCHANGED <<workspaces, lastId, functions, lastDep, queue, request, cluster, history>>

\* Mutant: a failed attempt is always answered with Nak.
MutSettle(w) ==
  LET d == worker[w].dep IN
  /\ worker[w].pc = "settle"
  /\ message' = [message EXCEPT ![d] = IF worker[w].ok THEN "done" ELSE "ready"]
  /\ worker' = [worker EXCEPT ![w] = Free]
  /\ UNCHANGED <<tables, deliveries, request, cluster, history>>

\* Ack, Nak, or the error's update and Term.
Settle(w) ==
  LET d     == worker[w].dep
      again == ~ worker[w].ok /\ deliveries[d] < MaxDeliver
  IN
  /\ worker[w].pc = "settle"
  /\ deployments' = IF worker[w].ok \/ again THEN deployments ELSE WithStatus(d, "failed")
  /\ message' = [message EXCEPT ![d] = IF again THEN "ready" ELSE "done"]
  /\ worker' = [worker EXCEPT ![w] = Free]
  /\ UNCHANGED <<workspaces, lastId, functions, lastDep, deliveries, request, cluster, history>>

-----------------------------------------------------------------------------
\* The namespace controller: the content in any order, then the namespace.
Collect(s) ==
  /\ namespace[s] = "terminating"
  /\ \/ s \in rbac /\ rbac' = rbac \ {s} /\ UNCHANGED <<namespace, service>>
     \/ service[s] # 0 /\ service' = [service EXCEPT ![s] = 0] /\ UNCHANGED <<namespace, rbac>>
     \/ /\ s \notin rbac /\ service[s] = 0
        /\ namespace' = [namespace EXCEPT ![s] = "absent"]
        /\ UNCHANGED <<rbac, service>>
  /\ UNCHANGED <<tables, queue, request, worker, history>>

Handle(q) ==
  DeleteNamespace(q) \/ Save(q) \/ InsertDeployment(q) \/ Publish(q) \/ Abort(q)

Work(w) ==
  \/ Fetch(w) \/ GetNamespace(w) \/ CreateNamespace(w) \/ EnsureRBAC(w) \/ Deploy(w)
  \/ CallFails(w) \/ Report(w) \/ Settle(w)

Next ==
  \/ \E s \in Slugs :
       \/ CreateWorkspace(s) \/ Collect(s)
       \/ \E q \in Requests : DeleteWorkspace(q, s) \/ Resolve(q, s)
  \/ \E q \in Requests : Handle(q)
  \/ \E w \in Workers : Work(w)

Spec == Init /\ [][Next]_vars

-----------------------------------------------------------------------------
(* Properties. *)

\* Deleting a workspace while none of its deployments is active, and its
\* namespace after the row, removes what it deployed for good: whatever is still
\* there is being collected, and no request that was under way brings it back,
\* because the foreign keys stop it before it publishes.
\* Active deployments do bring it back; sweeps, publishes whose error is not one
\* and acknowledgements that are lost do so too, and are left out of this module.
CleanRemoval ==
  \A s \in Slugs : service[s] \in removed => namespace[s] = "terminating"

\* A workspace that starts with nothing left of its slug keeps what it deploys:
\* a namespace is only deleted by a request that deleted its workspace's row.
StillServed ==
  \A d \in Deps :
    LET dep == deployments[d] IN
    dep.status = "running" /\ dep.id \in fresh =>
      service[dep.slug] = dep.id /\ namespace[dep.slug] = "active"
=============================================================================
