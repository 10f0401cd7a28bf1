-------------------------- MODULE WorkspacesProofs --------------------------
(***************************************************************************)
(* Proofs about Workspaces, for any slugs, requests, workers and bounds.   *)
(*                                                                         *)
(* A request and a worker go on with what they have read while the row of  *)
(* their workspace is deleted and its slug is used again.  The invariant   *)
(* therefore says what each of them can still do: ids are never handed out *)
(* twice and keep their slug, the foreign keys stop a request without its  *)
(* row, and the status of a row tells how far its message has come.        *)
(***************************************************************************)
EXTENDS Workspaces, TLAPS

Status(d) == deployments[d].status

\* Requests about to publish d, workers that have its message in hand.
Publishes(q, d) == request[q].pc = "publish" /\ request[q].dep = d
Executes(w, d)  == worker[w].pc # "fetch" /\ worker[w].dep = d
Succeeded(w)    == worker[w].pc = "settle" /\ worker[w].ok

\* An id is known together with a slug.
Pair(i, s) ==
  \/ workspaces[s] = i
  \/ \E d \in Deps : deployments[d].id = i /\ deployments[d].slug = s
  \/ \E q \in Requests : request[q].id = i /\ request[q].slug = s
  \/ service[s] = i

OneSlug ==
  \A i \in Ids, s \in Slugs :
    Pair(i, s) => i <= lastId /\ \A t \in Slugs : Pair(i, t) => s = t

\* A message is in one hand, and no further than the status of its row tells.
QueueOK ==
  /\ \A d \in Deps :
       /\ d > lastDep => Status(d) = "none" /\ message[d] = "none"
       /\ message[d] = "none" => deliveries[d] = 0
       /\ message[d] = "ready" => deliveries[d] < MaxDeliver /\ Status(d) \in {"active", "gone"}
       /\ \A q \in Requests :
            Publishes(q, d) =>
              /\ message[d] = "none" /\ d <= lastDep
              /\ Status(d) \in {"active", "gone"}
              /\ request[q].slug = deployments[d].slug
              /\ \A p \in Requests : Publishes(p, d) => p = q
       /\ \A w \in Workers :
            Executes(w, d) =>
              /\ message[d] = "out"
              /\ Status(d) \in {"active", "gone"} \/ (Status(d) = "running" /\ Succeeded(w))
              /\ \A v \in Workers : Executes(v, d) => v = w
  /\ \A q \in Requests :
       /\ request[q].pc = "publish" => request[q].dep # 0
       /\ request[q].pc # "idle" => request[q].id # 0

\* What the foreign keys see to.
RowsOK ==
  /\ \A i \in functions : \E s \in Slugs : workspaces[s] = i
  /\ \A d \in Deps :
       /\ Status(d) = "none" <=> deployments[d].id = 0
       /\ Status(d) \in {"active", "running", "failed"}
            => workspaces[deployments[d].slug] = deployments[d].id
       /\ Status(d) = "gone" => \A s \in Slugs : workspaces[s] # deployments[d].id

\* Nothing of a quietly deleted workspace is under way to the cluster.
QuietOK ==
  \A i \in quiet :
    /\ i <= lastId
    /\ \A s \in Slugs : workspaces[s] # i
    /\ \A d \in Deps :
         deployments[d].id = i =>
           /\ message[d] # "ready"
           /\ \A q \in Requests : ~ Publishes(q, d)
           /\ \A w \in Workers : Executes(w, d) => Succeeded(w)

\* A workspace that started undisturbed has its namespace to itself.
FreshOK ==
  /\ \A i \in fresh : i <= lastId
  /\ \A s \in Slugs :
       workspaces[s] \in fresh =>
         /\ \A q \in Requests : request[q].pc = "deleteNamespace" => request[q].slug # s
         /\ namespace[s] # "terminating"
         /\ service[s] \in {0, workspaces[s]}
         /\ \A d \in Deps :
              deployments[d].slug = s =>
                /\ deployments[d].id # workspaces[s] =>
                     /\ message[d] \in {"none", "done"}
                     /\ \A q \in Requests : ~ Publishes(q, d)
                /\ \A w \in Workers :
                     Executes(w, d) /\ (worker[w].pc = "report" \/ Succeeded(w))
                       => service[s] = workspaces[s] /\ namespace[s] = "active"

IInv ==
  /\ TypeOK
  /\ OneSlug
  /\ QueueOK
  /\ RowsOK
  /\ QuietOK
  /\ FreshOK
  /\ CleanRemoval
  /\ StillServed

-----------------------------------------------------------------------------
LEMMA Facts ==
  /\ NoDeployment.slug \in Slugs
  /\ NoDeployment \in [slug : Slugs, id : {0}, status : {"none"}]
  /\ Idle = [pc |-> "idle", slug |-> NoDeployment.slug, id |-> 0, dep |-> 0]
  /\ Free = [pc |-> "fetch", dep |-> 0, ok |-> FALSE]
  /\ MaxWorkspaces \in Nat /\ MaxDeployments \in Nat
  /\ MaxDeliver \in Nat /\ MaxDeliver > 0
  /\ \A i \in Ids : i \in Nat /\ i > 0
  /\ \A d \in Deps : d \in Nat /\ d > 0
  BY WorkspacesAssumption DEF NoDeployment, Idle, Free, Ids, Deps

RequestType ==
  [pc : {"idle", "deleteNamespace", "save", "insert", "publish"},
   slug : Slugs, id : Ids \cup {0}, dep : Deps \cup {0}]
WorkerType ==
  [pc : Calls \cup {"fetch", "report", "settle"}, dep : Deps \cup {0}, ok : BOOLEAN]
DeploymentType ==
  [slug : Slugs, id : Ids \cup {0}, status : {"none", "active", "running", "failed", "gone"}]

\* The parts of TypeOK that concern the tables and the queue, the requests and
\* workers, and the cluster.
TypeTables ==
  /\ workspaces \in [Slugs -> Ids \cup {0}]
  /\ lastId \in Ids \cup {0}
  /\ functions \subseteq Ids
  /\ deployments \in [Deps -> DeploymentType]
  /\ lastDep \in Deps \cup {0}
  /\ removed \subseteq quiet /\ quiet \subseteq Ids /\ fresh \subseteq Ids
TypeQueue ==
  /\ message \in [Deps -> {"none", "ready", "out", "done"}]
  /\ deliveries \in [Deps -> 0..MaxDeliver]
TypeActors ==
  /\ request \in [Requests -> RequestType]
  /\ worker \in [Workers -> WorkerType]
  /\ \A w \in Workers : worker[w].pc # "fetch" => worker[w].dep # 0
TypeCluster ==
  /\ namespace \in [Slugs -> {"absent", "active", "terminating"}]
  /\ service \in [Slugs -> Ids \cup {0}]
  /\ rbac \subseteq Slugs
  /\ \A s \in Slugs : namespace[s] = "absent" => s \notin rbac /\ service[s] = 0

LEMMA TypeParts == TypeOK <=> TypeTables /\ TypeQueue /\ TypeActors /\ TypeCluster
  BY DEF TypeOK, TypeTables, TypeQueue, TypeActors, TypeCluster, RequestType, WorkerType,
         DeploymentType

\* Used as a hypothesis in the form of its prime.
LEMMA TypePartsPrime ==
  TypeOK' <=> TypeTables' /\ TypeQueue' /\ TypeActors' /\ TypeCluster'
  BY DEF TypeOK, TypeTables, TypeQueue, TypeActors, TypeCluster, RequestType, WorkerType,
         DeploymentType

LEMMA InvInit == Init => IInv
<1> SUFFICES ASSUME Init PROVE IInv
  OBVIOUS
<1> USE Facts
<1>1. /\ \A s \in Slugs : workspaces[s] = 0 /\ namespace[s] = "absent" /\ service[s] = 0
      /\ \A d \in Deps : /\ deployments[d] = NoDeployment /\ message[d] = "none"
                         /\ deliveries[d] = 0
      /\ \A q \in Requests : request[q] = Idle
      /\ \A w \in Workers : worker[w] = Free
  BY DEF Init
<1>2. TypeOK
  <2>1. TypeTables
    BY DEF Init, TypeTables, DeploymentType
  <2>2. TypeQueue
    BY DEF Init, TypeQueue
  <2>3. TypeActors
    BY DEF Init, TypeActors, RequestType, WorkerType
  <2>4. TypeCluster
    BY DEF Init, TypeCluster
  <2> QED
    BY <2>1, <2>2, <2>3, <2>4, TypeParts
<1>3. OneSlug
  BY <1>1 DEF OneSlug, Pair
<1>4. QueueOK
  BY <1>1 DEF QueueOK, Publishes, Executes, Status
<1>5. RowsOK
  BY <1>1 DEF Init, RowsOK, Status
<1>6. QuietOK /\ FreshOK /\ CleanRemoval /\ StillServed
  BY <1>1 DEF Init, QuietOK, FreshOK, CleanRemoval, StillServed
<1> QED
  BY <1>2, <1>3, <1>4, <1>5, <1>6 DEF IInv

-----------------------------------------------------------------------------
(* What the invariant says of the types, in the form the steps below use. *)

LEMMA Typed ==
  ASSUME IInv
  PROVE  /\ TypeTables /\ TypeQueue /\ TypeActors /\ TypeCluster
         /\ lastId \in Nat /\ lastDep \in Nat
         /\ \A s \in Slugs : workspaces[s] \in Nat /\ service[s] \in Nat
         /\ \A d \in Deps : /\ deployments[d].slug \in Slugs
                            /\ deployments[d].id \in Ids \cup {0}
                            /\ deliveries[d] \in Nat
         /\ \A q \in Requests : /\ request[q].slug \in Slugs
                                /\ request[q].id \in Ids \cup {0}
                                /\ request[q].dep \in Deps \cup {0}
         /\ \A w \in Workers : worker[w].pc # "fetch" => worker[w].dep \in Deps
         /\ 0 \notin removed /\ 0 \notin quiet /\ 0 \notin fresh /\ 0 \notin functions
<1>1. TypeTables /\ TypeQueue /\ TypeActors /\ TypeCluster
  BY TypeParts DEF IInv
<1> QED
  BY <1>1, Facts DEF TypeTables, TypeQueue, TypeActors, TypeCluster, DeploymentType,
                     RequestType, WorkerType

LEMMA SlugsKept ==
  ASSUME IInv, TypeTables', lastId' >= lastId,
         \A i \in Ids, s \in Slugs : Pair(i, s)' => Pair(i, s)
  PROVE  OneSlug'
  BY Typed, Facts DEF IInv, OneSlug, TypeTables

-----------------------------------------------------------------------------
(* The worker's steps through a deployment. *)

\* A worker goes on within its calls, or from them, without a success.
Moves(w) ==
  /\ worker[w].pc \in Calls
  /\ worker' \in [Workers -> WorkerType]
  /\ \A v \in Workers \ {w} : worker'[v] = worker[v]
  /\ worker'[w].dep = worker[w].dep
  /\ \/ worker'[w].pc \in Calls \cup {"report"}
     \/ worker'[w].pc = "settle" /\ ~ worker'[w].ok
  /\ UNCHANGED <<tables, queue, request, history>>

LEMMA MovesStep ==
  ASSUME IInv, NEW w \in Workers, Moves(w)
  PROVE  TypeTables' /\ TypeQueue' /\ TypeActors' /\ QueueOK' /\ RowsOK' /\ QuietOK'
<1> USE DEF Moves, tables, queue, history
<1>1. TypeTables' /\ TypeQueue'
  BY Typed DEF TypeTables, TypeQueue
<1>2. TypeActors'
  BY Typed DEF TypeActors, Calls
<1>3. /\ \A v \in Workers, d \in Deps : Executes(v, d)' <=> Executes(v, d)
      /\ \A q \in Requests, d \in Deps : Publishes(q, d)' <=> Publishes(q, d)
      /\ \A d \in Deps : Status(d)' = Status(d)
  BY Typed DEF Executes, Publishes, Status, Calls
<1>4. /\ ~ Succeeded(w) /\ ~ Succeeded(w)'
      /\ \A v \in Workers \ {w} : Succeeded(v)' <=> Succeeded(v)
  BY DEF Succeeded, Calls
<1>5. QueueOK'
  <2>1. \A d \in Deps, v \in Workers : Executes(v, d)' =>
          /\ message'[d] = "out"
          /\ Status(d)' \in {"active", "gone"} \/ (Status(d)' = "running" /\ Succeeded(v)')
          /\ \A u \in Workers : Executes(u, d)' => u = v
    BY <1>3, <1>4 DEF IInv, QueueOK
  <2>2. \A d \in Deps, q \in Requests : Publishes(q, d)' =>
          /\ message'[d] = "none" /\ d <= lastDep'
          /\ Status(d)' \in {"active", "gone"}
          /\ request'[q].slug = deployments'[d].slug
          /\ \A p \in Requests : Publishes(p, d)' => p = q
    BY <1>3 DEF IInv, QueueOK
  <2> QED
    BY <1>3, <2>1, <2>2 DEF IInv, QueueOK
<1>6. RowsOK'
  BY <1>3 DEF IInv, RowsOK
<1>7. QuietOK'
  BY <1>3, <1>4 DEF IInv, QuietOK
<1> QED
  BY <1>1, <1>2, <1>5, <1>6, <1>7

\* The namespace may be created meanwhile, the service stays.
LEMMA CallStep ==
  ASSUME IInv, NEW w \in Workers, Moves(w), worker'[w].pc # "report",
         TypeCluster', service' = service,
         \A s \in Slugs : \/ namespace'[s] = namespace[s]
                          \/ namespace[s] = "absent" /\ namespace'[s] = "active"
  PROVE  IInv'
<1>1. TypeTables' /\ TypeQueue' /\ TypeActors' /\ QueueOK' /\ RowsOK' /\ QuietOK'
  BY MovesStep
<1>2. OneSlug'
  <2>1. \A i \in Ids, s \in Slugs : Pair(i, s)' => Pair(i, s)
    BY DEF Pair, Moves, tables
  <2> QED
    BY <1>1, <2>1, SlugsKept, Typed DEF Moves, tables
<1>3. CleanRemoval'
  BY Typed DEF IInv, CleanRemoval, Moves, history, TypeCluster
<1>4. \A d \in Deps, v \in Workers :
        Executes(v, d)' /\ (worker'[v].pc = "report" \/ Succeeded(v)') =>
          Executes(v, d) /\ (worker[v].pc = "report" \/ Succeeded(v))
  BY DEF Executes, Moves, Succeeded, Calls
<1>5. \A q \in Requests, d \in Deps : Publishes(q, d)' <=> Publishes(q, d)
  BY DEF Publishes, Moves
<1>6. FreshOK'
  BY <1>4, <1>5, Typed DEF IInv, FreshOK, Moves, tables, queue, history
<1>7. StillServed'
  BY Typed DEF IInv, StillServed, Moves, tables, history
<1> QED
  BY <1>1, <1>2, <1>3, <1>6, <1>7, TypePartsPrime DEF IInv

LEMMA CallsStep ==
  ASSUME IInv, NEW w \in Workers,
         GetNamespace(w) \/ CreateNamespace(w) \/ EnsureRBAC(w) \/ CallFails(w)
  PROVE  IInv'
<1>1. /\ SlugOf(w) \in Slugs \/ worker[w].pc = "fetch"
      /\ worker \in [Workers -> WorkerType]
  BY Typed DEF SlugOf, TypeActors
<1>2. CASE GetNamespace(w)
  <2>1. Moves(w) /\ worker'[w].pc # "report"
    BY <1>1, <1>2 DEF GetNamespace, Go, Moves, Calls, WorkerType
  <2>2. TypeCluster' /\ UNCHANGED <<service, namespace>>
    BY <1>2, Typed DEF GetNamespace, cluster, TypeCluster
  <2> QED
    BY <2>1, <2>2, CallStep
<1>3. CASE CreateNamespace(w)
  <2>1. Moves(w) /\ worker'[w].pc # "report"
    BY <1>1, <1>3 DEF CreateNamespace, Go, Error, Moves, Calls, WorkerType
  <2>2. /\ service' = service /\ rbac' = rbac
        /\ \/ namespace' = namespace
           \/ namespace[SlugOf(w)] = "absent"
              /\ namespace' = [namespace EXCEPT ![SlugOf(w)] = "active"]
    BY <1>3 DEF CreateNamespace
  <2>3. SlugOf(w) \in Slugs
    BY <1>1, <1>3 DEF CreateNamespace
  <2>4. TypeCluster'
    BY <2>2, <2>3, Typed DEF TypeCluster
  <2> QED
    BY <2>1, <2>2, <2>3, <2>4, CallStep, Typed DEF TypeCluster
<1>4. CASE EnsureRBAC(w)
  <2>1. Moves(w) /\ worker'[w].pc # "report"
    BY <1>1, <1>4 DEF EnsureRBAC, Go, Error, Moves, Calls, WorkerType
  <2>2. /\ UNCHANGED <<service, namespace>>
        /\ \/ rbac' = rbac
           \/ /\ rbac' = rbac \cup {SlugOf(w)}
              /\ SlugOf(w) \in rbac \/ namespace[SlugOf(w)] = "active"
    BY <1>4 DEF EnsureRBAC
  <2>3. SlugOf(w) \in Slugs
    BY <1>1, <1>4 DEF EnsureRBAC
  <2>4. TypeCluster'
    BY <2>2, <2>3, Typed DEF TypeCluster
  <2> QED
    BY <2>1, <2>2, <2>4, CallStep
<1>5. CASE CallFails(w)
  <2>1. Moves(w) /\ worker'[w].pc # "report"
    BY <1>1, <1>5 DEF CallFails, Error, Moves, Calls, WorkerType
  <2>2. TypeCluster' /\ UNCHANGED <<service, namespace>>
    BY <1>5, Typed DEF CallFails, cluster, TypeCluster
  <2> QED
    BY <2>1, <2>2, CallStep
<1> QED
  BY <1>2, <1>3, <1>4, <1>5

LEMMA FetchStep ==
  ASSUME IInv, NEW w \in Workers, Fetch(w)
  PROVE  IInv'
<1> PICK e \in Deps :
      /\ worker[w].pc = "fetch"
      /\ message[e] = "ready"
      /\ message' = [message EXCEPT ![e] = "out"]
      /\ deliveries' = [deliveries EXCEPT ![e] = @ + 1]
      /\ worker' = [worker EXCEPT ![w] = [Free EXCEPT !.pc = "getNamespace", !.dep = e]]
      /\ UNCHANGED <<tables, request, cluster, history>>
  BY DEF Fetch
<1> USE DEF tables, cluster, history
<1>1. /\ worker'[w] = [pc |-> "getNamespace", dep |-> e, ok |-> FALSE]
      /\ \A v \in Workers \ {w} : worker'[v] = worker[v]
      /\ message'[e] = "out"
      /\ \A d \in Deps \ {e} : message'[d] = message[d] /\ deliveries'[d] = deliveries[d]
  BY Typed, Facts DEF TypeActors, TypeQueue
<1>2. deliveries[e] < MaxDeliver
  BY DEF IInv, QueueOK
<1>3. TypeTables' /\ TypeCluster'
  BY Typed DEF TypeTables, TypeCluster
<1>4. TypeQueue'
  BY <1>2, Typed, Facts DEF TypeQueue
<1>5. TypeActors'
  <2>1. worker'[w] \in WorkerType
    <3>1. [pc |-> "getNamespace", dep |-> e, ok |-> FALSE] \in WorkerType
      BY DEF WorkerType, Calls
    <3> QED
      BY <1>1, <3>1
  <2>2. worker' \in [Workers -> WorkerType]
    BY <1>1, <2>1, Typed DEF TypeActors
  <2> QED
    BY <1>1, <2>2, Typed, Facts DEF TypeActors
<1>6. /\ \A d \in Deps : Executes(w, d)' <=> d = e
      /\ \A d \in Deps : ~ Executes(w, d)
      /\ \A v \in Workers \ {w}, d \in Deps : Executes(v, d)' <=> Executes(v, d)
      /\ \A q \in Requests, d \in Deps : Publishes(q, d)' <=> Publishes(q, d)
      /\ \A d \in Deps : Status(d)' = Status(d)
  BY <1>1 DEF Executes, Publishes, Status
<1>7. /\ ~ Succeeded(w)'
      /\ \A v \in Workers \ {w} : Succeeded(v)' <=> Succeeded(v)
  BY <1>1 DEF Succeeded
<1>8. \A q \in Requests : ~ Publishes(q, e)
  BY DEF IInv, QueueOK
<1>9. \A v \in Workers : ~ Executes(v, e)
  BY DEF IInv, QueueOK
<1>10. QueueOK'
  <2>1. \A d \in Deps, v \in Workers : Executes(v, d)' =>
          /\ message'[d] = "out"
          /\ Status(d)' \in {"active", "gone"} \/ (Status(d)' = "running" /\ Succeeded(v)')
          /\ \A u \in Workers : Executes(u, d)' => u = v
    BY <1>1, <1>6, <1>7, <1>9 DEF IInv, QueueOK
  <2>2. \A d \in Deps, q \in Requests : Publishes(q, d)' =>
          /\ message'[d] = "none" /\ d <= lastDep'
          /\ Status(d)' \in {"active", "gone"}
          /\ request'[q].slug = deployments'[d].slug
          /\ \A p \in Requests : Publishes(p, d)' => p = q
    BY <1>1, <1>6, <1>8 DEF IInv, QueueOK
  <2>3. \A d \in Deps :
          /\ d > lastDep' => Status(d)' = "none" /\ message'[d] = "none"
          /\ message'[d] = "none" => deliveries'[d] = 0
          /\ message'[d] = "ready" =>
               deliveries'[d] < MaxDeliver /\ Status(d)' \in {"active", "gone"}
    BY <1>1, <1>6 DEF IInv, QueueOK
  <2> QED
    BY <2>1, <2>2, <2>3 DEF IInv, QueueOK
<1>11. RowsOK'
  BY <1>6 DEF IInv, RowsOK
<1>12. QuietOK'
  BY <1>1, <1>6, <1>7, <1>8 DEF IInv, QuietOK
<1>13. OneSlug'
  <2>1. \A i \in Ids, s \in Slugs : Pair(i, s)' => Pair(i, s)
    BY DEF Pair
  <2> QED
    BY <1>3, <2>1, SlugsKept, Typed
<1>14. FreshOK'
  <2>1. \A v \in Workers, d \in Deps :
          Executes(v, d)' /\ (worker'[v].pc = "report" \/ Succeeded(v)') =>
            Executes(v, d) /\ (worker[v].pc = "report" \/ Succeeded(v))
    BY <1>1, <1>6, <1>7
  <2>2. \A d \in Deps : message[d] \in {"none", "done"} => message'[d] = message[d]
    BY <1>1
  <2> QED
    BY <1>6, <2>1, <2>2 DEF IInv, FreshOK
<1>15. CleanRemoval' /\ StillServed'
  BY DEF IInv, CleanRemoval, StillServed
<1> QED
  BY <1>3, <1>4, <1>5, <1>10, <1>11, <1>12, <1>13, <1>14, <1>15, TypePartsPrime DEF IInv

LEMMA DeployStep ==
  ASSUME IInv, NEW w \in Workers, Deploy(w)
  PROVE  IInv'
<1> DEFINE e == worker[w].dep
           s == deployments[e].slug
<1>1. /\ e \in Deps /\ s \in Slugs /\ Executes(w, e)
      /\ worker \in [Workers -> WorkerType]
      /\ worker[w].pc = "deploy"
  BY Typed DEF Deploy, Executes, TypeActors
<1>2. /\ Moves(w) /\ worker'[w].pc = "report" /\ worker'[w].dep = e
      /\ \A v \in Workers \ {w} : worker'[v] = worker[v]
  BY <1>1 DEF Deploy, Go, Moves, Calls, WorkerType
<1>3. TypeTables' /\ TypeQueue' /\ TypeActors' /\ QueueOK' /\ RowsOK' /\ QuietOK'
  BY <1>2, MovesStep
<1>4. /\ service' = [service EXCEPT ![s] = deployments[e].id]
      /\ UNCHANGED <<tables, queue, request, namespace, rbac, history>>
      /\ namespace[s] # "absent"
      /\ namespace[s] = "active" \/ service[s] # 0
  BY <1>1, Typed DEF Deploy, SlugOf, TypeCluster
<1>5. /\ service'[s] = deployments[e].id
      /\ \A t \in Slugs \ {s} : service'[t] = service[t]
  BY <1>1, <1>4, Typed DEF TypeCluster
<1> USE DEF tables, queue, history
<1>6. TypeCluster'
  BY <1>1, <1>4, Typed DEF TypeCluster
<1>7. OneSlug'
  <2>1. \A i \in Ids, t \in Slugs : Pair(i, t)' => Pair(i, t)
    BY <1>1, <1>4, <1>5 DEF Pair
  <2> QED
    BY <1>3, <1>4, <2>1, SlugsKept, Typed
<1>8. deployments[e].id \notin quiet
  BY <1>1 DEF IInv, QuietOK, Succeeded
<1>9. CleanRemoval'
  BY <1>4, <1>5, <1>8, Typed DEF IInv, CleanRemoval, TypeTables
<1>10. workspaces[s] \in fresh =>
         /\ deployments[e].id = workspaces[s]
         /\ namespace[s] = "active"
  <2>1. message[e] = "out"
    BY <1>1 DEF IInv, QueueOK
  <2> QED
    BY <1>1, <1>4, <2>1, Typed DEF IInv, FreshOK, TypeCluster
<1>11. FreshOK'
  <2>1. \A q \in Requests, d \in Deps : Publishes(q, d)' <=> Publishes(q, d)
    BY <1>4 DEF Publishes
  <2>2. \A v \in Workers, d \in Deps :
          Executes(v, d)' /\ (worker'[v].pc = "report" \/ Succeeded(v)') =>
            \/ Executes(v, d) /\ (worker[v].pc = "report" \/ Succeeded(v))
            \/ d = e
    BY <1>2 DEF Executes, Succeeded
  <2>3. \A t \in Slugs \ {s} : workspaces[t] \in fresh =>
          \A d \in Deps, v \in Workers :
            /\ deployments[d].slug = t
            /\ Executes(v, d)'
            /\ worker'[v].pc = "report" \/ Succeeded(v)'
            => service'[t] = workspaces[t] /\ namespace[t] = "active"
    BY <1>5, <2>2 DEF IInv, FreshOK
  <2>4. \A t \in Slugs : workspaces'[t] \in fresh' =>
          /\ \A q \in Requests : request'[q].pc = "deleteNamespace" => request'[q].slug # t
          /\ namespace'[t] # "terminating"
          /\ service'[t] \in {0, workspaces'[t]}
          /\ \A d \in Deps :
               deployments'[d].slug = t =>
                 /\ deployments'[d].id # workspaces'[t] =>
                      /\ message'[d] \in {"none", "done"}
                      /\ \A q \in Requests : ~ Publishes(q, d)'
                 /\ \A v \in Workers :
                      Executes(v, d)' /\ (worker'[v].pc = "report" \/ Succeeded(v)')
                        => service'[t] = workspaces'[t] /\ namespace'[t] = "active"
    BY <1>4, <1>5, <1>10, <2>1, <2>3 DEF IInv, FreshOK
  <2> QED
    BY <1>4, <2>4 DEF IInv, FreshOK
<1>12. StillServed'
  <2> SUFFICES ASSUME NEW d \in Deps, deployments[d].status = "running",
                      deployments[d].id \in fresh
               PROVE  /\ service'[deployments[d].slug] = deployments[d].id
                      /\ namespace[deployments[d].slug] = "active"
    BY <1>4 DEF StillServed
  <2>1. workspaces[deployments[d].slug] = deployments[d].id
    BY DEF IInv, RowsOK, Status
  <2> QED
    BY <1>5, <1>10, <2>1, Typed DEF IInv, StillServed
<1> QED
  BY <1>3, <1>6, <1>7, <1>9, <1>11, <1>12, TypePartsPrime DEF IInv

\* What becomes of the row of d when it is given a status.
LEMMA StatusWritten ==
  ASSUME IInv, NEW d \in Deps, NEW s \in {"running", "failed"},
         deployments' = WithStatus(d, s),
         Status(d) # "none"
  PROVE  /\ deployments' \in [Deps -> DeploymentType]
         /\ \A e \in Deps : /\ deployments'[e].slug = deployments[e].slug
                            /\ deployments'[e].id = deployments[e].id
         /\ \A e \in Deps \ {d} : Status(e)' = Status(e)
         /\ Status(d)' = IF Status(d) = "gone" THEN "gone" ELSE s
<1>1. deployments \in [Deps -> DeploymentType]
  BY Typed DEF TypeTables
<1>2. CASE Status(d) = "gone"
  BY <1>1, <1>2 DEF WithStatus, Status
<1>3. CASE Status(d) # "gone"
  BY <1>1, <1>3 DEF WithStatus, Status, DeploymentType
<1> QED
  BY <1>2, <1>3

\* The row of d is given a final status, nothing else of the tables changes.
LEMMA RowsKept ==
  ASSUME IInv, NEW d \in Deps, NEW s \in {"running", "failed"},
         Status(d) # "none",
         deployments' = WithStatus(d, s),
         UNCHANGED <<workspaces, lastId, functions, lastDep, history>>
  PROVE  TypeTables' /\ RowsOK'
<1> USE DEF history
<1>1. TypeTables'
  BY StatusWritten, Typed DEF TypeTables
<1>2. \A e \in Deps : /\ deployments'[e].slug = deployments[e].slug
                      /\ deployments'[e].id = deployments[e].id
                      /\ \/ Status(e)' = Status(e)
                         \/ Status(e) \in {"active", "running", "failed"} /\ Status(e)' = s
  BY StatusWritten, Typed DEF TypeTables, DeploymentType, Status
<1>3. RowsOK'
  BY <1>2 DEF IInv, RowsOK
<1> QED
  BY <1>1, <1>3

LEMMA ReportStep ==
  ASSUME IInv, NEW w \in Workers, Report(w)
  PROVE  IInv'
<1> DEFINE e == worker[w].dep
<1>1. /\ e \in Deps /\ Executes(w, e)
      /\ worker \in [Workers -> WorkerType]
      /\ worker[w].pc = "report" /\ ~ Succeeded(w)
      /\ deployments' = WithStatus(e, "running")
      /\ worker' = [worker EXCEPT ![w].pc = "settle", ![w].ok = TRUE]
      /\ UNCHANGED <<workspaces, lastId, functions, lastDep, queue, request, cluster, history>>
  BY Typed DEF Report, Executes, Succeeded, TypeActors
<1>2. message[e] = "out" /\ Status(e) \in {"active", "gone"}
  BY <1>1 DEF IInv, QueueOK
<1>3. TypeTables' /\ RowsOK'
  BY <1>1, <1>2, RowsKept
<1>4. /\ \A d \in Deps : /\ deployments'[d].slug = deployments[d].slug
                         /\ deployments'[d].id = deployments[d].id
      /\ \A d \in Deps \ {e} : Status(d)' = Status(d)
      /\ Status(e)' \in {"running", "gone"}
  BY <1>1, <1>2, StatusWritten
<1> USE DEF queue, cluster, history
<1>5. /\ worker'[w].pc = "settle" /\ worker'[w].ok /\ worker'[w].dep = e
      /\ \A v \in Workers \ {w} : worker'[v] = worker[v]
      /\ worker' \in [Workers -> WorkerType]
  BY <1>1 DEF WorkerType
<1>6. TypeQueue' /\ TypeActors' /\ TypeCluster'
  BY <1>1, <1>5, Typed DEF TypeQueue, TypeActors, TypeCluster
<1>7. /\ \A v \in Workers, d \in Deps : Executes(v, d)' <=> Executes(v, d)
      /\ \A q \in Requests, d \in Deps : Publishes(q, d)' <=> Publishes(q, d)
      /\ Succeeded(w)'
      /\ \A v \in Workers : Succeeded(v) => Succeeded(v)'
      /\ \A v \in Workers \ {w} : Succeeded(v)' => Succeeded(v)
  BY <1>1, <1>5 DEF Executes, Publishes, Succeeded
<1>8. QueueOK'
  <2>1. \A d \in Deps, v \in Workers : Executes(v, d)' =>
          /\ message'[d] = "out"
          /\ Status(d)' \in {"active", "gone"} \/ (Status(d)' = "running" /\ Succeeded(v)')
          /\ \A u \in Workers : Executes(u, d)' => u = v
    BY <1>1, <1>4, <1>7 DEF IInv, QueueOK
  <2>2. \A d \in Deps, q \in Requests : Publishes(q, d)' =>
          /\ message'[d] = "none" /\ d <= lastDep'
          /\ Status(d)' \in {"active", "gone"}
          /\ request'[q].slug = deployments'[d].slug
          /\ \A p \in Requests : Publishes(p, d)' => p = q
    BY <1>1, <1>2, <1>4, <1>7 DEF IInv, QueueOK
  <2>3. \A d \in Deps :
          /\ d > lastDep' => Status(d)' = "none" /\ message'[d] = "none"
          /\ message'[d] = "none" => deliveries'[d] = 0
          /\ message'[d] = "ready" =>
               deliveries'[d] < MaxDeliver /\ Status(d)' \in {"active", "gone"}
    BY <1>1, <1>2, <1>4 DEF IInv, QueueOK
  <2> QED
    BY <1>1, <2>1, <2>2, <2>3 DEF IInv, QueueOK
<1>9. OneSlug'
  <2>1. \A i \in Ids, s \in Slugs : Pair(i, s)' => Pair(i, s)
    BY <1>1, <1>4 DEF Pair
  <2> QED
    BY <1>1, <1>3, <2>1, SlugsKept, Typed
<1>10. QuietOK'
  BY <1>1, <1>4, <1>7 DEF IInv, QuietOK
<1>11. FreshOK'
  <2>1. \A v \in Workers, d \in Deps :
          Executes(v, d)' /\ (worker'[v].pc = "report" \/ Succeeded(v)') =>
            Executes(v, d) /\ (worker[v].pc = "report" \/ Succeeded(v))
    BY <1>1, <1>5, <1>7
  <2> QED
    BY <1>1, <1>4, <1>7, <2>1 DEF IInv, FreshOK
<1>12. CleanRemoval'
  BY <1>1 DEF IInv, CleanRemoval
<1>13. StillServed'
  <2> SUFFICES ASSUME NEW d \in Deps, Status(d)' = "running", deployments[d].id \in fresh
               PROVE  /\ service[deployments[d].slug] = deployments[d].id
                      /\ namespace[deployments[d].slug] = "active"
    BY <1>1, <1>4 DEF StillServed, Status
  <2>1. CASE d = e
    <3>1. workspaces[deployments[e].slug] = deployments[e].id
      BY <1>3, <1>1, <1>4, <2>1 DEF RowsOK, Status
    <3> QED
      BY <1>1, <2>1, <3>1, Typed DEF IInv, FreshOK
  <2>2. CASE d # e
    BY <1>4, <2>2 DEF IInv, StillServed, Status
  <2> QED
    BY <2>1, <2>2
<1> QED
  BY <1>3, <1>6, <1>8, <1>9, <1>10, <1>11, <1>12, <1>13, TypePartsPrime DEF IInv

\* A worker that settles hands the message of d back.
Again(w, d) == ~ worker[w].ok /\ deliveries[d] < MaxDeliver

LEMMA SettleStep ==
  ASSUME IInv, NEW w \in Workers, Settle(w)
  PROVE  IInv'
<1>0. worker[w].dep \in Deps
  BY Typed DEF Settle
<1> PICK e \in Deps : e = worker[w].dep
  BY <1>0
<1>1. /\ Executes(w, e)
      /\ worker \in [Workers -> WorkerType]
      /\ worker[w].pc = "settle"
      /\ Succeeded(w) <=> worker[w].ok
      /\ deployments' = IF worker[w].ok \/ Again(w, e) THEN deployments ELSE WithStatus(e, "failed")
      /\ message' = [message EXCEPT ![e] = IF Again(w, e) THEN "ready" ELSE "done"]
      /\ worker' = [worker EXCEPT ![w] = Free]
      /\ UNCHANGED <<workspaces, lastId, functions, lastDep, deliveries, request, cluster,
                     history>>
  BY Typed DEF Settle, Again, Executes, Succeeded, TypeActors
<1>2. /\ message[e] = "out"
      /\ Status(e) \in {"active", "gone"} \/ (Status(e) = "running" /\ worker[w].ok)
  BY <1>1 DEF IInv, QueueOK
<1>3. /\ TypeTables' /\ RowsOK'
      /\ \A d \in Deps : /\ deployments'[d].slug = deployments[d].slug
                         /\ deployments'[d].id = deployments[d].id
      /\ \A d \in Deps \ {e} : Status(d)' = Status(d)
      /\ Again(w, e) => Status(e)' = Status(e)
      /\ Status(e)' # Status(e) => Status(e)' = "failed"
  <2>1. CASE worker[w].ok \/ Again(w, e)
    BY <1>1, <2>1, Typed DEF IInv, TypeTables, RowsOK, history, Status
  <2>2. CASE ~ (worker[w].ok \/ Again(w, e))
    BY <1>1, <1>2, <2>2, StatusWritten, RowsKept
  <2> QED
    BY <2>1, <2>2
<1> USE DEF cluster, history
<1>4. /\ worker'[w].pc = "fetch"
      /\ \A v \in Workers \ {w} : worker'[v] = worker[v]
      /\ worker' \in [Workers -> WorkerType]
  BY <1>1, Facts DEF WorkerType, Calls
<1>5. /\ message'[e] = IF Again(w, e) THEN "ready" ELSE "done"
      /\ \A d \in Deps \ {e} : message'[d] = message[d]
      /\ message' \in [Deps -> {"none", "ready", "out", "done"}]
  BY <1>1, Typed DEF TypeQueue
<1>6. TypeQueue' /\ TypeActors' /\ TypeCluster'
  BY <1>1, <1>4, <1>5, Typed DEF TypeQueue, TypeActors, TypeCluster
<1>7. /\ \A d \in Deps : ~ Executes(w, d)'
      /\ \A v \in Workers : ~ Executes(v, e)'
      /\ \A v \in Workers, d \in Deps : Executes(v, d)' => Executes(v, d) /\ v # w
      /\ \A q \in Requests, d \in Deps : Publishes(q, d)' <=> Publishes(q, d)
      /\ \A v \in Workers \ {w} : Succeeded(v)' <=> Succeeded(v)
  BY <1>1, <1>4 DEF Executes, Publishes, Succeeded, IInv, QueueOK
<1>8. QueueOK'
  <2>1. \A d \in Deps, v \in Workers : Executes(v, d)' =>
          /\ message'[d] = "out"
          /\ Status(d)' \in {"active", "gone"} \/ (Status(d)' = "running" /\ Succeeded(v)')
          /\ \A u \in Workers : Executes(u, d)' => u = v
    BY <1>3, <1>5, <1>7 DEF IInv, QueueOK
  <2>2. \A d \in Deps, q \in Requests : Publishes(q, d)' =>
          /\ message'[d] = "none" /\ d <= lastDep'
          /\ Status(d)' \in {"active", "gone"}
          /\ request'[q].slug = deployments'[d].slug
          /\ \A p \in Requests : Publishes(p, d)' => p = q
    <3>1. \A q \in Requests : ~ Publishes(q, e)
      BY <1>2 DEF IInv, QueueOK
    <3> QED
      BY <1>1, <1>3, <1>5, <1>7, <3>1 DEF IInv, QueueOK
  <2>3. \A d \in Deps :
          /\ d > lastDep' => Status(d)' = "none" /\ message'[d] = "none"
          /\ message'[d] = "none" => deliveries'[d] = 0
          /\ message'[d] = "ready" =>
               deliveries'[d] < MaxDeliver /\ Status(d)' \in {"active", "gone"}
    <3>1. Again(w, e) => deliveries[e] < MaxDeliver /\ Status(e) \in {"active", "gone"}
      BY <1>2 DEF Again
    <3>2. e <= lastDep
      BY <1>1, <1>2, Typed, Facts DEF IInv, QueueOK
    <3> QED
      BY <1>1, <1>3, <1>5, <3>1, <3>2, Typed, Facts DEF IInv, QueueOK
  <2> QED
    BY <1>1, <2>1, <2>2, <2>3 DEF IInv, QueueOK
<1>9. OneSlug'
  <2>1. \A i \in Ids, s \in Slugs : Pair(i, s)' => Pair(i, s)
    BY <1>1, <1>3 DEF Pair
  <2> QED
    BY <1>1, <1>3, <2>1, SlugsKept, Typed
<1>10. QuietOK'
  <2>1. deployments[e].id \in quiet => ~ Again(w, e)
    BY <1>1 DEF IInv, QuietOK, Again
  <2> QED
    BY <1>1, <1>3, <1>5, <1>7, <2>1 DEF IInv, QuietOK
<1>11. FreshOK'
  <2>1. \A v \in Workers, d \in Deps :
          Executes(v, d)' /\ (worker'[v].pc = "report" \/ Succeeded(v)') =>
            Executes(v, d) /\ (worker[v].pc = "report" \/ Succeeded(v))
    BY <1>4, <1>7
  <2>2. \A d \in Deps : message[d] \in {"none", "done"} => message'[d] = message[d]
    BY <1>2, <1>5
  <2> QED
    BY <1>1, <1>3, <1>7, <2>1, <2>2 DEF IInv, FreshOK
<1>12. CleanRemoval'
  BY <1>1 DEF IInv, CleanRemoval
<1>13. StillServed'
  BY <1>1, <1>3 DEF IInv, StillServed, Status
<1> QED
  BY <1>3, <1>6, <1>8, <1>9, <1>10, <1>11, <1>12, <1>13, TypePartsPrime DEF IInv

-----------------------------------------------------------------------------
(* The steps of the API's requests, and of Kubernetes. *)

\* Of QueueOK, what concerns requests at rest: no step of a request moves a
\* message that a worker has.
LEMMA QueueKept ==
  ASSUME IInv, TypeActors', UNCHANGED <<message, deliveries, worker>>,
         \A d \in Deps : d > lastDep' => Status(d)' = "none" /\ message[d] = "none",
         \A d \in Deps : message[d] \in {"ready", "out"} =>
           Status(d)' = Status(d) \/ Status(d)' = "gone",
         \A q \in Requests, d \in Deps : Publishes(q, d)' =>
           /\ message[d] = "none" /\ d <= lastDep'
           /\ Status(d)' \in {"active", "gone"}
           /\ request'[q].slug = deployments'[d].slug
           /\ \A p \in Requests : Publishes(p, d)' => p = q,
         \A q \in Requests :
           /\ request'[q].pc = "publish" => request'[q].dep # 0
           /\ request'[q].pc # "idle" => request'[q].id # 0
  PROVE  QueueOK'
<1>1. \A v \in Workers, d \in Deps :
        /\ Executes(v, d)' <=> Executes(v, d)
        /\ Succeeded(v)' <=> Succeeded(v)
  BY DEF Executes, Succeeded
<1>2. \A d \in Deps, v \in Workers : Executes(v, d)' =>
        /\ message'[d] = "out"
        /\ Status(d)' \in {"active", "gone"} \/ (Status(d)' = "running" /\ Succeeded(v)')
        /\ \A u \in Workers : Executes(u, d)' => u = v
  BY <1>1 DEF IInv, QueueOK
<1>3. \A d \in Deps :
        /\ d > lastDep' => Status(d)' = "none" /\ message'[d] = "none"
        /\ message'[d] = "none" => deliveries'[d] = 0
        /\ message'[d] = "ready" =>
             deliveries'[d] < MaxDeliver /\ Status(d)' \in {"active", "gone"}
  BY DEF IInv, QueueOK
<1> QED
  BY <1>2, <1>3 DEF QueueOK

LEMMA CreateStep ==
  ASSUME IInv, NEW s \in Slugs, CreateWorkspace(s)
  PROVE  IInv'
<1> PICK i \in Nat : i = lastId + 1
  BY Typed
<1>1. /\ workspaces[s] = 0 /\ i \in Ids /\ lastId' = i
      /\ workspaces' = [workspaces EXCEPT ![s] = i]
      /\ fresh' = fresh \/ (Undisturbed(s) /\ fresh' = fresh \cup {i})
      /\ UNCHANGED <<functions, deployments, lastDep, queue, request, worker, cluster,
                     quiet, removed>>
  BY Typed, Facts DEF CreateWorkspace, Ids
<1>2. /\ workspaces'[s] = i
      /\ \A t \in Slugs \ {s} : workspaces'[t] = workspaces[t]
      /\ i > lastId /\ i \in Nat /\ lastId \in Nat
  BY <1>1, Typed DEF TypeTables
<1> USE DEF queue, cluster
<1>3. TypeTables'
  BY <1>1, Typed DEF TypeTables
<1>4. TypeQueue' /\ TypeActors' /\ TypeCluster'
  BY <1>1, Typed DEF TypeQueue, TypeActors, TypeCluster
<1>5. /\ \A d \in Deps : deployments[d].id # i
      /\ \A q \in Requests : request[q].id # i
      /\ \A t \in Slugs : workspaces[t] # i /\ service[t] # i
      /\ i \notin quiet /\ i \notin fresh
  <2>1. \A t \in Slugs : ~ Pair(i, t)
    BY <1>1, <1>2, Typed DEF IInv, OneSlug
  <2>2. i \notin quiet /\ i \notin fresh
    BY <1>1, <1>2, Typed, Facts DEF IInv, QuietOK, FreshOK, TypeTables
  <2> QED
    BY <2>1, <2>2, Typed DEF Pair
<1>6. OneSlug'
  <2>1. \A t \in Slugs : Pair(i, t)' => t = s
    <3>1. service' = service /\ request' = request /\ deployments' = deployments
      BY <1>1
    <3>2. ASSUME NEW t \in Slugs, t # s PROVE ~ Pair(i, t)'
      BY <1>2, <1>5, <3>1, <3>2 DEF Pair
    <3> QED
      BY <3>2
  <2>2. \A j \in Ids \ {i}, t \in Slugs : Pair(j, t)' => Pair(j, t)
    BY <1>1, <1>2, <1>5 DEF Pair
  <2>3. \A j \in Ids, t \in Slugs : Pair(j, t) => j <= lastId'
    BY <1>1, <1>2, Typed, Facts DEF IInv, OneSlug
  <2>4. ASSUME NEW j \in Ids, NEW t \in Slugs, Pair(j, t)', NEW u \in Slugs
        PROVE  j <= lastId' /\ (Pair(j, u)' => t = u)
    <3>1. CASE j = i
      <4>1. Pair(i, t)' /\ (Pair(j, u)' => Pair(i, u)')
        BY <2>4, <3>1 DEF Pair
      <4> QED
        BY <1>1, <1>2, <2>1, <3>1, <4>1
    <3>2. CASE j # i
      BY <2>2, <2>3, <2>4, <3>2 DEF IInv, OneSlug
    <3> QED
      BY <3>1, <3>2
  <2> QED
    BY <2>4 DEF OneSlug
<1>7. QueueOK'
  BY <1>1 DEF IInv, QueueOK, Publishes, Executes, Status, Succeeded
<1>8. RowsOK'
  BY <1>1, <1>2, <1>5, Typed, Facts DEF IInv, RowsOK, Status, TypeTables, DeploymentType
<1>9. QuietOK'
  <2>1. \A j \in quiet : j <= lastId' /\ \A t \in Slugs : workspaces'[t] # j
    <3>1. \A j \in quiet : j \in Nat /\ j <= lastId /\ \A t \in Slugs : workspaces[t] # j
      BY Typed, Facts DEF IInv, QuietOK, TypeTables
    <3> QED
      BY <1>1, <1>2, <1>5, <3>1
  <2> QED
    BY <1>1, <2>1 DEF IInv, QuietOK, Publishes, Executes, Succeeded
<1>10. FreshOK'
  <2>1. \A j \in fresh' : j <= lastId'
    <3>1. \A j \in fresh : j \in Nat /\ j <= lastId
      BY Typed, Facts DEF IInv, FreshOK, TypeTables
    <3> QED
      BY <1>1, <1>2, <3>1
  <2>2. ASSUME NEW t \in Slugs, t # s, workspaces'[t] \in fresh'
        PROVE  workspaces'[t] = workspaces[t] /\ workspaces[t] \in fresh
    BY <1>1, <1>2, <1>5, <2>2
  <2>3. workspaces'[s] \in fresh' =>
          /\ \A q \in Requests : request[q].pc = "deleteNamespace" => request[q].slug # s
          /\ namespace[s] = "absent" /\ service[s] = 0
          /\ \A d \in Deps :
               deployments[d].slug = s =>
                 /\ message[d] \in {"none", "done"}
                 /\ \A q \in Requests : ~ Publishes(q, d)
                 /\ \A v \in Workers : ~ Executes(v, d)
    <3> SUFFICES ASSUME Undisturbed(s)
                 PROVE  /\ \A q \in Requests :
                             request[q].pc = "deleteNamespace" => request[q].slug # s
                        /\ namespace[s] = "absent" /\ service[s] = 0
                        /\ \A d \in Deps :
                             deployments[d].slug = s =>
                               /\ message[d] \in {"none", "done"}
                               /\ \A q \in Requests : ~ Publishes(q, d)
                               /\ \A v \in Workers : ~ Executes(v, d)
      BY <1>1, <1>2, <1>5
    <3>1. \A q \in Requests : request[q].pc = "deleteNamespace" => request[q].slug # s
      BY DEF Undisturbed, IInv, QueueOK
    <3>2. namespace[s] = "absent" /\ service[s] = 0
      BY Typed DEF Undisturbed, TypeCluster
    <3>3. ASSUME NEW d \in Deps, deployments[d].slug = s
          PROVE  /\ message[d] \in {"none", "done"}
                 /\ \A q \in Requests : ~ Publishes(q, d)
                 /\ \A v \in Workers : ~ Executes(v, d)
      <4>1. message[d] \in {"none", "done"}
        BY <3>3 DEF Undisturbed
      <4>2. \A q \in Requests : ~ Publishes(q, d)
        BY <3>3 DEF Undisturbed, IInv, QueueOK, Publishes
      <4>3. \A v \in Workers : ~ Executes(v, d)
        BY <4>1 DEF IInv, QueueOK
      <4> QED
        BY <4>1, <4>2, <4>3
    <3> QED
      BY <3>1, <3>2, <3>3
  <2>4. /\ \A v \in Workers, d \in Deps : /\ Executes(v, d)' <=> Executes(v, d)
                                          /\ Succeeded(v)' <=> Succeeded(v)
        /\ \A q \in Requests, d \in Deps : Publishes(q, d)' <=> Publishes(q, d)
    BY <1>1 DEF Executes, Succeeded, Publishes
  <2>5. ASSUME NEW t \in Slugs, workspaces'[t] \in fresh'
        PROVE  /\ \A q \in Requests : request'[q].pc = "deleteNamespace" => request'[q].slug # t
               /\ namespace'[t] # "terminating"
               /\ service'[t] \in {0, workspaces'[t]}
               /\ \A d \in Deps :
                    deployments'[d].slug = t =>
                      /\ deployments'[d].id # workspaces'[t] =>
                           /\ message'[d] \in {"none", "done"}
                           /\ \A q \in Requests : ~ Publishes(q, d)'
                      /\ \A v \in Workers :
                           Executes(v, d)' /\ (worker'[v].pc = "report" \/ Succeeded(v)')
                             => service'[t] = workspaces'[t] /\ namespace'[t] = "active"
    <3>1. CASE t = s
      BY <1>1, <2>3, <2>4, <2>5, <3>1
    <3>2. CASE t # s
      BY <1>1, <2>2, <2>4, <2>5, <3>2 DEF IInv, FreshOK
    <3> QED
      BY <3>1, <3>2
  <2> QED
    BY <2>1, <2>5 DEF FreshOK
<1>11. CleanRemoval'
  BY <1>1 DEF IInv, CleanRemoval
<1>12. StillServed'
  BY <1>1, <1>5 DEF IInv, StillServed
<1> QED
  BY <1>3, <1>4, <1>6, <1>7, <1>8, <1>9, <1>10, <1>11, <1>12, TypePartsPrime DEF IInv

\* A request reads, saves or gives up: it is not about to publish or to delete.
LEMMA RequestStep ==
  ASSUME IInv, NEW q \in Requests, NEW r \in RequestType,
         request' = [request EXCEPT ![q] = r],
         r.pc \notin {"publish", "deleteNamespace"},
         r.pc # "idle" => r.id # 0,
         r.id = 0 \/ Pair(r.id, r.slug),
         TypeTables', RowsOK',
         UNCHANGED <<workspaces, lastId, lastDep, queue, worker, cluster, history>>,
         \A d \in Deps :
           /\ deployments'[d].slug = deployments[d].slug
           /\ deployments'[d].id = deployments[d].id
           /\ \/ Status(d)' = Status(d)
              \/ Publishes(q, d) /\ Status(d) # "none" /\ Status(d)' = "failed"
  PROVE  IInv'
<1> USE DEF queue, cluster, history
<1>1. /\ request'[q] = r
      /\ \A p \in Requests \ {q} : request'[p] = request[p]
  BY Typed DEF TypeActors
<1>2. TypeQueue' /\ TypeActors' /\ TypeCluster'
  BY Typed DEF TypeQueue, TypeActors, TypeCluster
<1>3. /\ \A d \in Deps : ~ Publishes(q, d)'
      /\ \A p \in Requests, d \in Deps : Publishes(p, d)' => Publishes(p, d) /\ p # q
      /\ \A v \in Workers, d \in Deps : Executes(v, d)' <=> Executes(v, d)
      /\ \A v \in Workers : Succeeded(v)' <=> Succeeded(v)
  BY <1>1 DEF Publishes, Executes, Succeeded
<1>4. QueueOK'
  <2>1. \A d \in Deps : Publishes(q, d) => message[d] = "none" /\ d <= lastDep
    BY DEF IInv, QueueOK
  <2>2. \A d \in Deps : d > lastDep' => Status(d)' = "none" /\ message[d] = "none"
    BY <2>1, Typed, Facts DEF IInv, QueueOK
  <2>3. \A d \in Deps : message[d] \in {"ready", "out"} => Status(d)' = Status(d)
    BY <2>1
  <2>4. ASSUME NEW p \in Requests, NEW d \in Deps, Publishes(p, d)'
        PROVE  /\ message[d] = "none" /\ d <= lastDep'
               /\ Status(d)' \in {"active", "gone"}
               /\ request'[p].slug = deployments'[d].slug
               /\ \A u \in Requests : Publishes(u, d)' => u = p
    BY <1>1, <1>3, <2>4 DEF IInv, QueueOK
  <2>5. \A p \in Requests :
          /\ request'[p].pc = "publish" => request'[p].dep # 0
          /\ request'[p].pc # "idle" => request'[p].id # 0
    BY <1>1 DEF IInv, QueueOK
  <2> QED
    BY <1>2, <2>2, <2>3, <2>4, <2>5, QueueKept
<1>5. OneSlug'
  <2>1. ASSUME NEW i \in Ids, NEW s \in Slugs, Pair(i, s)'
        PROVE  Pair(i, s)
    <3>1. \A p \in Requests : request'[p].id = i /\ request'[p].slug = s => Pair(i, s)
      BY <1>1, Facts DEF Pair
    <3> QED
      BY <2>1, <3>1 DEF Pair
  <2> QED
    BY <2>1, SlugsKept, Typed
<1>6. QuietOK'
  BY <1>3 DEF IInv, QuietOK
<1>7. FreshOK'
  BY <1>1, <1>3 DEF IInv, FreshOK
<1>8. CleanRemoval'
  BY DEF IInv, CleanRemoval
<1>9. StillServed'
  BY DEF IInv, StillServed, Status
<1> QED
  BY <1>2, <1>4, <1>5, <1>6, <1>7, <1>8, <1>9, TypePartsPrime DEF IInv

LEMMA ResolveStep ==
  ASSUME IInv, NEW q \in Requests, NEW s \in Slugs, Resolve(q, s)
  PROVE  IInv'
<1> DEFINE r == [Idle EXCEPT !.pc = "save", !.slug = s, !.id = workspaces[s]]
<1>1. /\ request' = [request EXCEPT ![q] = r]
      /\ workspaces[s] # 0
      /\ UNCHANGED <<tables, queue, worker, cluster, history>>
  BY DEF Resolve
<1>2. r \in RequestType /\ r.pc = "save" /\ r.slug = s /\ r.id = workspaces[s]
  <2>1. Idle \in RequestType /\ workspaces[s] \in Ids \cup {0}
    BY Facts, Typed DEF RequestType, TypeTables
  <2> QED
    BY <2>1 DEF RequestType
<1> HIDE DEF r
<1>3. r.id # 0 /\ Pair(r.id, r.slug)
  BY <1>1, <1>2 DEF Pair
<1>4. TypeTables' /\ RowsOK'
  BY <1>1, Typed DEF IInv, TypeTables, RowsOK, Status, tables, history
<1>5. \A d \in Deps : deployments'[d] = deployments[d] /\ Status(d)' = Status(d)
  BY <1>1 DEF tables, Status
<1> QED
  BY <1>1, <1>2, <1>3, <1>4, <1>5, RequestStep DEF tables

LEMMA SaveStep ==
  ASSUME IInv, NEW q \in Requests, Save(q)
  PROVE  IInv'
<1>1. /\ request[q].pc = "save" /\ request \in [Requests -> RequestType]
      /\ UNCHANGED <<workspaces, lastId, deployments, lastDep, queue, worker, cluster, history>>
  BY Typed DEF Save, TypeActors
<1>2. \A d \in Deps : deployments'[d] = deployments[d] /\ Status(d)' = Status(d)
  BY <1>1 DEF Status
<1>3. CASE workspaces[request[q].slug] = request[q].id
  <2> DEFINE r == [request[q] EXCEPT !.pc = "insert"]
  <2>1. /\ functions' = functions \cup {request[q].id}
        /\ request' = [request EXCEPT ![q] = r]
    BY <1>3 DEF Save
  <2>2. /\ r \in RequestType /\ r.pc = "insert" /\ r.id = request[q].id
        /\ r.slug = request[q].slug /\ r.slug \in Slugs
    BY <1>1, Typed DEF RequestType
  <2>3. request[q].id # 0
    BY <1>1 DEF IInv, QueueOK
  <2>4. Pair(r.id, r.slug)
    BY <1>3, <2>2 DEF Pair
  <2>5. TypeTables'
    BY <1>1, <2>1, <2>3, Typed DEF TypeTables, history
  <2>6. RowsOK'
    BY <1>1, <1>2, <1>3, <2>1, <2>2 DEF IInv, RowsOK
  <2> HIDE DEF r
  <2> QED
    BY <1>1, <1>2, <2>1, <2>2, <2>3, <2>4, <2>5, <2>6, RequestStep
<1>4. CASE workspaces[request[q].slug] # request[q].id
  <2>1. functions' = functions /\ request' = [request EXCEPT ![q] = Idle]
    BY <1>4 DEF Save
  <2>2. Idle \in RequestType /\ Idle.pc = "idle" /\ Idle.id = 0
    BY Facts DEF RequestType
  <2>3. TypeTables' /\ RowsOK'
    BY <1>1, <1>2, <2>1, Typed DEF IInv, TypeTables, RowsOK, history
  <2> QED
    BY <1>1, <1>2, <2>1, <2>2, <2>3, RequestStep
<1> QED
  BY <1>3, <1>4

LEMMA AbortStep ==
  ASSUME IInv, NEW q \in Requests, Abort(q)
  PROVE  IInv'
<1>1. /\ request' = [request EXCEPT ![q] = Idle]
      /\ request[q].pc = "publish" \/ deployments' = deployments
      /\ deployments' \in {deployments, WithStatus(request[q].dep, "failed")}
      /\ UNCHANGED <<workspaces, lastId, functions, lastDep, queue, worker, cluster, history>>
  BY DEF Abort
<1>2. Idle \in RequestType /\ Idle.pc = "idle" /\ Idle.id = 0
  BY Facts DEF RequestType
<1>3. CASE deployments' = deployments
  <2>1. \A d \in Deps : deployments'[d] = deployments[d] /\ Status(d)' = Status(d)
    BY <1>3 DEF Status
  <2>2. TypeTables' /\ RowsOK'
    BY <1>1, <1>3, <2>1, Typed DEF IInv, TypeTables, RowsOK, history
  <2> QED
    BY <1>1, <1>2, <2>1, <2>2, RequestStep
<1>4. CASE deployments' # deployments
  <2>0. request[q].pc = "publish" /\ request[q].dep \in Deps
    BY <1>1, <1>4, Typed DEF IInv, QueueOK
  <2> PICK e \in Deps : e = request[q].dep
    BY <2>0
  <2>1. Publishes(q, e) /\ deployments' = WithStatus(e, "failed")
    BY <1>1, <1>4, <2>0 DEF Publishes
  <2>2. Status(e) \in {"active", "gone"}
    BY <2>1 DEF IInv, QueueOK
  <2>3. /\ \A d \in Deps : /\ deployments'[d].slug = deployments[d].slug
                           /\ deployments'[d].id = deployments[d].id
        /\ \A d \in Deps \ {e} : Status(d)' = Status(d)
        /\ Status(e)' = Status(e) \/ Status(e)' = "failed"
    BY <2>1, <2>2, StatusWritten
  <2>4. TypeTables' /\ RowsOK'
    BY <1>1, <2>1, <2>2, RowsKept
  <2> QED
    BY <1>1, <1>2, <2>1, <2>2, <2>3, <2>4, RequestStep
<1> QED
  BY <1>3, <1>4

LEMMA PublishStep ==
  ASSUME IInv, NEW q \in Requests, Publish(q)
  PROVE  IInv'
<1>0. request[q].pc = "publish" /\ request[q].dep \in Deps
  BY Typed DEF Publish, IInv, QueueOK
<1> PICK e \in Deps : e = request[q].dep
  BY <1>0
<1>1. /\ Publishes(q, e)
      /\ message' = [message EXCEPT ![e] = "ready"]
      /\ request' = [request EXCEPT ![q] = Idle]
      /\ UNCHANGED <<tables, deliveries, worker, cluster, history>>
  BY <1>0 DEF Publish, Publishes
<1> USE DEF tables, cluster, history
<1>2. /\ message'[e] = "ready"
      /\ \A d \in Deps \ {e} : message'[d] = message[d]
      /\ request'[q].pc = "idle" /\ request'[q].id = 0
      /\ \A p \in Requests \ {q} : request'[p] = request[p]
  BY <1>1, Typed, Facts DEF TypeQueue, TypeActors
<1>3. /\ message[e] = "none" /\ e <= lastDep /\ Status(e) \in {"active", "gone"}
      /\ request[q].slug = deployments[e].slug
      /\ \A p \in Requests : Publishes(p, e) => p = q
      /\ deliveries[e] = 0
      /\ \A v \in Workers : ~ Executes(v, e)
  BY <1>1 DEF IInv, QueueOK
<1>4. TypeTables' /\ TypeCluster' /\ TypeQueue'
  BY <1>1, Typed DEF TypeTables, TypeCluster, TypeQueue
<1>5. TypeActors'
  <2>1. Idle \in RequestType
    BY Facts DEF RequestType
  <2> QED
    BY <1>1, <2>1, Typed DEF TypeActors
<1>6. /\ \A d \in Deps : ~ Publishes(q, d)'
      /\ \A p \in Requests, d \in Deps : Publishes(p, d)' => Publishes(p, d) /\ p # q /\ d # e
      /\ \A v \in Workers, d \in Deps : Executes(v, d)' <=> Executes(v, d)
      /\ \A v \in Workers : Succeeded(v)' <=> Succeeded(v)
      /\ \A d \in Deps : Status(d)' = Status(d)
  BY <1>1, <1>2, <1>3 DEF Publishes, Executes, Succeeded, Status
<1>7. QueueOK'
  <2>1. \A d \in Deps, v \in Workers : Executes(v, d)' =>
          /\ message'[d] = "out"
          /\ Status(d)' \in {"active", "gone"} \/ (Status(d)' = "running" /\ Succeeded(v)')
          /\ \A u \in Workers : Executes(u, d)' => u = v
    BY <1>2, <1>3, <1>6 DEF IInv, QueueOK
  <2>2. \A d \in Deps, p \in Requests : Publishes(p, d)' =>
          /\ message'[d] = "none" /\ d <= lastDep'
          /\ Status(d)' \in {"active", "gone"}
          /\ request'[p].slug = deployments'[d].slug
          /\ \A u \in Requests : Publishes(u, d)' => u = p
    BY <1>1, <1>2, <1>6 DEF IInv, QueueOK
  <2>3. \A d \in Deps :
          /\ d > lastDep' => Status(d)' = "none" /\ message'[d] = "none"
          /\ message'[d] = "none" => deliveries'[d] = 0
          /\ message'[d] = "ready" =>
               deliveries'[d] < MaxDeliver /\ Status(d)' \in {"active", "gone"}
    BY <1>1, <1>2, <1>3, <1>6, Typed, Facts DEF IInv, QueueOK
  <2>4. \A p \in Requests :
          /\ request'[p].pc = "publish" => request'[p].dep # 0
          /\ request'[p].pc # "idle" => request'[p].id # 0
    BY <1>2 DEF IInv, QueueOK
  <2> QED
    BY <2>1, <2>2, <2>3, <2>4 DEF QueueOK
<1>8. OneSlug'
  <2>1. \A i \in Ids, s \in Slugs : Pair(i, s)' => Pair(i, s)
    BY <1>1, <1>2, Facts DEF Pair
  <2> QED
    BY <1>1, <1>4, <2>1, SlugsKept, Typed
<1>9. RowsOK'
  BY <1>1, <1>6 DEF IInv, RowsOK
<1>10. QuietOK'
  <2>1. deployments[e].id \notin quiet
    BY <1>1 DEF IInv, QuietOK
  <2> QED
    BY <1>1, <1>2, <1>6, <2>1 DEF IInv, QuietOK
<1>11. FreshOK'
  <2>1. workspaces[deployments[e].slug] \in fresh =>
          deployments[e].id = workspaces[deployments[e].slug]
    BY <1>1, Typed DEF IInv, FreshOK
  <2> QED
    BY <1>1, <1>2, <1>6, <2>1 DEF IInv, FreshOK
<1>12. CleanRemoval' /\ StillServed'
  BY <1>1 DEF IInv, CleanRemoval, StillServed
<1> QED
  BY <1>4, <1>5, <1>7, <1>8, <1>9, <1>10, <1>11, <1>12, TypePartsPrime DEF IInv

LEMMA InsertStep ==
  ASSUME IInv, NEW q \in Requests, InsertDeployment(q)
  PROVE  IInv'
<1>1. /\ request[q].pc = "insert" /\ lastDep < MaxDeployments
      /\ UNCHANGED <<workspaces, lastId, functions, queue, worker, cluster, history>>
  BY DEF InsertDeployment
<1>2. CASE request[q].id \notin functions
  <2>1. request' = [request EXCEPT ![q] = Idle] /\ UNCHANGED <<deployments, lastDep>>
    BY <1>2 DEF InsertDeployment
  <2>2. Idle \in RequestType /\ Idle.pc = "idle" /\ Idle.id = 0
    BY Facts DEF RequestType
  <2>3. \A d \in Deps : deployments'[d] = deployments[d] /\ Status(d)' = Status(d)
    BY <2>1 DEF Status
  <2>4. TypeTables' /\ RowsOK'
    BY <1>1, <2>1, <2>3, Typed DEF IInv, TypeTables, RowsOK, history
  <2> QED
    BY <1>1, <2>1, <2>2, <2>3, <2>4, RequestStep
<1>3. CASE request[q].id \in functions
  <2>0. lastDep + 1 \in Deps
    BY <1>1, Typed, Facts DEF Deps
  <2> PICK e \in Deps : e = lastDep + 1
    BY <2>0
  <2> PICK s \in Slugs, i \in Ids : s = request[q].slug /\ i = request[q].id
    BY <1>3, Typed DEF TypeTables
  <2>1. /\ lastDep' = e
        /\ deployments' = [deployments EXCEPT ![e] = [slug |-> s, id |-> i,
                                                      status |-> "active"]]
        /\ request' = [request EXCEPT ![q].pc = "publish", ![q].dep = e]
    BY <1>3 DEF InsertDeployment
  <2>2. /\ deployments'[e].slug = s /\ deployments'[e].id = i /\ Status(e)' = "active"
        /\ \A d \in Deps \ {e} : deployments'[d] = deployments[d] /\ Status(d)' = Status(d)
        /\ deployments' \in [Deps -> DeploymentType]
    BY <2>1, Typed DEF TypeTables, Status, DeploymentType
  <2>3. /\ request'[q].pc = "publish" /\ request'[q].dep = e
        /\ request'[q].slug = s /\ request'[q].id = i
        /\ \A p \in Requests \ {q} : request'[p] = request[p]
        /\ request' \in [Requests -> RequestType]
    <3>1. request \in [Requests -> RequestType]
      BY Typed DEF TypeActors
    <3>2. [request[q] EXCEPT !.pc = "publish", !.dep = e] \in RequestType
      BY <3>1 DEF RequestType
    <3>3. request' = [request EXCEPT ![q] = [request[q] EXCEPT !.pc = "publish", !.dep = e]]
      BY <2>1, <3>1 DEF RequestType
    <3> QED
      BY <3>1, <3>2, <3>3 DEF RequestType
  <2>4. /\ Status(e) = "none" /\ message[e] = "none" /\ i # 0
        /\ \A p \in Requests : ~ Publishes(p, e)
        /\ \A v \in Workers : ~ Executes(v, e)
    BY Typed, Facts DEF IInv, QueueOK
  <2> USE DEF queue, cluster, history
  <2>5. TypeTables'
    BY <1>1, <2>1, <2>2, Typed DEF TypeTables
  <2>6. TypeQueue' /\ TypeActors' /\ TypeCluster'
    BY <1>1, <2>3, Typed DEF TypeQueue, TypeActors, TypeCluster
  <2>7. /\ \A d \in Deps : Publishes(q, d)' <=> d = e
        /\ \A p \in Requests \ {q}, d \in Deps : Publishes(p, d)' <=> Publishes(p, d)
        /\ \A v \in Workers, d \in Deps : Executes(v, d)' <=> Executes(v, d)
        /\ \A v \in Workers : Succeeded(v)' <=> Succeeded(v)
        /\ \A d \in Deps : ~ Publishes(q, d)
    BY <1>1, <2>3 DEF Publishes, Executes, Succeeded
  <2>8. workspaces[s] = i
    <3>1. PICK t \in Slugs : workspaces[t] = i
      BY <1>3 DEF IInv, RowsOK
    <3>2. Pair(i, t) /\ Pair(i, s)
      BY <3>1 DEF Pair
    <3> QED
      BY <3>1, <3>2 DEF IInv, OneSlug
  <2>9. QueueOK'
    <3>1. \A d \in Deps : d > lastDep' => Status(d)' = "none" /\ message[d] = "none"
      BY <2>1, <2>2, Typed, Facts DEF IInv, QueueOK
    <3>2. \A d \in Deps : message[d] \in {"ready", "out"} => Status(d)' = Status(d)
      BY <2>2, <2>4
    <3>3. ASSUME NEW p \in Requests, NEW d \in Deps, Publishes(p, d)'
          PROVE  /\ message[d] = "none" /\ d <= lastDep'
                 /\ Status(d)' \in {"active", "gone"}
                 /\ request'[p].slug = deployments'[d].slug
                 /\ \A u \in Requests : Publishes(u, d)' => u = p
      <4>1. CASE p = q
        BY <2>1, <2>2, <2>3, <2>4, <2>7, <3>3, <4>1, Typed, Facts
      <4>2. CASE p # q
        <5>1. Publishes(p, d) /\ d # e
          BY <2>4, <2>7, <3>3, <4>2
        <5>2. /\ message[d] = "none" /\ d <= lastDep
              /\ Status(d) \in {"active", "gone"}
              /\ request[p].slug = deployments[d].slug
              /\ \A u \in Requests : Publishes(u, d) => u = p
          BY <5>1 DEF IInv, QueueOK
        <5> QED
          BY <2>1, <2>2, <2>3, <2>7, <4>2, <5>1, <5>2, Typed, Facts
      <4> QED
        BY <4>1, <4>2
    <3>4. \A p \in Requests :
            /\ request'[p].pc = "publish" => request'[p].dep # 0
            /\ request'[p].pc # "idle" => request'[p].id # 0
      BY <2>3, <2>4, Facts DEF IInv, QueueOK
    <3> QED
      BY <1>1, <2>6, <3>1, <3>2, <3>3, <3>4, QueueKept
  <2>10. RowsOK'
    BY <1>1, <2>2, <2>4, <2>8 DEF IInv, RowsOK
  <2>11. OneSlug'
    <3>1. ASSUME NEW j \in Ids, NEW t \in Slugs, Pair(j, t)'
          PROVE  Pair(j, t)
      <4>1. Pair(i, s)
        BY <2>8 DEF Pair
      <4>2. \A p \in Requests : request'[p].id = j /\ request'[p].slug = t => Pair(j, t)
        BY <2>3, <4>1 DEF Pair
      <4>3. \A d \in Deps :
              deployments'[d].id = j /\ deployments'[d].slug = t => Pair(j, t)
        BY <2>2, <4>1 DEF Pair
      <4> QED
        BY <1>1, <3>1, <4>2, <4>3 DEF Pair
    <3> QED
      BY <1>1, <2>5, <3>1, SlugsKept, Typed
  <2>12. QuietOK'
    <3>1. i \notin quiet
      BY <2>8 DEF IInv, QuietOK
    <3> QED
      BY <1>1, <2>2, <2>7, <3>1 DEF IInv, QuietOK
  <2>13. FreshOK'
    <3>1. \A d \in Deps :
            \/ d = e
            \/ /\ deployments'[d] = deployments[d]
               /\ \A p \in Requests : Publishes(p, d)' => Publishes(p, d)
      BY <2>2, <2>7
    <3>2. ASSUME NEW t \in Slugs, workspaces[t] \in fresh
          PROVE  /\ \A p \in Requests : request'[p].pc = "deleteNamespace" => request'[p].slug # t
                 /\ namespace[t] # "terminating"
                 /\ service[t] \in {0, workspaces[t]}
                 /\ \A d \in Deps :
                      deployments'[d].slug = t =>
                        /\ deployments'[d].id # workspaces[t] =>
                             /\ message[d] \in {"none", "done"}
                             /\ \A p \in Requests : ~ Publishes(p, d)'
                        /\ \A v \in Workers :
                             Executes(v, d) /\ (worker[v].pc = "report" \/ Succeeded(v))
                               => service[t] = workspaces[t] /\ namespace[t] = "active"
      <4>1. /\ \A p \in Requests : request'[p].pc = "deleteNamespace" => request'[p].slug # t
            /\ namespace[t] # "terminating"
            /\ service[t] \in {0, workspaces[t]}
        BY <2>3, <3>2 DEF IInv, FreshOK
      <4>2. ASSUME NEW d \in Deps, deployments'[d].slug = t
            PROVE  /\ deployments'[d].id # workspaces[t] =>
                        /\ message[d] \in {"none", "done"}
                        /\ \A p \in Requests : ~ Publishes(p, d)'
                   /\ \A v \in Workers :
                        Executes(v, d) /\ (worker[v].pc = "report" \/ Succeeded(v))
                          => service[t] = workspaces[t] /\ namespace[t] = "active"
        <5>1. CASE d = e
          BY <2>2, <2>4, <2>8, <4>2, <5>1
        <5>2. CASE d # e
          BY <3>1, <3>2, <4>2, <5>2 DEF IInv, FreshOK
        <5> QED
          BY <5>1, <5>2
      <4> QED
        BY <4>1, <4>2
    <3> QED
      BY <1>1, <2>7, <3>2 DEF IInv, FreshOK
  <2>14. CleanRemoval'
    BY <1>1 DEF IInv, CleanRemoval
  <2>15. StillServed'
    BY <1>1, <2>2 DEF IInv, StillServed, Status
  <2> QED
    BY <2>5, <2>6, <2>9, <2>10, <2>11, <2>12, <2>13, <2>14, <2>15, TypePartsPrime DEF IInv
<1> QED
  BY <1>2, <1>3

LEMMA DeleteNamespaceStep ==
  ASSUME IInv, NEW q \in Requests, DeleteNamespace(q)
  PROVE  IInv'
<1> PICK s \in Slugs, i \in Ids : s = request[q].slug /\ i = request[q].id
  BY Typed DEF DeleteNamespace, IInv, QueueOK
<1>1. /\ request[q].pc = "deleteNamespace"
      /\ namespace' = IF namespace[s] = "active"
                      THEN [namespace EXCEPT ![s] = "terminating"] ELSE namespace
      /\ removed' = IF i \in quiet THEN removed \cup {i} ELSE removed
      /\ request' = [request EXCEPT ![q] = Idle]
      /\ UNCHANGED <<tables, queue, worker, rbac, service, quiet, fresh>>
  BY DEF DeleteNamespace
<1> USE DEF tables, queue
<1>2. /\ request'[q] = Idle /\ Idle.pc = "idle" /\ Idle.id = 0 /\ Idle \in RequestType
      /\ \A p \in Requests \ {q} : request'[p] = request[p]
  BY <1>1, Typed, Facts DEF TypeActors, RequestType
<1>3. TypeTables' /\ TypeQueue'
  BY <1>1, Typed DEF TypeTables, TypeQueue
<1>4. TypeActors'
  BY <1>1, <1>2, Typed DEF TypeActors
<1>5. TypeCluster'
  BY <1>1, Typed DEF TypeCluster
<1>6. /\ \A d \in Deps : ~ Publishes(q, d)'
      /\ \A p \in Requests, d \in Deps : Publishes(p, d)' => Publishes(p, d) /\ p # q
      /\ \A v \in Workers, d \in Deps : Executes(v, d)' <=> Executes(v, d)
      /\ \A v \in Workers : Succeeded(v)' <=> Succeeded(v)
      /\ \A d \in Deps : Status(d)' = Status(d)
  BY <1>1, <1>2 DEF Publishes, Executes, Succeeded, Status
<1>7. QueueOK'
  <2>1. ASSUME NEW p \in Requests, NEW d \in Deps, Publishes(p, d)'
        PROVE  /\ message[d] = "none" /\ d <= lastDep'
               /\ Status(d)' \in {"active", "gone"}
               /\ request'[p].slug = deployments'[d].slug
               /\ \A u \in Requests : Publishes(u, d)' => u = p
    BY <1>1, <1>2, <1>6, <2>1 DEF IInv, QueueOK
  <2>2. \A p \in Requests :
          /\ request'[p].pc = "publish" => request'[p].dep # 0
          /\ request'[p].pc # "idle" => request'[p].id # 0
    BY <1>2 DEF IInv, QueueOK
  <2>3. \A d \in Deps : d > lastDep' => Status(d)' = "none" /\ message[d] = "none"
    BY <1>1, <1>6 DEF IInv, QueueOK
  <2> QED
    BY <1>1, <1>4, <1>6, <2>1, <2>2, <2>3, QueueKept
<1>8. OneSlug'
  <2>1. ASSUME NEW j \in Ids, NEW t \in Slugs, Pair(j, t)'
        PROVE  Pair(j, t)
    <3>1. \A p \in Requests : request'[p].id = j /\ request'[p].slug = t => Pair(j, t)
      BY <1>2, Facts DEF Pair
    <3> QED
      BY <1>1, <2>1, <3>1 DEF Pair
  <2> QED
    BY <1>1, <1>3, <2>1, SlugsKept, Typed
<1>9. RowsOK'
  BY <1>1, <1>6 DEF IInv, RowsOK
<1>10. QuietOK'
  BY <1>1, <1>6 DEF IInv, QuietOK
<1>11. FreshOK'
  <2>1. workspaces[s] \notin fresh
    BY <1>1 DEF IInv, FreshOK
  <2>2. \A t \in Slugs : namespace'[t] = namespace[t] \/ t = s
    BY <1>1, Typed DEF TypeCluster
  <2> QED
    BY <1>1, <1>2, <1>6, <2>1, <2>2 DEF IInv, FreshOK
<1>12. CleanRemoval'
  <2>1. \A t \in Slugs : namespace[t] = "terminating" => namespace'[t] = "terminating"
    BY <1>1, Typed DEF TypeCluster
  <2>2. ASSUME NEW t \in Slugs, service[t] = i
        PROVE  namespace'[t] = "terminating"
    <3>1. Pair(i, s) /\ Pair(i, t)
      BY <2>2 DEF Pair
    <3>2. t = s
      BY <3>1 DEF IInv, OneSlug
    <3>3. namespace[s] # "absent"
      BY <2>2, <3>2, Typed, Facts DEF TypeCluster
    <3> QED
      BY <1>1, <3>2, <3>3, Typed DEF TypeCluster
  <2> QED
    BY <1>1, <2>1, <2>2 DEF IInv, CleanRemoval
<1>13. StillServed'
  <2> SUFFICES ASSUME NEW d \in Deps, Status(d) = "running", deployments[d].id \in fresh
               PROVE  /\ service[deployments[d].slug] = deployments[d].id
                      /\ namespace'[deployments[d].slug] = "active"
    BY <1>1 DEF StillServed, Status
  <2>1. workspaces[deployments[d].slug] = deployments[d].id /\ deployments[d].slug \in Slugs
    BY Typed DEF IInv, RowsOK
  <2>2. deployments[d].slug # s
    BY <1>1, <2>1 DEF IInv, FreshOK
  <2> QED
    BY <1>1, <2>1, <2>2, Typed DEF IInv, StillServed, Status, TypeCluster
<1> QED
  BY <1>3, <1>4, <1>5, <1>7, <1>8, <1>9, <1>10, <1>11, <1>12, <1>13, TypePartsPrime DEF IInv

\* The rows of a workspace go, and with them whatever was still to come of them.
LEMMA DeleteWorkspaceStep ==
  ASSUME IInv, NEW q \in Requests, NEW s \in Slugs, DeleteWorkspace(q, s)
  PROVE  IInv'
<1> PICK i \in Ids : i = workspaces[s]
  BY Typed DEF DeleteWorkspace, TypeTables
<1> DEFINE r == [Idle EXCEPT !.pc = "deleteNamespace", !.slug = s, !.id = i]
<1>1. /\ request[q].pc = "idle"
      /\ workspaces' = [workspaces EXCEPT ![s] = 0]
      /\ functions' = functions \ {i}
      /\ deployments' = [d \in Deps |-> IF deployments[d].id = i
                                        THEN [deployments[d] EXCEPT !.status = "gone"]
                                        ELSE deployments[d]]
      /\ \/ quiet' = quiet
         \/ /\ quiet' = quiet \cup {i}
            /\ \A d \in Deps : deployments[d].id = i => Status(d) # "active"
      /\ UNCHANGED <<lastId, lastDep, queue, worker, cluster, removed, fresh>>
  BY DEF DeleteWorkspace, Status
<1>2. /\ request' = [request EXCEPT ![q] = r]
      /\ r \in RequestType /\ r.pc = "deleteNamespace" /\ r.slug = s /\ r.id = i
  <2>1. Idle \in RequestType
    BY Facts DEF RequestType
  <2> QED
    BY <2>1 DEF DeleteWorkspace, RequestType
<1> HIDE DEF r
<1>3. /\ request'[q] = r
      /\ \A p \in Requests \ {q} : request'[p] = request[p]
      /\ request' \in [Requests -> RequestType]
  BY <1>2, Typed DEF TypeActors
<1> USE DEF queue, cluster
<1>4. /\ workspaces'[s] = 0
      /\ \A t \in Slugs \ {s} : workspaces'[t] = workspaces[t]
  BY <1>1, Typed DEF TypeTables
<1>5. ASSUME NEW d \in Deps
      PROVE  /\ deployments'[d].slug = deployments[d].slug
             /\ deployments'[d].id = deployments[d].id
             /\ Status(d)' = IF deployments[d].id = i THEN "gone" ELSE Status(d)
             /\ deployments'[d] \in DeploymentType
  BY <1>1, Typed DEF TypeTables, DeploymentType, Status
<1>6. TypeTables'
  <2>1. deployments' \in [Deps -> DeploymentType]
    BY <1>1, <1>5
  <2> QED
    BY <1>1, <2>1, Typed DEF TypeTables
<1>7. TypeQueue' /\ TypeActors' /\ TypeCluster'
  BY <1>1, <1>3, Typed DEF TypeQueue, TypeActors, TypeCluster
<1>8. /\ \A p \in Requests, d \in Deps : Publishes(p, d)' <=> Publishes(p, d)
      /\ \A v \in Workers, d \in Deps : Executes(v, d)' <=> Executes(v, d)
      /\ \A v \in Workers : Succeeded(v)' <=> Succeeded(v)
  BY <1>1, <1>2, <1>3 DEF Publishes, Executes, Succeeded
<1>9. \A t \in Slugs : workspaces[t] = i => t = s
  <2>1. ASSUME NEW t \in Slugs, workspaces[t] = i PROVE t = s
    <3>1. Pair(i, t) /\ Pair(i, s)
      BY <2>1 DEF Pair
    <3> QED
      BY <3>1 DEF IInv, OneSlug
  <2> QED
    BY <2>1
<1>10. \A d \in Deps : deployments[d].id = i => Status(d) \in {"active", "running", "failed"}
  BY Typed, Facts DEF IInv, RowsOK, Status, TypeTables, DeploymentType
<1>11. QueueOK'
  <2>1. \A d \in Deps : d > lastDep' => Status(d)' = "none" /\ message[d] = "none"
    BY <1>1, <1>5, <1>10 DEF IInv, QueueOK
  <2>2. \A d \in Deps : message[d] \in {"ready", "out"} =>
          Status(d)' = Status(d) \/ Status(d)' = "gone"
    BY <1>5
  <2>3. ASSUME NEW p \in Requests, NEW d \in Deps, Publishes(p, d)'
        PROVE  /\ message[d] = "none" /\ d <= lastDep'
               /\ Status(d)' \in {"active", "gone"}
               /\ request'[p].slug = deployments'[d].slug
               /\ \A u \in Requests : Publishes(u, d)' => u = p
    <3>1. Publishes(p, d) /\ p # q
      BY <1>1, <1>8, <2>3 DEF Publishes
    <3>2. /\ message[d] = "none" /\ d <= lastDep
          /\ Status(d) \in {"active", "gone"}
          /\ request[p].slug = deployments[d].slug
          /\ \A u \in Requests : Publishes(u, d) => u = p
      BY <3>1 DEF IInv, QueueOK
    <3> QED
      BY <1>1, <1>3, <1>5, <1>8, <3>1, <3>2
  <2>4. \A p \in Requests :
          /\ request'[p].pc = "publish" => request'[p].dep # 0
          /\ request'[p].pc # "idle" => request'[p].id # 0
    BY <1>2, <1>3, Facts DEF IInv, QueueOK
  <2> QED
    BY <1>1, <1>7, <2>1, <2>2, <2>3, <2>4, QueueKept
<1>12. OneSlug'
  <2>1. ASSUME NEW j \in Ids, NEW t \in Slugs, Pair(j, t)'
        PROVE  Pair(j, t)
    <3>1. \A p \in Requests : request'[p].id = j /\ request'[p].slug = t => Pair(j, t)
      BY <1>2, <1>3 DEF Pair
    <3>2. workspaces'[t] = j => workspaces[t] = j
      BY <1>4, Facts
    <3> QED
      BY <1>1, <1>5, <2>1, <3>1, <3>2 DEF Pair
  <2> QED
    BY <1>1, <1>6, <2>1, SlugsKept, Typed
<1>13. RowsOK'
  <2>1. \A j \in functions' : \E t \in Slugs : workspaces'[t] = j
    BY <1>1, <1>4 DEF IInv, RowsOK
  <2>2. ASSUME NEW d \in Deps
        PROVE  /\ Status(d)' = "none" <=> deployments'[d].id = 0
               /\ Status(d)' \in {"active", "running", "failed"}
                    => workspaces'[deployments'[d].slug] = deployments'[d].id
               /\ Status(d)' = "gone" => \A t \in Slugs : workspaces'[t] # deployments'[d].id
    <3>1. CASE deployments[d].id = i
      BY <1>4, <1>5, <1>9, <3>1, Facts
    <3>2. CASE deployments[d].id # i
      <4>1. deployments[d].slug = s => Status(d) \in {"none", "gone"}
        BY <3>2, Typed DEF IInv, RowsOK, Status, TypeTables, DeploymentType
      <4>2. Status(d) = "gone" => deployments[d].id # 0
        BY DEF IInv, RowsOK
      <4> QED
        BY <1>4, <1>5, <3>2, <4>1, <4>2, Typed DEF IInv, RowsOK
    <3> QED
      BY <3>1, <3>2
  <2> QED
    BY <2>1, <2>2 DEF RowsOK
<1>14. QuietOK'
  <2>1. ASSUME NEW j \in quiet', j # i
        PROVE  /\ j <= lastId'
               /\ \A t \in Slugs : workspaces'[t] # j
               /\ \A d \in Deps :
                    deployments'[d].id = j =>
                      /\ message'[d] # "ready"
                      /\ \A p \in Requests : ~ Publishes(p, d)'
                      /\ \A w \in Workers : Executes(w, d)' => Succeeded(w)'
    BY <1>1, <1>4, <1>5, <1>8, <2>1, Typed DEF IInv, QuietOK
  <2>2. ASSUME i \in quiet'
        PROVE  /\ i <= lastId'
               /\ \A t \in Slugs : workspaces'[t] # i
               /\ \A d \in Deps :
                    deployments'[d].id = i =>
                      /\ message'[d] # "ready"
                      /\ \A p \in Requests : ~ Publishes(p, d)'
                      /\ \A w \in Workers : Executes(w, d)' => Succeeded(w)'
    <3>1. i \notin quiet
      BY DEF IInv, QuietOK
    <3>2. \A d \in Deps : deployments[d].id = i => Status(d) \in {"running", "failed"}
      BY <1>1, <1>10, <2>2, <3>1
    <3>3. i <= lastId'
      BY <1>1 DEF IInv, OneSlug, Pair
    <3>4. \A t \in Slugs : workspaces'[t] # i
      BY <1>4, <1>9, Facts
    <3>5. ASSUME NEW d \in Deps, deployments[d].id = i
          PROVE  /\ message[d] # "ready"
                 /\ \A p \in Requests : ~ Publishes(p, d)
                 /\ \A w \in Workers : Executes(w, d) => Succeeded(w)
      BY <3>2, <3>5 DEF IInv, QueueOK
    <3> QED
      BY <1>1, <1>5, <1>8, <3>3, <3>4, <3>5
  <2> QED
    BY <2>1, <2>2 DEF QuietOK
<1>15. FreshOK'
  <2>1. ASSUME NEW t \in Slugs, workspaces'[t] \in fresh
        PROVE  t # s /\ workspaces'[t] = workspaces[t]
    BY <1>4, <2>1, Typed
  <2> QED
    BY <1>1, <1>2, <1>3, <1>5, <1>8, <2>1 DEF IInv, FreshOK
<1>16. CleanRemoval'
  BY <1>1 DEF IInv, CleanRemoval
<1>17. StillServed'
  BY <1>1, <1>5 DEF IInv, StillServed, Status
<1> QED
  BY <1>6, <1>7, <1>11, <1>12, <1>13, <1>14, <1>15, <1>16, <1>17, TypePartsPrime DEF IInv

LEMMA CollectStep ==
  ASSUME IInv, NEW s \in Slugs, Collect(s)
  PROVE  IInv'
<1>1. /\ namespace[s] = "terminating"
      /\ \/ service' = service
         \/ service' = [service EXCEPT ![s] = 0]
      /\ \/ namespace' = namespace
         \/ /\ namespace' = [namespace EXCEPT ![s] = "absent"]
            /\ s \notin rbac /\ service[s] = 0 /\ UNCHANGED <<rbac, service>>
      /\ rbac' = rbac \/ rbac' = rbac \ {s}
      /\ UNCHANGED <<tables, queue, request, worker, history>>
  BY DEF Collect
<1> USE DEF tables, queue, history
<1>2. TypeTables' /\ TypeQueue' /\ TypeActors'
  BY <1>1, Typed DEF TypeTables, TypeQueue, TypeActors
<1>3. TypeCluster'
  BY <1>1, Typed DEF TypeCluster
<1>4. /\ service'[s] \in {0, service[s]}
      /\ \A t \in Slugs \ {s} : service'[t] = service[t] /\ namespace'[t] = namespace[t]
      /\ namespace'[s] = "terminating" \/ service'[s] = 0
  BY <1>1, Typed DEF TypeCluster
<1>5. QueueOK' /\ RowsOK' /\ QuietOK'
  BY <1>1 DEF IInv, QueueOK, RowsOK, QuietOK, Status, Publishes, Executes, Succeeded
<1>6. OneSlug'
  <2>1. \A i \in Ids, t \in Slugs : Pair(i, t)' => Pair(i, t)
    BY <1>1, <1>4, Facts DEF Pair
  <2> QED
    BY <1>1, <1>2, <2>1, SlugsKept, Typed
<1>7. workspaces[s] \notin fresh
  BY <1>1 DEF IInv, FreshOK
<1>8. FreshOK'
  BY <1>1, <1>4, <1>7 DEF IInv, FreshOK, Publishes, Executes, Succeeded
<1>9. CleanRemoval'
  BY <1>1, <1>4, Typed DEF IInv, CleanRemoval
<1>10. StillServed'
  <2>1. \A d \in Deps : Status(d) = "running" /\ deployments[d].id \in fresh =>
          workspaces[deployments[d].slug] \in fresh
    BY DEF IInv, RowsOK
  <2> QED
    BY <1>1, <1>4, <1>7, <2>1, Typed DEF IInv, StillServed, Status
<1> QED
  BY <1>2, <1>3, <1>5, <1>6, <1>8, <1>9, <1>10, TypePartsPrime DEF IInv

-----------------------------------------------------------------------------
LEMMA InvNext == IInv /\ [Next]_vars => IInv'
<1> SUFFICES ASSUME IInv, [Next]_vars PROVE IInv'
  OBVIOUS
<1>1. CASE UNCHANGED vars
  BY <1>1 DEF vars, IInv, TypeOK, OneSlug, Pair, QueueOK, RowsOK, QuietOK, FreshOK,
              CleanRemoval, StillServed, Status, Publishes, Executes, Succeeded
<1>2. CASE \E s \in Slugs : CreateWorkspace(s) \/ Collect(s)
  BY <1>2, CreateStep, CollectStep
<1>3. CASE \E q \in Requests, s \in Slugs : DeleteWorkspace(q, s) \/ Resolve(q, s)
  BY <1>3, DeleteWorkspaceStep, ResolveStep
<1>4. CASE \E q \in Requests : Handle(q)
  BY <1>4, DeleteNamespaceStep, SaveStep, InsertStep, PublishStep, AbortStep DEF Handle
<1>5. CASE \E w \in Workers : Work(w)
  BY <1>5, FetchStep, CallsStep, DeployStep, ReportStep, SettleStep DEF Work
<1> QED
  BY <1>1, <1>2, <1>3, <1>4, <1>5 DEF Next

LEMMA Invariance == Spec => []IInv
  BY InvInit, InvNext, PTL DEF Spec

\* Rows, requests, messages, workers and the cluster keep their form; what is in
\* a namespace is in one that exists.
THEOREM TypeCorrect == Spec => []TypeOK
<1>1. IInv => TypeOK
  BY DEF IInv
<1> QED
  BY <1>1, Invariance, PTL

\* DeleteWorkspace with its cascade, beside Create, Update and the worker: what a
\* quietly deleted workspace deployed does not come back, however far requests
\* that had resolved its slug had come, and whoever has the slug since.
THEOREM RemovedForGood == Spec => []CleanRemoval
<1>1. IInv => CleanRemoval
  BY DEF IInv
<1> QED
  BY <1>1, Invariance, PTL

\* DeleteNamespace by the slug's name: it does not hit the namespace of a later
\* workspace that started when nothing was left of the slug.
THEOREM Undeleted == Spec => []StillServed
<1>1. IInv => StillServed
  BY DEF IInv
<1> QED
  BY <1>1, Invariance, PTL
=============================================================================
