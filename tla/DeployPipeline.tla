--------------------------- MODULE DeployPipeline ---------------------------
(***************************************************************************)
(* The asynchronous deployment pipeline: API handlers write function and   *)
(* deployment rows and publish a deploy request; deploy workers consume    *)
(* the requests from a JetStream work queue, drive Knative and write the   *)
(* deployment's status back; a worker that starts first sweeps the rows    *)
(* that are still active.                                                  *)
(*                                                                         *)
(* Content (code, image, visibility) is a version number: every accepted   *)
(* create or update brings the next one.  The updates modelled set every   *)
(* field; Update's field merge is left to a module of its own.  A function *)
(* id is the version that created the row.  Deployment ids are 1, 2, ...   *)
(* and stand for the request message as well, each being published once.   *)
(***************************************************************************)
EXTENDS Integers, Sequences, FiniteSets

CONSTANTS
  Names,       \* function names of one workspace
  Handlers,    \* concurrent API requests
  Workers,     \* deploy worker processes sharing the durable consumer
  MaxVersion,  \* bound: creates and updates accepted in a behaviour
  MaxDeliver,  \* the consumer's MaxDeliver
  MaxCrashes,  \* bound: worker crashes in a behaviour
  Started,     \* TRUE: the workers have already started, on an empty database
  Operations,  \* API operations the clients use
  Faults       \* kinds of fault that may occur

FaultKinds == {"abort",       \* an API request ends midway: client gone, crash, SQL error
               "publish",     \* PublishDeployRequest returns an error
               "database",    \* a worker's SQL statement fails
               "cluster",     \* a worker's Kubernetes or Knative call fails
               "undeploy",    \* the API's call to delete a Knative service fails
               "settle",      \* an Ack, Nak or Term is lost
               "earlyExpiry"} \* the ack wait runs out while a worker is still deploying

ASSUME PipelineAssumption ==
  /\ Names # {}
  /\ MaxVersion \in Nat
  /\ MaxDeliver \in Nat \ {0}
  /\ MaxCrashes \in Nat
  /\ Started \in BOOLEAN
  /\ Operations \subseteq {"create", "update", "delete"}
  /\ Faults \subseteq FaultKinds

Deployments == 1..MaxVersion
Versions    == 0..MaxVersion            \* 0 is "no content" and "no row"

ActiveStatuses == {"queued", "building", "deploying"}
Statuses       == ActiveStatuses \cup {"running", "failed"}

VARIABLES
  functions,       \* functions table: name -> its row's id and content
  lastVersion,     \* versions (and function ids) handed out so far
  request,         \* deployment id -> the request built when its row was inserted
  status,          \* deployments table: id -> status, "none" without a row
  lastDeployment,  \* deployment ids handed out so far
  handler,         \* the state of each API request
  unseen,          \* published requests no worker has been given, in stream order
  pending,         \* delivered and not acknowledged
  redeliver,       \* those of pending that are due again
  deliveries,      \* NumDelivered of each request
  worker,          \* the state of each worker process
  service,         \* Knative services: name -> content served, 0 without one
  crashes,         \* worker crashes so far
  served,          \* history: newest content Knative accepted for a deployment
  uncleanDelete    \* history: names deleted with a deployment active or the service left

api      == <<functions, lastVersion, request, lastDeployment, handler, uncleanDelete>>
queue    == <<unseen, pending, redeliver, deliveries>>
vars     == <<functions, lastVersion, request, status, lastDeployment, handler,
              unseen, pending, redeliver, deliveries, worker, service, crashes,
              served, uncleanDelete>>

NoFunction == [id |-> 0, version |-> 0]
NoRequest  == [name |-> CHOOSE n \in Names : TRUE, fid |-> 0, version |-> 0]
IdleHandler == [pc |-> "idle", name |-> NoRequest.name, fid |-> 0, version |-> 0, dep |-> 0]
DownWorker == [pc |-> "down", via |-> "sweep", dep |-> 0, version |-> 0,
               attempt |-> 0, todo |-> {}]

HandlerSteps == {"idle", "insert", "write", "deployment", "publish",
                 "queueError", "undeploy"}
Executing    == {"building", "ensure", "deploy", "running", "failed"}
WorkerSteps  == {"down", "sweep", "fetch", "settle"} \cup Executing

HandlerStates == [pc : HandlerSteps, name : Names, fid : Versions,
                  version : Versions, dep : Versions]
WorkerStates  == [pc : WorkerSteps, via : {"sweep", "message"}, dep : Versions,
                  version : Versions, attempt : Nat, todo : SUBSET Deployments]

TypeOK ==
  /\ functions \in [Names -> [id : Versions, version : Versions]]
  /\ lastVersion \in Versions
  /\ request \in [Deployments -> [name : Names, fid : Versions, version : Versions]]
  /\ status \in [Deployments -> Statuses \cup {"none"}]
  /\ lastDeployment \in Versions
  /\ handler \in [Handlers -> HandlerStates]
  /\ \A h \in Handlers :
       handler[h].pc \in {"publish", "queueError"} => handler[h].dep \in Deployments
  /\ unseen \in Seq(Deployments)
  /\ pending \subseteq Deployments
  /\ redeliver \subseteq pending
  /\ deliveries \in [Deployments -> Nat]
  /\ worker \in [Workers -> WorkerStates]
  /\ service \in [Names -> Versions]
  /\ crashes \in 0..MaxCrashes
  /\ served \in [Deployments -> Versions]
  /\ uncleanDelete \subseteq Names

Init ==
  /\ functions = [n \in Names |-> NoFunction]
  /\ lastVersion = 0
  /\ request = [d \in Deployments |-> NoRequest]
  /\ status = [d \in Deployments |-> "none"]
  /\ lastDeployment = 0
  /\ handler = [h \in Handlers |-> IdleHandler]
  /\ unseen = <<>>
  /\ pending = {}
  /\ redeliver = {}
  /\ deliveries = [d \in Deployments |-> 0]
  /\ worker = [w \in Workers |->
                 IF Started THEN [DownWorker EXCEPT !.pc = "fetch"] ELSE DownWorker]
  /\ service = [n \in Names |-> 0]
  /\ crashes = 0
  /\ served = [d \in Deployments |-> 0]
  /\ uncleanDelete = {}

-----------------------------------------------------------------------------
(* The deployments table. *)

Active(d) == status[d] \in ActiveStatuses

\* UPDATE deployments SET status = s WHERE id = d: no row, no effect.
WithStatus(d, s) == IF status[d] = "none" THEN status ELSE [status EXCEPT ![d] = s]

\* The workers discard the error of a status update, so a failed one is skipped.
WorkerWrites(d, s) ==
  \/ status' = WithStatus(d, s)
  \/ "database" \in Faults /\ status' = status

-----------------------------------------------------------------------------
(* API handlers: FunctionService.Create, Update and Delete. *)

\* Bound: a client asks for a create or an update only if a version is left for it.
VersionLeft ==
  lastVersion + Cardinality({h \in Handlers : handler[h].pc \in {"insert", "write"}})
    < MaxVersion

CreateCheck(h, n) ==
  /\ "create" \in Operations
  /\ VersionLeft
  /\ handler[h].pc = "idle"
  /\ functions[n] = NoFunction
  /\ handler' = [handler EXCEPT ![h] = [IdleHandler EXCEPT !.pc = "insert", !.name = n]]
  /\ UNCHANGED <<functions, lastVersion, request, status, lastDeployment, queue,
                 worker, service, crashes, served, uncleanDelete>>

\* UNIQUE (workspace_id, name) turns a lost race into an error.
CreateInsert(h) ==
  LET n == handler[h].name
      v == lastVersion + 1
  IN
  /\ handler[h].pc = "insert"
  /\ \/ /\ functions[n] = NoFunction
        /\ lastVersion < MaxVersion
        /\ lastVersion' = v
        /\ functions' = [functions EXCEPT ![n] = [id |-> v, version |-> v]]
        /\ handler' = [handler EXCEPT ![h] = [@ EXCEPT !.pc = "deployment",
                                                       !.fid = v, !.version = v]]
     \/ /\ functions[n] # NoFunction
        /\ handler' = [handler EXCEPT ![h] = IdleHandler]
        /\ UNCHANGED <<functions, lastVersion>>
  /\ UNCHANGED <<request, status, lastDeployment, queue, worker, service, crashes,
                 served, uncleanDelete>>

UpdateRead(h, n) ==
  /\ "update" \in Operations
  /\ VersionLeft
  /\ handler[h].pc = "idle"
  /\ functions[n] # NoFunction
  /\ handler' = [handler EXCEPT ![h] = [IdleHandler EXCEPT !.pc = "write", !.name = n]]
  /\ UNCHANGED <<functions, lastVersion, request, status, lastDeployment, queue,
                 worker, service, crashes, served, uncleanDelete>>

\* UpdateFunction finds the row by name: it may be another one than was read.
UpdateWrite(h) ==
  LET n == handler[h].name
      v == lastVersion + 1
  IN
  /\ handler[h].pc = "write"
  /\ \/ /\ functions[n] # NoFunction
        /\ lastVersion < MaxVersion
        /\ lastVersion' = v
        /\ functions' = [functions EXCEPT ![n].version = v]
        /\ handler' = [handler EXCEPT ![h] = [@ EXCEPT !.pc = "deployment",
                                      !.fid = functions[n].id, !.version = v]]
     \/ /\ functions[n] = NoFunction
        /\ handler' = [handler EXCEPT ![h] = IdleHandler]
        /\ UNCHANGED <<functions, lastVersion>>
  /\ UNCHANGED <<request, status, lastDeployment, queue, worker, service, crashes,
                 served, uncleanDelete>>

\* Mutant: the new row's id is not carried into the request that is published.
MutInsertDeployment(h) ==
  LET r == handler[h]
      d == lastDeployment + 1
  IN
  /\ r.pc = "deployment"
  /\ functions[r.name].id = r.fid
  /\ lastDeployment < MaxVersion
  /\ lastDeployment' = d
  /\ status' = [status EXCEPT ![d] = "queued"]
  /\ request' = [request EXCEPT ![d] = [name |-> r.name, fid |-> r.fid,
                                        version |-> r.version]]
  /\ handler' = [handler EXCEPT ![h].pc = "publish"]
  /\ UNCHANGED <<functions, lastVersion, queue, worker, service, crashes, served,
                 uncleanDelete>>

\* The foreign key refuses a deployment of a function deleted in between.
InsertDeployment(h) ==
  LET r == handler[h]
      d == lastDeployment + 1
  IN
  /\ r.pc = "deployment"
  /\ \/ /\ functions[r.name].id = r.fid
        /\ lastDeployment < MaxVersion
        /\ lastDeployment' = d
        /\ status' = [status EXCEPT ![d] = "queued"]
        /\ request' = [request EXCEPT ![d] = [name |-> r.name, fid |-> r.fid,
                                              version |-> r.version]]
        /\ handler' = [handler EXCEPT ![h] = [@ EXCEPT !.pc = "publish", !.dep = d]]
     \/ /\ functions[r.name].id # r.fid
        /\ handler' = [handler EXCEPT ![h] = IdleHandler]
        /\ UNCHANGED <<lastDeployment, status, request>>
  /\ UNCHANGED <<functions, lastVersion, queue, worker, service, crashes, served,
                 uncleanDelete>>

Publish(h) ==
  /\ handler[h].pc = "publish"
  /\ unseen' = Append(unseen, handler[h].dep)
  /\ handler' = [handler EXCEPT ![h] = IdleHandler]
  /\ UNCHANGED <<functions, lastVersion, request, status, lastDeployment, pending,
                 redeliver, deliveries, worker, service, crashes, served,
                 uncleanDelete>>

\* The publish reports an error; the stream may have stored the message anyway.
PublishError(h) ==
  /\ "publish" \in Faults
  /\ handler[h].pc = "publish"
  /\ unseen' \in {unseen, Append(unseen, handler[h].dep)}
  /\ handler' = [handler EXCEPT ![h].pc = "queueError"]
  /\ UNCHANGED <<functions, lastVersion, request, status, lastDeployment, pending,
                 redeliver, deliveries, worker, service, crashes, served,
                 uncleanDelete>>

MarkQueueError(h) ==
  /\ handler[h].pc = "queueError"
  /\ status' = WithStatus(handler[h].dep, "failed")
  /\ handler' = [handler EXCEPT ![h] = IdleHandler]
  /\ UNCHANGED <<functions, lastVersion, request, lastDeployment, queue, worker,
                 service, crashes, served, uncleanDelete>>

\* DELETE FROM functions, which cascades to the function's deployments.
DeleteRow(h, n) ==
  LET fid  == functions[n].id
      rows == {d \in Deployments : status[d] # "none" /\ request[d].fid = fid}
  IN
  /\ "delete" \in Operations
  /\ handler[h].pc = "idle"
  /\ functions[n] # NoFunction
  /\ functions' = [functions EXCEPT ![n] = NoFunction]
  /\ status' = [d \in Deployments |-> IF d \in rows THEN "none" ELSE status[d]]
  /\ uncleanDelete' =
       IF \E d \in rows : Active(d) THEN uncleanDelete \cup {n} ELSE uncleanDelete
  /\ handler' = [handler EXCEPT ![h] = [IdleHandler EXCEPT !.pc = "undeploy", !.name = n]]
  /\ UNCHANGED <<lastVersion, request, lastDeployment, queue, worker, service, crashes,
                 served>>

\* Best effort: an error of the cluster is only logged.
Undeploy(h) ==
  /\ handler[h].pc = "undeploy"
  /\ \/ /\ service' = [service EXCEPT ![handler[h].name] = 0]
        /\ UNCHANGED uncleanDelete
     \/ /\ "undeploy" \in Faults
        /\ uncleanDelete' = uncleanDelete \cup {handler[h].name}
        /\ UNCHANGED service
  /\ handler' = [handler EXCEPT ![h] = IdleHandler]
  /\ UNCHANGED <<functions, lastVersion, request, status, lastDeployment, queue,
                 worker, crashes, served>>

\* The request's context is cancelled, a statement fails or the API process
\* stops: the handler ends where it is and nothing is rolled back.
Abort(h) ==
  /\ "abort" \in Faults
  /\ handler[h].pc # "idle"
  /\ handler' = [handler EXCEPT ![h] = IdleHandler]
  /\ uncleanDelete' =
       IF handler[h].pc = "undeploy" THEN uncleanDelete \cup {handler[h].name}
                                     ELSE uncleanDelete
  /\ UNCHANGED <<functions, lastVersion, request, status, lastDeployment, queue,
                 worker, service, crashes, served>>

-----------------------------------------------------------------------------
(* JetStream: the durable consumer with explicit acknowledgement. *)

Holds(w, d) ==
  /\ worker[w].via = "message"
  /\ worker[w].dep = d
  /\ worker[w].pc \in Executing \cup {"settle"}

\* The backoff of a delivered, unacknowledged message has run out.
AckWaitExpires(d) ==
  /\ d \in pending \ redeliver
  /\ "earlyExpiry" \in Faults \/ ~ \E w \in Workers : Holds(w, d)
  /\ redeliver' = redeliver \cup {d}
  /\ UNCHANGED <<api, status, unseen, pending, deliveries, worker, service, crashes,
                 served>>

\* A due message that has had its last delivery is given up at the next pull.
DropExhausted(d) ==
  /\ d \in redeliver
  /\ deliveries[d] = MaxDeliver
  /\ \E w \in Workers : worker[w].pc = "fetch"
  /\ pending' = pending \ {d}
  /\ redeliver' = redeliver \ {d}
  /\ UNCHANGED <<api, status, unseen, deliveries, worker, service, crashes, served>>

\* handleMessage begins.  Every request is one that the API has marshalled and the
\* consumer delivers it with its metadata: neither the Term of a payload that does
\* not parse nor the Nak without metadata is ever reached.
Deliver(w, d) ==
  /\ deliveries' = [deliveries EXCEPT ![d] = @ + 1]
  /\ worker' = [worker EXCEPT ![w] =
                  [pc |-> "building", via |-> "message", dep |-> d,
                   version |-> request[d].version, attempt |-> deliveries[d] + 1,
                   todo |-> {}]]

\* consumer.Next, with the server's choice of the message: redeliveries are served
\* before new ones.
FetchRedelivered(w) ==
  /\ worker[w].pc = "fetch"
  /\ \E d \in redeliver :
       /\ deliveries[d] < MaxDeliver
       /\ Deliver(w, d)
       /\ redeliver' = redeliver \ {d}
  /\ UNCHANGED <<api, status, unseen, pending, service, crashes, served>>

FetchNew(w) ==
  /\ worker[w].pc = "fetch"
  /\ redeliver = {}
  /\ unseen # <<>>
  /\ Deliver(w, Head(unseen))
  /\ unseen' = Tail(unseen)
  /\ pending' = pending \cup {Head(unseen)}
  /\ UNCHANGED <<api, status, redeliver, service, crashes, served>>

-----------------------------------------------------------------------------
(* The worker process: Start with its sweep, executeDeploy, handleMessage. *)

Go(w, pc) == worker' = [worker EXCEPT ![w].pc = pc]

\* On to the next row of the sweep, or to the next message.
Continue(w) ==
  worker' = [worker EXCEPT ![w] =
               [DownWorker EXCEPT !.pc = IF worker[w].via = "sweep" THEN "sweep" ELSE "fetch",
                                  !.todo = worker[w].todo]]

\* Mutant: the sweep takes up queued deployments only.
MutStartQueuedOnly(w) ==
  /\ worker[w].pc = "down"
  /\ worker' = [worker EXCEPT ![w] =
       [DownWorker EXCEPT !.pc = "sweep",
                          !.todo = {d \in Deployments : status[d] = "queued"}]]
  /\ UNCHANGED <<api, status, queue, service, crashes, served>>

\* Mutant: a worker that starts does not sweep.
MutStartUnswept(w) ==
  /\ worker[w].pc = "down"
  /\ worker' = [worker EXCEPT ![w] = [DownWorker EXCEPT !.pc = "fetch"]]
  /\ UNCHANGED <<api, status, queue, service, crashes, served>>

\* ListActiveDeployments; when it fails the worker starts consuming unswept.
Start(w) ==
  /\ worker[w].pc = "down"
  /\ \E todo \in {{d \in Deployments : Active(d)}}
                   \cup (IF "database" \in Faults THEN {{}} ELSE {}) :
       worker' = [worker EXCEPT ![w] = [DownWorker EXCEPT !.pc = "sweep", !.todo = todo]]
  /\ UNCHANGED <<api, status, queue, service, crashes, served>>

\* The sweep redeploys the row's deployment with the function's CURRENT content.
SweepNext(w) ==
  \E d \in worker[w].todo :
    LET fn   == functions[request[d].name]
        rest == [worker[w] EXCEPT !.todo = @ \ {d}]
    IN
    /\ worker[w].pc = "sweep"
    /\ \A e \in worker[w].todo : d <= e          \* ORDER BY created_at ASC
    /\ \/ /\ fn # NoFunction
          /\ worker' = [worker EXCEPT ![w] = [rest EXCEPT !.pc = "building", !.dep = d,
                                                          !.version = fn.version]]
          /\ UNCHANGED status
       \/ /\ fn = NoFunction \/ "database" \in Faults
          /\ worker' = [worker EXCEPT ![w] = rest]
          /\ WorkerWrites(d, "failed")
    /\ UNCHANGED <<api, queue, service, crashes, served>>

SweepDone(w) ==
  /\ worker[w].pc = "sweep"
  /\ worker[w].todo = {}
  /\ Go(w, "fetch")
  /\ UNCHANGED <<api, status, queue, service, crashes, served>>

SetBuilding(w) ==
  /\ worker[w].pc = "building"
  /\ WorkerWrites(worker[w].dep, "building")
  /\ Go(w, "ensure")
  /\ UNCHANGED <<api, queue, service, crashes, served>>

\* EnsureNamespace and EnsureNamespaceRBAC, then the status "deploying".
EnsureNamespace(w) ==
  /\ worker[w].pc = "ensure"
  /\ \/ /\ WorkerWrites(worker[w].dep, "deploying")
        /\ Go(w, "deploy")
     \/ /\ "cluster" \in Faults
        /\ Go(w, "failed")
        /\ UNCHANGED status
  /\ UNCHANGED <<api, queue, service, crashes, served>>

\* Mutant: the error of Deploy is dropped.
MutDeploy(w) ==
  /\ worker[w].pc = "deploy"
  /\ UNCHANGED <<service, served>>
  /\ Go(w, "running")
  /\ UNCHANGED <<api, status, queue, crashes>>

\* Get then Update (optimistic lock) or Create: one step when it takes effect.
\* A failed call may have taken effect.
Deploy(w) ==
  LET d == worker[w].dep
      v == worker[w].version
      accepted ==
        /\ service' = [service EXCEPT ![request[d].name] = v]
        /\ served' = [served EXCEPT ![d] = IF v > @ THEN v ELSE @]
  IN
  /\ worker[w].pc = "deploy"
  /\ \/ accepted /\ Go(w, "running")
     \/ /\ "cluster" \in Faults
        /\ accepted \/ UNCHANGED <<service, served>>
        /\ Go(w, "failed")
  /\ UNCHANGED <<api, status, queue, crashes>>

SetRunning(w) ==
  /\ worker[w].pc = "running"
  /\ WorkerWrites(worker[w].dep, "running")
  /\ IF worker[w].via = "sweep" THEN Continue(w) ELSE Go(w, "settle")
  /\ UNCHANGED <<api, queue, service, crashes, served>>

\* Mutant: the retry budget is off by one.
MutGiveUp(w) ==
  /\ worker[w].pc = "failed"
  /\ worker[w].via = "sweep" \/ worker[w].attempt >= MaxDeliver - 1
  /\ WorkerWrites(worker[w].dep, "failed")
  /\ IF worker[w].via = "sweep" THEN Continue(w) ELSE Go(w, "settle")
  /\ UNCHANGED <<api, queue, service, crashes, served>>

\* A failed sweep, or the last delivery: the deployment is marked failed.
GiveUp(w) ==
  /\ worker[w].pc = "failed"
  /\ worker[w].via = "sweep" \/ worker[w].attempt >= MaxDeliver
  /\ WorkerWrites(worker[w].dep, "failed")
  /\ IF worker[w].via = "sweep" THEN Continue(w) ELSE Go(w, "settle")
  /\ UNCHANGED <<api, queue, service, crashes, served>>

\* Mutant: every failed attempt marks the row failed, not only the last one.
MutRetryMarksFailed(w) ==
  /\ worker[w].pc = "failed"
  /\ worker[w].via = "message"
  /\ worker[w].attempt < MaxDeliver
  /\ redeliver' = redeliver \cup ({worker[w].dep} \cap pending)
  /\ status' = WithStatus(worker[w].dep, "failed")
  /\ Continue(w)
  /\ UNCHANGED <<api, unseen, pending, deliveries, service, crashes, served>>

\* Mutant: the request to retry is published anew, behind newer ones.
MutRetryAtTail(w) ==
  LET d == worker[w].dep IN
  /\ worker[w].pc = "failed"
  /\ worker[w].via = "message"
  /\ worker[w].attempt < MaxDeliver
  /\ unseen' = Append(unseen, d)
  /\ pending' = pending \ {d}
  /\ redeliver' = redeliver \ {d}
  /\ Continue(w)
  /\ UNCHANGED <<api, status, deliveries, service, crashes, served>>

\* Nak: due again at once.  Ignored for a message no longer pending.
Retry(w) ==
  LET d == worker[w].dep IN
  /\ worker[w].pc = "failed"
  /\ worker[w].via = "message"
  /\ worker[w].attempt < MaxDeliver
  /\ \/ redeliver' = redeliver \cup ({d} \cap pending)
     \/ "settle" \in Faults /\ redeliver' = redeliver
  /\ Continue(w)
  /\ UNCHANGED <<api, status, unseen, pending, deliveries, service, crashes, served>>

\* Mutant: a finished request is not acknowledged.
MutSettle(w) ==
  /\ worker[w].pc = "settle"
  /\ UNCHANGED <<pending, redeliver>>
  /\ Continue(w)
  /\ UNCHANGED <<api, status, unseen, deliveries, service, crashes, served>>

\* Ack after a success, Term after the last failure.
Settle(w) ==
  LET d == worker[w].dep IN
  /\ worker[w].pc = "settle"
  /\ \/ pending' = pending \ {d} /\ redeliver' = redeliver \ {d}
     \/ "settle" \in Faults /\ UNCHANGED <<pending, redeliver>>
  /\ Continue(w)
  /\ UNCHANGED <<api, status, unseen, deliveries, service, crashes, served>>

Crash(w) ==
  /\ worker[w].pc # "down"
  /\ crashes < MaxCrashes
  /\ crashes' = crashes + 1
  /\ worker' = [worker EXCEPT ![w] = DownWorker]
  /\ UNCHANGED <<api, status, queue, service, served>>

-----------------------------------------------------------------------------
Proceed(h) ==
  \/ CreateInsert(h) \/ UpdateWrite(h) \/ InsertDeployment(h) \/ Publish(h)
  \/ PublishError(h) \/ MarkQueueError(h) \/ Undeploy(h)

Accept(h) ==
  \E n \in Names : CreateCheck(h, n) \/ UpdateRead(h, n) \/ DeleteRow(h, n)

Work(w) ==
  \/ Start(w) \/ SweepNext(w) \/ SweepDone(w)
  \/ FetchRedelivered(w) \/ FetchNew(w)
  \/ SetBuilding(w) \/ EnsureNamespace(w) \/ Deploy(w) \/ SetRunning(w)
  \/ GiveUp(w) \/ Retry(w) \/ Settle(w)

Next ==
  \/ \E h \in Handlers : Accept(h) \/ Proceed(h) \/ Abort(h)
  \/ \E w \in Workers : Work(w) \/ Crash(w)
  \/ \E d \in Deployments : AckWaitExpires(d) \/ DropExhausted(d)

Spec == Init /\ [][Next]_vars

\* A request that was accepted runs on, a worker is restarted and runs on, the
\* server's timers run out.  Nothing is assumed of clients, faults or crashes.
Fairness ==
  /\ \A h \in Handlers : WF_vars(Proceed(h))
  /\ \A w \in Workers : WF_vars(Work(w))
  /\ \A d \in Deployments : WF_vars(AckWaitExpires(d)) /\ WF_vars(DropExhausted(d))

FairSpec == Spec /\ Fairness

-----------------------------------------------------------------------------
(* Properties. *)

\* A row says "running" only if Knative accepted, on behalf of that very
\* deployment, content at least as new as the row's request: executeDeploy
\* writes the status after Deploy, and the sweep reads the current row.
RunningIsServed ==
  \A d \in Deployments : status[d] = "running" => served[d] >= request[d].version

InHand(d) == \E w \in Workers : worker[w].pc \in Executing /\ worker[w].dep = d

Publishing(d) ==
  \E h \in Handlers : handler[h].pc \in {"publish", "queueError"} /\ handler[h].dep = d

\* The queue will hand d out again: it was never delivered, or it has a
\* delivery left and is not just being acknowledged.
StillQueued(d) ==
  \/ \E i \in 1..Len(unseen) : unseen[i] = d
  \/ /\ d \in pending
     /\ deliveries[d] < MaxDeliver
     /\ ~ \E w \in Workers : Holds(w, d) /\ worker[w].pc = "settle"

\* The next sweep, or the rest of a current one, will find d.
Sweepable(d) ==
  \E w \in Workers : worker[w].pc = "down" \/ d \in worker[w].todo

\* No accepted deployment is forgotten: while its row is active, a handler is
\* about to publish it, the queue will deliver it, a worker is executing it or
\* a sweep is due to take it up (the reason for the recovery sweep in Start).
\* Not so for a request that is cut off before its publish, a status update that
\* fails, or an attempt that outlasts the ack wait beside a second worker.
NoLostDeployment ==
  \A d \in Deployments :
    Active(d) => Publishing(d) \/ StillQueued(d) \/ InHand(d) \/ Sweepable(d)

\* handleMessage marks a deployment failed only at NumDelivered = MaxDeliver
\* ("1 initial + 3 retries"), after which the queue no longer delivers it and no
\* worker has it in hand, as long as no attempt outlasts the ack wait.
FailedMeansExhausted ==
  \A d \in Deployments :
    status[d] = "failed" =>
      /\ deliveries[d] = MaxDeliver
      /\ d \notin redeliver
      /\ ~ InHand(d)

\* With one API request at a time and one worker that has not crashed, a newest
\* deployment that is "running" means Knative serves the content of the
\* function's row: no retry of an older request overwrites it.
Newest(n, d) ==
  /\ status[d] # "none"
  /\ request[d].fid = functions[n].id
  /\ \A e \in Deployments : e > d => status[e] = "none" \/ request[e].fid # request[d].fid

LatestWins ==
  crashes = 0 /\ (\A h \in Handlers : handler[h].pc = "idle") =>
    \A n \in Names, d \in Deployments :
      functions[n] # NoFunction /\ Newest(n, d) /\ status[d] = "running"
        => service[n] = functions[n].version

\* A function deleted when all its deployments were settled, by a request that
\* got through to the cluster, leaves no Knative service behind, now or later:
\* not under a name that was re-created and deleted, and whatever requests were
\* cut short in between, where no worker sweeps and the queue loses no answer.
CleanDelete ==
  \A n \in Names :
    functions[n] = NoFunction /\ n \notin uncleanDelete /\ service[n] # 0
      => \E h \in Handlers : handler[h].pc = "undeploy" /\ handler[h].name = n

\* The refinement mapping: the statuses of the table, "gone" for a row that a
\* cascade removed.
Lifecycle ==
  INSTANCE DeploymentLifecycle WITH
    outcome <- [d \in Deployments |->
                  CASE d > lastDeployment -> "absent"
                    [] d <= lastDeployment /\ status[d] = "none" -> "gone"
                    [] Active(d) -> "active"
                    [] OTHER -> status[d]]

\* Without crashes, lost acknowledgements and publish errors, and with one worker
\* or attempts shorter than the ack wait, the pipeline keeps the client's view: a
\* deployment settles at most once, whatever retries it took, however many workers
\* share the queue and wherever an API request or a status update failed.
SettlesOnce == Lifecycle!Spec

\* Every deployment is eventually running, failed or deleted with its function.
EverySettles == \A d \in Deployments : Active(d) ~> ~ Active(d)
=============================================================================
