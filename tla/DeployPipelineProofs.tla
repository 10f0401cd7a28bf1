------------------------ MODULE DeployPipelineProofs ------------------------
(***************************************************************************)
(* Theorems about DeployPipeline, for any number of names, requests,       *)
(* workers, versions, deliveries and crashes: its types, that running rows *)
(* are served, that no deployment is lost or given up too early, that it   *)
(* implements DeploymentLifecycle, that a clean deletion stays clean and   *)
(* that the latest content wins.                                           *)
(***************************************************************************)
EXTENDS DeployPipeline, TLAPS

-----------------------------------------------------------------------------
(* Types of the records and of the ways a step changes them. *)

\* The records that stand for "nothing" are records of their kind.
LEMMA NullRecords ==
  /\ NoFunction \in [id : Versions, version : Versions]
  /\ NoRequest \in [name : Names, fid : Versions, version : Versions]
  /\ IdleHandler \in HandlerStates
  /\ DownWorker \in WorkerStates
BY PipelineAssumption
   DEF HandlerStates, WorkerStates, NoFunction, NoRequest, IdleHandler, DownWorker,
       Versions, HandlerSteps, WorkerSteps

\* A handler that begins or ends a request is in a state of its kind.
LEMMA HandlerResets ==
  ASSUME TypeOK, NEW h \in Handlers, NEW n \in Names,
         NEW p \in HandlerSteps \ {"publish", "queueError"},
         \/ handler' = [handler EXCEPT ![h] = [IdleHandler EXCEPT !.pc = p, !.name = n]]
         \/ handler' = [handler EXCEPT ![h] = IdleHandler]
  PROVE  /\ handler' \in [Handlers -> HandlerStates]
         /\ \A g \in Handlers :
              handler'[g].pc \in {"publish", "queueError"} => handler'[g].dep \in Deployments
<1>1. [IdleHandler EXCEPT !.pc = p, !.name = n] \in HandlerStates
  BY NullRecords DEF HandlerStates
<1>2. /\ [IdleHandler EXCEPT !.pc = p, !.name = n].pc = p
      /\ IdleHandler.pc = "idle"
  BY DEF IdleHandler
<1>3. handler' \in [Handlers -> HandlerStates]
  BY <1>1, NullRecords DEF TypeOK
<1>4. ASSUME NEW g \in Handlers, handler'[g].pc \in {"publish", "queueError"}
      PROVE  handler'[g].dep \in Deployments
  <2>1. g # h
    BY <1>2, <1>4 DEF TypeOK
  <2> QED
    BY <1>4, <2>1 DEF TypeOK
<1> QED
  BY <1>3, <1>4

\* A worker that moves to another step, or on to the next row or message, stays
\* a worker.
LEMMA WorkerMoves ==
  ASSUME TypeOK, NEW w \in Workers,
         \/ \E pc \in WorkerSteps : Go(w, pc)
         \/ Continue(w)
  PROVE  worker' \in [Workers -> WorkerStates]
<1>1. ASSUME NEW pc \in WorkerSteps, Go(w, pc)
      PROVE  worker' \in [Workers -> WorkerStates]
  <2>1. [worker[w] EXCEPT !.pc = pc] \in WorkerStates
    BY DEF TypeOK, WorkerStates
  <2> QED
    BY <1>1, <2>1 DEF TypeOK, Go
<1>2. ASSUME Continue(w)
      PROVE  worker' \in [Workers -> WorkerStates]
  <2>1. [DownWorker EXCEPT !.pc = IF worker[w].via = "sweep" THEN "sweep" ELSE "fetch",
                           !.todo = worker[w].todo] \in WorkerStates
    BY NullRecords DEF TypeOK, WorkerStates, WorkerSteps
  <2> QED
    BY <1>2, <2>1 DEF TypeOK, Continue
<1> QED
  BY <1>1, <1>2

\* A status update keeps the table a table of statuses.
LEMMA StatusWrites ==
  ASSUME TypeOK, NEW d, NEW s \in Statuses,
         WorkerWrites(d, s) \/ status' = WithStatus(d, s)
  PROVE  status' \in [Deployments -> Statuses \cup {"none"}]
BY DEF TypeOK, WorkerWrites, WithStatus

\* The queue hands out known requests only, one delivery at a time.
LEMMA Deliveries ==
  ASSUME TypeOK, NEW w \in Workers, NEW d \in Deployments,
         Deliver(w, d)
  PROVE  /\ worker' \in [Workers -> WorkerStates]
         /\ deliveries' \in [Deployments -> Nat]
<1>1. deliveries[d] + 1 \in Nat
  BY DEF TypeOK
<1>2. d \in Versions /\ request[d].version \in Versions
  BY PipelineAssumption DEF TypeOK, Versions, Deployments
<1>3. [pc |-> "building", via |-> "message", dep |-> d, version |-> request[d].version,
       attempt |-> deliveries[d] + 1, todo |-> {}] \in WorkerStates
  BY <1>1, <1>2 DEF WorkerStates, WorkerSteps, Executing
<1> QED
  BY <1>1, <1>3 DEF TypeOK, Deliver

-----------------------------------------------------------------------------
(* Type correctness. *)

LEMMA TypeInit == Init => TypeOK
<1> SUFFICES ASSUME Init PROVE TypeOK
  OBVIOUS
<1>1. [DownWorker EXCEPT !.pc = "fetch"] \in WorkerStates
  BY NullRecords DEF WorkerStates, WorkerSteps
<1>2. 0 \in Versions /\ 0 \in 0..MaxCrashes
  BY PipelineAssumption DEF Versions
<1> QED
  BY <1>1, <1>2, NullRecords DEF Init, TypeOK, IdleHandler

\* A request handler's step keeps the types.
LEMMA TypeHandler ==
  ASSUME TypeOK, NEW h \in Handlers, Accept(h) \/ Proceed(h) \/ Abort(h)
  PROVE  TypeOK'
<1> USE NullRecords, PipelineAssumption
<1> DEFINE n == handler[h].name
<1> DEFINE v == lastVersion + 1
<1>n. n \in Names /\ "idle" \in HandlerSteps \ {"publish", "queueError"}
  BY DEF TypeOK, HandlerStates, HandlerSteps
<1>v. lastVersion < MaxVersion => v \in Versions
  BY DEF TypeOK, Versions
<1>1. ASSUME NEW m \in Names, CreateCheck(h, m) PROVE TypeOK'
  <2>1. "insert" \in HandlerSteps \ {"publish", "queueError"}
    BY DEF HandlerSteps
  <2> QED
    BY <1>1, <2>1, HandlerResets DEF TypeOK, CreateCheck, queue
<1>2. ASSUME NEW m \in Names, UpdateRead(h, m) PROVE TypeOK'
  <2>1. "write" \in HandlerSteps \ {"publish", "queueError"}
    BY DEF HandlerSteps
  <2> QED
    BY <1>2, <2>1, HandlerResets DEF TypeOK, UpdateRead, queue
<1>3. ASSUME NEW m \in Names, DeleteRow(h, m) PROVE TypeOK'
  <2>1. "undeploy" \in HandlerSteps \ {"publish", "queueError"}
    BY DEF HandlerSteps
  <2>2. functions' \in [Names -> [id : Versions, version : Versions]]
    BY <1>3 DEF TypeOK, DeleteRow
  <2>3. status' \in [Deployments -> Statuses \cup {"none"}]
    BY <1>3 DEF TypeOK, DeleteRow
  <2>4. uncleanDelete' \subseteq Names
    BY <1>3 DEF TypeOK, DeleteRow
  <2>5. handler' = [handler EXCEPT ![h] = [IdleHandler EXCEPT !.pc = "undeploy", !.name = m]]
    BY <1>3 DEF DeleteRow
  <2> HIDE NullRecords, PipelineAssumption
  <2>6. /\ handler' \in [Handlers -> HandlerStates]
        /\ \A g \in Handlers :
             handler'[g].pc \in {"publish", "queueError"} => handler'[g].dep \in Deployments
    BY <2>1, <2>5, HandlerResets
  <2>7. UNCHANGED <<lastVersion, request, lastDeployment, queue, worker, service, crashes,
                    served>>
    BY <1>3 DEF DeleteRow
  <2> QED
    BY <2>2, <2>3, <2>4, <2>6, <2>7 DEF TypeOK, queue
<1>4. ASSUME CreateInsert(h) PROVE TypeOK'
  <2>1. CASE functions[n] = NoFunction
    <3>1. /\ v \in Versions
          /\ lastVersion' = v
          /\ functions' = [functions EXCEPT ![n] = [id |-> v, version |-> v]]
          /\ handler' = [handler EXCEPT ![h] = [@ EXCEPT !.pc = "deployment", !.fid = v,
                                                         !.version = v]]
      BY <1>4, <1>v, <2>1 DEF CreateInsert
    <3>2. functions' \in [Names -> [id : Versions, version : Versions]]
      BY <3>1 DEF TypeOK
    <3>3. [handler[h] EXCEPT !.pc = "deployment", !.fid = v, !.version = v] \in HandlerStates
      BY <3>1 DEF TypeOK, HandlerStates, HandlerSteps
    <3>4. /\ handler' \in [Handlers -> HandlerStates]
          /\ \A g \in Handlers :
               handler'[g].pc \in {"publish", "queueError"} => handler'[g].dep \in Deployments
      BY <3>1, <3>3 DEF TypeOK, HandlerStates
    <3> QED
      BY <1>4, <3>1, <3>2, <3>4 DEF TypeOK, CreateInsert, queue
  <2>2. CASE functions[n] # NoFunction
    BY <1>4, <1>n, <2>2, HandlerResets DEF TypeOK, CreateInsert, queue
  <2> QED
    BY <2>1, <2>2
<1>5. ASSUME UpdateWrite(h) PROVE TypeOK'
  <2>1. CASE functions[n] # NoFunction
    <3>1. /\ v \in Versions
          /\ lastVersion' = v
          /\ functions' = [functions EXCEPT ![n].version = v]
          /\ handler' = [handler EXCEPT ![h] = [@ EXCEPT !.pc = "deployment",
                                             !.fid = functions[n].id, !.version = v]]
      BY <1>5, <1>v, <2>1 DEF UpdateWrite
    <3>2. functions' \in [Names -> [id : Versions, version : Versions]]
      BY <3>1 DEF TypeOK
    <3>3. [handler[h] EXCEPT !.pc = "deployment", !.fid = functions[n].id, !.version = v]
             \in HandlerStates
      BY <1>n, <3>1 DEF TypeOK, HandlerStates, HandlerSteps
    <3>4. /\ handler' \in [Handlers -> HandlerStates]
          /\ \A g \in Handlers :
               handler'[g].pc \in {"publish", "queueError"} => handler'[g].dep \in Deployments
      BY <3>1, <3>3 DEF TypeOK, HandlerStates
    <3> QED
      BY <1>5, <3>1, <3>2, <3>4 DEF TypeOK, UpdateWrite, queue
  <2>2. CASE functions[n] = NoFunction
    BY <1>5, <1>n, <2>2, HandlerResets DEF TypeOK, UpdateWrite, queue
  <2> QED
    BY <2>1, <2>2
<1>6. ASSUME InsertDeployment(h) PROVE TypeOK'
  <2> DEFINE r == handler[h]
  <2> DEFINE d == lastDeployment + 1
  <2>1. CASE functions[r.name].id = r.fid
    <3>0. lastDeployment < MaxVersion
      BY <1>6, <2>1 DEF InsertDeployment
    <3>d. d \in Versions /\ d \in Deployments
      BY <3>0 DEF TypeOK, Versions, Deployments
    <3>1. /\ lastDeployment' = d
          /\ status' = [status EXCEPT ![d] = "queued"]
          /\ request' = [request EXCEPT ![d] = [name |-> r.name, fid |-> r.fid,
                                                version |-> r.version]]
          /\ handler' = [handler EXCEPT ![h] = [@ EXCEPT !.pc = "publish", !.dep = d]]
      BY <1>6, <2>1 DEF InsertDeployment
    <3>2. status' \in [Deployments -> Statuses \cup {"none"}]
      BY <3>d, <3>1 DEF TypeOK, Statuses, ActiveStatuses
    <3>3. request' \in [Deployments -> [name : Names, fid : Versions, version : Versions]]
      BY <3>d, <3>1 DEF TypeOK, HandlerStates
    <3>4. [handler[h] EXCEPT !.pc = "publish", !.dep = d] \in HandlerStates
      BY <3>d, <3>1 DEF TypeOK, HandlerStates, HandlerSteps
    <3>5. /\ handler' \in [Handlers -> HandlerStates]
          /\ \A g \in Handlers :
               handler'[g].pc \in {"publish", "queueError"} => handler'[g].dep \in Deployments
      BY <3>d, <3>1, <3>4 DEF TypeOK, HandlerStates
    <3> QED
      BY <1>6, <3>d, <3>1, <3>2, <3>3, <3>5 DEF TypeOK, InsertDeployment, queue
  <2>2. CASE functions[r.name].id # r.fid
    BY <1>6, <1>n, <2>2, HandlerResets DEF TypeOK, InsertDeployment, queue
  <2> QED
    BY <2>1, <2>2
<1>7. ASSUME Publish(h) PROVE TypeOK'
  <2>1. handler[h].dep \in Deployments
    BY <1>7 DEF TypeOK, Publish
  <2>2. unseen' \in Seq(Deployments)
    <3> HIDE PipelineAssumption, NullRecords
    <3>1. unseen' = Append(unseen, handler[h].dep)
      BY <1>7 DEF Publish
    <3> QED
      BY <2>1, <3>1 DEF TypeOK
  <2>3. handler' = [handler EXCEPT ![h] = IdleHandler]
    BY <1>7 DEF Publish
  <2> QED
    BY <1>7, <1>n, <2>2, <2>3, HandlerResets DEF TypeOK, Publish
<1>8. ASSUME PublishError(h) PROVE TypeOK'
  <2>1. [handler[h] EXCEPT !.pc = "queueError"] \in HandlerStates
    BY DEF TypeOK, HandlerStates, HandlerSteps
  <2>2. handler' = [handler EXCEPT ![h] = [@ EXCEPT !.pc = "queueError"]]
    BY <1>8 DEF PublishError
  <2>3. /\ handler' \in [Handlers -> HandlerStates]
        /\ \A g \in Handlers :
             handler'[g].pc \in {"publish", "queueError"} => handler'[g].dep \in Deployments
    BY <1>8, <2>1, <2>2 DEF TypeOK, PublishError, HandlerStates
  <2>4. unseen' \in Seq(Deployments)
    <3>1. handler[h].dep \in Deployments
      BY <1>8 DEF TypeOK, PublishError
    <3>2. unseen' = unseen \/ unseen' = Append(unseen, handler[h].dep)
      BY <1>8 DEF PublishError
    <3>3. unseen \in Seq(Deployments)
      BY DEF TypeOK
    <3> HIDE PipelineAssumption, NullRecords
    <3> QED
      BY <3>1, <3>2, <3>3
  <2> QED
    BY <1>8, <2>3, <2>4 DEF TypeOK, PublishError
<1>9. ASSUME MarkQueueError(h) PROVE TypeOK'
  <2>1. status' \in [Deployments -> Statuses \cup {"none"}]
    BY <1>9, StatusWrites DEF MarkQueueError, Statuses
  <2> QED
    BY <1>9, <1>n, <2>1, HandlerResets DEF TypeOK, MarkQueueError, queue
<1>10. ASSUME Undeploy(h) PROVE TypeOK'
  <2>1. service' \in [Names -> Versions]
    <3>1. service' = [service EXCEPT ![n] = 0] \/ service' = service
      BY <1>10 DEF Undeploy
    <3>2. service \in [Names -> Versions] /\ 0 \in Versions
      BY DEF TypeOK, Versions
    <3> QED
      BY <3>1, <3>2
  <2>2. uncleanDelete' \subseteq Names
    BY <1>10, <1>n DEF TypeOK, Undeploy
  <2> QED
    BY <1>10, <1>n, <2>1, <2>2, HandlerResets DEF TypeOK, Undeploy, queue
<1>11. ASSUME Abort(h) PROVE TypeOK'
  <2>1. uncleanDelete' \subseteq Names
    BY <1>11, <1>n DEF TypeOK, Abort
  <2> QED
    BY <1>11, <1>n, <2>1, HandlerResets DEF TypeOK, Abort, queue
<1> QED
  BY <1>1, <1>2, <1>3, <1>4, <1>5, <1>6, <1>7, <1>8, <1>9, <1>10, <1>11
  DEF Accept, Proceed

\* A step of the message server keeps the types.
LEMMA TypeServer ==
  ASSUME TypeOK, NEW d \in Deployments, AckWaitExpires(d) \/ DropExhausted(d)
  PROVE  TypeOK'
<1>1. CASE AckWaitExpires(d)
  BY <1>1 DEF TypeOK, AckWaitExpires, api
<1>2. CASE DropExhausted(d)
  BY <1>2 DEF TypeOK, DropExhausted, api
<1> QED
  BY <1>1, <1>2

\* A worker's step keeps the types.
LEMMA TypeWorker ==
  ASSUME TypeOK, NEW w \in Workers, Work(w) \/ Crash(w)
  PROVE  TypeOK'
<1>s. /\ {"sweep", "fetch", "settle"} \subseteq WorkerSteps
      /\ Executing \subseteq WorkerSteps
      /\ {"building", "deploying", "running", "failed"} \subseteq Statuses
  BY DEF WorkerSteps, Statuses, ActiveStatuses
<1>1. ASSUME Start(w) PROVE TypeOK'
  <2>1. PICK todo \in SUBSET Deployments :
          worker' = [worker EXCEPT ![w] = [DownWorker EXCEPT !.pc = "sweep", !.todo = todo]]
    BY <1>1 DEF Start
  <2>2. [DownWorker EXCEPT !.pc = "sweep", !.todo = todo] \in WorkerStates
    BY <1>s, NullRecords DEF WorkerStates
  <2>3. worker' \in [Workers -> WorkerStates]
    BY <2>1, <2>2 DEF TypeOK
  <2> QED
    BY <1>1, <2>3 DEF TypeOK, Start, api, queue
<1>2. ASSUME SweepNext(w) PROVE TypeOK'
  <2>1. PICK d \in worker[w].todo :
          LET fn   == functions[request[d].name]
              rest == [worker[w] EXCEPT !.todo = @ \ {d}]
          IN
          /\ \/ /\ worker' = [worker EXCEPT ![w] = [rest EXCEPT !.pc = "building", !.dep = d,
                                                              !.version = fn.version]]
                /\ UNCHANGED status
             \/ /\ worker' = [worker EXCEPT ![w] = rest]
                /\ WorkerWrites(d, "failed")
          /\ UNCHANGED <<api, queue, service, crashes, served>>
    BY <1>2 DEF SweepNext
  <2>2. d \in Deployments /\ d \in Versions
    BY PipelineAssumption DEF TypeOK, WorkerStates, Deployments, Versions
  <2>3. [worker[w] EXCEPT !.todo = @ \ {d}] \in WorkerStates
    BY DEF TypeOK, WorkerStates
  <2>4. functions[request[d].name].version \in Versions
    BY <2>2 DEF TypeOK
  <2>5. [[worker[w] EXCEPT !.todo = @ \ {d}] EXCEPT
           !.pc = "building", !.dep = d, !.version = functions[request[d].name].version]
        \in WorkerStates
    BY <2>2, <2>3, <2>4 DEF WorkerStates, WorkerSteps, Executing
  <2>6. worker' \in [Workers -> WorkerStates]
    BY <2>1, <2>3, <2>5 DEF TypeOK
  <2>7. status' \in [Deployments -> Statuses \cup {"none"}]
    BY <1>s, <2>1, StatusWrites DEF TypeOK
  <2> QED
    BY <2>1, <2>6, <2>7 DEF TypeOK, api, queue
<1>3. ASSUME SweepDone(w) PROVE TypeOK'
  BY <1>3, <1>s, WorkerMoves DEF TypeOK, SweepDone, api, queue
<1>4. ASSUME FetchRedelivered(w) PROVE TypeOK'
  <2>1. PICK d \in redeliver :
          Deliver(w, d) /\ redeliver' = redeliver \ {d}
    BY <1>4 DEF FetchRedelivered
  <2>2. d \in Deployments
    BY DEF TypeOK
  <2>3. /\ worker' \in [Workers -> WorkerStates]
        /\ deliveries' \in [Deployments -> Nat]
    BY <2>1, <2>2, Deliveries
  <2> QED
    BY <1>4, <2>1, <2>3 DEF TypeOK, FetchRedelivered, api
<1>5. ASSUME FetchNew(w) PROVE TypeOK'
  <2>1. Head(unseen) \in Deployments /\ Tail(unseen) \in Seq(Deployments)
    BY <1>5 DEF TypeOK, FetchNew
  <2>3. /\ worker' \in [Workers -> WorkerStates]
        /\ deliveries' \in [Deployments -> Nat]
    BY <1>5, <2>1, Deliveries DEF FetchNew
  <2> QED
    BY <1>5, <2>1, <2>3 DEF TypeOK, FetchNew, api
<1>6. ASSUME SetBuilding(w) PROVE TypeOK'
  <2>1. "ensure" \in WorkerSteps
    BY DEF WorkerSteps, Executing
  <2> QED
    BY <1>6, <1>s, <2>1, StatusWrites, WorkerMoves DEF TypeOK, SetBuilding, api, queue
<1>7. ASSUME EnsureNamespace(w) PROVE TypeOK'
  <2>1. {"deploy", "failed"} \subseteq WorkerSteps
    BY DEF WorkerSteps, Executing
  <2>2. worker' \in [Workers -> WorkerStates]
    BY <1>7, <2>1, WorkerMoves DEF EnsureNamespace
  <2>3. status' \in [Deployments -> Statuses \cup {"none"}]
    BY <1>7, <1>s, StatusWrites DEF TypeOK, EnsureNamespace
  <2> QED
    BY <1>7, <2>2, <2>3 DEF TypeOK, EnsureNamespace, api, queue
<1>8. ASSUME Deploy(w) PROVE TypeOK'
  <2> DEFINE d == worker[w].dep
  <2> DEFINE v == worker[w].version
  <2>1. {"running", "failed"} \subseteq WorkerSteps
    BY DEF WorkerSteps, Executing
  <2>2. worker' \in [Workers -> WorkerStates]
    BY <1>8, <2>1, WorkerMoves DEF Deploy
  <2>3. v \in Versions
    BY DEF TypeOK, WorkerStates
  <2>4. \/ /\ service' = [service EXCEPT ![request[d].name] = v]
           /\ served' = [served EXCEPT ![d] = IF v > @ THEN v ELSE @]
        \/ UNCHANGED <<service, served>>
    BY <1>8 DEF Deploy
  <2>5. service' \in [Names -> Versions] /\ served' \in [Deployments -> Versions]
    BY <2>3, <2>4 DEF TypeOK
  <2> QED
    BY <1>8, <2>2, <2>5 DEF TypeOK, Deploy, api, queue
<1>9. ASSUME SetRunning(w) PROVE TypeOK'
  <2>1. worker' \in [Workers -> WorkerStates]
    BY <1>9, <1>s, WorkerMoves DEF SetRunning
  <2> QED
    BY <1>9, <1>s, <2>1, StatusWrites DEF TypeOK, SetRunning, api, queue
<1>10. ASSUME GiveUp(w) PROVE TypeOK'
  <2>1. worker' \in [Workers -> WorkerStates]
    BY <1>10, <1>s, WorkerMoves DEF GiveUp
  <2> QED
    BY <1>10, <1>s, <2>1, StatusWrites DEF TypeOK, GiveUp, api, queue
<1>11. ASSUME Retry(w) PROVE TypeOK'
  <2>1. worker' \in [Workers -> WorkerStates]
    BY <1>11, WorkerMoves DEF Retry
  <2>2. redeliver' \subseteq pending
    BY <1>11 DEF TypeOK, Retry
  <2> QED
    BY <1>11, <2>1, <2>2 DEF TypeOK, Retry, api
<1>12. ASSUME Settle(w) PROVE TypeOK'
  <2>1. worker' \in [Workers -> WorkerStates]
    BY <1>12, WorkerMoves DEF Settle
  <2>2. pending' \subseteq Deployments /\ redeliver' \subseteq pending'
    BY <1>12 DEF TypeOK, Settle
  <2> QED
    BY <1>12, <2>1, <2>2 DEF TypeOK, Settle, api
<1>13. ASSUME Crash(w) PROVE TypeOK'
  <2>1. crashes' \in 0..MaxCrashes
    BY <1>13, PipelineAssumption DEF TypeOK, Crash
  <2> QED
    BY <1>13, <2>1, NullRecords DEF TypeOK, Crash, api, queue
<1> QED
  BY <1>1, <1>2, <1>3, <1>4, <1>5, <1>6, <1>7, <1>8, <1>9, <1>10, <1>11, <1>12, <1>13
  DEF Work

LEMMA TypeNext == TypeOK /\ [Next]_vars => TypeOK'
<1> SUFFICES ASSUME TypeOK, [Next]_vars PROVE TypeOK'
  OBVIOUS
<1>1. CASE Next
  BY <1>1, TypeHandler, TypeWorker, TypeServer DEF Next
<1>2. CASE UNCHANGED vars
  BY <1>2 DEF TypeOK, vars
<1> QED
  BY <1>1, <1>2

\* Every variable keeps its type, whatever faults occur.
THEOREM TypeCorrect == Spec => []TypeOK
BY TypeInit, TypeNext, PTL DEF Spec

-----------------------------------------------------------------------------
(* RunningIsServed: the status "running" is written after Knative accepted  *)
(* content at least as new as the row's request.                            *)

\* A row belongs to the function of its name, whose content is as new.
RowsCurrent ==
  \A d \in Deployments : status[d] # "none" =>
    LET fn == functions[request[d].name] IN
    /\ d <= lastDeployment
    /\ fn # NoFunction
    /\ fn.id = request[d].fid
    /\ fn.version >= request[d].version

\* Ids and versions are handed out once: lastVersion bounds those in use.
IdsIssued ==
  /\ \A n \in Names : functions[n].id <= lastVersion /\ functions[n].version <= lastVersion
  /\ \A n \in Names : functions[n] # NoFunction => functions[n].id # 0
  /\ \A h \in Handlers : handler[h].fid <= lastVersion

\* A handler about to insert a deployment wrote content that the function's row,
\* if it is still the same row, has kept or replaced by newer content.
HandlersCurrent ==
  \A h \in Handlers : handler[h].pc = "deployment" =>
    /\ handler[h].fid # 0
    /\ LET fn == functions[handler[h].name] IN
       fn.id = handler[h].fid => fn.version >= handler[h].version

\* Only deployments that exist are published, queued, swept or executed.
DeploymentsKnown ==
  /\ \A h \in Handlers :
       handler[h].pc \in {"publish", "queueError"} => handler[h].dep <= lastDeployment
  /\ unseen \in Seq(1..lastDeployment)
  /\ pending \subseteq 1..lastDeployment
  /\ \A w \in Workers :
       /\ worker[w].todo \subseteq 1..lastDeployment
       /\ worker[w].pc \in Executing => worker[w].dep \in 1..lastDeployment

\* A worker deploys content as new as the request, also from the sweep.
WorkersCurrent ==
  \A w \in Workers :
    worker[w].pc \in Executing /\ status[worker[w].dep] # "none"
      => worker[w].version >= request[worker[w].dep].version

\* The worker reaches the step that writes "running" only through Deploy.
AppliedFirst ==
  \A w \in Workers :
    worker[w].pc = "running" /\ status[worker[w].dep] # "none"
      => served[worker[w].dep] >= request[worker[w].dep].version

ServedInv ==
  /\ TypeOK
  /\ RowsCurrent /\ IdsIssued /\ HandlersCurrent /\ DeploymentsKnown
  /\ WorkersCurrent /\ AppliedFirst
  /\ RunningIsServed

\* A queue of elements of S is one of elements of any larger set.
LEMMA SeqMonotone ==
  ASSUME NEW S, NEW T, S \subseteq T, NEW q \in Seq(S)
  PROVE  q \in Seq(T)
OBVIOUS

\* A queue of elements of S with one more of them.
LEMMA AppendType ==
  ASSUME NEW S, NEW q \in Seq(S), NEW x \in S
  PROVE  Append(q, x) \in Seq(S)
OBVIOUS

\* The first element and the rest of a queue.
LEMMA HeadTail ==
  ASSUME NEW S, NEW q \in Seq(S), q # <<>>
  PROVE  Head(q) \in S /\ Tail(q) \in Seq(S)
OBVIOUS

\* A status update creates no row, and only the status "running" makes one so.
LEMMA StatusFrame ==
  ASSUME TypeOK, NEW d, NEW s \in Statuses,
         WorkerWrites(d, s) \/ status' = WithStatus(d, s)
  PROVE  \A e \in Deployments :
           /\ status'[e] # "none" <=> status[e] # "none"
           /\ status'[e] = "running" =>
                status[e] = "running" \/ (e = d /\ s = "running" /\ status[e] # "none")
<1>1. s # "none"
  BY DEF Statuses, ActiveStatuses
<1>2. status' = status \/ (status[d] # "none" /\ status' = [status EXCEPT ![d] = s])
  BY DEF WorkerWrites, WithStatus
<1>3. CASE status' = status
  BY <1>3
<1>4. CASE status[d] # "none" /\ status' = [status EXCEPT ![d] = s]
  BY <1>1, <1>4 DEF TypeOK
<1> QED
  BY <1>2, <1>3, <1>4

\* What a step of worker w has to keep, the database's other tables being
\* unchanged.
LEMMA ServedByWorker ==
  ASSUME ServedInv, TypeOK', NEW w \in Workers, UNCHANGED api,
         \A d \in Deployments : status'[d] # "none" => status[d] # "none",
         \A d \in Deployments : served'[d] >= served[d],
         \A d \in Deployments : status'[d] = "running" =>
            status[d] = "running" \/ served[d] >= request[d].version,
         \A v \in Workers : v # w => worker'[v] = worker[v],
         unseen' \in Seq(1..lastDeployment),
         pending' \subseteq 1..lastDeployment,
         worker'[w].todo \subseteq 1..lastDeployment,
         worker'[w].pc \in Executing =>
           /\ worker'[w].dep \in 1..lastDeployment
           /\ status'[worker'[w].dep] # "none" =>
                worker'[w].version >= request[worker'[w].dep].version,
         worker'[w].pc = "running" /\ status'[worker'[w].dep] # "none" =>
           served'[worker'[w].dep] >= request[worker'[w].dep].version
  PROVE  ServedInv'
<1>1. UNCHANGED <<functions, lastVersion, request, lastDeployment, handler>>
  BY DEF api
<1>2. 1..lastDeployment \subseteq Deployments
  BY PipelineAssumption DEF ServedInv, TypeOK, Versions, Deployments
<1>3. \A d \in Deployments : /\ served[d] \in Nat /\ served'[d] \in Nat
                             /\ request[d].version \in Nat
  BY <1>1 DEF ServedInv, TypeOK, Versions
<1>4. RowsCurrent'
  BY <1>1 DEF ServedInv, RowsCurrent
<1>5. IdsIssued'
  BY <1>1 DEF ServedInv, IdsIssued
<1>6. HandlersCurrent'
  BY <1>1 DEF ServedInv, HandlersCurrent
<1>7. DeploymentsKnown'
  <2>1. ASSUME NEW v \in Workers
        PROVE  /\ worker'[v].todo \subseteq 1..lastDeployment
               /\ worker'[v].pc \in Executing => worker'[v].dep \in 1..lastDeployment
    BY DEF ServedInv, DeploymentsKnown
  <2> QED
    BY <1>1, <2>1 DEF ServedInv, DeploymentsKnown
<1>8. WorkersCurrent'
  <2> SUFFICES ASSUME NEW v \in Workers, worker'[v].pc \in Executing,
                      status'[worker'[v].dep] # "none"
               PROVE  worker'[v].version >= request[worker'[v].dep].version
    BY <1>1 DEF WorkersCurrent
  <2>1. CASE v = w
    BY <2>1
  <2>2. CASE v # w
    <3>1. worker[v].dep \in Deployments
      BY <1>2, <2>2 DEF ServedInv, DeploymentsKnown
    <3> QED
      BY <2>2, <3>1 DEF ServedInv, WorkersCurrent
  <2> QED
    BY <2>1, <2>2
<1>9. AppliedFirst'
  <2> SUFFICES ASSUME NEW v \in Workers, worker'[v].pc = "running",
                      status'[worker'[v].dep] # "none"
               PROVE  served'[worker'[v].dep] >= request[worker'[v].dep].version
    BY <1>1 DEF AppliedFirst
  <2>1. CASE v = w
    BY <2>1
  <2>2. CASE v # w
    <3>1. worker[v].dep \in Deployments
      BY <1>2, <2>2 DEF ServedInv, DeploymentsKnown, Executing
    <3>2. served[worker[v].dep] >= request[worker[v].dep].version
      BY <2>2, <3>1 DEF ServedInv, AppliedFirst
    <3>3. served'[worker[v].dep] >= served[worker[v].dep]
      BY <3>1
    <3> QED
      BY <1>3, <2>2, <3>1, <3>2, <3>3
  <2> QED
    BY <2>1, <2>2
<1>10. RunningIsServed'
  <2> SUFFICES ASSUME NEW d \in Deployments, status'[d] = "running"
               PROVE  served'[d] >= request[d].version
    BY <1>1 DEF RunningIsServed
  <2>1. served[d] >= request[d].version
    BY DEF ServedInv, RunningIsServed
  <2>2. served'[d] >= served[d]
    OBVIOUS
  <2> QED
    BY <1>3, <2>1, <2>2
<1> QED
  BY <1>4, <1>5, <1>6, <1>7, <1>8, <1>9, <1>10 DEF ServedInv

\* Each step of a worker keeps the invariant.
LEMMA ServedWorker ==
  ASSUME ServedInv, TypeOK', NEW w \in Workers, Work(w) \/ Crash(w)
  PROVE  ServedInv'
<1> DEFINE d == worker[w].dep
<1>t. TypeOK
  BY DEF ServedInv
<1>u. /\ unseen \in Seq(1..lastDeployment)
      /\ pending \subseteq 1..lastDeployment
      /\ worker[w].todo \subseteq 1..lastDeployment
      /\ 1..lastDeployment \subseteq Deployments
  BY PipelineAssumption DEF ServedInv, DeploymentsKnown, TypeOK, Versions, Deployments
<1>e. worker[w].pc \in Executing =>
        /\ d \in 1..lastDeployment
        /\ status[d] # "none" => worker[w].version >= request[d].version
  BY DEF ServedInv, DeploymentsKnown, WorkersCurrent
<1>s. \A e \in Deployments : served[e] >= served[e]
  BY DEF ServedInv, TypeOK, Versions
<1>p. {"sweep", "fetch", "settle", "down"} \cap Executing = {}
  BY DEF Executing
<1>x. {"building", "deploying", "running", "failed"} \subseteq Statuses
  BY DEF Statuses, ActiveStatuses
<1>1. ASSUME Start(w) PROVE ServedInv'
  <2>1. PICK todo \in SUBSET {e \in Deployments : Active(e)} :
          worker' = [worker EXCEPT ![w] = [DownWorker EXCEPT !.pc = "sweep", !.todo = todo]]
    BY <1>1 DEF Start
  <2>2. todo \subseteq 1..lastDeployment
    <3>1. \A e \in todo : e \in Deployments /\ e <= lastDeployment
      BY DEF ServedInv, RowsCurrent, Active, ActiveStatuses
    <3>2. Deployments = 1..MaxVersion /\ MaxVersion \in Nat /\ lastDeployment \in Nat
      BY <1>t, PipelineAssumption DEF TypeOK, Deployments, Versions
    <3> QED
      BY <3>1, <3>2
  <2>3. worker'[w].pc = "sweep" /\ worker'[w].todo = todo
    BY <1>t, <2>1 DEF TypeOK, DownWorker
  <2>4. \A v \in Workers : v # w => worker'[v] = worker[v]
    BY <1>t, <2>1 DEF TypeOK
  <2>5. UNCHANGED <<api, status, queue, service, served>>
    BY <1>1 DEF Start
  <2> QED
    BY <1>u, <1>s, <1>p, <2>2, <2>3, <2>4, <2>5, ServedByWorker DEF queue
<1>2. ASSUME SweepNext(w) PROVE ServedInv'
  <2>1. PICK e \in worker[w].todo :
          LET fn   == functions[request[e].name]
              rest == [worker[w] EXCEPT !.todo = @ \ {e}]
          IN
          /\ worker[w].pc = "sweep"
          /\ \/ /\ worker' = [worker EXCEPT ![w] = [rest EXCEPT !.pc = "building", !.dep = e,
                                                              !.version = fn.version]]
                /\ UNCHANGED status
             \/ /\ worker' = [worker EXCEPT ![w] = rest]
                /\ WorkerWrites(e, "failed")
          /\ UNCHANGED <<api, queue, service, crashes, served>>
    BY <1>2 DEF SweepNext
  <2>2. e \in 1..lastDeployment /\ e \in Deployments
    BY <1>u
  <2>3. \A v \in Workers : v # w => worker'[v] = worker[v]
    BY <1>t, <2>1 DEF TypeOK
  <2>4. UNCHANGED <<api, queue, service, served>>
    BY <2>1
  <2>5. CASE /\ worker'[w] = [[worker[w] EXCEPT !.todo = @ \ {e}] EXCEPT
                      !.pc = "building", !.dep = e,
                      !.version = functions[request[e].name].version]
             /\ UNCHANGED status
    <3>1. /\ worker'[w].todo = worker[w].todo \ {e}
          /\ worker'[w].pc = "building"
          /\ worker'[w].dep = e
          /\ worker'[w].version = functions[request[e].name].version
      BY <1>t, <2>5 DEF TypeOK, WorkerStates
    <3>2. status[e] # "none" => functions[request[e].name].version >= request[e].version
      BY <2>2 DEF ServedInv, RowsCurrent
    <3> QED
      BY <1>u, <1>s, <2>2, <2>3, <2>4, <2>5, <3>1, <3>2, ServedByWorker DEF queue
  <2>6. CASE worker'[w] = [worker[w] EXCEPT !.todo = @ \ {e}] /\ WorkerWrites(e, "failed")
    <3>1. worker'[w].todo = worker[w].todo \ {e} /\ worker'[w].pc = "sweep"
      BY <1>t, <2>1, <2>6 DEF TypeOK, WorkerStates
    <3>2. \A c \in Deployments : /\ status'[c] # "none" => status[c] # "none"
                                 /\ status'[c] = "running" => status[c] = "running"
      BY <1>t, <1>x, <2>6, StatusFrame
    <3> QED
      BY <1>u, <1>s, <1>p, <2>3, <2>4, <3>1, <3>2, ServedByWorker DEF queue
  <2> QED
    BY <1>t, <2>1, <2>5, <2>6 DEF TypeOK
<1>3. ASSUME SweepDone(w) PROVE ServedInv'
  <2>1. /\ worker'[w].pc = "fetch" /\ worker'[w].todo = worker[w].todo
        /\ \A v \in Workers : v # w => worker'[v] = worker[v]
    BY <1>3, <1>t DEF SweepDone, Go, TypeOK, WorkerStates
  <2>2. UNCHANGED <<api, status, queue, service, served>>
    BY <1>3 DEF SweepDone
  <2> QED
    BY <1>u, <1>s, <1>p, <2>1, <2>2, ServedByWorker DEF queue
<1>d. ASSUME NEW e \in 1..lastDeployment, Deliver(w, e)
      PROVE  /\ worker'[w].pc = "building" /\ worker'[w].todo = {}
             /\ worker'[w].dep = e /\ worker'[w].version = request[e].version
             /\ request[e].version >= request[e].version
             /\ \A v \in Workers : v # w => worker'[v] = worker[v]
  BY <1>d, <1>t, <1>u DEF Deliver, TypeOK, Versions
<1>4. ASSUME FetchRedelivered(w) PROVE ServedInv'
  <2>1. PICK e \in redeliver : Deliver(w, e)
    BY <1>4 DEF FetchRedelivered
  <2>2. e \in 1..lastDeployment
    BY <1>t, <1>u DEF TypeOK
  <2>3. UNCHANGED <<api, status, unseen, pending, service, served>>
    BY <1>4 DEF FetchRedelivered
  <2> QED
    BY <1>u, <1>s, <1>d, <2>1, <2>2, <2>3, ServedByWorker
<1>5. ASSUME FetchNew(w) PROVE ServedInv'
  <2>1. Deliver(w, Head(unseen)) /\ UNCHANGED <<api, status, service, served>>
    BY <1>5 DEF FetchNew
  <2>2. Head(unseen) \in 1..lastDeployment /\ Tail(unseen) \in Seq(1..lastDeployment)
    <3>1. unseen # <<>> /\ unseen \in Seq(1..lastDeployment)
      BY <1>5, <1>u DEF FetchNew
    <3> QED
      BY <3>1, HeadTail
  <2>3. unseen' = Tail(unseen) /\ pending' \subseteq 1..lastDeployment
    BY <1>5, <1>u, <2>2 DEF FetchNew
  <2> QED
    BY <1>u, <1>s, <1>d, <2>1, <2>2, <2>3, ServedByWorker
<1>g. ASSUME NEW pc, Go(w, pc)
      PROVE  /\ worker'[w].pc = pc /\ worker'[w].todo = worker[w].todo
             /\ worker'[w].dep = d /\ worker'[w].version = worker[w].version
             /\ \A v \in Workers : v # w => worker'[v] = worker[v]
  BY <1>g, <1>t DEF Go, TypeOK, WorkerStates
<1>c. ASSUME Continue(w)
      PROVE  /\ worker'[w].pc \in {"sweep", "fetch"} /\ worker'[w].todo = worker[w].todo
             /\ \A v \in Workers : v # w => worker'[v] = worker[v]
  BY <1>c, <1>t DEF Continue, TypeOK, DownWorker
<1>6. ASSUME SetBuilding(w) PROVE ServedInv'
  <2>1. /\ Go(w, "ensure") /\ WorkerWrites(d, "building") /\ worker[w].pc = "building"
        /\ UNCHANGED <<api, queue, service, served>>
    BY <1>6 DEF SetBuilding
  <2>2. \A c \in Deployments : /\ status'[c] # "none" => status[c] # "none"
                               /\ status'[c] = "running" => status[c] = "running"
    BY <1>t, <1>x, <2>1, StatusFrame
  <2>3. "building" \in Executing
    BY DEF Executing
  <2> QED
    BY <1>u, <1>s, <1>e, <1>g, <2>1, <2>2, <2>3, ServedByWorker DEF queue
<1>7. ASSUME EnsureNamespace(w) PROVE ServedInv'
  <2>1. PICK pc \in {"deploy", "failed"} : Go(w, pc)
    BY <1>7 DEF EnsureNamespace
  <2>2. /\ worker[w].pc = "ensure" /\ UNCHANGED <<api, queue, service, served>>
        /\ WorkerWrites(d, "deploying") \/ UNCHANGED status
    BY <1>7 DEF EnsureNamespace
  <2>3. \A c \in Deployments : /\ status'[c] # "none" => status[c] # "none"
                               /\ status'[c] = "running" => status[c] = "running"
    BY <1>t, <1>x, <2>2, StatusFrame
  <2>4. "ensure" \in Executing
    BY DEF Executing
  <2> QED
    BY <1>u, <1>s, <1>e, <1>g, <2>1, <2>2, <2>3, <2>4, ServedByWorker DEF queue
<1>8. ASSUME Deploy(w) PROVE ServedInv'
  <2> DEFINE v == worker[w].version
  <2>1. /\ worker[w].pc = "deploy" /\ UNCHANGED <<api, status, queue>>
        /\ \/ Go(w, "running") /\ served' = [served EXCEPT ![d] = IF v > @ THEN v ELSE @]
           \/ Go(w, "failed") /\ served' = [served EXCEPT ![d] = IF v > @ THEN v ELSE @]
           \/ Go(w, "failed") /\ served' = served
    BY <1>8 DEF Deploy
  <2>2. /\ d \in Deployments
        /\ status[d] # "none" => v >= request[d].version
    BY <1>u, <1>e, <2>1 DEF Executing
  <2>3. v \in Nat /\ request[d].version \in Nat /\ \A c \in Deployments : served[c] \in Nat
    <3>1. v \in Versions /\ request[d].version \in Versions
      BY <1>t, <2>2 DEF TypeOK, WorkerStates
    <3>2. \A c \in Deployments : served[c] \in Versions
      BY <1>t DEF TypeOK
    <3>3. Versions \subseteq Nat
      BY PipelineAssumption DEF Versions
    <3> QED
      BY <3>1, <3>2, <3>3
  <2>4. \A c \in Deployments : served'[c] >= served[c]
    BY <1>t, <2>1, <2>3 DEF TypeOK
  <2>5. Go(w, "running") => (status[d] # "none" => served'[d] >= request[d].version)
    <3>1. CASE served' = [served EXCEPT ![d] = IF v > @ THEN v ELSE @]
      <4>1. served'[d] >= v
        BY <1>t, <2>2, <2>3, <3>1 DEF TypeOK
      <4>2. served'[d] \in Nat
        BY <1>t, <2>2, <2>3, <3>1 DEF TypeOK
      <4> QED
        BY <2>2, <2>3, <4>1, <4>2
    <3>2. CASE Go(w, "failed")
      BY <1>g, <3>2
    <3> QED
      BY <2>1, <3>1, <3>2
  <2>6. PICK pc \in {"running", "failed"} : Go(w, pc)
    BY <2>1
  <2>7. /\ worker'[w].pc = pc /\ worker'[w].todo = worker[w].todo
        /\ worker'[w].dep = d /\ worker'[w].version = v
        /\ \A x \in Workers : x # w => worker'[x] = worker[x]
    BY <1>g, <2>6
  <2>8. pc = "running" => (status[d] # "none" => served'[d] >= request[d].version)
    BY <2>5, <2>6
  <2>9. /\ d \in 1..lastDeployment
    BY <1>e, <2>1 DEF Executing
  <2> QED
    BY <1>u, <2>1, <2>2, <2>4, <2>7, <2>8, <2>9, ServedByWorker DEF queue
<1>9. ASSUME SetRunning(w) PROVE ServedInv'
  <2>1. /\ worker[w].pc = "running" /\ WorkerWrites(d, "running")
        /\ Continue(w) \/ Go(w, "settle")
        /\ UNCHANGED <<api, queue, service, served>>
    BY <1>9 DEF SetRunning
  <2>2. status[d] # "none" => served[d] >= request[d].version
    BY <2>1 DEF ServedInv, AppliedFirst
  <2>3. \A c \in Deployments :
          /\ status'[c] # "none" => status[c] # "none"
          /\ status'[c] = "running" => status[c] = "running" \/ served[c] >= request[c].version
    BY <1>t, <1>x, <2>1, <2>2, StatusFrame
  <2>4. /\ worker'[w].pc \in {"sweep", "fetch", "settle"} /\ worker'[w].todo = worker[w].todo
        /\ \A v \in Workers : v # w => worker'[v] = worker[v]
    BY <1>c, <1>g, <2>1
  <2> QED
    BY <1>u, <1>s, <1>p, <2>1, <2>3, <2>4, ServedByWorker DEF queue
<1>10. ASSUME GiveUp(w) PROVE ServedInv'
  <2>1. /\ WorkerWrites(d, "failed")
        /\ Continue(w) \/ Go(w, "settle")
        /\ UNCHANGED <<api, queue, service, served>>
    BY <1>10 DEF GiveUp
  <2>2. \A c \in Deployments : /\ status'[c] # "none" => status[c] # "none"
                               /\ status'[c] = "running" => status[c] = "running"
    BY <1>t, <1>x, <2>1, StatusFrame
  <2>3. /\ worker'[w].pc \in {"sweep", "fetch", "settle"} /\ worker'[w].todo = worker[w].todo
        /\ \A v \in Workers : v # w => worker'[v] = worker[v]
    BY <1>c, <1>g, <2>1
  <2> QED
    BY <1>u, <1>s, <1>p, <2>1, <2>2, <2>3, ServedByWorker DEF queue
<1>11. ASSUME Retry(w) \/ Settle(w) PROVE ServedInv'
  <2>1. /\ Continue(w) /\ UNCHANGED <<api, status, unseen, service, served>>
        /\ pending' \subseteq pending
    BY <1>11 DEF Retry, Settle
  <2> QED
    BY <1>u, <1>s, <1>p, <1>c, <2>1, ServedByWorker
<1>12. ASSUME Crash(w) PROVE ServedInv'
  <2>1. /\ worker'[w].pc = "down" /\ worker'[w].todo = {}
        /\ \A v \in Workers : v # w => worker'[v] = worker[v]
    BY <1>12, <1>t DEF Crash, TypeOK, DownWorker
  <2>2. UNCHANGED <<api, status, queue, service, served>>
    BY <1>12 DEF Crash
  <2> QED
    BY <1>u, <1>s, <1>p, <2>1, <2>2, ServedByWorker DEF queue
<1> QED
  BY <1>1, <1>2, <1>3, <1>4, <1>5, <1>6, <1>7, <1>8, <1>9, <1>10, <1>11, <1>12 DEF Work


\* Each step of the message server keeps the invariant.
LEMMA ServedServer ==
  ASSUME ServedInv, TypeOK', NEW d \in Deployments, AckWaitExpires(d) \/ DropExhausted(d)
  PROVE  ServedInv'
<1>1. /\ UNCHANGED <<functions, lastVersion, request, lastDeployment, handler, status,
                     unseen, worker, served>>
      /\ pending' \subseteq pending
  BY DEF AckWaitExpires, DropExhausted, api
<1>2. RowsCurrent' /\ IdsIssued' /\ HandlersCurrent' /\ DeploymentsKnown'
  BY <1>1 DEF ServedInv, RowsCurrent, IdsIssued, HandlersCurrent, DeploymentsKnown
<1>3. WorkersCurrent' /\ AppliedFirst' /\ RunningIsServed'
  BY <1>1 DEF ServedInv, WorkersCurrent, AppliedFirst, RunningIsServed
<1> QED
  BY <1>2, <1>3 DEF ServedInv

\* What a step of request h has to keep when it inserts no deployment.
LEMMA ServedByHandler ==
  ASSUME ServedInv, TypeOK', NEW h \in Handlers,
         UNCHANGED <<request, lastDeployment, pending, worker, served>>,
         RowsCurrent', IdsIssued',
         unseen' \in Seq(1..lastDeployment),
         \A d \in Deployments : /\ status'[d] # "none" => status[d] # "none"
                                /\ status'[d] = "running" => status[d] = "running",
         \A g \in Handlers : g # h => handler'[g] = handler[g],
         \A n \in Names : functions'[n].id # 0 /\ functions'[n].id = functions[n].id
                            => functions'[n].version >= functions[n].version,
         \A n \in Names : functions'[n].id # 0 /\ functions'[n].id # functions[n].id
                            => functions'[n].id > lastVersion,
         handler'[h].pc \in {"publish", "queueError"} => handler'[h].dep <= lastDeployment,
         handler'[h].pc = "deployment" =>
           /\ handler'[h].fid # 0
           /\ LET fn == functions'[handler'[h].name] IN
              fn.id = handler'[h].fid => fn.version >= handler'[h].version
  PROVE  ServedInv'
<1>1. 1..lastDeployment \subseteq Deployments
  BY PipelineAssumption DEF ServedInv, TypeOK, Versions, Deployments
<1>2. HandlersCurrent'
  <2> SUFFICES ASSUME NEW g \in Handlers, handler'[g].pc = "deployment"
               PROVE  /\ handler'[g].fid # 0
                      /\ functions'[handler'[g].name].id = handler'[g].fid
                           => functions'[handler'[g].name].version >= handler'[g].version
    BY DEF HandlersCurrent
  <2>1. CASE g = h
    BY <2>1
  <2>2. CASE g # h
    <3> DEFINE n == handler[g].name
    <3>1. /\ handler'[g] = handler[g] /\ handler[g].fid # 0
          /\ functions[n].id = handler[g].fid => functions[n].version >= handler[g].version
          /\ handler[g].fid <= lastVersion
      BY <2>2 DEF ServedInv, HandlersCurrent, IdsIssued
    <3>2. /\ n \in Names /\ lastVersion \in Nat /\ handler[g].fid \in Nat
          /\ handler[g].version \in Nat
      <4>1. n \in Names /\ handler[g].fid \in Versions /\ handler[g].version \in Versions
        BY DEF ServedInv, TypeOK, HandlerStates
      <4>2. lastVersion \in Versions /\ Versions \subseteq Nat
        BY PipelineAssumption DEF ServedInv, TypeOK, Versions
      <4> QED
        BY <4>1, <4>2
    <3>3. /\ functions'[n].version \in Nat /\ functions[n].version \in Nat
      BY <3>2 DEF ServedInv, TypeOK, Versions
    <3> HIDE DEF n
    <3>4. ASSUME functions'[n].id = handler[g].fid
          PROVE  functions'[n].version >= handler[g].version
      <4>1. functions'[n].id = functions[n].id
        BY <3>1, <3>2, <3>4
      <4> QED
        BY <3>1, <3>2, <3>3, <3>4, <4>1
    <3> QED
      BY <3>1, <3>4 DEF n
  <2> QED
    BY <2>1, <2>2
<1>3. DeploymentsKnown'
  BY DEF ServedInv, DeploymentsKnown
<1>4. \A w \in Workers : worker[w].pc \in Executing => worker[w].dep \in Deployments
  BY <1>1 DEF ServedInv, DeploymentsKnown
<1>5. WorkersCurrent'
  BY <1>4 DEF ServedInv, WorkersCurrent
<1>6. AppliedFirst'
  BY <1>4 DEF ServedInv, AppliedFirst, Executing
<1>7. RunningIsServed'
  BY DEF ServedInv, RunningIsServed
<1> QED
  BY <1>2, <1>3, <1>5, <1>6, <1>7 DEF ServedInv


\* Each step of a request keeps the invariant.
LEMMA ServedHandler ==
  ASSUME ServedInv, TypeOK', NEW h \in Handlers, Accept(h) \/ Proceed(h) \/ Abort(h)
  PROVE  ServedInv'
<1> DEFINE n == handler[h].name
<1> DEFINE v == lastVersion + 1
<1>t. TypeOK
  BY DEF ServedInv
<1>n. /\ n \in Names /\ lastVersion \in Nat /\ lastDeployment \in Nat
      /\ Versions \subseteq Nat
      /\ lastVersion \in Versions /\ lastDeployment \in Versions
      /\ 1..lastDeployment \subseteq Deployments
  <2>1. n \in Names
    BY <1>t DEF TypeOK, HandlerStates
  <2>2. lastVersion \in Versions /\ lastDeployment \in Versions
    BY <1>t DEF TypeOK
  <2> QED
    BY <2>1, <2>2, PipelineAssumption DEF Versions, Deployments
<1>f. \A m \in Names : functions[m].id \in Nat /\ functions[m].version \in Nat
  <2>1. \A m \in Names : functions[m].id \in Versions /\ functions[m].version \in Versions
    BY <1>t DEF TypeOK
  <2> QED
    BY <1>n, <2>1
<1>q. unseen \in Seq(1..lastDeployment) /\ pending \subseteq 1..lastDeployment
  BY DEF ServedInv, DeploymentsKnown
<1>h. \A g \in Handlers : handler[g].fid <= lastVersion
  BY DEF ServedInv, IdsIssued
<1>i. ASSUME NEW r, handler' = [handler EXCEPT ![h] = r]
      PROVE  handler'[h] = r /\ \A g \in Handlers : g # h => handler'[g] = handler[g]
  BY <1>i, <1>t DEF TypeOK
<1>z. /\ IdleHandler.fid = 0 /\ IdleHandler.pc = "idle"
      /\ \A p \in {"insert", "write", "undeploy"}, m \in Names :
           /\ [IdleHandler EXCEPT !.pc = p, !.name = m].fid = 0
           /\ [IdleHandler EXCEPT !.pc = p, !.name = m].pc = p
  BY DEF IdleHandler
<1>1. ASSUME \/ \E m \in Names : CreateCheck(h, m) \/ UpdateRead(h, m)
             \/ Publish(h) \/ Undeploy(h) \/ Abort(h) \/ PublishError(h)
             \/ MarkQueueError(h)
      PROVE  ServedInv'
  <2>1. /\ UNCHANGED <<functions, lastVersion, request, lastDeployment, pending, worker,
                       served>>
        /\ UNCHANGED status \/ status' = WithStatus(handler[h].dep, "failed")
    BY <1>1 DEF CreateCheck, UpdateRead, Publish, Undeploy, Abort, PublishError,
                MarkQueueError, queue
  <2>2. \A d \in Deployments : /\ status'[d] # "none" => status[d] # "none"
                               /\ status'[d] = "running" => status[d] = "running"
    BY <1>t, <2>1, StatusFrame DEF Statuses
  <2>3. unseen' \in Seq(1..lastDeployment)
    <3>1. CASE Publish(h) \/ PublishError(h)
      <4>1. handler[h].dep \in 1..lastDeployment
        <5>1. handler[h].dep \in Deployments /\ handler[h].dep <= lastDeployment
          BY <1>t, <3>1 DEF Publish, PublishError, TypeOK, ServedInv, DeploymentsKnown
        <5> QED
          BY <1>n, <5>1, PipelineAssumption DEF Deployments
      <4>2. unseen' = unseen \/ unseen' = Append(unseen, handler[h].dep)
        BY <3>1 DEF Publish, PublishError
      <4> QED
        BY <1>q, <4>1, <4>2, AppendType
    <3>2. CASE UNCHANGED unseen
      BY <1>q, <3>2
    <3> QED
      BY <1>1, <3>1, <3>2 DEF CreateCheck, UpdateRead, Undeploy, Abort, MarkQueueError, queue
  <2>4. PICK r : /\ handler' = [handler EXCEPT ![h] = r]
                 /\ r.fid = 0 \/ (r.fid = handler[h].fid /\ r.pc = "queueError"
                                    /\ r.dep <= lastDeployment)
                 /\ r.pc \in {"idle", "insert", "write", "queueError"}
                 /\ r.pc = "queueError" => r.dep <= lastDeployment
    <3>1. CASE \E m \in Names : CreateCheck(h, m) \/ UpdateRead(h, m)
      BY <1>z, <3>1 DEF CreateCheck, UpdateRead
    <3>2. CASE Publish(h) \/ Undeploy(h) \/ Abort(h) \/ MarkQueueError(h)
      BY <1>z, <3>2 DEF Publish, Undeploy, Abort, MarkQueueError
    <3>3. CASE PublishError(h)
      <4>1. handler' = [handler EXCEPT ![h] = [handler[h] EXCEPT !.pc = "queueError"]]
        BY <3>3 DEF PublishError
      <4>2. handler[h].dep <= lastDeployment
        BY <3>3 DEF PublishError, ServedInv, DeploymentsKnown
      <4>3. /\ [handler[h] EXCEPT !.pc = "queueError"].fid = handler[h].fid
            /\ [handler[h] EXCEPT !.pc = "queueError"].dep = handler[h].dep
            /\ [handler[h] EXCEPT !.pc = "queueError"].pc = "queueError"
        BY <1>t DEF TypeOK, HandlerStates
      <4> QED
        BY <4>1, <4>2, <4>3
    <3> QED
      BY <1>1, <3>1, <3>2, <3>3
  <2>5. IdsIssued'
    <3>1. \A g \in Handlers : handler'[g].fid <= lastVersion
      BY <1>h, <1>i, <1>n, <2>4
    <3> QED
      BY <2>1, <3>1 DEF ServedInv, IdsIssued
  <2>6. RowsCurrent'
    BY <2>1, <2>2 DEF ServedInv, RowsCurrent
  <2>7. /\ \A g \in Handlers : g # h => handler'[g] = handler[g]
        /\ handler'[h].pc # "deployment"
        /\ handler'[h].pc \in {"publish", "queueError"} => handler'[h].dep <= lastDeployment
    BY <1>i, <2>4
  <2>8. \A k \in Names : functions'[k].id = functions[k].id
                         /\ functions'[k].version >= functions[k].version
    BY <1>f, <2>1
  <2> QED
    BY <2>1, <2>2, <2>3, <2>5, <2>6, <2>7, <2>8, ServedByHandler
<1>2. ASSUME NEW m \in Names, DeleteRow(h, m) PROVE ServedInv'
  <2>1. /\ functions' = [functions EXCEPT ![m] = NoFunction]
        /\ handler' = [handler EXCEPT ![h] = [IdleHandler EXCEPT !.pc = "undeploy", !.name = m]]
        /\ \A d \in Deployments :
             /\ status'[d] = status[d] \/ status'[d] = "none"
             /\ status[d] # "none" /\ request[d].fid = functions[m].id => status'[d] = "none"
        /\ UNCHANGED <<lastVersion, request, lastDeployment, queue, worker, served>>
    BY <1>2 DEF DeleteRow
  <2>2. NoFunction.id = 0 /\ NoFunction.version = 0
    BY DEF NoFunction
  <2>3. functions'[m] = NoFunction /\ \A k \in Names : k # m => functions'[k] = functions[k]
    BY <1>t, <2>1 DEF TypeOK
  <2>4. RowsCurrent'
    <3> SUFFICES ASSUME NEW d \in Deployments, status'[d] # "none"
                 PROVE  /\ d <= lastDeployment
                        /\ functions'[request[d].name] # NoFunction
                        /\ functions'[request[d].name].id = request[d].fid
                        /\ functions'[request[d].name].version >= request[d].version
      BY <2>1 DEF RowsCurrent
    <3>1. status[d] # "none" /\ request[d].fid # functions[m].id
      BY <2>1
    <3>2. request[d].name # m /\ request[d].name \in Names
      BY <1>t, <3>1 DEF ServedInv, RowsCurrent, TypeOK
    <3> QED
      BY <2>3, <3>1, <3>2 DEF ServedInv, RowsCurrent
  <2>5. IdsIssued'
    <3>1. \A g \in Handlers : handler'[g].fid <= lastVersion
      BY <1>h, <1>i, <1>n, <1>z, <2>1
    <3> QED
      BY <1>n, <2>1, <2>2, <2>3, <3>1 DEF ServedInv, IdsIssued
  <2>6. \A k \in Names : functions'[k].id # 0 => functions'[k] = functions[k]
    BY <2>2, <2>3
  <2>7. /\ \A g \in Handlers : g # h => handler'[g] = handler[g]
        /\ handler'[h].pc = "undeploy"
    <3>1. handler'[h] = [IdleHandler EXCEPT !.pc = "undeploy", !.name = m]
      BY <1>t, <2>1 DEF TypeOK
    <3>2. \A g \in Handlers : g # h => handler'[g] = handler[g]
      BY <1>t, <2>1 DEF TypeOK
    <3> QED
      BY <1>z, <3>1, <3>2
  <2>8. \A k \in Names : functions'[k].id # 0 =>
          functions'[k].id = functions[k].id /\ functions'[k].version >= functions[k].version
    BY <1>f, <2>6
  <2>9. /\ UNCHANGED <<request, lastDeployment, pending, worker, served>>
        /\ unseen' \in Seq(1..lastDeployment)
    BY <1>q, <2>1 DEF queue
  <2>10. \A d \in Deployments : /\ status'[d] # "none" => status[d] # "none"
                                /\ status'[d] = "running" => status[d] = "running"
    BY <2>1
  <2> QED
    BY <2>4, <2>5, <2>7, <2>8, <2>9, <2>10, ServedByHandler
<1>3. ASSUME CreateInsert(h) \/ UpdateWrite(h) PROVE ServedInv'
  <2>1. /\ UNCHANGED <<request, status, lastDeployment, queue, worker, served>>
        /\ \/ \E i \in {v, functions[n].id} :
              /\ i # 0
              /\ i = v \/ i = functions[n].id
              /\ functions[n] = NoFunction => i = v
              /\ functions[n] # NoFunction => i = functions[n].id
              /\ lastVersion' = v
              /\ functions'[n] = [id |-> i, version |-> v]
              /\ \A k \in Names : k # n => functions'[k] = functions[k]
              /\ handler' = [handler EXCEPT ![h] =
                               [@ EXCEPT !.pc = "deployment", !.fid = i, !.version = v]]
           \/ UNCHANGED <<functions, lastVersion>>
              /\ handler' = [handler EXCEPT ![h] = IdleHandler]
    <3>0. v # 0
      BY <1>n
    <3>1. CASE CreateInsert(h)
      BY <1>t, <1>n, <3>0, <3>1 DEF CreateInsert, TypeOK
    <3>2. CASE UpdateWrite(h)
      <4>1. CASE functions[n] = NoFunction
        BY <3>2, <4>1 DEF UpdateWrite
      <4>2. CASE functions[n] # NoFunction
        <5>1. functions[n].id # 0
          BY <1>n, <4>2 DEF ServedInv, IdsIssued
        <5>2. /\ functions' = [functions EXCEPT ![n].version = v]
              /\ lastVersion' = v
              /\ handler' = [handler EXCEPT ![h] = [@ EXCEPT !.pc = "deployment",
                                      !.fid = functions[n].id, !.version = v]]
          BY <3>2, <4>2 DEF UpdateWrite
        <5>3. functions'[n] = [id |-> functions[n].id, version |-> v]
          BY <1>t, <1>n, <5>2 DEF TypeOK
        <5>4. \A k \in Names : k # n => functions'[k] = functions[k]
          BY <1>t, <1>n, <5>2 DEF TypeOK
        <5> QED
          BY <3>2, <4>2, <5>1, <5>2, <5>3, <5>4 DEF UpdateWrite
      <4> QED
        BY <4>1, <4>2
    <3> QED
      BY <1>3, <3>1, <3>2
  <2>2. /\ UNCHANGED <<request, lastDeployment, pending, worker, served>>
        /\ unseen' \in Seq(1..lastDeployment)
    BY <1>q, <2>1 DEF queue
  <2>3. CASE /\ UNCHANGED <<functions, lastVersion>>
             /\ handler' = [handler EXCEPT ![h] = IdleHandler]
    <3>1. handler'[h] = IdleHandler /\ \A g \in Handlers : g # h => handler'[g] = handler[g]
      BY <1>i, <2>3
    <3>2. \A g \in Handlers : handler'[g].fid <= lastVersion
      BY <1>h, <1>n, <1>z, <3>1
    <3>3. IdsIssued' /\ RowsCurrent'
      BY <2>1, <2>3, <3>2 DEF ServedInv, IdsIssued, RowsCurrent
    <3>4. \A k \in Names : functions'[k].id = functions[k].id
                           /\ functions'[k].version >= functions[k].version
      BY <1>f, <2>3
    <3>5. \A d \in Deployments : status'[d] = status[d]
      BY <2>1
    <3> QED
      BY <1>z, <2>2, <3>1, <3>3, <3>4, <3>5, ServedByHandler
  <2>4. ASSUME NEW i, i # 0,
               functions[n] = NoFunction => i = v,
               functions[n] # NoFunction => i = functions[n].id,
               lastVersion' = v,
               functions'[n] = [id |-> i, version |-> v],
               \A k \in Names : k # n => functions'[k] = functions[k],
               handler' = [handler EXCEPT ![h] =
                             [@ EXCEPT !.pc = "deployment", !.fid = i, !.version = v]]
        PROVE  ServedInv'
    <3>1. /\ handler'[h].pc = "deployment" /\ handler'[h].fid = i
          /\ handler'[h].version = v /\ handler'[h].name = n
          /\ \A g \in Handlers : g # h => handler'[g] = handler[g]
      BY <1>t, <2>4 DEF TypeOK, HandlerStates
    <3>2. i <= v /\ i \in Nat /\ lastVersion < v /\ v \in Nat /\ v >= v
      BY <1>f, <1>n, <2>4 DEF ServedInv, IdsIssued
    <3>3. functions'[n].id = i /\ functions'[n].version = v
      BY <2>4
    <3>4. \A k \in Names : functions[k].id <= lastVersion /\ functions[k].version <= lastVersion
      BY DEF ServedInv, IdsIssued
    <3>5. IdsIssued'
      <4>1. \A k \in Names : functions'[k].id <= v /\ functions'[k].version <= v
        BY <1>f, <1>n, <2>4, <3>2, <3>3, <3>4
      <4>2. \A k \in Names : functions'[k] # NoFunction => functions'[k].id # 0
        BY <2>4, <3>3 DEF ServedInv, IdsIssued
      <4>3. \A g \in Handlers : handler[g].fid \in Nat
        <5>1. \A g \in Handlers : handler[g].fid \in Versions
          BY <1>t DEF TypeOK, HandlerStates
        <5> QED
          BY <1>n, <5>1
      <4>4. \A g \in Handlers : handler'[g].fid <= v
        BY <1>h, <1>n, <3>1, <3>2, <4>3
      <4> QED
        BY <2>4, <4>1, <4>2, <4>4 DEF IdsIssued
    <3>6. RowsCurrent'
      <4> SUFFICES ASSUME NEW d \in Deployments, status[d] # "none"
                   PROVE  /\ d <= lastDeployment
                          /\ functions'[request[d].name] # NoFunction
                          /\ functions'[request[d].name].id = request[d].fid
                          /\ functions'[request[d].name].version >= request[d].version
        BY <2>1 DEF RowsCurrent
      <4> DEFINE m == request[d].name
      <4>1. /\ d <= lastDeployment /\ functions[m] # NoFunction
            /\ functions[m].id = request[d].fid
            /\ functions[m].version >= request[d].version
        BY DEF ServedInv, RowsCurrent
      <4>2. m \in Names /\ request[d].version \in Nat
        <5>1. m \in Names /\ request[d].version \in Versions
          BY <1>t DEF TypeOK
        <5> QED
          BY <1>n, <5>1
      <4>3. CASE m # n
        BY <2>4, <4>1, <4>2, <4>3
      <4>4. CASE m = n
        <5>1. v >= request[d].version
          BY <1>f, <1>n, <3>4, <4>1, <4>2
        <5>2. NoFunction.id = 0
          BY DEF NoFunction
        <5> QED
          BY <2>4, <3>3, <4>1, <4>4, <5>1, <5>2
      <4> QED
        BY <4>3, <4>4
    <3>7. \A k \in Names : functions'[k].id # 0 /\ functions'[k].id = functions[k].id
                             => functions'[k].version >= functions[k].version
      BY <1>f, <1>n, <2>4, <3>3, <3>4
    <3>8. \A k \in Names : functions'[k].id # 0 /\ functions'[k].id # functions[k].id
                             => functions'[k].id > lastVersion
      BY <1>f, <1>n, <2>4, <3>2, <3>3
    <3>9. \A d \in Deployments : status'[d] = status[d]
      BY <2>1
    <3> QED
      BY <1>n, <2>2, <2>4, <3>1, <3>2, <3>3, <3>5, <3>6, <3>7, <3>8, <3>9, ServedByHandler
  <2> QED
    BY <2>1, <2>3, <2>4
<1>4. ASSUME InsertDeployment(h), functions[n].id # handler[h].fid PROVE ServedInv'
  <2>1. /\ handler' = [handler EXCEPT ![h] = IdleHandler]
        /\ UNCHANGED <<functions, lastVersion, request, status, lastDeployment, queue,
                       worker, served>>
    BY <1>4 DEF InsertDeployment
  <2>2. handler'[h] = IdleHandler /\ \A g \in Handlers : g # h => handler'[g] = handler[g]
    BY <1>i, <2>1
  <2>3. \A g \in Handlers : handler'[g].fid <= lastVersion
    BY <1>h, <1>n, <1>z, <2>2
  <2>4. IdsIssued' /\ RowsCurrent'
    BY <2>1, <2>3 DEF ServedInv, IdsIssued, RowsCurrent
  <2>5. \A k \in Names : functions'[k].id = functions[k].id
                         /\ functions'[k].version >= functions[k].version
    BY <1>f, <2>1
  <2>6. /\ UNCHANGED <<request, lastDeployment, pending, worker, served>>
        /\ unseen' \in Seq(1..lastDeployment)
        /\ \A d \in Deployments : status'[d] = status[d]
    BY <1>q, <2>1 DEF queue
  <2> QED
    BY <1>z, <2>2, <2>4, <2>5, <2>6, ServedByHandler
<1>5. ASSUME InsertDeployment(h), functions[n].id = handler[h].fid PROVE ServedInv'
  <2> DEFINE d == lastDeployment + 1
  <2>1. /\ handler[h].pc = "deployment"
        /\ lastDeployment < MaxVersion
        /\ lastDeployment' = d
        /\ status' = [status EXCEPT ![d] = "queued"]
        /\ request' = [request EXCEPT ![d] = [name |-> n, fid |-> handler[h].fid,
                                              version |-> handler[h].version]]
        /\ handler' = [handler EXCEPT ![h] = [@ EXCEPT !.pc = "publish", !.dep = d]]
        /\ UNCHANGED <<functions, lastVersion, queue, worker, served>>
    BY <1>5 DEF InsertDeployment
  <2>2. d \in Deployments /\ 1..lastDeployment \subseteq 1..d
    BY <1>n, <2>1, PipelineAssumption DEF Deployments
  <2>3. /\ handler'[h].pc = "publish" /\ handler'[h].dep = d
        /\ handler'[h].fid = handler[h].fid
        /\ \A g \in Handlers : g # h => handler'[g] = handler[g]
    BY <1>t, <2>1 DEF TypeOK, HandlerStates
  <2>4. /\ status'[d] = "queued"
        /\ request'[d].name = n /\ request'[d].fid = handler[h].fid
        /\ request'[d].version = handler[h].version
        /\ \A e \in Deployments : e # d => status'[e] = status[e] /\ request'[e] = request[e]
    BY <1>t, <2>1, <2>2 DEF TypeOK
  <2>5. ASSUME NEW e \in 1..lastDeployment
        PROVE  e \in Deployments /\ status'[e] = status[e] /\ request'[e] = request[e]
    BY <1>n, <2>4
  <2>6. RowsCurrent'
    <3> SUFFICES ASSUME NEW e \in Deployments, status'[e] # "none"
                 PROVE  /\ e <= d
                        /\ functions[request'[e].name] # NoFunction
                        /\ functions[request'[e].name].id = request'[e].fid
                        /\ functions[request'[e].name].version >= request'[e].version
      BY <2>1 DEF RowsCurrent
    <3>1. CASE e = d
      <4>1. /\ handler[h].fid # 0
            /\ functions[n].version >= handler[h].version
        BY <1>5, <2>1 DEF ServedInv, HandlersCurrent
      <4>2. NoFunction.id = 0
        BY DEF NoFunction
      <4> QED
        BY <1>5, <1>n, <2>4, <3>1, <4>1, <4>2
    <3>2. CASE e # d
      <4>1. /\ e <= lastDeployment
            /\ functions[request[e].name] # NoFunction
            /\ functions[request[e].name].id = request[e].fid
            /\ functions[request[e].name].version >= request[e].version
        BY <2>4, <3>2 DEF ServedInv, RowsCurrent
      <4>2. e <= d
        BY <1>n, <2>2, <4>1, PipelineAssumption DEF Deployments
      <4> QED
        BY <2>4, <3>2, <4>1, <4>2
    <3> QED
      BY <3>1, <3>2
  <2>7. IdsIssued'
    <3>1. \A g \in Handlers : handler'[g].fid <= lastVersion
      BY <1>h, <2>3
    <3> QED
      BY <2>1, <3>1 DEF ServedInv, IdsIssued
  <2>8. HandlersCurrent'
    BY <2>1, <2>3 DEF ServedInv, HandlersCurrent
  <2>9. DeploymentsKnown'
    <3>1. ASSUME NEW g \in Handlers, handler'[g].pc \in {"publish", "queueError"}
          PROVE  handler'[g].dep <= d
      <4>1. CASE g = h
        BY <1>n, <2>3, <4>1
      <4>2. CASE g # h
        <5>1. handler'[g] = handler[g] /\ handler[g].dep <= lastDeployment
          BY <2>3, <3>1, <4>2 DEF ServedInv, DeploymentsKnown
        <5>2. handler[g].dep \in Versions
          BY <1>t DEF TypeOK, HandlerStates
        <5>3. handler[g].dep \in Nat /\ lastDeployment \in Nat
          BY <1>n, <5>2
        <5>4. handler[g].dep <= d
          BY <5>1, <5>3
        <5> QED
          BY <5>1, <5>4
      <4> QED
        BY <4>1, <4>2
    <3>2. unseen \in Seq(1..d)
      BY <1>q, <2>2, SeqMonotone
    <3>3. /\ pending \subseteq 1..d
          /\ \A w \in Workers : /\ worker[w].todo \subseteq 1..d
                                /\ worker[w].pc \in Executing => worker[w].dep \in 1..d
      BY <2>2 DEF ServedInv, DeploymentsKnown
    <3> QED
      BY <2>1, <3>1, <3>2, <3>3 DEF DeploymentsKnown, queue
  <2>10. WorkersCurrent'
    <3>1. \A w \in Workers : worker[w].pc \in Executing => worker[w].dep \in 1..lastDeployment
      BY DEF ServedInv, DeploymentsKnown
    <3> QED
      BY <2>1, <2>5, <3>1 DEF ServedInv, WorkersCurrent
  <2>11. AppliedFirst'
    <3>1. \A w \in Workers : worker[w].pc = "running" => worker[w].dep \in 1..lastDeployment
      BY DEF ServedInv, DeploymentsKnown, Executing
    <3> QED
      BY <2>1, <2>5, <3>1 DEF ServedInv, AppliedFirst
  <2>12. RunningIsServed'
    BY <2>1, <2>4 DEF ServedInv, RunningIsServed
  <2> QED
    BY <2>6, <2>7, <2>8, <2>9, <2>10, <2>11, <2>12 DEF ServedInv
<1> QED
  BY <1>1, <1>2, <1>3, <1>4, <1>5 DEF Accept, Proceed

LEMMA ServedInit == Init => ServedInv
<1> SUFFICES ASSUME Init PROVE ServedInv
  OBVIOUS
<1>1. TypeOK
  BY TypeInit
<1>2. /\ \A n \in Names : functions[n] = NoFunction
      /\ \A h \in Handlers : handler[h] = IdleHandler
      /\ \A w \in Workers : worker[w].pc \in {"down", "fetch"} /\ worker[w].todo = {}
      /\ \A d \in Deployments : status[d] = "none"
      /\ lastVersion = 0 /\ unseen = <<>> /\ pending = {}
  BY DEF Init, DownWorker
<1>3. /\ NoFunction.id = 0 /\ NoFunction.version = 0
      /\ IdleHandler.pc = "idle" /\ IdleHandler.fid = 0
      /\ {"down", "fetch"} \cap Executing = {}
  BY DEF NoFunction, IdleHandler, Executing
<1>4. RowsCurrent /\ IdsIssued /\ HandlersCurrent
  BY <1>2, <1>3 DEF RowsCurrent, IdsIssued, HandlersCurrent
<1>5. DeploymentsKnown
  BY <1>2, <1>3 DEF DeploymentsKnown
<1>6. WorkersCurrent /\ AppliedFirst /\ RunningIsServed
  BY <1>2, <1>3 DEF WorkersCurrent, AppliedFirst, RunningIsServed, Executing
<1> QED
  BY <1>1, <1>4, <1>5, <1>6 DEF ServedInv

LEMMA ServedNext == ServedInv /\ [Next]_vars => ServedInv'
<1> SUFFICES ASSUME ServedInv, [Next]_vars PROVE ServedInv'
  OBVIOUS
<1>1. TypeOK'
  BY TypeNext DEF ServedInv
<1>2. CASE Next
  BY <1>1, <1>2, ServedHandler, ServedWorker, ServedServer DEF Next
<1>3. CASE UNCHANGED vars
  <2>1. TypeOK' /\ RowsCurrent' /\ IdsIssued' /\ HandlersCurrent' /\ DeploymentsKnown'
    BY <1>1, <1>3
    DEF ServedInv, RowsCurrent, IdsIssued, HandlersCurrent, DeploymentsKnown, vars
  <2>2. WorkersCurrent' /\ AppliedFirst' /\ RunningIsServed'
    BY <1>3 DEF ServedInv, WorkersCurrent, AppliedFirst, RunningIsServed, vars
  <2> QED
    BY <2>1, <2>2 DEF ServedInv
<1> QED
  BY <1>2, <1>3

\* Whatever crashes, errors and redeliveries occur, a deployment that says
\* "running" was accepted by Knative with content at least as new as requested.
THEOREM RunningServed == Spec => []RunningIsServed
<1>1. ServedInv => RunningIsServed
  BY DEF ServedInv
<1> QED
  BY <1>1, ServedInit, ServedNext, PTL DEF Spec


-----------------------------------------------------------------------------
(* Where a message is.  Unless an ack wait can run out while another worker *)
(* is there to take the message, it is with the handler that publishes it,  *)
(* in the queue, due again, or in the hand of one worker.                   *)

\* The ack wait is long enough, or nobody is there to profit from a short one.
Patient == "earlyExpiry" \notin Faults \/ \A v, w \in Workers : v = w

Queued(d)   == \E i \in 1..Len(unseen) : unseen[i] = d
ToSend(h, d) == handler[h].pc = "publish" /\ handler[h].dep = d

MessagesPlaced ==
  \A d \in Deployments :
    /\ deliveries[d] <= MaxDeliver
    /\ d > lastDeployment \/ Queued(d) => d \notin pending /\ deliveries[d] = 0
    /\ \A h \in Handlers : ToSend(h, d) =>
         /\ ~ Queued(d) /\ d \notin pending /\ deliveries[d] = 0
         /\ \A g \in Handlers : ToSend(g, d) => g = h
    /\ \A w \in Workers : Holds(w, d) =>
         /\ d \in pending /\ ("earlyExpiry" \in Faults \/ d \notin redeliver)
         /\ worker[w].attempt = deliveries[d]
         /\ \A v \in Workers : Holds(v, d) => v = w

QueueDistinct == \A i, j \in 1..Len(unseen) : unseen[i] = unseen[j] => i = j

\* A worker sweeps only before its first message.
SweepsFirst ==
  \A w \in Workers :
    /\ worker[w].pc = "sweep" => worker[w].via = "sweep"
    /\ worker[w].pc = "settle" => worker[w].via = "message"
    /\ worker[w].pc = "fetch" \/ worker[w].via = "message" => worker[w].todo = {}

PlacedInv == ServedInv /\ MessagesPlaced /\ QueueDistinct /\ SweepsFirst

\* A queue with one more element.
LEMMA Appended ==
  ASSUME NEW S, NEW q \in Seq(S), NEW x \in S
  PROVE  /\ Len(Append(q, x)) = Len(q) + 1
         /\ \A i \in 1..(Len(q) + 1) : Append(q, x)[i] = IF i <= Len(q) THEN q[i] ELSE x
OBVIOUS

\* A queue without its first element.
LEMMA Shortened ==
  ASSUME NEW S, NEW q \in Seq(S), q # <<>>
  PROVE  /\ Len(q) \in Nat /\ Len(q) >= 1
         /\ Len(Tail(q)) = Len(q) - 1
         /\ Head(q) = q[1]
         /\ \A i \in 1..(Len(q) - 1) : Tail(q)[i] = q[i + 1]
OBVIOUS

\* The published request is the only new one in the queue, and the last.
LEMMA QueueGrows ==
  ASSUME unseen \in Seq(Deployments), QueueDistinct, NEW x \in Deployments, ~ Queued(x),
         unseen' = Append(unseen, x)
  PROVE  /\ QueueDistinct'
         /\ \A d \in Deployments : Queued(d)' <=> Queued(d) \/ d = x
<1>1. /\ Len(unseen) \in Nat
      /\ Len(unseen') = Len(unseen) + 1
      /\ \A i \in 1..(Len(unseen) + 1) :
           unseen'[i] = IF i <= Len(unseen) THEN unseen[i] ELSE x
  BY Appended
<1>2. \A d \in Deployments : Queued(d)' <=> Queued(d) \/ d = x
  <2>1. ASSUME NEW d \in Deployments, Queued(d) PROVE Queued(d)'
    <3>1. PICK i \in 1..Len(unseen) : unseen[i] = d
      BY <2>1 DEF Queued
    <3>2. i \in 1..(Len(unseen) + 1) /\ unseen'[i] = d
      BY <1>1, <3>1
    <3> QED
      BY <1>1, <3>2 DEF Queued
  <2>2. Queued(x)'
    <3>1. Len(unseen) + 1 \in 1..(Len(unseen) + 1) /\ ~ (Len(unseen) + 1 <= Len(unseen))
      BY <1>1
    <3> QED
      BY <1>1, <3>1 DEF Queued
  <2>3. ASSUME NEW d \in Deployments, Queued(d)', d # x PROVE Queued(d)
    <3>1. PICK i \in 1..(Len(unseen) + 1) : unseen'[i] = d
      BY <1>1, <2>3 DEF Queued
    <3>2. i <= Len(unseen)
      BY <1>1, <2>3, <3>1
    <3> QED
      BY <1>1, <3>1, <3>2 DEF Queued
  <2> QED
    BY <2>1, <2>2, <2>3
<1>3. QueueDistinct'
  <2> SUFFICES ASSUME NEW i \in 1..(Len(unseen) + 1), NEW j \in 1..(Len(unseen) + 1),
                      unseen'[i] = unseen'[j]
               PROVE  i = j
    BY <1>1 DEF QueueDistinct
  <2>1. \A k \in 1..Len(unseen) : unseen[k] # x
    BY DEF Queued
  <2> QED
    BY <1>1, <2>1 DEF QueueDistinct
<1> QED
  BY <1>2, <1>3

\* The first request leaves the queue.
LEMMA QueueShrinks ==
  ASSUME unseen \in Seq(Deployments), QueueDistinct, unseen # <<>>, unseen' = Tail(unseen)
  PROVE  /\ QueueDistinct'
         /\ Head(unseen) \in Deployments /\ Queued(Head(unseen))
         /\ \A d \in Deployments : Queued(d)' <=> Queued(d) /\ d # Head(unseen)
<1>1. /\ Len(unseen) \in Nat /\ Len(unseen) >= 1
      /\ Len(unseen') = Len(unseen) - 1
      /\ Head(unseen) = unseen[1]
      /\ \A i \in 1..(Len(unseen) - 1) : unseen'[i] = unseen[i + 1]
  BY Shortened
<1>2. Head(unseen) \in Deployments /\ Queued(Head(unseen))
  <2>1. 1 \in 1..Len(unseen)
    BY <1>1
  <2> QED
    BY <1>1, <2>1 DEF Queued
<1>3. \A d \in Deployments : Queued(d)' <=> Queued(d) /\ d # Head(unseen)
  <2>1. ASSUME NEW d \in Deployments, Queued(d)' PROVE Queued(d) /\ d # Head(unseen)
    <3>1. PICK i \in 1..(Len(unseen) - 1) : unseen'[i] = d
      BY <1>1, <2>1 DEF Queued
    <3>2. i + 1 \in 1..Len(unseen) /\ 1 \in 1..Len(unseen) /\ i + 1 # 1 /\ unseen[i + 1] = d
      BY <1>1, <3>1
    <3> QED
      BY <1>1, <3>2 DEF Queued, QueueDistinct
  <2>2. ASSUME NEW d \in Deployments, Queued(d), d # Head(unseen) PROVE Queued(d)'
    <3>1. PICK i \in 1..Len(unseen) : unseen[i] = d
      BY <2>2 DEF Queued
    <3>2. i - 1 \in 1..(Len(unseen) - 1) /\ (i - 1) + 1 = i
      BY <1>1, <2>2, <3>1
    <3>3. unseen'[i - 1] = d
      BY <1>1, <3>1, <3>2
    <3> QED
      BY <1>1, <3>2, <3>3 DEF Queued
  <2> QED
    BY <2>1, <2>2
<1>4. QueueDistinct'
  <2> SUFFICES ASSUME NEW i \in 1..(Len(unseen) - 1), NEW j \in 1..(Len(unseen) - 1),
                      unseen'[i] = unseen'[j]
               PROVE  i = j
    BY <1>1 DEF QueueDistinct
  <2>1. i + 1 \in 1..Len(unseen) /\ j + 1 \in 1..Len(unseen)
    BY <1>1
  <2>2. unseen[i + 1] = unseen[j + 1]
    BY <1>1
  <2>3. i + 1 = j + 1
    BY <2>1, <2>2 DEF QueueDistinct
  <2> QED
    BY <2>3
<1> QED
  BY <1>2, <1>3, <1>4

LEMMA PlacedInit == Init => PlacedInv
<1> SUFFICES ASSUME Init PROVE PlacedInv
  OBVIOUS
<1>1. ServedInv
  BY ServedInit
<1>2. Len(unseen) = 0
  BY DEF Init
<1>3. QueueDistinct /\ \A d \in Deployments : ~ Queued(d)
  BY <1>2 DEF QueueDistinct, Queued
<1>4. \A w \in Workers : worker[w].pc \in {"down", "fetch"} /\ worker[w].todo = {}
  BY DEF Init, DownWorker
<1>5. SweepsFirst
  BY <1>4 DEF SweepsFirst
<1>6. MessagesPlaced
  <2>1. \A w \in Workers, d \in Deployments : ~ Holds(w, d)
    BY <1>4 DEF Holds, Executing
  <2>2. \A h \in Handlers, d \in Deployments : ~ ToSend(h, d)
    BY DEF Init, ToSend, IdleHandler
  <2> QED
    BY <1>3, <2>1, <2>2, PipelineAssumption DEF Init, MessagesPlaced
<1> QED
  BY <1>1, <1>3, <1>5, <1>6 DEF PlacedInv

\* A handler's step away from the queue: what it may begin to send is new.
LEMMA PlacedByHandler ==
  ASSUME PlacedInv, UNCHANGED <<queue, worker>>, lastDeployment' \in Nat,
         lastDeployment' >= lastDeployment, NEW h \in Handlers,
         \A g \in Handlers \ {h} : handler'[g] = handler[g],
         \A d \in Deployments : ToSend(h, d)' =>
           d > lastDeployment /\ d <= lastDeployment'
  PROVE  MessagesPlaced' /\ QueueDistinct' /\ SweepsFirst'
<1>1. \A d \in Deployments : Queued(d)' <=> Queued(d)
  BY DEF Queued, queue
<1>2. \A w \in Workers, d \in Deployments : Holds(w, d)' <=> Holds(w, d)
  BY DEF Holds
<1>3. QueueDistinct' /\ SweepsFirst'
  BY DEF PlacedInv, QueueDistinct, SweepsFirst, queue
<1>4. ASSUME NEW d \in Deployments
      PROVE  \A g \in Handlers : ToSend(g, d)' =>
               /\ ~ Queued(d) /\ d \notin pending /\ deliveries[d] = 0
               /\ \A f \in Handlers : ToSend(f, d)' => f = g
  <2>1. \A g \in Handlers : ToSend(g, d) => d <= lastDeployment
    BY DEF PlacedInv, ServedInv, DeploymentsKnown, ToSend
  <2>2. \A g \in Handlers \ {h} : ToSend(g, d)' => ToSend(g, d)
    BY DEF ToSend
  <2>3. d \in Nat /\ lastDeployment \in Nat
    BY PipelineAssumption DEF Deployments, PlacedInv, ServedInv, TypeOK, Versions
  <2>4. CASE ToSend(h, d)'
    <3>1. d > lastDeployment
      BY <2>4
    <3>2. \A g \in Handlers : ToSend(g, d)' => g = h
      BY <2>1, <2>2, <2>3, <3>1
    <3>3. ~ Queued(d)
      BY <2>3, <3>1 DEF Queued, PlacedInv, ServedInv, DeploymentsKnown
    <3> QED
      BY <3>1, <3>2, <3>3 DEF PlacedInv, MessagesPlaced
  <2>5. CASE ~ ToSend(h, d)'
    <3>1. \A g \in Handlers : ToSend(g, d)' => ToSend(g, d)
      BY <2>2, <2>5
    <3> QED
      BY <3>1 DEF PlacedInv, MessagesPlaced
  <2> QED
    BY <2>4, <2>5
<1>5. \A d \in Deployments : d > lastDeployment' => d > lastDeployment
  BY PipelineAssumption DEF Deployments, PlacedInv, ServedInv, TypeOK, Versions
<1>6. MessagesPlaced'
  <2>1. \A d \in Deployments :
          /\ deliveries[d] <= MaxDeliver
          /\ d > lastDeployment' \/ Queued(d) => d \notin pending /\ deliveries[d] = 0
          /\ \A w \in Workers : Holds(w, d) =>
               /\ d \in pending /\ ("earlyExpiry" \in Faults \/ d \notin redeliver)
               /\ worker[w].attempt = deliveries[d]
               /\ \A v \in Workers : Holds(v, d) => v = w
    BY <1>5 DEF PlacedInv, MessagesPlaced
  <2> QED
    BY <1>1, <1>2, <1>4, <2>1 DEF MessagesPlaced, queue
<1> QED
  BY <1>3, <1>6

LEMMA PlacedHandler ==
  ASSUME PlacedInv, TypeOK', NEW h \in Handlers, Accept(h) \/ Proceed(h) \/ Abort(h)
  PROVE  MessagesPlaced' /\ QueueDistinct' /\ SweepsFirst'
<1> USE DEF queue
<1>0. /\ TypeOK /\ lastDeployment \in Nat /\ lastDeployment' \in Nat
      /\ lastDeployment >= lastDeployment
  <2>1. TypeOK
    BY DEF PlacedInv, ServedInv
  <2>2. lastDeployment \in Nat /\ lastDeployment' \in Nat
    BY <2>1, PipelineAssumption DEF TypeOK, Versions
  <2> QED
    BY <2>1, <2>2
<1>1. \A n \in Names, p \in HandlerSteps \ {"publish"} :
        handler' = [handler EXCEPT ![h] = [IdleHandler EXCEPT !.pc = p, !.name = n]]
          => /\ \A g \in Handlers \ {h} : handler'[g] = handler[g]
             /\ \A d \in Deployments : ~ ToSend(h, d)'
  BY <1>0 DEF TypeOK, ToSend, IdleHandler
<1>2. handler' = [handler EXCEPT ![h] = IdleHandler]
        => /\ \A g \in Handlers \ {h} : handler'[g] = handler[g]
           /\ \A d \in Deployments : ~ ToSend(h, d)'
  BY <1>0 DEF TypeOK, ToSend, IdleHandler
<1>a. CASE \E n \in Names : CreateCheck(h, n)
  BY <1>0, <1>1, <1>a, PlacedByHandler DEF CreateCheck, HandlerSteps
<1>b. CASE \E n \in Names : UpdateRead(h, n)
  BY <1>0, <1>1, <1>b, PlacedByHandler DEF UpdateRead, HandlerSteps
<1>c. CASE \E n \in Names : DeleteRow(h, n)
  BY <1>0, <1>1, <1>c, PlacedByHandler DEF DeleteRow, HandlerSteps
<1>d. CASE CreateInsert(h)
  <2>1. /\ \A g \in Handlers \ {h} : handler'[g] = handler[g]
        /\ \A d \in Deployments : ~ ToSend(h, d)'
        /\ UNCHANGED <<queue, worker, lastDeployment>>
    BY <1>0, <1>2, <1>d DEF TypeOK, CreateInsert, ToSend, HandlerStates
  <2> QED
    BY <1>0, <2>1, PlacedByHandler
<1>e. CASE UpdateWrite(h)
  <2>1. /\ \A g \in Handlers \ {h} : handler'[g] = handler[g]
        /\ \A d \in Deployments : ~ ToSend(h, d)'
        /\ UNCHANGED <<queue, worker, lastDeployment>>
    BY <1>0, <1>2, <1>e DEF TypeOK, UpdateWrite, ToSend, HandlerStates
  <2> QED
    BY <1>0, <2>1, PlacedByHandler
<1>f. CASE InsertDeployment(h)
  <2>1. CASE handler' = [handler EXCEPT ![h] = IdleHandler] /\ lastDeployment' = lastDeployment
    BY <1>0, <1>2, <1>f, <2>1, PlacedByHandler DEF InsertDeployment
  <2>2. CASE /\ lastDeployment' = lastDeployment + 1
             /\ handler' = [handler EXCEPT ![h] =
                              [handler[h] EXCEPT !.pc = "publish", !.dep = lastDeployment + 1]]
    <3>1. \A g \in Handlers \ {h} : handler'[g] = handler[g]
      BY <1>0, <2>2 DEF TypeOK
    <3>2. handler'[h].dep = lastDeployment + 1
      BY <1>0, <2>2 DEF TypeOK, HandlerStates
    <3>3. \A d \in Deployments : ToSend(h, d)' => d > lastDeployment /\ d <= lastDeployment'
      BY <1>0, <2>2, <3>2 DEF ToSend
    <3>4. UNCHANGED <<queue, worker>>
      BY <1>f DEF InsertDeployment
    <3> QED
      BY <1>0, <2>2, <3>1, <3>3, <3>4, PlacedByHandler
  <2> QED
    BY <1>f, <2>1, <2>2 DEF InsertDeployment
<1>g. CASE Publish(h)
  <2>1. PICK x \in Deployments : x = handler[h].dep
    BY <1>0, <1>g DEF Publish, TypeOK
  <2>2. ToSend(h, x) /\ ~ Queued(x) /\ x \notin pending /\ deliveries[x] = 0
    BY <1>g, <2>1 DEF Publish, ToSend, PlacedInv, MessagesPlaced
  <2>3. /\ QueueDistinct'
        /\ \A d \in Deployments : Queued(d)' <=> Queued(d) \/ d = x
    BY <1>0, <1>g, <2>1, <2>2, QueueGrows DEF Publish, PlacedInv, TypeOK
  <2>4. \A g \in Handlers, d \in Deployments : ToSend(g, d)' => ToSend(g, d) /\ g # h
    BY <1>0, <1>2, <1>g DEF Publish, ToSend
  <2>5. \A g \in Handlers : ToSend(g, x) => g = h
    BY <2>2 DEF PlacedInv, MessagesPlaced
  <2>6. \A w \in Workers, d \in Deployments : Holds(w, d)' <=> Holds(w, d)
    BY <1>g DEF Holds, Publish
  <2>7. SweepsFirst'
    BY <1>g DEF PlacedInv, SweepsFirst, Publish
  <2>8. MessagesPlaced'
    BY <1>g, <2>2, <2>3, <2>4, <2>5, <2>6 DEF Publish, PlacedInv, MessagesPlaced
  <2> QED
    BY <2>3, <2>7, <2>8
<1>h. CASE PublishError(h)
  <2>1. PICK x \in Deployments : x = handler[h].dep
    BY <1>0, <1>h DEF PublishError, TypeOK
  <2>2. ToSend(h, x) /\ ~ Queued(x) /\ x \notin pending /\ deliveries[x] = 0
    BY <1>h, <2>1 DEF PublishError, ToSend, PlacedInv, MessagesPlaced
  <2>3. /\ QueueDistinct'
        /\ \A d \in Deployments : Queued(d)' => Queued(d) \/ d = x
    <3>1. CASE unseen' = unseen
      BY <3>1 DEF QueueDistinct, Queued, PlacedInv
    <3>2. CASE unseen' = Append(unseen, x)
      BY <1>0, <2>2, <3>2, QueueGrows DEF PlacedInv, TypeOK
    <3> QED
      BY <1>h, <2>1, <3>1, <3>2 DEF PublishError
  <2>4. \A g \in Handlers, d \in Deployments : ToSend(g, d)' => ToSend(g, d) /\ g # h
    BY <1>0, <1>h DEF PublishError, ToSend, TypeOK, HandlerStates
  <2>5. \A g \in Handlers : ToSend(g, x) => g = h
    BY <2>2 DEF PlacedInv, MessagesPlaced
  <2>6. \A w \in Workers, d \in Deployments : Holds(w, d)' <=> Holds(w, d)
    BY <1>h DEF Holds, PublishError
  <2>7. SweepsFirst'
    BY <1>h DEF PlacedInv, SweepsFirst, PublishError
  <2>8. x <= lastDeployment
    BY <2>2 DEF PlacedInv, ServedInv, DeploymentsKnown, ToSend
  <2>9. MessagesPlaced'
    BY <1>h, <2>2, <2>3, <2>4, <2>5, <2>6 DEF PublishError, PlacedInv, MessagesPlaced
  <2> QED
    BY <2>3, <2>7, <2>9
<1>i. CASE MarkQueueError(h)
  BY <1>0, <1>2, <1>i, PlacedByHandler DEF MarkQueueError
<1>j. CASE Undeploy(h)
  BY <1>0, <1>2, <1>j, PlacedByHandler DEF Undeploy
<1>k. CASE Abort(h)
  BY <1>0, <1>2, <1>k, PlacedByHandler DEF Abort
<1> QED
  BY <1>a, <1>b, <1>c, <1>d, <1>e, <1>f, <1>g, <1>h, <1>i, <1>j, <1>k DEF Accept, Proceed

\* Worker w takes no message up, and sweeps as before.
TakesNone(w) ==
  /\ \A v \in Workers \ {w} : worker'[v] = worker[v]
  /\ \A d \in Deployments :
       Holds(w, d)' => Holds(w, d) /\ worker'[w].attempt = worker[w].attempt
  /\ worker'[w].pc = "sweep" => worker'[w].via = "sweep"
  /\ worker'[w].pc = "settle" => worker'[w].via = "message"
  /\ worker'[w].pc = "fetch" \/ worker'[w].via = "message" => worker'[w].todo = {}

\* A worker that takes up no message, whatever it lets go of.
LEMMA PlacedByWorker ==
  ASSUME PlacedInv, UNCHANGED <<handler, lastDeployment, unseen, deliveries>>,
         pending' \subseteq pending, NEW w \in Workers, TakesNone(w),
         \A v \in Workers, d \in Deployments :
           Holds(v, d)' /\ d \in pending =>
             d \in pending' /\ (d \in redeliver' => d \in redeliver)
  PROVE  MessagesPlaced' /\ QueueDistinct' /\ SweepsFirst'
<1>1. \A d \in Deployments : Queued(d)' <=> Queued(d)
  BY DEF Queued
<1>2. \A h \in Handlers, d \in Deployments : ToSend(h, d)' <=> ToSend(h, d)
  BY DEF ToSend
<1>3. \A v \in Workers, d \in Deployments :
        Holds(v, d)' => Holds(v, d) /\ worker'[v].attempt = worker[v].attempt
  BY DEF TakesNone, Holds
<1>4. QueueDistinct'
  BY DEF PlacedInv, QueueDistinct
<1>5. SweepsFirst'
  BY DEF PlacedInv, SweepsFirst, TakesNone
<1>6. ASSUME NEW d \in Deployments, NEW v \in Workers, Holds(v, d)'
      PROVE  /\ d \in pending' /\ ("earlyExpiry" \in Faults \/ d \notin redeliver')
             /\ worker'[v].attempt = deliveries[d]
             /\ \A u \in Workers : Holds(u, d)' => u = v
  <2>1. /\ d \in pending /\ ("earlyExpiry" \in Faults \/ d \notin redeliver)
        /\ worker[v].attempt = deliveries[d]
        /\ \A u \in Workers : Holds(u, d) => u = v
    BY <1>3, <1>6 DEF PlacedInv, MessagesPlaced
  <2> QED
    BY <1>3, <1>6, <2>1
<1>7. MessagesPlaced'
  BY <1>1, <1>2, <1>6 DEF PlacedInv, MessagesPlaced
<1> QED
  BY <1>4, <1>5, <1>7

\* On to the next step of a deployment.
LEMMA GoesOn ==
  ASSUME PlacedInv, NEW w \in Workers, worker[w].pc \in Executing,
         NEW pc \in Executing \cup {"settle"}, pc = "settle" => worker[w].via # "sweep", Go(w, pc)
  PROVE  TakesNone(w)
<1>1. /\ worker \in [Workers -> WorkerStates] /\ worker[w] \in WorkerStates
      /\ pc # "sweep" /\ pc # "fetch"
      /\ worker[w].via \in {"sweep", "message"}
      /\ worker[w].via = "message" => worker[w].todo = {}
  BY DEF PlacedInv, ServedInv, TypeOK, Executing, SweepsFirst, WorkerStates
<1>2. /\ \A v \in Workers \ {w} : worker'[v] = worker[v]
      /\ worker'[w] = [worker[w] EXCEPT !.pc = pc]
  BY <1>1 DEF Go
<1>3. /\ worker'[w].pc = pc /\ worker'[w].via = worker[w].via
      /\ worker'[w].dep = worker[w].dep /\ worker'[w].todo = worker[w].todo
      /\ worker'[w].attempt = worker[w].attempt
  BY <1>1, <1>2 DEF WorkerStates
<1> QED
  BY <1>1, <1>2, <1>3 DEF TakesNone, Holds

\* On to the next row or message, with nothing in hand.
LEMMA LetsGo ==
  ASSUME PlacedInv, NEW w \in Workers, Continue(w)
  PROVE  /\ TakesNone(w)
         /\ \A d \in Deployments : ~ Holds(w, d)'
         /\ worker'[w].todo = worker[w].todo
         /\ worker'[w].pc = IF worker[w].via = "sweep" THEN "sweep" ELSE "fetch"
<1>1. /\ worker \in [Workers -> WorkerStates] /\ worker[w] \in WorkerStates
      /\ worker[w].via = "message" => worker[w].todo = {}
  BY DEF PlacedInv, ServedInv, TypeOK, SweepsFirst
<1>2. /\ \A v \in Workers \ {w} : worker'[v] = worker[v]
      /\ worker'[w].via = "sweep"
      /\ worker'[w].todo = worker[w].todo
      /\ worker'[w].pc = IF worker[w].via = "sweep" THEN "sweep" ELSE "fetch"
  BY <1>1 DEF Continue, DownWorker
<1>3. worker[w].via = "sweep" \/ worker[w].via = "message"
  BY <1>1 DEF WorkerStates
<1>4. \A d \in Deployments : ~ Holds(w, d)'
  BY <1>2 DEF Holds
<1> QED
  BY <1>1, <1>2, <1>3, <1>4 DEF TakesNone

\* What one worker has in hand no other has.
LEMMA HeldByOne ==
  ASSUME PlacedInv, NEW w \in Workers, worker[w].via = "message",
         worker[w].pc \in Executing \cup {"settle"}, \A d \in Deployments : ~ Holds(w, d)',
         \A v \in Workers \ {w} : worker'[v] = worker[v]
  PROVE  \A v \in Workers, d \in Deployments : Holds(v, d)' => d # worker[w].dep
<1>1. \A v \in Workers, d \in Deployments : Holds(v, d)' => v # w /\ Holds(v, d)
  BY DEF Holds
<1>2. \A d \in Deployments : d = worker[w].dep => Holds(w, d)
  BY DEF Holds
<1> QED
  BY <1>1, <1>2 DEF PlacedInv, MessagesPlaced

\* A delivery puts the message into one hand.
LEMMA PlacedDeliver ==
  ASSUME PlacedInv, NEW w \in Workers, worker[w].pc = "fetch", NEW x \in Deployments,
         Deliver(w, x), UNCHANGED <<handler, lastDeployment>>,
         deliveries[x] < MaxDeliver, \A v \in Workers : ~ Holds(v, x),
         \A h \in Handlers : ~ ToSend(h, x),
         \A d \in Deployments : Queued(d)' => Queued(d) /\ d # x,
         QueueDistinct', pending' = pending \cup {x}, redeliver' = redeliver \ {x},
         x <= lastDeployment
  PROVE  MessagesPlaced' /\ QueueDistinct' /\ SweepsFirst'
<1>1. /\ TypeOK /\ worker \in [Workers -> WorkerStates]
      /\ deliveries \in [Deployments -> Nat]
  BY DEF PlacedInv, ServedInv, TypeOK
<1>2. /\ \A v \in Workers \ {w} : worker'[v] = worker[v]
      /\ worker'[w].pc = "building" /\ worker'[w].via = "message" /\ worker'[w].dep = x
      /\ worker'[w].attempt = deliveries[x] + 1 /\ worker'[w].todo = {}
      /\ deliveries'[x] = deliveries[x] + 1
      /\ \A d \in Deployments \ {x} : deliveries'[d] = deliveries[d]
  BY <1>1 DEF Deliver
<1>3. \A h \in Handlers, d \in Deployments : ToSend(h, d)' <=> ToSend(h, d)
  BY DEF ToSend
<1>4. \A v \in Workers, d \in Deployments :
        Holds(v, d)' => (v = w /\ d = x) \/ (v # w /\ d # x /\ Holds(v, d))
  BY <1>2 DEF Holds
<1>5. SweepsFirst'
  BY <1>2 DEF PlacedInv, SweepsFirst
<1>6. ASSUME NEW d \in Deployments, NEW v \in Workers, Holds(v, d)'
      PROVE  /\ d \in pending' /\ ("earlyExpiry" \in Faults \/ d \notin redeliver')
             /\ worker'[v].attempt = deliveries'[d]
             /\ \A u \in Workers : Holds(u, d)' => u = v
  <2>1. CASE d = x
    BY <1>2, <1>4, <1>6, <2>1
  <2>2. CASE d # x
    BY <1>2, <1>4, <1>6, <2>2 DEF PlacedInv, MessagesPlaced
  <2> QED
    BY <2>1, <2>2
<1>7. ASSUME NEW d \in Deployments
      PROVE  /\ deliveries'[d] <= MaxDeliver
             /\ d > lastDeployment \/ Queued(d)' => d \notin pending' /\ deliveries'[d] = 0
             /\ \A h \in Handlers : ToSend(h, d) =>
                  /\ ~ Queued(d)' /\ d \notin pending' /\ deliveries'[d] = 0
                  /\ \A g \in Handlers : ToSend(g, d) => g = h
  <2>1. CASE d = x
    <3>1. deliveries'[d] <= MaxDeliver
      BY <1>1, <1>2, <2>1, PipelineAssumption
    <3>2. ~ (d > lastDeployment)
      BY <1>1, <2>1, PipelineAssumption DEF TypeOK, Versions, Deployments
    <3> QED
      BY <2>1, <3>1, <3>2
  <2>2. CASE d # x
    BY <1>2, <2>2 DEF PlacedInv, MessagesPlaced
  <2> QED
    BY <2>1, <2>2
<1>8. MessagesPlaced'
  <2>1. lastDeployment' = lastDeployment
    OBVIOUS
  <2> QED
    BY <1>3, <1>6, <1>7, <2>1 DEF MessagesPlaced
<1> QED
  BY <1>5, <1>8

\* What a worker may fetch again no worker has in hand.
LEMMA DueIsFree ==
  ASSUME PlacedInv, Patient, NEW w \in Workers, worker[w].pc = "fetch",
         NEW d \in Deployments, d \in redeliver
  PROVE  \A v \in Workers : ~ Holds(v, d)
<1>1. ASSUME NEW v \in Workers, Holds(v, d) PROVE FALSE
  <2>1. "earlyExpiry" \in Faults
    BY <1>1 DEF PlacedInv, MessagesPlaced
  <2>2. v = w
    BY <2>1 DEF Patient
  <2> QED
    BY <1>1, <2>2 DEF Holds, Executing
<1> QED
  BY <1>1

LEMMA PlacedWorker ==
  ASSUME PlacedInv, Patient, NEW w \in Workers, Work(w) \/ Crash(w)
  PROVE  MessagesPlaced' /\ QueueDistinct' /\ SweepsFirst'
<1> USE DEF api, queue
<1>0. /\ TypeOK /\ worker \in [Workers -> WorkerStates] /\ worker[w] \in WorkerStates
      /\ worker[w].via = "sweep" \/ worker[w].via = "message"
      /\ unseen \in Seq(Deployments)
  <2>1. TypeOK
    BY DEF PlacedInv, ServedInv
  <2> QED
    BY <2>1 DEF TypeOK, WorkerStates
<1>1. ASSUME UNCHANGED <<handler, lastDeployment, queue>>, TakesNone(w)
      PROVE  MessagesPlaced' /\ QueueDistinct' /\ SweepsFirst'
  BY <1>1, PlacedByWorker
<1>a. CASE Start(w)
  <2>1. PICK todo \in SUBSET Deployments :
          worker' = [worker EXCEPT ![w] = [DownWorker EXCEPT !.pc = "sweep", !.todo = todo]]
    BY <1>a DEF Start
  <2>2. /\ \A v \in Workers \ {w} : worker'[v] = worker[v]
        /\ worker'[w].pc = "sweep" /\ worker'[w].via = "sweep"
    BY <1>0, <2>1 DEF DownWorker
  <2>3. TakesNone(w)
    BY <2>2 DEF TakesNone, Holds
  <2> QED
    BY <1>1, <1>a, <2>3 DEF Start
<1>b. CASE SweepNext(w)
  <2>1. PICK d \in worker[w].todo :
          \/ worker' = [worker EXCEPT ![w] =
               [[worker[w] EXCEPT !.todo = worker[w].todo \ {d}] EXCEPT
                  !.pc = "building", !.dep = d,
                  !.version = functions[request[d].name].version]]
          \/ worker' = [worker EXCEPT ![w] = [worker[w] EXCEPT !.todo = worker[w].todo \ {d}]]
    BY <1>b DEF SweepNext
  <2>2. worker[w].pc = "sweep" /\ worker[w].via = "sweep"
    BY <1>b DEF SweepNext, PlacedInv, SweepsFirst
  <2>3. /\ \A v \in Workers \ {w} : worker'[v] = worker[v]
        /\ worker'[w].pc \in {"sweep", "building"} /\ worker'[w].via = "sweep"
    <3> DEFINE q == [worker[w] EXCEPT !.todo = worker[w].todo \ {d}]
               p == [q EXCEPT !.pc = "building", !.dep = d,
                              !.version = functions[request[d].name].version]
    <3>1. q.pc = "sweep" /\ q.via = "sweep" /\ p.pc = "building" /\ p.via = "sweep"
      BY <1>0, <2>2 DEF WorkerStates
    <3>2. worker' = [worker EXCEPT ![w] = p] \/ worker' = [worker EXCEPT ![w] = q]
      BY <2>1
    <3> HIDE DEF p, q
    <3> QED
      BY <1>0, <3>1, <3>2
  <2>4. TakesNone(w)
    BY <2>3 DEF TakesNone, Holds
  <2> QED
    BY <1>1, <1>b, <2>4 DEF SweepNext
<1>c. CASE SweepDone(w)
  <2>1. worker[w].via = "sweep" /\ worker[w].todo = {} /\ worker' = [worker EXCEPT ![w].pc = "fetch"]
    BY <1>c DEF SweepDone, PlacedInv, SweepsFirst, Go
  <2>2. /\ \A v \in Workers \ {w} : worker'[v] = worker[v]
        /\ worker'[w].pc = "fetch" /\ worker'[w].via = "sweep" /\ worker'[w].todo = {}
    BY <1>0, <2>1 DEF WorkerStates
  <2>3. TakesNone(w)
    BY <2>2 DEF TakesNone, Holds
  <2> QED
    BY <1>1, <1>c, <2>3 DEF SweepDone
<1>d. CASE FetchRedelivered(w)
  <2>1. PICK x \in redeliver :
          deliveries[x] < MaxDeliver /\ Deliver(w, x) /\ redeliver' = redeliver \ {x}
    BY <1>d DEF FetchRedelivered
  <2>2. x \in Deployments /\ x \in pending /\ x <= lastDeployment
    BY <1>0, <2>1 DEF TypeOK, PlacedInv, ServedInv, DeploymentsKnown
  <2>3. ~ Queued(x) /\ \A v \in Workers : ~ Holds(v, x)
    BY <1>0, <1>d, <2>1, <2>2, DueIsFree DEF FetchRedelivered, PlacedInv, MessagesPlaced
  <2>4. \A h \in Handlers : ~ ToSend(h, x)
    BY <2>2 DEF PlacedInv, MessagesPlaced
  <2>5. QueueDistinct' /\ \A d \in Deployments : Queued(d)' => Queued(d) /\ d # x
    BY <1>d, <2>3 DEF FetchRedelivered, QueueDistinct, Queued, PlacedInv
  <2>6. pending' = pending \cup {x} /\ UNCHANGED <<handler, lastDeployment>> /\ worker[w].pc = "fetch"
    BY <1>d, <2>2 DEF FetchRedelivered
  <2> QED
    BY <2>1, <2>2, <2>3, <2>4, <2>5, <2>6, PlacedDeliver
<1>e. CASE FetchNew(w)
  <2>1. PICK x \in Deployments : x = Head(unseen)
    BY <1>0, <1>e, QueueShrinks DEF FetchNew, PlacedInv
  <2>2. /\ QueueDistinct' /\ Queued(x)
        /\ \A d \in Deployments : Queued(d)' => Queued(d) /\ d # x
    BY <1>0, <1>e, <2>1, QueueShrinks DEF FetchNew, PlacedInv
  <2>3. /\ deliveries[x] = 0 /\ x \notin pending
        /\ \A v \in Workers : ~ Holds(v, x)
        /\ \A h \in Handlers : ~ ToSend(h, x)
    BY <2>2 DEF PlacedInv, MessagesPlaced
  <2>4. x <= lastDeployment
    <3>1. PICK i \in 1..Len(unseen) : unseen[i] = x
      BY <2>2 DEF Queued
    <3>2. unseen \in Seq(1..lastDeployment) /\ lastDeployment \in Nat
      BY <1>0, PipelineAssumption DEF PlacedInv, ServedInv, DeploymentsKnown, TypeOK, Versions
    <3>3. x \in 1..lastDeployment
      BY <3>1, <3>2
    <3> QED
      BY <3>2, <3>3
  <2>5. deliveries[x] < MaxDeliver
    BY <2>3, PipelineAssumption
  <2>6. /\ Deliver(w, x) /\ pending' = pending \cup {x} /\ redeliver' = redeliver \ {x}
        /\ UNCHANGED <<handler, lastDeployment>> /\ worker[w].pc = "fetch"
    BY <1>e, <2>1 DEF FetchNew
  <2> QED
    BY <2>2, <2>3, <2>4, <2>5, <2>6, PlacedDeliver
<1>f. CASE SetBuilding(w)
  BY <1>1, <1>f, GoesOn DEF SetBuilding, Executing
<1>g. CASE EnsureNamespace(w)
  BY <1>1, <1>g, GoesOn DEF EnsureNamespace, Executing
<1>h. CASE Deploy(w)
  BY <1>1, <1>h, GoesOn DEF Deploy, Executing
<1>i. CASE SetRunning(w)
  <2>1. TakesNone(w)
    BY <1>i, GoesOn, LetsGo DEF SetRunning, Executing
  <2> QED
    BY <1>1, <1>i, <2>1 DEF SetRunning
<1>j. CASE GiveUp(w)
  <2>1. TakesNone(w)
    BY <1>j, GoesOn, LetsGo DEF GiveUp, Executing
  <2> QED
    BY <1>1, <1>j, <2>1 DEF GiveUp
<1>k. CASE Retry(w)
  <2>1. TakesNone(w) /\ \A d \in Deployments : ~ Holds(w, d)'
    BY <1>k, LetsGo DEF Retry
  <2>2. \A v \in Workers, d \in Deployments : Holds(v, d)' => d # worker[w].dep
    BY <1>k, <2>1, HeldByOne DEF Retry, Executing, TakesNone
  <2>3. /\ UNCHANGED <<handler, lastDeployment, unseen, deliveries, pending>>
        /\ redeliver' \subseteq redeliver \cup {worker[w].dep}
    BY <1>k DEF Retry
  <2> QED
    BY <2>1, <2>2, <2>3, PlacedByWorker
<1>l. CASE Settle(w)
  <2>1. TakesNone(w) /\ \A d \in Deployments : ~ Holds(w, d)'
    BY <1>l, LetsGo DEF Settle
  <2>2. /\ UNCHANGED <<handler, lastDeployment, unseen, deliveries>>
        /\ \/ UNCHANGED <<pending, redeliver>>
           \/ pending' = pending \ {worker[w].dep} /\ redeliver' = redeliver \ {worker[w].dep}
    BY <1>l DEF Settle
  <2>3. \A v \in Workers, d \in Deployments :
          Holds(v, d)' /\ d \in pending =>
            d \in pending' /\ (d \in redeliver' => d \in redeliver)
    <3>1. worker[w].via = "message"
      BY <1>l DEF Settle, PlacedInv, SweepsFirst
    <3> QED
      BY <1>l, <2>1, <2>2, <3>1, HeldByOne DEF Settle, TakesNone
  <2> QED
    BY <2>1, <2>2, <2>3, PlacedByWorker
<1>m. CASE Crash(w)
  <2>1. /\ \A v \in Workers \ {w} : worker'[v] = worker[v]
        /\ worker'[w].pc = "down" /\ worker'[w].via = "sweep"
    BY <1>0, <1>m DEF Crash, DownWorker
  <2>2. TakesNone(w)
    BY <2>1 DEF TakesNone, Holds
  <2> QED
    BY <1>1, <1>m, <2>2 DEF Crash
<1> QED
  BY <1>a, <1>b, <1>c, <1>d, <1>e, <1>f, <1>g, <1>h, <1>i, <1>j, <1>k, <1>l, <1>m DEF Work

\* The ack wait runs out in a worker's hand only where nobody else takes the
\* message; a message is given up in nobody's hand.
LEMMA PlacedServer ==
  ASSUME PlacedInv, Patient, NEW x \in Deployments,
         AckWaitExpires(x) \/ DropExhausted(x)
  PROVE  MessagesPlaced' /\ QueueDistinct' /\ SweepsFirst'
<1>1. UNCHANGED <<handler, lastDeployment, unseen, deliveries, worker>> /\ pending' \subseteq pending
  BY DEF AckWaitExpires, DropExhausted, api
<1>2. \A v \in Workers : Holds(v, x) => "earlyExpiry" \in Faults /\ pending' = pending
  <2>1. CASE AckWaitExpires(x)
    BY <2>1 DEF AckWaitExpires
  <2>2. CASE DropExhausted(x)
    <3>1. PICK w \in Workers : worker[w].pc = "fetch"
      BY <2>2 DEF DropExhausted
    <3>2. ASSUME NEW v \in Workers, Holds(v, x) PROVE FALSE
      <4>1. "earlyExpiry" \in Faults
        BY <2>2, <3>2 DEF DropExhausted, PlacedInv, MessagesPlaced
      <4>2. v = w
        BY <4>1 DEF Patient
      <4> QED
        BY <3>1, <3>2, <4>2 DEF Holds, Executing
    <3> QED
      BY <3>2
  <2> QED
    BY <2>1, <2>2
<1>3. \A d \in Deployments : d # x =>
        (d \in pending' <=> d \in pending) /\ (d \in redeliver' <=> d \in redeliver)
  BY DEF AckWaitExpires, DropExhausted
<1>4. \A d \in Deployments : Queued(d)' <=> Queued(d)
  BY <1>1 DEF Queued
<1>5. \A h \in Handlers, d \in Deployments : ToSend(h, d)' <=> ToSend(h, d)
  BY <1>1 DEF ToSend
<1>6. \A v \in Workers, d \in Deployments : Holds(v, d)' <=> Holds(v, d)
  BY <1>1 DEF Holds
<1>7. QueueDistinct' /\ SweepsFirst'
  BY <1>1 DEF PlacedInv, QueueDistinct, SweepsFirst
<1>8. MessagesPlaced'
  BY <1>1, <1>2, <1>3, <1>4, <1>5, <1>6 DEF PlacedInv, MessagesPlaced
<1> QED
  BY <1>7, <1>8

LEMMA PlacedNext ==
  ASSUME Patient, PlacedInv, [Next]_vars
  PROVE  PlacedInv'
<1>1. ServedInv' /\ TypeOK'
  <2>1. ServedInv'
    BY ServedNext DEF PlacedInv
  <2> QED
    BY <2>1 DEF ServedInv
<1>2. CASE UNCHANGED vars
  BY <1>1, <1>2
     DEF vars, PlacedInv, MessagesPlaced, QueueDistinct, SweepsFirst, Queued, ToSend, Holds
<1>3. CASE Next
  BY <1>1, <1>3, PlacedHandler, PlacedWorker, PlacedServer DEF Next, PlacedInv
<1> QED
  BY <1>2, <1>3

-----------------------------------------------------------------------------
(* No lost deployment. *)

\* What a step of a running worker has to keep for one deployment.
LEMMA KeptByWorker ==
  ASSUME NoLostDeployment, NEW w \in Workers, NEW d \in Deployments, Active(d)',
         UNCHANGED handler,
         Queued(d) => Queued(d)',
         deliveries'[d] = deliveries[d],
         d \in pending => d \in pending',
         \A v \in Workers \ {w} : worker'[v] = worker[v],
         worker[w].pc # "down",
         status'[d] = status[d] \/ InHand(d)',
         d \in worker[w].todo => d \in worker'[w].todo \/ InHand(d)',
         worker[w].pc \in Executing /\ worker[w].dep = d => InHand(d)' \/ StillQueued(d)',
         worker'[w].pc = "settle" => worker'[w].dep # d
  PROVE  Publishing(d)' \/ StillQueued(d)' \/ InHand(d)' \/ Sweepable(d)'
<1>1. CASE InHand(d)'
  BY <1>1
<1>2. CASE Active(d)
  <2>1. Publishing(d) \/ StillQueued(d) \/ InHand(d) \/ Sweepable(d)
    BY <1>2 DEF NoLostDeployment
  <2>2. Publishing(d) => Publishing(d)'
    BY DEF Publishing
  <2>3. Sweepable(d) => Sweepable(d)' \/ InHand(d)'
    BY DEF Sweepable
  <2>4. InHand(d) => InHand(d)' \/ StillQueued(d)'
    <3>1. CASE worker[w].pc \in Executing /\ worker[w].dep = d
      BY <3>1
    <3>2. ASSUME NEW v \in Workers, v # w, worker[v].pc \in Executing, worker[v].dep = d
          PROVE  InHand(d)'
      <4>1. worker'[v].pc \in Executing /\ worker'[v].dep = d
        BY <3>2
      <4> QED
        BY <4>1 DEF InHand, Executing
    <3> QED
      BY <3>1, <3>2 DEF InHand
  <2>5. StillQueued(d) => StillQueued(d)'
    <3>1. Queued(d) => StillQueued(d)'
      BY DEF Queued, StillQueued
    <3>2. ASSUME d \in pending, deliveries[d] < MaxDeliver,
                 ~ \E v \in Workers : Holds(v, d) /\ worker[v].pc = "settle"
          PROVE  StillQueued(d)'
      <4>1. ~ \E v \in Workers : Holds(v, d)' /\ worker'[v].pc = "settle"
        BY <3>2 DEF Holds
      <4> QED
        BY <3>2, <4>1 DEF StillQueued
    <3> QED
      BY <3>1, <3>2 DEF StillQueued, Queued
  <2> QED
    BY <2>1, <2>2, <2>3, <2>4, <2>5
<1>3. ~ InHand(d)' => Active(d)
  BY DEF Active
<1> QED
  BY <1>1, <1>2, <1>3

LEMMA LostWorker ==
  ASSUME PlacedInv, NoLostDeployment, "database" \notin Faults,
         NEW w \in Workers, Work(w) \/ Crash(w)
  PROVE  NoLostDeployment'
<1> USE DEF api, queue
<1> SUFFICES ASSUME NEW d \in Deployments, Active(d)'
             PROVE  Publishing(d)' \/ StillQueued(d)' \/ InHand(d)' \/ Sweepable(d)'
  BY DEF NoLostDeployment
<1>0. /\ TypeOK /\ worker \in [Workers -> WorkerStates] /\ worker[w] \in WorkerStates
      /\ worker[w].via = "sweep" \/ worker[w].via = "message"
      /\ status \in [Deployments -> Statuses \cup {"none"}]
      /\ unseen \in Seq(Deployments) /\ deliveries \in [Deployments -> Nat]
  <2>1. TypeOK
    BY DEF PlacedInv, ServedInv
  <2> QED
    BY <2>1 DEF TypeOK, WorkerStates
<1>1. \A e \in Deployments, s \in Statuses :
        WorkerWrites(e, s) => /\ d # e => status'[d] = status[d]
                              /\ d = e /\ s \notin ActiveStatuses => FALSE
  <2> SUFFICES ASSUME NEW e \in Deployments, NEW s \in Statuses, WorkerWrites(e, s)
               PROVE  /\ d # e => status'[d] = status[d]
                      /\ d = e /\ s \notin ActiveStatuses => FALSE
    OBVIOUS
  <2>1. \/ status[e] = "none" /\ status' = status
        \/ status[e] # "none" /\ status' = [status EXCEPT ![e] = s]
    BY DEF WorkerWrites, WithStatus
  <2> QED
    BY <1>0, <2>1 DEF Active, ActiveStatuses
\* A step that keeps w's deployment in its hand.
<1>2. ASSUME worker[w].pc \in Executing, NEW pc \in Executing, Go(w, pc),
             UNCHANGED <<handler, queue>>,
             \/ UNCHANGED status
             \/ \E s \in Statuses : WorkerWrites(worker[w].dep, s)
      PROVE  Publishing(d)' \/ StillQueued(d)' \/ InHand(d)' \/ Sweepable(d)'
  <2>1. /\ \A v \in Workers \ {w} : worker'[v] = worker[v]
        /\ worker'[w].pc = pc /\ worker'[w].dep = worker[w].dep /\ worker'[w].todo = worker[w].todo
    BY <1>0, <1>2 DEF Go, WorkerStates
  <2>3. d = worker[w].dep => InHand(d)'
    BY <1>2, <2>1 DEF InHand, Executing
  <2>4. status'[d] = status[d] \/ InHand(d)'
    <3>1. CASE d = worker[w].dep
      BY <2>3, <3>1
    <3>2. CASE d # worker[w].dep
      <4>1. worker[w].dep \in Deployments
        BY <1>0, <1>2, PipelineAssumption
           DEF PlacedInv, ServedInv, DeploymentsKnown, Deployments, TypeOK, Versions
      <4> QED
        BY <1>1, <1>2, <3>2, <4>1
    <3> QED
      BY <3>1, <3>2
  <2>5. Queued(d) => Queued(d)'
    BY <1>2 DEF Queued
  <2>6. pc # "settle" /\ worker[w].pc # "down"
    BY <1>2 DEF Executing
  <2> QED
    BY <1>2, <2>1, <2>3, <2>4, <2>5, <2>6, KeptByWorker
\* A step that settles w's deployment.
<1>3. ASSUME worker[w].pc \in Executing, UNCHANGED <<handler, queue>>,
             NEW s \in {"running", "failed"}, WorkerWrites(worker[w].dep, s),
             IF worker[w].via = "sweep" THEN Continue(w) ELSE Go(w, "settle")
      PROVE  Publishing(d)' \/ StillQueued(d)' \/ InHand(d)' \/ Sweepable(d)'
  <2>1. worker[w].dep \in Deployments
    BY <1>0, <1>3, PipelineAssumption
       DEF PlacedInv, ServedInv, DeploymentsKnown, Deployments, TypeOK, Versions
  <2>2. s \in Statuses /\ s \notin ActiveStatuses
    BY DEF Statuses, ActiveStatuses
  <2>3. d # worker[w].dep /\ status'[d] = status[d]
    BY <1>1, <1>3, <2>1, <2>2
  <2>4. /\ \A v \in Workers \ {w} : worker'[v] = worker[v]
        /\ worker'[w].todo = worker[w].todo
        /\ worker'[w].pc = "settle" => worker'[w].dep = worker[w].dep
    <3>1. CASE worker[w].via = "sweep"
      <4>1. Continue(w)
        BY <1>3, <3>1
      <4> QED
        BY <4>1, LetsGo DEF TakesNone
    <3>2. CASE worker[w].via # "sweep"
      BY <1>0, <1>3, <3>2 DEF Go, WorkerStates
    <3> QED
      BY <3>1, <3>2
  <2>5. Queued(d) => Queued(d)'
    BY <1>3 DEF Queued
  <2>6. worker[w].pc # "down"
    BY <1>3 DEF Executing
  <2> QED
    BY <1>3, <2>3, <2>4, <2>5, <2>6, KeptByWorker
<1>a. CASE Start(w)
  <2>1. worker' = [worker EXCEPT ![w] = [DownWorker EXCEPT !.pc = "sweep",
                                          !.todo = {e \in Deployments : Active(e)}]]
    BY <1>a DEF Start
  <2>2. worker'[w].todo = {e \in Deployments : Active(e)}
    BY <1>0, <2>1 DEF DownWorker
  <2>3. Active(d)
    BY <1>a DEF Start, Active
  <2> QED
    BY <2>2, <2>3 DEF Sweepable
<1>b. CASE SweepNext(w)
  <2>1. PICK e \in worker[w].todo :
          \/ /\ worker' = [worker EXCEPT ![w] =
                  [[worker[w] EXCEPT !.todo = worker[w].todo \ {e}] EXCEPT
                     !.pc = "building", !.dep = e,
                     !.version = functions[request[e].name].version]]
             /\ UNCHANGED status
          \/ /\ worker' = [worker EXCEPT ![w] = [worker[w] EXCEPT !.todo = worker[w].todo \ {e}]]
             /\ WorkerWrites(e, "failed")
    BY <1>b DEF SweepNext
  <2>2. /\ worker[w].pc = "sweep" /\ e \in Deployments
        /\ UNCHANGED <<handler, queue>>
    BY <1>0, <1>b DEF SweepNext, WorkerStates
  <2> DEFINE q == [worker[w] EXCEPT !.todo = worker[w].todo \ {e}]
             p == [q EXCEPT !.pc = "building", !.dep = e,
                            !.version = functions[request[e].name].version]
  <2>3. /\ q.pc = "sweep" /\ q.todo = worker[w].todo \ {e}
        /\ p.pc = "building" /\ p.dep = e /\ p.todo = worker[w].todo \ {e}
    BY <1>0, <2>2 DEF WorkerStates
  <2>4. \/ worker' = [worker EXCEPT ![w] = p] /\ UNCHANGED status
        \/ worker' = [worker EXCEPT ![w] = q] /\ WorkerWrites(e, "failed")
    BY <2>1
  <2> HIDE DEF p, q
  <2>5. Queued(d) => Queued(d)'
    BY <2>2 DEF Queued
  <2>6. CASE worker' = [worker EXCEPT ![w] = p] /\ UNCHANGED status
    <3>1. /\ \A v \in Workers \ {w} : worker'[v] = worker[v]
          /\ worker'[w].pc = "building" /\ worker'[w].dep = e
          /\ worker'[w].todo = worker[w].todo \ {e}
      BY <1>0, <2>3, <2>6
    <3>2. d = e => InHand(d)'
      BY <3>1 DEF InHand, Executing
    <3> QED
      BY <2>2, <2>5, <2>6, <3>1, <3>2, KeptByWorker DEF Executing
  <2>7. CASE worker' = [worker EXCEPT ![w] = q] /\ WorkerWrites(e, "failed")
    <3>1. /\ \A v \in Workers \ {w} : worker'[v] = worker[v]
          /\ worker'[w].pc = "sweep" /\ worker'[w].todo = worker[w].todo \ {e}
      BY <1>0, <2>3, <2>7
    <3>2. d # e /\ status'[d] = status[d]
      BY <1>1, <2>2, <2>7 DEF Statuses, ActiveStatuses
    <3> QED
      BY <2>2, <2>5, <3>1, <3>2, KeptByWorker DEF Executing
  <2> QED
    BY <2>4, <2>6, <2>7
<1>c. CASE SweepDone(w)
  <2>1. /\ \A v \in Workers \ {w} : worker'[v] = worker[v]
        /\ worker'[w].pc = "fetch" /\ worker[w].pc = "sweep" /\ worker[w].todo = {}
    BY <1>0, <1>c DEF SweepDone, Go, WorkerStates
  <2>2. UNCHANGED <<handler, queue, status>> /\ (Queued(d) => Queued(d)')
    BY <1>c DEF SweepDone, Queued
  <2> QED
    BY <2>1, <2>2, KeptByWorker DEF Executing
<1>4. ASSUME NEW x \in Deployments, Deliver(w, x), worker[w].pc = "fetch",
             UNCHANGED <<handler, status>>, pending \subseteq pending',
             Queued(d) /\ d # x => Queued(d)'
      PROVE  Publishing(d)' \/ StillQueued(d)' \/ InHand(d)' \/ Sweepable(d)'
  <2>1. /\ \A v \in Workers \ {w} : worker'[v] = worker[v]
        /\ worker'[w].pc = "building" /\ worker'[w].dep = x
        /\ d # x => deliveries'[d] = deliveries[d]
    BY <1>0, <1>4 DEF Deliver
  <2>2. worker[w].todo = {}
    BY <1>4 DEF PlacedInv, SweepsFirst
  <2>3. CASE d = x
    BY <2>1, <2>3 DEF InHand, Executing
  <2>4. CASE d # x
    BY <1>4, <2>1, <2>2, <2>4, KeptByWorker DEF Executing
  <2> QED
    BY <2>3, <2>4
<1>d. CASE FetchRedelivered(w)
  <2>1. PICK x \in redeliver : Deliver(w, x)
    BY <1>d DEF FetchRedelivered
  <2>2. x \in Deployments
    BY <1>0, <2>1 DEF TypeOK
  <2>3. Queued(d) => Queued(d)'
    BY <1>d DEF FetchRedelivered, Queued
  <2> QED
    BY <1>4, <1>d, <2>1, <2>2, <2>3 DEF FetchRedelivered
<1>e. CASE FetchNew(w)
  <2>1. PICK x \in Deployments : x = Head(unseen)
    BY <1>0, <1>e, QueueShrinks DEF FetchNew, PlacedInv
  <2>2. Queued(d) /\ d # x => Queued(d)'
    BY <1>0, <1>e, <2>1, QueueShrinks DEF FetchNew, PlacedInv
  <2> QED
    BY <1>4, <1>e, <2>1, <2>2 DEF FetchNew
<1>f. CASE SetBuilding(w)
  BY <1>2, <1>f DEF SetBuilding, Executing, Statuses, ActiveStatuses
<1>g. CASE EnsureNamespace(w)
  BY <1>2, <1>g DEF EnsureNamespace, Executing, Statuses, ActiveStatuses
<1>h. CASE Deploy(w)
  BY <1>2, <1>h DEF Deploy, Executing
<1>i. CASE SetRunning(w)
  BY <1>3, <1>i DEF SetRunning, Executing
<1>j. CASE GiveUp(w)
  BY <1>3, <1>j DEF GiveUp, Executing
<1>k. CASE Retry(w)
  <2>1. /\ worker[w].pc = "failed" /\ worker[w].via = "message"
        /\ worker[w].attempt < MaxDeliver /\ Continue(w)
        /\ UNCHANGED <<handler, status, unseen, pending, deliveries>>
    BY <1>k DEF Retry
  <2>2. /\ \A v \in Workers \ {w} : worker'[v] = worker[v]
        /\ worker'[w].pc = "fetch" /\ \A e \in Deployments : ~ Holds(w, e)'
        /\ worker'[w].todo = worker[w].todo
    BY <2>1, LetsGo DEF TakesNone
  <2>3. worker[w].dep = d => StillQueued(d)'
    <3>1. SUFFICES ASSUME worker[w].dep = d PROVE StillQueued(d)'
      OBVIOUS
    <3>2. Holds(w, d)
      BY <2>1, <3>1 DEF Holds, Executing
    <3>3. /\ d \in pending /\ worker[w].attempt = deliveries[d]
          /\ \A v \in Workers : Holds(v, d) => v = w
      BY <3>2 DEF PlacedInv, MessagesPlaced
    <3>4. \A v \in Workers : Holds(v, d)' => FALSE
      BY <2>2, <3>3 DEF Holds
    <3> QED
      BY <2>1, <3>3, <3>4 DEF StillQueued
  <2>4. Queued(d) => Queued(d)'
    BY <2>1 DEF Queued
  <2> QED
    BY <2>1, <2>2, <2>3, <2>4, KeptByWorker
<1>l. CASE Settle(w)
  <2>1. /\ worker[w].pc = "settle" /\ worker[w].via = "message" /\ Continue(w)
        /\ UNCHANGED <<handler, status, unseen, deliveries>>
        /\ \A e \in Deployments : e # worker[w].dep /\ e \in pending => e \in pending'
    BY <1>l DEF Settle, PlacedInv, SweepsFirst
  <2>2. /\ \A v \in Workers \ {w} : worker'[v] = worker[v]
        /\ worker'[w].pc = "fetch" /\ worker'[w].todo = worker[w].todo
    BY <2>1, LetsGo DEF TakesNone
  <2>3. Queued(d) <=> Queued(d)'
    BY <2>1 DEF Queued
  <2>4. CASE d = worker[w].dep
    <3>1. Holds(w, d)
      BY <2>1, <2>4 DEF Holds
    <3>2. ~ StillQueued(d)
      BY <2>1, <3>1 DEF StillQueued, PlacedInv, MessagesPlaced, Queued
    <3>3. Active(d)
      BY <2>1 DEF Active
    <3>4. Publishing(d) \/ InHand(d) \/ Sweepable(d)
      BY <3>2, <3>3 DEF NoLostDeployment
    <3>5. Publishing(d) => Publishing(d)'
      BY <2>1 DEF Publishing
    <3>6. InHand(d) => InHand(d)'
      BY <2>1, <2>2 DEF InHand, Executing
    <3>7. Sweepable(d) => Sweepable(d)'
      BY <2>1, <2>2 DEF Sweepable
    <3> QED
      BY <3>4, <3>5, <3>6, <3>7
  <2>5. CASE d # worker[w].dep
    BY <2>1, <2>2, <2>3, <2>5, KeptByWorker DEF Executing
  <2> QED
    BY <2>4, <2>5
<1>m. CASE Crash(w)
  <2>1. worker'[w].pc = "down"
    BY <1>0, <1>m DEF Crash, DownWorker
  <2> QED
    BY <2>1 DEF Sweepable
<1> QED
  BY <1>a, <1>b, <1>c, <1>d, <1>e, <1>f, <1>g, <1>h, <1>i, <1>j, <1>k, <1>l, <1>m DEF Work

\* What a step of a handler has to keep for one deployment.
LEMMA KeptByHandler ==
  ASSUME NoLostDeployment, NEW d \in Deployments, Active(d)',
         UNCHANGED <<pending, deliveries, worker>>,
         Queued(d) => Queued(d)',
         status'[d] = status[d] \/ Publishing(d)',
         Publishing(d) => Publishing(d)' \/ Queued(d)'
  PROVE  Publishing(d)' \/ StillQueued(d)' \/ InHand(d)' \/ Sweepable(d)'
<1>1. CASE Publishing(d)'
  BY <1>1
<1>2. CASE Active(d)
  <2>1. Publishing(d) \/ StillQueued(d) \/ InHand(d) \/ Sweepable(d)
    BY <1>2 DEF NoLostDeployment
  <2>2. Queued(d)' => StillQueued(d)'
    BY DEF Queued, StillQueued
  <2>3. StillQueued(d) => StillQueued(d)'
    <3>1. \A v \in Workers : Holds(v, d)' <=> Holds(v, d)
      BY DEF Holds
    <3> QED
      BY <2>2, <3>1 DEF StillQueued, Queued
  <2>4. /\ InHand(d) => InHand(d)'
        /\ Sweepable(d) => Sweepable(d)'
    BY DEF InHand, Sweepable
  <2> QED
    BY <2>1, <2>2, <2>3, <2>4
<1>3. ~ Publishing(d)' => Active(d)
  BY DEF Active
<1> QED
  BY <1>1, <1>2, <1>3

LEMMA LostHandler ==
  ASSUME PlacedInv, NoLostDeployment, NEW h \in Handlers, Accept(h) \/ Proceed(h)
  PROVE  NoLostDeployment'
<1> USE DEF queue
<1> SUFFICES ASSUME NEW d \in Deployments, Active(d)'
             PROVE  Publishing(d)' \/ StillQueued(d)' \/ InHand(d)' \/ Sweepable(d)'
  BY DEF NoLostDeployment
<1>0. /\ TypeOK /\ handler \in [Handlers -> HandlerStates]
      /\ status \in [Deployments -> Statuses \cup {"none"}]
      /\ unseen \in Seq(Deployments)
  <2>1. TypeOK
    BY DEF PlacedInv, ServedInv
  <2> QED
    BY <2>1 DEF TypeOK
\* A step of a request that is not at the publication.
<1>1. ASSUME handler[h].pc \notin {"publish", "queueError"}, UNCHANGED <<queue, worker>>,
             \A g \in Handlers \ {h} : handler'[g] = handler[g],
             status'[d] = status[d] \/ Publishing(d)'
      PROVE  Publishing(d)' \/ StillQueued(d)' \/ InHand(d)' \/ Sweepable(d)'
  <2>1. Publishing(d) => Publishing(d)'
    BY <1>1 DEF Publishing
  <2>2. Queued(d) => Queued(d)'
    BY <1>1 DEF Queued
  <2> QED
    BY <1>1, <2>1, <2>2, KeptByHandler
<1>2. ASSUME NEW r, handler' = [handler EXCEPT ![h] = r]
      PROVE  \A g \in Handlers \ {h} : handler'[g] = handler[g]
  BY <1>0, <1>2
<1>a. CASE \E n \in Names : CreateCheck(h, n) \/ UpdateRead(h, n)
  BY <1>1, <1>2, <1>a DEF CreateCheck, UpdateRead
<1>b. CASE \E n \in Names : DeleteRow(h, n)
  <2>1. handler[h].pc = "idle" /\ UNCHANGED <<queue, worker>>
    BY <1>b DEF DeleteRow
  <2>2. \A g \in Handlers \ {h} : handler'[g] = handler[g]
    BY <1>0, <1>b DEF DeleteRow
  <2>3. status'[d] = status[d]
    BY <1>b DEF DeleteRow, Active, ActiveStatuses
  <2> QED
    BY <1>1, <2>1, <2>2, <2>3
<1>c. CASE CreateInsert(h) \/ UpdateWrite(h) \/ Undeploy(h)
  <2>1. /\ handler[h].pc \notin {"publish", "queueError"}
        /\ UNCHANGED <<queue, worker, status>>
    BY <1>c DEF CreateInsert, UpdateWrite, Undeploy
  <2>2. \A g \in Handlers \ {h} : handler'[g] = handler[g]
    BY <1>0, <1>c DEF CreateInsert, UpdateWrite, Undeploy
  <2> QED
    BY <1>1, <2>1, <2>2
<1>d. CASE InsertDeployment(h)
  <2>1. handler[h].pc \notin {"publish", "queueError"} /\ UNCHANGED <<queue, worker>>
    BY <1>d DEF InsertDeployment
  <2>2. \A g \in Handlers \ {h} : handler'[g] = handler[g]
    BY <1>0, <1>d DEF InsertDeployment
  <2>3. CASE UNCHANGED status
    BY <1>1, <2>1, <2>2, <2>3
  <2>4. CASE /\ status' = [status EXCEPT ![lastDeployment + 1] = "queued"]
             /\ handler' = [handler EXCEPT ![h] =
                              [handler[h] EXCEPT !.pc = "publish", !.dep = lastDeployment + 1]]
    <3>1. handler'[h].pc = "publish" /\ handler'[h].dep = lastDeployment + 1
      BY <1>0, <2>4 DEF HandlerStates
    <3>2. d = lastDeployment + 1 => Publishing(d)'
      BY <3>1 DEF Publishing
    <3>3. d # lastDeployment + 1 => status'[d] = status[d]
      BY <1>0, <2>4
    <3> QED
      BY <1>1, <2>1, <2>2, <3>2, <3>3
  <2> QED
    BY <1>d, <2>3, <2>4 DEF InsertDeployment
<1>e. CASE Publish(h)
  <2>1. PICK x \in Deployments : x = handler[h].dep
    BY <1>0, <1>e DEF Publish, TypeOK
  <2>2. ~ Queued(x)
    BY <1>e, <2>1 DEF Publish, ToSend, PlacedInv, MessagesPlaced
  <2>3. Queued(d)' <=> Queued(d) \/ d = x
    BY <1>0, <1>e, <2>1, <2>2, QueueGrows DEF Publish, PlacedInv
  <2>4. \A g \in Handlers \ {h} : handler'[g] = handler[g]
    BY <1>0, <1>e DEF Publish
  <2>5. Publishing(d) => Publishing(d)' \/ d = x
    BY <2>1, <2>4 DEF Publishing
  <2>6. UNCHANGED <<pending, deliveries, worker, status>>
    BY <1>e DEF Publish
  <2> QED
    BY <2>3, <2>5, <2>6, KeptByHandler
<1>f. CASE PublishError(h)
  <2>1. PICK x \in Deployments : x = handler[h].dep
    BY <1>0, <1>f DEF PublishError, TypeOK
  <2>2. ~ Queued(x)
    BY <1>f, <2>1 DEF PublishError, ToSend, PlacedInv, MessagesPlaced
  <2>3. Queued(d) => Queued(d)'
    <3>1. CASE unseen' = unseen
      BY <3>1 DEF Queued
    <3>2. CASE unseen' = Append(unseen, x)
      BY <1>0, <2>2, <3>2, QueueGrows DEF PlacedInv
    <3> QED
      BY <1>f, <2>1, <3>1, <3>2 DEF PublishError
  <2>4. /\ \A g \in Handlers \ {h} : handler'[g] = handler[g]
        /\ handler'[h].pc = "queueError" /\ handler'[h].dep = handler[h].dep
    BY <1>0, <1>f DEF PublishError, HandlerStates
  <2>5. Publishing(d) => Publishing(d)'
    BY <2>4 DEF Publishing
  <2>6. UNCHANGED <<pending, deliveries, worker, status>>
    BY <1>f DEF PublishError
  <2> QED
    BY <2>3, <2>5, <2>6, KeptByHandler
<1>g. CASE MarkQueueError(h)
  <2>1. handler[h].dep \in Deployments
    BY <1>0, <1>g DEF MarkQueueError, TypeOK
  <2>2. d # handler[h].dep
    BY <1>0, <1>g, <2>1 DEF MarkQueueError, WithStatus, Active, ActiveStatuses
  <2>3. status'[d] = status[d]
    BY <1>0, <1>g, <2>2 DEF MarkQueueError, WithStatus
  <2>4. \A g \in Handlers \ {h} : handler'[g] = handler[g]
    BY <1>0, <1>g DEF MarkQueueError
  <2>5. Publishing(d) => Publishing(d)'
    BY <2>2, <2>4 DEF Publishing
  <2>6. UNCHANGED <<pending, deliveries, worker>> /\ (Queued(d) => Queued(d)')
    BY <1>g DEF MarkQueueError, Queued
  <2> QED
    BY <2>3, <2>5, <2>6, KeptByHandler
<1> QED
  BY <1>a, <1>b, <1>c, <1>d, <1>e, <1>f, <1>g DEF Accept, Proceed

LEMMA LostServer ==
  ASSUME PlacedInv, NoLostDeployment, NEW x \in Deployments,
         AckWaitExpires(x) \/ DropExhausted(x)
  PROVE  NoLostDeployment'
<1> SUFFICES ASSUME NEW d \in Deployments, Active(d)'
             PROVE  Publishing(d)' \/ StillQueued(d)' \/ InHand(d)' \/ Sweepable(d)'
  BY DEF NoLostDeployment
<1>1. /\ UNCHANGED <<handler, status, unseen, deliveries, worker>>
      /\ d \in pending /\ deliveries[d] < MaxDeliver => d \in pending'
  <2>1. deliveries[d] \in Nat /\ MaxDeliver \in Nat
    BY PipelineAssumption DEF PlacedInv, ServedInv, TypeOK
  <2> QED
    BY <2>1 DEF AckWaitExpires, DropExhausted, api
<1>2. \A v \in Workers : Holds(v, d)' <=> Holds(v, d)
  BY <1>1 DEF Holds
<1>3. StillQueued(d) => StillQueued(d)'
  BY <1>1, <1>2 DEF StillQueued
<1>4. /\ Publishing(d) => Publishing(d)'
      /\ InHand(d) => InHand(d)'
      /\ Sweepable(d) => Sweepable(d)'
      /\ Active(d)
  BY <1>1 DEF Publishing, InHand, Sweepable, Active
<1> QED
  BY <1>3, <1>4 DEF NoLostDeployment

\* No accepted deployment is forgotten, whatever publishes, cluster calls and
\* acknowledgements fail or get lost and however often workers crash: handleMessage
\* gives a message up only with its row, and the sweep of Start finds the rest.
\* (Requests that end midway, lost status updates and, where several workers share
\* the queue, an ack wait that is shorter than a deployment are excluded: the
\* property does not hold with them.)
THEOREM NoneLost ==
  ASSUME Patient, Faults \cap {"abort", "database"} = {}
  PROVE  Spec => []NoLostDeployment
<1>1. Init => PlacedInv /\ NoLostDeployment
  <2>1. Init => NoLostDeployment
    BY DEF Init, NoLostDeployment, Active, ActiveStatuses
  <2> QED
    BY <2>1, PlacedInit
<1>2. PlacedInv /\ NoLostDeployment /\ [Next]_vars => (PlacedInv /\ NoLostDeployment)'
  <2> SUFFICES ASSUME PlacedInv, NoLostDeployment, [Next]_vars
               PROVE  PlacedInv' /\ NoLostDeployment'
    OBVIOUS
  <2>1. PlacedInv'
    BY PlacedNext
  <2>2. CASE UNCHANGED vars
    BY <2>1, <2>2
       DEF vars, NoLostDeployment, Active, Publishing, StillQueued, InHand, Sweepable, Holds
  <2>3. CASE Next
    <3>1. "abort" \notin Faults /\ "database" \notin Faults
      OBVIOUS
    <3>2. \A h \in Handlers : ~ Abort(h)
      BY <3>1 DEF Abort
    <3> QED
      BY <2>1, <2>3, <3>1, <3>2, LostHandler, LostWorker, LostServer DEF Next
  <2> QED
    BY <2>1, <2>2, <2>3
<1> QED
  BY <1>1, <1>2, PTL DEF Spec

-----------------------------------------------------------------------------
(* Workers that have started and do not crash do not sweep. *)

\* Whatever a worker has in hand it has from the queue.
NeverSwept ==
  \A w \in Workers :
    \/ worker[w].pc = "fetch"
    \/ worker[w].pc \in Executing \cup {"settle"} /\ worker[w].via = "message"

LEMMA UnsweptInit == ASSUME Started, Init PROVE NeverSwept
  BY DEF Init, NeverSwept, DownWorker

\* A bound of 0 crashes.
LEMMA NoCrashes == ASSUME MaxCrashes = 0, TypeOK' PROVE crashes' = 0
  BY DEF TypeOK

LEMMA UnsweptNext ==
  ASSUME crashes' = 0, TypeOK, NeverSwept, [Next]_vars
  PROVE  NeverSwept'
<1> USE DEF api
<1>1. CASE UNCHANGED vars
  BY <1>1 DEF vars, NeverSwept
<1>2. CASE \E h \in Handlers : Accept(h) \/ Proceed(h) \/ Abort(h)
  <2>1. UNCHANGED worker
    BY <1>2 DEF Accept, Proceed, Abort, CreateCheck, UpdateRead, DeleteRow, CreateInsert,
       UpdateWrite, InsertDeployment, Publish, PublishError, MarkQueueError, Undeploy
  <2> QED
    BY <2>1 DEF NeverSwept
<1>3. CASE \E d \in Deployments : AckWaitExpires(d) \/ DropExhausted(d)
  BY <1>3 DEF AckWaitExpires, DropExhausted, NeverSwept
<1>4. ASSUME NEW w \in Workers, Work(w) \/ Crash(w) PROVE NeverSwept'
  <2>0. /\ worker \in [Workers -> WorkerStates] /\ worker[w] \in WorkerStates
        /\ crashes \in Nat
        /\ worker[w].pc # "down" /\ worker[w].pc # "sweep"
        /\ worker[w].pc # "fetch" => worker[w].via = "message"
    <3>1. crashes \in Nat
      BY PipelineAssumption DEF TypeOK
    <3> QED
      BY <3>1 DEF TypeOK, NeverSwept, Executing
  <2>1. SUFFICES /\ \A v \in Workers \ {w} : worker'[v] = worker[v]
                 /\ \/ worker'[w].pc = "fetch"
                    \/ worker'[w].pc \in Executing \cup {"settle"} /\ worker'[w].via = "message"
    BY DEF NeverSwept
  <2>2. ASSUME NEW pc \in Executing \cup {"settle"}, worker[w].via = "message", Go(w, pc)
        PROVE  /\ \A v \in Workers \ {w} : worker'[v] = worker[v]
               /\ worker'[w].pc = pc /\ worker'[w].via = "message"
    BY <2>0, <2>2 DEF Go, WorkerStates
  <2>3. ASSUME worker[w].via = "message", Continue(w)
        PROVE  /\ \A v \in Workers \ {w} : worker'[v] = worker[v]
               /\ worker'[w].pc = "fetch"
    BY <2>0, <2>3 DEF Continue, DownWorker
  <2>4. ASSUME NEW d \in Deployments, Deliver(w, d)
        PROVE  /\ \A v \in Workers \ {w} : worker'[v] = worker[v]
               /\ worker'[w].pc = "building" /\ worker'[w].via = "message"
    BY <2>0, <2>4 DEF Deliver
  <2>a. ~ (Start(w) \/ SweepNext(w) \/ SweepDone(w) \/ Crash(w))
    <3>1. ~ Crash(w)
      BY <2>0 DEF Crash
    <3>2. ~ Start(w) /\ ~ SweepDone(w)
      BY <2>0 DEF Start, SweepDone
    <3>3. SweepNext(w) => worker[w].pc = "sweep"
      BY DEF SweepNext
    <3> QED
      BY <2>0, <3>1, <3>2, <3>3
  <2>b. CASE FetchRedelivered(w)
    <3>1. PICK d \in redeliver : Deliver(w, d)
      BY <2>b DEF FetchRedelivered
    <3> QED
      BY <2>4, <3>1 DEF TypeOK, Executing
  <2>c. CASE FetchNew(w)
    <3>1. Head(unseen) \in Deployments
      BY <2>c, HeadTail DEF FetchNew, TypeOK
    <3> QED
      BY <2>4, <2>c, <3>1 DEF FetchNew, Executing
  <2>d. CASE SetBuilding(w) \/ EnsureNamespace(w) \/ Deploy(w)
    BY <2>0, <2>2, <2>d DEF SetBuilding, EnsureNamespace, Deploy, Executing
  <2>e. CASE SetRunning(w) \/ GiveUp(w)
    BY <2>0, <2>2, <2>e DEF SetRunning, GiveUp
  <2>f. CASE Retry(w) \/ Settle(w)
    BY <2>0, <2>3, <2>f DEF Retry, Settle
  <2> QED
    BY <1>4, <2>a, <2>b, <2>c, <2>d, <2>e, <2>f DEF Work
<1> QED
  BY <1>1, <1>2, <1>3, <1>4 DEF Next

-----------------------------------------------------------------------------
(* Settled once.  Without publish errors and lost acknowledgements as well, *)
(* a settled deployment is not delivered again.                             *)

Settled(d) == status[d] \in {"running", "failed"}

Acknowledging(d) == \E w \in Workers : Holds(w, d) /\ worker[w].pc = "settle"

SettledForGood ==
  /\ \A h \in Handlers : handler[h].pc # "queueError"
  /\ \A d \in pending \ redeliver : \E w \in Workers : Holds(w, d)
  /\ \A d \in Deployments : Settled(d) =>
       /\ \A h \in Handlers : ~ ToSend(h, d)
       /\ ~ Queued(d) /\ (d \in redeliver => Acknowledging(d))
       /\ \A w \in Workers : Holds(w, d) => worker[w].pc = "settle"
       /\ status[d] = "failed" => deliveries[d] = MaxDeliver

CalmInv == PlacedInv /\ NeverSwept /\ SettledForGood

\* What a step may do to the table, in the terms of DeploymentLifecycle.
RowsKept ==
  /\ lastDeployment' = lastDeployment
  /\ \A d \in Deployments : status'[d] = status[d] \/ (Active(d) /\ Active(d)')

RowSettled ==
  /\ lastDeployment' = lastDeployment
  /\ \E x \in Deployments :
       /\ Active(x) /\ Settled(x)'
       /\ \A d \in Deployments \ {x} : status'[d] = status[d]

RowAdded ==
  /\ lastDeployment' = lastDeployment + 1
  /\ \E x \in Deployments :
       /\ x = lastDeployment + 1
       /\ Active(x)'
       /\ \A d \in Deployments \ {x} : status'[d] = status[d]

RowsRemoved ==
  /\ lastDeployment' = lastDeployment
  /\ \A d \in Deployments :
       status'[d] = status[d] \/ (status'[d] = "none" /\ d <= lastDeployment)

RowStep == RowsKept \/ RowSettled \/ RowAdded \/ RowsRemoved

LEMMA SettledInit == Init => SettledForGood
  BY DEF Init, SettledForGood, Settled, IdleHandler

\* What a worker is executing it holds, and is not settled.
LEMMA Unsettled ==
  ASSUME CalmInv, NEW w \in Workers, worker[w].pc \in Executing
  PROVE  /\ worker[w].dep \in Deployments /\ Holds(w, worker[w].dep)
         /\ ~ Settled(worker[w].dep)
         /\ worker[w].dep <= lastDeployment
         /\ worker[w].via = "message"
<1>1. worker[w].via = "message" /\ worker[w].pc # "settle"
  BY DEF CalmInv, NeverSwept, Executing
<1>2. worker[w].dep \in 1..lastDeployment /\ lastDeployment \in 0..MaxVersion
  BY DEF CalmInv, PlacedInv, ServedInv, DeploymentsKnown, TypeOK, Versions
<1>3. worker[w].dep \in Deployments /\ worker[w].dep <= lastDeployment
  BY <1>2, PipelineAssumption DEF Deployments
<1>4. Holds(w, worker[w].dep)
  BY <1>1 DEF Holds
<1> QED
  BY <1>1, <1>3, <1>4 DEF CalmInv, SettledForGood

\* A worker's status update of an unsettled deployment.
LEMMA WritesUnsettled ==
  ASSUME TypeOK, NEW x \in Deployments, ~ Settled(x), NEW s \in Statuses, WorkerWrites(x, s)
  PROVE  /\ \A d \in Deployments \ {x} : status'[d] = status[d]
         /\ \/ status'[x] = status[x]
            \/ Active(x) /\ status'[x] = s
<1>1. \/ status' = status
      \/ status[x] # "none" /\ status' = [status EXCEPT ![x] = s]
  BY DEF WorkerWrites, WithStatus
<1>2. status[x] # "none" => Active(x)
  BY DEF TypeOK, Settled, Active, Statuses
<1>3. status \in [Deployments -> Statuses \cup {"none"}]
  BY DEF TypeOK
<1> QED
  BY <1>1, <1>2, <1>3

\* What a step of worker w has to keep: what was settled stays so, out of the
\* queue, and what it settles now it holds.
LEMMA SettledByWorker ==
  ASSUME CalmInv, UNCHANGED handler, NEW w \in Workers,
         \A v \in Workers \ {w} : worker'[v] = worker[v],
         \A d \in pending' \ redeliver' : d \in Deployments,
         \A d \in Deployments : d \in pending' \ redeliver' =>
           (d \in pending \ redeliver /\ ~ Holds(w, d)) \/ Holds(w, d)',
         \A d \in Deployments : Settled(d) /\ Settled(d)' =>
           /\ status'[d] = status[d] /\ deliveries'[d] = deliveries[d]
           /\ Queued(d)' => Queued(d)
           /\ d \in redeliver' => d \in redeliver /\ (Holds(w, d) => Holds(w, d)')
           /\ Holds(w, d)' => worker'[w].pc = "settle",
         \A d \in Deployments : ~ Settled(d) /\ Settled(d)' =>
           /\ Holds(w, d) /\ (Queued(d)' => Queued(d))
           /\ d \in redeliver' => Holds(w, d)'
           /\ Holds(w, d)' => worker'[w].pc = "settle"
           /\ status'[d] = "failed" => deliveries'[d] = MaxDeliver
  PROVE  SettledForGood'
<1>1. \A v \in Workers \ {w}, d \in Deployments : Holds(v, d)' <=> Holds(v, d)
  BY DEF Holds
<1>2. \A h \in Handlers, d \in Deployments : ToSend(h, d)' <=> ToSend(h, d)
  BY DEF ToSend
<1>3. ASSUME NEW d \in pending' \ redeliver' PROVE \E v \in Workers : Holds(v, d)'
  <2>1. d \in Deployments
    BY <1>3
  <2>2. CASE Holds(w, d)'
    BY <2>2
  <2>3. CASE d \in pending \ redeliver /\ ~ Holds(w, d)
    <3>1. PICK v \in Workers : Holds(v, d)
      BY <2>3 DEF CalmInv, SettledForGood
    <3> QED
      BY <1>1, <2>1, <2>3, <3>1
  <2> QED
    BY <1>3, <2>1, <2>2, <2>3
<1>4. ASSUME NEW d \in Deployments, Settled(d)'
      PROVE  /\ \A h \in Handlers : ~ ToSend(h, d)'
             /\ ~ Queued(d)' /\ (d \in redeliver' => Acknowledging(d)')
             /\ \A v \in Workers : Holds(v, d)' => worker'[v].pc = "settle"
             /\ status'[d] = "failed" => deliveries'[d] = MaxDeliver
  <2>1. CASE Settled(d)
    <3>1. ASSUME d \in redeliver' PROVE Acknowledging(d)'
      <4>1. PICK v \in Workers : Holds(v, d) /\ worker[v].pc = "settle"
        BY <1>4, <2>1, <3>1 DEF CalmInv, SettledForGood, Acknowledging
      <4>2. CASE v = w
        BY <1>4, <2>1, <3>1, <4>1, <4>2 DEF Acknowledging
      <4>3. CASE v # w
        BY <1>1, <4>1, <4>3 DEF Acknowledging
      <4> QED
        BY <4>2, <4>3
    <3> QED
      BY <1>1, <1>2, <1>4, <2>1, <3>1 DEF CalmInv, SettledForGood
  <2>2. CASE ~ Settled(d)
    <3>1. Holds(w, d) /\ (d \in redeliver' => Acknowledging(d)')
      BY <1>4, <2>2 DEF Acknowledging
    <3>2. /\ d \in pending
          /\ \A v \in Workers : Holds(v, d) => v = w
      BY <3>1 DEF CalmInv, PlacedInv, MessagesPlaced
    <3>3. ~ Queued(d) /\ \A h \in Handlers : ~ ToSend(h, d)
      BY <3>2 DEF CalmInv, PlacedInv, MessagesPlaced
    <3> QED
      BY <1>1, <1>2, <1>4, <2>2, <3>1, <3>2, <3>3
  <2> QED
    BY <2>1, <2>2
<1>5. \A h \in Handlers : handler'[h].pc # "queueError"
  BY DEF CalmInv, SettledForGood
<1> QED
  BY <1>3, <1>4, <1>5 DEF SettledForGood

LEMMA SettledWorker ==
  ASSUME CalmInv, "settle" \notin Faults, Patient, MaxCrashes = 0,
         NEW w \in Workers, Work(w) \/ Crash(w)
  PROVE  SettledForGood' /\ (RowsKept \/ RowSettled)
<1> USE DEF api, queue
<1>0. /\ TypeOK /\ worker \in [Workers -> WorkerStates] /\ worker[w] \in WorkerStates
      /\ status \in [Deployments -> Statuses \cup {"none"}]
      /\ unseen \in Seq(Deployments) /\ deliveries \in [Deployments -> Nat]
      /\ pending \subseteq Deployments /\ redeliver \subseteq pending
      /\ crashes = 0
  <2>1. TypeOK
    BY DEF CalmInv, PlacedInv, ServedInv
  <2> QED
    BY <2>1 DEF TypeOK
<1>1. /\ worker[w].pc # "down" /\ worker[w].pc # "sweep"
      /\ worker[w].pc # "fetch" => worker[w].via = "message"
  BY DEF CalmInv, NeverSwept, Executing
<1>2. UNCHANGED <<status, lastDeployment>> => RowsKept
  BY DEF RowsKept
<1>3. UNCHANGED unseen => \A d \in Deployments : Queued(d)' <=> Queued(d)
  BY DEF Queued
\* A step that keeps w's deployment in its hand and does not settle it.
<1>4. ASSUME worker[w].pc \in Executing, NEW pc \in Executing, Go(w, pc),
             UNCHANGED <<handler, lastDeployment, queue>>,
             \/ UNCHANGED status
             \/ \E s \in ActiveStatuses : WorkerWrites(worker[w].dep, s)
      PROVE  SettledForGood' /\ RowsKept
  <2>1. PICK x \in Deployments : x = worker[w].dep
    BY <1>4, Unsettled
  <2>2. ~ Settled(x) /\ Holds(w, x)
    BY <1>4, <2>1, Unsettled
  <2>3. /\ \A v \in Workers \ {w} : worker'[v] = worker[v]
        /\ worker'[w].pc = pc /\ worker'[w].dep = x /\ worker'[w].via = worker[w].via
    BY <1>0, <1>4, <2>1 DEF Go, WorkerStates
  <2>4. \A d \in Deployments : Holds(w, d) <=> d = x
    BY <2>1, <2>2 DEF Holds
  <2>5. \A d \in Deployments : Holds(w, d)' <=> d = x
    BY <1>4, <2>1, <2>2, <2>3 DEF Holds
  <2>6. \A d \in Deployments : status'[d] = status[d] \/ (d = x /\ Active(d) /\ Active(d)')
    <3>1. CASE UNCHANGED status
      BY <3>1
    <3>2. ASSUME NEW s \in ActiveStatuses, WorkerWrites(x, s)
          PROVE  \A d \in Deployments : status'[d] = status[d] \/ (d = x /\ Active(d) /\ Active(d)')
      <4>1. s \in Statuses
        BY DEF Statuses
      <4>2. /\ \A d \in Deployments \ {x} : status'[d] = status[d]
            /\ status'[x] = status[x] \/ (Active(x) /\ status'[x] = s)
        BY <1>0, <2>2, <3>2, <4>1, WritesUnsettled
      <4> QED
        BY <4>2 DEF Active
    <3> QED
      BY <1>4, <2>1, <3>1, <3>2
  <2>7. RowsKept
    BY <1>4, <2>6 DEF RowsKept
  <2>8. \A d \in Deployments : Settled(d)' => Settled(d) /\ d # x /\ status'[d] = status[d]
    BY <2>2, <2>6 DEF Settled, Active, ActiveStatuses
  <2>9. SettledForGood'
    BY <1>0, <1>3, <1>4, <2>3, <2>4, <2>5, <2>8, SettledByWorker
  <2> QED
    BY <2>7, <2>9
\* A step that settles w's deployment.
<1>5. ASSUME worker[w].pc \in Executing, UNCHANGED <<handler, lastDeployment, queue>>,
             Go(w, "settle"), NEW s \in {"running", "failed"},
             WorkerWrites(worker[w].dep, s),
             s = "failed" => worker[w].attempt >= MaxDeliver
      PROVE  SettledForGood' /\ (RowsKept \/ RowSettled)
  <2>1. PICK x \in Deployments : x = worker[w].dep
    BY <1>5, Unsettled
  <2>2. ~ Settled(x) /\ Holds(w, x)
    BY <1>5, <2>1, Unsettled
  <2>3. /\ \A v \in Workers \ {w} : worker'[v] = worker[v]
        /\ worker'[w].pc = "settle" /\ worker'[w].dep = x /\ worker'[w].via = worker[w].via
    BY <1>0, <1>5, <2>1 DEF Go, WorkerStates
  <2>4. \A d \in Deployments : Holds(w, d) <=> d = x
    BY <2>1, <2>2 DEF Holds
  <2>5. \A d \in Deployments : Holds(w, d)' <=> d = x
    BY <2>1, <2>2, <2>3 DEF Holds
  <2>6. /\ \A d \in Deployments \ {x} : status'[d] = status[d]
        /\ status'[x] = status[x] \/ (Active(x) /\ status'[x] = s)
    <3>1. s \in Statuses
      BY DEF Statuses
    <3> QED
      BY <1>0, <1>5, <2>1, <2>2, <3>1, WritesUnsettled
  <2>7. RowsKept \/ RowSettled
    <3>1. CASE status'[x] = status[x]
      BY <1>5, <2>6, <3>1 DEF RowsKept
    <3>2. CASE Active(x) /\ status'[x] = s
      BY <1>5, <2>6, <3>2 DEF RowSettled, Settled
    <3> QED
      BY <2>6, <3>1, <3>2
  <2>8. s = "failed" => deliveries[x] = MaxDeliver
    <3>1. worker[w].attempt = deliveries[x] /\ deliveries[x] <= MaxDeliver
      BY <2>2 DEF CalmInv, PlacedInv, MessagesPlaced
    <3>2. deliveries[x] \in Nat /\ MaxDeliver \in Nat
      BY <1>0, PipelineAssumption
    <3> QED
      BY <1>5, <3>1, <3>2
  <2>9. \A d \in Deployments : ~ Settled(d) /\ Settled(d)' =>
          /\ d = x
          /\ status'[d] = "failed" => deliveries'[d] = MaxDeliver
    BY <1>5, <2>6, <2>8 DEF Settled
  <2>10. \A d \in Deployments : Settled(d) => status'[d] = status[d]
    BY <2>2, <2>6
  <2>11. SettledForGood'
    BY <1>0, <1>3, <1>5, <2>3, <2>4, <2>5, <2>9, <2>10, SettledByWorker
  <2> QED
    BY <2>7, <2>11
\* A delivery: only of what is not settled.
<1>6. ASSUME NEW x \in Deployments, Deliver(w, x), worker[w].pc = "fetch", ~ Settled(x),
             UNCHANGED <<handler, lastDeployment, status>>,
             pending' = pending \cup {x}, redeliver' = redeliver \ {x},
             \A d \in Deployments : Queued(d)' => Queued(d)
      PROVE  SettledForGood' /\ RowsKept
  <2>1. /\ \A v \in Workers \ {w} : worker'[v] = worker[v]
        /\ worker'[w].pc = "building" /\ worker'[w].dep = x /\ worker'[w].via = "message"
        /\ \A d \in Deployments \ {x} : deliveries'[d] = deliveries[d]
    BY <1>0, <1>6 DEF Deliver
  <2>2. \A d \in Deployments : Holds(w, d)' <=> d = x
    BY <2>1 DEF Holds, Executing
  <2>3. \A d \in Deployments : ~ Holds(w, d)
    BY <1>6 DEF Holds, Executing
  <2>4. \A d \in Deployments : Settled(d)' => Settled(d) /\ d # x /\ status'[d] = status[d]
    BY <1>6 DEF Settled
  <2>5. SettledForGood'
    BY <1>0, <1>6, <2>1, <2>2, <2>3, <2>4, SettledByWorker
  <2> QED
    BY <1>2, <1>6, <2>5
\* The end of a message.
<1>7. ASSUME worker[w].pc \in Executing \cup {"settle"}, Continue(w),
             UNCHANGED <<handler, lastDeployment, status, unseen, deliveries>>,
             \A d \in Deployments :
               Settled(d) /\ d \in redeliver' => d \in redeliver /\ d # worker[w].dep,
             \A d \in pending' \ redeliver' : d \in pending \ redeliver /\ d # worker[w].dep
      PROVE  SettledForGood' /\ RowsKept
  <2>1. /\ \A v \in Workers \ {w} : worker'[v] = worker[v]
        /\ \A d \in Deployments : ~ Holds(w, d)'
    BY <1>7, LetsGo DEF TakesNone, CalmInv
  <2>2. \A d \in Deployments : Holds(w, d) => d = worker[w].dep
    BY DEF Holds
  <2>3. \A d \in Deployments : Settled(d)' <=> Settled(d)
    BY <1>7 DEF Settled
  <2>4. SettledForGood'
    BY <1>0, <1>3, <1>7, <2>1, <2>2, <2>3, SettledByWorker
  <2> QED
    BY <1>2, <1>7, <2>4
<1>a. ~ Crash(w) /\ ~ Start(w) /\ ~ SweepDone(w)
  <2>1. ~ Crash(w)
    BY <1>0 DEF Crash
  <2>2. ~ Start(w) /\ ~ SweepDone(w)
    BY <1>1 DEF Start, SweepDone
  <2> QED
    BY <2>1, <2>2
<1>b. ~ SweepNext(w)
  <2>1. SweepNext(w) => worker[w].pc = "sweep"
    BY DEF SweepNext
  <2> QED
    BY <1>1, <2>1
<1>c. CASE FetchRedelivered(w)
  <2>1. PICK x \in redeliver : Deliver(w, x) /\ redeliver' = redeliver \ {x}
    BY <1>c DEF FetchRedelivered
  <2>2. /\ x \in Deployments /\ ~ Settled(x) /\ pending' = pending \cup {x}
        /\ UNCHANGED <<handler, lastDeployment, status, unseen>> /\ worker[w].pc = "fetch"
    <3>1. ~ Acknowledging(x)
      BY <1>0, <1>c, <2>1, DueIsFree DEF FetchRedelivered, CalmInv, Acknowledging
    <3> QED
      BY <1>0, <1>c, <2>1, <3>1 DEF FetchRedelivered, CalmInv, SettledForGood
  <2> QED
    BY <1>3, <1>6, <2>1, <2>2
<1>d. CASE FetchNew(w)
  <2>1. PICK x \in Deployments : x = Head(unseen)
    BY <1>0, <1>d, QueueShrinks DEF FetchNew, CalmInv, PlacedInv
  <2>2. /\ Queued(x)
        /\ \A d \in Deployments : Queued(d)' => Queued(d)
    BY <1>0, <1>d, <2>1, QueueShrinks DEF FetchNew, CalmInv, PlacedInv
  <2>3. /\ ~ Settled(x) /\ Deliver(w, x) /\ worker[w].pc = "fetch"
        /\ UNCHANGED <<handler, lastDeployment, status>>
        /\ pending' = pending \cup {x} /\ redeliver' = redeliver \ {x}
    BY <1>d, <2>1, <2>2 DEF FetchNew, CalmInv, SettledForGood
  <2> QED
    BY <1>6, <2>2, <2>3
<1>e. CASE SetBuilding(w)
  BY <1>4, <1>e DEF SetBuilding, Executing, ActiveStatuses
<1>f. CASE EnsureNamespace(w)
  BY <1>4, <1>f DEF EnsureNamespace, Executing, ActiveStatuses
<1>g. CASE Deploy(w)
  BY <1>4, <1>g DEF Deploy, Executing
<1>h. CASE SetRunning(w)
  BY <1>1, <1>5, <1>h DEF SetRunning, Executing
<1>i. CASE GiveUp(w)
  BY <1>1, <1>5, <1>i DEF GiveUp, Executing
<1>j. CASE Retry(w)
  <2>1. worker[w].pc \in Executing /\ Continue(w)
        /\ redeliver' = redeliver \cup ({worker[w].dep} \cap pending)
        /\ UNCHANGED <<handler, lastDeployment, status, unseen, deliveries, pending>>
    BY <1>j DEF Retry, Executing
  <2>2. ~ Settled(worker[w].dep)
    BY <2>1, Unsettled
  <2> QED
    BY <1>7, <2>1, <2>2
<1>k. CASE Settle(w)
  <2>1. worker[w].pc = "settle" /\ Continue(w)
        /\ pending' = pending \ {worker[w].dep} /\ redeliver' = redeliver \ {worker[w].dep}
        /\ UNCHANGED <<handler, lastDeployment, status, unseen, deliveries>>
    BY <1>k DEF Settle
  <2> QED
    BY <1>7, <2>1
<1> QED
  BY <1>a, <1>b, <1>c, <1>d, <1>e, <1>f, <1>g, <1>h, <1>i, <1>j, <1>k DEF Work

\* A step of a handler away from the queue that settles nothing.
LEMMA SettledByHandler ==
  ASSUME CalmInv, UNCHANGED <<queue, worker>>, NEW h \in Handlers,
         \A g \in Handlers \ {h} : handler'[g] = handler[g],
         handler'[h].pc # "queueError",
         \A d \in Deployments : ToSend(h, d)' => ToSend(h, d) \/ ~ Settled(d)',
         \A d \in Deployments : Settled(d)' => status'[d] = status[d]
  PROVE  SettledForGood'
<1>1. \A v \in Workers, d \in Deployments : Holds(v, d)' <=> Holds(v, d)
  BY DEF Holds
<1>2. \A d \in Deployments : Queued(d)' <=> Queued(d)
  BY DEF Queued, queue
<1>3. \A g \in Handlers, d \in Deployments : ToSend(g, d)' => ToSend(g, d) \/ ~ Settled(d)'
  BY DEF ToSend
<1>4. \A g \in Handlers : handler'[g].pc # "queueError"
  BY DEF CalmInv, SettledForGood
<1>5. \A d \in pending' \ redeliver' : \E v \in Workers : Holds(v, d)'
  BY DEF CalmInv, SettledForGood, queue, Holds
<1>8. \A d \in Deployments : Acknowledging(d)' <=> Acknowledging(d)
  BY DEF Acknowledging, Holds
<1>6. \A d \in Deployments : Settled(d)' => Settled(d)
  BY DEF Settled
<1>7. ASSUME NEW d \in Deployments, Settled(d)'
      PROVE  /\ \A g \in Handlers : ~ ToSend(g, d)'
             /\ ~ Queued(d)' /\ (d \in redeliver' => Acknowledging(d)')
             /\ \A v \in Workers : Holds(v, d)' => worker'[v].pc = "settle"
             /\ status'[d] = "failed" => deliveries'[d] = MaxDeliver
  <2>1. Settled(d) /\ status'[d] = status[d]
    BY <1>6, <1>7
  <2>2. UNCHANGED <<redeliver, deliveries, worker>>
    BY DEF queue
  <2> QED
    BY <1>1, <1>2, <1>3, <1>8, <1>7, <2>1, <2>2 DEF CalmInv, SettledForGood
<1> QED
  BY <1>4, <1>5, <1>7 DEF SettledForGood

LEMMA SettledHandler ==
  ASSUME CalmInv, "publish" \notin Faults, NEW h \in Handlers,
         Accept(h) \/ Proceed(h) \/ Abort(h)
  PROVE  SettledForGood' /\ RowStep
<1> USE DEF queue
<1>0. /\ TypeOK /\ handler \in [Handlers -> HandlerStates]
      /\ status \in [Deployments -> Statuses \cup {"none"}]
      /\ unseen \in Seq(Deployments)
      /\ lastDeployment \in Nat
  <2>1. TypeOK
    BY DEF CalmInv, PlacedInv, ServedInv
  <2> QED
    BY <2>1, PipelineAssumption DEF TypeOK, Versions
<1>1. \A n \in Names, p \in HandlerSteps \ {"publish", "queueError"} :
        handler' = [handler EXCEPT ![h] = [IdleHandler EXCEPT !.pc = p, !.name = n]]
          => /\ \A g \in Handlers \ {h} : handler'[g] = handler[g]
             /\ handler'[h].pc # "queueError" /\ \A d \in Deployments : ~ ToSend(h, d)'
  BY <1>0 DEF ToSend, IdleHandler
<1>2. handler' = [handler EXCEPT ![h] = IdleHandler]
        => /\ \A g \in Handlers \ {h} : handler'[g] = handler[g]
           /\ handler'[h].pc # "queueError" /\ \A d \in Deployments : ~ ToSend(h, d)'
  BY <1>0 DEF ToSend, IdleHandler
<1>3. UNCHANGED <<status, lastDeployment>> => RowStep
  BY DEF RowStep, RowsKept
<1>a. CASE \E n \in Names : CreateCheck(h, n)
  <2>1. /\ \A g \in Handlers \ {h} : handler'[g] = handler[g]
        /\ handler'[h].pc # "queueError" /\ \A d \in Deployments : ~ ToSend(h, d)'
        /\ UNCHANGED <<queue, worker, status, lastDeployment>>
    BY <1>1, <1>a DEF CreateCheck, HandlerSteps
  <2> QED
    BY <1>3, <2>1, SettledByHandler
<1>b. CASE \E n \in Names : UpdateRead(h, n)
  <2>1. /\ \A g \in Handlers \ {h} : handler'[g] = handler[g]
        /\ handler'[h].pc # "queueError" /\ \A d \in Deployments : ~ ToSend(h, d)'
        /\ UNCHANGED <<queue, worker, status, lastDeployment>>
    BY <1>1, <1>b DEF UpdateRead, HandlerSteps
  <2> QED
    BY <1>3, <2>1, SettledByHandler
<1>c. CASE \E n \in Names : DeleteRow(h, n)
  <2>1. /\ \A g \in Handlers \ {h} : handler'[g] = handler[g]
        /\ handler'[h].pc # "queueError" /\ \A d \in Deployments : ~ ToSend(h, d)'
        /\ UNCHANGED <<queue, worker, lastDeployment>>
    BY <1>1, <1>c DEF DeleteRow, HandlerSteps
  <2>2. \A d \in Deployments :
          status'[d] = status[d] \/ (status'[d] = "none" /\ status[d] # "none")
    BY <1>c DEF DeleteRow
  <2>3. \A d \in Deployments : status[d] # "none" => d <= lastDeployment
    BY DEF CalmInv, PlacedInv, ServedInv, RowsCurrent
  <2>4. RowStep
    BY <2>1, <2>2, <2>3 DEF RowStep, RowsRemoved
  <2>5. \A d \in Deployments : Settled(d)' => status'[d] = status[d]
    BY <2>2 DEF Settled
  <2> QED
    BY <2>1, <2>4, <2>5, SettledByHandler
<1>d. CASE CreateInsert(h) \/ UpdateWrite(h)
  <2>1. /\ \A g \in Handlers \ {h} : handler'[g] = handler[g]
        /\ handler'[h].pc # "queueError" /\ \A d \in Deployments : ~ ToSend(h, d)'
    BY <1>0, <1>2, <1>d DEF CreateInsert, UpdateWrite, HandlerStates, ToSend
  <2>2. UNCHANGED <<queue, worker, status, lastDeployment>>
    BY <1>d DEF CreateInsert, UpdateWrite
  <2> QED
    BY <1>3, <2>1, <2>2, SettledByHandler
<1>e. CASE InsertDeployment(h)
  <2>1. CASE handler' = [handler EXCEPT ![h] = IdleHandler] /\ UNCHANGED <<status, lastDeployment>>
    BY <1>1, <1>2, <1>3, <1>e, <2>1, SettledByHandler DEF InsertDeployment
  <2>2. CASE /\ lastDeployment < MaxVersion
             /\ lastDeployment' = lastDeployment + 1
             /\ status' = [status EXCEPT ![lastDeployment + 1] = "queued"]
             /\ handler' = [handler EXCEPT ![h] =
                              [handler[h] EXCEPT !.pc = "publish", !.dep = lastDeployment + 1]]
    <3>1. PICK x \in Deployments : x = lastDeployment + 1
      BY <1>0, <2>2, PipelineAssumption DEF Deployments
    <3>2. /\ \A d \in Deployments \ {x} : status'[d] = status[d]
          /\ Active(x)' /\ ~ Settled(x)'
      BY <1>0, <2>2, <3>1 DEF Active, ActiveStatuses, Settled
    <3>3. /\ \A g \in Handlers \ {h} : handler'[g] = handler[g]
          /\ handler'[h].pc = "publish" /\ handler'[h].dep = x
      BY <1>0, <2>2, <3>1 DEF HandlerStates
    <3>4. RowStep
      BY <2>2, <3>1, <3>2 DEF RowStep, RowAdded
    <3>5. \A d \in Deployments : ToSend(h, d)' => d = x
      BY <3>3 DEF ToSend
    <3>6. UNCHANGED <<queue, worker>>
      BY <1>e DEF InsertDeployment
    <3>7. \A d \in Deployments : Settled(d)' => status'[d] = status[d]
      BY <3>2
    <3>8. \A d \in Deployments : ToSend(h, d)' => ~ Settled(d)'
      BY <3>2, <3>5
    <3> QED
      BY <3>3, <3>4, <3>6, <3>7, <3>8, SettledByHandler
  <2> QED
    BY <1>e, <2>1, <2>2 DEF InsertDeployment
<1>f. CASE Publish(h)
  <2>1. PICK x \in Deployments : x = handler[h].dep
    BY <1>0, <1>f DEF Publish, TypeOK
  <2>2. ToSend(h, x) /\ ~ Queued(x) /\ ~ Settled(x)
    BY <1>f, <2>1 DEF Publish, ToSend, CalmInv, PlacedInv, MessagesPlaced, SettledForGood
  <2>3. \A d \in Deployments : Queued(d)' <=> Queued(d) \/ d = x
    BY <1>0, <1>f, <2>1, <2>2, QueueGrows DEF Publish, CalmInv, PlacedInv
  <2>4. /\ \A g \in Handlers \ {h} : handler'[g] = handler[g]
        /\ handler'[h].pc # "queueError" /\ \A d \in Deployments : ~ ToSend(h, d)'
        /\ UNCHANGED <<pending, redeliver, deliveries, worker, status, lastDeployment>>
    BY <1>1, <1>2, <1>f DEF Publish
  <2>5. \A g \in Handlers, d \in Deployments : ToSend(g, d)' => ToSend(g, d)
    BY <2>4 DEF ToSend
  <2>6. /\ \A v \in Workers, d \in Deployments : Holds(v, d)' <=> Holds(v, d)
        /\ \A d \in Deployments : Settled(d)' <=> Settled(d)
        /\ \A d \in Deployments : Acknowledging(d)' <=> Acknowledging(d)
    BY <2>4 DEF Holds, Settled, Acknowledging
  <2>7. \A g \in Handlers : handler'[g].pc # "queueError"
    BY <2>4 DEF CalmInv, SettledForGood
  <2>8. \A d \in pending' \ redeliver' : \E v \in Workers : Holds(v, d)'
    BY <2>4 DEF CalmInv, SettledForGood, Holds
  <2>9. SettledForGood'
    BY <2>2, <2>3, <2>4, <2>5, <2>6, <2>7, <2>8 DEF CalmInv, SettledForGood
  <2> QED
    BY <1>3, <2>4, <2>9
<1>g. ~ PublishError(h) /\ ~ MarkQueueError(h)
  <2>1. ~ PublishError(h)
    BY DEF PublishError
  <2>2. ~ MarkQueueError(h)
    BY DEF MarkQueueError, CalmInv, SettledForGood
  <2> QED
    BY <2>1, <2>2
<1>h. CASE Undeploy(h)
  BY <1>1, <1>2, <1>3, <1>h, SettledByHandler DEF Undeploy
<1>i. CASE Abort(h)
  BY <1>1, <1>2, <1>3, <1>i, SettledByHandler DEF Abort
<1> QED
  BY <1>a, <1>b, <1>c, <1>d, <1>e, <1>f, <1>g, <1>h, <1>i DEF Accept, Proceed

LEMMA SettledServer ==
  ASSUME CalmInv, NEW x \in Deployments, AckWaitExpires(x) \/ DropExhausted(x)
  PROVE  SettledForGood' /\ RowStep
<1>1. /\ UNCHANGED <<handler, status, lastDeployment, unseen, deliveries, worker>>
      /\ pending' \subseteq pending
      /\ \A d \in Deployments : d \in redeliver' => d \in pending
      /\ \A d \in pending' \ redeliver' : d \in pending \ redeliver /\ d \in Deployments
  <2>1. redeliver \subseteq pending /\ pending \subseteq Deployments
    BY DEF CalmInv, PlacedInv, ServedInv, TypeOK
  <2> QED
    BY <2>1 DEF AckWaitExpires, DropExhausted, api
<1>2. /\ \A h \in Handlers, d \in Deployments : ToSend(h, d)' <=> ToSend(h, d)
      /\ \A d \in Deployments : Queued(d)' <=> Queued(d)
      /\ \A d \in Deployments : Settled(d)' <=> Settled(d)
  BY <1>1 DEF ToSend, Queued, Settled
<1>3. /\ \A v \in Workers, d \in Deployments : Holds(v, d)' <=> Holds(v, d)
      /\ \A d \in Deployments : Acknowledging(d)' <=> Acknowledging(d)
  BY <1>1 DEF Holds, Acknowledging
<1>4. \A d \in pending' \ redeliver' : \E v \in Workers : Holds(v, d)'
  BY <1>1, <1>3 DEF CalmInv, SettledForGood
\* A settled message that is pending is being acknowledged.
<1>5. ASSUME NEW d \in Deployments, Settled(d), d \in redeliver' PROVE Acknowledging(d)
  BY <1>1, <1>5 DEF CalmInv, SettledForGood, Acknowledging
<1>6. SettledForGood'
  BY <1>1, <1>2, <1>3, <1>4, <1>5 DEF CalmInv, SettledForGood
<1>7. RowStep
  BY <1>1 DEF RowStep, RowsKept
<1> QED
  BY <1>6, <1>7

LEMMA CalmInit == ASSUME Started, Init PROVE CalmInv
  BY PlacedInit, UnsweptInit, SettledInit DEF CalmInv

LEMMA CalmNext ==
  ASSUME MaxCrashes = 0, Patient, Faults \cap {"publish", "settle"} = {},
         CalmInv, [Next]_vars
  PROVE  CalmInv' /\ (RowStep \/ UNCHANGED <<status, lastDeployment>>)
<1>1. "publish" \notin Faults /\ "settle" \notin Faults
  OBVIOUS
<1>2. PlacedInv' /\ NeverSwept'
  <2>1. PlacedInv'
    BY PlacedNext DEF CalmInv
  <2>2. TypeOK /\ crashes' = 0
    BY <2>1, NoCrashes DEF CalmInv, PlacedInv, ServedInv
  <2> QED
    BY <2>1, <2>2, UnsweptNext DEF CalmInv
<1>3. CASE UNCHANGED vars
  <2>1. SettledForGood'
    BY <1>3 DEF vars, CalmInv, SettledForGood, Settled, ToSend, Queued, Holds, Acknowledging
  <2> QED
    BY <1>2, <1>3, <2>1 DEF CalmInv, vars
<1>4. CASE Next
  <2>1. SettledForGood' /\ RowStep
    <3>1. RowsKept \/ RowSettled => RowStep
      BY DEF RowStep
    <3> QED
      BY <1>1, <1>4, <3>1, SettledHandler, SettledWorker, SettledServer DEF Next
  <2> QED
    BY <1>2, <2>1 DEF CalmInv
<1> QED
  BY <1>3, <1>4

\* A deployment is marked failed only when the queue has delivered it for the last
\* time and nobody works on it any more (handleMessage), provided that publishes,
\* acknowledgements and workers do not fail and the ack wait is long enough.
THEOREM FailedExhausted ==
  ASSUME Started, MaxCrashes = 0, Faults \cap {"publish", "settle", "earlyExpiry"} = {}
  PROVE  Spec => []FailedMeansExhausted
<1>1. Init => CalmInv
  BY CalmInit
<1>2. CalmInv /\ [Next]_vars => CalmInv'
  BY CalmNext DEF Patient
<1>3. CalmInv => FailedMeansExhausted
  <2> SUFFICES ASSUME CalmInv, NEW d \in Deployments, status[d] = "failed"
               PROVE  deliveries[d] = MaxDeliver /\ d \notin redeliver /\ ~ InHand(d)
    BY DEF FailedMeansExhausted
  <2>1. Settled(d)
    BY DEF Settled
  <2>2. ~ InHand(d)
    BY <2>1, Unsettled DEF InHand
  <2>3. ~ Acknowledging(d) \/ d \notin redeliver
    BY DEF Acknowledging, CalmInv, PlacedInv, MessagesPlaced
  <2> QED
    BY <2>1, <2>2, <2>3 DEF CalmInv, SettledForGood
<1> QED
  BY <1>1, <1>2, <1>3, PTL DEF Spec

-----------------------------------------------------------------------------
(* The pipeline implements DeploymentLifecycle. *)

Stage(st, last, d) ==
  CASE d > last -> "absent"
    [] d <= last /\ st = "none" -> "gone"
    [] st \in ActiveStatuses -> "active"
    [] OTHER -> st

Outcome == [d \in Deployments |-> Stage(status[d], lastDeployment, d)]

\* The cases of the refinement mapping exclude each other.
LEMMA StageIs ==
  ASSUME NEW d \in Nat, NEW last \in Nat, NEW st \in Statuses \cup {"none"},
         st # "none" => d <= last
  PROVE  /\ d > last => Stage(st, last, d) = "absent"
         /\ d <= last /\ st = "none" => Stage(st, last, d) = "gone"
         /\ st \in ActiveStatuses => Stage(st, last, d) = "active"
         /\ st \in {"running", "failed"} => Stage(st, last, d) = st
<1>1. CASE d > last
  <2>1. ~ (d <= last) /\ st = "none"
    BY <1>1
  <2> QED
    BY <1>1, <2>1 DEF Stage, ActiveStatuses
<1>2. CASE d <= last
  <2>1. ~ (d > last)
    BY <1>2
  <2> QED
    BY <1>2, <2>1 DEF Stage, ActiveStatuses
<1> QED
  BY <1>1, <1>2

\* A step of the table is a step of the lifecycle, or none.
LEMMA OutcomeStep ==
  ASSUME TypeOK, TypeOK', RowsCurrent, RowsCurrent',
         RowStep \/ UNCHANGED <<status, lastDeployment>>
  PROVE  \/ Outcome' = Outcome
         \/ \E d \in Deployments :
              /\ Outcome[d] = "absent"
              /\ Outcome' = [Outcome EXCEPT ![d] = "active"]
         \/ \E d \in Deployments, o \in {"running", "failed"} :
              /\ Outcome[d] = "active"
              /\ Outcome' = [Outcome EXCEPT ![d] = o]
         \/ \E D \in SUBSET Deployments :
              /\ \A d \in D : Outcome[d] # "absent"
              /\ Outcome' = [d \in Deployments |-> IF d \in D THEN "gone" ELSE Outcome[d]]
<1>0. /\ Deployments \subseteq Nat /\ lastDeployment \in Nat /\ lastDeployment' \in Nat
      /\ \A d \in Deployments : status[d] \in Statuses \cup {"none"}
      /\ \A d \in Deployments : status'[d] \in Statuses \cup {"none"}
  <2>1. Deployments \subseteq Nat /\ Versions \subseteq Nat
    BY PipelineAssumption DEF Versions, Deployments
  <2>2. lastDeployment \in Versions /\ status \in [Deployments -> Statuses \cup {"none"}]
    BY DEF TypeOK
  <2>3. lastDeployment' \in Versions /\ status' \in [Deployments -> Statuses \cup {"none"}]
    BY DEF TypeOK
  <2> QED
    BY <2>1, <2>2, <2>3
<1>1. \A d \in Deployments :
        /\ status[d] # "none" => d <= lastDeployment
        /\ status'[d] # "none" => d <= lastDeployment'
  BY DEF RowsCurrent
<1>2. \A d \in Deployments :
        /\ d > lastDeployment => Outcome[d] = "absent"
        /\ d <= lastDeployment /\ status[d] = "none" => Outcome[d] = "gone"
        /\ Active(d) => Outcome[d] = "active"
        /\ Settled(d) => Outcome[d] = status[d]
  BY <1>0, <1>1, StageIs DEF Outcome, Active, Settled
<1>3. \A d \in Deployments :
        /\ d > lastDeployment' => Outcome'[d] = "absent"
        /\ d <= lastDeployment' /\ status'[d] = "none" => Outcome'[d] = "gone"
        /\ Active(d)' => Outcome'[d] = "active"
        /\ Settled(d)' => Outcome'[d] = status'[d]
  <2> SUFFICES ASSUME NEW d \in Deployments
               PROVE  /\ d > lastDeployment' => Outcome'[d] = "absent"
                      /\ d <= lastDeployment' /\ status'[d] = "none" => Outcome'[d] = "gone"
                      /\ Active(d)' => Outcome'[d] = "active"
                      /\ Settled(d)' => Outcome'[d] = status'[d]
    OBVIOUS
  <2>1. Outcome'[d] = Stage(status'[d], lastDeployment', d)
    BY DEF Outcome
  <2> QED
    BY <1>0, <1>1, <2>1, StageIs DEF Active, Settled
<1>4. /\ \A d \in Deployments :
           Outcome'[d] = Stage(status'[d], lastDeployment', d)
      /\ \A d \in Deployments : Outcome[d] = Stage(status[d], lastDeployment, d)
      /\ Outcome' = [d \in Deployments |-> Outcome'[d]]
      /\ Outcome = [d \in Deployments |-> Outcome[d]]
  BY DEF Outcome
<1>5. \A d \in Deployments :
        status'[d] = status[d] /\ lastDeployment' = lastDeployment => Outcome'[d] = Outcome[d]
  BY <1>4
<1>a. CASE RowsKept \/ UNCHANGED <<status, lastDeployment>>
  <2>1. \A d \in Deployments : Outcome'[d] = Outcome[d]
    BY <1>2, <1>3, <1>5, <1>a DEF RowsKept
  <2> QED
    BY <1>4, <2>1
<1>b. CASE RowSettled
  <2>1. PICK x \in Deployments :
          /\ Active(x) /\ Settled(x)'
          /\ \A d \in Deployments \ {x} : status'[d] = status[d]
    BY <1>b DEF RowSettled
  <2>2. Outcome[x] = "active" /\ Outcome'[x] = status'[x] /\ status'[x] \in {"running", "failed"}
    BY <1>2, <1>3, <2>1 DEF Settled
  <2>3. \A d \in Deployments \ {x} : Outcome'[d] = Outcome[d]
    BY <1>5, <1>b, <2>1 DEF RowSettled
  <2>4. Outcome' = [Outcome EXCEPT ![x] = status'[x]]
    BY <1>4, <2>2, <2>3
  <2> QED
    BY <2>2, <2>4
<1>c. CASE RowAdded
  <2>1. PICK x \in Deployments :
          /\ x = lastDeployment + 1 /\ Active(x)'
          /\ \A d \in Deployments \ {x} : status'[d] = status[d]
    BY <1>c DEF RowAdded
  <2>2. Outcome[x] = "absent" /\ Outcome'[x] = "active"
    BY <1>0, <1>2, <1>3, <2>1
  <2>3. ASSUME NEW d \in Deployments \ {x} PROVE Outcome'[d] = Outcome[d]
    <3>1. /\ d \in Nat /\ status'[d] = status[d]
          /\ d > lastDeployment' <=> d > lastDeployment
          /\ d <= lastDeployment' <=> d <= lastDeployment
      BY <1>0, <1>c, <2>1 DEF RowAdded
    <3>2. Stage(status'[d], lastDeployment', d) = Stage(status[d], lastDeployment, d)
      BY <3>1 DEF Stage
    <3> QED
      BY <1>4, <3>2
  <2>4. Outcome' = [Outcome EXCEPT ![x] = "active"]
    BY <1>4, <2>2, <2>3
  <2> QED
    BY <2>2, <2>4
<1>d. CASE RowsRemoved
  <2> DEFINE D == {d \in Deployments : status'[d] = "none" /\ d <= lastDeployment}
  <2>1. \A d \in D : Outcome[d] # "absent" /\ Outcome'[d] = "gone"
    <3>1. \A d \in D : Outcome'[d] = "gone"
      BY <1>3, <1>d DEF RowsRemoved
    <3>2. \A d \in D : status[d] = "none" \/ Active(d) \/ Settled(d)
      BY <1>0 DEF Statuses, Active, Settled
    <3>3. \A d \in D : Outcome[d] # "absent"
      BY <1>2, <3>2 DEF Settled
    <3> QED
      BY <3>1, <3>3
  <2>2. \A d \in Deployments \ D : Outcome'[d] = Outcome[d]
    BY <1>5, <1>d DEF RowsRemoved
  <2>3. PICK R \in SUBSET Deployments : R = D
    OBVIOUS
  <2> HIDE DEF D
  <2>4. Outcome' = [d \in Deployments |-> IF d \in R THEN "gone" ELSE Outcome[d]]
    BY <1>4, <2>1, <2>2, <2>3
  <2> QED
    BY <2>1, <2>3, <2>4
<1> QED
  BY <1>a, <1>b, <1>c, <1>d DEF RowStep

\* The pipeline implements DeploymentLifecycle: a deployment settles at most once,
\* as running or failed, and only a deletion of its function takes that back -
\* however many retries, failed status updates and requests cut short it saw, and
\* with one worker whenever the ack wait ran out in the middle of an attempt.
THEOREM Implements ==
  ASSUME Started, MaxCrashes = 0, Patient, Faults \cap {"publish", "settle"} = {}
  PROVE  Spec => SettlesOnce
<1>1. Init => Lifecycle!Init
  <2> SUFFICES ASSUME Init PROVE Lifecycle!Init
    OBVIOUS
  <2>1. \A d \in Deployments : d > lastDeployment
    BY DEF Init, Deployments
  <2>2. \A d \in Deployments : status[d] = "none"
    BY DEF Init
  <2>3. Outcome = [d \in Deployments |-> "absent"]
    <3>1. ASSUME NEW d \in Deployments
          PROVE  Stage(status[d], lastDeployment, d) = "absent"
      <4>1. d \in Nat /\ lastDeployment \in Nat /\ status[d] \in Statuses \cup {"none"}
        BY <2>2, PipelineAssumption DEF Init, Deployments
      <4> QED
        BY <4>1, <2>1, <2>2, StageIs
    <3> QED
      BY <3>1 DEF Outcome
  <2> QED
    BY <2>3 DEF Lifecycle!Init, Outcome, Stage, Active
<1>2. CalmInv /\ CalmInv' /\ [Next]_vars => [Lifecycle!Next]_Outcome
  <2> SUFFICES ASSUME CalmInv, CalmInv', [Next]_vars
               PROVE  [Lifecycle!Next]_Outcome
    OBVIOUS
  <2>1. TypeOK /\ TypeOK' /\ RowsCurrent /\ RowsCurrent'
    BY DEF CalmInv, PlacedInv, ServedInv
  <2>2. RowStep \/ UNCHANGED <<status, lastDeployment>>
    BY CalmNext
  <2>3. Lifecycle!Next \/ Outcome' = Outcome
    <3>1. CASE \E d \in Deployments :
                 /\ Outcome[d] = "absent"
                 /\ Outcome' = [Outcome EXCEPT ![d] = "active"]
      BY <3>1 DEF Lifecycle!Next, Lifecycle!Accept, Outcome, Stage, Active
    <3>2. CASE \E d \in Deployments, o \in {"running", "failed"} :
                 /\ Outcome[d] = "active"
                 /\ Outcome' = [Outcome EXCEPT ![d] = o]
      BY <3>2 DEF Lifecycle!Next, Lifecycle!Settle, Outcome, Stage, Active
    <3>3. CASE \E D \in SUBSET Deployments :
                 /\ \A d \in D : Outcome[d] # "absent"
                 /\ Outcome' = [d \in Deployments |-> IF d \in D THEN "gone" ELSE Outcome[d]]
      BY <3>3 DEF Lifecycle!Next, Lifecycle!Remove, Outcome, Stage, Active
    <3> QED
      BY <2>1, <2>2, <3>1, <3>2, <3>3, OutcomeStep
  <2> QED
    BY <2>3
<1>3. Init => CalmInv
  BY CalmInit
<1>4. CalmInv /\ [Next]_vars => CalmInv'
  BY CalmNext
<1> QED
  BY <1>1, <1>2, <1>3, <1>4, PTL DEF Spec, SettlesOnce, Lifecycle!Spec, Outcome, Stage, Active

-----------------------------------------------------------------------------
(* Clean deletions.  A deployment that is still to be executed, and whose   *)
(* row is gone, went with an active row: its function's deletion counts as  *)
(* unclean.                                                                 *)

Due(d) ==
  \/ \E h \in Handlers : ToSend(h, d)
  \/ Queued(d) \/ InHand(d)
  \/ d \in redeliver /\ ~ Acknowledging(d)

IdsDistinct ==
  \A m, n \in Names : functions[m].id = functions[n].id /\ functions[n].id # 0 => m = n

OrphansUnclean ==
  \A d \in Deployments :
    Due(d) /\ d <= lastDeployment /\ status[d] = "none" => request[d].name \in uncleanDelete

CleanInv == CalmInv /\ IdsDistinct /\ OrphansUnclean /\ CleanDelete

\* A row that is in the table belongs to the function of its name.
LEMMA RowOfName ==
  ASSUME CleanInv, NEW d \in Deployments, status[d] # "none"
  PROVE  /\ request[d].name \in Names
         /\ functions[request[d].name] # NoFunction
         /\ \A n \in Names : functions[n] # NoFunction /\ functions[n].id = request[d].fid
                               => n = request[d].name
<1>1. TypeOK /\ RowsCurrent /\ IdsIssued /\ IdsDistinct
  BY DEF CleanInv, CalmInv, PlacedInv, ServedInv
<1>2. request[d].name \in Names
  BY <1>1 DEF TypeOK
<1>3. /\ functions[request[d].name] # NoFunction
      /\ functions[request[d].name].id = request[d].fid
  BY <1>1 DEF RowsCurrent
<1>4. functions[request[d].name].id # 0
  BY <1>1, <1>2, <1>3 DEF IdsIssued
<1> QED
  BY <1>1, <1>2, <1>3, <1>4 DEF IdsDistinct

LEMMA DistinctInit == Init => IdsDistinct
  BY DEF Init, IdsDistinct, NoFunction

LEMMA DistinctNext ==
  ASSUME ServedInv, IdsDistinct, [Next]_vars
  PROVE  IdsDistinct'
<1>1. /\ functions \in [Names -> [id : Versions, version : Versions]]
      /\ lastVersion \in Versions /\ Versions \subseteq Nat
      /\ \A n \in Names : functions[n].id <= lastVersion
  BY PipelineAssumption DEF ServedInv, TypeOK, IdsIssued, Versions
<1>2. CASE functions' = functions
  BY <1>2 DEF IdsDistinct
<1>3. ASSUME NEW n \in Names,
             functions' = [functions EXCEPT ![n] = [id |-> lastVersion + 1, version |-> lastVersion + 1]]
      PROVE  IdsDistinct'
  <2>1. /\ functions'[n].id = lastVersion + 1
        /\ \A m \in Names \ {n} : functions'[m] = functions[m]
    BY <1>1, <1>3
  <2>2. \A m \in Names : functions[m].id # lastVersion + 1
    BY <1>1
  <2> QED
    BY <2>1, <2>2 DEF IdsDistinct
<1>4. ASSUME NEW n \in Names, functions' = [functions EXCEPT ![n] = NoFunction]
      PROVE  IdsDistinct'
  BY <1>1, <1>4 DEF IdsDistinct, NoFunction
<1>5. ASSUME NEW n \in Names, NEW v, functions' = [functions EXCEPT ![n].version = v]
      PROVE  IdsDistinct'
  BY <1>1, <1>5 DEF IdsDistinct
<1>6. ASSUME NEW h \in Handlers PROVE handler[h].name \in Names
  BY DEF ServedInv, TypeOK, HandlerStates
<1>7. ASSUME NEW h \in Handlers, CreateInsert(h) PROVE IdsDistinct'
  BY <1>2, <1>3, <1>6, <1>7 DEF CreateInsert
<1>8. ASSUME NEW h \in Handlers, UpdateWrite(h) PROVE IdsDistinct'
  BY <1>2, <1>5, <1>6, <1>8 DEF UpdateWrite
<1>9. ASSUME NEW h \in Handlers, NEW n \in Names, DeleteRow(h, n) PROVE IdsDistinct'
  BY <1>4, <1>9 DEF DeleteRow
<1>10. ASSUME NEW h \in Handlers, Accept(h) \/ Proceed(h) \/ Abort(h) PROVE IdsDistinct'
  <2>1. \/ functions' = functions
        \/ CreateInsert(h) \/ UpdateWrite(h) \/ \E n \in Names : DeleteRow(h, n)
    BY <1>10
    DEF Accept, Proceed, Abort, CreateCheck, UpdateRead, InsertDeployment, Publish,
        PublishError, MarkQueueError, Undeploy
  <2> QED
    BY <1>2, <1>7, <1>8, <1>9, <2>1
<1>11. ASSUME NEW w \in Workers, Work(w) \/ Crash(w) PROVE functions' = functions
  BY <1>11
  DEF Work, Crash, Start, SweepNext, SweepDone, FetchRedelivered, FetchNew, SetBuilding,
      EnsureNamespace, Deploy, SetRunning, GiveUp, Retry, Settle, api
<1>12. ASSUME NEW d \in Deployments, AckWaitExpires(d) \/ DropExhausted(d)
       PROVE  functions' = functions
  BY <1>12 DEF AckWaitExpires, DropExhausted, api
<1>13. CASE UNCHANGED vars
  BY <1>2, <1>13 DEF vars
<1> QED
  BY <1>2, <1>10, <1>11, <1>12, <1>13 DEF Next

\* A worker, or the server, adds no work and removes no row.
LEMMA CleanByWorker ==
  ASSUME CleanInv, UNCHANGED api,
         \A d \in Deployments : status'[d] = "none" => status[d] = "none",
         \A d \in Deployments : Due(d)' => Due(d),
         \A n \in Names : service'[n] # 0 =>
           service[n] # 0 \/ functions[n] # NoFunction \/ n \in uncleanDelete
  PROVE  OrphansUnclean' /\ CleanDelete'
<1>1. UNCHANGED <<functions, request, lastDeployment, handler, uncleanDelete>>
  BY DEF api
<1>2. OrphansUnclean'
  BY <1>1 DEF CleanInv, OrphansUnclean
<1>3. CleanDelete'
  BY <1>1 DEF CleanInv, CleanDelete
<1> QED
  BY <1>2, <1>3

LEMMA CleanWorker ==
  ASSUME CleanInv, "settle" \notin Faults, Patient, MaxCrashes = 0, NEW w \in Workers, Work(w) \/ Crash(w)
  PROVE  OrphansUnclean' /\ CleanDelete'
<1>0. /\ TypeOK /\ worker \in [Workers -> WorkerStates] /\ worker[w] \in WorkerStates
      /\ status \in [Deployments -> Statuses \cup {"none"}]
      /\ unseen \in Seq(Deployments) /\ redeliver \subseteq pending
      /\ pending \subseteq Deployments
      /\ crashes = 0
  <2>1. TypeOK
    BY DEF CleanInv, CalmInv, PlacedInv, ServedInv
  <2> QED
    BY <2>1 DEF TypeOK
<1>1. /\ worker[w].pc # "down" /\ worker[w].pc # "sweep"
      /\ worker[w].pc # "fetch" => worker[w].via = "message"
  BY DEF CleanInv, CalmInv, NeverSwept, Executing
<1>2. UNCHANGED api => \A h \in Handlers, d \in Deployments : ToSend(h, d)' <=> ToSend(h, d)
  BY DEF api, ToSend
<1>3. UNCHANGED unseen => \A d \in Deployments : Queued(d)' <=> Queued(d)
  BY DEF Queued
<1>4. UNCHANGED service => \A n \in Names : service'[n] # 0 => service[n] # 0
  OBVIOUS
<1>5. ASSUME UNCHANGED status \/ \E s \in Statuses : WorkerWrites(worker[w].dep, s)
      PROVE  \A d \in Deployments : status'[d] = "none" => status[d] = "none"
  <2>1. CASE UNCHANGED status
    BY <2>1
  <2>2. ASSUME NEW s \in Statuses, WorkerWrites(worker[w].dep, s)
        PROVE  \A d \in Deployments : status'[d] = "none" => status[d] = "none"
    <3>1. \/ status' = status
          \/ status' = [status EXCEPT ![worker[w].dep] = s]
      BY <2>2 DEF WorkerWrites, WithStatus
    <3>2. s # "none"
      BY DEF Statuses, ActiveStatuses
    <3> QED
      BY <1>0, <3>1, <3>2
  <2> QED
    BY <1>5, <2>1, <2>2
\* A step that goes on with w's deployment.
<1>6. ASSUME worker[w].pc \in Executing, NEW pc \in WorkerSteps, Go(w, pc), UNCHANGED <<api, queue>>,
             UNCHANGED status \/ \E s \in Statuses : WorkerWrites(worker[w].dep, s),
             \A n \in Names : service'[n] # 0 =>
               service[n] # 0 \/ functions[n] # NoFunction \/ n \in uncleanDelete
      PROVE  OrphansUnclean' /\ CleanDelete'
  <2>1. /\ \A v \in Workers \ {w} : worker'[v] = worker[v]
        /\ worker'[w].dep = worker[w].dep
    BY <1>0, <1>6 DEF Go, WorkerStates
  <2>2. \A d \in Deployments :
          (InHand(d)' => InHand(d)) /\ (Acknowledging(d) => Acknowledging(d)')
    BY <1>6, <2>1 DEF InHand, Acknowledging, Holds, Executing
  <2>3. \A d \in Deployments : Due(d)' => Due(d)
    BY <1>2, <1>3, <1>6, <2>2 DEF Due, queue
  <2> QED
    BY <1>5, <1>6, <2>3, CleanByWorker
\* A delivery.
<1>7. ASSUME NEW x \in Deployments, Due(x), Deliver(w, x), worker[w].pc = "fetch",
             UNCHANGED <<api, status, service>>,
             redeliver' \subseteq redeliver,
             \A d \in Deployments : Queued(d)' => Queued(d)
      PROVE  OrphansUnclean' /\ CleanDelete'
  <2>1. /\ \A v \in Workers \ {w} : worker'[v] = worker[v]
        /\ worker'[w].dep = x
    BY <1>0, <1>7 DEF Deliver
  <2>2. \A d \in Deployments :
          (InHand(d)' => InHand(d) \/ d = x) /\ (Acknowledging(d) => Acknowledging(d)')
    BY <1>7, <2>1 DEF InHand, Acknowledging, Holds
  <2>3. \A d \in Deployments : Due(d)' => Due(d)
    BY <1>2, <1>7, <2>2 DEF Due
  <2> QED
    BY <1>4, <1>7, <2>3, CleanByWorker
\* The end of a message.
<1>8. ASSUME Continue(w), worker[w].via = "message", UNCHANGED <<api, status, unseen, service>>,
             \A d \in Deployments :
               d \in redeliver' => (d \in redeliver /\ d # worker[w].dep) \/ InHand(d)
      PROVE  OrphansUnclean' /\ CleanDelete'
  <2>1. /\ \A v \in Workers \ {w} : worker'[v] = worker[v]
        /\ worker'[w].pc = "fetch"
    BY <1>0, <1>8 DEF Continue, DownWorker
  <2>2. /\ \A d \in Deployments : InHand(d)' => InHand(d)
        /\ \A d \in Deployments :
             Acknowledging(d) /\ d # worker[w].dep => Acknowledging(d)'
    BY <2>1 DEF InHand, Executing, Acknowledging, Holds
  <2>3. \A d \in Deployments : Due(d)' => Due(d)
    BY <1>2, <1>3, <1>8, <2>2 DEF Due
  <2> QED
    BY <1>4, <1>8, <2>3, CleanByWorker
<1>a. ~ Crash(w) /\ ~ Start(w) /\ ~ SweepDone(w)
  <2>1. ~ Crash(w)
    BY <1>0 DEF Crash
  <2>2. ~ Start(w) /\ ~ SweepDone(w)
    BY <1>1 DEF Start, SweepDone
  <2> QED
    BY <2>1, <2>2
<1>b. ~ SweepNext(w)
  <2>1. SweepNext(w) => worker[w].pc = "sweep"
    BY DEF SweepNext
  <2> QED
    BY <1>1, <2>1
<1>c. CASE FetchRedelivered(w)
  <2>1. PICK x \in redeliver : Deliver(w, x) /\ redeliver' = redeliver \ {x}
    BY <1>c DEF FetchRedelivered
  <2>2. /\ x \in Deployments /\ Due(x)
        /\ UNCHANGED <<api, status, unseen, service>> /\ worker[w].pc = "fetch"
    BY <1>0, <1>c, <2>1, DueIsFree
    DEF FetchRedelivered, Due, CleanInv, CalmInv, Acknowledging
  <2> QED
    BY <1>3, <1>7, <2>1, <2>2
<1>d. CASE FetchNew(w)
  <2>1. PICK x \in Deployments : x = Head(unseen)
    BY <1>0, <1>d, QueueShrinks DEF FetchNew, CleanInv, CalmInv, PlacedInv
  <2>2. /\ Due(x)
        /\ \A d \in Deployments : Queued(d)' => Queued(d)
    BY <1>0, <1>d, <2>1, QueueShrinks DEF FetchNew, CleanInv, CalmInv, PlacedInv, Due
  <2>3. Deliver(w, x) /\ worker[w].pc = "fetch" /\ UNCHANGED <<api, status, redeliver, service>>
    BY <1>d, <2>1 DEF FetchNew
  <2> QED
    BY <1>7, <2>2, <2>3
<1>e. CASE SetBuilding(w)
  BY <1>4, <1>6, <1>e DEF SetBuilding, Executing, WorkerSteps, Statuses, ActiveStatuses
<1>f. CASE EnsureNamespace(w)
  BY <1>4, <1>6, <1>f DEF EnsureNamespace, Executing, WorkerSteps, Statuses, ActiveStatuses
<1>g. CASE Deploy(w)
  <2>1. worker[w].pc \in Executing /\ UNCHANGED <<api, status, queue>>
        /\ \E pc \in WorkerSteps : Go(w, pc)
    BY <1>g DEF Deploy, Executing, WorkerSteps
  <2>2. PICK x \in Deployments : x = worker[w].dep
    BY <2>1, Unsettled DEF CleanInv
  <2>3. x <= lastDeployment /\ Due(x)
    BY <2>1, <2>2, Unsettled DEF CleanInv, Due, InHand
  <2>4. functions[request[x].name] # NoFunction \/ request[x].name \in uncleanDelete
    <3>1. CASE status[x] = "none"
      BY <2>3, <3>1 DEF CleanInv, OrphansUnclean
    <3>2. CASE status[x] # "none"
      BY <3>2, RowOfName
    <3> QED
      BY <3>1, <3>2
  <2>5. service \in [Names -> Versions]
    BY <1>0 DEF TypeOK
  <2>6. \A n \in Names : service'[n] # 0 => service[n] # 0 \/ n = request[x].name
    BY <1>g, <2>2, <2>5 DEF Deploy
  <2> QED
    BY <1>6, <2>1, <2>4, <2>6
<1>h. CASE SetRunning(w)
  BY <1>1, <1>4, <1>6, <1>h DEF SetRunning, Executing, WorkerSteps, Statuses
<1>i. CASE GiveUp(w)
  BY <1>1, <1>4, <1>6, <1>i DEF GiveUp, Executing, WorkerSteps, Statuses
<1>j. CASE Retry(w)
  <2>1. /\ worker[w].pc \in Executing /\ Continue(w) /\ worker[w].via = "message"
        /\ redeliver' \subseteq redeliver \cup {worker[w].dep}
        /\ UNCHANGED <<api, status, unseen, service>>
    BY <1>j DEF Retry, Executing
  <2>2. \A d \in Deployments :
          d \in redeliver' => (d \in redeliver /\ d # worker[w].dep) \/ InHand(d)
    BY <2>1 DEF InHand
  <2> QED
    BY <1>8, <2>1, <2>2
<1>k. CASE Settle(w)
  <2>1. /\ Continue(w) /\ worker[w].via = "message"
        /\ redeliver' = redeliver \ {worker[w].dep}
        /\ UNCHANGED <<api, status, unseen, service>>
    BY <1>1, <1>k DEF Settle
  <2> QED
    BY <1>8, <2>1
<1> QED
  BY <1>a, <1>b, <1>c, <1>d, <1>e, <1>f, <1>g, <1>h, <1>i, <1>j, <1>k DEF Work

\* A handler that adds no work and leaves the cluster, the functions and the
\* deletions under way as they are.
LEMMA CleanByHandler ==
  ASSUME CleanInv, UNCHANGED <<worker, service, functions, uncleanDelete, redeliver>>,
         NEW h \in Handlers, handler[h].pc # "undeploy",
         \A g \in Handlers \ {h} : handler'[g] = handler[g],
         \A d \in Deployments :
           Due(d)' /\ d <= lastDeployment' /\ status'[d] = "none" =>
             /\ Due(d) /\ d <= lastDeployment /\ status[d] = "none"
             /\ request'[d].name = request[d].name
  PROVE  OrphansUnclean' /\ CleanDelete'
<1>1. OrphansUnclean'
  BY DEF CleanInv, OrphansUnclean
<1>2. CleanDelete'
  BY DEF CleanInv, CleanDelete
<1> QED
  BY <1>1, <1>2

LEMMA CleanHandler ==
  ASSUME CleanInv, "publish" \notin Faults, NEW h \in Handlers,
         Accept(h) \/ Proceed(h) \/ Abort(h)
  PROVE  OrphansUnclean' /\ CleanDelete'
<1> USE DEF queue
<1>0. /\ TypeOK /\ handler \in [Handlers -> HandlerStates]
      /\ status \in [Deployments -> Statuses \cup {"none"}]
      /\ request \in [Deployments -> [name : Names, fid : Versions, version : Versions]]
      /\ functions \in [Names -> [id : Versions, version : Versions]]
      /\ service \in [Names -> Versions]
      /\ unseen \in Seq(Deployments)
      /\ lastDeployment \in Nat /\ Deployments \subseteq Nat
  <2>1. TypeOK
    BY DEF CleanInv, CalmInv, PlacedInv, ServedInv
  <2>2. Deployments \subseteq Nat /\ Versions \subseteq Nat
    BY PipelineAssumption DEF Versions, Deployments
  <2> QED
    BY <2>1, <2>2 DEF TypeOK
<1>1. \A n \in Names, p \in HandlerSteps \ {"publish", "queueError"} :
        handler' = [handler EXCEPT ![h] = [IdleHandler EXCEPT !.pc = p, !.name = n]]
          => /\ \A g \in Handlers \ {h} : handler'[g] = handler[g]
             /\ handler'[h].pc = p /\ handler'[h].name = n
             /\ \A d \in Deployments : ~ ToSend(h, d)'
  BY <1>0 DEF ToSend, IdleHandler
<1>2. handler' = [handler EXCEPT ![h] = IdleHandler]
        => /\ \A g \in Handlers \ {h} : handler'[g] = handler[g]
           /\ handler'[h].pc = "idle"
           /\ \A d \in Deployments : ~ ToSend(h, d)'
  BY <1>0 DEF ToSend, IdleHandler
<1>3. UNCHANGED worker => \A d \in Deployments :
        (InHand(d)' <=> InHand(d)) /\ (Acknowledging(d)' <=> Acknowledging(d))
  BY DEF InHand, Acknowledging, Holds
<1>4. UNCHANGED unseen => \A d \in Deployments : Queued(d)' <=> Queued(d)
  BY DEF Queued
\* A handler that gets nothing to send adds no work.
<1>5. ASSUME \A g \in Handlers \ {h} : handler'[g] = handler[g],
             \A d \in Deployments : ~ ToSend(h, d)', UNCHANGED <<queue, worker>>
      PROVE  \A d \in Deployments : Due(d)' => Due(d)
  <2>1. \A g \in Handlers, d \in Deployments : ToSend(g, d)' => ToSend(g, d)
    BY <1>5 DEF ToSend
  <2> QED
    BY <1>3, <1>4, <1>5, <2>1 DEF Due
<1>a. CASE \E n \in Names : CreateCheck(h, n) \/ UpdateRead(h, n)
  <2>1. /\ \A g \in Handlers \ {h} : handler'[g] = handler[g]
        /\ \A d \in Deployments : ~ ToSend(h, d)'
        /\ UNCHANGED <<queue, worker, status, lastDeployment, request, service, functions,
                       uncleanDelete>>
        /\ handler[h].pc = "idle"
    BY <1>1, <1>a DEF CreateCheck, UpdateRead, HandlerSteps
  <2> QED
    BY <1>5, <2>1, CleanByHandler
<1>b. CASE \E n \in Names : DeleteRow(h, n)
  <2>1. PICK n \in Names : DeleteRow(h, n)
    BY <1>b
  <2>2. /\ \A g \in Handlers \ {h} : handler'[g] = handler[g]
        /\ handler'[h].pc = "undeploy" /\ handler'[h].name = n
        /\ \A d \in Deployments : ~ ToSend(h, d)'
        /\ handler[h].pc = "idle"
        /\ functions' = [functions EXCEPT ![n] = NoFunction] /\ functions[n] # NoFunction
        /\ UNCHANGED <<request, lastDeployment, queue, worker, service>>
        /\ uncleanDelete \subseteq uncleanDelete'
    BY <1>1, <2>1 DEF DeleteRow, HandlerSteps
  <2>3. \A d \in Deployments : Due(d)' => Due(d)
    BY <1>5, <2>2
  <2>4. ASSUME NEW d \in Deployments, Due(d), status[d] # "none", status'[d] = "none"
        PROVE  request[d].name \in uncleanDelete'
    <3>1. request[d].fid = functions[n].id
      BY <1>0, <2>1, <2>4 DEF DeleteRow
    <3>2. n = request[d].name
      BY <2>2, <2>4, <3>1, RowOfName
    <3>3. ~ Settled(d)
      <4>1. ASSUME NEW w \in Workers, worker[w].pc \in Executing, worker[w].dep = d
            PROVE  ~ Settled(d)
        BY <4>1, Unsettled DEF CleanInv
      <4> QED
        BY <2>4, <4>1 DEF Due, InHand, CleanInv, CalmInv, SettledForGood
    <3>4. Active(d)
      BY <1>0, <2>4, <3>3 DEF Statuses, Settled, Active
    <3> QED
      BY <2>1, <2>4, <3>1, <3>2, <3>4 DEF DeleteRow
  <2>5. OrphansUnclean'
    BY <2>2, <2>3, <2>4 DEF CleanInv, OrphansUnclean
  <2>6. CleanDelete'
    <3> SUFFICES ASSUME NEW m \in Names, functions'[m] = NoFunction, m \notin uncleanDelete',
                        service'[m] # 0
                 PROVE  \E g \in Handlers : handler'[g].pc = "undeploy" /\ handler'[g].name = m
      BY DEF CleanDelete
    <3>1. CASE m = n
      BY <2>2, <3>1
    <3>2. CASE m # n
      <4>1. functions[m] = NoFunction /\ m \notin uncleanDelete /\ service[m] # 0
        BY <1>0, <2>2, <3>2
      <4>2. PICK g \in Handlers : handler[g].pc = "undeploy" /\ handler[g].name = m
        BY <4>1 DEF CleanInv, CleanDelete
      <4> QED
        BY <2>2, <4>2
    <3> QED
      BY <3>1, <3>2
  <2> QED
    BY <2>5, <2>6
<1>c. CASE CreateInsert(h) \/ UpdateWrite(h)
  <2>1. /\ \A g \in Handlers \ {h} : handler'[g] = handler[g]
        /\ \A d \in Deployments : ~ ToSend(h, d)'
    <3>1. \/ handler' = [handler EXCEPT ![h] = IdleHandler]
          \/ \E v, id : handler' = [handler EXCEPT ![h] =
                          [handler[h] EXCEPT !.pc = "deployment", !.fid = id, !.version = v]]
      BY <1>0, <1>c DEF CreateInsert, UpdateWrite, HandlerStates
    <3>2. CASE handler' = [handler EXCEPT ![h] = IdleHandler]
      BY <1>2, <3>2
    <3>3. CASE \E v, id : handler' = [handler EXCEPT ![h] =
                          [handler[h] EXCEPT !.pc = "deployment", !.fid = id, !.version = v]]
      <4>1. handler'[h].pc = "deployment" /\ \A g \in Handlers \ {h} : handler'[g] = handler[g]
        BY <1>0, <3>3 DEF HandlerStates
      <4> QED
        BY <4>1 DEF ToSend
    <3> QED
      BY <3>1, <3>2, <3>3
  <2>2. /\ UNCHANGED <<queue, worker, status, lastDeployment, request, service, uncleanDelete>>
        /\ handler[h].pc # "undeploy"
    BY <1>c DEF CreateInsert, UpdateWrite
  <2>3. OrphansUnclean'
    BY <1>5, <2>1, <2>2 DEF CleanInv, OrphansUnclean
  <2>4. \A n \in Names : functions'[n] = NoFunction => functions[n] = NoFunction
    <3>1. handler[h].name \in Names
      BY <1>0 DEF HandlerStates
    <3>2. \/ functions' = functions
          \/ functions[handler[h].name] = NoFunction
             /\ \A n \in Names \ {handler[h].name} : functions'[n] = functions[n]
          \/ /\ functions[handler[h].name] # NoFunction
             /\ functions'[handler[h].name].id = functions[handler[h].name].id
             /\ \A n \in Names \ {handler[h].name} : functions'[n] = functions[n]
      BY <1>0, <1>c, <3>1 DEF CreateInsert, UpdateWrite
    <3>3. functions[handler[h].name] # NoFunction => functions[handler[h].name].id # 0
      BY <3>1 DEF CleanInv, CalmInv, PlacedInv, ServedInv, IdsIssued
    <3> QED
      BY <3>1, <3>2, <3>3 DEF NoFunction
  <2>5. CleanDelete'
    BY <2>1, <2>2, <2>4 DEF CleanInv, CleanDelete
  <2> QED
    BY <2>3, <2>5
<1>d. CASE InsertDeployment(h)
  <2>1. /\ UNCHANGED <<queue, worker, service, functions, uncleanDelete>>
        /\ handler[h].pc # "undeploy"
    BY <1>d DEF InsertDeployment
  <2>2. CASE handler' = [handler EXCEPT ![h] = IdleHandler]
             /\ UNCHANGED <<status, lastDeployment, request>>
    BY <1>2, <1>5, <2>1, <2>2, CleanByHandler
  <2>3. CASE /\ lastDeployment < MaxVersion
             /\ lastDeployment' = lastDeployment + 1
             /\ status' = [status EXCEPT ![lastDeployment + 1] = "queued"]
             /\ \E r : request' = [request EXCEPT ![lastDeployment + 1] = r]
             /\ handler' = [handler EXCEPT ![h] =
                              [handler[h] EXCEPT !.pc = "publish", !.dep = lastDeployment + 1]]
    <3>1. PICK x \in Deployments : x = lastDeployment + 1
      BY <1>0, <2>3, PipelineAssumption DEF Deployments
    <3>2. /\ \A d \in Deployments \ {x} : status'[d] = status[d] /\ request'[d] = request[d]
          /\ status'[x] = "queued"
      BY <1>0, <2>3, <3>1
    <3>3. /\ \A g \in Handlers \ {h} : handler'[g] = handler[g]
          /\ handler'[h].dep = x
      BY <1>0, <2>3, <3>1 DEF HandlerStates
    <3>4. \A d \in Deployments \ {x} : Due(d)' => Due(d)
      <4>1. \A g \in Handlers, d \in Deployments \ {x} : ToSend(g, d)' => ToSend(g, d)
        BY <3>3 DEF ToSend
      <4> QED
        BY <1>3, <1>4, <2>1, <4>1 DEF Due
    <3>5. \A d \in Deployments \ {x} : d <= lastDeployment' => d <= lastDeployment
      BY <1>0, <2>3, <3>1
    <3>6. \A d \in Deployments :
            Due(d)' /\ d <= lastDeployment' /\ status'[d] = "none" =>
             /\ Due(d) /\ d <= lastDeployment /\ status[d] = "none"
             /\ request'[d].name = request[d].name
      BY <3>2, <3>4, <3>5
    <3> QED
      BY <2>1, <3>3, <3>6, CleanByHandler
  <2> QED
    BY <1>d, <2>2, <2>3 DEF InsertDeployment
<1>e. CASE Publish(h)
  <2>1. PICK x \in Deployments : x = handler[h].dep
    BY <1>0, <1>e DEF Publish, TypeOK
  <2>2. ToSend(h, x) /\ ~ Queued(x)
    BY <1>e, <2>1
    DEF Publish, ToSend, CleanInv, CalmInv, PlacedInv, MessagesPlaced
  <2>3. \A d \in Deployments : Queued(d)' <=> Queued(d) \/ d = x
    BY <1>0, <1>e, <2>1, <2>2, QueueGrows DEF Publish, CleanInv, CalmInv, PlacedInv
  <2>4. /\ \A g \in Handlers \ {h} : handler'[g] = handler[g]
        /\ \A d \in Deployments : ~ ToSend(h, d)'
        /\ UNCHANGED <<redeliver, worker, status, lastDeployment, request, service, functions,
                       uncleanDelete>>
        /\ handler[h].pc # "undeploy"
    BY <1>2, <1>e DEF Publish
  <2>5. \A g \in Handlers, d \in Deployments : ToSend(g, d)' => ToSend(g, d)
    BY <2>4 DEF ToSend
  <2>6. \A d \in Deployments : Due(d)' => Due(d)
    BY <1>3, <2>2, <2>3, <2>4, <2>5 DEF Due
  <2> QED
    BY <2>4, <2>6, CleanByHandler
<1>f. ~ PublishError(h) /\ ~ MarkQueueError(h)
  <2>1. ~ PublishError(h)
    BY DEF PublishError
  <2>2. ~ MarkQueueError(h)
    BY DEF MarkQueueError, CleanInv, CalmInv, SettledForGood
  <2> QED
    BY <2>1, <2>2
<1>g. CASE Undeploy(h) \/ Abort(h)
  <2>1. /\ \A g \in Handlers \ {h} : handler'[g] = handler[g]
        /\ \A d \in Deployments : ~ ToSend(h, d)'
        /\ UNCHANGED <<queue, worker, status, lastDeployment, request, functions>>
        /\ uncleanDelete \subseteq uncleanDelete'
    BY <1>2, <1>g DEF Undeploy, Abort
  <2>2. OrphansUnclean'
    BY <1>5, <2>1 DEF CleanInv, OrphansUnclean
  <2>3. handler[h].pc = "undeploy" =>
          service'[handler[h].name] = 0 \/ handler[h].name \in uncleanDelete'
    <3>1. handler[h].name \in Names
      BY <1>0 DEF HandlerStates
    <3> QED
      BY <1>0, <1>g, <3>1 DEF Undeploy, Abort
  <2>4. \A n \in Names : service'[n] # 0 => service[n] # 0
    BY <1>0, <1>g DEF Undeploy, Abort
  <2>5. CleanDelete'
    <3> SUFFICES ASSUME NEW m \in Names, functions'[m] = NoFunction, m \notin uncleanDelete',
                        service'[m] # 0
                 PROVE  \E g \in Handlers : handler'[g].pc = "undeploy" /\ handler'[g].name = m
      BY DEF CleanDelete
    <3>1. PICK g \in Handlers : handler[g].pc = "undeploy" /\ handler[g].name = m
      BY <2>1, <2>4 DEF CleanInv, CleanDelete
    <3>2. g # h
      BY <2>3, <3>1
    <3> QED
      BY <2>1, <3>1, <3>2
  <2> QED
    BY <2>2, <2>5
<1> QED
  BY <1>a, <1>b, <1>c, <1>d, <1>e, <1>f, <1>g DEF Accept, Proceed

LEMMA CleanServer ==
  ASSUME CleanInv, NEW x \in Deployments, AckWaitExpires(x) \/ DropExhausted(x)
  PROVE  OrphansUnclean' /\ CleanDelete'
<1>1. /\ UNCHANGED <<api, status, unseen, worker, service>>
      /\ \A d \in Deployments : d \in redeliver' => d \in redeliver \/ d = x
  BY DEF AckWaitExpires, DropExhausted
\* What is due now was in hand, or due before.
<1>2. x \in redeliver' => Due(x) \/ Acknowledging(x)
  <2>1. CASE AckWaitExpires(x)
    <3>1. PICK w \in Workers : Holds(w, x)
      BY <2>1 DEF AckWaitExpires, CleanInv, CalmInv, SettledForGood
    <3> QED
      BY <3>1 DEF Due, InHand, Acknowledging, Holds
  <2>2. CASE DropExhausted(x)
    BY <2>2 DEF DropExhausted
  <2> QED
    BY <2>1, <2>2
<1>3. \A d \in Deployments : (Acknowledging(d)' <=> Acknowledging(d)) /\ (InHand(d)' <=> InHand(d))
  BY <1>1 DEF Acknowledging, Holds, InHand
<1>4. \A d \in Deployments : Due(d)' => Due(d)
  <2> SUFFICES ASSUME NEW d \in Deployments, Due(d)' PROVE Due(d)
    OBVIOUS
  <2>1. CASE d \in redeliver' /\ ~ Acknowledging(d)'
    <3>1. CASE d = x
      BY <1>2, <1>3, <2>1, <3>1
    <3>2. CASE d # x
      BY <1>1, <1>3, <2>1, <3>2 DEF Due
    <3> QED
      BY <3>1, <3>2
  <2>2. CASE ~ (d \in redeliver' /\ ~ Acknowledging(d)')
    BY <1>1, <1>3, <2>2 DEF Due, ToSend, Queued, api
  <2> QED
    BY <2>1, <2>2
<1> QED
  BY <1>1, <1>4, CleanByWorker

\* A function deleted when its deployments were settled, by a request that got
\* through to the cluster, leaves no Knative service behind, now or later: no
\* attempt of one of its deployments is to come (Delete of the function service
\* beside the workers).  A message whose ack wait has run out under the worker that
\* is about to acknowledge it is not served again.
THEOREM DeletedCleanly ==
  ASSUME Started, MaxCrashes = 0, Patient, Faults \cap {"publish", "settle"} = {}
  PROVE  Spec => []CleanDelete
<1>1. Init => CleanInv
  <2> SUFFICES ASSUME Init PROVE CleanInv
    OBVIOUS
  <2>1. CalmInv /\ IdsDistinct
    BY CalmInit, DistinctInit
  <2>2. CleanDelete
    BY DEF Init, CleanDelete
  <2>3. OrphansUnclean
    <3>1. \A d \in Deployments : ~ (d <= lastDeployment)
      BY DEF Init, Deployments
    <3> QED
      BY <3>1 DEF OrphansUnclean
  <2> QED
    BY <2>1, <2>2, <2>3 DEF CleanInv
<1>2. CleanInv /\ [Next]_vars => CleanInv'
  <2> SUFFICES ASSUME CleanInv, [Next]_vars PROVE CleanInv'
    OBVIOUS
  <2>1. CalmInv' /\ IdsDistinct'
    BY CalmNext, DistinctNext DEF CleanInv, CalmInv, PlacedInv
  <2>2. CASE UNCHANGED vars
    <3>1. \A d \in Deployments : Due(d)' => Due(d)
      BY <2>2 DEF vars, Due, ToSend, Queued, InHand, Acknowledging, Holds
    <3> QED
      BY <2>1, <2>2, <3>1, CleanByWorker DEF vars, api, CleanInv
  <2>3. CASE Next
    <3>1. "publish" \notin Faults /\ "settle" \notin Faults
      OBVIOUS
    <3>2. OrphansUnclean' /\ CleanDelete'
      BY <2>3, <3>1, CleanHandler, CleanWorker, CleanServer DEF Next
    <3> QED
      BY <2>1, <3>2 DEF CleanInv
  <2> QED
    BY <2>2, <2>3
<1>3. CleanInv => CleanDelete
  BY DEF CleanInv
<1> QED
  BY <1>1, <1>2, <1>3, PTL DEF Spec

-----------------------------------------------------------------------------
(* The latest wins.  With one request at a time the table's rows are those  *)
(* of the current functions, in the order of their requests.                *)

Accepted == {d \in Deployments : d <= lastDeployment}
Exists(n) == functions[n] # NoFunction

\* A name's ids grow with its requests, and a row that is gone stays so.
RequestsOrdered ==
  \A d \in Accepted :
    /\ request[d].fid <= lastVersion
    /\ Exists(request[d].name) => request[d].fid <= functions[request[d].name].id
    /\ \A e \in Accepted :
         d < e /\ request[d].name = request[e].name => request[d].fid <= request[e].fid
    /\ status[d] = "none" /\ Exists(request[d].name)
         => functions[request[d].name].id # request[d].fid

HandlerServes ==
  \A h \in Handlers :
    /\ handler[h].pc = "deployment" =>
         /\ Exists(handler[h].name)
         /\ functions[handler[h].name].id = handler[h].fid
         /\ functions[handler[h].name].version = handler[h].version
    /\ handler[h].pc = "undeploy" => ~ Exists(handler[h].name)

Requesting(n) == \E h \in Handlers : handler[h].pc = "deployment" /\ handler[h].name = n

NewestCurrent ==
  \A n \in Names, d \in Deployments :
    Exists(n) /\ Newest(n, d) /\ ~ Requesting(n) => request[d].version = functions[n].version

TableInv == RequestsOrdered /\ HandlerServes /\ NewestCurrent

\* What a step may do to the rows without taking one away or adding one.
RowsStay ==
  /\ UNCHANGED <<functions, lastVersion, request, lastDeployment>>
  /\ \A d \in Deployments : status'[d] = "none" <=> status[d] = "none"

LEMMA RowsStayed ==
  ASSUME RowsStay, TypeOK
  PROVE  /\ RequestsOrdered => RequestsOrdered'
         /\ \A n \in Names, d \in Deployments : Newest(n, d)' <=> Newest(n, d)
<1>1. RequestsOrdered => RequestsOrdered'
  BY DEF RowsStay, RequestsOrdered, Accepted, Exists
<1>2. \A n \in Names, d \in Deployments : Newest(n, d)' <=> Newest(n, d)
  BY DEF RowsStay, Newest
<1> QED
  BY <1>1, <1>2

LEMMA TableByHandler ==
  ASSUME TypeOK, TableInv, RowsStay, NEW h \in Handlers, Handlers = {h},
         handler[h].pc # "deployment",
         handler'[h].pc \notin {"deployment", "undeploy"}
  PROVE  TableInv'
<1>1. HandlerServes'
  BY DEF HandlerServes
<1>2. \A n \in Names : ~ Requesting(n)
  BY DEF Requesting
<1>3. NewestCurrent'
  BY <1>2, RowsStayed DEF TableInv, NewestCurrent, RowsStay, Exists
<1> QED
  BY <1>1, <1>3, RowsStayed DEF TableInv

\* A worker's steps take no row away.
LEMMA TableWorker ==
  ASSUME TypeOK, TableInv, NEW w \in Workers, Work(w) \/ Crash(w)
  PROVE  TableInv'
<1>0. status \in [Deployments -> Statuses \cup {"none"}]
  BY DEF TypeOK
<1>1. ASSUME NEW d, NEW s \in Statuses, WorkerWrites(d, s)
      PROVE  \A e \in Deployments : status'[e] = "none" <=> status[e] = "none"
  <2>1. \/ status' = status
        \/ status[d] # "none" /\ status' = [status EXCEPT ![d] = s]
    BY <1>1 DEF WorkerWrites, WithStatus
  <2>2. s # "none"
    BY DEF Statuses, ActiveStatuses
  <2> QED
    BY <1>0, <2>1, <2>2
<1>2. {"building", "deploying", "running", "failed"} \subseteq Statuses
  BY DEF Statuses, ActiveStatuses
<1>3. UNCHANGED api /\ (UNCHANGED status \/ \E d, s : s \in Statuses /\ WorkerWrites(d, s))
  <2>1. CASE SweepNext(w)
    BY <1>2, <2>1 DEF SweepNext
  <2>2. CASE SetBuilding(w) \/ EnsureNamespace(w) \/ SetRunning(w) \/ GiveUp(w)
    BY <1>2, <2>2 DEF SetBuilding, EnsureNamespace, SetRunning, GiveUp
  <2>3. CASE \/ Start(w) \/ SweepDone(w) \/ FetchRedelivered(w) \/ FetchNew(w) \/ Deploy(w)
             \/ Retry(w) \/ Settle(w) \/ Crash(w)
    BY <2>3 DEF Start, SweepDone, FetchRedelivered, FetchNew, Deploy, Retry, Settle, Crash
  <2> QED
    BY <2>1, <2>2, <2>3 DEF Work
<1>4. RowsStay
  BY <1>1, <1>3 DEF RowsStay, api
<1>5. HandlerServes' /\ NewestCurrent'
  BY <1>3, <1>4, RowsStayed
  DEF TableInv, HandlerServes, NewestCurrent, RowsStay, Exists, Requesting, api
<1> QED
  BY <1>4, <1>5, RowsStayed DEF TableInv

LEMMA TableHandler ==
  ASSUME ServedInv, IdsDistinct, TableInv, "abort" \notin Faults,
         NEW h \in Handlers, Handlers = {h}, Accept(h) \/ Proceed(h) \/ Abort(h)
  PROVE  TableInv'
<1>0. /\ TypeOK /\ handler \in [Handlers -> HandlerStates]
      /\ handler[h].name \in Names /\ handler[h].fid \in Nat /\ handler[h].version \in Nat
      /\ status \in [Deployments -> Statuses \cup {"none"}]
      /\ request \in [Deployments -> [name : Names, fid : Versions, version : Versions]]
      /\ functions \in [Names -> [id : Versions, version : Versions]]
      /\ lastDeployment \in Nat /\ lastVersion \in Nat
      /\ Deployments = 1..MaxVersion /\ MaxVersion \in Nat /\ Versions \subseteq Nat
  <2>1. MaxVersion \in Nat /\ Versions \subseteq Nat
    BY PipelineAssumption DEF Versions
  <2>2. TypeOK
    BY DEF ServedInv
  <2> QED
    BY <2>1, <2>2 DEF TypeOK, HandlerStates, Deployments
<1>1. \A n \in Names, p \in HandlerSteps :
        handler' = [handler EXCEPT ![h] = [IdleHandler EXCEPT !.pc = p, !.name = n]]
          => handler'[h].pc = p /\ handler'[h].name = n
  BY <1>0 DEF IdleHandler
<1>2. handler' = [handler EXCEPT ![h] = IdleHandler] => handler'[h].pc = "idle"
  BY <1>0 DEF IdleHandler
<1>3. /\ \A n \in Names : functions[n].id <= lastVersion
      /\ \A n \in Names : Exists(n) => functions[n].id # 0
  BY DEF ServedInv, IdsIssued, Exists
<1>4. \A n \in Names, d \in Deployments : Newest(n, d) /\ Exists(n) =>
        d \in Accepted /\ request[d].name = n
  <2> SUFFICES ASSUME NEW n \in Names, NEW d \in Deployments, Newest(n, d), Exists(n)
               PROVE  d \in Accepted /\ request[d].name = n
    OBVIOUS
  <2>1. status[d] # "none" /\ request[d].fid = functions[n].id
    BY DEF Newest
  <2>2. d <= lastDeployment /\ functions[request[d].name].id = request[d].fid
    BY <2>1 DEF ServedInv, RowsCurrent
  <2>3. request[d].name \in Names
    BY <1>0
  <2> QED
    BY <1>3, <2>1, <2>2, <2>3 DEF IdsDistinct, Accepted
<1>a. CASE \E n \in Names : CreateCheck(h, n) \/ UpdateRead(h, n)
  BY <1>0, <1>1, <1>a, TableByHandler
  DEF CreateCheck, UpdateRead, HandlerSteps, RowsStay
<1>b. CASE \E n \in Names : DeleteRow(h, n)
  <2>1. PICK n \in Names : DeleteRow(h, n)
    BY <1>b
  <2>2. /\ functions' = [functions EXCEPT ![n] = NoFunction] /\ Exists(n)
        /\ UNCHANGED <<lastVersion, request, lastDeployment>>
        /\ handler'[h].pc = "undeploy" /\ handler'[h].name = n /\ handler[h].pc = "idle"
    BY <1>1, <2>1 DEF DeleteRow, HandlerSteps, Exists
  <2>3. /\ ~ Exists(n)'
        /\ \A m \in Names \ {n} : functions'[m] = functions[m]
    BY <1>0, <2>2 DEF Exists
  <2>4. \A d \in Deployments :
          \/ status'[d] = status[d]
          \/ status'[d] = "none" /\ status[d] # "none" /\ request[d].fid = functions[n].id
    BY <1>0, <2>1 DEF DeleteRow
  <2>5. \A d \in Deployments : status[d] # "none" /\ status'[d] = "none" => request[d].name = n
    <3> SUFFICES ASSUME NEW d \in Deployments, status[d] # "none", status'[d] = "none"
                 PROVE  request[d].name = n
      OBVIOUS
    <3>1. request[d].fid = functions[n].id /\ functions[n].id # 0
      BY <1>3, <2>2, <2>4
    <3>2. functions[request[d].name].id = request[d].fid /\ request[d].name \in Names
      BY <1>0 DEF ServedInv, RowsCurrent
    <3> QED
      BY <3>1, <3>2 DEF IdsDistinct
  <2>6. RequestsOrdered'
    <3> SUFFICES ASSUME NEW d \in Accepted
                 PROVE  /\ request[d].fid <= lastVersion
                        /\ functions'[request[d].name] # NoFunction =>
                             request[d].fid <= functions'[request[d].name].id
                        /\ \A e \in Accepted :
                             d < e /\ request[d].name = request[e].name
                               => request[d].fid <= request[e].fid
                        /\ status'[d] = "none" /\ functions'[request[d].name] # NoFunction
                             => functions'[request[d].name].id # request[d].fid
      BY <2>2 DEF RequestsOrdered, Accepted, Exists
    <3>1. /\ request[d].fid <= lastVersion
          /\ \A e \in Accepted : d < e /\ request[d].name = request[e].name
                               => request[d].fid <= request[e].fid
      BY DEF TableInv, RequestsOrdered
    <3>2. d \in Deployments /\ request[d].name \in Names
      BY <1>0 DEF Accepted
    <3>3. CASE request[d].name = n
      BY <2>3, <3>1, <3>3 DEF Exists
    <3>4. CASE request[d].name # n
      <4>1. /\ functions'[request[d].name] = functions[request[d].name]
            /\ status'[d] = "none" => status[d] = "none"
        BY <2>3, <2>5, <3>2, <3>4
      <4> QED
        BY <3>1, <4>1 DEF TableInv, RequestsOrdered, Exists
    <3> QED
      BY <3>3, <3>4
  <2>7. HandlerServes'
    BY <2>2, <2>3 DEF HandlerServes
  <2>8. NewestCurrent'
    <3> SUFFICES ASSUME NEW m \in Names, NEW d \in Deployments, Exists(m)', Newest(m, d)'
                 PROVE  request[d].version = functions'[m].version
      BY <2>2 DEF NewestCurrent
    <3>1. m # n /\ functions'[m] = functions[m] /\ Exists(m) /\ functions[m].id # 0
      BY <1>3, <2>3 DEF Exists
    <3>2. functions[m].id # functions[n].id
      BY <3>1 DEF IdsDistinct
    <3>3. /\ status'[d] # "none" /\ request[d].fid = functions[m].id
          /\ \A e \in Deployments :
               e > d => status'[e] = "none" \/ request[e].fid # request[d].fid
      BY <2>2, <3>1 DEF Newest
    <3>4. Newest(m, d)
      BY <2>4, <3>2, <3>3 DEF Newest
    <3>5. ~ Requesting(m)
      BY <2>2 DEF Requesting
    <3> QED
      BY <3>1, <3>4, <3>5 DEF TableInv, NewestCurrent
  <2> QED
    BY <2>6, <2>7, <2>8 DEF TableInv
<1>c. CASE CreateInsert(h)
  <2>1. CASE handler' = [handler EXCEPT ![h] = IdleHandler] /\ UNCHANGED <<functions, lastVersion>>
    BY <1>0, <1>2, <1>c, <2>1, TableByHandler DEF CreateInsert, RowsStay
  <2>2. CASE /\ ~ Exists(handler[h].name)
             /\ lastVersion' = lastVersion + 1
             /\ functions' = [functions EXCEPT ![handler[h].name] =
                                [id |-> lastVersion + 1, version |-> lastVersion + 1]]
             /\ handler' = [handler EXCEPT ![h] = [handler[h] EXCEPT !.pc = "deployment",
                                            !.fid = lastVersion + 1, !.version = lastVersion + 1]]
    <3>1. PICK n \in Names : n = handler[h].name
      BY <1>0
    <3>2. /\ handler'[h].pc = "deployment" /\ handler'[h].name = n
          /\ handler'[h].fid = lastVersion + 1 /\ handler'[h].version = lastVersion + 1
          /\ functions'[n] = [id |-> lastVersion + 1, version |-> lastVersion + 1]
          /\ \A m \in Names \ {n} : functions'[m] = functions[m]
      BY <1>0, <2>2, <3>1 DEF HandlerStates
    <3>3. Exists(n)'
      BY <1>0, <3>2 DEF Exists, NoFunction
    <3>4. UNCHANGED <<request, status, lastDeployment>>
      BY <1>c DEF CreateInsert
    <3>5. RequestsOrdered'
      <4> SUFFICES ASSUME NEW d \in Accepted
                   PROVE  /\ request[d].fid <= lastVersion'
                          /\ functions'[request[d].name] # NoFunction =>
                               request[d].fid <= functions'[request[d].name].id
                          /\ \A e \in Accepted :
                               d < e /\ request[d].name = request[e].name
                                 => request[d].fid <= request[e].fid
                          /\ status[d] = "none" /\ functions'[request[d].name] # NoFunction
                               => functions'[request[d].name].id # request[d].fid
        BY <3>4 DEF RequestsOrdered, Accepted, Exists
      <4>1. /\ request[d].fid <= lastVersion
            /\ \A e \in Accepted : d < e /\ request[d].name = request[e].name
                                 => request[d].fid <= request[e].fid
        BY DEF TableInv, RequestsOrdered
      <4>2. request[d].name \in Names /\ request[d].fid \in Nat
        BY <1>0 DEF Accepted
      <4>3. CASE request[d].name = n
        BY <1>0, <2>2, <3>2, <4>1, <4>2, <4>3
      <4>4. CASE request[d].name # n
        <5>1. functions'[request[d].name] = functions[request[d].name]
          BY <3>2, <4>2, <4>4
        <5>2. request[d].fid <= lastVersion'
          BY <1>0, <2>2, <4>1, <4>2
        <5> QED
          BY <4>1, <5>1, <5>2 DEF TableInv, RequestsOrdered, Exists
      <4> QED
        BY <4>3, <4>4
    <3>6. HandlerServes'
      BY <3>2, <3>3 DEF HandlerServes
    <3>7. NewestCurrent'
      <4> SUFFICES ASSUME NEW m \in Names, NEW d \in Deployments, Exists(m)', Newest(m, d)', m # n
                   PROVE  request[d].version = functions'[m].version
        BY <3>2, <3>4 DEF NewestCurrent, Requesting
      <4>1. functions'[m] = functions[m] /\ Exists(m)
        BY <3>2 DEF Exists
      <4>2. Newest(m, d)
        BY <3>4, <4>1 DEF Newest
      <4>3. ~ Requesting(m)
        BY <1>c DEF Requesting, CreateInsert
      <4> QED
        BY <4>1, <4>2, <4>3 DEF TableInv, NewestCurrent
    <3> QED
      BY <3>5, <3>6, <3>7 DEF TableInv
  <2> QED
    BY <1>c, <2>1, <2>2 DEF CreateInsert, Exists
<1>d. CASE UpdateWrite(h)
  <2>1. CASE handler' = [handler EXCEPT ![h] = IdleHandler] /\ UNCHANGED <<functions, lastVersion>>
    BY <1>0, <1>2, <1>d, <2>1, TableByHandler DEF UpdateWrite, RowsStay
  <2>2. CASE /\ Exists(handler[h].name)
             /\ lastVersion' = lastVersion + 1
             /\ functions' = [functions EXCEPT ![handler[h].name].version = lastVersion + 1]
             /\ handler' = [handler EXCEPT ![h] = [handler[h] EXCEPT !.pc = "deployment",
                      !.fid = functions[handler[h].name].id, !.version = lastVersion + 1]]
    <3>1. PICK n \in Names : n = handler[h].name
      BY <1>0
    <3>2. /\ handler'[h].pc = "deployment" /\ handler'[h].name = n
          /\ handler'[h].fid = functions[n].id /\ handler'[h].version = lastVersion + 1
          /\ functions'[n].id = functions[n].id /\ functions'[n].version = lastVersion + 1
          /\ \A m \in Names \ {n} : functions'[m] = functions[m]
      BY <1>0, <2>2, <3>1 DEF HandlerStates
    <3>3. Exists(n)' /\ Exists(n)
      BY <1>3, <2>2, <3>1, <3>2 DEF Exists, NoFunction
    <3>4. UNCHANGED <<request, status, lastDeployment>>
      BY <1>d DEF UpdateWrite
    <3>5. \A m \in Names : functions'[m].id = functions[m].id /\ (Exists(m)' <=> Exists(m))
      BY <3>2, <3>3 DEF Exists
    <3>6. RequestsOrdered'
      <4>1. \A d \in Accepted : request[d].name \in Names /\ request[d].fid \in Nat
        BY <1>0 DEF Accepted
      <4>2. \A d \in Accepted : request[d].fid <= lastVersion'
        BY <1>0, <2>2, <4>1 DEF TableInv, RequestsOrdered
      <4> QED
        BY <3>4, <3>5, <4>1, <4>2 DEF TableInv, RequestsOrdered, Accepted
    <3>7. HandlerServes'
      BY <3>2, <3>3 DEF HandlerServes
    <3>8. NewestCurrent'
      <4> SUFFICES ASSUME NEW m \in Names, NEW d \in Deployments, Exists(m)', Newest(m, d)', m # n
                   PROVE  request[d].version = functions'[m].version
        BY <3>2, <3>4 DEF NewestCurrent, Requesting
      <4>1. functions'[m] = functions[m] /\ Exists(m)
        BY <3>2 DEF Exists
      <4>2. Newest(m, d)
        BY <3>4, <4>1 DEF Newest
      <4>3. ~ Requesting(m)
        BY <1>d DEF Requesting, UpdateWrite
      <4> QED
        BY <4>1, <4>2, <4>3 DEF TableInv, NewestCurrent
    <3> QED
      BY <3>6, <3>7, <3>8 DEF TableInv
  <2> QED
    BY <1>d, <2>1, <2>2 DEF UpdateWrite, Exists
<1>e. CASE InsertDeployment(h)
  <2>1. PICK n \in Names : n = handler[h].name
    BY <1>0
  <2>2. /\ handler[h].pc = "deployment" /\ Exists(n)
        /\ functions[n].id = handler[h].fid /\ functions[n].version = handler[h].version
    BY <1>e, <2>1 DEF InsertDeployment, TableInv, HandlerServes
  <2>3. /\ lastDeployment < MaxVersion
        /\ lastDeployment' = lastDeployment + 1
        /\ status' = [status EXCEPT ![lastDeployment + 1] = "queued"]
        /\ request' = [request EXCEPT ![lastDeployment + 1] =
                         [name |-> n, fid |-> functions[n].id, version |-> functions[n].version]]
        /\ handler' = [handler EXCEPT ![h] =
                         [handler[h] EXCEPT !.pc = "publish", !.dep = lastDeployment + 1]]
        /\ UNCHANGED <<functions, lastVersion>>
    BY <1>e, <2>1, <2>2 DEF InsertDeployment
  <2>4. PICK x \in Deployments : x = lastDeployment + 1
    BY <1>0, <2>3
  <2>5. /\ \A d \in Deployments \ {x} : status'[d] = status[d] /\ request'[d] = request[d]
        /\ status'[x] = "queued"
        /\ request'[x] = [name |-> n, fid |-> functions[n].id, version |-> functions[n].version]
        /\ handler'[h].pc = "publish"
    BY <1>0, <2>3, <2>4 DEF HandlerStates
  <2>6. \A d \in Deployments : d \in Accepted' <=> d \in Accepted \/ d = x
    BY <1>0, <2>3, <2>4 DEF Accepted
  <2>7. \A d \in Accepted : d \in Deployments \ {x} /\ d < x
    BY <1>0, <2>4 DEF Accepted
  <2>8. RequestsOrdered'
    <3>1. Accepted' = Accepted \cup {x}
      BY <2>6 DEF Accepted
    <3>2. ASSUME NEW d \in Accepted
          PROVE  /\ request'[d].fid <= lastVersion'
                 /\ functions'[request'[d].name] # NoFunction =>
                      request'[d].fid <= functions'[request'[d].name].id
                 /\ \A e \in Accepted' :
                      d < e /\ request'[d].name = request'[e].name
                        => request'[d].fid <= request'[e].fid
                 /\ status'[d] = "none" /\ functions'[request'[d].name] # NoFunction
                      => functions'[request'[d].name].id # request'[d].fid
      <4>1. status'[d] = status[d] /\ request'[d] = request[d]
        BY <2>5, <2>7
      <4>2. /\ request[d].fid <= lastVersion
            /\ Exists(request[d].name) => request[d].fid <= functions[request[d].name].id
            /\ \A e \in Accepted :
                 d < e /\ request[d].name = request[e].name => request[d].fid <= request[e].fid
            /\ status[d] = "none" /\ Exists(request[d].name)
                 => functions[request[d].name].id # request[d].fid
        BY DEF TableInv, RequestsOrdered
      <4>3. \A e \in Accepted : request'[e] = request[e]
        BY <2>5, <2>7
      <4>4. request[d].name = n => request[d].fid <= request'[x].fid
        BY <2>2, <2>5, <4>2
      <4>5. \A e \in Accepted' : d < e /\ request'[d].name = request'[e].name
                                  => request'[d].fid <= request'[e].fid
        BY <2>5, <3>1, <4>1, <4>2, <4>3, <4>4
      <4> QED
        BY <2>3, <4>1, <4>2, <4>5 DEF Exists
    <3>3. /\ request'[x].fid <= lastVersion' /\ request'[x].name = n
          /\ request'[x].fid <= functions'[n].id
          /\ \A e \in Accepted' : ~ (x < e)
          /\ status'[x] # "none"
      <4>1. functions[n].id \in Nat /\ functions[n].id <= lastVersion
        BY <1>0, <1>3
      <4>2. \A e \in Accepted : ~ (x < e)
        BY <1>0, <2>4, <2>7 DEF Accepted
      <4>3. ~ (x < x)
        BY <1>0
      <4>4. \A e \in Accepted' : ~ (x < e)
        BY <3>1, <4>2, <4>3
      <4>5. request'[x].fid = functions[n].id /\ request'[x].name = n
        BY <2>5
      <4> QED
        BY <2>3, <2>5, <4>1, <4>4, <4>5
    <3> QED
      BY <3>1, <3>2, <3>3 DEF RequestsOrdered, Exists
  <2>9. HandlerServes'
    BY <2>5 DEF HandlerServes
  <2>10. NewestCurrent'
    <3> SUFFICES ASSUME NEW m \in Names, NEW d \in Deployments, Exists(m)', Newest(m, d)'
                 PROVE  request'[d].version = functions'[m].version
      BY DEF NewestCurrent
    <3>1. Exists(m) /\ functions'[m] = functions[m] /\ functions[m].id # 0
      BY <1>3, <2>3 DEF Exists
    <3>2. /\ status'[d] # "none" /\ request'[d].fid = functions[m].id
          /\ \A e \in Deployments : e > d => status'[e] = "none" \/ request'[e].fid # request'[d].fid
      BY <2>3 DEF Newest
    <3>3. CASE d = x
      <4>1. functions[n].id = functions[m].id
        BY <2>5, <3>2, <3>3
      <4>2. n = m
        BY <3>1, <4>1 DEF IdsDistinct
      <4> QED
        BY <2>5, <3>1, <3>3, <4>2
    <3>4. CASE d # x
      <4>1. status[d] # "none" /\ request'[d] = request[d] /\ request[d].fid = functions[m].id
        BY <2>5, <3>2, <3>4
      <4>2. d <= lastDeployment
        BY <4>1 DEF ServedInv, RowsCurrent
      <4>3. x > d
        BY <1>0, <2>4, <4>2
      <4>4. request'[x].fid # request[d].fid
        BY <2>5, <3>2, <4>1, <4>3
      <4>5. m # n
        BY <2>5, <4>1, <4>4
      <4>6. \A e \in Deployments : e > d => status[e] = "none" \/ request[e].fid # request[d].fid
        <5>1. status[x] = "none"
          <6>1. ~ (x <= lastDeployment)
            BY <1>0, <2>4
          <6> QED
            BY <6>1 DEF ServedInv, RowsCurrent
        <5> QED
          BY <2>5, <3>2, <4>1, <5>1
      <4>7. Newest(m, d)
        BY <4>1, <4>6 DEF Newest
      <4>8. ~ Requesting(m)
        BY <2>1, <4>5 DEF Requesting
      <4> QED
        BY <3>1, <4>1, <4>7, <4>8 DEF TableInv, NewestCurrent
    <3> QED
      BY <3>3, <3>4
  <2> QED
    BY <2>8, <2>9, <2>10 DEF TableInv
<1>f. CASE Publish(h) \/ PublishError(h)
  <2>1. handler'[h].pc \in {"idle", "queueError"}
    BY <1>0, <1>2, <1>f DEF Publish, PublishError, HandlerStates
  <2> QED
    BY <1>0, <1>f, <2>1, TableByHandler DEF Publish, PublishError, RowsStay
<1>g. CASE MarkQueueError(h)
  <2>1. \A d \in Deployments : status'[d] = "none" <=> status[d] = "none"
    <3>1. \/ status' = status
          \/ status[handler[h].dep] # "none" /\ status' = [status EXCEPT ![handler[h].dep] = "failed"]
      BY <1>g DEF MarkQueueError, WithStatus
    <3> QED
      BY <1>0, <3>1
  <2> QED
    BY <1>0, <1>2, <1>g, <2>1, TableByHandler DEF MarkQueueError, RowsStay
<1>h. CASE Undeploy(h)
  BY <1>0, <1>2, <1>h, TableByHandler DEF Undeploy, RowsStay
<1>i. ~ Abort(h)
  BY DEF Abort
<1> QED
  BY <1>a, <1>b, <1>c, <1>d, <1>e, <1>f, <1>g, <1>h, <1>i DEF Accept, Proceed

-----------------------------------------------------------------------------
(* With one worker as well, deployments are delivered in their order: what  *)
(* was delivered precedes what is still to come.                            *)

Delivered(d) == deliveries[d] # 0

InOrder ==
  /\ \A i, j \in 1..Len(unseen) : i < j => unseen[i] < unseen[j]
  /\ \A d, e \in Deployments :
       (\E h \in Handlers : ToSend(h, e)) /\ (Queued(d) \/ Delivered(d)) => d < e
  /\ \A d, e \in Deployments : Queued(e) /\ Delivered(d) => d < e
  /\ \A d \in Deployments, e \in pending : Delivered(e) /\ (Delivered(d) => d <= e)
  /\ \A d \in pending \ redeliver : \E w \in Workers : Holds(w, d)

LEMMA ElementIn ==
  ASSUME NEW S, NEW q \in Seq(S), NEW i \in 1..Len(q) PROVE q[i] \in S
OBVIOUS

\* A longer queue, with a deployment that follows all of it.
LEMMA SortedGrows ==
  ASSUME NEW q \in Seq(Deployments), NEW x \in Deployments,
         \A i \in 1..Len(q) : q[i] < x,
         \A i, j \in 1..Len(q) : i < j => q[i] < q[j]
  PROVE  \A i, j \in 1..Len(Append(q, x)) : i < j => Append(q, x)[i] < Append(q, x)[j]
<1>1. /\ Len(Append(q, x)) = Len(q) + 1 /\ Len(q) \in Nat
      /\ \A i \in 1..(Len(q) + 1) : Append(q, x)[i] = IF i <= Len(q) THEN q[i] ELSE x
  BY Appended
<1> SUFFICES ASSUME NEW i \in 1..(Len(q) + 1), NEW j \in 1..(Len(q) + 1), i < j
             PROVE  Append(q, x)[i] < Append(q, x)[j]
  BY <1>1
<1>2. i \in 1..Len(q) /\ Append(q, x)[i] = q[i]
  BY <1>1
<1>3. CASE j <= Len(q)
  BY <1>1, <1>2, <1>3
<1>4. CASE j = Len(q) + 1
  <2>1. Append(q, x)[j] = x
    BY <1>1, <1>4
  <2> QED
    BY <1>2, <2>1
<1> QED
  BY <1>1, <1>3, <1>4

\* A shorter queue; what is left follows what was first.
LEMMA SortedShrinks ==
  ASSUME NEW q \in Seq(Deployments), q # <<>>,
         \A i, j \in 1..Len(q) : i < j => q[i] < q[j]
  PROVE  /\ \A i, j \in 1..Len(Tail(q)) : i < j => Tail(q)[i] < Tail(q)[j]
         /\ \A i \in 1..Len(Tail(q)) : Head(q) < Tail(q)[i]
<1>1. /\ Len(q) \in Nat /\ Len(q) >= 1 /\ Len(Tail(q)) = Len(q) - 1
      /\ Head(q) = q[1]
      /\ \A i \in 1..(Len(q) - 1) : Tail(q)[i] = q[i + 1]
  BY Shortened
<1>2. ASSUME NEW i \in 1..(Len(q) - 1), NEW j \in 1..(Len(q) - 1), i < j
      PROVE  Tail(q)[i] < Tail(q)[j]
  <2>1. i + 1 \in 1..Len(q) /\ j + 1 \in 1..Len(q) /\ i + 1 < j + 1
    BY <1>1, <1>2
  <2> QED
    BY <1>1, <2>1
<1>3. ASSUME NEW i \in 1..(Len(q) - 1) PROVE Head(q) < Tail(q)[i]
  <2>1. 1 \in 1..Len(q) /\ i + 1 \in 1..Len(q) /\ 1 < i + 1
    BY <1>1
  <2> QED
    BY <1>1, <2>1
<1> QED
  BY <1>1, <1>2, <1>3

\* A step that neither queues nor delivers anything.
LEMMA OrderKept ==
  ASSUME TypeOK, InOrder, UNCHANGED <<unseen, deliveries>>, pending' \subseteq pending,
         \A h \in Handlers, d \in Deployments : ToSend(h, d)' => ToSend(h, d),
         \A d \in pending' \ redeliver' : \E w \in Workers : Holds(w, d)'
  PROVE  InOrder'
<1>1. \A d \in Deployments : (Queued(d)' <=> Queued(d)) /\ (Delivered(d)' <=> Delivered(d))
  BY DEF Queued, Delivered
<1>2. pending \subseteq Deployments
  BY DEF TypeOK
<1> QED
  BY <1>1, <1>2 DEF InOrder

\* The request that is published follows all others.
LEMMA OrderQueued ==
  ASSUME PlacedInv, InOrder, NEW h \in Handlers, Handlers = {h},
         NEW x \in Deployments, ToSend(h, x),
         unseen' = Append(unseen, x), UNCHANGED <<pending, redeliver, deliveries, worker>>,
         \A d \in Deployments : ~ ToSend(h, d)'
  PROVE  InOrder'
<1>1. unseen \in Seq(Deployments) /\ QueueDistinct /\ pending \subseteq Deployments
  BY DEF PlacedInv, ServedInv, TypeOK
<1>2. ~ Queued(x)
  BY DEF PlacedInv, MessagesPlaced
<1>3. \A d \in Deployments : Queued(d)' <=> Queued(d) \/ d = x
  BY <1>1, <1>2, QueueGrows
<1>4. \A d \in Deployments : Queued(d) \/ Delivered(d) => d < x
  BY DEF InOrder
<1>5. \A i \in 1..Len(unseen) : unseen[i] < x
  <2> SUFFICES ASSUME NEW i \in 1..Len(unseen) PROVE unseen[i] < x
    OBVIOUS
  <2>1. unseen[i] \in Deployments
    BY <1>1
  <2>2. Queued(unseen[i])
    BY DEF Queued
  <2> QED
    BY <1>4, <2>1, <2>2
<1>6. \A i, j \in 1..Len(unseen') : i < j => unseen'[i] < unseen'[j]
  <2>1. \A i, j \in 1..Len(unseen) : i < j => unseen[i] < unseen[j]
    BY DEF InOrder
  <2> QED
    BY <1>1, <1>5, <2>1, SortedGrows
<1>7. /\ \A d \in Deployments : Delivered(d)' <=> Delivered(d)
      /\ \A w \in Workers, d \in Deployments : Holds(w, d)' <=> Holds(w, d)
  BY DEF Delivered, Holds
<1>8. \A d, e \in Deployments : Queued(e)' /\ Delivered(d)' => d < e
  BY <1>3, <1>4, <1>7 DEF InOrder
<1>9. \A d \in Deployments, e \in pending' : Delivered(e)' /\ (Delivered(d)' => d <= e)
  BY <1>1, <1>7 DEF InOrder
<1>10. \A d \in pending' \ redeliver' : \E w \in Workers : Holds(w, d)'
  BY <1>1, <1>7 DEF InOrder
<1>11. \A g \in Handlers, d \in Deployments : ~ ToSend(g, d)'
  OBVIOUS
<1> QED
  BY <1>6, <1>8, <1>9, <1>10, <1>11 DEF InOrder

LEMMA OrderHandler ==
  ASSUME PlacedInv, InOrder, NEW h \in Handlers, Handlers = {h},
         Accept(h) \/ Proceed(h) \/ Abort(h)
  PROVE  InOrder'
<1> USE DEF queue
<1>0. /\ TypeOK /\ handler \in [Handlers -> HandlerStates]
      /\ pending \subseteq Deployments /\ unseen \in Seq(Deployments)
      /\ lastDeployment \in Nat /\ Deployments = 1..MaxVersion /\ MaxVersion \in Nat
  <2>1. MaxVersion \in Nat /\ Versions \subseteq Nat
    BY PipelineAssumption DEF Versions
  <2>2. TypeOK
    BY DEF PlacedInv, ServedInv
  <2> QED
    BY <2>1, <2>2 DEF TypeOK, Deployments
<1>1. \A n \in Names, p \in HandlerSteps \ {"publish"} :
        handler' = [handler EXCEPT ![h] = [IdleHandler EXCEPT !.pc = p, !.name = n]]
          => \A d \in Deployments : ~ ToSend(h, d)'
  BY <1>0 DEF ToSend, IdleHandler
<1>2. handler' = [handler EXCEPT ![h] = IdleHandler]
        => \A d \in Deployments : ~ ToSend(h, d)'
  BY <1>0 DEF ToSend, IdleHandler
<1>3. UNCHANGED worker => \A w \in Workers, d \in Deployments : Holds(w, d)' <=> Holds(w, d)
  BY DEF Holds
<1>4. ASSUME UNCHANGED <<queue, worker>>, \A d \in Deployments : ~ ToSend(h, d)'
      PROVE  InOrder'
  <2>1. \A d \in pending' \ redeliver' : \E w \in Workers : Holds(w, d)'
    BY <1>0, <1>3, <1>4 DEF InOrder
  <2> QED
    BY <1>0, <1>4, <2>1, OrderKept
<1>a. CASE Accept(h)
  BY <1>1, <1>4, <1>a DEF Accept, CreateCheck, UpdateRead, DeleteRow, HandlerSteps
<1>b. CASE CreateInsert(h) \/ UpdateWrite(h)
  <2>1. \A d \in Deployments : ~ ToSend(h, d)'
    <3>1. \/ handler' = [handler EXCEPT ![h] = IdleHandler]
          \/ \E v, id : handler' = [handler EXCEPT ![h] =
                          [handler[h] EXCEPT !.pc = "deployment", !.fid = id, !.version = v]]
      BY <1>0, <1>b DEF CreateInsert, UpdateWrite, HandlerStates
    <3>2. CASE \E v, id : handler' = [handler EXCEPT ![h] =
                          [handler[h] EXCEPT !.pc = "deployment", !.fid = id, !.version = v]]
      <4>1. handler'[h].pc = "deployment"
        BY <1>0, <3>2 DEF HandlerStates
      <4> QED
        BY <4>1 DEF ToSend
    <3> QED
      BY <1>2, <3>1, <3>2
  <2> QED
    BY <1>4, <1>b, <2>1 DEF CreateInsert, UpdateWrite
<1>c. CASE InsertDeployment(h)
  <2>1. CASE handler' = [handler EXCEPT ![h] = IdleHandler]
    BY <1>2, <1>4, <1>c, <2>1 DEF InsertDeployment
  <2>2. CASE handler' = [handler EXCEPT ![h] =
                           [handler[h] EXCEPT !.pc = "publish", !.dep = lastDeployment + 1]]
    <3>1. handler'[h].dep = lastDeployment + 1
      BY <1>0, <2>2 DEF HandlerStates
    <3>2. UNCHANGED <<queue, worker>>
      BY <1>c DEF InsertDeployment
    <3>3. \A d \in Deployments : /\ Queued(d)' <=> Queued(d)
                                 /\ Delivered(d)' <=> Delivered(d)
      BY <3>2 DEF Queued, Delivered
    <3>4. \A d \in Deployments : Queued(d) \/ Delivered(d) => d < lastDeployment + 1
      <4> SUFFICES ASSUME NEW d \in Deployments, Queued(d) \/ Delivered(d)
                   PROVE  d <= lastDeployment
        BY <1>0
      <4>1. CASE Queued(d)
        <5>1. unseen \in Seq(1..lastDeployment)
          BY DEF PlacedInv, ServedInv, DeploymentsKnown
        <5>2. PICK i \in 1..Len(unseen) : unseen[i] = d
          BY <4>1 DEF Queued
        <5>3. unseen[i] \in 1..lastDeployment
          BY <5>1, ElementIn
        <5> QED
          BY <5>2, <5>3
      <4>2. CASE Delivered(d)
        <5>1. ~ (d > lastDeployment)
          BY <4>2 DEF PlacedInv, MessagesPlaced, Delivered
        <5> QED
          BY <1>0, <5>1
      <4> QED
        BY <4>1, <4>2
    <3>5. \A d, e \in Deployments :
            (\E g \in Handlers : ToSend(g, e)') /\ (Queued(d)' \/ Delivered(d)') => d < e
      BY <3>1, <3>3, <3>4 DEF ToSend
    <3>6. \A d \in pending' \ redeliver' : \E w \in Workers : Holds(w, d)'
      BY <1>0, <1>3, <3>2 DEF InOrder
    <3> QED
      BY <1>0, <3>2, <3>3, <3>5, <3>6 DEF InOrder
  <2> QED
    BY <1>c, <2>1, <2>2 DEF InsertDeployment
<1>d. CASE Publish(h) \/ PublishError(h)
  <2>1. PICK x \in Deployments : x = handler[h].dep
    BY <1>0, <1>d DEF Publish, PublishError, TypeOK
  <2>2. ToSend(h, x)
    BY <1>d, <2>1 DEF Publish, PublishError, ToSend
  <2>3. \A d \in Deployments : ~ ToSend(h, d)'
    BY <1>0, <1>2, <1>d DEF Publish, PublishError, ToSend, HandlerStates
  <2>4. CASE unseen' = Append(unseen, x)
    BY <1>d, <2>2, <2>3, <2>4, OrderQueued DEF Publish, PublishError
  <2>5. CASE unseen' = unseen
    BY <1>4, <1>d, <2>3, <2>5 DEF Publish, PublishError
  <2> QED
    BY <1>d, <2>1, <2>4, <2>5 DEF Publish, PublishError
<1>e. CASE MarkQueueError(h) \/ Undeploy(h) \/ Abort(h)
  BY <1>2, <1>4, <1>e DEF MarkQueueError, Undeploy, Abort
<1> QED
  BY <1>a, <1>b, <1>c, <1>d, <1>e DEF Proceed

LEMMA OrderServer ==
  ASSUME PlacedInv, InOrder, NEW x \in Deployments,
         AckWaitExpires(x) \/ DropExhausted(x)
  PROVE  InOrder'
<1>2. /\ UNCHANGED <<handler, unseen, deliveries, worker>>
      /\ \/ pending' = pending /\ redeliver' = redeliver \cup {x}
         \/ pending' = pending \ {x} /\ redeliver' = redeliver \ {x} /\ x \in redeliver
  BY DEF AckWaitExpires, DropExhausted, api
<1>3. \A h \in Handlers, d \in Deployments : ToSend(h, d)' => ToSend(h, d)
  BY <1>2 DEF ToSend
<1>4. \A d \in pending' \ redeliver' : \E v \in Workers : Holds(v, d)'
  <2>1. \A d \in pending' \ redeliver' : d \in pending \ redeliver
    BY <1>2
  <2> QED
    BY <1>2, <2>1 DEF InOrder, Holds
<1> QED
  BY <1>2, <1>3, <1>4, OrderKept DEF PlacedInv, ServedInv

LEMMA OrderWorker ==
  ASSUME PlacedInv, NeverSwept, InOrder, "settle" \notin Faults, crashes' = 0,
         NEW w \in Workers, Workers = {w}, Work(w) \/ Crash(w)
  PROVE  InOrder'
<1> USE DEF api, queue
<1>0. /\ TypeOK /\ worker \in [Workers -> WorkerStates] /\ worker[w] \in WorkerStates
      /\ unseen \in Seq(Deployments) /\ QueueDistinct
      /\ deliveries \in [Deployments -> Nat]
      /\ pending \subseteq Deployments /\ redeliver \subseteq pending
      /\ crashes \in Nat /\ Deployments \subseteq Nat
  <2>1. TypeOK /\ QueueDistinct
    BY DEF PlacedInv, ServedInv
  <2>2. Deployments \subseteq Nat /\ 0..MaxCrashes \subseteq Nat
    BY PipelineAssumption DEF Deployments
  <2> QED
    BY <2>1, <2>2 DEF TypeOK
<1>1. /\ worker[w].pc # "down" /\ worker[w].pc # "sweep"
      /\ worker[w].pc # "fetch" => worker[w].via = "message"
  BY DEF NeverSwept, Executing
<1>2. UNCHANGED handler => \A h \in Handlers, d \in Deployments : ToSend(h, d)' <=> ToSend(h, d)
  BY DEF ToSend
\* A step that goes on with w's deployment.
<1>3. ASSUME worker[w].pc \in Executing, NEW pc \in Executing \cup {"settle"}, Go(w, pc),
             UNCHANGED <<handler, queue>>
      PROVE  InOrder'
  <2>1. \A d \in Deployments : Holds(w, d)' <=> Holds(w, d)
    BY <1>0, <1>3 DEF Go, Holds, WorkerStates
  <2>2. \A d \in pending' \ redeliver' : \E v \in Workers : Holds(v, d)'
    BY <1>0, <1>3, <2>1 DEF InOrder
  <2> QED
    BY <1>0, <1>2, <1>3, <2>2, OrderKept
\* A delivery of the first of what is to come.
<1>4. ASSUME NEW x \in Deployments, Deliver(w, x), UNCHANGED handler,
             pending' = pending \cup {x}, pending' \ redeliver' \subseteq {x},
             \A e \in pending : x <= e,
             \A d \in Deployments : Delivered(d) => d <= x,
             \A i, j \in 1..Len(unseen') : i < j => unseen'[i] < unseen'[j],
             \A e \in Deployments : Queued(e)' => Queued(e) /\ x < e,
             \A h \in Handlers, e \in Deployments : ToSend(h, e) => x < e
      PROVE  InOrder'
  <2>1. /\ worker'[w].pc = "building" /\ worker'[w].dep = x /\ worker'[w].via = "message"
        /\ deliveries'[x] = deliveries[x] + 1
        /\ \A d \in Deployments \ {x} : deliveries'[d] = deliveries[d]
    BY <1>0, <1>4 DEF Deliver
  <2>2. Holds(w, x)'
    BY <2>1 DEF Holds, Executing
  <2>3. /\ \A d \in Deployments : Delivered(d) \/ d = x <=> Delivered(d)'
        /\ Delivered(x)'
    BY <1>0, <2>1 DEF Delivered
  <2>4. \A d, e \in Deployments :
          (\E h \in Handlers : ToSend(h, e)') /\ (Queued(d)' \/ Delivered(d)') => d < e
    BY <1>2, <1>4, <2>3 DEF InOrder
  <2>5. \A d, e \in Deployments : Queued(e)' /\ Delivered(d)' => d < e
    BY <1>4, <2>3 DEF InOrder
  <2>6. \A d \in Deployments, e \in pending' : Delivered(e)' /\ (Delivered(d)' => d <= e)
    <3> SUFFICES ASSUME NEW d \in Deployments, NEW e \in pending'
                 PROVE  Delivered(e)' /\ (Delivered(d)' => d <= e)
      OBVIOUS
    <3>1. e \in Deployments /\ (e \in pending \/ e = x)
      BY <1>0, <1>4
    <3>2. Delivered(e)'
      BY <2>3, <3>1 DEF InOrder
    <3>3. CASE e = x
      BY <1>0, <1>4, <2>3, <3>2, <3>3
    <3>4. CASE e \in pending
      BY <1>4, <2>3, <3>1, <3>2, <3>4 DEF InOrder
    <3> QED
      BY <3>1, <3>3, <3>4
  <2>7. \A d \in pending' \ redeliver' : \E v \in Workers : Holds(v, d)'
    BY <1>4, <2>2
  <2> QED
    BY <1>4, <2>4, <2>5, <2>6, <2>7 DEF InOrder
\* The end of a message.
<1>5. ASSUME worker[w].pc # "fetch", Continue(w), UNCHANGED <<handler, unseen, deliveries>>,
             pending' \subseteq pending,
             \A d \in pending' \ redeliver' : d \in pending \ redeliver /\ d # worker[w].dep
      PROVE  InOrder'
  <2>1. \A d \in pending' \ redeliver' : \E v \in Workers : Holds(v, d)'
    BY <1>5 DEF InOrder, Holds
  <2> QED
    BY <1>0, <1>2, <1>5, <2>1, OrderKept
<1>a. ~ Crash(w) /\ ~ Start(w) /\ ~ SweepDone(w)
  <2>1. ~ Crash(w)
    BY <1>0 DEF Crash
  <2>2. ~ Start(w) /\ ~ SweepDone(w)
    BY <1>1 DEF Start, SweepDone
  <2> QED
    BY <2>1, <2>2
<1>b. ~ SweepNext(w)
  <2>1. SweepNext(w) => worker[w].pc = "sweep"
    BY DEF SweepNext
  <2> QED
    BY <1>1, <2>1
\* A worker that fetches has no message in hand: all pending ones are due.
<1>6. worker[w].pc = "fetch" => pending = redeliver
  BY <1>0 DEF InOrder, Holds, Executing
<1>c. CASE FetchRedelivered(w)
  <2>1. PICK x \in redeliver : Deliver(w, x) /\ redeliver' = redeliver \ {x}
    BY <1>c DEF FetchRedelivered
  <2>2. /\ x \in Deployments /\ x \in pending /\ pending = redeliver
        /\ UNCHANGED <<handler, unseen, pending>>
    BY <1>0, <1>6, <1>c, <2>1 DEF FetchRedelivered
  <2>3. Delivered(x) /\ \A d \in Deployments : Delivered(d) => d <= x
    BY <2>2 DEF InOrder
  <2>4. \A e \in pending : x <= e
    BY <2>2, <2>3 DEF InOrder
  <2>5. /\ \A e \in Deployments : Queued(e)' => Queued(e)
        /\ \A e \in Deployments : Queued(e) => x < e
        /\ \A h \in Handlers, e \in Deployments : ToSend(h, e) => x < e
        /\ \A i, j \in 1..Len(unseen') : i < j => unseen'[i] < unseen'[j]
    BY <2>2, <2>3 DEF InOrder, Queued
  <2>6. pending' = pending \cup {x} /\ pending' \ redeliver' \subseteq {x}
    BY <2>1, <2>2
  <2> QED
    BY <1>4, <2>1, <2>2, <2>3, <2>4, <2>5, <2>6
<1>d. CASE FetchNew(w)
  <2>1. PICK x \in Deployments : x = Head(unseen)
    BY <1>0, <1>d, QueueShrinks DEF FetchNew
  <2>2. /\ Deliver(w, x) /\ pending = {} /\ pending' = {x} /\ redeliver' = {}
        /\ unseen # <<>> /\ unseen' = Tail(unseen) /\ UNCHANGED handler
    BY <1>6, <1>d, <2>1 DEF FetchNew
  <2>3. /\ Queued(x)
        /\ \A d \in Deployments : Queued(d)' => Queued(d)
    BY <1>0, <2>1, <2>2, QueueShrinks
  <2>4. /\ \A i, j \in 1..Len(unseen') : i < j => unseen'[i] < unseen'[j]
        /\ \A i \in 1..Len(unseen') : x < unseen'[i]
    <3>1. \A i, j \in 1..Len(unseen) : i < j => unseen[i] < unseen[j]
      BY DEF InOrder
    <3> QED
      BY <1>0, <2>1, <2>2, <3>1, SortedShrinks
  <2>5. \A e \in Deployments : Queued(e)' => x < e
    BY <2>4 DEF Queued
  <2>6. /\ \A d \in Deployments : Delivered(d) => d <= x
        /\ \A h \in Handlers, e \in Deployments : ToSend(h, e) => x < e
    <3>1. \A d \in Deployments : Delivered(d) => d < x
      BY <2>3 DEF InOrder
    <3>2. \A h \in Handlers, e \in Deployments : ToSend(h, e) => x < e
      BY <2>3 DEF InOrder
    <3> QED
      BY <1>0, <3>1, <3>2
  <2> QED
    BY <1>4, <2>2, <2>3, <2>4, <2>5, <2>6
<1>e. CASE SetBuilding(w)
  BY <1>3, <1>e DEF SetBuilding, Executing
<1>f. CASE EnsureNamespace(w)
  BY <1>3, <1>f DEF EnsureNamespace, Executing
<1>g. CASE Deploy(w)
  BY <1>3, <1>g DEF Deploy, Executing
<1>h. CASE SetRunning(w)
  BY <1>1, <1>3, <1>h DEF SetRunning, Executing
<1>i. CASE GiveUp(w)
  BY <1>1, <1>3, <1>i DEF GiveUp, Executing
<1>j. CASE Retry(w)
  BY <1>5, <1>j DEF Retry
<1>k. CASE Settle(w)
  BY <1>5, <1>k DEF Settle
<1> QED
  BY <1>a, <1>b, <1>c, <1>d, <1>e, <1>f, <1>g, <1>h, <1>i, <1>j, <1>k DEF Work

-----------------------------------------------------------------------------
(* What Knative serves is the content of the newest row that says running.  *)

NewestRow(d) ==
  \A e \in Deployments : e > d => status[e] = "none" \/ request[e].fid # request[d].fid

NewestServed ==
  /\ \A d \in Deployments : status[d] = "running" => Delivered(d)
  /\ \A w \in Workers : worker[w].pc \in Executing =>
       /\ worker[w].version = request[worker[w].dep].version
       /\ worker[w].pc = "running" /\ status[worker[w].dep] # "none" =>
            service[request[worker[w].dep].name] = worker[w].version
  /\ \A d \in Deployments :
       status[d] = "running" /\ NewestRow(d) => service[request[d].name] = request[d].version

LatestInv ==
  PlacedInv /\ NeverSwept /\ IdsDistinct /\ TableInv /\ InOrder /\ NewestServed

\* A row that is gone belongs to a function that is gone, so that an older
\* deployment of the same name is gone as well.
LEMMA OlderGone ==
  ASSUME ServedInv, TableInv, NEW d \in Accepted, NEW e \in Accepted, d < e,
         request[d].name = request[e].name, status[d] # "none"
  PROVE  status[e] # "none" /\ request[e].fid = request[d].fid
<1>0. /\ d \in Deployments /\ e \in Deployments
      /\ request[d].fid \in Nat /\ request[e].fid \in Nat
  <2>1. Versions \subseteq Nat
    BY PipelineAssumption DEF Versions
  <2> QED
    BY <2>1 DEF ServedInv, TypeOK, Accepted
<1>1. /\ Exists(request[d].name)
      /\ functions[request[d].name].id = request[d].fid
  BY <1>0 DEF ServedInv, RowsCurrent, Exists
<1>2. /\ request[d].fid <= request[e].fid
      /\ request[e].fid <= functions[request[e].name].id
      /\ status[e] = "none" => functions[request[e].name].id # request[e].fid
  BY <1>1 DEF TableInv, RequestsOrdered
<1> QED
  BY <1>0, <1>1, <1>2

LEMMA NewestHandler ==
  ASSUME LatestInv, NEW h \in Handlers, Handlers = {h}, "abort" \notin Faults,
         Accept(h) \/ Proceed(h) \/ Abort(h)
  PROVE  NewestServed'
<1> USE DEF queue
<1>0. /\ TypeOK /\ ServedInv
      /\ status \in [Deployments -> Statuses \cup {"none"}]
      /\ request \in [Deployments -> [name : Names, fid : Versions, version : Versions]]
      /\ service \in [Names -> Versions]
      /\ lastDeployment \in Nat /\ Deployments = 1..MaxVersion /\ MaxVersion \in Nat
      /\ handler[h].name \in Names
  <2>1. MaxVersion \in Nat /\ Versions \subseteq Nat
    BY PipelineAssumption DEF Versions
  <2>2. TypeOK
    BY DEF LatestInv, PlacedInv, ServedInv
  <2> QED
    BY <2>1, <2>2 DEF TypeOK, Deployments, LatestInv, PlacedInv, HandlerStates
<1>1. ASSUME NEW w \in Workers, worker[w].pc \in Executing
      PROVE  worker[w].dep \in Deployments /\ worker[w].dep <= lastDeployment
  BY <1>0, <1>1 DEF ServedInv, DeploymentsKnown, TypeOK, Versions
\* A handler that takes rows away, or marks one failed, with the cluster as it was.
<1>2. ASSUME UNCHANGED <<request, queue, worker, service>>,
             \A d \in Deployments : status'[d] = "running" => status[d] = "running",
             \A d \in Deployments : status'[d] # "none" => status[d] # "none",
             \A d \in Deployments : status[d] # "none" /\ status'[d] = "none" =>
               \A e \in Deployments : request[e].fid = request[d].fid => status'[e] = "none"
      PROVE  NewestServed'
  <2>1. \A d \in Deployments : status'[d] # "none" /\ NewestRow(d)' => NewestRow(d)
    BY <1>2 DEF NewestRow
  <2>2. \A d \in Deployments : Delivered(d)' <=> Delivered(d)
    BY <1>2 DEF Delivered
  <2> QED
    BY <1>1, <1>2, <2>1, <2>2 DEF LatestInv, NewestServed
<1>a. CASE \E n \in Names : CreateCheck(h, n) \/ UpdateRead(h, n)
  BY <1>2, <1>a DEF CreateCheck, UpdateRead
<1>b. CASE \E n \in Names : DeleteRow(h, n)
  <2>1. PICK n \in Names : DeleteRow(h, n)
    BY <1>b
  <2>2. status' = [d \in Deployments |->
                     IF status[d] # "none" /\ request[d].fid = functions[n].id
                     THEN "none" ELSE status[d]]
    BY <2>1 DEF DeleteRow
  <2>3. \A d \in Deployments : status[d] # "none" /\ status'[d] = "none" =>
          \A e \in Deployments : request[e].fid = request[d].fid => status'[e] = "none"
    BY <2>2
  <2> QED
    BY <1>2, <2>1, <2>2, <2>3 DEF DeleteRow
<1>c. CASE CreateInsert(h) \/ UpdateWrite(h)
  BY <1>2, <1>c DEF CreateInsert, UpdateWrite
<1>d. CASE InsertDeployment(h)
  <2>1. CASE UNCHANGED <<status, request>>
    BY <1>2, <1>d, <2>1 DEF InsertDeployment
  <2>2. CASE /\ lastDeployment < MaxVersion
             /\ status' = [status EXCEPT ![lastDeployment + 1] = "queued"]
             /\ \E r : request' = [request EXCEPT ![lastDeployment + 1] = r]
    <3>1. PICK x \in Deployments : x = lastDeployment + 1
      BY <1>0, <2>2
    <3>2. /\ \A d \in Deployments \ {x} : status'[d] = status[d] /\ request'[d] = request[d]
          /\ status'[x] = "queued" /\ status[x] = "none"
      <4>1. ~ (x <= lastDeployment)
        BY <1>0, <3>1
      <4> QED
        BY <1>0, <2>2, <3>1, <4>1 DEF ServedInv, RowsCurrent
    <3>3. UNCHANGED <<worker, service, queue>>
      BY <1>d DEF InsertDeployment
    <3>4. \A w \in Workers : worker[w].pc \in Executing => worker[w].dep \in Deployments \ {x}
      BY <1>0, <1>1, <3>1
    <3>5. \A d \in Deployments : status'[d] = "running" => d # x /\ status[d] = "running"
      BY <3>2
    <3>6. \A d \in Deployments \ {x} : NewestRow(d)' => NewestRow(d)
      <4> SUFFICES ASSUME NEW d \in Deployments \ {x}, NewestRow(d)'
                   PROVE  NewestRow(d)
        OBVIOUS
      <4>1. \A e \in Deployments : e > d => status'[e] = "none" \/ request'[e].fid # request'[d].fid
        BY DEF NewestRow
      <4> QED
        BY <3>2, <4>1 DEF NewestRow
    <3>7. \A d \in Deployments : Delivered(d)' <=> Delivered(d)
      BY <3>3 DEF Delivered
    <3>8. \A d \in Deployments : status'[d] = "running" => Delivered(d)'
      BY <3>5, <3>7 DEF LatestInv, NewestServed
    <3>9. \A w \in Workers : worker'[w].pc \in Executing =>
            /\ worker'[w].version = request'[worker'[w].dep].version
            /\ worker'[w].pc = "running" /\ status'[worker'[w].dep] # "none" =>
                 service'[request'[worker'[w].dep].name] = worker'[w].version
      BY <3>2, <3>3, <3>4 DEF LatestInv, NewestServed
    <3>10. \A d \in Deployments : status'[d] = "running" /\ NewestRow(d)'
             => service'[request'[d].name] = request'[d].version
      BY <3>2, <3>3, <3>5, <3>6 DEF LatestInv, NewestServed
    <3> QED
      BY <3>8, <3>9, <3>10 DEF NewestServed
  <2> QED
    BY <1>d, <2>1, <2>2 DEF InsertDeployment
<1>e. CASE Publish(h) \/ PublishError(h)
  <2>1. UNCHANGED <<request, status, worker, service, deliveries>>
    BY <1>e DEF Publish, PublishError
  <2> QED
    BY <2>1 DEF LatestInv, NewestServed, NewestRow, Delivered
<1>f. CASE MarkQueueError(h)
  <2>1. \/ status' = status
        \/ status[handler[h].dep] # "none" /\ status' = [status EXCEPT ![handler[h].dep] = "failed"]
    BY <1>f DEF MarkQueueError, WithStatus
  <2>2. \A d \in Deployments :
          /\ status'[d] = "running" => status[d] = "running"
          /\ status'[d] # "none" <=> status[d] # "none"
    BY <1>0, <2>1
  <2> QED
    BY <1>2, <1>f, <2>2 DEF MarkQueueError
<1>g. CASE Undeploy(h)
  <2>1. /\ UNCHANGED <<request, status, worker, queue, functions>>
        /\ \A n \in Names \ {handler[h].name} : service'[n] = service[n]
        /\ handler[h].pc = "undeploy"
    BY <1>0, <1>g DEF Undeploy
  <2>2. ~ Exists(handler[h].name)
    BY <2>1 DEF LatestInv, TableInv, HandlerServes
  <2>3. \A d \in Deployments : status[d] # "none" =>
          service'[request[d].name] = service[request[d].name]
    BY <1>0, <2>1, <2>2 DEF ServedInv, RowsCurrent, Exists
  <2>4. \A d \in Deployments : (Delivered(d)' <=> Delivered(d)) /\ (NewestRow(d)' <=> NewestRow(d))
    BY <2>1 DEF Delivered, NewestRow
  <2> QED
    BY <1>1, <2>1, <2>3, <2>4 DEF LatestInv, NewestServed
<1>h. ~ Abort(h)
  BY DEF Abort
<1> QED
  BY <1>a, <1>b, <1>c, <1>d, <1>e, <1>f, <1>g, <1>h DEF Accept, Proceed

LEMMA NewestWorker ==
  ASSUME LatestInv, crashes' = 0, NEW w \in Workers, Workers = {w}, Work(w) \/ Crash(w)
  PROVE  NewestServed'
<1> USE DEF api, queue
<1>0. /\ TypeOK /\ ServedInv /\ worker \in [Workers -> WorkerStates] /\ worker[w] \in WorkerStates
      /\ status \in [Deployments -> Statuses \cup {"none"}]
      /\ request \in [Deployments -> [name : Names, fid : Versions, version : Versions]]
      /\ service \in [Names -> Versions]
      /\ unseen \in Seq(Deployments) /\ QueueDistinct
      /\ deliveries \in [Deployments -> Nat]
      /\ pending \subseteq Deployments /\ redeliver \subseteq pending
      /\ crashes \in Nat /\ Deployments \subseteq Nat
  <2>1. TypeOK /\ ServedInv /\ QueueDistinct
    BY DEF LatestInv, PlacedInv, ServedInv
  <2>2. Deployments \subseteq Nat /\ 0..MaxCrashes \subseteq Nat
    BY PipelineAssumption DEF Deployments
  <2> QED
    BY <2>1, <2>2 DEF TypeOK
<1>1. /\ worker[w].pc # "down" /\ worker[w].pc # "sweep"
      /\ worker[w].pc # "fetch" => worker[w].via = "message"
  BY DEF LatestInv, NeverSwept, Executing
\* The deployment in w's hand was delivered after every other one that was.
<1>2. ASSUME worker[w].pc \in Executing
      PROVE  /\ worker[w].dep \in Accepted /\ worker[w].dep \in Deployments
             /\ Delivered(worker[w].dep)
             /\ \A d \in Deployments : Delivered(d) => d <= worker[w].dep
             /\ worker[w].version = request[worker[w].dep].version
  <2>1. worker[w].dep \in Deployments /\ worker[w].dep <= lastDeployment
    <3>1. worker[w].dep \in 1..lastDeployment
      BY <1>2 DEF LatestInv, PlacedInv, ServedInv, DeploymentsKnown
    <3>2. lastDeployment \in 0..MaxVersion /\ MaxVersion \in Nat
      BY <1>0, PipelineAssumption DEF TypeOK, Versions
    <3> QED
      BY <3>1, <3>2 DEF Deployments
  <2>2. worker[w].via = "message"
    BY <1>1, <1>2 DEF Executing
  <2>3. Holds(w, worker[w].dep)
    BY <1>2, <2>2 DEF Holds
  <2>4. worker[w].dep \in pending
    BY <2>1, <2>3 DEF LatestInv, PlacedInv, MessagesPlaced
  <2>5. Delivered(worker[w].dep) /\ \A d \in Deployments : Delivered(d) => d <= worker[w].dep
    BY <2>1, <2>4 DEF LatestInv, InOrder
  <2>6. worker[w].version = request[worker[w].dep].version
    BY <1>2 DEF LatestInv, NewestServed
  <2> QED
    BY <2>1, <2>5, <2>6 DEF Accepted
\* A status update other than "running".
<1>3. ASSUME worker[w].pc \in Executing,
             UNCHANGED status \/ \E s \in Statuses \ {"running"} : WorkerWrites(worker[w].dep, s)
      PROVE  \A d \in Deployments :
               /\ status'[d] = "running" => status[d] = "running"
               /\ status'[d] # "none" <=> status[d] # "none"
  <2>1. CASE UNCHANGED status
    BY <2>1
  <2>2. ASSUME NEW s \in Statuses \ {"running"}, WorkerWrites(worker[w].dep, s)
        PROVE  \A d \in Deployments :
                 /\ status'[d] = "running" => status[d] = "running"
                 /\ status'[d] # "none" <=> status[d] # "none"
    <3>1. \/ status' = status
          \/ status[worker[w].dep] # "none" /\ status' = [status EXCEPT ![worker[w].dep] = s]
      BY <2>2 DEF WorkerWrites, WithStatus
    <3>2. s # "none"
      BY DEF Statuses, ActiveStatuses
    <3> QED
      BY <1>0, <3>1, <3>2
  <2> QED
    BY <1>3, <2>1, <2>2
\* A step that keeps the cluster and adds no running row.
<1>4. ASSUME UNCHANGED <<request, service>>,
             \A d \in Deployments :
               /\ status'[d] = "running" => status[d] = "running"
               /\ status'[d] # "none" <=> status[d] # "none"
               /\ Delivered(d) => Delivered(d)',
             worker'[w].pc \in Executing =>
               /\ worker'[w].version = request[worker'[w].dep].version
               /\ worker'[w].pc # "running"
      PROVE  NewestServed'
  <2>1. \A d \in Deployments : NewestRow(d)' <=> NewestRow(d)
    BY <1>4 DEF NewestRow
  <2> QED
    BY <1>4, <2>1 DEF LatestInv, NewestServed
\* A step that goes on with w's deployment, other than the one at the cluster.
<1>5. ASSUME worker[w].pc \in Executing, NEW pc \in WorkerSteps \ {"running"}, Go(w, pc),
             UNCHANGED <<request, service, deliveries>>,
             UNCHANGED status \/ \E s \in Statuses \ {"running"} : WorkerWrites(worker[w].dep, s)
      PROVE  NewestServed'
  <2>1. /\ worker'[w].pc = pc /\ worker'[w].dep = worker[w].dep
        /\ worker'[w].version = worker[w].version
    BY <1>0, <1>5 DEF Go, WorkerStates
  <2>2. \A d \in Deployments : Delivered(d) => Delivered(d)'
    BY <1>5 DEF Delivered
  <2> QED
    BY <1>2, <1>3, <1>4, <1>5, <2>1, <2>2
<1>6. ASSUME NEW x \in Deployments, Deliver(w, x), UNCHANGED <<request, service, status>>
      PROVE  NewestServed'
  <2>1. /\ worker'[w].pc = "building" /\ worker'[w].dep = x
        /\ worker'[w].version = request[x].version
        /\ deliveries'[x] = deliveries[x] + 1
        /\ \A d \in Deployments \ {x} : deliveries'[d] = deliveries[d]
    BY <1>0, <1>6 DEF Deliver
  <2>2. \A d \in Deployments : Delivered(d) => Delivered(d)'
    <3>1. deliveries[x] \in Nat
      BY <1>0
    <3>2. deliveries'[x] # 0
      BY <2>1, <3>1
    <3> QED
      BY <2>1, <3>2 DEF Delivered
  <2> QED
    BY <1>4, <1>6, <2>1, <2>2
<1>7. ASSUME Continue(w), worker[w].via = "message",
             UNCHANGED <<request, service, status, deliveries>>
      PROVE  NewestServed'
  <2>1. worker'[w].pc = "fetch"
    BY <1>0, <1>7 DEF Continue, DownWorker
  <2>2. worker'[w].pc \notin Executing
    BY <2>1 DEF Executing
  <2>3. \A d \in Deployments : Delivered(d) => Delivered(d)'
    BY <1>7 DEF Delivered
  <2> QED
    BY <1>4, <1>7, <2>2, <2>3
<1>a. ~ Crash(w) /\ ~ Start(w) /\ ~ SweepDone(w)
  <2>1. ~ Crash(w)
    BY <1>0 DEF Crash
  <2>2. ~ Start(w) /\ ~ SweepDone(w)
    BY <1>1 DEF Start, SweepDone
  <2> QED
    BY <2>1, <2>2
<1>b. ~ SweepNext(w)
  <2>1. SweepNext(w) => worker[w].pc = "sweep"
    BY DEF SweepNext
  <2> QED
    BY <1>1, <2>1
<1>c. CASE FetchRedelivered(w)
  BY <1>0, <1>6, <1>c DEF FetchRedelivered
<1>d. CASE FetchNew(w)
  <2>1. Head(unseen) \in Deployments
    BY <1>0, <1>d, QueueShrinks DEF FetchNew
  <2> QED
    BY <1>6, <1>d, <2>1 DEF FetchNew
<1>e. CASE SetBuilding(w)
  BY <1>5, <1>e DEF SetBuilding, Executing, WorkerSteps, Statuses, ActiveStatuses
<1>f. CASE EnsureNamespace(w)
  BY <1>5, <1>f DEF EnsureNamespace, Executing, WorkerSteps, Statuses, ActiveStatuses
<1>g. CASE Deploy(w)
  <2>1. CASE Go(w, "failed") /\ UNCHANGED service
    BY <1>5, <1>g, <2>1 DEF Deploy, Executing, WorkerSteps
  <2>2. CASE /\ service' = [service EXCEPT ![request[worker[w].dep].name] = worker[w].version]
             /\ Go(w, "running") \/ Go(w, "failed")
    <3>1. PICK x \in Deployments : x = worker[w].dep
      BY <1>2, <1>g DEF Deploy, Executing
    <3>2. /\ x \in Accepted /\ Delivered(x)
          /\ \A d \in Deployments : Delivered(d) => d <= x
          /\ worker[w].version = request[x].version
      BY <1>2, <1>g, <3>1 DEF Deploy, Executing
    <3>3. /\ worker'[w].dep = x /\ worker'[w].version = request[x].version
          /\ UNCHANGED <<request, status, deliveries>>
          /\ request[x].name \in Names
          /\ service'[request[x].name] = request[x].version
          /\ \A n \in Names \ {request[x].name} : service'[n] = service[n]
      BY <1>0, <1>g, <2>2, <3>1, <3>2 DEF Deploy, Go, WorkerStates
    <3>4. ASSUME NEW d \in Deployments, status[d] = "running", NewestRow(d)
          PROVE  service'[request[d].name] = request[d].version
      <4>1. service[request[d].name] = request[d].version /\ Delivered(d)
        BY <3>4 DEF LatestInv, NewestServed
      <4>2. CASE request[d].name # request[x].name
        BY <1>0, <3>3, <4>1, <4>2
      <4>3. CASE d = x
        BY <3>3, <4>3
      <4>4. CASE request[d].name = request[x].name /\ d # x
        <5>1. d < x /\ x > d
          BY <1>0, <3>2, <4>1, <4>4
        <5>2. d \in Accepted
          BY <1>0, <3>4 DEF ServedInv, RowsCurrent, Accepted
        <5>3. status[x] # "none" /\ request[x].fid = request[d].fid
          BY <1>0, <3>2, <3>4, <4>4, <5>1, <5>2, OlderGone DEF LatestInv
        <5> QED
          BY <3>4, <5>1, <5>3 DEF NewestRow
      <4> QED
        BY <4>2, <4>3, <4>4
    <3>5. \A d \in Deployments : (NewestRow(d)' <=> NewestRow(d)) /\ (Delivered(d)' <=> Delivered(d))
      BY <3>3 DEF NewestRow, Delivered
    <3> QED
      BY <3>3, <3>4, <3>5 DEF LatestInv, NewestServed
  <2> QED
    BY <1>g, <2>1, <2>2 DEF Deploy
<1>h. CASE SetRunning(w)
  <2>1. PICK x \in Deployments : x = worker[w].dep
    BY <1>2, <1>h DEF SetRunning, Executing
  <2>2. /\ Delivered(x) /\ worker[w].version = request[x].version
        /\ status[x] # "none" => service[request[x].name] = request[x].version
    BY <1>2, <1>h, <2>1 DEF SetRunning, Executing, LatestInv, NewestServed
  <2>3. /\ worker'[w].pc = "settle"
        /\ UNCHANGED <<request, service, deliveries>>
    BY <1>0, <1>1, <1>h DEF SetRunning, Go, WorkerStates
  <2>4. \/ status' = status
        \/ status[x] # "none" /\ status' = [status EXCEPT ![x] = "running"]
    BY <1>h, <2>1 DEF SetRunning, WorkerWrites, WithStatus
  <2>5. /\ \A d \in Deployments \ {x} : status'[d] = status[d]
        /\ \A d \in Deployments : status'[d] # "none" <=> status[d] # "none"
    BY <1>0, <2>4
  <2>6. \A d \in Deployments : (NewestRow(d)' <=> NewestRow(d)) /\ (Delivered(d)' <=> Delivered(d))
    BY <2>3, <2>5 DEF NewestRow, Delivered
  <2>7. worker'[w].pc \notin Executing
    BY <2>3 DEF Executing
  <2> QED
    BY <2>2, <2>3, <2>5, <2>6, <2>7 DEF LatestInv, NewestServed
<1>i. CASE GiveUp(w)
  BY <1>1, <1>5, <1>i DEF GiveUp, Executing, WorkerSteps, Statuses
<1>j. CASE Retry(w)
  BY <1>7, <1>j DEF Retry
<1>k. CASE Settle(w)
  BY <1>1, <1>7, <1>k DEF Settle
<1> QED
  BY <1>a, <1>b, <1>c, <1>d, <1>e, <1>f, <1>g, <1>h, <1>i, <1>j, <1>k DEF Work

LEMMA LatestInit == ASSUME Started, Init PROVE LatestInv
<1>1. PlacedInv /\ NeverSwept /\ IdsDistinct
  BY PlacedInit, UnsweptInit, DistinctInit
<1>2. Accepted = {}
  <2>1. \A d \in Deployments : ~ (d <= lastDeployment)
    BY DEF Init, Deployments
  <2> QED
    BY <2>1 DEF Accepted
<1>3. TableInv
  <2>1. HandlerServes
    BY DEF Init, HandlerServes, IdleHandler
  <2>2. \A d \in Deployments : status[d] = "none"
    BY DEF Init
  <2> QED
    BY <1>2, <2>1, <2>2 DEF TableInv, RequestsOrdered, NewestCurrent, Newest
<1>4. InOrder
  <2>1. /\ unseen = <<>> /\ pending = {}
        /\ \A h \in Handlers, d \in Deployments : ~ ToSend(h, d)
    BY DEF Init, ToSend, IdleHandler
  <2>2. Len(unseen) = 0
    BY <2>1
  <2>3. \A d \in Deployments : ~ Queued(d)
    BY <2>2 DEF Queued
  <2> QED
    BY <2>1, <2>2, <2>3 DEF InOrder
<1>5. NewestServed
  BY DEF Init, NewestServed, DownWorker, Executing
<1> QED
  BY <1>1, <1>3, <1>4, <1>5 DEF LatestInv

LEMMA LatestNext ==
  ASSUME crashes' = 0, Faults \cap {"abort", "settle"} = {},
         NEW h \in Handlers, Handlers = {h}, NEW w \in Workers, Workers = {w},
         LatestInv, [Next]_vars
  PROVE  LatestInv'
<1>0. /\ "abort" \notin Faults /\ "settle" \notin Faults /\ Patient
      /\ TypeOK /\ ServedInv
  BY DEF LatestInv, PlacedInv, ServedInv, Patient
<1>1. PlacedInv' /\ NeverSwept' /\ IdsDistinct'
  BY <1>0, PlacedNext, UnsweptNext, DistinctNext DEF LatestInv
<1>2. CASE UNCHANGED vars
  <2>1. TableInv'
    BY <1>2
    DEF vars, LatestInv, TableInv, RequestsOrdered, HandlerServes, NewestCurrent, Accepted,
        Exists, Requesting, Newest
  <2>2. InOrder'
    BY <1>2 DEF vars, LatestInv, InOrder, ToSend, Queued, Delivered, Holds
  <2>3. NewestServed'
    BY <1>2 DEF vars, LatestInv, NewestServed, NewestRow, Delivered
  <2> QED
    BY <1>1, <2>1, <2>2, <2>3 DEF LatestInv
<1>3. CASE Accept(h) \/ Proceed(h) \/ Abort(h)
  BY <1>0, <1>1, <1>3, TableHandler, OrderHandler, NewestHandler DEF LatestInv
<1>4. CASE Work(w) \/ Crash(w)
  BY <1>0, <1>1, <1>4, TableWorker, OrderWorker, NewestWorker DEF LatestInv
<1>5. ASSUME NEW x \in Deployments, AckWaitExpires(x) \/ DropExhausted(x)
      PROVE  LatestInv'
  <2>1. UNCHANGED <<functions, lastVersion, request, status, lastDeployment, handler,
                    deliveries, worker, service>>
    BY <1>5 DEF AckWaitExpires, DropExhausted, api
  <2>2. TableInv'
    BY <2>1
    DEF LatestInv, TableInv, RequestsOrdered, HandlerServes, NewestCurrent, Accepted,
        Exists, Requesting, Newest
  <2>3. InOrder'
    BY <1>0, <1>5, OrderServer DEF LatestInv
  <2>4. NewestServed'
    BY <2>1 DEF LatestInv, NewestServed, NewestRow, Delivered
  <2> QED
    BY <1>1, <2>2, <2>3, <2>4 DEF LatestInv
<1> QED
  BY <1>2, <1>3, <1>4, <1>5 DEF Next

\* The first crash is the end of what LatestInv says, and no crash is undone.
LEMMA CrashesGrow == ASSUME TypeOK, [Next]_vars, crashes' = 0 PROVE crashes = 0
<1>1. crashes \in Nat
  BY PipelineAssumption DEF TypeOK
<1>2. CASE \E w \in Workers : Crash(w)
  BY <1>1, <1>2 DEF Crash
<1>3. CASE UNCHANGED crashes
  BY <1>3
<1>4. ASSUME NEW h \in Handlers, Accept(h) \/ Proceed(h) \/ Abort(h) PROVE UNCHANGED crashes
  BY <1>4 DEF Accept, Proceed, Abort, CreateCheck, UpdateRead, DeleteRow, CreateInsert,
     UpdateWrite, InsertDeployment, Publish, PublishError, MarkQueueError, Undeploy
<1>5. ASSUME NEW w \in Workers, Work(w) PROVE UNCHANGED crashes
  BY <1>5 DEF Work, Start, SweepNext, SweepDone, FetchRedelivered, FetchNew, SetBuilding,
     EnsureNamespace, Deploy, SetRunning, GiveUp, Retry, Settle
<1>6. ASSUME NEW d \in Deployments, AckWaitExpires(d) \/ DropExhausted(d)
      PROVE  UNCHANGED crashes
  BY <1>6 DEF AckWaitExpires, DropExhausted
<1> QED
  BY <1>2, <1>3, <1>4, <1>5, <1>6 DEF Next, vars

\* With one API request at a time and one worker a newest deployment that is
\* "running" serves the content of the function's row, until the worker crashes:
\* neither a retry (Nak), nor an ack wait that runs out in the middle of a
\* deployment, nor a publish that failed although the message was stored puts an
\* older request behind a newer one.
THEOREM LatestServed ==
  ASSUME Started, Faults \cap {"abort", "settle"} = {},
         NEW h \in Handlers, Handlers = {h}, NEW w \in Workers, Workers = {w}
  PROVE  Spec => []LatestWins
<1> DEFINE IInv == TypeOK /\ (crashes = 0 => LatestInv)
<1>1. Init => IInv
  <2>1. Init => TypeOK
    BY TypeInit
  <2> QED
    BY <2>1, LatestInit
<1>2. IInv /\ [Next]_vars => IInv'
  <2> SUFFICES ASSUME TypeOK, crashes = 0 => LatestInv, [Next]_vars
               PROVE  TypeOK' /\ (crashes' = 0 => LatestInv')
    OBVIOUS
  <2>1. TypeOK'
    BY TypeNext
  <2>2. ASSUME crashes' = 0 PROVE LatestInv'
    <3>1. crashes = 0
      BY <2>2, CrashesGrow
    <3> QED
      BY <2>2, <3>1, LatestNext
  <2> QED
    BY <2>1, <2>2
<1>3. IInv => LatestWins
  <2> SUFFICES ASSUME LatestInv, handler[h].pc = "idle",
                      NEW n \in Names, NEW d \in Deployments,
                      Exists(n), Newest(n, d), status[d] = "running"
               PROVE  service[n] = functions[n].version
    BY DEF LatestWins, Exists
  <2>1. request[d].version = functions[n].version
    BY DEF LatestInv, TableInv, NewestCurrent, Requesting
  <2>2. NewestRow(d) /\ request[d].fid = functions[n].id
    BY DEF Newest, NewestRow
  <2>3. service[request[d].name] = request[d].version
    BY <2>2 DEF LatestInv, NewestServed
  <2>4. request[d].name = n
    <3>1. functions[request[d].name].id = request[d].fid /\ request[d].name \in Names
      BY DEF LatestInv, PlacedInv, ServedInv, RowsCurrent, TypeOK
    <3>2. functions[n].id # 0
      BY DEF LatestInv, PlacedInv, ServedInv, IdsIssued, Exists
    <3> QED
      BY <2>2, <3>1, <3>2 DEF LatestInv, IdsDistinct
  <2> QED
    BY <2>1, <2>3, <2>4
<1> QED
  BY <1>1, <1>2, <1>3, PTL DEF Spec
=============================================================================
