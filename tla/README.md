# A formal model of the serverless platform

TLA+ modules, model-checking configurations and machine-checked proofs for the
Go services of this repository: the API (`cmd/api`), the deploy worker
(`cmd/worker`) and the packages below `internal/` they share. Paths in this
document are relative to the repository; line numbers are those of the modelled
commit.

To check a run: `tlc -config <run>.cfg <module>` in this directory (the runs'
modules are in the table of section 4). To check the proofs:
`tlapm <component>Proofs.tla`.

1. Inventory
2. Modules
3. Properties
4. Runs
5. Fairness
6. What is proved
7. What does not hold
8. What is not modelled
9. Plan

## 1. Inventory

### The system

A user creates a function through the API. The API writes a row to
`functions`, a row to `deployments` (`queued`), publishes a `DeployRequest` to a
JetStream work queue and answers 202. A worker takes the request, marks the row
`building`, ensures the workspace's namespace and RBAC, marks it `deploying`,
creates or updates a ConfigMap and a Knative Service, marks it `running` and
acknowledges. Failed attempts are redelivered, four deliveries in all. Each
status is also published as an event, which the API forwards to browsers over
server-sent events.

| Component | State | Operations | Interacts with |
|---|---|---|---|
| Function service, `internal/service/function.go`, `handler/function.go` | none of its own | Create, Update, Delete, Get, List, Invoke | tables, queue (publish), Knative (delete) |
| Tables, `internal/db/` | `functions`, `deployments`, `users`, workspaces and members | inserts, updates, cascading delete | API, worker |
| Deploy queue, `internal/nats/` | stream, durable consumer: delivered, pending, NumDelivered | publish, Next, Ack, Nak, Term, ack wait | API, worker |
| Deploy worker, `internal/worker/deploy.go` | what it has in hand | recovery sweep, consume, handleMessage, executeDeploy | queue, tables, Knative, events |
| Worker process, `cmd/worker/main.go` | the context | start, signal, drain, exit | deploy worker |
| Knative deployer, `internal/deployer/knative.go` | the cluster's objects | EnsureNamespace, Deploy, Delete | Kubernetes API |
| Deployment events, `handler/deploy_events.go` | an ephemeral consumer per stream | subscribe, forward, end | queue, tables |
| Log stream, `handler/logs_proxy.go` | the start of the next window | every two seconds ask Loki for the window since the last query, forward | Loki, API shutdown |
| SSE cap, `middleware/sse.go` | a counter per user | admit, reject, return | the two streams |
| Rate limiter, `ratelimit/`, `middleware/ratelimit.go` | a token bucket per user | Allow | every authenticated route |
| API start-up, `cmd/api/main.go`, `db/migrate.go` | schema version, the signing-key Secret, the admin's row | migrate, seed, create key | other replicas |
| Accounts and tokens, `handler/auth.go`, `handler/user.go`, `internal/auth/` | `users`, issued tokens | login, change password, create, delete | other replicas |
| Workspaces, `handler/workspace.go` | workspaces, members, namespaces | create, delete, membership | tables, Knative |
| Middleware of a request, `auth/middleware.go` | none: what the token says | check the token, limit, require a workspace | tokens, rate limiter |
| Metrics queries, `handler/metrics_proxy.go`, `handler/promql_inject.go` | none | rewrite a user's PromQL for the caller's workspace | Prometheus |
| API shutdown, `internal/shutdown/`, `cmd/api/main.go` | connections, the timeout, registered resources | wait for a signal, drain, close, exit | requests, streams, queue, tables |
| Response cache, invocation proxy, tracing, logging, configuration, runtimes | none shared | - | - |

### What is hard

* The queue is at-least-once: acknowledgements are lost, ack waits run out while
  a worker is still deploying (`BackOff` overrides `AckWait`, `deploy.go:72-77`),
  and a worker that dies leaves both an active row and an unacknowledged
  message, so that a sweep and a redelivery may take up the same deployment.
* The function row, the deployment row, the message, the ConfigMap and the
  Knative Service are five stores without a common transaction; each request
  and each attempt can end between any two of them.
* Status updates are unconditional (`db/deployment.go:64`) and their errors are
  mostly dropped (`deploy.go:196`).
* A retry applies the content of its request, not that of the row: an older
  request that is applied late would undo a newer one.
* Replicas of the API start together on an empty database and an empty cluster.
* The subject of status events carries the function's name alone, so that
  equally named functions of several workspaces share it.
* Admission of a stream is an increment, a comparison and a decrement on one of
  two paths.
* A token says for its lifetime what was read at its login. Members, accounts and
  workspaces change meanwhile, and nobody revokes it. A stream looks at token and
  workspace once, when it is opened, and delivers for as long as its client stays
  (`cmd/api/main.go:188-195`).
* A request's context ends with its client: the statements and the publish that
  are left of it fail, also those that are to repair what it has begun
  (`function.go:111-113`).
* A user's PromQL is confined by rewriting it: one selector of many that is
  overlooked would read other workspaces' series.
* The windows of a log tail follow each other while the queries take time and
  fail, and lines reach Loki late.
* An API process that stops waits for its connections, of which a log tail never
  ends, and then closes what the requests use.
* A worker that is signalled goes on with a cancelled context: the queue answers,
  the database and the cluster do not.

### What makes each component correct

* Function service, tables, queue and worker: a deployment that was accepted
  settles, once; while it is active somebody will take it up; a row that says
  `running` was deployed; the newest deployment's content is what is served;
  a deleted function leaves nothing behind.
* Worker process: a stop, at any point, strands nothing.
* Knative deployer: the retry budget covers the races it can lose; after the
  last operation the cluster shows it.
* Streams: no more of them per user than the cap; no slot leaks; a client sees
  its own events and learns the outcome; a settled stream ends.
* Log tail: no line twice; no line that was there in time left out.
* API shutdown: whoever is done within the timeout is not let down; the process
  ends, and its exit status tells; closing the resources leaves no row queued
  without its message.
* Tokens: nobody is let through to a workspace a token's lifetime after its
  membership ended. Metrics queries: the caller's own series, all of those asked for and no
  others.
* Rate limiter: no interval admits more than a burst and its refill; whoever
  keeps to the limit is not refused.
* Start-up and accounts: one signing key for all replicas; nobody's password is
  seeded over; an administrator remains; every replica comes up.

## 2. Modules

| Module | Models | State and actions |
|---|---|---|
| `DeploymentLifecycle` | the promise to the client | `outcome` of each deployment; accepted, settled once, removed with its function |
| `ClusterPromise` | what the deployer promises its callers | `shown` for each function, `state` of each operation; begun, applied, succeeded, failed |
| `DeployPipeline` | function service, tables, queue and deploy worker together | below |
| `WorkerShutdown` | `cmd/worker/main.go` around the worker's loop | `proc` (main: new, up, draining, down; loop: sweep, next, begin, execute, report, settle); `Signal`, `Exit`, and the loop under a cancelled context |
| `KnativeDeployer` | `internal/deployer/knative.go` | `objects`, `configMap`, `service` with the API server's resourceVersion; one action per Kubernetes request; the retry of the queue around it |
| `EventStreams` | SSE cap, deployment events, the log stream as a holder of a slot | `count` (the middleware's counter), `conn` (the request on each connection), `published` (the subject) |
| `Workspaces` | `handler/workspace.go` with the namespaces of the cluster | `workspaces` (slug to row), `functions`, `deployments`, `request`, a queue, `worker`, `namespace`; creation and deletion of workspaces, deployments into them, the removal of a namespace by Kubernetes |
| `RateLimiter` | the token bucket | `buckets` in exact shares of a token, `now` |
| `MetricsQuery` | `handler/promql_inject.go` over the metrics of `metrics/metric.go` | operators only: an expression is a sequence of selectors, `InjectWorkspace` rewrites it, `Shown` is what its answer is computed from |
| `Sessions` | accounts, members and tokens beside the requests they let through; EXTENDS `RateLimiter` and `MetricsQuery` | `accounts`, `spaces`, `members`, `login`, `tokens`, `streams`; `Administer`, `LoginRead`, `LoginIssue`, the requests `Denied`, `View`, `ManageMembers`, `QueryRange`, `OpenStream`, and what goes on in a stream, `Delivers`, `CloseStream` |
| `LogTail` | the loop of `LogsHandler.Stream` with Loki | `written`, `stored`, `tail` (the window); `Open`, `Ask`, `Answer`, `AnswerFails`, `Close` |
| `ApiShutdown` | `shutdown.Manager.Wait`, the end of `cmd/api/main.go` and what they interrupt; EXTENDS `LogTail` | `main`, `request`, `row`, `published`, `gone`; `Signal`, `Drained`, `TimedOut`, `CloseNats`, `CloseDatabase`, `Exit`, and the steps of a deploy request, from which its client may `Disconnect` |
| `ApiStartup` | start-up of replicas, signing key, admin seeding, accounts, tokens | `phase` of each replica; `schema`, `secret`, `users`, `tokens` |
| `MC...` | values for TLC | symmetry and constants, nothing else |
| `...Proofs` | theorems | section 6 |

`DeployPipeline` is the composition of the components that share the tables and
the queue. Its correspondence to the code:

* `CreateCheck`, `CreateInsert`, `UpdateRead`, `UpdateWrite`,
  `InsertDeployment`, `Publish`, `PublishError`, `MarkQueueError` are the
  statements of `FunctionService.Create` and `Update`, in order, one SQL
  statement or publish each, so that requests interleave between them.
  `DeleteRow` and `Undeploy` are `Delete`: the row first, the service after it.
* `unseen`, `pending`, `redeliver` and `deliveries` are the durable consumer.
  `AckWaitExpires` and `DropExhausted` are the server's side of it; `FetchNew` and
  `FetchRedelivered` are the worker's `Next` with the server's choice of a message.
  Every message is one that the API has marshalled and comes with its metadata, so
  that `handleMessage` neither terminates a payload that does not parse nor returns
  one without metadata (`deploy.go:128-145`); the two are left out.
* `Start` and `SweepNext` are the recovery sweep, `SetBuilding` to `SetRunning`
  `executeDeploy`, `GiveUp`, `Retry` and `Settle` the three ways
  `handleMessage` answers. A message and a row of the sweep go through the same
  steps and differ at the end, as in the code.
* Content (code, image, visibility) is a version number. The id of a row of
  `functions` is the version that created it, so that a function that was
  deleted and created again is another one.

`Sessions` is the composition of what decides over a request before its handler
runs. `Admit` is the chain of middleware in its order: an expired token is
rejected before the limiter is asked, a token without a workspace after it, so
that it costs the user a token of the bucket. A request other than a stream is one step;
a login is two, with any time between them, because what it reads may be stale when
the token is issued. `OpenStream` lets a stream through as any request; afterwards
`Delivers` may happen at any time until `CloseStream`, whatever became of the token,
the member and the workspace. Rows are named by user name and slug: the cascades of
the schema leave no member row of an earlier account or workspace of the same name.

In `EventStreams` the rows contribute what is published of them (`Report`) and what
is not: a deployment that the API could not queue or that a sweep could not recover
is marked failed without an event (`FailUnreported`).

`ApiShutdown` is the composition of the stop with what it stops. A deploy request
is the insert of its row, the publish, the stream's acknowledgement and the row's
update when the publish failed; each of the steps meets the connection to NATS or
the pool open or closed, and its context cancelled once the client has left (`gone`).
`http.Server.Shutdown` is external: it returns when no
connection is active (`Quiet`), or with its context; a connection that has not
sent a request yet is spared for `NewGrace`.

What is abstracted: request validation, listings, the text of errors, and the
merge of single fields in `Update` (every update sets all of them). Ids of
deployments count up, as the table's sequence does.

## 3. Properties

Each is stated in words above its definition.

| Property | Module | What would break it |
|---|---|---|
| `NoLostDeployment` | DeployPipeline | a start without the sweep, or a sweep over part of the active statuses |
| `FailedMeansExhausted` | DeployPipeline | a deployment given up while the queue still delivers it |
| `RunningIsServed` | DeployPipeline | `running` written before, or without, an accepted Deploy |
| `LatestWins` | DeployPipeline | a retry of an older request applied after a newer one |
| `CleanDelete` | DeployPipeline | a message that comes back after its deployment settled and its function is gone |
| `SettlesOnce` (refinement of `DeploymentLifecycle`) | DeployPipeline | a settled row that becomes active again or changes its outcome |
| `EverySettles` | DeployPipeline | a message that leaves the queue with its row active |
| `NoneStranded` | WorkerShutdown | the same through a drain that uses up deliveries or acknowledges blindly |
| `WithinBudget` | KnativeDeployer | a lost race that is an error although the object is there at the next attempt, or one race too many |
| `LastOperationShows` | KnativeDeployer | an update that keeps labels, visibility or content of the version before |
| `ShowsWhatWasAsked` (refinement of `ClusterPromise`) | KnativeDeployer | a service that disappears, or changes in two steps, while it is updated; a failed delete that counts as done |
| `CleanRemoval` | Workspaces | a request under way that still gets a deployment into the queue after its workspace is gone |
| `StillServed` | Workspaces | a namespace deleted by a request that did not delete a workspace |
| `ConnectionCap`, `SlotsExact` | EventStreams | a slot given back twice, or not, on one of the ways out |
| `OwnEventsOnly` | EventStreams | an event filtered by the subject alone |
| `ToldWhenSettled` | EventStreams | a subscription that misses events from before it |
| `RateBound`, `RefusedOverLimit` | RateLimiter | an uncapped refill; a refusal that is charged |
| `AccessExpires` | Sessions | a token that outlives its expiry; a stream that is opened without the checks of a request |
| `QueriesScoped` | MetricsQuery in Sessions | a matcher that looks like the caller's and is not; a selector or a second matcher overlooked; a metric without the label |
| `ShownOnce`, `PromptShown` | LogTail | windows that overlap, or that leave a gap of the time a query takes |
| `DrainSpares` | ApiShutdown | resources closed before the requests are done or the time is up |
| `RowsAccounted` | ApiShutdown | a failed publish that leaves its row although the client is there; the pool closed before the connection to NATS |
| `CleanExit` | ApiShutdown | an exit status that does not tell of a drain that was given up |
| `Exits` | ApiShutdown | a drain without a deadline beside a stream that does not end |
| `TokensAccepted` | ApiStartup | a replica that lost the race for the key and keeps its own |
| `PasswordKept` | ApiStartup | a start-up that seeds over a row |
| `AdminStays` | ApiStartup | the admin account deleted |
| `EventuallyServes` | ApiStartup | a lost race that repeats for ever |

For each property that a passing run checks, `PROJECT.json` names a mutant: an
operator `Mut...`, defined in the module before the action it replaces, that
changes the action the way a plausible bug would. With it TLC reports that very
property.

## 4. Runs

| Run | Instance | Question |
|---|---|---|
| `pipeline_live` | one request at a time, one worker, one crash, failed publishes, early ack-wait expiry | does the newest content win and does everything settle? |
| `pipeline_crash` | two workers that start, sweep, crash and lose acknowledgements | is every active deployment still in somebody's reach? |
| `pipeline_faults` | two functions, two API requests at once, two workers, all operations; aborted requests, failing SQL, cluster and delete calls | does `running` always mean deployed, is a deployment given up exactly when the queue does, is a clean delete clean, and does the pipeline implement the lifecycle? |
| `shutdown_restart` | two deployments, two workers, two signals, no patience | does any stop strand a deployment if processes restart? |
| `shutdown_rolling` | a replacement that started before the signal | *violated*: the sweep does not resume what the old worker left |
| `knative` | four operations on two functions of one new workspace (two deploys side by side; one function is then made public and deleted), two faults, one write by a controller | do the attempts suffice, does the last operation show, and is never anything shown that nobody asked for? |
| `workspaces` | one slug used by two workspaces, two deployments, two requests, two workers | is a deleted workspace gone, does a fresh one keep what it deploys? |
| `streams` | a user at a cap of one with two connections, two equally named functions in two workspaces | cap, slots, privacy, outcome told |
| `streams_end` | one connection | *violated*: the stream of a settled deployment does not end |
| `sessions` | two users, two slugs, a capacity of 1 per 2 ticks, four ticks, tokens of two ticks of which two are issued, four changes by an admin, one stream open at a time; all expressions of up to two selectors, each with up to two matchers on the workspace | who reaches what, for how long and how often? |
| `api_shutdown` | one deploy request, which its client may abandon, one log tail and one line of its log; a timeout of two ticks, a grace of one, four ticks | does the stop end, spare, account and tell; does the tail repeat or skip? |
| `startup` | three replicas, one user and the admin, two faults | key, seeding, admin, coming up |

Bounds, and why they are enough for the questions asked:

* `MaxVersion = 2`: two accepted requests. The races are between a deployment
  and the one before it, or a function and its re-creation. All properties
  relate at most two deployments of a name.
* `MaxDeliver` is 2 or 3 instead of 4 in the pipeline: a first delivery and a last
  one, and in `pipeline_faults` one between. `KnativeDeployer` keeps the
  code's 4, because the budget is its question.
* `MaxCrashes = 1` in `pipeline_live` and `pipeline_crash`, with every fault
  repeated without bound: a second crash meets a state that the first one could
  have left. `pipeline_faults` has no crash: with one, a sweep beside an older
  message is a second executor (section 7).
* `EventStreams`: two events are enough for one of a foreign deployment before
  one's own, or a non-final one before the final one; `streams_end` has three.
  A cap of one with two connections has the reject race; the proofs have
  every cap.
* `Sessions`: four ticks are two windows of the limiter and two lifetimes of a
  token, so that a bucket empties, fills up to a burst and empties again, and a
  token is used up to its end, after a change, and after its end. Two tokens: one
  of each of two users, or an older and a newer one of one user. Four changes create an
  account, a workspace and a membership and remove it, or what it rests on; members
  added and removed by a user's own request are not counted. One stream at a time:
  streams share nothing. Users and slugs are interchangeable. Two matchers have a
  deciding first one and one after it, two selectors an accepted one beside
  another; the proof has expressions of every length.
* `ApiShutdown`: a signal is taken only while the clock has room for the timeout.
  One request: requests share nothing but the resources, whose closing does not
  depend on who uses them. One line at a time shows every repetition and every
  gap; the cut-off by the limit, to which other lines count, may take it too. A
  timeout of two ticks has a tick at which a request is neither new nor late. The
  proofs have any number of requests, tails and lines, and any times.
* `Workspaces`: two rows of one slug, because the questions are about a namespace
  that outlives its row; two deployments and two workers, so that one request may
  be queued or executing while another one and the deletion go on; one retry.
  The slugs of different workspaces have different namespaces and do not meet.
* `ApiStartup`: three replicas, so that one may find no user, another seed, and
  the third see both.

Deadlock is not checked (`CHECK_DEADLOCK FALSE`), because every instance really
stops: clients are free to send nothing more, and the bounds on versions,
events, time, signals and faults are reached. That what should go on does is the
subject of the temporal properties.

The two violations are findings about the repository's own comments; their
counterexamples show the code's behaviour:

* `streams_end`: `deploy_events.go:100` compares with `"RUNNING"` and
  `"FAILED"`; workers publish the lower-case values of
  `internal/model/deployment.go`. The stream goes on until the client leaves,
  while `middleware/sse.go:18-20` counts on its end.
* `shutdown_rolling`: signalled between Deploy and the last status update, the
  worker drops the update's error and acknowledges; the replacement swept
  before. `deploy.go:100-103` promises to resume such deployments; they stay
  active until some worker starts again.

## 5. Fairness

* `DeployPipeline!Fairness`: weak fairness of an accepted request
  (a goroutine of `net/http` runs on), of a worker's steps including its
  restart (the Deployment's controller restarts it; its loop is unconditional),
  and of the consumer's timers. Nothing is assumed of clients, faults or
  crashes: a step that may fail may fail every time, and settles by the
  deliveries running out.
* `EventStreams!FairSpec`: weak fairness of a handler's goroutine. Clients,
  workers and NATS may stop for good.
* `ApiShutdown!FairShutdown`: weak fairness of the clock and of the main goroutine.
  Nothing is assumed of requests, clients or Loki: the tail may stay open for ever
  and the request hang.
* `ApiStartup!FairSpec`: weak fairness of a replica's start-up, again because
  the Deployment's controller restarts it. The number of faults is bounded in
  the instance; without a bound no start-up can be promised.

## 6. What is proved

The proofs hold for every value of the constants that satisfies the named
assumption of the module, and what a theorem assumes besides: any number of names,
requests, workers, versions and deliveries in the pipeline (`TypeCorrect` and
`RunningServed` for any crashes and faults as well, the others for those that their
`ASSUME` leaves, and `LatestServed` for one request and one worker at a time); any
script of operations on any functions with any attempts, faults and controllers' writes
in the deployer; any users,
connections and limits; any capacity and window; any number of replicas; any
users, slugs, expressions and lifetime of tokens; any workspaces, deployments and
deliveries; any requests, tails, lines and timeout; any number of worker processes,
signals and deliveries.

| Module | Theorem | Argument |
|---|---|---|
| `DeployPipelineProofs` | `TypeCorrect` | `TypeOK` is inductive; it contains that a request that is about to be published has its deployment's id, which the appended message needs |
| | `RunningServed`, `NoneLost`, `FailedExhausted`, `Implements`, `DeletedCleanly`, `LatestServed` | below |
| `EventStreamsProofs` | `TypeCorrect`, `Capped`, `Exact`, `Private` | below |
| `KnativeDeployerProofs` | `TypeCorrect`, `Shown`, `RacesBounded`, `Budgeted`, `ImplementsPromise` | below |
| `SessionsProofs` | of the limiter `TypeCorrect`, `Bounded`, `RefusalsEarned`; `SessionsTyped`, `AccessEnds`, `QueriesConfined`, `SessionsBounded`, `SessionsRefuse` | below |
| `WorkspacesProofs` | `TypeCorrect`, `RemovedForGood`, `Undeleted` | below |
| `ApiShutdownProofs` | `ShutdownTyped`, `SentOnce`, `NothingSkipped`, `Spared`, `Accounted`, `CleanlyExited` | below |
| `WorkerShutdownProofs` | `TypeCorrect`, `Unstranded` | below |
| `ApiStartupProofs` | `TypeCorrect`, `OneSigningKey`, `PasswordsKept`, `AdminRemains` | below |

*RunningServed.* `RunningIsServed` relates a row's status to what Knative
accepted, which happen two steps apart, with other requests, a crash or a second
executor between them. The inductive invariant therefore adds what a worker
knows at each of its steps: that the version it has in hand is at least that of
the deployment's request (a message carries it; the sweep reads the row, whose
version only grows while the row exists), and that at the step `running` Knative
has accepted that version for that deployment.

*NoneLost.* It rests on where a message is (`PlacedInv`): with the handler that is to
publish it, in the queue, due again, or in the hand of one worker, which holds as long
as the pipeline is `Patient`: an ack wait does not run out under a worker, or no other
worker is there to take the message (it is then due and in hand, but the one who could
fetch it is busy with it). Each step then hands a deployment from one of these places
to the next, or leaves its row to a sweep to come. It is proved for crashes, lost
acknowledgements and failing publishes, without requests cut short, lost status
updates and early expiry beside a second worker, with which it fails.

*FailedExhausted, Implements.* The invariant is `SettledForGood`: the message of a
settled row is neither to be published nor queued, who holds it only has to
acknowledge it, and it is due only while somebody does (`Acknowledging`: its ack wait
ran out in the hand of its only worker); a row that failed has had its last delivery.
Every step then changes the table in one of four ways (`RowStep`): it keeps the rows or moves an
active one on, settles one, adds one, or removes some. The four are a stutter,
`Settle`, `Accept` and `Remove` of `DeploymentLifecycle` (`OutcomeStep`).
The assumptions are those of `pipeline_faults`, or less: workers that are up, no
crash, no failing publish or acknowledgement; `Implements` holds with an ack wait
that is too short as well, if there is one worker, while `FailedExhausted` needs one
that is long enough (a row that failed may be due until it is acknowledged).

*DeletedCleanly.* A service appears under a name only through a worker. The
invariant says that a deployment which is still to be executed, and whose row is
gone, went with an active row, so that the deletion counts as unclean
(`OrphansUnclean`); every other deployment that reaches the cluster has a row, and
so its function. A message that is due while it is being acknowledged is not still
to be executed. The assumptions are those of `Implements`.

*LatestServed.* One request at a time makes the ids of deployments follow the order
of their contents, and the newest row carry the content of its function's row
(`TableInv`); one worker keeps the order (`InOrder`): what was delivered precedes
what is queued, because a message that is to be retried is served before a new
one. So whatever Knative accepts is of a deployment no older than those that
run (`NewestServed`). A row that is gone does not spoil this, because older ones
of its function are gone with it (`OlderGone`). `LatestWins` speaks of the time
before the first crash, and so does the invariant; the theorem covers the instance
of `pipeline_live`, its crash and its early expiry included.

*Shown.* The operations on one function follow each other (`Serial`), so that of a
step the other operations see no more than the objects of the workspace grow:
`OthersKeep` shows once that what is said of them stays true, and each action only
has to keep what is said of its own operation. That is: the ConfigMap carries the
version before the service is touched (`WrittenOf`), and the service is gone before
the ConfigMap goes (`RemovedOf`).

*RacesBounded, Budgeted.* The invariant is a balance (`PaidOf`): every attempt lost so
far has a cause of its own, an object of the workspace that somebody created, a fault
or a write of a controller, and so has one that is bound to be lost because the
ConfigMap or the service changed since it was looked at. An operation that has found
an object missing has not spent that object yet, so that the refusal to come is covered
when another one creates it. There are three objects, hence at most three races,
however many deployments run side by side; the assumption of `Budgeted`, at least four
attempts, is the consumer's `MaxDeliver` (`deploy.go:71`).

*ImplementsPromise.* Only two facts are needed of a step under way: the service
stays or becomes what the operation asks for, and it is that when the operation ends
as done, which for a delete takes `RemovedOf`. A write of a controller is invisible,
as are all steps before the service. Every other step is one of `ClusterPromise`.

*Capped, Exact, Private.* That a slot is free is read off the counter, so the cap
is only inductive together with the meaning of the counter: it equals the number
of requests that will still decrement it. At the one step that lets a request
past the cap the requests past it are a subset of those counted, which are at
most the limit. The other steps move a request within the set of those past the
cap, out of it, or between points outside. `Private` adds that a stream past its
lookup belongs to the workspace of its deployment.

*Bounded.* The invariant adds, for every suffix of a user's grants, the tokens
still in the bucket to the bound, and that the grants precede the last call. A
refill adds at most what the time passed pays for, a grant takes a token and
extends the suffix by one.

*RefusalsEarned.* The counterpart: the tokens in a bucket together with those spent
since any earlier time cover the refill of the time since, up to a full bucket. If
less than one token is left at a refusal, a whole window's refill has been spent
within it. The number of grants of a window is the cardinality of a set of
positions, which grows by one with a grant.

*SessionsBounded, SessionsRefuse.* Every step of `Sessions` is a step of the
limiter or leaves its variables alone, so that the limiter's inductive invariants
carry over.

*AccessEnds.* The invariant says of a login under way, and of a token, that its user is
a member of the workspace it names or has stopped being one no earlier than the login
read it (`FreshLogins`, `FreshTokens`); an unexpired token was issued less than a
lifetime ago, and read by as much earlier as its login took. A stream was let through
with such a token, and what was in time when it was let through stays so: whoever
leaves later, leaves after it (`FreshStreams`, `InTimeKept`).

*QueriesConfined.* No state is involved: a selector that is accepted has no matcher
on the workspace, and is given the caller's, or its first one is already the
caller's; either way it selects, of the series it did, those of the caller. The
metric is one whose series carry the label.

*SentOnce, NothingSkipped.* The invariant orders the ends of the window and the
clock and says that a line that was sent was written before the start of the next
window. A line of this one was not, so that it was not sent before; a line that
was stored without delay is stored when a later query for its tick is answered,
because a window ends before the tick in which it was asked for.

*Spared, Accounted, CleanlyExited.* The invariant says that every request began
before the signal or is served within its grace, that the drain is left only when
all is quiet or the deadline has passed, and that a request which meets a closed
connection, with its client still there, does so after the deadline. While the pool
is open, only a cancelled context keeps a request from repairing its row.

*RemovedForGood, Undeleted.* Both are about requests and workers that go on after
the row of their workspace is gone, perhaps under a slug that somebody else has by
then. The invariant says that an id keeps its slug, wherever it is held (`OneSlug`);
that the status of a deployment's row tells how far its message can have come, and
that a message is in one hand (`QueueOK`); and that rows refer to rows that exist
(`RowsOK`). From the second, deployments that are not active have no attempt to
come, so that none of a quietly deleted workspace reaches the cluster again
(`QuietOK`); the third keeps requests from adding one. In the other direction, a
workspace that starts undisturbed finds no deletion on its way to its namespace,
and none can start before its own row goes; whatever is executed in its namespace
is of its own id (`FreshOK`).

*Unstranded.* `NoneStranded` itself is not inductive: it does not say that a process
with a deployment in hand will settle its row. While some process is not up, a
sweep is to come and nothing has to be shown, whatever the drains left behind. The
invariant speaks of the moments when all are up (`Covered`): the start of the last
one put every active row into its sweep, and a process that is up lets go of a
deployment only with its row settled or its message back in the queue, which no
other process has in hand (`MessagesOK`). A message that is neither in the queue nor in a
hand does not count. The assumption is that of the run, `Restarts`; without it the
property fails (section 7).

*OneSigningKey.* A replica past the creation of the key has the stored one,
tokens carry it, and it never changes once stored: the loser of the race fails,
restarts and reads.

*PasswordsKept, AdminRemains.* The insert of the admin fails on a row that is
there, so it never writes over a chosen password; only the admin's row can be the
first of the table, and it cannot be deleted.

Only model-checked is what needs fairness: `EverySettles`, `ToldWhenSettled`,
`EventuallyServes`, `Exits`. Liveness under fairness is beyond the prover. Every other
property that a passing run checks is stated by a theorem.

## 7. What does not hold

The properties are stated where they hold. Outside of that, model checking
shows, or the code makes plain:

* *Early expiry with two workers.* The consumer's `BackOff` makes the first ack
  wait five seconds, not the two minutes of `AckWait` (`deploy.go:72-77`). A
  deploy that takes longer is executed by a second worker at the same time. No
  property claims one executor; those about retries assume that no attempt
  outlasts the ack wait, or one worker. Beyond that a deployment that was given up
  may settle again (`SettlesOnce`, `FailedMeansExhausted`, `CleanDelete` fail), and
  the last delivery may go by while an older attempt is still under way: when that
  one fails, the row stays active without a message (`NoLostDeployment` fails).
* *Publish errors and lost acknowledgements.* A publish that failed for the client
  although its message was stored, or an acknowledgement that got lost, lets a
  settled deployment run once more: `SettlesOnce`, `FailedMeansExhausted` and
  `CleanDelete` fail even with one worker.
* *Order of deployments.* With a lost acknowledgement, a crash, a sweep beside an
  older message, or two workers, an older request may be applied after a newer
  one: `LatestWins` is stated for one request at a time, one worker, no crash.
* *Deletes.* Deleting a function whose deployment is still active leaves a
  Knative service, as does a failing call to delete it; nothing retries
  (`function.go:278-288`). `CleanDelete` excludes both.
* *Overlapping operations on one function* can leave the ConfigMap and the
  service at different versions, or a ConfigMap without a service
  (`knative.go:176-198`, `247-252`). `KnativeDeployer` lets the operations on
  one function follow each other.
* *Errors of Get* other than NotFound on the role or the binding are dropped and
  the object is not created (`knative.go:108-139`): a deploy may be running
  without its RBAC.
* *Aborted requests.* An API request that ends between the deployment's row and
  the publish leaves an active row that waits for the next start of a worker. That
  goes for a client that disconnects, too: the publish and the update that would
  mark the row failed both have the request's context (`function.go:111-113`).
* *Outcomes without an event.* A deployment that the API could not queue, or that a
  sweep could not recover (`deploy.go:228`, `237`, `255`), is marked failed and
  nothing is published: a stream that follows it is never told. `ToldWhenSettled`
  speaks of the outcomes that were published.
* *Concurrent updates.* `Update` merges the fields of a request into the row it has
  read and writes all of them back (`function.go:202-222`): of two updates at the
  same time one may undo a field of the other, and their messages may be in the
  opposite order of their writes. The model's updates set everything.
* *Stopping the API.* While a log tail is open the drain takes its whole timeout and
  the process exits with status 1, since nothing ends a tail. A request that
  outlives the database pool leaves a queued row that waits for the next start of
  a worker, and so does one whose client disconnects, during the drain or at any
  other time. `RowsAccounted` is stated for as long as the pool is open, and of the
  requests whose client is there.
* *Log tail.* A line that reaches Loki after its window was asked for is never
  sent, nor are those of a window whose query failed, nor those beyond the limit
  of 200. The pod pattern `fn-{name}-.*` (`logs_proxy.go:87`) also matches the
  pods of functions whose name continues `{name}` with a hyphen, so that a tail
  shows their lines too.
* *Tokens.* A slug that is created again while tokens of its former members live is
  theirs to reach until the tokens expire, and one who was removed may add itself
  again with a token that is still valid. `AccessExpires` counts from the last time
  the membership ended. A login that takes long between reading the membership and
  issuing the token makes the bound longer by that time.
* *Streams outlive tokens.* Logs and events look at token, workspace and function
  once, when they are opened (`logs_proxy.go:62-76`, `deploy_events.go:42-51`), and
  deliver as long as the client stays: after the token has expired, the member was
  removed, and, for the logs, to the namespace of the same slug when the workspace was
  deleted. `AccessExpires` bounds when a stream was opened, not how long it delivers.
* *Pinned selectors.* A selector whose first matcher is the caller's own is let
  through whatever follows it, although the comment of `injectWorkspace`
  (`promql_inject.go:25-29`) reads as if any other matcher on the label were refused.
  It does no harm: all matchers of a selector have to hold (`QueriesScoped`).
* *Draining.* `cancel()` in `cmd/worker/main.go:120` cancels the context of the
  deploy in hand, so that the five seconds that "give in-flight deploys time to
  finish" only see it fail and be redelivered. `NoneStranded` shows that nothing
  is lost by it.
* *Workspaces.* Deleting a workspace with a deployment that is still queued lets
  the worker create its namespace again, with a service that no row names.
  A slug that is used again at once shares the namespace with what is left of the
  earlier workspace: the old deletion, a namespace that is still terminating or
  an old queued request takes the new function away or replaces it.
  `CleanRemoval` and `StillServed` exclude these by what they say of the
  deletion (`quiet`) and of the creation (`fresh`). `CleanRemoval` does not hold
  either with a sweep, a publish whose error is not one or a lost acknowledgement,
  which execute a deployment that had settled; `Workspaces` has none of them.
* *Members.* `AddWorkspaceMember` inserts what a join selects, so that a user or
  workspace that does not exist is no error and the answer is 204
  (`handler/workspace.go:166-184`, `db/db.go:252-262`).
* *The sweep's comment* says that swept rows have no message in the queue
  (`deploy.go:100-103`); rows of queued requests do, and are executed twice.
* *Migrations.* A replica that dies during a migration leaves the schema dirty
  and no replica comes up until somebody repairs it (`Interrupted` in
  `EventuallyServes`).

## 8. What is not modelled

* The merge of fields in `Update` and the validation of requests: every update of
  the model sets everything. The merge concerns one row and one read, while a
  content of several fields would multiply the states of every pipeline run.
* Roles: they are stored, put into the token and into the context
  (`auth/middleware.go`), and no handler looks at one.
* Time within a tick: a request other than a stream is short against a tick of
  `Sessions`; `http.Server.Shutdown` looks for silent connections
  several times in a tick of `ApiShutdown`.
* The response cache: the only store is the no-op one, which never hits.
* The two fixed queries of `handler/metrics.go`, which put the caller's workspace
  into the text, and the counting of requests; the invocation proxy, tracing, logging, request ids,
  health, configuration, pagination: no state that is shared or that a
  property speaks of.
* The language runtimes: one request in, one call of the user's handler.
* The limits of the NATS stream (10000 messages, seven days) and reconnection.
* Floating point in the rate limiter: its floats are taken for reals, in exact
  shares of a token.

## 9. Plan

The order is by what the platform's users would lose first.

1. `DeploymentLifecycle`, `DeployPipeline` - done, safety and refinement proved.
2. `WorkerShutdown` - done, proved. `ClusterPromise`,
   `KnativeDeployer` - done, safety and refinement proved.
3. `EventStreams`, `RateLimiter`, `ApiStartup` - done, proved.
   `Workspaces`: rows, slugs and namespaces - done, proved.
4. `Sessions` with `RateLimiter` and `MetricsQuery`: members and the workspace in a
   token beside membership that changes - done, proved.
5. `LogTail` and `ApiShutdown` - done, safety proved.
6. Proofs of every safety property and refinement that the runs check - done. What
   the pipeline's theorems still exclude of faults is what the properties do not
   survive (section 7).
7. The merge of single fields in `Update` against a sequential reference, in a
   module of its own beside the pipeline.
