---------------------------- MODULE ApiShutdown ----------------------------
(***************************************************************************)
(* How an API process stops (shutdown.Manager.Wait and the end of main):   *)
(* the signal, http.Server.Shutdown with its timeout while requests are    *)
(* being served and log tails are open, then the connection to NATS and    *)
(* the database pool, in the reverse order of their registration, and the  *)
(* exit status.  The requests are those that deploy a function: a row, the *)
(* deploy request, and the row again when it could not be published.  A    *)
(* client may leave at any point, which cancels its request's context.     *)
(* While they are open, NATS and the database serve a request whose client *)
(* is there.  The tails and the clock are those of LogTail.                *)
(***************************************************************************)
EXTENDS LogTail

CONSTANTS
  Requests,  \* connections, each with one request that deploys a function
  Timeout,   \* the shutdown timeout, in ticks
  NewGrace   \* net/http: how long a connection without a request yet is spared

ASSUME ShutdownAssumption ==
  /\ Timeout \in Nat \ {0}
  /\ NewGrace \in 0..Timeout

VARIABLES
  main,      \* how far the main goroutine is
  signalled, \* when the signal came
  status,    \* the exit status, -1 while the process runs
  request,   \* the requests
  row,       \* the status of each request's deployment row
  published, \* requests whose deploy request the stream has stored
  gone,      \* requests whose client has left: their context is cancelled
  cut        \* history: request -> how long it had run when it met a closed
             \* connection or the end of the process, -1 if it did not

process      == <<main, signalled, status>>
work         == <<request, row, published, gone, cut>>
shutdownVars == <<tailVars, process, work>>

Steps == {"insert", "publish", "ack", "mark"}

ShutdownTypeOK ==
  /\ TailTypeOK
  /\ main \in {"serving", "draining", "nats", "database", "exit", "exited"}
  /\ signalled \in 0..now
  /\ status \in {-1, 0, 1}
  /\ request \in [Requests -> [pc : Steps \cup {"none", "new", "closed"}, at : 0..now]]
  /\ row \in [Requests -> {"none", "queued", "failed"}]
  /\ published \subseteq Requests
  /\ gone \subseteq Requests
  /\ cut \in [Requests -> -1..now]

ShutdownInit ==
  /\ TailInit
  /\ main = "serving"
  /\ signalled = 0
  /\ status = -1
  /\ request = [r \in Requests |-> [pc |-> "none", at |-> 0]]
  /\ row = [r \in Requests |-> "none"]
  /\ published = {}
  /\ gone = {}
  /\ cut = [r \in Requests |-> -1]

NatsOpen == main \in {"serving", "draining", "nats"}
DatabaseOpen == NatsOpen \/ main = "database"
Alive        == main # "exited"

-----------------------------------------------------------------------------
(* The requests. *)

Go(r, pc) == request' = [request EXCEPT ![r].pc = pc]
Ran(r)    == now - request[r].at

\* r is let down by the shutdown, for the first time; no client is there to be
\* let down when it has left.
Cut(r) ==
  cut' = IF cut[r] = -1 /\ r \notin gone THEN [cut EXCEPT ![r] = Ran(r)] ELSE cut

\* The listener is closed first.
Connect(r) ==
  /\ main = "serving"
  /\ request[r].pc = "none"
  /\ request' = [request EXCEPT ![r] = [pc |-> "new", at |-> now]]
  /\ UNCHANGED <<tailVars, process, row, published, gone, cut>>

\* Once the drain has begun a connection without a request is closed, unless it
\* is young; Shutdown looks for them several times in a tick.
Silent(r) == request[r].pc = "new" /\ main # "serving" /\ Ran(r) > NewGrace

\* A connection that was accepted is served, also during the drain.
Arrive(r) ==
  /\ Alive
  /\ request[r].pc = "new" /\ ~ Silent(r)
  /\ request' = [request EXCEPT ![r] = [pc |-> "insert", at |-> now]]
  /\ UNCHANGED <<tailVars, process, row, published, gone, cut>>

\* The client closes its connection.
Disconnect(r) ==
  /\ Alive
  /\ \/ request[r].pc = "new" /\ Go(r, "closed") /\ UNCHANGED gone
     \/ request[r].pc \in Steps /\ r \notin gone /\ gone' = gone \cup {r} /\ UNCHANGED request
  /\ UNCHANGED <<tailVars, process, row, published, cut>>

\* A statement whose context is cancelled is not sent, or its row is stored and
\* the id does not come back.
Insert(r) ==
  /\ Alive
  /\ request[r].pc = "insert"
  /\ \/ /\ DatabaseOpen /\ r \notin gone
        /\ row' = [row EXCEPT ![r] = "queued"]
        /\ Go(r, "publish")
        /\ UNCHANGED cut
     \/ /\ DatabaseOpen /\ r \in gone
        /\ row' \in {row, [row EXCEPT ![r] = "queued"]}
        /\ Go(r, "closed")
        /\ UNCHANGED cut
     \/ /\ ~ DatabaseOpen
        /\ Go(r, "closed")
        /\ Cut(r)
        /\ UNCHANGED row
  /\ UNCHANGED <<tailVars, process, published, gone>>

\* The publish has the request's context: once it is cancelled nothing is sent.
Publish(r) ==
  /\ Alive
  /\ request[r].pc = "publish"
  /\ \/ /\ NatsOpen /\ r \notin gone
        /\ published' = published \cup {r}
        /\ Go(r, "ack")
        /\ UNCHANGED cut
     \/ /\ ~ NatsOpen \/ r \in gone
        /\ Go(r, "mark")
        /\ Cut(r)
        /\ UNCHANGED published
  /\ UNCHANGED <<tailVars, process, row, gone>>

\* The stream's answer.  The connection or the context may be closed before it
\* comes, although the message is stored.
Ack(r) ==
  /\ Alive
  /\ request[r].pc = "ack"
  /\ \/ NatsOpen /\ Go(r, "closed") /\ UNCHANGED cut
     \/ (~ NatsOpen \/ r \in gone) /\ Go(r, "mark") /\ Cut(r)
  /\ UNCHANGED <<tailVars, process, row, published, gone>>

\* Mutant: the row of a request that was not published is left as it is.
MutMark(r) ==
  /\ Alive
  /\ request[r].pc = "mark"
  /\ Go(r, "closed")
  /\ UNCHANGED <<tailVars, process, row, published, gone, cut>>

\* The update has the request's context too, and its error is dropped.
Mark(r) ==
  /\ Alive
  /\ request[r].pc = "mark"
  /\ row' = IF DatabaseOpen /\ r \notin gone THEN [row EXCEPT ![r] = "failed"] ELSE row
  /\ Go(r, "closed")
  /\ UNCHANGED <<tailVars, process, published, gone, cut>>

-----------------------------------------------------------------------------
(* Manager.Wait *)

Deadline == now >= signalled + Timeout

Enter(step) == main' = step /\ UNCHANGED <<tailVars, signalled, status, work>>

\* Bound: a signal that leaves the clock no room for the timeout.
Signal ==
  /\ main = "serving"
  /\ now + Timeout <= MaxTime
  /\ main' = "draining"
  /\ signalled' = now
  /\ UNCHANGED <<tailVars, status, work>>

CloseSilent(r) ==
  /\ main = "draining"
  /\ Silent(r)
  /\ Go(r, "closed")
  /\ UNCHANGED <<tailVars, process, row, published, gone, cut>>

Quiet ==
  /\ \A r \in Requests : request[r].pc \in {"none", "closed"}
  /\ \A t \in Tails : tail[t].pc \in {"new", "closed"}

\* Mutant: nobody waits for the requests.
MutDrained == main = "draining" /\ Enter("nats")

Drained == main = "draining" /\ Quiet /\ Enter("nats")

\* Mutant: Shutdown is given a context without a deadline.
MutTimedOut == main = "draining" /\ Quiet /\ Enter("nats")

TimedOut == main = "draining" /\ Deadline /\ Enter("nats")

CloseNats == main = "nats" /\ Enter("database")
CloseDatabase == main = "database" /\ Enter("exit")

\* Mutant: the exit status tells what Shutdown returned to nobody.
MutExit ==
  /\ main = "exit"
  /\ main' = "exited"
  /\ status' = 0
  /\ tail' = [t \in Tails |-> [tail[t] EXCEPT !.pc = "closed"]]
  /\ request' = [r \in Requests |-> [request[r] EXCEPT !.pc = "closed"]]
  /\ cut' = [r \in Requests |->
               IF request[r].pc \in Steps /\ cut[r] = -1 /\ r \notin gone
               THEN Ran(r) ELSE cut[r]]
  /\ UNCHANGED <<now, logs, shown, missed, signalled, row, published, gone>>

\* Wait returns the context's error, main exits with it and whatever is still
\* being served ends.
Exit ==
  /\ main = "exit"
  /\ main' = "exited"
  /\ status' = IF Deadline THEN 1 ELSE 0
  /\ tail' = [t \in Tails |-> [tail[t] EXCEPT !.pc = "closed"]]
  /\ request' = [r \in Requests |-> [request[r] EXCEPT !.pc = "closed"]]
  /\ cut' = [r \in Requests |->
               IF request[r].pc \in Steps /\ cut[r] = -1 /\ r \notin gone
               THEN Ran(r) ELSE cut[r]]
  /\ UNCHANGED <<now, logs, shown, missed, signalled, row, published, gone>>

-----------------------------------------------------------------------------
Wait == Drained \/ TimedOut \/ CloseNats \/ CloseDatabase \/ Exit

Serve(r) ==
  \/ Connect(r) \/ Arrive(r) \/ Disconnect(r) \/ CloseSilent(r)
  \/ Insert(r) \/ Publish(r) \/ Ack(r) \/ Mark(r)

\* The tails of this process: none is opened once it has stopped listening.
Tailed(t) ==
  /\ Alive
  /\ tail[t].pc = "new" => main = "serving"
  /\ Tailing(t)
  /\ UNCHANGED <<process, work>>

ShutdownNext ==
  \/ (Tick \/ Shipping) /\ UNCHANGED <<process, work>>
  \/ \E t \in Tails : Tailed(t)
  \/ \E r \in Requests : Serve(r)
  \/ Signal \/ Wait

ShutdownSpec == ShutdownInit /\ [][ShutdownNext]_shutdownVars

\* The clock and the main goroutine go on.  Nothing is assumed of requests and
\* clients: none has to end.
FairShutdown ==
  ShutdownSpec /\ WF_shutdownVars(Tick /\ UNCHANGED <<process, work>>) /\ WF_shutdownVars(Wait)

-----------------------------------------------------------------------------
(* Properties. *)

\* "In-flight requests can finish their queries": the drain lets nobody down who
\* is done within the timeout, less the grace of a connection that is new when
\* the signal comes.
DrainSpares == \A r \in Requests : cut[r] >= 0 => cut[r] >= Timeout - NewGrace

\* Exit status 0 means that nobody was let down and no stream was broken off.
CleanExit ==
  [][status' = 0 /\ status # 0 =>
       /\ \A r \in Requests : cut'[r] = -1
       /\ \A t \in Tails : tail[t].pc \in {"new", "closed"}]_shutdownVars

\* While the database is open, every row that is queued has its message, a request
\* that will publish it or mark it failed, or a request whose client has left.  So
\* what only a worker's next sweep finds is left by clients that went away between
\* the row and its message, or by requests that outlived the database pool: a
\* client that stays is never told of a failure while its row says queued.
RowsAccounted ==
  DatabaseOpen =>
    \A r \in Requests : row[r] = "queued" =>
      r \in published \/ request[r].pc \in {"publish", "mark"} \/ r \in gone

\* A signal ends the process, whatever is being served: a log tail never ends by
\* itself.
Exits == main = "draining" ~> main = "exited"
=============================================================================
