--------------------------- MODULE WorkerShutdown ---------------------------
(***************************************************************************)
(* How a deploy worker stops (cmd/worker/main.go): the signal cancels the  *)
(* context its loop was started with, five seconds later the connections   *)
(* are closed and the process ends.  Every SQL statement and every call of *)
(* the cluster takes that context and fails at once when it is cancelled;  *)
(* consumer.Next, Ack, Nak and Term do not take it and keep working.       *)
(*                                                                         *)
(* The deployments are those of DeployPipeline without their content; a    *)
(* row is "active" while queued, building or deploying, and executeDeploy  *)
(* is its first status update ("begin"), its calls of the cluster          *)
(* ("execute") and its last status update ("report").                      *)
(***************************************************************************)
EXTENDS Integers, FiniteSets

CONSTANTS
  Deployments,
  NoDeployment, \* what a process with nothing in hand has in hand
  Workers,      \* worker processes, sharing the durable consumer
  MaxDeliver,   \* the consumer's MaxDeliver
  MaxSignals,   \* bound: shutdown signals in a behaviour
  Restarts,     \* TRUE: a stopped process starts again.  FALSE: a rolling
                \* update, the replacement is another member of Workers
  Patient,      \* TRUE: five seconds are enough for what is in hand
  ClusterFails  \* TRUE: a call of the cluster may fail by itself

ASSUME ShutdownAssumption ==
  /\ NoDeployment \notin Deployments
  /\ MaxDeliver \in Nat \ {0}
  /\ MaxSignals \in Nat
  /\ {Restarts, Patient, ClusterFails} \subseteq BOOLEAN

VARIABLES
  row,         \* deployments table: "none", "active", "running" or "failed"
  message,     \* the request in the consumer: "none", "ready", "out" or "done"
  deliveries,  \* NumDelivered
  proc,        \* the worker processes
  signals,     \* shutdown signals so far
  inFlight     \* history: what each process had in hand when it was signalled

vars == <<row, message, deliveries, proc, signals, inFlight>>

Fresh == [main |-> "new", loop |-> "stopped", via |-> "sweep", dep |-> NoDeployment,
          ok |-> FALSE, todo |-> {}]

Busy == {"begin", "execute", "report", "settle"}
ProcStates ==
  [main : {"new", "up", "draining", "down"},
   loop : Busy \cup {"sweep", "next", "stopped"},
   via : {"sweep", "message"}, dep : Deployments \cup {NoDeployment},
   ok : BOOLEAN, todo : SUBSET Deployments]

TypeOK ==
  /\ row \in [Deployments -> {"none", "active", "running", "failed"}]
  /\ message \in [Deployments -> {"none", "ready", "out", "done"}]
  /\ deliveries \in [Deployments -> 0..MaxDeliver]
  /\ proc \in [Workers -> ProcStates]
  /\ \A w \in Workers : proc[w].loop \in Busy => proc[w].dep # NoDeployment
  /\ signals \in 0..MaxSignals
  /\ inFlight \in [Workers -> SUBSET Deployments]

Init ==
  /\ row = [d \in Deployments |-> "none"]
  /\ message = [d \in Deployments |-> "none"]
  /\ deliveries = [d \in Deployments |-> 0]
  /\ proc = [w \in Workers |-> Fresh]
  /\ signals = 0
  /\ inFlight = [w \in Workers |-> {}]

Cancelled(w) == proc[w].main = "draining"
Running(w)   == proc[w].main \in {"up", "draining"}

\* A statement under w's context: no effect once it is cancelled.
Write(w, d, s) ==
  row' = IF Cancelled(w) \/ row[d] = "none" THEN row ELSE [row EXCEPT ![d] = s]

-----------------------------------------------------------------------------
\* The API: the row, then the message.
Request(d) ==
  /\ row[d] = "none"
  /\ row' = [row EXCEPT ![d] = "active"]
  /\ message' = [message EXCEPT ![d] = "ready"]
  /\ UNCHANGED <<deliveries, proc, signals, inFlight>>

\* The ack wait of a delivery that is in nobody's hand; after the last delivery
\* the consumer gives the message up.
AckWaitExpires(d) ==
  /\ message[d] = "out"
  /\ \A w \in Workers : ~ (/\ proc[w].loop \in Busy
                          /\ proc[w].via = "message" /\ proc[w].dep = d)
  /\ message' = [message EXCEPT ![d] = IF deliveries[d] < MaxDeliver THEN "ready" ELSE "done"]
  /\ UNCHANGED <<row, deliveries, proc, signals, inFlight>>

-----------------------------------------------------------------------------
(* DeployWorker *)

\* Mutant: a worker starts with consuming.
MutStart(w) ==
  /\ proc[w].main = "new" \/ (Restarts /\ proc[w].main = "down")
  /\ proc' = [proc EXCEPT ![w] = [Fresh EXCEPT !.main = "up", !.loop = "next"]]
  /\ inFlight' = [inFlight EXCEPT ![w] = {}]
  /\ UNCHANGED <<row, message, deliveries, signals>>

Start(w) ==
  /\ proc[w].main = "new" \/ (Restarts /\ proc[w].main = "down")
  /\ proc' = [proc EXCEPT ![w] = [Fresh EXCEPT !.main = "up", !.loop = "sweep",
                                    !.todo = {d \in Deployments : row[d] = "active"}]]
  /\ inFlight' = [inFlight EXCEPT ![w] = {}]
  /\ UNCHANGED <<row, message, deliveries, signals>>

\* With a cancelled context the row's workspace cannot be read: on to the next.
SweepNext(w) ==
  \E d \in proc[w].todo :
    /\ Running(w)
    /\ proc[w].loop = "sweep"
    /\ proc' = [proc EXCEPT ![w] =
         IF Cancelled(w) THEN [proc[w] EXCEPT !.todo = @ \ {d}]
         ELSE [proc[w] EXCEPT !.todo = @ \ {d}, !.loop = "begin", !.via = "sweep", !.dep = d]]
    /\ UNCHANGED <<row, message, deliveries, signals, inFlight>>

SweepDone(w) ==
  /\ Running(w)
  /\ proc[w].loop = "sweep"
  /\ proc[w].todo = {}
  /\ proc' = [proc EXCEPT ![w].loop = "next"]
  /\ UNCHANGED <<row, message, deliveries, signals, inFlight>>

\* consumer.Next returns a message whether or not the context is cancelled.
NextMessage(w) ==
  \E d \in Deployments :
    /\ Running(w)
    /\ proc[w].loop = "next"
    /\ message[d] = "ready"
    /\ message' = [message EXCEPT ![d] = "out"]
    /\ deliveries' = [deliveries EXCEPT ![d] = @ + 1]
    /\ proc' = [proc EXCEPT ![w] = [@ EXCEPT !.loop = "begin", !.via = "message",
                                             !.dep = d]]
    /\ UNCHANGED <<row, signals, inFlight>>

\* Only after a Next that brought no message is the context looked at.
NextError(w) ==
  /\ Cancelled(w)
  /\ proc[w].loop = "next"
  /\ \A d \in Deployments : message[d] # "ready"
  /\ proc' = [proc EXCEPT ![w].loop = "stopped"]
  /\ UNCHANGED <<row, message, deliveries, signals, inFlight>>

\* The updates to "building" and "deploying", also of a row that was settled.
Begin(w) ==
  /\ Running(w)
  /\ proc[w].loop = "begin"
  /\ Write(w, proc[w].dep, "active")
  /\ proc' = [proc EXCEPT ![w].loop = "execute"]
  /\ UNCHANGED <<message, deliveries, signals, inFlight>>

Execute(w) ==
  /\ Running(w)
  /\ proc[w].loop = "execute"
  /\ \/ /\ ~ Cancelled(w)
        /\ proc' = [proc EXCEPT ![w].loop = "report"]
     \/ /\ Cancelled(w) \/ ClusterFails
        /\ proc' = [proc EXCEPT ![w].loop = "settle", ![w].ok = FALSE]
  /\ UNCHANGED <<row, message, deliveries, signals, inFlight>>

\* The error of the update to "running" is dropped.
Report(w) ==
  /\ Running(w)
  /\ proc[w].loop = "report"
  /\ Write(w, proc[w].dep, "running")
  /\ proc' = [proc EXCEPT ![w].loop = "settle", ![w].ok = TRUE]
  /\ UNCHANGED <<message, deliveries, signals, inFlight>>

\* Mutant: the last failed delivery is answered with Nak as well.
MutSettle(w) ==
  LET p == proc[w]
      d == p.dep
  IN
  /\ Running(w)
  /\ p.loop = "settle"
  /\ UNCHANGED row
  /\ message' = IF p.via = "message" /\ message[d] = "out"
                THEN [message EXCEPT ![d] = IF p.ok THEN "done" ELSE "ready"] ELSE message
  /\ proc' = [proc EXCEPT ![w] = [@ EXCEPT !.loop = IF p.via = "sweep" THEN "sweep" ELSE "next",
                                           !.dep = NoDeployment]]
  /\ UNCHANGED <<deliveries, signals, inFlight>>

\* The end of a row of the sweep, or Ack, Nak or Term.
Settle(w) ==
  LET p        == proc[w]
      d        == p.dep
      final    == ~ p.ok /\ (p.via = "sweep" \/ deliveries[d] >= MaxDeliver)
      answered == IF p.ok \/ final THEN "done" ELSE "ready"
  IN
  /\ Running(w)
  /\ p.loop = "settle"
  /\ IF final THEN Write(w, d, "failed") ELSE UNCHANGED row
  /\ message' = IF p.via = "message" /\ message[d] = "out"
                THEN [message EXCEPT ![d] = answered] ELSE message
  /\ proc' = [proc EXCEPT ![w] = [@ EXCEPT !.loop = IF p.via = "sweep" THEN "sweep" ELSE "next",
                                           !.dep = NoDeployment]]
  /\ UNCHANGED <<deliveries, signals, inFlight>>

-----------------------------------------------------------------------------
(* main *)

\* SIGTERM: cancel(), then the five seconds begin.
Signal(w) ==
  /\ proc[w].main = "up"
  /\ signals < MaxSignals
  /\ signals' = signals + 1
  /\ proc' = [proc EXCEPT ![w].main = "draining"]
  /\ inFlight' = [inFlight EXCEPT ![w] = IF proc[w].loop \in Busy THEN {proc[w].dep} ELSE {}]
  /\ UNCHANGED <<row, message, deliveries>>

\* The sleep is over: NATS and the database are closed, the process ends.
Exit(w) ==
  /\ proc[w].main = "draining"
  /\ Patient => proc[w].loop \notin Busy
  /\ proc' = [proc EXCEPT ![w] = [Fresh EXCEPT !.main = "down"]]
  /\ UNCHANGED <<row, message, deliveries, signals, inFlight>>

-----------------------------------------------------------------------------
Loop(w) ==
  \/ SweepNext(w) \/ SweepDone(w) \/ NextMessage(w) \/ NextError(w)
  \/ Begin(w) \/ Execute(w) \/ Report(w) \/ Settle(w)

Next ==
  \/ \E d \in Deployments : Request(d) \/ AckWaitExpires(d)
  \/ \E w \in Workers : Start(w) \/ Loop(w) \/ Signal(w) \/ Exit(w)

Spec == Init /\ [][Next]_vars

-----------------------------------------------------------------------------
(* Properties. *)

\* Somebody will still look at the table: a process that is yet to start.
SweepToCome ==
  \E w \in Workers : proc[w].main = "new" \/ (Restarts /\ proc[w].main # "up")

\* The queue has d's message, a process has d in hand or in its sweep, or a
\* sweep is to come.
TakenUp(d) ==
  \/ message[d] \in {"ready", "out"}
  \/ \E w \in Workers : (proc[w].loop \in Busy /\ proc[w].dep = d) \/ d \in proc[w].todo
  \/ SweepToCome

\* No shutdown strands a deployment, as long as stopped processes start again:
\* neither a drain that uses up the deliveries nor one that acknowledges a
\* message whose row it could not update.
NoneStranded == \A d \in Deployments : row[d] = "active" => TakenUp(d)

\* The recovery sweep's comment: it resumes "any deployments that were
\* in-progress when the previous worker instance terminated".
SweepResumes ==
  \A w \in Workers : proc[w].main = "down" =>
    \A d \in inFlight[w] : row[d] = "active" => TakenUp(d)
=============================================================================
