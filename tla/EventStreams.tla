---------------------------- MODULE EventStreams ----------------------------
(***************************************************************************)
(* Server-sent events of one API process: the per-user cap on open streams *)
(* (SSEConnectionLimit), the stream of a deployment's status events        *)
(* (DeployEventsHandler.Stream) and, as a stream that takes a slot of the  *)
(* same cap, the log tail (LogsHandler.Stream).                            *)
(*                                                                         *)
(* The deployments are those of equally named functions, whatever their    *)
(* workspace: they share the subject deploy.status.<function>, so every    *)
(* stream's consumer sees the status events of all of them.                *)
(***************************************************************************)
EXTENDS Integers, Sequences, FiniteSets

CONSTANTS
  Users,
  Conns,        \* HTTP connections, reused for one request after another
  Deployments,  \* deployments of functions of one name
  Owner,        \* the workspace of each user and of each deployment
  Limit,        \* streams a user may hold open
  MaxEvents     \* bound: status events published in a behaviour

ASSUME StreamsAssumption ==
  /\ Users # {}
  /\ IsFiniteSet(Conns)
  /\ "logs" \notin Deployments
  /\ Limit \in Nat \ {0}        \* the middleware raises anything below 1 to 1
  /\ MaxEvents \in Nat

Settled  == {"running", "failed"}
Statuses == {"building", "deploying"} \cup Settled
Events   == [dep : Deployments, status : Statuses]

VARIABLES
  phase,      \* deployment -> what its worker last reported, "none" without a row,
              \* "unreported" when it has failed and nothing was published
  published,  \* the messages of the subject, in stream order
  count,      \* user -> the middleware's counter
  conn        \* the request each connection is serving

vars == <<phase, published, count, conn>>

Closed == [pc |-> "closed", user |-> CHOOSE u \in Users : TRUE, target |-> "logs",
           gone |-> FALSE, next |-> 1, shown |-> {}]

Serving == {"lookup", "subscribe", "stream", "logs", "return"}
Counted == Serving \cup {"reject"}
ConnStates ==
  [pc : Counted \cup {"closed", "admit"}, user : Users,
   target : Deployments \cup {"logs"}, gone : BOOLEAN,
   next : Nat \ {0}, shown : SUBSET Events]

TypeOK ==
  /\ phase \in [Deployments -> Statuses \cup {"none", "queued", "unreported"}]
  /\ published \in Seq(Events)
  /\ count \in [Users -> Int]
  /\ conn \in [Conns -> ConnStates]
  /\ \A c \in Conns : conn[c].next <= Len(published) + 1

Init ==
  /\ phase = [d \in Deployments |-> "none"]
  /\ published = <<>>
  /\ count = [u \in Users |-> 0]
  /\ conn = [c \in Conns |-> Closed]

-----------------------------------------------------------------------------
(* The deployments: what the API and the deploy workers contribute. *)

Queue(d) ==
  /\ phase[d] = "none"
  /\ phase' = [phase EXCEPT ![d] = "queued"]
  /\ UNCHANGED <<published, count, conn>>

\* The reports of handleMessage and executeDeploy, over all attempts.
Following(s) ==
  CASE s = "queued"    -> {"building"}
    [] s = "building"  -> {"building", "deploying", "failed"}
    [] s = "deploying" -> {"building", "running", "failed"}
    [] s \in {"running", "unreported"}                 \* delivered once more
                       -> {"building"}
    [] OTHER           -> {}

\* publishStatus drops the error of a publish.
Report(d) ==
  /\ Len(published) < MaxEvents
  /\ \E s \in Following(phase[d]) :
       /\ phase' = [phase EXCEPT ![d] = s]
       /\ published' \in {published, Append(published, [dep |-> d, status |-> s])}
  /\ UNCHANGED <<count, conn>>

\* A deployment fails and no event says so: the API could not queue it, or a
\* sweep could not recover it.
FailUnreported(d) ==
  /\ phase[d] \in {"queued", "building", "deploying"}
  /\ phase' = [phase EXCEPT ![d] = "unreported"]
  /\ UNCHANGED <<published, count, conn>>

-----------------------------------------------------------------------------
(* SSEConnectionLimit *)

Go(c, pc) == conn' = [conn EXCEPT ![c].pc = pc]

Connect(c, u, t) ==
  /\ conn[c].pc = "closed"
  /\ conn' = [conn EXCEPT ![c] = [Closed EXCEPT !.pc = "admit", !.user = u, !.target = t]]
  /\ UNCHANGED <<phase, published, count>>

\* The client goes away; the request's context is cancelled.
Disconnect(c) ==
  /\ conn[c].pc # "closed"
  /\ ~ conn[c].gone
  /\ conn' = [conn EXCEPT ![c].gone = TRUE]
  /\ UNCHANGED <<phase, published, count>>

\* Add(1) takes the slot and returns the new count in one step.
Admit(c) ==
  LET u == conn[c].user IN
  /\ conn[c].pc = "admit"
  /\ count' = [count EXCEPT ![u] = @ + 1]
  /\ Go(c, IF count[u] + 1 > Limit THEN "reject" ELSE "lookup")
  /\ UNCHANGED <<phase, published>>

\* Mutant: the deferred Add(-1) is also registered for a rejected request.
MutReject(c) ==
  /\ conn[c].pc = "reject"
  /\ count' = [count EXCEPT ![conn[c].user] = @ - 2]
  /\ conn' = [conn EXCEPT ![c] = Closed]
  /\ UNCHANGED <<phase, published>>

Reject(c) ==
  /\ conn[c].pc = "reject"
  /\ count' = [count EXCEPT ![conn[c].user] = @ - 1]
  /\ conn' = [conn EXCEPT ![c] = Closed]
  /\ UNCHANGED <<phase, published>>

\* However the handler returned, the deferred Add(-1) gives the slot back.
Return(c) ==
  /\ conn[c].pc = "return"
  /\ count' = [count EXCEPT ![conn[c].user] = @ - 1]
  /\ conn' = [conn EXCEPT ![c] = Closed]
  /\ UNCHANGED <<phase, published>>

-----------------------------------------------------------------------------
(* DeployEventsHandler.Stream and LogsHandler.Stream *)

\* The row must exist and belong to the caller's workspace.  Also an SQL error,
\* or a cancelled request, is answered with an error.
Lookup(c) ==
  LET r     == conn[c]
      found == r.target # "logs" =>
                 phase[r.target] # "none" /\ Owner[r.user] = Owner[r.target]
  IN
  /\ r.pc = "lookup"
  /\ \/ found /\ Go(c, IF r.target = "logs" THEN "logs" ELSE "subscribe")
     \/ Go(c, "return")
  /\ UNCHANGED <<phase, published, count>>

\* Mutant: the consumer is created with DeliverNewPolicy.
MutSubscribe(c) ==
  /\ conn[c].pc = "subscribe"
  /\ conn' = [conn EXCEPT ![c].pc = "stream", ![c].next = Len(published) + 1]
  /\ UNCHANGED <<phase, published, count>>

\* Mutant: the slot is released after the loop, which an early return skips.
MutSubscribeLeak(c) ==
  /\ conn[c].pc = "subscribe"
  /\ \/ Go(c, "stream")
     \/ conn' = [conn EXCEPT ![c] = Closed]
  /\ UNCHANGED <<phase, published, count>>

\* An ephemeral consumer with DeliverAllPolicy: it starts at the first event.
Subscribe(c) ==
  /\ conn[c].pc = "subscribe"
  /\ Go(c, "stream") \/ Go(c, "return")
  /\ UNCHANGED <<phase, published, count>>

\* Mutant: the event is shown whichever deployment it is about.
MutForward(c) ==
  /\ conn[c].pc = "stream"
  /\ conn[c].next <= Len(published)
  /\ conn' = [conn EXCEPT ![c].next = @ + 1,
                          ![c].shown = @ \cup {published[conn[c].next]}]
  /\ UNCHANGED <<phase, published, count>>

\* Mutant: the iterator is advanced twice for an event that is shown.
MutForwardSkips(c) ==
  /\ conn[c].pc = "stream"
  /\ conn[c].next <= Len(published)
  /\ conn' = [conn EXCEPT ![c].next = @ + 2,
                          ![c].shown = @ \cup {published[conn[c].next]}]
  /\ UNCHANGED <<phase, published, count>>

\* The next event of the subject.  The statuses published are in lower case.
Forward(c) ==
  LET r  == conn[c]
      ev == published[r.next]
  IN
  /\ r.pc = "stream"
  /\ r.next <= Len(published)
  /\ IF ev.dep = r.target
     THEN conn' = [conn EXCEPT ![c] =
            [r EXCEPT !.next = @ + 1,
                      !.shown = @ \cup {ev},
                      !.pc = IF ev.status \in {"RUNNING", "FAILED"} THEN "return" ELSE @]]
     ELSE conn' = [conn EXCEPT ![c].next = @ + 1]
  /\ UNCHANGED <<phase, published, count>>

\* iter.Stop() on a cancelled request ends the loop; the log tail polls Done.
Leave(c) ==
  /\ conn[c].pc \in {"stream", "logs"}
  /\ conn[c].gone
  /\ Go(c, "return")
  /\ UNCHANGED <<phase, published, count>>

\* The server drops the ephemeral consumer or misses its heartbeats.
IteratorError(c) ==
  /\ conn[c].pc = "stream"
  /\ Go(c, "return")
  /\ UNCHANGED <<phase, published, count>>

-----------------------------------------------------------------------------
Handle(c) ==
  \/ Admit(c) \/ Reject(c) \/ Return(c)
  \/ Lookup(c) \/ Subscribe(c) \/ Forward(c) \/ Leave(c)

Next ==
  \/ \E d \in Deployments : Queue(d) \/ Report(d) \/ FailUnreported(d)
  \/ \E c \in Conns :
       \/ \E u \in Users, t \in Deployments \cup {"logs"} : Connect(c, u, t)
       \/ Disconnect(c) \/ IteratorError(c) \/ Handle(c)

Spec == Init /\ [][Next]_vars

\* A handler's goroutine runs on.  Nothing is assumed of clients, workers and NATS.
FairSpec == Spec /\ \A c \in Conns : WF_vars(Handle(c))

-----------------------------------------------------------------------------
(* Properties. *)

Holders(u, S) == {c \in Conns : conn[c].user = u /\ conn[c].pc \in S}

\* A user never has more than Limit requests past the cap, whatever the
\* interleaving of the Add(1) and Add(-1) of admitted and rejected requests.
ConnectionCap == \A u \in Users : Cardinality(Holders(u, Serving)) <= Limit

\* The counter is the number of requests that will still decrement it: no slot
\* is leaked on any of the handlers' ways out, none is returned twice.
SlotsExact == \A u \in Users : count[u] = Cardinality(Holders(u, Counted))

\* A client is shown the events of the deployment it asked for, which is one of
\* its workspace, although the consumer delivers those of others as well.
OwnEventsOnly ==
  \A c \in Conns : \A ev \in conn[c].shown :
    ev.dep = conn[c].target /\ Owner[ev.dep] = Owner[conn[c].user]

\* A client that stays is told of every outcome that was published, also when it
\* subscribes after the fact: the consumer replays the subject from the start.  Of a
\* deployment that the API could not queue or a sweep could not recover it is told
\* nothing.
ToldWhenSettled ==
  \A c \in Conns, d \in Deployments :
    /\ conn[c].pc = "stream"
    /\ conn[c].target = d
    /\ \E i \in 1..Len(published) :
         published[i].dep = d /\ published[i].status \in Settled
    ~> \/ \E ev \in conn[c].shown : ev.status \in Settled
       \/ conn[c].gone \/ conn[c].pc # "stream"

\* SSEConnectionLimit's comment: the handler "voluntarily ends (e.g., a
\* deployment reaching a terminal state)".
EndsWhenSettled ==
  \A c \in Conns :
    (conn[c].pc = "stream" /\ \E ev \in conn[c].shown : ev.status \in Settled)
      ~> conn[c].pc # "stream"
=============================================================================
