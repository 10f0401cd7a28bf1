------------------------ MODULE WorkerShutdownProofs ------------------------
(***************************************************************************)
(* Proofs about WorkerShutdown, for any number of deployments, processes,  *)
(* deliveries and signals, with patience or without.                       *)
(*                                                                         *)
(* As long as a process is not up its start will sweep.  What has to be    *)
(* shown is about the moments when all are up: then whatever an earlier    *)
(* drain left was in the sweep of the last one to start, and a process     *)
(* that is up lets go of a deployment only with its row settled or its     *)
(* message back in the queue.                                              *)
(***************************************************************************)
EXTENDS WorkerShutdown, TLAPS

InHand(w, d)  == proc[w].loop \in Busy /\ proc[w].dep = d
Received(w, d) == InHand(w, d) /\ proc[w].via = "message"

\* A process that succeeded has nothing more to do for its deployment.
AtWork(w, d) ==
  \/ d \in proc[w].todo
  \/ InHand(w, d) /\ ~ (proc[w].loop = "settle" /\ proc[w].ok)

\* A message is in one hand at most, and comes back as often as it may.
MessagesOK ==
  \A d \in Deployments :
    /\ row[d] = "none" => message[d] = "none"
    /\ message[d] = "none" => deliveries[d] = 0
    /\ message[d] = "ready" => deliveries[d] < MaxDeliver
    /\ \A w \in Workers : Received(w, d) =>
         message[d] = "out" /\ \A v \in Workers : Received(v, d) => v = w

AllUp == \A w \in Workers : proc[w].main = "up"

Covered ==
  AllUp =>
    \A d \in Deployments :
      row[d] = "active" => message[d] = "ready" \/ \E w \in Workers : AtWork(w, d)

IInv == TypeOK /\ MessagesOK /\ Covered

-----------------------------------------------------------------------------
LEMMA InitInv == Init => IInv
  <1> SUFFICES ASSUME Init PROVE IInv
    OBVIOUS
  <1>1. Fresh \in ProcStates
    BY DEF Fresh, ProcStates
  <1>2. Fresh.loop = "stopped" /\ Fresh.main = "new"
    BY DEF Fresh
  <1>3. TypeOK
    BY <1>1, <1>2, ShutdownAssumption DEF Init, TypeOK, Busy
  <1>4. MessagesOK
    BY <1>2, ShutdownAssumption DEF Init, MessagesOK, Received, InHand, Busy
  <1>5. Covered
    BY DEF Init, Covered
  <1> QED
    BY <1>3, <1>4, <1>5 DEF IInv

-----------------------------------------------------------------------------
(* The API and the queue. *)

LEMMA RequestInv ==
  ASSUME IInv, NEW d \in Deployments, Request(d)
  PROVE  IInv'
  <1> USE ShutdownAssumption
  <1>1. TypeOK'
    BY DEF IInv, TypeOK, Request
  <1>2. MessagesOK'
    BY DEF IInv, TypeOK, MessagesOK, Received, InHand, Request
  <1>3. Covered'
    BY DEF IInv, TypeOK, Covered, AllUp, AtWork, InHand, Request
  <1> QED
    BY <1>1, <1>2, <1>3 DEF IInv

LEMMA AckWaitExpiresInv ==
  ASSUME IInv, NEW d \in Deployments, AckWaitExpires(d)
  PROVE  IInv'
  <1> USE ShutdownAssumption
  <1>1. TypeOK'
    BY DEF IInv, TypeOK, AckWaitExpires
  <1>2. MessagesOK'
    BY DEF IInv, TypeOK, MessagesOK, Received, InHand, AckWaitExpires
  <1>3. Covered'
    BY DEF IInv, TypeOK, Covered, AllUp, AtWork, InHand, AckWaitExpires
  <1> QED
    BY <1>1, <1>2, <1>3 DEF IInv

-----------------------------------------------------------------------------
(* The worker processes. *)

\* The last process to come up sees every active row.
LEMMA StartInv ==
  ASSUME IInv, NEW w \in Workers, Start(w)
  PROVE  IInv'
  <1> USE ShutdownAssumption
  <1> DEFINE A == {d \in Deployments : row[d] = "active"}
             p == [Fresh EXCEPT !.main = "up", !.loop = "sweep", !.todo = A]
  <1>1. /\ p \in ProcStates /\ p.loop = "sweep" /\ p.todo = A
        /\ proc' = [proc EXCEPT ![w] = p]
    BY DEF Start, Fresh, ProcStates
  <1> HIDE DEF p
  <1>2. /\ proc' \in [Workers -> ProcStates]
        /\ \A v \in Workers : proc'[v].loop \in Busy => proc'[v].dep # NoDeployment
        /\ proc'[w] = p
        /\ \A v \in Workers : v # w => proc'[v] = proc[v]
    <2>1. p.loop \notin Busy
      BY <1>1 DEF Busy
    <2> QED
      BY <1>1, <2>1 DEF IInv, TypeOK
  <1>3. TypeOK'
    BY <1>2 DEF IInv, TypeOK, Start
  <1>4. MessagesOK'
    <2>1. \A v \in Workers, d \in Deployments : Received(v, d)' => Received(v, d)
      BY <1>1, <1>2 DEF Received, InHand, Busy
    <2>2. UNCHANGED <<row, message, deliveries>>
      BY DEF Start
    <2> QED
      BY <2>1, <2>2 DEF IInv, MessagesOK
  <1>5. Covered'
    <2> SUFFICES ASSUME NEW d \in Deployments, row[d] = "active"
                 PROVE  AtWork(w, d)'
      BY DEF Covered, Start
    <2>1. d \in proc'[w].todo
      BY <1>1, <1>2
    <2> QED
      BY <2>1 DEF AtWork
  <1> QED
    BY <1>3, <1>4, <1>5 DEF IInv

\* A step of w's loop that takes nothing and lets go of nothing.
LEMMA QuietLoop ==
  ASSUME IInv, NEW w \in Workers, NEW p \in ProcStates,
         proc' = [proc EXCEPT ![w] = p],
         p.loop \in Busy => p.dep # NoDeployment,
         UNCHANGED <<row, message, deliveries, signals, inFlight>>,
         p.main = proc[w].main,
         \A d \in Deployments :
           p.loop \in Busy /\ p.dep = d /\ p.via = "message" => Received(w, d),
         AllUp => \A d \in Deployments :
           AtWork(w, d) =>
             \/ d \in p.todo
             \/ p.loop \in Busy /\ p.dep = d /\ ~ (p.loop = "settle" /\ p.ok)
  PROVE  IInv'
  <1>1. /\ proc' \in [Workers -> ProcStates]
        /\ \A v \in Workers : proc'[v].loop \in Busy => proc'[v].dep # NoDeployment
        /\ proc'[w] = p
        /\ \A v \in Workers : v # w => proc'[v] = proc[v]
    BY DEF IInv, TypeOK
  <1>2. TypeOK'
    BY <1>1 DEF IInv, TypeOK
  <1>3. MessagesOK'
    <2>1. \A v \in Workers, d \in Deployments : Received(v, d)' => Received(v, d)
      BY <1>1 DEF Received, InHand
    <2> QED
      BY <2>1 DEF IInv, MessagesOK
  <1>4. Covered'
    <2>1. AllUp' => AllUp
      BY <1>1 DEF AllUp
    <2>2. AllUp => \A v \in Workers, d \in Deployments : AtWork(v, d) => AtWork(v, d)'
      BY <1>1 DEF AtWork, InHand
    <2> QED
      BY <2>1, <2>2 DEF IInv, Covered
  <1> QED
    BY <1>2, <1>3, <1>4 DEF IInv

LEMMA SweepNextInv ==
  ASSUME IInv, NEW w \in Workers, SweepNext(w)
  PROVE  IInv'
  <1>1. PICK d \in proc[w].todo :
          proc' = [proc EXCEPT ![w] =
            IF Cancelled(w) THEN [proc[w] EXCEPT !.todo = proc[w].todo \ {d}]
            ELSE [proc[w] EXCEPT !.todo = proc[w].todo \ {d}, !.loop = "begin",
                                 !.via = "sweep", !.dep = d]]
    BY DEF SweepNext
  <1>2. proc[w] \in ProcStates /\ d \in Deployments /\ d # NoDeployment
    BY <1>1, ShutdownAssumption DEF IInv, TypeOK, ProcStates
  <1>3. proc[w].loop = "sweep"
    BY DEF SweepNext
  <1> DEFINE q == [proc[w] EXCEPT !.todo = proc[w].todo \ {d}]
             r == [proc[w] EXCEPT !.todo = proc[w].todo \ {d}, !.loop = "begin",
                                  !.via = "sweep", !.dep = d]
             p == IF Cancelled(w) THEN q ELSE r
  <1>4. /\ p \in ProcStates
        /\ proc' = [proc EXCEPT ![w] = p]
        /\ p.main = proc[w].main
        /\ p.todo = proc[w].todo \ {d}
        /\ IF Cancelled(w) THEN p.loop = "sweep"
           ELSE p.loop = "begin" /\ p.via = "sweep" /\ p.dep = d
    <2>1. /\ q \in ProcStates /\ q.main = proc[w].main /\ q.loop = "sweep"
          /\ q.todo = proc[w].todo \ {d}
      BY <1>2, <1>3 DEF ProcStates
    <2>2. /\ r \in ProcStates /\ r.main = proc[w].main /\ r.loop = "begin"
          /\ r.via = "sweep" /\ r.dep = d /\ r.todo = proc[w].todo \ {d}
      BY <1>2, <1>3 DEF ProcStates, Busy
    <2>3. proc' = [proc EXCEPT ![w] = p]
      BY <1>1
    <2> HIDE DEF q, r
    <2> QED
      BY <2>1, <2>2, <2>3
  <1> HIDE DEF p, q, r
  <1>5. UNCHANGED <<row, message, deliveries, signals, inFlight>>
    BY DEF SweepNext
  <1>6. p.loop \in Busy => p.dep # NoDeployment
    BY <1>2, <1>4 DEF Busy
  <1>7. p.loop \in Busy => p.via # "message"
    BY <1>4 DEF Busy
  <1>8. AllUp => \A e \in Deployments :
          AtWork(w, e) => e \in p.todo \/ (p.loop \in Busy /\ p.dep = e /\ p.loop # "settle")
    <2>1. AllUp => ~ Cancelled(w)
      BY DEF AllUp, Cancelled
    <2>2. \A e \in Deployments : AtWork(w, e) => e \in proc[w].todo
      BY <1>3 DEF AtWork, InHand, Busy
    <2> QED
      BY <1>4, <2>1, <2>2 DEF Busy
  <1> QED
    BY <1>4, <1>5, <1>6, <1>7, <1>8, QuietLoop

LEMMA SweepDoneInv ==
  ASSUME IInv, NEW w \in Workers, SweepDone(w)
  PROVE  IInv'
  <1> DEFINE p == [proc[w] EXCEPT !.loop = "next"]
  <1>1. proc[w] \in ProcStates /\ proc[w].todo = {} /\ proc[w].loop = "sweep"
    BY DEF IInv, TypeOK, SweepDone
  <1>2. /\ p \in ProcStates /\ p.main = proc[w].main /\ p.loop = "next"
        /\ proc' = [proc EXCEPT ![w] = p]
    BY <1>1 DEF SweepDone, ProcStates
  <1> HIDE DEF p
  <1>3. UNCHANGED <<row, message, deliveries, signals, inFlight>>
    BY DEF SweepDone
  <1>4. p.loop \notin Busy
    BY <1>2 DEF Busy
  <1>5. \A d \in Deployments : ~ AtWork(w, d)
    BY <1>1 DEF AtWork, InHand, Busy
  <1> QED
    BY <1>2, <1>3, <1>4, <1>5, QuietLoop

\* A loop that ends has a cancelled context.
LEMMA NextErrorInv ==
  ASSUME IInv, NEW w \in Workers, NextError(w)
  PROVE  IInv'
  <1> DEFINE p == [proc[w] EXCEPT !.loop = "stopped"]
  <1>1. proc[w] \in ProcStates /\ proc[w].main = "draining"
    BY DEF IInv, TypeOK, NextError, Cancelled
  <1>2. /\ p \in ProcStates /\ p.main = proc[w].main /\ p.loop = "stopped"
        /\ proc' = [proc EXCEPT ![w] = p]
    BY <1>1 DEF NextError, ProcStates
  <1> HIDE DEF p
  <1>3. UNCHANGED <<row, message, deliveries, signals, inFlight>>
    BY DEF NextError
  <1>4. p.loop \notin Busy
    BY <1>2 DEF Busy
  <1>5. ~ AllUp
    BY <1>1 DEF AllUp
  <1> QED
    BY <1>2, <1>3, <1>4, <1>5, QuietLoop

LEMMA ExecuteInv ==
  ASSUME IInv, NEW w \in Workers, Execute(w)
  PROVE  IInv'
  <1>1. /\ proc[w] \in ProcStates /\ proc[w].loop = "execute"
        /\ proc[w].dep # NoDeployment
    BY DEF IInv, TypeOK, Execute, Busy
  <1>2. PICK p \in ProcStates :
          /\ proc' = [proc EXCEPT ![w] = p]
          /\ p.main = proc[w].main /\ p.via = proc[w].via /\ p.dep = proc[w].dep
          /\ p.todo = proc[w].todo
          /\ p.loop = "report" \/ (p.loop = "settle" /\ ~ p.ok)
    <2> DEFINE q == [proc[w] EXCEPT !.loop = "report"]
               r == [proc[w] EXCEPT !.loop = "settle", !.ok = FALSE]
    <2>1. /\ q \in ProcStates /\ q.main = proc[w].main /\ q.via = proc[w].via
          /\ q.dep = proc[w].dep /\ q.todo = proc[w].todo /\ q.loop = "report"
      BY <1>1 DEF ProcStates, Busy
    <2>2. /\ r \in ProcStates /\ r.main = proc[w].main /\ r.via = proc[w].via
          /\ r.dep = proc[w].dep /\ r.todo = proc[w].todo /\ r.loop = "settle"
          /\ r.ok = FALSE
      BY <1>1 DEF ProcStates, Busy
    <2>3. proc' = [proc EXCEPT ![w] = q] \/ proc' = [proc EXCEPT ![w] = r]
      BY <1>1 DEF Execute, IInv, TypeOK
    <2> HIDE DEF q, r
    <2> QED
      BY <2>1, <2>2, <2>3
  <1>3. UNCHANGED <<row, message, deliveries, signals, inFlight>>
    BY DEF Execute
  <1>4. \A d \in Deployments : p.dep = d /\ p.via = "message" => Received(w, d)
    BY <1>1, <1>2 DEF Received, InHand, Busy
  <1>5. p.loop \in Busy
    BY <1>2 DEF Busy
  <1>6. \A d \in Deployments : AtWork(w, d) => d \in p.todo \/ p.dep = d
    BY <1>2 DEF AtWork, InHand
  <1>7. ~ (p.loop = "settle" /\ p.ok)
    BY <1>2
  <1> QED
    BY <1>1, <1>2, <1>3, <1>4, <1>5, <1>6, <1>7, QuietLoop

\* A message that is in the queue is in nobody's hand.
LEMMA NextMessageInv ==
  ASSUME IInv, NEW w \in Workers, NextMessage(w)
  PROVE  IInv'
  <1>1. PICK d \in Deployments :
          /\ message[d] = "ready"
          /\ message' = [message EXCEPT ![d] = "out"]
          /\ deliveries' = [deliveries EXCEPT ![d] = deliveries[d] + 1]
          /\ proc' = [proc EXCEPT ![w] = [proc[w] EXCEPT !.loop = "begin",
                                          !.via = "message", !.dep = d]]
    BY DEF NextMessage
  <1> DEFINE p == [proc[w] EXCEPT !.loop = "begin", !.via = "message", !.dep = d]
  <1>2. /\ proc[w] \in ProcStates /\ proc[w].loop = "next"
        /\ d # NoDeployment /\ deliveries[d] < MaxDeliver
        /\ \A v \in Workers : ~ Received(v, d)
        /\ UNCHANGED <<row, signals, inFlight>>
    BY <1>1, ShutdownAssumption DEF IInv, TypeOK, MessagesOK, NextMessage
  <1>3. /\ p \in ProcStates /\ p.main = proc[w].main /\ p.loop = "begin"
        /\ p.via = "message" /\ p.dep = d /\ p.todo = proc[w].todo
        /\ proc' = [proc EXCEPT ![w] = p]
    BY <1>1, <1>2 DEF ProcStates, Busy
  <1> HIDE DEF p
  <1>4. /\ proc' \in [Workers -> ProcStates]
        /\ \A v \in Workers : proc'[v].loop \in Busy => proc'[v].dep # NoDeployment
        /\ proc'[w] = p
        /\ \A v \in Workers : v # w => proc'[v] = proc[v]
    BY <1>2, <1>3 DEF IInv, TypeOK
  <1>5. TypeOK'
    <2>1. /\ message' \in [Deployments -> {"none", "ready", "out", "done"}]
          /\ deliveries' \in [Deployments -> 0..MaxDeliver]
      BY <1>1, <1>2, ShutdownAssumption DEF IInv, TypeOK
    <2> QED
      BY <1>2, <1>4, <2>1 DEF IInv, TypeOK
  <1>6. \A e \in Deployments : e # d => message'[e] = message[e] /\ deliveries'[e] = deliveries[e]
    BY <1>1 DEF IInv, TypeOK
  <1>7. message'[d] = "out"
    BY <1>1 DEF IInv, TypeOK
  <1>8. MessagesOK'
    <2>1. \A v \in Workers, e \in Deployments :
            Received(v, e)' => (v = w /\ e = d) \/ (v # w /\ e # d /\ Received(v, e))
      BY <1>2, <1>3, <1>4 DEF Received, InHand
    <2>2. row[d] # "none"
      BY <1>1 DEF IInv, MessagesOK
    <2> QED
      BY <1>2, <1>6, <1>7, <2>1, <2>2 DEF IInv, MessagesOK
  <1>9. Covered'
    <2>1. AllUp' => AllUp
      BY <1>3, <1>4 DEF AllUp
    <2>2. AtWork(w, d)'
      BY <1>3, <1>4 DEF AtWork, InHand, Busy
    <2>3. \A v \in Workers, e \in Deployments : AtWork(v, e) => AtWork(v, e)'
      <3>1. \A e \in Deployments : AtWork(w, e) => e \in proc[w].todo
        BY <1>2 DEF AtWork, InHand, Busy
      <3> QED
        BY <1>3, <1>4, <3>1 DEF AtWork, InHand
    <2> QED
      BY <1>2, <1>6, <2>1, <2>2, <2>3 DEF IInv, Covered
  <1> QED
    BY <1>5, <1>8, <1>9 DEF IInv

LEMMA BeginInv ==
  ASSUME IInv, NEW w \in Workers, Begin(w)
  PROVE  IInv'
  <1> DEFINE p == [proc[w] EXCEPT !.loop = "execute"]
  <1>1. /\ proc[w] \in ProcStates /\ proc[w].loop = "begin"
        /\ proc[w].dep # NoDeployment
        /\ UNCHANGED <<message, deliveries, signals, inFlight>>
    BY DEF IInv, TypeOK, Begin, Busy
  <1>2. PICK d \in Deployments : d = proc[w].dep
    BY <1>1 DEF ProcStates
  <1>3. /\ p \in ProcStates /\ p.main = proc[w].main /\ p.loop = "execute"
        /\ p.via = proc[w].via /\ p.dep = d /\ p.todo = proc[w].todo
        /\ proc' = [proc EXCEPT ![w] = p]
    BY <1>1, <1>2 DEF ProcStates, Busy, Begin
  <1>4. /\ row' \in [Deployments -> {"none", "active", "running", "failed"}]
        /\ \A e \in Deployments : row'[e] = "none" <=> row[e] = "none"
        /\ \A e \in Deployments : e # d => row'[e] = row[e]
    BY <1>2 DEF Begin, Write, IInv, TypeOK
  <1> HIDE DEF p
  <1>5. /\ proc' \in [Workers -> ProcStates]
        /\ \A v \in Workers : proc'[v].loop \in Busy => proc'[v].dep # NoDeployment
        /\ proc'[w] = p
        /\ \A v \in Workers : v # w => proc'[v] = proc[v]
    BY <1>1, <1>2, <1>3 DEF IInv, TypeOK
  <1>6. TypeOK'
    BY <1>1, <1>4, <1>5 DEF IInv, TypeOK
  <1>7. \A v \in Workers, e \in Deployments : Received(v, e)' => Received(v, e)
    BY <1>1, <1>2, <1>3, <1>5 DEF Received, InHand, Busy
  <1>8. MessagesOK'
    BY <1>1, <1>4, <1>7 DEF IInv, MessagesOK
  <1>9. Covered'
    <2>1. AllUp' => AllUp
      BY <1>3, <1>5 DEF AllUp
    <2>2. AtWork(w, d)'
      BY <1>3, <1>5 DEF AtWork, InHand, Busy
    <2>3. \A v \in Workers, e \in Deployments : AtWork(v, e) => AtWork(v, e)'
      BY <1>1, <1>2, <1>3, <1>5 DEF AtWork, InHand, Busy
    <2> QED
      BY <1>1, <1>4, <2>1, <2>2, <2>3 DEF IInv, Covered
  <1> QED
    BY <1>6, <1>8, <1>9 DEF IInv

\* Nothing is left to do for a row that a process that is up has reported.
LEMMA ReportInv ==
  ASSUME IInv, NEW w \in Workers, Report(w)
  PROVE  IInv'
  <1> DEFINE p == [proc[w] EXCEPT !.loop = "settle", !.ok = TRUE]
  <1>1. /\ proc[w] \in ProcStates /\ proc[w].loop = "report"
        /\ proc[w].dep # NoDeployment
        /\ UNCHANGED <<message, deliveries, signals, inFlight>>
    BY DEF IInv, TypeOK, Report, Busy
  <1>2. PICK d \in Deployments : d = proc[w].dep
    BY <1>1 DEF ProcStates
  <1>3. /\ p \in ProcStates /\ p.main = proc[w].main /\ p.loop = "settle"
        /\ p.via = proc[w].via /\ p.dep = d /\ p.todo = proc[w].todo
        /\ proc' = [proc EXCEPT ![w] = p]
    BY <1>1, <1>2 DEF ProcStates, Busy, Report
  <1>4. /\ row' \in [Deployments -> {"none", "active", "running", "failed"}]
        /\ \A e \in Deployments : row'[e] = "none" <=> row[e] = "none"
        /\ \A e \in Deployments : e # d => row'[e] = row[e]
        /\ ~ Cancelled(w) => row'[d] # "active"
    BY <1>2 DEF Report, Write, IInv, TypeOK
  <1> HIDE DEF p
  <1>5. /\ proc' \in [Workers -> ProcStates]
        /\ \A v \in Workers : proc'[v].loop \in Busy => proc'[v].dep # NoDeployment
        /\ proc'[w] = p
        /\ \A v \in Workers : v # w => proc'[v] = proc[v]
    BY <1>1, <1>2, <1>3 DEF IInv, TypeOK
  <1>6. TypeOK'
    BY <1>1, <1>4, <1>5 DEF IInv, TypeOK
  <1>7. \A v \in Workers, e \in Deployments : Received(v, e)' => Received(v, e)
    BY <1>1, <1>2, <1>3, <1>5 DEF Received, InHand, Busy
  <1>8. MessagesOK'
    BY <1>1, <1>4, <1>7 DEF IInv, MessagesOK
  <1>9. Covered'
    <2>1. AllUp' => AllUp /\ ~ Cancelled(w)
      BY <1>3, <1>5 DEF AllUp, Cancelled
    <2>2. \A v \in Workers, e \in Deployments : e # d /\ AtWork(v, e) => AtWork(v, e)'
      BY <1>2, <1>3, <1>5 DEF AtWork, InHand
    <2> QED
      BY <1>1, <1>4, <2>1, <2>2 DEF IInv, Covered
  <1> QED
    BY <1>6, <1>8, <1>9 DEF IInv

\* A process that is up and has failed gives the message back or the
\* deployment up.
LEMMA SettleInv ==
  ASSUME IInv, NEW w \in Workers, Settle(w)
  PROVE  IInv'
  <1> DEFINE p == [proc[w] EXCEPT !.loop = IF proc[w].via = "sweep" THEN "sweep" ELSE "next",
                                  !.dep = NoDeployment]
  <1>1. /\ proc[w] \in ProcStates /\ proc[w].loop = "settle"
        /\ proc[w].dep # NoDeployment
        /\ UNCHANGED <<deliveries, signals, inFlight>>
    BY DEF IInv, TypeOK, Settle, Busy
  <1>2. PICK d \in Deployments : d = proc[w].dep
    BY <1>1 DEF ProcStates
  <1>3. /\ p \in ProcStates /\ p.main = proc[w].main /\ p.loop \in {"sweep", "next"}
        /\ p.todo = proc[w].todo
        /\ proc' = [proc EXCEPT ![w] = p]
    <2>1. p \in ProcStates /\ p.main = proc[w].main /\ p.todo = proc[w].todo
          /\ p.loop \in {"sweep", "next"}
      BY <1>1 DEF ProcStates, Busy
    <2>2. proc' = [proc EXCEPT ![w] = p]
      BY <1>1 DEF Settle
    <2> QED
      BY <2>1, <2>2
  <1> DEFINE final == ~ proc[w].ok /\ (proc[w].via = "sweep" \/ deliveries[d] >= MaxDeliver)
  <1>4. IF final THEN Write(w, d, "failed") ELSE UNCHANGED row
    BY <1>2 DEF Settle
  <1>5. /\ row' \in [Deployments -> {"none", "active", "running", "failed"}]
        /\ \A e \in Deployments : row'[e] = "none" <=> row[e] = "none"
        /\ \A e \in Deployments : e # d => row'[e] = row[e]
        /\ final /\ ~ Cancelled(w) => row'[d] # "active"
        /\ \A e \in Deployments : row'[e] = "active" => row[e] = "active"
    <2> HIDE DEF final
    <2>1. CASE final
      BY <1>4, <2>1 DEF Write, IInv, TypeOK
    <2>2. CASE ~ final
      BY <1>4, <2>2 DEF IInv, TypeOK
    <2> QED
      BY <2>1, <2>2
  <1>6. Received(w, d) <=> proc[w].via = "message"
    BY <1>1, <1>2 DEF Received, InHand, Busy
  <1>7. /\ message' \in [Deployments -> {"none", "ready", "out", "done"}]
        /\ \A e \in Deployments : e # d => message'[e] = message[e]
        /\ proc[w].via # "message" => message'[d] = message[d]
        /\ proc[w].via = "message" =>
             IF proc[w].ok \/ final THEN message'[d] = "done" ELSE message'[d] = "ready"
    <2>1. proc[w].via = "message" => message[d] = "out"
      BY <1>6 DEF IInv, MessagesOK
    <2>2. message' = IF proc[w].via = "message" /\ message[d] = "out"
                     THEN [message EXCEPT ![d] = IF proc[w].ok \/ final THEN "done" ELSE "ready"]
                     ELSE message
      BY <1>2 DEF Settle
    <2> HIDE DEF final
    <2> QED
      BY <2>1, <2>2 DEF IInv, TypeOK
  <1> HIDE DEF p
  <1>8. /\ proc' \in [Workers -> ProcStates]
        /\ \A v \in Workers : proc'[v].loop \in Busy => proc'[v].dep # NoDeployment
        /\ proc'[w] = p
        /\ p.loop \notin Busy
        /\ \A v \in Workers : v # w => proc'[v] = proc[v]
    BY <1>1, <1>3 DEF IInv, TypeOK, Busy
  <1>9. TypeOK'
    BY <1>1, <1>5, <1>7, <1>8 DEF IInv, TypeOK
  <1>10. MessagesOK'
    <2>1. \A v \in Workers, e \in Deployments : Received(v, e)' => v # w /\ Received(v, e)
      BY <1>8 DEF Received, InHand
    <2>2. \A v \in Workers : ~ (proc[w].via = "message" /\ Received(v, d)')
      BY <1>6, <2>1 DEF IInv, MessagesOK
    <2>3. message'[d] = "ready" => deliveries[d] < MaxDeliver
      <3>1. deliveries[d] \in Nat /\ MaxDeliver \in Nat
        BY ShutdownAssumption DEF IInv, TypeOK
      <3>2. CASE proc[w].via = "message"
        BY <1>7, <3>1, <3>2
      <3>3. CASE proc[w].via # "message"
        BY <1>7, <3>3 DEF IInv, MessagesOK
      <3> QED
        BY <3>2, <3>3
    <2>4. message'[d] = "none" => message[d] = "none"
      BY <1>7
    <2>5. row[d] = "none" => proc[w].via # "message"
      BY <1>6 DEF IInv, MessagesOK
    <2>6. \A e \in Deployments :
            /\ row'[e] = "none" => message'[e] = "none"
            /\ message'[e] = "none" => deliveries[e] = 0
            /\ message'[e] = "ready" => deliveries[e] < MaxDeliver
      BY <1>5, <1>7, <2>3, <2>4, <2>5 DEF IInv, MessagesOK
    <2>7. \A e \in Deployments, v \in Workers :
            Received(v, e)' => message'[e] = "out" /\ \A u \in Workers : Received(u, e)' => u = v
      <3>1. \A e \in Deployments, v \in Workers :
              Received(v, e) => message[e] = "out" /\ \A u \in Workers : Received(u, e) => u = v
        BY DEF IInv, MessagesOK
      <3>2. \A e \in Deployments, v \in Workers : Received(v, e)' => message'[e] = message[e]
        BY <1>7, <2>2
      <3> QED
        BY <2>1, <3>1, <3>2
    <2> QED
      BY <1>1, <2>6, <2>7 DEF MessagesOK
  <1>11. Covered'
    <2> SUFFICES ASSUME AllUp', NEW e \in Deployments, row'[e] = "active"
                 PROVE  message'[e] = "ready" \/ \E v \in Workers : AtWork(v, e)'
      BY DEF Covered
    <2>1. AllUp /\ ~ Cancelled(w)
      BY <1>3, <1>8 DEF AllUp, Cancelled
    <2>2. message[e] = "ready" \/ \E v \in Workers : AtWork(v, e)
      BY <1>5, <2>1 DEF IInv, Covered
    <2>3. \A v \in Workers : v # w /\ AtWork(v, e) => AtWork(v, e)'
      BY <1>8 DEF AtWork, InHand
    <2>4. CASE message[e] = "ready"
      <3>1. message'[e] = "ready"
        <4>1. e = d => proc[w].via # "message"
          BY <1>6, <2>4 DEF IInv, MessagesOK
        <4> QED
          BY <1>7, <2>4, <4>1
      <3> QED
        BY <3>1
    <2>5. CASE AtWork(w, e)
      <3>1. CASE e \in proc[w].todo
        BY <1>3, <1>8, <3>1 DEF AtWork
      <3>2. CASE e = d /\ ~ proc[w].ok
        <4>1. ~ final
          BY <1>5, <2>1, <3>2
        <4>2. proc[w].via = "message"
          BY <1>1, <3>2, <4>1 DEF ProcStates
        <4>3. message'[e] = "ready"
          BY <1>7, <3>2, <4>1, <4>2
        <4> QED
          BY <4>3
      <3> QED
        BY <1>1, <1>2, <2>5, <3>1, <3>2 DEF AtWork, InHand
    <2> QED
      BY <2>2, <2>3, <2>4, <2>5
  <1> QED
    BY <1>9, <1>10, <1>11 DEF IInv

\* A process that stops will sweep when it starts again.
LEMMA SignalInv ==
  ASSUME IInv, NEW w \in Workers, Signal(w)
  PROVE  IInv'
  <1> DEFINE p == [proc[w] EXCEPT !.main = "draining"]
  <1>1. /\ proc[w] \in ProcStates
        /\ proc[w].loop \in Busy => proc[w].dep # NoDeployment
        /\ UNCHANGED <<row, message, deliveries>>
    BY DEF IInv, TypeOK, Signal
  <1>2. /\ p \in ProcStates /\ p.main = "draining" /\ p.loop = proc[w].loop
        /\ p.via = proc[w].via /\ p.dep = proc[w].dep
        /\ proc' = [proc EXCEPT ![w] = p]
    BY <1>1 DEF ProcStates, Signal
  <1> HIDE DEF p
  <1>3. /\ proc' \in [Workers -> ProcStates]
        /\ \A v \in Workers : proc'[v].loop \in Busy => proc'[v].dep # NoDeployment
        /\ proc'[w] = p
        /\ \A v \in Workers : v # w => proc'[v] = proc[v]
    BY <1>1, <1>2 DEF IInv, TypeOK
  <1>4. signals' \in 0..MaxSignals
    BY ShutdownAssumption DEF IInv, TypeOK, Signal
  <1>5. inFlight' \in [Workers -> SUBSET Deployments]
    <2>1. (IF proc[w].loop \in Busy THEN {proc[w].dep} ELSE {}) \in SUBSET Deployments
      BY <1>1 DEF ProcStates
    <2> QED
      BY <2>1 DEF IInv, TypeOK, Signal
  <1>6. TypeOK'
    BY <1>1, <1>3, <1>4, <1>5 DEF IInv, TypeOK
  <1>7. MessagesOK'
    <2>1. \A v \in Workers, d \in Deployments : Received(v, d)' => Received(v, d)
      BY <1>2, <1>3 DEF Received, InHand
    <2> QED
      BY <1>1, <2>1 DEF IInv, MessagesOK
  <1>8. Covered'
    BY <1>2, <1>3 DEF Covered, AllUp
  <1> QED
    BY <1>6, <1>7, <1>8 DEF IInv

LEMMA ExitInv ==
  ASSUME IInv, NEW w \in Workers, Exit(w)
  PROVE  IInv'
  <1> DEFINE p == [Fresh EXCEPT !.main = "down"]
  <1>1. /\ p \in ProcStates /\ p.main = "down" /\ p.loop = "stopped"
        /\ proc' = [proc EXCEPT ![w] = p]
    BY DEF Fresh, ProcStates, Exit
  <1> HIDE DEF p
  <1>2. /\ proc' \in [Workers -> ProcStates]
        /\ \A v \in Workers : proc'[v].loop \in Busy => proc'[v].dep # NoDeployment
        /\ proc'[w] = p
        /\ p.loop \notin Busy
        /\ \A v \in Workers : v # w => proc'[v] = proc[v]
    BY <1>1 DEF IInv, TypeOK, Busy
  <1>3. UNCHANGED <<row, message, deliveries, signals, inFlight>>
    BY DEF Exit
  <1>4. TypeOK'
    BY <1>2, <1>3 DEF IInv, TypeOK
  <1>5. MessagesOK'
    <2>1. \A v \in Workers, d \in Deployments : Received(v, d)' => Received(v, d)
      BY <1>2 DEF Received, InHand
    <2> QED
      BY <1>3, <2>1 DEF IInv, MessagesOK
  <1>6. Covered'
    BY <1>1, <1>2 DEF Covered, AllUp
  <1> QED
    BY <1>4, <1>5, <1>6 DEF IInv

-----------------------------------------------------------------------------
(* The theorems. *)

LEMMA StutterInv ==
  ASSUME IInv, UNCHANGED vars
  PROVE  IInv'
  BY DEF vars, IInv, TypeOK, MessagesOK, Received, InHand, Covered, AllUp, AtWork

LEMMA NextInv ==
  ASSUME IInv, [Next]_vars
  PROVE  IInv'
  <1>1. CASE UNCHANGED vars
    BY <1>1, StutterInv
  <1>2. CASE \E d \in Deployments : Request(d) \/ AckWaitExpires(d)
    BY <1>2, RequestInv, AckWaitExpiresInv
  <1>3. CASE \E w \in Workers : Start(w) \/ Loop(w) \/ Signal(w) \/ Exit(w)
    <2> SUFFICES ASSUME NEW w \in Workers, Start(w) \/ Loop(w) \/ Signal(w) \/ Exit(w)
                 PROVE  IInv'
      BY <1>3
    <2>1. CASE Start(w)
      BY <2>1, StartInv
    <2>2. CASE SweepNext(w) \/ SweepDone(w) \/ NextMessage(w) \/ NextError(w)
      BY <2>2, SweepNextInv, SweepDoneInv, NextMessageInv, NextErrorInv
    <2>3. CASE Begin(w) \/ Execute(w) \/ Report(w) \/ Settle(w)
      BY <2>3, BeginInv, ExecuteInv, ReportInv, SettleInv
    <2>4. CASE Signal(w)
      BY <2>4, SignalInv
    <2>5. CASE Exit(w)
      BY <2>5, ExitInv
    <2> QED
      BY <2>1, <2>2, <2>3, <2>4, <2>5 DEF Loop
  <1> QED
    BY <1>1, <1>2, <1>3 DEF Next

\* Rows, messages and processes keep their form, and no message is delivered
\* more than MaxDeliver times (consumer.Next, Nak and the ack wait).
THEOREM TypeCorrect == Spec => []TypeOK
  <1>1. Init => IInv
    BY InitInv
  <1>2. IInv /\ [Next]_vars => IInv'
    BY NextInv
  <1>3. IInv => TypeOK
    BY DEF IInv
  <1> QED
    BY <1>1, <1>2, <1>3, PTL DEF Spec

\* Where every stopped process starts again, no deployment is left "active"
\* with no message, no process and no sweep to come for it: however many
\* signals interrupt executeDeploy, whether or not five seconds are enough.
THEOREM Unstranded ==
  ASSUME Restarts
  PROVE  Spec => []NoneStranded
  <1>1. Init => IInv
    BY InitInv
  <1>2. IInv /\ [Next]_vars => IInv'
    BY NextInv
  <1>3. IInv => NoneStranded
    <2> SUFFICES ASSUME IInv, NEW d \in Deployments, row[d] = "active", ~ SweepToCome
                 PROVE  TakenUp(d)
      BY DEF NoneStranded, TakenUp
    <2>1. AllUp
      BY DEF SweepToCome, AllUp
    <2>2. message[d] = "ready" \/ \E w \in Workers : AtWork(w, d)
      BY <2>1 DEF IInv, Covered
    <2> QED
      BY <2>2 DEF TakenUp, AtWork, InHand
  <1> QED
    BY <1>1, <1>2, <1>3, PTL DEF Spec
=============================================================================
