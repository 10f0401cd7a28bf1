-------------------------- MODULE ApiShutdownProofs --------------------------
(***************************************************************************)
(* The log tail and the stop of an API process, for any lines, tails,      *)
(* requests, timeout and grace.                                            *)
(*                                                                         *)
(* The tail: what was sent lies before the window that comes next, so that *)
(* no later window finds it, and what reached Loki in time and is neither  *)
(* sent nor missed lies in a window that is still to come.                 *)
(*                                                                         *)
(* The stop: past the drain either everybody was done, and nobody comes    *)
(* any more, or the timeout is over, and whoever is still at it began no   *)
(* later than NewGrace after the signal.                                   *)
(***************************************************************************)
EXTENDS ApiShutdown, TLAPS

-----------------------------------------------------------------------------
(* The log tail. *)

WindowsOrdered ==
  \A t \in Tails :
    tail[t].pc = "query" => tail[t].since <= tail[t].till

SentBefore ==
  \A t \in Tails, l \in Lines :
    /\ shown[t][l] \in {0, 1}
    /\ shown[t][l] = 1 => l \in stored /\ written[l] < tail[t].since /\ tail[t].pc # "new"

TInv ==
  /\ TailTypeOK
  /\ WindowsOrdered
  /\ SentBefore
  /\ PromptShown

LEMMA TailFacts == Prime \in Nat /\ MaxTime \in Nat /\ Unwritten \in Int /\ Unwritten < 0
  BY TailAssumption DEF Unwritten

LEMMA TInvInit == TailInit => TInv
<1> SUFFICES ASSUME TailInit PROVE TInv
  OBVIOUS
<1>1. \A t \in Tails : tail[t] = [pc |-> "new", from |-> 0, since |-> 0, till |-> 0]
  BY DEF TailInit, NoTail
<1>2. 0 \in Times
  BY TailFacts DEF Times, TailInit
<1>3. TailTypeOK
  BY <1>1, <1>2, TailFacts DEF TailInit, TailTypeOK, NoTail
<1> QED
  BY <1>1, <1>3 DEF TailInit, TInv, WindowsOrdered, SentBefore, PromptShown

LEMMA TickKeeps ==
  ASSUME TInv, Tick
  PROVE  TInv'
<1>1. /\ now \in 0..MaxTime /\ now' \in 0..MaxTime /\ now <= now'
      /\ UNCHANGED <<written, stored, prompt, tail, shown, missed>>
  BY TailFacts DEF TInv, TailTypeOK, Tick, logs
<1>2. Times \subseteq Times' /\ 0..now \subseteq 0..now'
  BY <1>1, TailFacts DEF Times
<1>3. TailTypeOK'
  BY <1>1, <1>2 DEF TInv, TailTypeOK
<1> QED
  BY <1>1, <1>3 DEF TInv, WindowsOrdered, SentBefore, PromptShown

LEMMA WriteKeeps ==
  ASSUME TInv, NEW l \in Lines, Write(l)
  PROVE  TInv'
<1>1. /\ written[l] = Unwritten /\ written' = [written EXCEPT ![l] = now]
      /\ UNCHANGED <<now, stored, prompt, tail, shown, missed>>
  BY DEF Write
<1>2. l \notin stored /\ l \notin prompt /\ now \in 0..now /\ now # Unwritten
  BY <1>1, TailFacts DEF TInv, TailTypeOK
<1>3. TailTypeOK'
  BY <1>1, <1>2 DEF TInv, TailTypeOK, Times
<1> QED
  BY <1>1, <1>2, <1>3 DEF TInv, TailTypeOK, WindowsOrdered, SentBefore, PromptShown

LEMMA StoreKeeps ==
  ASSUME TInv, NEW l \in Lines, Store(l)
  PROVE  TInv'
<1>1. /\ written[l] # Unwritten /\ stored' = stored \cup {l}
      /\ prompt' = IF l \notin stored /\ written[l] = now THEN prompt \cup {l} ELSE prompt
      /\ UNCHANGED <<now, written, tail, shown, missed>>
  BY DEF Store
<1>2. TailTypeOK'
  BY <1>1 DEF TInv, TailTypeOK, Times
<1>3. PromptShown'
  <2> SUFFICES ASSUME NEW t \in Tails, NEW m \in prompt',
                      tail[t].from <= written[m], written[m] < tail[t].since
               PROVE  shown[t][m] > 0 \/ m \in missed[t]
    BY <1>1 DEF PromptShown
  <2>1. CASE m \in prompt
    BY <2>1 DEF TInv, PromptShown
  <2>2. CASE m \notin prompt
    <3>1. written[m] = now
      BY <1>1, <2>2
    <3>2. tail[t].since <= now /\ tail[t].since \in Int /\ now \in Int
      BY TailFacts DEF TInv, TailTypeOK, Times
    <3> QED
      BY <3>1, <3>2
  <2> QED
    BY <2>1, <2>2
<1> QED
  BY <1>1, <1>2, <1>3 DEF TInv, WindowsOrdered, SentBefore

LEMMA OpenKeeps ==
  ASSUME TInv, NEW t \in Tails, Open(t)
  PROVE  TInv'
<1>1. tail[t].pc = "new" /\ UNCHANGED <<now, written, stored, prompt, shown, missed>>
  BY DEF Open, logs
<1>2. now \in Nat /\ now - Prime \in Times /\ 0 \in Times
  BY TailFacts DEF TInv, TailTypeOK, Times
<1>3. TailTypeOK'
  <2>1. [NoTail EXCEPT !.pc = "wait", !.from = now - Prime, !.since = now - Prime]
          \in [pc : {"new", "wait", "query", "closed"}, from : Times, since : Times, till : Times]
    BY <1>2 DEF NoTail
  <2> QED
    BY <1>1, <2>1 DEF TInv, TailTypeOK, Times, Open
<1>4. \A m \in Lines : shown[t][m] = 0
  BY <1>1 DEF TInv, SentBefore
<1>5. /\ tail'[t].pc = "wait" /\ tail'[t].from = now - Prime /\ tail'[t].since = now - Prime
      /\ \A v \in Tails \ {t} : tail'[v] = tail[v]
  BY DEF TInv, TailTypeOK, Open, NoTail
<1>6. WindowsOrdered' /\ SentBefore'
  BY <1>1, <1>4, <1>5 DEF TInv, WindowsOrdered, SentBefore
<1>7. PromptShown'
  <2>1. \A m \in prompt : written[m] \in Int
    BY TailFacts DEF TInv, TailTypeOK
  <2> QED
    BY <1>1, <1>2, <1>5, <2>1, TailFacts DEF TInv, PromptShown
<1> QED
  BY <1>3, <1>6, <1>7 DEF TInv

LEMMA AskKeeps ==
  ASSUME TInv, NEW t \in Tails, Ask(t)
  PROVE  TInv'
<1>1. /\ tail[t].pc = "wait"
      /\ tail' = [tail EXCEPT ![t] = [tail[t] EXCEPT !.pc = "query", !.till = now]]
      /\ UNCHANGED <<now, written, stored, prompt, shown, missed>>
  BY DEF Ask, logs, TInv, TailTypeOK
<1>2. now \in Times /\ now \in Nat /\ tail[t].since \in Times
  BY TailFacts DEF TInv, TailTypeOK, Times
<1>3. TailTypeOK'
  BY <1>1, <1>2 DEF TInv, TailTypeOK, Times
<1>4. /\ tail'[t].from = tail[t].from /\ tail'[t].since = tail[t].since
      /\ tail'[t].till = now /\ tail'[t].pc = "query"
      /\ \A v \in Tails \ {t} : tail'[v] = tail[v]
  BY <1>1 DEF TInv, TailTypeOK
<1> QED
  BY <1>1, <1>2, <1>3, <1>4, TailFacts
     DEF TInv, WindowsOrdered, SentBefore, PromptShown, Times

LEMMA AdvanceEffect ==
  ASSUME TInv, NEW t \in Tails, tail[t].pc = "query", Advance(t)
  PROVE  /\ tail'[t].from = tail[t].from /\ tail'[t].since = tail[t].till
         /\ tail'[t].pc = "wait" /\ tail'[t].till = tail[t].till
         /\ \A v \in Tails \ {t} : tail'[v] = tail[v]
         /\ tail' \in [Tails -> [pc : {"new", "wait", "query", "closed"}, from : Times,
                                 since : Times, till : Times]]
  BY DEF Advance, TInv, TailTypeOK

\* What is sent or missed at the end of a window: the rest was before it or is
\* still to come.
LEMMA WindowKeeps ==
  ASSUME TInv, NEW t \in Tails, tail[t].pc = "query", Advance(t),
         NEW lines \in SUBSET (Window(t) \cap stored),
         shown' = [shown EXCEPT ![t] = [l \in Lines |-> IF l \in lines THEN shown[t][l] + 1 ELSE shown[t][l]]],
         NEW rest \in SUBSET Lines, (Window(t) \cap stored) \ lines \subseteq rest,
         missed' = [missed EXCEPT ![t] = missed[t] \cup rest],
         UNCHANGED <<now, written, stored, prompt>>
  PROVE  TInv'
<1>1. /\ tail'[t].from = tail[t].from /\ tail'[t].since = tail[t].till
      /\ tail'[t].pc = "wait" /\ tail'[t].till = tail[t].till
      /\ \A v \in Tails \ {t} : tail'[v] = tail[v]
      /\ tail' \in [Tails -> [pc : {"new", "wait", "query", "closed"}, from : Times,
                              since : Times, till : Times]]
  BY AdvanceEffect
<1>2. /\ tail[t].since \in Int /\ tail[t].till \in Int /\ tail[t].since <= tail[t].till
      /\ \A l \in Lines : written[l] \in Int /\ shown[t][l] \in {0, 1}
  BY TailFacts DEF TInv, TailTypeOK, Times, WindowsOrdered, SentBefore
<1>3. \A l \in lines : /\ l \in Lines /\ l \in stored /\ shown[t][l] = 0
                       /\ tail[t].since <= written[l] /\ written[l] < tail[t].till
  BY <1>2 DEF Window, TInv, SentBefore
<1>4. \A l \in Lines : shown'[t][l] = IF l \in lines THEN 1 ELSE shown[t][l]
  BY <1>3 DEF TInv, TailTypeOK
<1>5. \A v \in Tails \ {t} : shown'[v] = shown[v] /\ missed'[v] = missed[v]
  BY DEF TInv, TailTypeOK
<1>6. TailTypeOK'
  <2>1. [l \in Lines |-> IF l \in lines THEN shown[t][l] + 1 ELSE shown[t][l]] \in [Lines -> Nat]
    BY <1>2
  <2>2. shown' \in [Tails -> [Lines -> Nat]] /\ missed' \in [Tails -> SUBSET Lines]
    BY <2>1 DEF TInv, TailTypeOK
  <2> QED
    BY <2>2, <1>1 DEF TInv, TailTypeOK, Times
<1>7. WindowsOrdered'
  BY <1>1 DEF TInv, WindowsOrdered
<1>8. SentBefore'
  BY <1>1, <1>2, <1>3, <1>4, <1>5 DEF TInv, SentBefore
<1>9. PromptShown'
  <2>1. ASSUME NEW l \in prompt, tail[t].from <= written[l], written[l] < tail[t].till
        PROVE  shown'[t][l] > 0 \/ l \in missed'[t]
    <3>1. l \in Lines /\ l \in stored
      BY DEF TInv, TailTypeOK
    <3>2. missed'[t] = missed[t] \cup rest
      BY DEF TInv, TailTypeOK
    <3>3. CASE written[l] < tail[t].since
      BY <2>1, <3>1, <3>2, <3>3, <1>2, <1>4 DEF TInv, PromptShown
    <3>4. CASE tail[t].since <= written[l]
      BY <2>1, <3>1, <3>2, <3>4, <1>4 DEF Window
    <3> QED
      BY <3>1, <3>3, <3>4, <1>2
  <2> QED
    BY <2>1, <1>1, <1>5 DEF TInv, PromptShown
<1> QED
  BY <1>6, <1>7, <1>8, <1>9 DEF TInv

LEMMA AnswerKeeps ==
  ASSUME TInv, NEW t \in Tails, Answer(t) \/ AnswerFails(t)
  PROVE  TInv'
<1>1. shown \in [Tails -> [Lines -> Nat]] /\ missed \in [Tails -> SUBSET Lines]
  BY DEF TInv, TailTypeOK
<1>2. CASE Answer(t)
  <2>1. PICK lines \in SUBSET (Window(t) \cap stored) :
          /\ shown' = [shown EXCEPT ![t] = [l \in Lines |-> IF l \in lines THEN @[l] + 1 ELSE @[l]]]
          /\ missed' = [missed EXCEPT ![t] = @ \cup ((Window(t) \cap stored) \ lines)]
    BY <1>2 DEF Answer
  <2>2. /\ shown' = [shown EXCEPT ![t] = [l \in Lines |-> IF l \in lines THEN shown[t][l] + 1 ELSE shown[t][l]]]
        /\ missed' = [missed EXCEPT ![t] = missed[t] \cup ((Window(t) \cap stored) \ lines)]
    BY <2>1, <1>1
  <2>3. (Window(t) \cap stored) \ lines \in SUBSET Lines
    BY DEF Window
  <2> QED
    BY <1>2, <2>2, <2>3, WindowKeeps DEF Answer, logs
<1>3. CASE AnswerFails(t)
  <2>1. /\ shown' = [shown EXCEPT ![t] = [l \in Lines |-> IF l \in {} THEN shown[t][l] + 1 ELSE shown[t][l]]]
        /\ missed' = [missed EXCEPT ![t] = missed[t] \cup Window(t)]
    BY <1>3, <1>1 DEF AnswerFails
  <2>2. Window(t) \in SUBSET Lines
    BY DEF Window
  <2>3. {} \in SUBSET (Window(t) \cap stored) /\ (Window(t) \cap stored) \ {} \subseteq Window(t)
    OBVIOUS
  <2>4. tail[t].pc = "query" /\ Advance(t) /\ UNCHANGED <<now, written, stored, prompt>>
    BY <1>3 DEF AnswerFails, logs
  <2> QED
    BY <2>1, <2>2, <2>3, <2>4, WindowKeeps
<1> QED
  BY <1>2, <1>3

\* Whoever closes tails leaves the windows of all of them alone.
LEMMA ClosingKeeps ==
  ASSUME TInv, NEW closing \in SUBSET Tails,
         tail' = [t \in Tails |-> IF t \in closing THEN [tail[t] EXCEPT !.pc = "closed"] ELSE tail[t]],
         UNCHANGED <<now, written, stored, prompt, shown, missed>>
  PROVE  TInv'
<1>1. \A t \in Tails : /\ tail'[t].from = tail[t].from /\ tail'[t].since = tail[t].since
                       /\ tail'[t].till = tail[t].till
                       /\ tail'[t].pc = tail[t].pc \/ tail'[t].pc = "closed"
  BY DEF TInv, TailTypeOK
<1>2. TailTypeOK'
  BY DEF TInv, TailTypeOK, Times
<1> QED
  BY <1>1, <1>2 DEF TInv, WindowsOrdered, SentBefore, PromptShown

LEMMA TailingKeeps ==
  ASSUME TInv, NEW t \in Tails, Tailing(t)
  PROVE  TInv'
<1>1. CASE Close(t)
  <2>1. tail' = [v \in Tails |-> IF v \in {t} THEN [tail[v] EXCEPT !.pc = "closed"] ELSE tail[v]]
    BY <1>1 DEF Close, TInv, TailTypeOK
  <2> QED
    BY <1>1, <2>1, ClosingKeeps DEF Close, logs
<1> QED
  BY <1>1, OpenKeeps, AskKeeps, AnswerKeeps DEF Tailing

-----------------------------------------------------------------------------
(* The stop. *)

Past == {"nats", "database", "exit", "exited"}

ProcessOK ==
  /\ main \in {"serving", "draining"} \cup Past
  /\ signalled \in 0..now
  /\ status \in {-1, 0, 1}
  /\ request \in [Requests -> [pc : Steps \cup {"none", "new", "closed"}, at : 0..now]]
  /\ row \in [Requests -> {"none", "queued", "failed"}]
  /\ gone \subseteq Requests
  /\ published \subseteq Requests
  /\ cut \in [Requests -> -1..now]

\* Once the signal has come: a connection without a request came before it, and
\* a request not long after it.
BegunInTime ==
  main # "serving" =>
    \A r \in Requests :
      /\ request[r].pc = "new" => request[r].at <= signalled
      /\ request[r].pc \in Steps => request[r].at <= signalled + NewGrace

\* Past the drain the timeout is over or nobody is left.
DrainedOrLate ==
  main \in Past => Deadline \/ Quiet

CutLate ==
  \A r \in Requests :
    cut[r] # -1 => main \in Past /\ Deadline /\ cut[r] >= Timeout - NewGrace

HInv ==
  /\ TInv
  /\ ProcessOK
  /\ BegunInTime
  /\ DrainedOrLate
  /\ CutLate
  /\ RowsAccounted

Rest == ProcessOK /\ BegunInTime /\ DrainedOrLate /\ CutLate /\ RowsAccounted

LEMMA ShutdownFacts ==
  /\ Timeout \in Nat \ {0} /\ NewGrace \in Nat /\ NewGrace <= Timeout
  BY ShutdownAssumption

LEMMA Numbers ==
  ASSUME HInv
  PROVE  /\ now \in Nat /\ signalled \in Nat /\ signalled <= now
         /\ \A r \in Requests : /\ request[r].at \in Nat /\ request[r].at <= now
                                /\ Ran(r) \in 0..now
                                /\ cut[r] \in Int
  BY TailFacts DEF HInv, TInv, TailTypeOK, ProcessOK, Ran

LEMMA HInvInit == ShutdownInit => HInv
<1> SUFFICES ASSUME ShutdownInit PROVE HInv
  OBVIOUS
<1>1. TInv /\ now = 0
  BY TInvInit DEF ShutdownInit, TailInit
<1>2. ProcessOK
  BY <1>1 DEF ShutdownInit, ProcessOK
<1> QED
  BY <1>1, <1>2 DEF ShutdownInit, HInv, BegunInTime, DrainedOrLate, CutLate, RowsAccounted, Past

\* The clock, the log and the tails: nobody past the drain opens a tail again.
LEMMA OutsideKeeps ==
  ASSUME HInv, UNCHANGED <<process, work>>, now' \in Nat, now <= now',
         Quiet /\ main # "serving" => Quiet'
  PROVE  Rest'
<1>1. /\ now \in Nat /\ signalled \in Nat /\ \A r \in Requests : request[r].at \in Nat
      /\ 0..now \subseteq 0..now' /\ -1..now \subseteq -1..now'
  BY Numbers
<1>2. UNCHANGED <<main, signalled, status, request, row, published, gone, cut>>
  BY DEF process, work
<1>3. ProcessOK'
  BY <1>1, <1>2 DEF HInv, ProcessOK
<1>4. BegunInTime' /\ RowsAccounted'
  BY <1>2 DEF HInv, BegunInTime, RowsAccounted, DatabaseOpen, NatsOpen
<1>5. Deadline => Deadline'
  BY <1>1, <1>2, ShutdownFacts DEF Deadline
<1>6. DrainedOrLate' /\ CutLate'
  BY <1>2, <1>5 DEF HInv, DrainedOrLate, CutLate, Past
<1> QED
  BY <1>3, <1>4, <1>6 DEF Rest

LEMMA TickShippingKeeps ==
  ASSUME HInv, (Tick \/ Shipping) /\ UNCHANGED <<process, work>>
  PROVE  HInv'
<1>1. TInv'
  BY TickKeeps, WriteKeeps, StoreKeeps DEF HInv, Shipping
<1>2. now' \in Nat /\ now <= now' /\ UNCHANGED tail
  BY Numbers DEF Tick, Shipping, Write, Store
<1>3. Quiet => Quiet'
  BY <1>2 DEF Quiet, work
<1> QED
  BY <1>1, <1>2, <1>3, OutsideKeeps DEF HInv, Rest

LEMMA TailedKeeps ==
  ASSUME HInv, NEW t \in Tails, Tailed(t)
  PROVE  HInv'
<1>1. TInv'
  BY TailingKeeps DEF HInv, Tailed
<1>2. now' = now /\ now \in Nat
  BY Numbers DEF Tailed, Tailing, Open, Ask, Answer, AnswerFails, Close
<1>3. ASSUME Quiet, main # "serving" PROVE Quiet'
  <2>1. tail[t].pc = "closed"
    BY <1>3 DEF Quiet, Tailed
  <2> QED
    BY <2>1 DEF Tailed, Tailing, Open, Ask, Answer, AnswerFails, Close
<1> QED
  BY <1>1, <1>2, <1>3, OutsideKeeps DEF HInv, Rest, Tailed

\* A request that is under way past the drain has outlived the timeout.
LEMMA LateWhenCut ==
  ASSUME HInv, main \in Past, NEW r \in Requests, request[r].pc \in Steps
  PROVE  Deadline /\ Ran(r) >= Timeout - NewGrace
<1>1. Deadline
  BY DEF HInv, DrainedOrLate, Quiet, Steps
<1>2. request[r].at <= signalled + NewGrace
  BY DEF HInv, BegunInTime, Past
<1> QED
  BY <1>1, <1>2, Numbers, ShutdownFacts DEF Deadline, Ran

\* What a step of a request leaves as it is.
LEMMA ServingKeeps ==
  ASSUME HInv, UNCHANGED <<tailVars, process>>, NEW r \in Requests,
         NEW pc \in Steps \cup {"closed"}, request' = [request EXCEPT ![r].pc = pc],
         request[r].pc \in Steps \/ pc = "closed",
         request[r].pc \notin {"none", "closed"},
         cut' = cut \/ (main \in Past /\ request[r].pc \in Steps /\ Cut(r)),
         row' \in [Requests -> {"none", "queued", "failed"}], published' \subseteq Requests,
         UNCHANGED gone, RowsAccounted'
  PROVE  HInv'
<1>1. /\ UNCHANGED <<now, written, stored, prompt, tail, shown, missed>>
      /\ UNCHANGED <<main, signalled, status>>
  BY DEF tailVars, logs, process
<1>2. TInv'
  BY <1>1 DEF HInv, TInv, TailTypeOK, Times, WindowsOrdered, SentBefore, PromptShown
<1>3. /\ \A q \in Requests : request'[q].at = request[q].at
      /\ request'[r].pc = pc
      /\ \A q \in Requests \ {r} : request'[q] = request[q]
      /\ request' \in [Requests -> [pc : Steps \cup {"none", "new", "closed"}, at : 0..now]]
  BY DEF HInv, ProcessOK
<1>4. cut' \in [Requests -> -1..now] /\ CutLate'
  <2>1. CASE cut' = cut
    BY <2>1, <1>1 DEF HInv, ProcessOK, CutLate, Deadline
  <2>2. CASE main \in Past /\ request[r].pc \in Steps /\ Cut(r)
    <3>1. Ran(r) \in -1..now /\ Deadline /\ Ran(r) >= Timeout - NewGrace
      BY <2>2, Numbers, LateWhenCut
    <3>2. cut' \in [Requests -> -1..now]
      BY <2>2, <3>1 DEF HInv, ProcessOK, Cut
    <3>3. \A q \in Requests : cut'[q] = cut[q] \/ (q = r /\ cut'[q] = Ran(r))
      BY <2>2 DEF HInv, ProcessOK, Cut
    <3> QED
      BY <2>2, <3>1, <3>2, <3>3, <1>1 DEF HInv, CutLate, Deadline
  <2> QED
    BY <2>1, <2>2
<1>5. ProcessOK'
  BY <1>1, <1>3, <1>4 DEF HInv, ProcessOK
<1>6. BegunInTime'
  BY <1>1, <1>3 DEF HInv, BegunInTime, Steps
<1>7. DrainedOrLate'
  <2>1. ~ Quiet
    BY DEF Quiet
  <2> QED
    BY <2>1, <1>1 DEF HInv, DrainedOrLate, Deadline
<1> QED
  BY <1>2, <1>4, <1>5, <1>6, <1>7 DEF HInv

\* The steps of a request that ServingKeeps covers, one by one.
LEMMA StepsKeep ==
  ASSUME HInv, NEW r \in Requests,
         Insert(r) \/ Publish(r) \/ Ack(r) \/ Mark(r) \/ CloseSilent(r)
  PROVE  HInv'
<1>1. /\ \A q \in Requests : row[q] \in {"none", "queued", "failed"}
      /\ row \in [Requests -> {"none", "queued", "failed"}] /\ published \subseteq Requests
      /\ main \in {"serving", "draining"} \cup Past
      /\ request \in [Requests -> [pc : Steps \cup {"none", "new", "closed"}, at : 0..now]]
  BY DEF HInv, ProcessOK
<1>2. (~ NatsOpen => main \in Past) /\ (~ DatabaseOpen => main \in Past)
  BY <1>1 DEF NatsOpen, DatabaseOpen
<1>3. RowsAccounted
  BY DEF HInv
<1>4. UNCHANGED <<tailVars, process, gone>> /\ DatabaseOpen' = DatabaseOpen
  BY DEF Insert, Publish, Ack, Mark, CloseSilent, process, DatabaseOpen, NatsOpen
<1>5. CASE Insert(r)
  <2>1. PICK pc \in {"publish", "closed"} :
          Go(r, pc) /\ (pc = "closed" /\ DatabaseOpen => r \in gone)
    BY <1>5 DEF Insert
  <2>2. request[r].pc = "insert" /\ request'[r].pc = pc
        /\ row' \in [Requests -> {"none", "queued", "failed"}]
        /\ \A q \in Requests \ {r} : request'[q] = request[q] /\ row'[q] = row[q]
    BY <1>1, <1>5, <2>1 DEF Insert, Go
  <2>3. RowsAccounted'
    BY <1>3, <1>4, <1>5, <2>1, <2>2 DEF RowsAccounted, Insert
  <2>4. published' = published
    BY <1>5 DEF Insert
  <2>5. cut' = cut \/ (main \in Past /\ Cut(r))
    BY <1>2, <1>5 DEF Insert
  <2> QED
    BY <1>1, <1>4, <2>1, <2>2, <2>3, <2>4, <2>5, ServingKeeps DEF Go, Steps
<1>6. CASE Publish(r)
  <2>1. PICK pc \in {"ack", "mark"} : Go(r, pc) /\ (pc = "ack" => published' = published \cup {r})
                                      /\ (pc = "mark" => published' = published)
    BY <1>6 DEF Publish
  <2>2. request[r].pc = "publish" /\ request'[r].pc = pc
        /\ \A q \in Requests \ {r} : request'[q] = request[q]
    BY <1>1, <1>6, <2>1 DEF Publish, Go
  <2>3. RowsAccounted' /\ row' = row /\ published' \subseteq Requests
    BY <1>1, <1>3, <1>4, <1>6, <2>1, <2>2 DEF RowsAccounted, Publish
  <2>4. cut' = cut \/ (main \in Past /\ Cut(r))
    BY <1>2, <1>6 DEF Publish, Cut
  <2> QED
    BY <1>1, <1>4, <2>1, <2>2, <2>3, <2>4, ServingKeeps DEF Go, Steps
<1>7. CASE Ack(r)
  <2>1. PICK pc \in {"closed", "mark"} : Go(r, pc)
    BY <1>7 DEF Ack
  <2>2. request[r].pc = "ack" /\ request'[r].pc = pc
        /\ \A q \in Requests \ {r} : request'[q] = request[q]
    BY <1>1, <1>7, <2>1 DEF Ack, Go
  <2>3. RowsAccounted' /\ row' = row /\ published' = published
    BY <1>3, <1>4, <1>7, <2>1, <2>2 DEF RowsAccounted, Ack
  <2>4. cut' = cut \/ (main \in Past /\ Cut(r))
    BY <1>2, <1>7 DEF Ack, Cut
  <2> QED
    BY <1>1, <1>4, <2>1, <2>2, <2>3, <2>4, ServingKeeps DEF Go, Steps
<1>8. CASE Mark(r)
  <2>1. request[r].pc = "mark" /\ request'[r].pc = "closed"
        /\ \A q \in Requests \ {r} : request'[q] = request[q] /\ row'[q] = row[q]
    BY <1>1, <1>8 DEF Mark, Go
  <2>2. RowsAccounted' /\ published' = published /\ cut' = cut
        /\ row' \in [Requests -> {"none", "queued", "failed"}]
    BY <1>1, <1>3, <1>4, <1>8, <2>1 DEF RowsAccounted, Mark
  <2> QED
    BY <1>1, <1>4, <1>8, <2>1, <2>2, ServingKeeps DEF Mark, Go, Steps
<1>9. CASE CloseSilent(r)
  <2>1. request[r].pc = "new" /\ request'[r].pc = "closed"
        /\ \A q \in Requests \ {r} : request'[q] = request[q]
    BY <1>1, <1>9 DEF CloseSilent, Silent, Go
  <2>2. RowsAccounted' /\ row' = row /\ published' = published /\ cut' = cut
    BY <1>3, <1>4, <1>9, <2>1 DEF RowsAccounted, CloseSilent
  <2> QED
    BY <1>1, <1>4, <1>9, <2>1, <2>2, ServingKeeps DEF CloseSilent, Go, Steps
<1> QED
  BY <1>5, <1>6, <1>7, <1>8, <1>9

\* A client that leaves.
LEMMA DisconnectKeeps ==
  ASSUME HInv, NEW r \in Requests, Disconnect(r)
  PROVE  HInv'
<1>1. /\ UNCHANGED <<tailVars, process, row, published, cut>>
      /\ UNCHANGED <<now, written, stored, prompt, tail, shown, missed>>
      /\ UNCHANGED <<main, signalled, status>>
  BY DEF Disconnect, tailVars, logs, process
<1>2. CASE request[r].pc = "new" /\ Go(r, "closed") /\ UNCHANGED gone
  <2>1. row \in [Requests -> {"none", "queued", "failed"}] /\ published \subseteq Requests
    BY DEF HInv, ProcessOK
  <2>2. \A q \in Requests : request'[q].pc = request[q].pc \/ (q = r /\ request[q].pc = "new")
    BY <1>2 DEF HInv, ProcessOK, Go
  <2>3. RowsAccounted'
    BY <1>1, <1>2, <2>2 DEF HInv, RowsAccounted, DatabaseOpen, NatsOpen
  <2> QED
    BY <1>1, <1>2, <2>1, <2>3, ServingKeeps DEF Go
<1>3. CASE request[r].pc \in Steps /\ gone' = gone \cup {r} /\ UNCHANGED request
  <2>1. TInv'
    BY <1>1 DEF HInv, TInv, TailTypeOK, Times, WindowsOrdered, SentBefore, PromptShown
  <2>2. ProcessOK' /\ RowsAccounted'
    BY <1>1, <1>3 DEF HInv, ProcessOK, RowsAccounted, DatabaseOpen, NatsOpen
  <2>3. BegunInTime' /\ DrainedOrLate' /\ CutLate'
    BY <1>1, <1>3 DEF HInv, BegunInTime, DrainedOrLate, CutLate, Deadline, Quiet
  <2> QED
    BY <2>1, <2>2, <2>3 DEF HInv
<1> QED
  BY <1>2, <1>3 DEF Disconnect

\* A connection comes while the process serves; its request may come during the
\* drain as long as it is young.
LEMMA ComingKeeps ==
  ASSUME HInv, NEW r \in Requests, Connect(r) \/ Arrive(r)
  PROVE  HInv'
<1>1. /\ UNCHANGED <<now, written, stored, prompt, tail, shown, missed>>
      /\ UNCHANGED <<main, signalled, status, row, published, gone, cut>>
  BY DEF Connect, Arrive, tailVars, logs, process
<1>2. TInv'
  BY <1>1 DEF HInv, TInv, TailTypeOK, Times, WindowsOrdered, SentBefore, PromptShown
<1>3. PICK pc \in {"new", "insert"} :
        /\ request' = [request EXCEPT ![r] = [pc |-> pc, at |-> now]]
        /\ pc = "new" => main = "serving"
        /\ pc = "insert" => request[r].pc = "new" /\ ~ Silent(r)
  BY DEF Connect, Arrive
<1>4. now \in Nat /\ [pc |-> pc, at |-> now] \in [pc : Steps \cup {"none", "new", "closed"}, at : 0..now]
  BY Numbers DEF Steps
<1>5. ProcessOK' /\ CutLate'
  BY <1>1, <1>3, <1>4 DEF HInv, ProcessOK, CutLate, Deadline
<1>6. /\ request'[r].pc = pc /\ request'[r].at = now
      /\ \A q \in Requests \ {r} : request'[q] = request[q]
  BY <1>3 DEF HInv, ProcessOK
<1>7. BegunInTime'
  <2>1. CASE main = "serving"
    BY <2>1, <1>1 DEF BegunInTime
  <2>2. CASE main # "serving"
    <3>1. pc = "insert" /\ request[r].at <= signalled /\ Ran(r) <= NewGrace
      BY <1>3, <2>2, Numbers, ShutdownFacts DEF HInv, BegunInTime, Silent
    <3>2. now <= signalled + NewGrace
      BY <3>1, Numbers, ShutdownFacts DEF Ran
    <3> QED
      BY <3>1, <3>2, <1>1, <1>6 DEF HInv, BegunInTime
  <2> QED
    BY <2>1, <2>2
<1>8. DrainedOrLate'
  <2>1. main \in Past => pc = "insert" /\ ~ Quiet
    BY <1>3 DEF Past, Quiet
  <2> QED
    BY <2>1, <1>1 DEF HInv, DrainedOrLate, Deadline
<1>9. RowsAccounted'
  BY <1>1, <1>3, <1>6 DEF HInv, RowsAccounted, DatabaseOpen, NatsOpen,
                          Connect, Arrive
<1> QED
  BY <1>2, <1>5, <1>7, <1>8, <1>9 DEF HInv

LEMMA SignalKeeps ==
  ASSUME HInv, Signal
  PROVE  HInv'
<1>1. /\ UNCHANGED <<now, written, stored, prompt, tail, shown, missed>>
      /\ UNCHANGED <<status, request, row, published, gone, cut>>
      /\ main = "serving" /\ main' = "draining" /\ signalled' = now
  BY DEF Signal, tailVars, logs, work
<1>2. TInv'
  BY <1>1 DEF HInv, TInv, TailTypeOK, Times, WindowsOrdered, SentBefore, PromptShown
<1>3. ProcessOK'
  BY <1>1, Numbers DEF HInv, ProcessOK
<1>4. BegunInTime'
  BY <1>1, Numbers, ShutdownFacts DEF HInv, BegunInTime
<1>5. DrainedOrLate' /\ CutLate' /\ RowsAccounted'
  BY <1>1 DEF HInv, DrainedOrLate, CutLate, Past, RowsAccounted, DatabaseOpen, NatsOpen
<1> QED
  BY <1>2, <1>3, <1>4, <1>5 DEF HInv

\* The main goroutine on its way from the drain to the exit.
LEMMA EnterKeeps ==
  ASSUME HInv, Drained \/ TimedOut \/ CloseNats \/ CloseDatabase
  PROVE  HInv'
<1>1. /\ UNCHANGED <<now, written, stored, prompt, tail, shown, missed>>
      /\ UNCHANGED <<signalled, status, request, row, published, gone, cut>>
      /\ main # "serving" /\ main' \in Past
      /\ main \in Past \/ Deadline \/ Quiet
      /\ DatabaseOpen' => DatabaseOpen
  BY DEF Drained, TimedOut, CloseNats, CloseDatabase, Enter, tailVars, logs, work,
         Past, DatabaseOpen, NatsOpen
<1>2. TInv'
  BY <1>1 DEF HInv, TInv, TailTypeOK, Times, WindowsOrdered, SentBefore, PromptShown
<1>3. ProcessOK' /\ BegunInTime' /\ CutLate'
  BY <1>1 DEF HInv, ProcessOK, BegunInTime, CutLate, Deadline, Past
<1>4. DrainedOrLate' /\ RowsAccounted'
  BY <1>1 DEF HInv, DrainedOrLate, Deadline, Quiet, RowsAccounted
<1> QED
  BY <1>2, <1>3, <1>4 DEF HInv

LEMMA ExitKeeps ==
  ASSUME HInv, Exit
  PROVE  HInv'
<1>1. /\ UNCHANGED <<now, written, stored, prompt, shown, missed>>
      /\ UNCHANGED <<signalled, row, published, gone>>
      /\ main = "exit" /\ main' = "exited" /\ status' \in {0, 1}
  BY DEF Exit, logs
<1>2. TInv'
  <2>1. tail' = [t \in Tails |-> IF t \in Tails THEN [tail[t] EXCEPT !.pc = "closed"] ELSE tail[t]]
    BY DEF Exit
  <2> QED
    BY <1>1, <2>1, ClosingKeeps DEF HInv
<1>3. \A r \in Requests : request'[r].pc = "closed" /\ request'[r].at = request[r].at
  BY DEF Exit, HInv, ProcessOK
<1>4. /\ request' \in [Requests -> [pc : Steps \cup {"none", "new", "closed"}, at : 0..now]]
  BY DEF Exit, HInv, ProcessOK
<1>5. \A r \in Requests : cut'[r] = cut[r] \/ (request[r].pc \in Steps /\ cut'[r] = Ran(r))
  BY DEF Exit, HInv, ProcessOK
<1>6. \A r \in Requests : Ran(r) \in -1..now
  BY Numbers
<1>7. ProcessOK'
  BY <1>1, <1>4, <1>5, <1>6 DEF Exit, HInv, ProcessOK, Past
<1>8. CutLate'
  BY <1>1, <1>5, LateWhenCut DEF HInv, CutLate, Deadline, Past
<1>9. BegunInTime' /\ RowsAccounted'
  BY <1>1, <1>3 DEF BegunInTime, RowsAccounted, DatabaseOpen, NatsOpen, Steps
<1>10. DrainedOrLate'
  <2>1. \A t \in Tails : tail'[t].pc = "closed"
    BY DEF Exit, HInv, TInv, TailTypeOK
  <2> QED
    BY <1>3, <2>1 DEF DrainedOrLate, Quiet
<1> QED
  BY <1>2, <1>7, <1>8, <1>9, <1>10 DEF HInv

LEMMA HInvStep == HInv /\ [ShutdownNext]_shutdownVars => HInv'
<1> SUFFICES ASSUME HInv, [ShutdownNext]_shutdownVars PROVE HInv'
  OBVIOUS
<1>1. CASE (Tick \/ Shipping) /\ UNCHANGED <<process, work>>
  BY <1>1, TickShippingKeeps
<1>2. ASSUME NEW t \in Tails, Tailed(t) PROVE HInv'
  BY <1>2, TailedKeeps
<1>3. ASSUME NEW r \in Requests, Serve(r) PROVE HInv'
  BY <1>3, StepsKeep, ComingKeeps, DisconnectKeeps DEF Serve
<1>4. CASE Signal
  BY <1>4, SignalKeeps
<1>5. CASE Wait
  BY <1>5, EnterKeeps, ExitKeeps DEF Wait
<1>6. CASE UNCHANGED shutdownVars
  BY <1>6 DEF shutdownVars, tailVars, logs, process, work, HInv, TInv, TailTypeOK, Times,
              WindowsOrdered, SentBefore, PromptShown, ProcessOK, BegunInTime, DrainedOrLate,
              Deadline, Quiet, CutLate, RowsAccounted, DatabaseOpen, NatsOpen
<1> QED
  BY <1>1, <1>2, <1>3, <1>4, <1>5, <1>6 DEF ShutdownNext

-----------------------------------------------------------------------------

\* Every reachable state of the stopping process, its requests and its tails is
\* well typed; no window of a tail lies ahead of the clock.
THEOREM ShutdownTyped == ShutdownSpec => []ShutdownTypeOK
<1>1. HInv => ShutdownTypeOK
  BY DEF HInv, TInv, ProcessOK, Past, ShutdownTypeOK
<1> QED
  BY HInvInit, HInvStep, <1>1, PTL DEF ShutdownSpec

\* No line of the log is sent to a client twice.
THEOREM SentOnce == ShutdownSpec => []ShownOnce
<1>1. HInv => ShownOnce
  BY DEF HInv, TInv, SentBefore, ShownOnce
<1> QED
  BY HInvInit, HInvStep, <1>1, PTL DEF ShutdownSpec

\* The windows leave nothing out: of the lines that reached Loki in time only
\* those of a failed query or beyond its limit are not sent, however long the
\* queries take.
THEOREM NothingSkipped == ShutdownSpec => []PromptShown
<1>1. HInv => PromptShown
  BY DEF HInv, TInv
<1> QED
  BY HInvInit, HInvStep, <1>1, PTL DEF ShutdownSpec

\* The drain lets nobody down who is done within the timeout, less the grace of
\* a new connection.
THEOREM Spared == ShutdownSpec => []DrainSpares
<1>1. HInv => DrainSpares
  BY Numbers DEF HInv, CutLate, DrainSpares
<1> QED
  BY HInvInit, HInvStep, <1>1, PTL DEF ShutdownSpec

\* As long as the database is open, the order of the closers leaves no queued row
\* without a message or a request that will see to it, unless the client of its
\* request has left.
THEOREM Accounted == ShutdownSpec => []RowsAccounted
<1>1. HInv => RowsAccounted
  BY DEF HInv
<1> QED
  BY HInvInit, HInvStep, <1>1, PTL DEF ShutdownSpec

\* A process that exits with status 0 has let nobody down and broken off no
\* stream.
THEOREM CleanlyExited == ShutdownSpec => CleanExit
<1> DEFINE Clean == status' = 0 /\ status # 0 =>
                      /\ \A r \in Requests : cut'[r] = -1
                      /\ \A t \in Tails : tail[t].pc \in {"new", "closed"}
<1>1. HInv /\ [ShutdownNext]_shutdownVars => [Clean]_shutdownVars
  <2> SUFFICES ASSUME HInv, ShutdownNext, status' = 0, status # 0 PROVE Clean
    OBVIOUS
  <2>1. Exit
    BY DEF ShutdownNext, Wait, Drained, TimedOut, CloseNats, CloseDatabase, Enter, Signal,
           Serve, Connect, Arrive, Disconnect, Insert, Publish, Ack, Mark, CloseSilent, Tailed, process
  <2>2. ~ Deadline /\ main \in Past
    BY <2>1 DEF Exit, Past
  <2>3. Quiet /\ \A r \in Requests : cut[r] = -1
    BY <2>2 DEF HInv, DrainedOrLate, CutLate
  <2>4. \A r \in Requests : cut'[r] = -1
    BY <2>1, <2>3 DEF Exit, Quiet, Steps
  <2> QED
    BY <2>3, <2>4 DEF Quiet
<1> QED
  BY HInvInit, HInvStep, <1>1, PTL DEF ShutdownSpec, CleanExit
=============================================================================
