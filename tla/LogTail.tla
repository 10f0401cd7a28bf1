------------------------------ MODULE LogTail ------------------------------
(***************************************************************************)
(* The log tail of LogsHandler.Stream: every few seconds it asks Loki for  *)
(* the lines of the window since the last query and sends them to the      *)
(* client.  A line carries the time at which the pod wrote it and reaches  *)
(* Loki some time later, or never.  The query takes its time: the window   *)
(* ends when it is asked, the lines are those Loki has when it answers.    *)
(***************************************************************************)
EXTENDS Integers

CONSTANTS
  Lines,    \* some lines of the function's log, of many
  Tails,    \* requests that tail the log of the function
  Prime,    \* how far back the first window reaches, in ticks
  MaxTime   \* bound: ticks in a behaviour

ASSUME TailAssumption == {Prime, MaxTime} \subseteq Nat

VARIABLES
  now,      \* the clock
  written,  \* line -> when the pod wrote it, Unwritten before
  stored,   \* the lines Loki has
  tail,     \* the requests: the window asked for is [since, till)
  prompt,   \* history: lines that reached Loki in the tick they were written
  shown,    \* history: tail -> line -> how often the client was sent it
  missed    \* history: tail -> the lines of failed queries and cut off by the limit

logs     == <<written, stored, prompt>>
tailVars == <<now, logs, tail, shown, missed>>

Unwritten == -Prime - 1
Times     == -Prime..now

NoTail == [pc |-> "closed", from |-> 0, since |-> 0, till |-> 0]

TailTypeOK ==
  /\ now \in 0..MaxTime
  /\ written \in [Lines -> {Unwritten} \cup 0..now]
  /\ prompt \subseteq stored /\ stored \subseteq {l \in Lines : written[l] # Unwritten}
  /\ tail \in [Tails -> [pc : {"new", "wait", "query", "closed"}, from : Times,
                         since : Times, till : Times]]
  /\ shown \in [Tails -> [Lines -> Nat]]
  /\ missed \in [Tails -> SUBSET Lines]

TailInit ==
  /\ now = 0
  /\ written = [l \in Lines |-> Unwritten]
  /\ stored = {}
  /\ tail = [t \in Tails |-> [NoTail EXCEPT !.pc = "new"]]
  /\ prompt = {}
  /\ shown = [t \in Tails |-> [l \in Lines |-> 0]]
  /\ missed = [t \in Tails |-> {}]

Tick ==
  /\ now < MaxTime
  /\ now' = now + 1
  /\ UNCHANGED <<logs, tail, shown, missed>>

\* The function's pods and the agent that ships their output.
Write(l) ==
  /\ written[l] = Unwritten
  /\ written' = [written EXCEPT ![l] = now]
  /\ UNCHANGED <<now, stored, prompt, tail, shown, missed>>

Store(l) ==
  /\ written[l] # Unwritten
  /\ stored' = stored \cup {l}
  /\ prompt' = IF l \notin stored /\ written[l] = now THEN prompt \cup {l} ELSE prompt
  /\ UNCHANGED <<now, written, tail, shown, missed>>

\* The function is found; the first window reaches back.
Open(t) ==
  /\ tail[t].pc = "new"
  /\ tail' = [tail EXCEPT ![t] = [NoTail EXCEPT !.pc = "wait", !.from = now - Prime,
                                                !.since = now - Prime]]
  /\ UNCHANGED <<now, logs, shown, missed>>

\* The ticker fires: the window ends now.
Ask(t) ==
  /\ tail[t].pc = "wait"
  /\ tail' = [tail EXCEPT ![t].pc = "query", ![t].till = now]
  /\ UNCHANGED <<now, logs, shown, missed>>

\* Mutant: the end of the window is found by Loki as well.
MutWindow(t) == {l \in Lines : tail[t].since <= written[l] /\ written[l] <= tail[t].till}

\* What Loki holds to be in a window: its start included, its end not.
Window(t) == {l \in Lines : tail[t].since <= written[l] /\ written[l] < tail[t].till}

\* Mutant: the next window starts after the end of this one.
MutAdvance(t) == tail' = [tail EXCEPT ![t].pc = "wait", ![t].since = tail[t].till + 1]

\* The next window starts where this one ended, whatever came of it.
Advance(t) == tail' = [tail EXCEPT ![t].pc = "wait", ![t].since = tail[t].till]

\* Mutant: the next window starts when the answer has come.
MutAnswer(t) ==
  /\ tail[t].pc = "query"
  /\ \E lines \in SUBSET (Window(t) \cap stored) :
       /\ shown' = [shown EXCEPT ![t] = [l \in Lines |-> IF l \in lines THEN @[l] + 1 ELSE @[l]]]
       /\ missed' = [missed EXCEPT ![t] = @ \cup ((Window(t) \cap stored) \ lines)]
  /\ tail' = [tail EXCEPT ![t].pc = "wait", ![t].since = now]
  /\ UNCHANGED <<now, logs>>

\* The oldest lines of the window (direction forward), up to a limit to which
\* other lines count as well: any number of the newest may be cut off.
Answer(t) ==
  LET found == Window(t) \cap stored IN
  /\ tail[t].pc = "query"
  /\ \E lines \in SUBSET found :
       /\ \A l \in lines, m \in found \ lines : written[l] <= written[m]
       /\ shown' = [shown EXCEPT ![t] = [l \in Lines |-> IF l \in lines THEN @[l] + 1 ELSE @[l]]]
       /\ missed' = [missed EXCEPT ![t] = @ \cup (found \ lines)]
  /\ Advance(t)
  /\ UNCHANGED <<now, logs>>

\* Loki cannot be reached, answers 5xx or something that is not JSON: a comment
\* is sent to the client and the window is not asked for again.
AnswerFails(t) ==
  /\ tail[t].pc = "query"
  /\ missed' = [missed EXCEPT ![t] = @ \cup Window(t)]
  /\ Advance(t)
  /\ UNCHANGED <<now, logs, shown>>

\* The request's context is done.
Close(t) ==
  /\ tail[t].pc \in {"wait", "query"}
  /\ tail' = [tail EXCEPT ![t].pc = "closed"]
  /\ UNCHANGED <<now, logs, shown, missed>>

Shipping == \E l \in Lines : Write(l) \/ Store(l)
Tailing(t) == Open(t) \/ Ask(t) \/ Answer(t) \/ AnswerFails(t) \/ Close(t)

TailNext == Tick \/ Shipping \/ \E t \in Tails : Tailing(t)

TailSpec == TailInit /\ [][TailNext]_tailVars

-----------------------------------------------------------------------------
(* Properties. *)

\* The windows overlap nowhere: no line is sent to a client twice.
ShownOnce == \A t \in Tails, l \in Lines : shown[t][l] <= 1

\* And they leave nothing out: a line that reached Loki without delay has been
\* sent once its time has passed, unless the query for its window failed or
\* found too many; however long the queries take.  (A line that reaches Loki
\* after its window was asked for is never sent.)
PromptShown ==
  \A t \in Tails, l \in prompt :
    tail[t].from <= written[l] /\ written[l] < tail[t].since
      => shown[t][l] > 0 \/ l \in missed[t]
=============================================================================
