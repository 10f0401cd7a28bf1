------------------------ MODULE EventStreamsProofs ------------------------
(***************************************************************************)
(* The cap on open streams and the privacy of events, for any number of    *)
(* users, connections, deployments and any limit.  ConnectionCap is not    *)
(* inductive alone: that a slot is free is read off the counter, so what   *)
(* the counter means (SlotsExact) has to hold as well.                     *)
(***************************************************************************)
EXTENDS EventStreams, FiniteSetTheorems, TLAPS

\* A stream past its lookup belongs to the workspace of its deployment.
Entitled ==
  \A c \in Conns :
    conn[c].pc \in {"subscribe", "stream"} =>
      conn[c].target \in Deployments /\ Owner[conn[c].user] = Owner[conn[c].target]

IInv == TypeOK /\ SlotsExact /\ ConnectionCap /\ Entitled /\ OwnEventsOnly

\* A step that touches the request of connection c only.
Only(c) == \A x \in Conns \ {c} : conn'[x] = conn[x]

-----------------------------------------------------------------------------
(* What the actions do to a request and to the counters. *)

LEMMA ClosedTyped == Closed \in ConnStates
  BY StreamsAssumption DEF Closed, ConnStates, Counted, Serving

LEMMA GoEffect ==
  ASSUME TypeOK, NEW c \in Conns, NEW pc \in Counted, Go(c, pc)
  PROVE  /\ conn' \in [Conns -> ConnStates]
         /\ conn'[c] = [conn[c] EXCEPT !.pc = pc]
         /\ Only(c)
<1>1. [conn[c] EXCEPT !.pc = pc] \in ConnStates
  BY DEF TypeOK, ConnStates
<1> QED
  BY <1>1 DEF Go, TypeOK, Only

\* A handler at work: the request stays past the cap, the counter as it is.
Works(c) ==
  /\ Only(c)
  /\ conn[c].pc \in Serving /\ conn'[c].pc \in Serving
  /\ conn'[c].user = conn[c].user /\ conn'[c].target = conn[c].target
  /\ UNCHANGED count

LEMMA LookupEffect ==
  ASSUME TypeOK, NEW c \in Conns, Lookup(c)
  PROVE  /\ conn' \in [Conns -> ConnStates] /\ Works(c)
         /\ conn'[c].next = conn[c].next /\ conn'[c].shown = conn[c].shown
         /\ conn'[c].pc \in {"subscribe", "stream"} =>
              conn[c].target \in Deployments /\ Owner[conn[c].user] = Owner[conn[c].target]
<1> DEFINE r == conn[c]
           found == r.target # "logs" =>
                      phase[r.target] # "none" /\ Owner[r.user] = Owner[r.target]
<1>1. r \in ConnStates /\ r.pc = "lookup" /\ UNCHANGED count
  BY DEF TypeOK, Lookup
<1>2. ASSUME NEW pc \in {"logs", "subscribe", "return"}, Go(c, pc)
      PROVE  /\ conn' \in [Conns -> ConnStates] /\ Works(c)
             /\ conn'[c].pc = pc /\ conn'[c].next = r.next /\ conn'[c].shown = r.shown
  <2>1. pc \in Counted
    BY DEF Counted, Serving
  <2>2. /\ conn' \in [Conns -> ConnStates]
        /\ conn'[c] = [conn[c] EXCEPT !.pc = pc]
        /\ Only(c)
    BY <1>2, <2>1, GoEffect
  <2> QED
    BY <1>1, <2>2 DEF Works, ConnStates, Serving
<1>3. CASE found /\ Go(c, IF r.target = "logs" THEN "logs" ELSE "subscribe")
  <2>1. CASE r.target = "logs"
    BY <1>2, <1>3, <2>1
  <2>2. CASE r.target # "logs"
    BY <1>1, <1>2, <1>3, <2>2 DEF ConnStates
  <2> QED
    BY <2>1, <2>2
<1>4. CASE Go(c, "return")
  BY <1>2, <1>4
<1> QED
  BY <1>3, <1>4 DEF Lookup

\* The steps of a handler that do not show an event.
LEMMA QuietEffect ==
  ASSUME TypeOK, NEW c \in Conns, Subscribe(c) \/ Leave(c) \/ IteratorError(c)
  PROVE  /\ conn' \in [Conns -> ConnStates] /\ Works(c)
         /\ conn'[c].next = conn[c].next /\ conn'[c].shown = conn[c].shown
         /\ conn'[c].pc \in {"subscribe", "stream"} => conn[c].pc = "subscribe"
<1>1. /\ conn[c] \in ConnStates /\ UNCHANGED count
      /\ conn[c].pc \in {"subscribe", "stream", "logs"}
      /\ \/ Go(c, "return")
         \/ conn[c].pc = "subscribe" /\ Go(c, "stream")
  BY DEF TypeOK, Subscribe, Leave, IteratorError
<1>2. ASSUME NEW pc \in {"return", "stream"}, Go(c, pc)
      PROVE  /\ conn' \in [Conns -> ConnStates] /\ Works(c)
             /\ conn'[c].pc = pc /\ conn'[c].next = conn[c].next
             /\ conn'[c].shown = conn[c].shown
  <2>1. pc \in Counted
    BY DEF Counted, Serving
  <2>2. /\ conn' \in [Conns -> ConnStates]
        /\ conn'[c] = [conn[c] EXCEPT !.pc = pc]
        /\ Only(c)
    BY <1>2, <2>1, GoEffect
  <2> QED
    BY <1>1, <2>2 DEF Works, ConnStates, Serving
<1>3. CASE Go(c, "return")
  BY <1>2, <1>3
<1>4. CASE conn[c].pc = "subscribe" /\ Go(c, "stream")
  BY <1>2, <1>4
<1> QED
  BY <1>1, <1>3, <1>4

LEMMA ForwardEffect ==
  ASSUME TypeOK, NEW c \in Conns, Forward(c)
  PROVE  /\ conn' \in [Conns -> ConnStates] /\ Works(c)
         /\ conn[c].pc = "stream"
         /\ conn'[c].next <= Len(published) + 1
         /\ \A ev \in conn'[c].shown : ev \in conn[c].shown \/ ev.dep = conn[c].target
<1> DEFINE r == conn[c]
           ev == published[r.next]
           pc == IF ev.status \in {"RUNNING", "FAILED"} THEN "return" ELSE r.pc
           q == [r EXCEPT !.next = @ + 1, !.shown = @ \cup {ev}, !.pc = pc]
           p == [r EXCEPT !.next = @ + 1]
<1>1. /\ r \in ConnStates /\ r.pc = "stream" /\ UNCHANGED count
      /\ r.next \in Nat \ {0} /\ r.next <= Len(published) /\ published \in Seq(Events)
  BY DEF TypeOK, Forward, ConnStates
<1>2. ev \in Events
  BY <1>1
<1>3. p \in ConnStates /\ q \in ConnStates
  <2>1. pc \in Counted \cup {"closed", "admit"}
    BY <1>1 DEF Counted, Serving
  <2>2. r.shown \cup {ev} \in SUBSET Events
    BY <1>1, <1>2 DEF ConnStates
  <2>3. r.next + 1 \in Nat \ {0}
    BY <1>1
  <2>4. p \in ConnStates
    BY <1>1, <2>3 DEF ConnStates
  <2> HIDE DEF ev, pc
  <2>5. q \in ConnStates
    BY <1>1, <2>1, <2>2, <2>3 DEF ConnStates
  <2> QED
    BY <2>4, <2>5
<1>4. \/ ev.dep = r.target /\ conn' = [conn EXCEPT ![c] = q]
      \/ conn' = [conn EXCEPT ![c] = p]
  BY <1>1 DEF Forward, TypeOK
<1>5. p.pc = "stream" /\ q.pc \in {"stream", "return"}
  BY <1>1 DEF ConnStates
<1>6. /\ p.user = r.user /\ p.target = r.target /\ p.next = r.next + 1
      /\ q.user = r.user /\ q.target = r.target /\ q.next = r.next + 1
      /\ p.shown = r.shown /\ q.shown = r.shown \cup {ev}
  BY <1>1 DEF ConnStates
<1> HIDE DEF p, q, ev
<1>7. CASE ev.dep = r.target /\ conn' = [conn EXCEPT ![c] = q]
  BY <1>1, <1>3, <1>5, <1>6, <1>7 DEF Works, Only, Serving, TypeOK
<1>8. CASE conn' = [conn EXCEPT ![c] = p]
  BY <1>1, <1>3, <1>5, <1>6, <1>8 DEF Works, Only, Serving, TypeOK
<1> QED
  BY <1>4, <1>7, <1>8

LEMMA AdmitEffect ==
  ASSUME TypeOK, NEW c \in Conns, Admit(c)
  PROVE  /\ conn' \in [Conns -> ConnStates] /\ Only(c)
         /\ conn[c].pc = "admit"
         /\ conn'[c].user = conn[c].user
         /\ conn'[c].next = conn[c].next /\ conn'[c].shown = conn[c].shown
         /\ conn'[c].target = conn[c].target
         /\ count' = [count EXCEPT ![conn[c].user] = @ + 1]
         /\ \/ conn'[c].pc = "reject"
            \/ conn'[c].pc = "lookup" /\ count[conn[c].user] + 1 <= Limit
<1> DEFINE u == conn[c].user
           pc == IF count[u] + 1 > Limit THEN "reject" ELSE "lookup"
<1>1. /\ conn[c] \in ConnStates /\ conn[c].pc = "admit" /\ Go(c, pc)
      /\ count' = [count EXCEPT ![u] = @ + 1]
  BY DEF TypeOK, Admit
<1>2. count[u] \in Int /\ Limit \in Nat
  BY <1>1, StreamsAssumption DEF TypeOK, ConnStates
<1>3. pc \in Counted /\ (pc = "reject" \/ (pc = "lookup" /\ count[u] + 1 <= Limit))
  BY <1>2 DEF Counted, Serving
<1> HIDE DEF pc
<1>4. /\ conn' \in [Conns -> ConnStates] /\ Only(c)
      /\ conn'[c] = [conn[c] EXCEPT !.pc = pc]
  BY <1>1, <1>3, GoEffect
<1> QED
  BY <1>1, <1>3, <1>4 DEF ConnStates

\* A request that ends gives its slot back.
LEMMA EndEffect ==
  ASSUME TypeOK, NEW c \in Conns, Reject(c) \/ Return(c)
  PROVE  /\ conn' \in [Conns -> ConnStates] /\ Only(c)
         /\ conn[c].pc \in Counted /\ conn'[c] = Closed
         /\ count' = [count EXCEPT ![conn[c].user] = @ - 1]
<1>1. /\ conn[c].pc \in {"reject", "return"} /\ conn' = [conn EXCEPT ![c] = Closed]
      /\ count' = [count EXCEPT ![conn[c].user] = @ - 1]
  BY DEF Reject, Return
<1> QED
  BY <1>1, ClosedTyped DEF TypeOK, Only, Counted, Serving

LEMMA ConnectEffect ==
  ASSUME TypeOK, NEW c \in Conns, NEW u \in Users, NEW t \in Deployments \cup {"logs"},
         Connect(c, u, t)
  PROVE  /\ conn' \in [Conns -> ConnStates] /\ Only(c)
         /\ conn[c].pc = "closed" /\ conn'[c].pc = "admit"
         /\ conn'[c].next = 1 /\ conn'[c].shown = {}
         /\ UNCHANGED count
<1> DEFINE r == [Closed EXCEPT !.pc = "admit", !.user = u, !.target = t]
<1>0. Closed \in ConnStates /\ Closed.next = 1 /\ Closed.shown = {}
  BY ClosedTyped DEF Closed
<1>1. r \in ConnStates /\ r.pc = "admit" /\ r.next = 1 /\ r.shown = {}
  <2> HIDE DEF Closed
  <2> QED
    BY <1>0 DEF ConnStates
<1>2. conn' = [conn EXCEPT ![c] = r] /\ conn[c].pc = "closed" /\ UNCHANGED count
  BY DEF Connect
<1> HIDE DEF r
<1> QED
  BY <1>1, <1>2 DEF TypeOK, Only

LEMMA DisconnectEffect ==
  ASSUME TypeOK, NEW c \in Conns, Disconnect(c)
  PROVE  /\ conn' \in [Conns -> ConnStates] /\ Only(c)
         /\ conn'[c].pc = conn[c].pc /\ conn'[c].user = conn[c].user
         /\ conn'[c].target = conn[c].target
         /\ conn'[c].next = conn[c].next /\ conn'[c].shown = conn[c].shown
         /\ UNCHANGED count
  BY DEF TypeOK, Only, Disconnect, ConnStates

-----------------------------------------------------------------------------
(* Counting: a request that enters or leaves a set of control points. *)

LEMMA HoldersFinite ==
  ASSUME NEW u \in Users, NEW S
  PROVE  /\ IsFiniteSet(Holders(u, S)) /\ IsFiniteSet(Holders(u, S)')
         /\ Cardinality(Holders(u, S)) \in Nat /\ Cardinality(Holders(u, S)') \in Nat
<1>1. Holders(u, S) \subseteq Conns /\ Holders(u, S)' \subseteq Conns /\ IsFiniteSet(Conns)
  BY StreamsAssumption DEF Holders
<1> QED
  BY <1>1, FS_Subset, FS_CardinalityType

LEMMA Stays ==
  ASSUME NEW c \in Conns, Only(c), NEW S, NEW u \in Users,
         \/ conn[c].pc \notin S /\ conn'[c].pc \notin S
         \/ /\ conn[c].pc \in S /\ conn'[c].pc \in S
            /\ conn'[c].user = conn[c].user
  PROVE  Holders(u, S)' = Holders(u, S)
  BY DEF Only, Holders

LEMMA Enters ==
  ASSUME NEW c \in Conns, Only(c), NEW S, NEW u \in Users,
         conn'[c].user = conn[c].user, conn[c].pc \notin S, conn'[c].pc \in S
  PROVE  Cardinality(Holders(u, S)')
           = Cardinality(Holders(u, S)) + (IF u = conn[c].user THEN 1 ELSE 0)
<1>1. CASE u = conn[c].user
  <2>1. Holders(u, S)' = Holders(u, S) \cup {c} /\ c \notin Holders(u, S)
    BY <1>1 DEF Only, Holders
  <2> QED
    BY <1>1, <2>1, HoldersFinite, FS_AddElement
<1>2. CASE u # conn[c].user
  <2>1. Holders(u, S)' = Holders(u, S)
    BY <1>2 DEF Only, Holders
  <2> QED
    BY <1>2, <2>1, HoldersFinite
<1> QED
  BY <1>1, <1>2

LEMMA Parts ==
  ASSUME NEW c \in Conns, Only(c), NEW S, NEW u \in Users,
         conn[c].pc \in S, conn'[c].pc \notin S
  PROVE  Cardinality(Holders(u, S)')
           = Cardinality(Holders(u, S)) - (IF u = conn[c].user THEN 1 ELSE 0)
<1>1. CASE u = conn[c].user
  <2>1. Holders(u, S)' = Holders(u, S) \ {c} /\ c \in Holders(u, S)
    BY <1>1 DEF Only, Holders
  <2> QED
    BY <1>1, <2>1, HoldersFinite, FS_RemoveElement
<1>2. CASE u # conn[c].user
  <2>1. Holders(u, S)' = Holders(u, S)
    BY <1>2 DEF Only, Holders
  <2> QED
    BY <1>2, <2>1, HoldersFinite
<1> QED
  BY <1>1, <1>2

\* Who is past the cap holds a slot.
LEMMA ServingCounted ==
  ASSUME NEW u \in Users
  PROVE  Cardinality(Holders(u, Serving)') <= Cardinality(Holders(u, Counted)')
<1>1. Holders(u, Serving)' \subseteq Holders(u, Counted)'
  BY DEF Holders, Counted
<1> QED
  BY <1>1, HoldersFinite, FS_Subset

LEMMA WorksKeepsCap ==
  ASSUME IInv, NEW c \in Conns,
         Works(c) \/ (/\ Only(c) /\ conn'[c].pc = conn[c].pc
                      /\ conn'[c].user = conn[c].user /\ UNCHANGED count)
  PROVE  SlotsExact' /\ ConnectionCap'
<1>1. /\ Only(c) /\ conn'[c].user = conn[c].user /\ UNCHANGED count
      /\ conn[c].pc \in Serving <=> conn'[c].pc \in Serving
      /\ conn[c].pc \in Counted <=> conn'[c].pc \in Counted
  BY DEF Works, Counted
<1>2. \A u \in Users : /\ Holders(u, Serving)' = Holders(u, Serving)
                        /\ Holders(u, Counted)' = Holders(u, Counted)
  BY <1>1, Stays
<1> QED
  BY <1>1, <1>2 DEF IInv, SlotsExact, ConnectionCap

LEMMA AdmitKeepsCap ==
  ASSUME IInv, NEW c \in Conns, Admit(c)
  PROVE  SlotsExact' /\ ConnectionCap'
<1> DEFINE v == conn[c].user
<1>1. /\ Only(c) /\ conn[c].pc = "admit" /\ conn'[c].user = v /\ v \in Users
      /\ count' = [count EXCEPT ![v] = @ + 1] /\ count \in [Users -> Int]
      /\ \/ conn'[c].pc = "reject"
         \/ conn'[c].pc = "lookup" /\ count[v] + 1 <= Limit
  BY AdmitEffect DEF IInv, TypeOK, ConnStates
<1>2. conn[c].pc \notin Counted /\ conn'[c].pc \in Counted
  BY <1>1 DEF Counted, Serving
<1>3. \A u \in Users :
        Cardinality(Holders(u, Counted)')
          = Cardinality(Holders(u, Counted)) + (IF u = v THEN 1 ELSE 0)
  BY <1>1, <1>2, Enters
<1>4. SlotsExact'
  <2> SUFFICES ASSUME NEW u \in Users
               PROVE  count'[u] = Cardinality(Holders(u, Counted)')
    BY DEF SlotsExact
  <2>1. count[u] = Cardinality(Holders(u, Counted))
    BY DEF IInv, SlotsExact
  <2>2. count'[u] = count[u] + (IF u = v THEN 1 ELSE 0)
    BY <1>1
  <2> QED
    BY <1>3, <2>1, <2>2
<1>5. ASSUME NEW u \in Users PROVE Cardinality(Holders(u, Serving)') <= Limit
  <2>1. CASE u = v /\ conn'[c].pc = "lookup"
    <3>1. count'[u] <= Limit
      BY <1>1, <2>1
    <3>2. count'[u] = Cardinality(Holders(u, Counted)')
      BY <1>4 DEF SlotsExact
    <3> QED
      BY <3>1, <3>2, ServingCounted, HoldersFinite, StreamsAssumption
  <2>2. CASE u # v \/ conn'[c].pc = "reject"
    <3>1. Holders(u, Serving)' = Holders(u, Serving)
      <4>1. conn[c].pc \notin Serving
        BY <1>1 DEF Serving
      <4>2. c \notin Holders(u, Serving) /\ c \notin Holders(u, Serving)'
        BY <1>1, <2>2, <4>1 DEF Holders, Serving
      <4> QED
        BY <1>1, <4>2 DEF Holders, Only
    <3> QED
      BY <3>1 DEF IInv, ConnectionCap
  <2> QED
    BY <1>1, <2>1, <2>2
<1> QED
  BY <1>4, <1>5 DEF ConnectionCap

LEMMA EndKeepsCap ==
  ASSUME IInv, NEW c \in Conns, Reject(c) \/ Return(c)
  PROVE  SlotsExact' /\ ConnectionCap'
<1> DEFINE v == conn[c].user
<1>1. /\ Only(c) /\ conn[c].pc \in Counted /\ conn'[c].pc = "closed" /\ v \in Users
      /\ count' = [count EXCEPT ![v] = @ - 1] /\ count \in [Users -> Int]
  <2>1. TypeOK /\ conn[c] \in ConnStates /\ count \in [Users -> Int]
    BY DEF IInv, TypeOK
  <2>2. Closed.pc = "closed"
    BY DEF Closed
  <2>3. v \in Users
    BY <2>1 DEF ConnStates
  <2> QED
    BY <2>1, <2>2, <2>3, EndEffect
<1>2. conn'[c].pc \notin Counted /\ conn'[c].pc \notin Serving
  BY <1>1 DEF Counted, Serving
<1>3. \A u \in Users :
        Cardinality(Holders(u, Counted)')
          = Cardinality(Holders(u, Counted)) - (IF u = v THEN 1 ELSE 0)
  BY <1>1, <1>2, Parts
<1>4. SlotsExact'
  <2> SUFFICES ASSUME NEW u \in Users
               PROVE  count'[u] = Cardinality(Holders(u, Counted)')
    BY DEF SlotsExact
  <2>1. count[u] = Cardinality(Holders(u, Counted))
    BY DEF IInv, SlotsExact
  <2>2. count'[u] = count[u] - (IF u = v THEN 1 ELSE 0)
    BY <1>1
  <2> QED
    BY <1>3, <2>1, <2>2
<1>5. ASSUME NEW u \in Users PROVE Cardinality(Holders(u, Serving)') <= Limit
  <2>1. Holders(u, Serving)' \subseteq Holders(u, Serving)
    BY <1>1, <1>2 DEF Holders, Only
  <2>2. Cardinality(Holders(u, Serving)) <= Limit
    BY DEF IInv, ConnectionCap
  <2> QED
    BY <2>1, <2>2, HoldersFinite, FS_Subset, StreamsAssumption
<1> QED
  BY <1>4, <1>5 DEF ConnectionCap

LEMMA ConnectKeepsCap ==
  ASSUME IInv, NEW c \in Conns, Only(c), conn[c].pc = "closed", conn'[c].pc = "admit",
         UNCHANGED count
  PROVE  SlotsExact' /\ ConnectionCap'
<1>1. \A u \in Users : /\ Holders(u, Serving)' = Holders(u, Serving)
                        /\ Holders(u, Counted)' = Holders(u, Counted)
  <2>1. /\ conn[c].pc \notin Serving /\ conn'[c].pc \notin Serving
        /\ conn[c].pc \notin Counted /\ conn'[c].pc \notin Counted
    BY DEF Counted, Serving
  <2> QED
    BY <2>1, Stays
<1> QED
  BY <1>1 DEF IInv, SlotsExact, ConnectionCap

-----------------------------------------------------------------------------
(* The invariant. *)

LEMMA IInvInit == Init => IInv
<1> SUFFICES ASSUME Init PROVE IInv
  OBVIOUS
<1>0. Closed.pc = "closed" /\ Closed.next = 1 /\ Closed.shown = {}
  BY DEF Closed
<1>1. \A c \in Conns : conn[c].pc = "closed" /\ conn[c].next = 1 /\ conn[c].shown = {}
  BY <1>0 DEF Init
<1>2. TypeOK
  <2>1. conn \in [Conns -> ConnStates]
    BY ClosedTyped DEF Init
  <2>2. published = <<>> /\ published \in Seq(Events) /\ Len(published) = 0
    BY DEF Init
  <2>3. \A c \in Conns : conn[c].next <= Len(published) + 1
    BY <1>1, <2>2
  <2>4. /\ phase \in [Deployments -> Statuses \cup {"none", "queued", "unreported"}]
        /\ count \in [Users -> Int]
    BY DEF Init
  <2> QED
    BY <2>1, <2>2, <2>3, <2>4 DEF TypeOK
<1>3. \A u \in Users : Holders(u, Counted) = {} /\ Holders(u, Serving) = {}
  BY <1>1 DEF Holders, Counted, Serving
<1>4. SlotsExact /\ ConnectionCap
  <2>1. \A u \in Users : count[u] = 0
    BY DEF Init
  <2> QED
    BY <1>3, <2>1, FS_EmptySet, StreamsAssumption DEF SlotsExact, ConnectionCap
<1>5. Entitled /\ OwnEventsOnly
  BY <1>1 DEF Entitled, OwnEventsOnly
<1> QED
  BY <1>2, <1>4, <1>5 DEF IInv

LEMMA Deployed ==
  ASSUME IInv, NEW d \in Deployments, Queue(d) \/ Report(d) \/ FailUnreported(d)
  PROVE  IInv'
<1>1. UNCHANGED <<count, conn>>
  BY DEF Queue, Report, FailUnreported
<1>2. /\ phase' \in [Deployments -> Statuses \cup {"none", "queued", "unreported"}]
      /\ published' \in Seq(Events) /\ Len(published') >= Len(published)
  <2>1. /\ phase \in [Deployments -> Statuses \cup {"none", "queued", "unreported"}]
        /\ published \in Seq(Events)
    BY DEF IInv, TypeOK
  <2>2. CASE Queue(d)
    BY <2>1, <2>2 DEF Queue
  <2>3. CASE Report(d)
    <3>1. PICK s \in Following(phase[d]) :
            /\ phase' = [phase EXCEPT ![d] = s]
            /\ published' \in {published, Append(published, [dep |-> d, status |-> s])}
      BY <2>3 DEF Report
    <3>2. s \in Statuses
      BY <2>1, <3>1 DEF Following, Statuses, Settled
    <3>3. [dep |-> d, status |-> s] \in Events
      BY <3>2 DEF Events
    <3> QED
      BY <2>1, <3>1, <3>2, <3>3
  <2>4. CASE FailUnreported(d)
    BY <2>1, <2>4 DEF FailUnreported
  <2> QED
    BY <2>2, <2>3, <2>4
<1>3. TypeOK'
  <2>1. \A c \in Conns : conn[c].next \in Nat /\ conn[c].next <= Len(published) + 1
    BY DEF IInv, TypeOK, ConnStates
  <2>2. Len(published) \in Nat /\ Len(published') \in Nat
    BY <1>2 DEF IInv, TypeOK
  <2>3. \A c \in Conns : conn[c].next <= Len(published') + 1
    BY <1>2, <2>1, <2>2
  <2> QED
    BY <1>1, <1>2, <2>3 DEF IInv, TypeOK
<1>4. \A u \in Users, S \in {Counted, Serving} : Holders(u, S)' = Holders(u, S)
  BY <1>1 DEF Holders
<1> QED
  BY <1>1, <1>3, <1>4 DEF IInv, SlotsExact, ConnectionCap, Entitled, OwnEventsOnly

\* What is left to show of a step of a request: its cursor, and that what it
\* shows it may show.
LEMMA RequestKeeps ==
  ASSUME IInv, NEW c \in Conns, Only(c), conn' \in [Conns -> ConnStates],
         SlotsExact', ConnectionCap', UNCHANGED <<phase, published>>,
         count' \in [Users -> Int],
         conn'[c].next <= Len(published) + 1,
         conn'[c].pc \in {"subscribe", "stream"} =>
           /\ conn'[c].target \in Deployments
           /\ Owner[conn'[c].user] = Owner[conn'[c].target],
         \A ev \in conn'[c].shown :
           ev.dep = conn'[c].target /\ Owner[ev.dep] = Owner[conn'[c].user]
  PROVE  IInv'
<1>1. TypeOK'
  BY DEF IInv, TypeOK, Only
<1>2. Entitled'
  BY DEF IInv, Entitled, Only
<1>3. OwnEventsOnly'
  BY DEF IInv, OwnEventsOnly, Only
<1> QED
  BY <1>1, <1>2, <1>3 DEF IInv

LEMMA RequestStep ==
  ASSUME IInv, NEW c \in Conns,
         \/ \E u \in Users, t \in Deployments \cup {"logs"} : Connect(c, u, t)
         \/ Disconnect(c) \/ IteratorError(c) \/ Handle(c)
  PROVE  IInv'
<1>0. /\ TypeOK /\ conn[c].next <= Len(published) + 1 /\ Len(published) \in Nat
      /\ count \in [Users -> Int]
      /\ conn[c].pc \in {"subscribe", "stream"} =>
           /\ conn[c].target \in Deployments
           /\ Owner[conn[c].user] = Owner[conn[c].target]
      /\ \A ev \in conn[c].shown :
           ev.dep = conn[c].target /\ Owner[ev.dep] = Owner[conn[c].user]
  BY DEF IInv, TypeOK, Entitled, OwnEventsOnly
<1>1. ASSUME NEW u \in Users, NEW t \in Deployments \cup {"logs"}, Connect(c, u, t)
      PROVE  IInv'
  <2>1. UNCHANGED <<phase, published>>
    BY <1>1 DEF Connect
  <2>2. SlotsExact' /\ ConnectionCap'
    BY <1>0, <1>1, ConnectEffect, ConnectKeepsCap
  <2> QED
    BY <1>0, <1>1, <2>1, <2>2, ConnectEffect, RequestKeeps
<1>2. CASE Disconnect(c)
  <2>1. UNCHANGED <<phase, published>>
    BY <1>2 DEF Disconnect
  <2>2. SlotsExact' /\ ConnectionCap'
    BY <1>0, <1>2, DisconnectEffect, WorksKeepsCap
  <2> QED
    BY <1>0, <1>2, <2>1, <2>2, DisconnectEffect, RequestKeeps
<1>3. CASE Admit(c)
  <2>1. UNCHANGED <<phase, published>>
    BY <1>3 DEF Admit
  <2>2. SlotsExact' /\ ConnectionCap'
    BY <1>3, AdmitKeepsCap
  <2>3. conn[c].user \in Users
    BY <1>0 DEF TypeOK, ConnStates
  <2>4. count' \in [Users -> Int]
    BY <1>0, <1>3, <2>3, AdmitEffect
  <2> QED
    BY <1>0, <1>3, <2>1, <2>2, <2>4, AdmitEffect, RequestKeeps
<1>4. CASE Reject(c) \/ Return(c)
  <2>1. UNCHANGED <<phase, published>>
    BY <1>4 DEF Reject, Return
  <2>2. SlotsExact' /\ ConnectionCap'
    BY <1>4, EndKeepsCap
  <2>3. conn[c].user \in Users
    BY <1>0 DEF TypeOK, ConnStates
  <2>4. count' \in [Users -> Int]
    BY <1>0, <1>4, <2>3, EndEffect
  <2>5. Closed.next = 1 /\ Closed.shown = {} /\ Closed.pc = "closed"
    BY DEF Closed
  <2> QED
    BY <1>0, <1>4, <2>1, <2>2, <2>4, <2>5, EndEffect, RequestKeeps
<1>5. CASE Lookup(c)
  <2>1. UNCHANGED <<phase, published>>
    BY <1>5 DEF Lookup
  <2>2. SlotsExact' /\ ConnectionCap'
    BY <1>0, <1>5, LookupEffect, WorksKeepsCap
  <2> QED
    BY <1>0, <1>5, <2>1, <2>2, LookupEffect, RequestKeeps DEF Works
<1>6. CASE Subscribe(c) \/ Leave(c) \/ IteratorError(c)
  <2>1. UNCHANGED <<phase, published>>
    BY <1>6 DEF Subscribe, Leave, IteratorError
  <2>2. SlotsExact' /\ ConnectionCap'
    BY <1>0, <1>6, QuietEffect, WorksKeepsCap
  <2> QED
    BY <1>0, <1>6, <2>1, <2>2, QuietEffect, RequestKeeps DEF Works
<1>7. CASE Forward(c)
  <2>1. UNCHANGED <<phase, published>>
    BY <1>7 DEF Forward
  <2>2. SlotsExact' /\ ConnectionCap'
    BY <1>0, <1>7, ForwardEffect, WorksKeepsCap
  <2> QED
    BY <1>0, <1>7, <2>1, <2>2, ForwardEffect, RequestKeeps DEF Works
<1> QED
  BY <1>1, <1>2, <1>3, <1>4, <1>5, <1>6, <1>7 DEF Handle

LEMMA IInvStep == IInv /\ [Next]_vars => IInv'
<1>1. ASSUME IInv, UNCHANGED vars PROVE IInv'
  BY <1>1 DEF vars, IInv, TypeOK, SlotsExact, ConnectionCap, Entitled, OwnEventsOnly, Holders
<1> QED
  BY <1>1, Deployed, RequestStep DEF Next

\* Requests, counters and the subject's messages keep their form; a stream's
\* cursor never passes the end of the subject.
THEOREM TypeCorrect == Spec => []TypeOK
<1>1. IInv => TypeOK
  BY DEF IInv
<1> QED
  BY IInvInit, IInvStep, <1>1, PTL DEF Spec

\* The middleware never lets a user hold more streams open than the limit.
THEOREM Capped == Spec => []ConnectionCap
<1>1. IInv => ConnectionCap
  BY DEF IInv
<1> QED
  BY IInvInit, IInvStep, <1>1, PTL DEF Spec

\* The counter is what the open requests account for: no slot leaks.
THEOREM Exact == Spec => []SlotsExact
<1>1. IInv => SlotsExact
  BY DEF IInv
<1> QED
  BY IInvInit, IInvStep, <1>1, PTL DEF Spec

\* No stream shows an event of another deployment or workspace.
THEOREM Private == Spec => []OwnEventsOnly
<1>1. IInv => OwnEventsOnly
  BY DEF IInv
<1> QED
  BY IInvInit, IInvStep, <1>1, PTL DEF Spec
=============================================================================
