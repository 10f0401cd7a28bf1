---------------------------- MODULE RateLimiter ----------------------------
(***************************************************************************)
(* The per-user token bucket of one API process (InMemoryLimiter) behind   *)
(* the RateLimit middleware.  Time is counted in clock ticks and tokens in *)
(* shares of 1/Window, so that the refill of Capacity tokens per Window is *)
(* exact: a tick adds Capacity shares, a request takes Window of them (the *)
(* code's floats are taken for reals).                                     *)
(***************************************************************************)
EXTENDS Integers, Sequences, FiniteSets

CONSTANTS
  Users,
  Capacity,   \* maxRequests: requests per window, and the size of a burst
  Window,     \* the window, in ticks
  MaxTime     \* bound: ticks in a behaviour

ASSUME LimiterAssumption ==
  /\ Capacity \in Nat \ {0}
  /\ Window \in Nat \ {0}
  /\ MaxTime \in Nat

VARIABLES
  now,      \* the clock
  buckets,  \* user -> the bucket, NoBucket before the first request
  answer,   \* user -> what Allow returned last
  granted   \* history: user -> the times of the requests that were allowed

vars == <<now, buckets, answer, granted>>

Full     == Capacity * Window
NoBucket == [tokens |-> 0, last |-> -1]
NoAnswer == [remaining |-> Capacity, allowed |-> TRUE]

TypeOK ==
  /\ now \in Nat
  /\ buckets \in [Users -> [tokens : 0..Full, last : Nat \cup {-1}]]
  /\ answer \in [Users -> [remaining : 0..Capacity, allowed : BOOLEAN]]
  /\ granted \in [Users -> Seq(Nat)]

Init ==
  /\ now = 0
  /\ buckets = [u \in Users |-> NoBucket]
  /\ answer = [u \in Users |-> NoAnswer]
  /\ granted = [u \in Users |-> <<>>]

Tick ==
  /\ now < MaxTime
  /\ now' = now + 1
  /\ UNCHANGED <<buckets, answer, granted>>

\* Mutant: the bucket is topped up without the cap.
MutRefilled(u) ==
  IF buckets[u] = NoBucket
  THEN Full
  ELSE buckets[u].tokens + (now - buckets[u].last) * Capacity

\* A new bucket is full; the refill since the last call is capped.
Refilled(u) ==
  LET tokens == buckets[u].tokens + (now - buckets[u].last) * Capacity
  IN  IF buckets[u] = NoBucket THEN Full
      ELSE IF tokens < Full THEN tokens ELSE Full

\* Mutant: a denied request is charged as well.
MutAllow(u) ==
  LET tokens == Refilled(u)
      ok     == tokens >= Window
      left   == IF ok THEN tokens - Window ELSE 0
  IN
  /\ buckets' = [buckets EXCEPT ![u] = [tokens |-> left, last |-> now]]
  /\ answer' = [answer EXCEPT ![u] =
                  [remaining |-> IF ok THEN left \div Window ELSE 0, allowed |-> ok]]
  /\ granted' = IF ok THEN [granted EXCEPT ![u] = Append(@, now)] ELSE granted
  /\ UNCHANGED now

\* One call under the mutex, the clock read included.
Allow(u) ==
  LET tokens == Refilled(u)
      ok     == tokens >= Window
      left   == IF ok THEN tokens - Window ELSE tokens
  IN
  /\ buckets' = [buckets EXCEPT ![u] = [tokens |-> left, last |-> now]]
  /\ answer' = [answer EXCEPT ![u] =
                  [remaining |-> IF ok THEN left \div Window ELSE 0, allowed |-> ok]]
  /\ granted' = IF ok THEN [granted EXCEPT ![u] = Append(@, now)] ELSE granted
  /\ UNCHANGED now

Next == Tick \/ \E u \in Users : Allow(u)

Spec == Init /\ [][Next]_vars

-----------------------------------------------------------------------------
(* Properties. *)

\* Between any two requests of a user that were allowed, bounds included, no
\* more were allowed than a full bucket and the refill of that time pay for.
RateBound ==
  \A u \in Users : \A j \in 1..Len(granted[u]) : \A i \in 1..j :
    (j - i + 1) * Window <= Full + (granted[u][j] - granted[u][i]) * Capacity

\* A request is refused only if Capacity requests of the same user were allowed
\* within the window that ends with it: who keeps to the limit is never refused,
\* and neither refusals nor other users' requests count against a user.
RefusedOverLimit ==
  \A u \in Users :
    ~ answer[u].allowed =>
      Cardinality({i \in 1..Len(granted[u]) : granted[u][i] > buckets[u].last - Window})
        >= Capacity
=============================================================================
