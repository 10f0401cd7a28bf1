--------------------------- MODULE SessionsProofs ---------------------------
(***************************************************************************)
(* The rate limiter, then access and metrics queries behind it, for any    *)
(* users, workspaces, expressions, capacity, window and expiry of tokens.  *)
(*                                                                         *)
(* RateBound only looks at times of granted requests; what makes it        *)
(* inductive is Balance, which adds the tokens left in the bucket to every *)
(* suffix of the grants, and Clock, which orders those times.  What makes  *)
(* AccessExpires inductive is Fresh: the user of a token is a member of    *)
(* its workspace or has stopped being one no earlier than its login read   *)
(* the membership, and the same of the slug that a login under way has     *)
(* read; and a stream that is open was let through in time.                *)
(***************************************************************************)
EXTENDS Sessions, FiniteSetTheorems, TLAPS

-----------------------------------------------------------------------------
(* The limiter by itself. *)


\* The grants of a user precede the last call, which precedes the clock.
ClockOf(u) ==
  /\ buckets[u].last <= now
  /\ buckets[u] = NoBucket => granted[u] = <<>>
  /\ \A i \in 1..Len(granted[u]) : granted[u][i] <= buckets[u].last

\* From any grant on, what was granted and what is left is paid for.
BalanceOf(u) ==
  \A i \in 1..Len(granted[u]) :
    (Len(granted[u]) - i + 1) * Window + buckets[u].tokens
      <= Full + (buckets[u].last - granted[u][i]) * Capacity

RateOf(u) ==
  \A j \in 1..Len(granted[u]) : \A i \in 1..j :
    (j - i + 1) * Window <= Full + (granted[u][j] - granted[u][i]) * Capacity

IInv ==
  /\ TypeOK
  /\ \A u \in Users : ClockOf(u) /\ BalanceOf(u) /\ RateOf(u)

LEMMA OneMore ==
  ASSUME NEW a \in Int, NEW b \in Int, NEW k \in Int, b = a + 1
  PROVE  b * k = a * k + k
  OBVIOUS

LEMMA Chain ==
  ASSUME NEW a \in Int, NEW b \in Int, NEW c \in Int, NEW k \in Int
  PROVE  (a - c) * k = (a - b) * k + (b - c) * k
  OBVIOUS

LEMMA ProductInt ==
  ASSUME NEW a \in Int, NEW b \in Int
  PROVE  a * b \in Int
  OBVIOUS

LEMMA ProductNat ==
  ASSUME NEW a \in Nat, NEW b \in Nat
  PROVE  a * b \in Nat
  OBVIOUS

LEMMA FullNat == Full \in Nat /\ Full >= Window
<1>1. Capacity \in Nat \ {0} /\ Window \in Nat \ {0}
  BY LimiterAssumption
<1>2. Capacity * Window \in Nat
  BY <1>1, ProductNat
<1>3. (Capacity - 1) * Window \in Nat
  BY <1>1, ProductNat
<1>4. Capacity * Window = (Capacity - 1) * Window + Window
  BY <1>1, OneMore
<1> QED
  BY <1>1, <1>2, <1>3, <1>4 DEF Full

\* What the limiter reports as remaining lies between nothing and a burst.
LEMMA RemainingBound ==
  ASSUME NEW t \in 0..Full
  PROVE  t \div Window \in 0..Capacity
<1>1. Capacity \in Nat /\ Window \in Nat \ {0} /\ t \in Nat
  BY LimiterAssumption, FullNat
<1> DEFINE q == t \div Window
<1>2. q \in Nat /\ q * Window <= t
  BY <1>1
<1>3. q <= Capacity
  <2> SUFFICES ASSUME q >= Capacity + 1 PROVE FALSE
    BY <1>1, <1>2
  <2> HIDE DEF q
  <2>1. q - (Capacity + 1) \in Nat /\ (q - (Capacity + 1)) * Window \in Nat
    <3>1. q - (Capacity + 1) \in Nat
      BY <1>1, <1>2
    <3> QED
      BY <1>1, <3>1, ProductNat
  <2>2. (q - 0) * Window
          = (q - (Capacity + 1)) * Window + ((Capacity + 1) - 0) * Window
    BY <1>1, <1>2, Chain
  <2>3. (Capacity + 1) * Window = Capacity * Window + Window
    BY <1>1, OneMore
  <2>4. Capacity * Window \in Nat
    BY <1>1, ProductNat
  <2>5. t <= Capacity * Window
    BY <2>4 DEF Full
  <2>6. q * Window = (q - (Capacity + 1)) * Window + (Capacity * Window + Window)
    BY <1>1, <1>2, <2>2, <2>3
  <2> DEFINE x == q * Window
             y == (q - (Capacity + 1)) * Window
             z == Capacity * Window
  <2>7. x = y + (z + Window) /\ x <= t /\ t <= z /\ y \in Nat /\ z \in Nat
    BY <1>2, <2>1, <2>4, <2>5, <2>6
  <2> HIDE DEF x, y, z
  <2> QED
    BY <1>1, <2>7
<1> QED
  BY <1>1, <1>2, <1>3

\* A refilled bucket holds at most a burst, and no more than the tokens it had
\* and the refill of the time that went by.
LEMMA RefilledBound ==
  ASSUME IInv, NEW u \in Users
  PROVE  /\ Refilled(u) \in 0..Full
         /\ buckets[u] # NoBucket =>
              Refilled(u) <= buckets[u].tokens + (now - buckets[u].last) * Capacity
<1>1. /\ now \in Nat /\ buckets[u].tokens \in 0..Full
      /\ buckets[u].last \in Int /\ buckets[u].last <= now
  BY DEF IInv, TypeOK, ClockOf
<1>2. Capacity \in Nat /\ Full \in Nat
  BY LimiterAssumption, FullNat
<1>3. (now - buckets[u].last) * Capacity \in Nat
  BY <1>1, <1>2, ProductNat
<1> QED
  BY <1>1, <1>2, <1>3 DEF Refilled

LEMMA IInvInit == Init => IInv
<1> SUFFICES ASSUME Init PROVE IInv
  OBVIOUS
<1>1. TypeOK
  BY FullNat, LimiterAssumption DEF Init, TypeOK, NoBucket, NoAnswer
<1>2. ASSUME NEW u \in Users PROVE granted[u] = <<>> /\ buckets[u] = NoBucket /\ now = 0
  BY DEF Init
<1> QED
  BY <1>1, <1>2 DEF IInv, ClockOf, BalanceOf, RateOf, NoBucket

LEMMA TickKeeps ==
  ASSUME IInv, Tick
  PROVE  IInv'
<1>1. now \in Nat /\ now' = now + 1 /\ UNCHANGED <<buckets, answer, granted>>
  BY DEF IInv, TypeOK, Tick
<1>2. TypeOK'
  BY <1>1 DEF IInv, TypeOK
<1>3. ASSUME NEW u \in Users PROVE ClockOf(u)' /\ BalanceOf(u)' /\ RateOf(u)'
  <2>1. ClockOf(u) /\ BalanceOf(u) /\ RateOf(u) /\ buckets[u].last \in Int
    BY DEF IInv, TypeOK
  <2>2. ClockOf(u)'
    BY <1>1, <2>1 DEF ClockOf
  <2> QED
    BY <1>1, <2>1, <2>2 DEF BalanceOf, RateOf
<1> QED
  BY <1>2, <1>3 DEF IInv

\* The users other than the caller see nothing of a call.
LEMMA OthersUntouched ==
  ASSUME IInv, NEW u \in Users, Allow(u), NEW v \in Users \ {u}
  PROVE  ClockOf(v)' /\ BalanceOf(v)' /\ RateOf(v)'
<1>1. buckets'[v] = buckets[v] /\ granted'[v] = granted[v] /\ now' = now
  BY DEF Allow, IInv, TypeOK
<1>2. ClockOf(v) /\ BalanceOf(v) /\ RateOf(v)
  BY DEF IInv
<1> QED
  BY <1>1, <1>2 DEF ClockOf, BalanceOf, RateOf

\* What a call does to its own bucket and grants.
LEMMA AllowEffect ==
  ASSUME IInv, NEW u \in Users, Allow(u)
  PROVE  /\ now' = now
         /\ buckets'[u].last = now /\ buckets'[u] # NoBucket
         /\ \/ /\ Refilled(u) >= Window
               /\ buckets'[u].tokens = Refilled(u) - Window
               /\ granted'[u] = Append(granted[u], now)
            \/ /\ Refilled(u) < Window
               /\ buckets'[u].tokens = Refilled(u)
               /\ granted'[u] = granted[u]
<1>1. Refilled(u) \in Int /\ Window \in Nat /\ now \in Nat
  BY RefilledBound, FullNat, LimiterAssumption DEF IInv, TypeOK
<1>2. CASE Refilled(u) >= Window
  BY <1>1, <1>2 DEF Allow, IInv, TypeOK, NoBucket
<1>3. CASE ~ Refilled(u) >= Window
  BY <1>1, <1>3 DEF Allow, IInv, TypeOK, NoBucket
<1> QED
  BY <1>2, <1>3

LEMMA AllowKeepsType ==
  ASSUME IInv, NEW u \in Users, Allow(u)
  PROVE  TypeOK'
<1> DEFINE t == Refilled(u)
           ok == t >= Window
           rest == IF ok THEN t - Window ELSE t
           r == [remaining |-> IF ok THEN rest \div Window ELSE 0, allowed |-> ok]
<1>1. /\ t \in 0..Full /\ Full \in Nat /\ Window \in Nat \ {0} /\ Capacity \in Nat
      /\ now \in Nat
  BY RefilledBound, FullNat, LimiterAssumption DEF IInv, TypeOK
<1>2. rest \in 0..Full
  BY <1>1
<1>3. rest \div Window \in 0..Capacity
  BY <1>2, RemainingBound
<1>4. r \in [remaining : 0..Capacity, allowed : BOOLEAN]
  BY <1>1, <1>3
<1>5. [tokens |-> rest, last |-> now] \in [tokens : 0..Full, last : Nat \cup {-1}]
  BY <1>1, <1>2
<1>6. /\ buckets' = [buckets EXCEPT ![u] = [tokens |-> rest, last |-> now]]
      /\ answer' = [answer EXCEPT ![u] = r]
      /\ granted' = IF ok THEN [granted EXCEPT ![u] = Append(@, now)] ELSE granted
      /\ now' = now
  BY DEF Allow
<1> HIDE DEF t, ok, rest, r
<1>7. granted' \in [Users -> Seq(Nat)]
  BY <1>1, <1>6 DEF IInv, TypeOK
<1> QED
  BY <1>1, <1>4, <1>5, <1>6, <1>7 DEF IInv, TypeOK

\* A grant of the caller and the time it was given, before and after the call.
LEMMA AllowKeepsClock ==
  ASSUME IInv, NEW u \in Users, Allow(u)
  PROVE  ClockOf(u)'
<1> DEFINE g == granted[u]
<1>1. /\ g \in Seq(Nat) /\ now \in Nat /\ buckets[u].last \in Int /\ ClockOf(u)
      /\ \A i \in 1..Len(g) : g[i] \in Nat
  BY DEF IInv, TypeOK
<1>2. \A i \in 1..Len(g) : g[i] <= now
  BY <1>1 DEF ClockOf
<1>3. CASE granted'[u] = Append(g, now)
  BY <1>1, <1>2, <1>3, AllowEffect DEF ClockOf
<1>4. CASE granted'[u] = g
  BY <1>1, <1>2, <1>4, AllowEffect DEF ClockOf
<1> QED
  BY <1>3, <1>4, AllowEffect

\* Before the caller is charged, every suffix of its grants and the refilled
\* bucket are paid for.
LEMMA RefillBalance ==
  ASSUME IInv, NEW u \in Users, NEW i \in 1..Len(granted[u])
  PROVE  (Len(granted[u]) - i + 1) * Window + Refilled(u)
           <= Full + (now - granted[u][i]) * Capacity
<1> DEFINE g == granted[u]
           n == Len(g) - i + 1
           last == buckets[u].last
           held == buckets[u].tokens
<1>1. /\ g \in Seq(Nat) /\ i \in Nat /\ n \in Nat /\ g[i] \in Nat /\ now \in Nat
      /\ last \in Int /\ held \in Int /\ Full \in Int /\ g # <<>>
      /\ Capacity \in Nat /\ Window \in Nat
  BY FullNat, LimiterAssumption DEF IInv, TypeOK
<1>2. buckets[u] # NoBucket
  BY <1>1 DEF IInv, ClockOf
<1>3. Refilled(u) \in Int /\ Refilled(u) <= held + (now - last) * Capacity
  BY <1>2, RefilledBound, FullNat
<1>4. n * Window + held <= Full + (last - g[i]) * Capacity
  BY DEF IInv, BalanceOf
<1>5. (now - g[i]) * Capacity = (now - last) * Capacity + (last - g[i]) * Capacity
  <2> HIDE DEF g, last
  <2> QED
    BY <1>1, Chain
<1> DEFINE x == n * Window
           y == (now - last) * Capacity
           z == (last - g[i]) * Capacity
<1>6. x \in Int /\ y \in Int /\ z \in Int
  <2> HIDE DEF g, n, last
  <2> QED
    BY <1>1, ProductInt
<1>7. x + Refilled(u) <= Full + (y + z)
  <2> HIDE DEF x, y, z
  <2>1. Refilled(u) <= held + y /\ x + held <= Full + z
    BY <1>3, <1>4 DEF x, y, z
  <2> QED
    BY <1>1, <1>3, <1>6, <2>1
<1> QED
  BY <1>5, <1>7

LEMMA AllowKeepsBalance ==
  ASSUME IInv, NEW u \in Users, Allow(u)
  PROVE  BalanceOf(u)' /\ RateOf(u)'
<1> DEFINE g == granted[u]
           t == Refilled(u)
<1>1. /\ g \in Seq(Nat) /\ now \in Nat /\ Full \in Nat /\ t \in 0..Full
      /\ Capacity \in Nat /\ Window \in Nat /\ Len(g) \in Nat
      /\ \A i \in 1..Len(g) : g[i] \in Nat
  BY RefilledBound, FullNat, LimiterAssumption DEF IInv, TypeOK
<1>2. CASE /\ t >= Window
           /\ buckets'[u].tokens = t - Window
           /\ granted'[u] = Append(g, now)
  <2>1. /\ Len(granted'[u]) = Len(g) + 1 /\ granted'[u][Len(g) + 1] = now
        /\ \A i \in 1..Len(g) : granted'[u][i] = g[i]
    BY <1>1, <1>2
  <2>2. ASSUME NEW i \in 1..(Len(g) + 1)
        PROVE  (Len(g) + 1 - i + 1) * Window + (t - Window)
                 <= Full + (now - granted'[u][i]) * Capacity
    <3>0. i \in 1..Len(g) \/ i = Len(g) + 1
      BY <1>1
    <3>1. CASE i \in 1..Len(g)
      <4>1. (Len(g) - i + 1) * Window + t <= Full + (now - g[i]) * Capacity
        BY <3>1, RefillBalance
      <4>2. (Len(g) + 1 - i + 1) * Window = (Len(g) - i + 1) * Window + Window
        <5> DEFINE a == Len(g) - i + 1
                   b == Len(g) + 1 - i + 1
        <5>1. a \in Int /\ b \in Int /\ b = a + 1
          BY <1>1
        <5> HIDE DEF a, b
        <5>2. b * Window = a * Window + Window
          BY <1>1, <5>1, OneMore
        <5> QED
          BY <1>1, <5>2 DEF a, b
      <4> DEFINE x == (Len(g) - i + 1) * Window
                 y == (now - g[i]) * Capacity
      <4>3. x \in Int /\ y \in Int
        <5>1. Len(g) - i + 1 \in Int /\ now - g[i] \in Int
          BY <1>1, <3>1
        <5> QED
          BY <1>1, <5>1, ProductInt
      <4>4. (x + Window) + (t - Window) <= Full + y
        <5>1. x + t <= Full + y
          BY <4>1
        <5> HIDE DEF x, y
        <5> QED
          BY <1>1, <4>3, <5>1
      <4>5. granted'[u][i] = g[i]
        BY <2>1, <3>1
      <4> QED
        BY <4>2, <4>4, <4>5
    <3>2. CASE i = Len(g) + 1
      <4>1. Len(g) + 1 - i + 1 = 1 /\ now - granted'[u][i] = 0
        BY <1>1, <2>1, <3>2
      <4>2. 1 * Window = Window /\ 0 * Capacity = 0
        BY <1>1
      <4>3. Window + (t - Window) <= Full + 0
        BY <1>1
      <4> QED
        BY <4>1, <4>2, <4>3
    <3> QED
      BY <3>0, <3>1, <3>2
  <2>3. BalanceOf(u)'
    BY <1>2, <2>1, <2>2, AllowEffect DEF BalanceOf, Full
  <2>4. ASSUME NEW j \in 1..(Len(g) + 1), NEW i \in 1..j
        PROVE  (j - i + 1) * Window
                 <= Full + (granted'[u][j] - granted'[u][i]) * Capacity
    <3>0. j \in 1..Len(g) \/ j = Len(g) + 1
      BY <1>1
    <3>1. CASE j \in 1..Len(g)
      <4>1. i \in 1..Len(g)
        BY <1>1, <3>1
      <4>2. granted'[u][j] = g[j] /\ granted'[u][i] = g[i]
        BY <2>1, <3>1, <4>1
      <4> QED
        BY <3>1, <4>2 DEF IInv, RateOf
    <3>2. CASE j = Len(g) + 1
      <4>1. (Len(g) + 1 - i + 1) * Window + (t - Window)
              <= Full + (now - granted'[u][i]) * Capacity
        BY <2>2, <3>2
      <4>2. i \in 1..(Len(g) + 1) /\ granted'[u][i] \in Nat
        <5>1. i \in 1..(Len(g) + 1)
          BY <3>2
        <5>2. CASE i \in 1..Len(g)
          BY <1>1, <2>1, <5>1, <5>2
        <5>3. CASE i = Len(g) + 1
          BY <1>1, <2>1, <5>1, <5>3
        <5> QED
          BY <1>1, <5>1, <5>2, <5>3
      <4> DEFINE x == (Len(g) + 1 - i + 1) * Window
                 y == (now - granted'[u][i]) * Capacity
      <4>3. x \in Int /\ y \in Int
        <5>1. Len(g) + 1 - i + 1 \in Int /\ now - granted'[u][i] \in Int
          BY <1>1, <4>2
        <5> QED
          BY <1>1, <5>1, ProductInt
      <4>4. x <= Full + y
        <5>1. x + (t - Window) <= Full + y
          BY <4>1
        <5> HIDE DEF x, y
        <5> QED
          BY <1>1, <1>2, <4>3, <5>1
      <4> QED
        BY <2>1, <3>2, <4>4
    <3> QED
      BY <3>0, <3>1, <3>2
  <2> QED
    BY <2>1, <2>3, <2>4 DEF RateOf, Full
<1>3. CASE /\ buckets'[u].tokens = t
           /\ granted'[u] = g
  <2>1. ASSUME NEW i \in 1..Len(g)
        PROVE  (Len(g) - i + 1) * Window + t <= Full + (now - g[i]) * Capacity
    BY RefillBalance
  <2>2. BalanceOf(u)'
    BY <1>3, <2>1, AllowEffect DEF BalanceOf, Full
  <2> QED
    BY <1>3, <2>2 DEF IInv, RateOf, Full
<1> QED
  BY <1>2, <1>3, AllowEffect

LEMMA IInvStep == IInv /\ [Next]_vars => IInv'
<1> SUFFICES ASSUME IInv, [Next]_vars PROVE IInv'
  OBVIOUS
<1>1. CASE Tick
  BY <1>1, TickKeeps
<1>2. ASSUME NEW u \in Users, Allow(u) PROVE IInv'
  <2>1. TypeOK'
    BY <1>2, AllowKeepsType
  <2>2. ClockOf(u)' /\ BalanceOf(u)' /\ RateOf(u)'
    BY <1>2, AllowKeepsClock, AllowKeepsBalance
  <2>3. \A v \in Users \ {u} : ClockOf(v)' /\ BalanceOf(v)' /\ RateOf(v)'
    BY <1>2, OthersUntouched
  <2> QED
    BY <2>1, <2>2, <2>3 DEF IInv
<1>3. CASE UNCHANGED vars
  BY <1>3 DEF vars, IInv, TypeOK, ClockOf, BalanceOf, RateOf, Full
<1> QED
  BY <1>1, <1>2, <1>3 DEF Next

\* The buckets never hold more than a burst, and the number of requests the
\* middleware reports as remaining never exceeds the limit it advertises.
THEOREM TypeCorrect == Spec => []TypeOK
<1>1. IInv => TypeOK
  BY DEF IInv
<1> QED
  BY IInvInit, IInvStep, <1>1, PTL DEF Spec

\* However requests and time interleave, the limiter admits in no interval
\* more than a burst and what the interval refills.
THEOREM Bounded == Spec => []RateBound
<1>1. IInv => RateBound
  BY DEF IInv, RateOf, RateBound
<1> QED
  BY IInvInit, IInvStep, <1>1, PTL DEF Spec

-----------------------------------------------------------------------------
(* Refusals.  Going back from the last call to any time s, the tokens that  *)
(* are left and those spent on grants after s make up at least the refill   *)
(* since s, or a full bucket.  A refusal leaves less than one token, so with *)
(* s one window back Capacity of them were spent.                           *)

Recent(u, s) == {i \in 1..Len(granted[u]) : granted[u][i] > s}
Spent(u, s)  == Cardinality(Recent(u, s)) * Window

\* The tokens left and those spent since s, against what s owes the user.
Covers(u, s) ==
  \/ buckets[u].tokens + Spent(u, s) >= Full
  \/ buckets[u].tokens + Spent(u, s) >= (buckets[u].last - s) * Capacity

PaidOf(u) ==
  /\ buckets[u] # NoBucket => \A s \in Int : s <= buckets[u].last => Covers(u, s)
  /\ ~ answer[u].allowed => buckets[u] # NoBucket /\ buckets[u].tokens < Window

PInv == IInv /\ \A u \in Users : PaidOf(u)

LEMMA PartOfInterval ==
  ASSUME NEW n \in Nat, NEW S \in SUBSET (1..n)
  PROVE  IsFiniteSet(S) /\ Cardinality(S) \in Nat
<1>1. IsFiniteSet(1..n)
  BY FS_Interval
<1>2. IsFiniteSet(S)
  BY <1>1, FS_Subset
<1> QED
  BY <1>2, FS_CardinalityType

LEMMA SpentNat ==
  ASSUME IInv, NEW u \in Users, NEW s \in Int
  PROVE  Cardinality(Recent(u, s)) \in Nat /\ Spent(u, s) \in Nat
<1>1. Len(granted[u]) \in Nat
  BY DEF IInv, TypeOK
<1>2. Cardinality(Recent(u, s)) \in Nat
  BY <1>1, PartOfInterval DEF Recent
<1> QED
  BY <1>2, LimiterAssumption, ProductNat DEF Spent

\* A grant counts from every time before it.
LEMMA SpentGrows ==
  ASSUME IInv, NEW u \in Users, NEW s \in Int, s < now,
         granted'[u] = Append(granted[u], now)
  PROVE  Spent(u, s)' = Spent(u, s) + Window
<1> DEFINE n == Len(granted[u])
           c == Cardinality(Recent(u, s))
<1>1. granted[u] \in Seq(Nat) /\ n \in Nat /\ now \in Nat
  BY DEF IInv, TypeOK
<1>2. Recent(u, s)' = Recent(u, s) \cup {n + 1} /\ n + 1 \notin Recent(u, s)
  BY <1>1 DEF Recent
<1>3. IsFiniteSet(Recent(u, s)) /\ c \in Nat
  BY <1>1, PartOfInterval DEF Recent
<1>4. Cardinality(Recent(u, s)') = c + 1
  BY <1>2, <1>3, FS_AddElement
<1>5. (c + 1) * Window = c * Window + Window
  BY <1>3, LimiterAssumption, OneMore
<1> QED
  BY <1>4, <1>5 DEF Spent

\* The refill keeps what every time owes covered.
LEMMA RefillCovers ==
  ASSUME PInv, NEW u \in Users, NEW s \in Int, s < now
  PROVE  \/ Refilled(u) + Spent(u, s) >= Full
         \/ Refilled(u) + Spent(u, s) >= (now - s) * Capacity
<1> DEFINE held == buckets[u].tokens
           last == buckets[u].last
<1>0. IInv /\ PaidOf(u)
  BY DEF PInv
<1>1. /\ now \in Nat /\ held \in 0..Full /\ last \in Int /\ last <= now
      /\ Capacity \in Nat /\ Full \in Nat /\ Spent(u, s) \in Nat /\ PaidOf(u)
  <2>1. now \in Nat /\ held \in 0..Full /\ last \in Int /\ last <= now
    BY <1>0 DEF IInv, TypeOK, ClockOf
  <2> QED
    BY <1>0, <2>1, LimiterAssumption, FullNat, SpentNat
<1>2. CASE Refilled(u) = Full
  BY <1>1, <1>2
<1>3. CASE Refilled(u) # Full
  <2>1. buckets[u] # NoBucket /\ Refilled(u) = held + (now - last) * Capacity
    BY <1>3 DEF Refilled
  <2>2. /\ (now - last) * Capacity \in Nat
        /\ (now - s) * Capacity = (now - last) * Capacity + (last - s) * Capacity
        /\ (last - s) * Capacity \in Int
    <3> HIDE DEF held, last
    <3>1. now - last \in Nat /\ last - s \in Int
      BY <1>1
    <3>2. (now - last) * Capacity \in Nat /\ (last - s) * Capacity \in Int
      BY <1>1, <3>1, ProductNat, ProductInt
    <3> QED
      BY <1>1, <3>2, Chain
  <2>3. CASE s <= last
    <3>1. Covers(u, s)
      BY <2>1, <2>3, <1>1 DEF PaidOf
    <3> QED
      BY <3>1, <2>1, <2>2, <1>1 DEF Covers
  <2>4. CASE last < s
    <3>1. (s - last) * Capacity \in Nat
      BY <1>1, <2>4, ProductNat
    <3>2. (now - last) * Capacity = (now - s) * Capacity + (s - last) * Capacity
      BY <1>1, Chain
    <3>3. (now - s) * Capacity \in Int
      BY <1>1, ProductInt
    <3> QED
      <4> DEFINE x == (now - s) * Capacity
                 y == (s - last) * Capacity
                 z == (now - last) * Capacity
      <4>1. x \in Int /\ y \in Nat /\ z = x + y /\ Refilled(u) = held + z
        BY <3>1, <3>2, <3>3, <2>1
      <4> HIDE DEF x, y, z
      <4>2. Refilled(u) + Spent(u, s) >= x
        BY <4>1, <1>1
      <4> QED
        BY <4>2 DEF x
  <2> QED
    BY <2>3, <2>4, <1>1
<1> QED
  BY <1>2, <1>3

LEMMA AllowKeepsPaid ==
  ASSUME PInv, NEW u \in Users, Allow(u)
  PROVE  PaidOf(u)'
<1> DEFINE t == Refilled(u)
<1>1. /\ t \in 0..Full /\ Full \in Nat /\ Window \in Nat \ {0} /\ now \in Nat
      /\ IInv /\ Capacity \in Nat
  BY RefilledBound, FullNat, LimiterAssumption DEF PInv, IInv, TypeOK
<1>2. /\ now' = now /\ buckets'[u].last = now /\ buckets'[u] # NoBucket
      /\ \/ /\ t >= Window /\ buckets'[u].tokens = t - Window
            /\ granted'[u] = Append(granted[u], now)
         \/ /\ t < Window /\ buckets'[u].tokens = t /\ granted'[u] = granted[u]
  BY <1>1, AllowEffect
<1>3. answer'[u].allowed <=> t >= Window
  BY <1>1 DEF Allow, IInv, TypeOK
<1> HIDE DEF t
<1>4. IInv'
  BY <1>1, IInvStep DEF Next
<1>5. ASSUME NEW s \in Int, s <= now PROVE Covers(u, s)'
  <2>1. Spent(u, s) \in Nat
    BY <1>1, SpentNat
  <2>2. CASE s = now
    <3>1. Spent(u, s)' \in Nat
      <4>1. Len(granted'[u]) \in Nat
        BY <1>4 DEF IInv, TypeOK
      <4>2. Cardinality(Recent(u, s)') \in Nat
        BY <4>1, PartOfInterval DEF Recent
      <4> QED
        BY <4>2, <1>1, ProductNat DEF Spent
    <3>2. (buckets'[u].last - s) * Capacity = 0
      BY <1>1, <1>2, <2>2
    <3>3. buckets'[u].tokens \in Nat
      BY <1>1, <1>2
    <3>4. buckets'[u].tokens + Spent(u, s)' >= (buckets'[u].last - s) * Capacity
      BY <3>1, <3>2, <3>3
    <3> QED
      BY <3>4 DEF Covers
  <2>3. CASE s < now
    <3>1. t + Spent(u, s) >= Full \/ t + Spent(u, s) >= (now - s) * Capacity
      BY <2>3, RefillCovers DEF t
    <3>2. (now - s) * Capacity \in Int
      BY <1>1, ProductInt
    <3>3. buckets'[u].tokens + Spent(u, s)' = t + Spent(u, s)
      <4>1. CASE granted'[u] = Append(granted[u], now) /\ buckets'[u].tokens = t - Window
        BY <4>1, <1>1, <2>1, <2>3, SpentGrows
      <4>2. CASE granted'[u] = granted[u] /\ buckets'[u].tokens = t
        BY <4>2 DEF Spent, Recent
      <4> QED
        BY <4>1, <4>2, <1>2
    <3> QED
      BY <1>1, <1>2, <3>1, <3>2, <3>3 DEF Covers, Full
  <2> QED
    BY <1>1, <1>5, <2>2, <2>3
<1> QED
  BY <1>1, <1>2, <1>3, <1>5 DEF PaidOf

LEMMA PInvInit == Init => PInv
  BY IInvInit DEF PInv, PaidOf, Init, NoAnswer

LEMMA PInvStep == PInv /\ [Next]_vars => PInv'
<1> SUFFICES ASSUME PInv, [Next]_vars PROVE PInv'
  OBVIOUS
<1>1. IInv'
  BY IInvStep DEF PInv
<1>2. ASSUME NEW v \in Users, UNCHANGED <<buckets[v], answer[v], granted[v]>>
      PROVE  PaidOf(v)'
  BY <1>2 DEF PInv, PaidOf, Covers, Spent, Recent, Full
<1>3. CASE Tick
  BY <1>1, <1>2, <1>3 DEF PInv, Tick
<1>4. ASSUME NEW u \in Users, Allow(u) PROVE PInv'
  <2>1. \A v \in Users \ {u} : UNCHANGED <<buckets[v], answer[v], granted[v]>>
    BY <1>4 DEF Allow, PInv, IInv, TypeOK
  <2> QED
    BY <1>1, <1>2, <1>4, <2>1, AllowKeepsPaid DEF PInv
<1>5. CASE UNCHANGED vars
  BY <1>1, <1>2, <1>5 DEF vars, PInv
<1> QED
  BY <1>3, <1>4, <1>5 DEF Next

LEMMA PaidRefuses == PInv => RefusedOverLimit
<1> SUFFICES ASSUME PInv, NEW u \in Users, ~ answer[u].allowed
             PROVE  Cardinality(Recent(u, buckets[u].last - Window)) >= Capacity
  BY DEF RefusedOverLimit, Recent
<1> DEFINE s == buckets[u].last - Window
           c == Cardinality(Recent(u, s))
<1>1. /\ IInv /\ PaidOf(u) /\ buckets[u].last \in Int /\ buckets[u].tokens \in 0..Full
      /\ Window \in Nat \ {0} /\ Capacity \in Nat \ {0} /\ Full \in Nat
  BY LimiterAssumption, FullNat DEF PInv, IInv, TypeOK
<1>2. s \in Int /\ s <= buckets[u].last /\ buckets[u].last - s = Window
  BY <1>1
<1>3. c \in Nat /\ Spent(u, s) \in Nat /\ Spent(u, s) = c * Window
  BY <1>1, <1>2, SpentNat DEF Spent
<1>4. buckets[u].tokens < Window /\ Covers(u, s)
  BY <1>1, <1>2 DEF PaidOf
<1>5. Full = Capacity * Window /\ Window * Capacity = Capacity * Window
  BY <1>1 DEF Full
<1>6. Spent(u, s) + Window > Full
  BY <1>1, <1>2, <1>3, <1>4, <1>5 DEF Covers
<1>7. CASE c < Capacity
  <2>1. Capacity - c - 1 \in Nat
    BY <1>1, <1>3, <1>7
  <2>2. (Capacity - c - 1) * Window \in Nat
    BY <1>1, <2>1, ProductNat
  <2>3. (Capacity - 0) * Window = (Capacity - (c + 1)) * Window + (c + 1 - 0) * Window
    BY <1>1, <1>3, Chain
  <2>4. (c + 1) * Window = c * Window + Window
    BY <1>1, <1>3, OneMore
  <2> QED
    BY <1>1, <1>3, <1>5, <1>6, <2>1, <2>2, <2>3, <2>4
<1> QED
  BY <1>1, <1>3, <1>7

\* Nobody is refused who keeps to the limit: a refusal means that Capacity
\* requests of that user were let through in the window before it.
THEOREM RefusalsEarned == Spec => []RefusedOverLimit
  BY PInvInit, PInvStep, PaidRefuses, PTL DEF Spec

-----------------------------------------------------------------------------
(* The limiter behind logins, tokens and members. *)

LEMMA SessionsFacts ==
  /\ TTL \in Nat \ {0}
  /\ MaxChanges \in Nat
  /\ NoSlug \notin Slugs
  /\ Idle \notin Slugs /\ Idle # NoSlug
  BY SessionsAssumption, MetricsAssumption

-----------------------------------------------------------------------------
(* The rewriting of expressions. *)

\* The caller's own matcher is satisfied by the caller's slug alone.
LEMMA OwnMatches ==
  ASSUME NEW slug, NEW w
  PROVE  Matches(Own(slug), w) <=> w = slug
  BY DEF Matches, Own

\* A selector that is let through comes to mean its own series of the
\* caller's workspace.
LEMMA PinExact ==
  ASSUME NEW slug \in Slugs, NEW sel \in Selectors, Pinnable(sel, slug)
  PROVE  Selected(Pin(sel, slug)) = {s \in Selected(sel) : s.workspace = slug}
<1>1. sel.matchers \in Seq(Matchers)
  BY DEF Selectors
<1>2. CASE sel.matchers = <<>>
  <2> DEFINE pin == Pin(sel, slug)
  <2>1. pin.metric = sel.metric /\ pin.matchers = <<Own(slug)>>
    BY <1>2 DEF Pin, Selectors
  <2>2. \A s \in Series : s \in Selected(pin) <=> s.metric = sel.metric /\ Matches(Own(slug), s.workspace)
    BY <2>1 DEF Selected
  <2>3. \A s \in Series : s \in Selected(sel) <=> s.metric = sel.metric
    BY <1>2 DEF Selected
  <2> QED
    BY <2>2, <2>3, OwnMatches DEF Selected
<1>3. CASE sel.matchers # <<>>
  <2>1. Len(sel.matchers) \in Nat /\ 1 \in 1..Len(sel.matchers)
    BY <1>1, <1>3
  <2>2. sel.matchers[1] = Own(slug) /\ Pin(sel, slug) = sel
    BY <1>1, <1>3 DEF Pinnable, Pin
  <2>3. \A s \in Selected(sel) : s.workspace = slug
    BY <2>1, <2>2, OwnMatches DEF Selected
  <2> QED
    BY <2>2, <2>3
<1> QED
  BY <1>2, <1>3

\* And so does a whole expression.
LEMMA InjectExact ==
  ASSUME NEW slug \in Slugs, NEW query \in Seq(Selectors)
  PROVE  Exact(query, slug)
<1> SUFFICES ASSUME Accepted(query, slug), NEW i \in 1..Len(query)
             PROVE  Selected(InjectWorkspace(query, slug)[i])
                      = {s \in Selected(query[i]) : s.workspace = slug}
  BY DEF Exact
<1>1. query[i] \in Selectors /\ Pinnable(query[i], slug)
  BY DEF Accepted
<1> QED
  BY <1>1, PinExact DEF InjectWorkspace

\* The answer to an expression shows nothing of other workspaces.
LEMMA ShownOwn ==
  ASSUME NEW slug \in Slugs, NEW query \in Queries
  PROVE  Shown(query, slug) \subseteq {slug}
<1>1. query \in Seq(Selectors)
  BY QueriesAssumption
<1>2. CASE ~ Accepted(query, slug)
  BY <1>2 DEF Shown
<1>3. CASE Accepted(query, slug)
  <2> DEFINE sent == InjectWorkspace(query, slug)
  <2>1. Len(sent) = Len(query)
    BY <1>1 DEF InjectWorkspace
  <2>2. \A i \in 1..Len(sent) : \A s \in Selected(sent[i]) : s.workspace = slug
    BY <1>1, <1>3, <2>1, InjectExact DEF Exact
  <2>3. Shown(query, slug) = {s.workspace : s \in UNION {Selected(sent[i]) : i \in 1..Len(sent)}}
    BY <1>3 DEF Shown
  <2> QED
    BY <2>2, <2>3
<1> QED
  BY <1>2, <1>3

-----------------------------------------------------------------------------
(* The inductive invariant. *)

TablesOK ==
  /\ accounts \subseteq Users
  /\ spaces \subseteq Slugs
  /\ members \subseteq spaces \X accounts
  /\ login \in [Users -> [slug : Claims \cup {Idle}, read : 0..now]]
  /\ tokens \subseteq [user : Users, slug : Claims, read : 0..now, iat : 0..now]
  /\ streams \subseteq Accesses(now)
  /\ changes \in 0..MaxChanges
  /\ reached \subseteq Accesses(now)
  /\ left \in [Slugs \X Users -> -1..now]

\* The pair p was one of members at or after the time t.
Since(p, t) == p \in members \/ left[p] >= t

FreshLogins ==
  \A u \in Users : login[u].slug \in Slugs => Since(<<login[u].slug, u>>, login[u].read)

FreshTokens ==
  \A k \in tokens :
    /\ k.read <= k.iat
    /\ k.slug \in Slugs => Since(<<k.slug, k.user>>, k.read)

FreshStreams == \A a \in streams : InTime(a)

SInv ==
  /\ IInv
  /\ TablesOK
  /\ FreshLogins
  /\ FreshTokens
  /\ FreshStreams
  /\ AccessExpires

LEMMA SInvInit == SessionsInit => SInv
<1> SUFFICES ASSUME SessionsInit PROVE SInv
  OBVIOUS
<1>1. Init /\ now = 0
  BY DEF SessionsInit, Init
<1>2. TablesOK
  BY <1>1, SessionsFacts DEF SessionsInit, TablesOK, Claims, NoLogin
<1>3. FreshLogins /\ FreshTokens /\ FreshStreams /\ AccessExpires
  BY SessionsFacts DEF SessionsInit, FreshLogins, FreshTokens, FreshStreams, AccessExpires,
                       NoLogin
<1> QED
  BY <1>1, <1>2, <1>3, IInvInit DEF SInv

\* Every step is one of the limiter or leaves it alone.
LEMMA LimiterStep ==
  ASSUME TablesOK, [SessionsNext]_sessionVars
  PROVE  [Next]_vars
<1>1. CASE Passes
  BY <1>1 DEF Passes, Next
<1>2. CASE Administer
  BY <1>2 DEF Administer, vars, limiter
<1>3. CASE \E u \in Users : LoginRead(u) \/ LoginIssue(u)
  BY <1>3 DEF LoginRead, LoginIssue
<1>4. ASSUME NEW k \in tokens, Admit(k) PROVE Next
  BY <1>4 DEF Admit, Next, TablesOK
<1>5. CASE Request
  BY <1>5, <1>4 DEF Request, Denied, View, ManageMembers, QueryRange, OpenStream, Served
<1>6. CASE \E a \in streams : Delivers(a) \/ CloseStream(a)
  BY <1>6 DEF Delivers, CloseStream
<1>7. CASE UNCHANGED sessionVars
  BY <1>7 DEF sessionVars
<1> QED
  BY <1>1, <1>2, <1>3, <1>5, <1>6, <1>7 DEF SessionsNext

\* A change of the tables that records who leaves keeps all that is fresh.
LEMMA RecordedKeeps ==
  ASSUME SInv, TablesOK', now' = now,
         \A p \in Slugs \X Users : /\ p \in members /\ p \notin members' => left'[p] = now
                                   /\ left'[p] >= left[p]
  PROVE  \A p \in Slugs \X Users : \A t \in 0..now : Since(p, t) => Since(p, t)'
<1> SUFFICES ASSUME NEW p \in Slugs \X Users, NEW t \in 0..now, Since(p, t)
             PROVE  p \in members' \/ left'[p] >= t
  BY DEF Since
<1>1. now \in Nat /\ left[p] \in Int /\ left'[p] \in Int
  BY DEF SInv, IInv, TypeOK, TablesOK
<1> QED
  BY <1>1 DEF Since

\* And what was let through in time stays so: who leaves now, leaves after it.
LEMMA InTimeKept ==
  ASSUME SInv, TablesOK', now' = now, NEW a \in Accesses(now), InTime(a),
         \A p \in Slugs \X Users : /\ p \in members /\ p \notin members' => left'[p] = now
                                   /\ left'[p] >= left[p]
  PROVE  InTime(a)'
<1> DEFINE p == <<a.slug, a.user>>
<1>1. p \in Slugs \X Users /\ a.at \in 0..now /\ a.late \in Nat
  BY DEF Accesses, SInv, IInv, TypeOK
<1>2. now \in Nat /\ left[p] \in Int /\ left'[p] \in Int /\ TTL \in Nat \ {0}
  BY <1>1, SessionsFacts DEF SInv, IInv, TypeOK, TablesOK
<1>3. p \in members \/ (left[p] >= 0 /\ a.at < left[p] + TTL + a.late)
  BY DEF InTime
<1>4. CASE p \in members /\ p \notin members'
  <2>1. left'[p] = now
    BY <1>1, <1>4
  <2>2. left'[p] >= 0 /\ a.at < left'[p] + TTL + a.late
    BY <1>1, <1>2, <2>1
  <2> QED
    BY <2>2 DEF InTime
<1>5. CASE p \notin members /\ p \notin members'
  <2>1. left'[p] >= left[p]
    BY <1>1
  <2>2. left'[p] >= 0 /\ a.at < left'[p] + TTL + a.late
    BY <1>1, <1>2, <1>3, <1>5, <2>1
  <2> QED
    BY <2>2 DEF InTime
<1>6. CASE p \in members'
  BY <1>6 DEF InTime
<1> QED
  BY <1>4, <1>5, <1>6

\* The statements of the tables do record it.
LEMMA GoneRecords ==
  ASSUME SInv, NEW pairs, Gone(pairs)
  PROVE  \A p \in Slugs \X Users : /\ p \in members /\ p \notin members' => left'[p] = now
                                   /\ left'[p] >= left[p]
                                   /\ left'[p] \in -1..now
<1>1. now \in Nat /\ left \in [Slugs \X Users -> -1..now]
  BY DEF SInv, IInv, TypeOK, TablesOK
<1> QED
  BY <1>1 DEF Gone

LEMMA AddRecords ==
  ASSUME SInv, NEW s \in Slugs, NEW u \in Users, AddWorkspaceMember(s, u)
  PROVE  /\ members' \subseteq spaces \X accounts
         /\ left' = left
         /\ members \subseteq members'
  BY DEF SInv, TablesOK, AddWorkspaceMember

LEMMA PassesKeeps ==
  ASSUME SInv, Passes
  PROVE  (TablesOK /\ FreshLogins /\ FreshTokens /\ FreshStreams /\ AccessExpires)'
<1>1. now \in Nat /\ now' = now + 1
  BY DEF SInv, IInv, TypeOK, Passes, Tick
<1>2. /\ UNCHANGED <<accounts, spaces, members, login, tokens, streams, changes, left>>
      /\ reached' = {}
  BY DEF Passes
<1>3. 0..now \subseteq 0..now' /\ -1..now \subseteq -1..now'
  BY <1>1
<1>4. TablesOK'
  BY <1>2, <1>3 DEF SInv, TablesOK, Accesses
<1>5. FreshLogins' /\ FreshTokens' /\ FreshStreams' /\ AccessExpires'
  BY <1>2 DEF SInv, FreshLogins, FreshTokens, FreshStreams, AccessExpires, Since, InTime
<1> QED
  BY <1>4, <1>5

\* Whatever changes the members keeps what is fresh when it issues no token.
LEMMA FreshKept ==
  ASSUME SInv, TablesOK', UNCHANGED <<now, login, tokens>>,
         \A p \in Slugs \X Users : /\ p \in members /\ p \notin members' => left'[p] = now
                                   /\ left'[p] >= left[p]
  PROVE  /\ FreshLogins' /\ FreshTokens'
         /\ \A a \in streams : InTime(a)'
<1>1. \A p \in Slugs \X Users : \A t \in 0..now : Since(p, t) => Since(p, t)'
  BY RecordedKeeps
<1>2. FreshLogins'
  <2> SUFFICES ASSUME NEW u \in Users, login[u].slug \in Slugs
               PROVE  Since(<<login[u].slug, u>>, login[u].read)'
    BY DEF FreshLogins
  <2>1. Since(<<login[u].slug, u>>, login[u].read) /\ login[u].read \in 0..now
    BY DEF SInv, FreshLogins, TablesOK
  <2> QED
    BY <2>1, <1>1 DEF Since
<1>3. FreshTokens'
  <2> SUFFICES ASSUME NEW k \in tokens
               PROVE  /\ k.read <= k.iat
                      /\ k.slug \in Slugs => Since(<<k.slug, k.user>>, k.read)'
    BY DEF FreshTokens
  <2>1. k.read <= k.iat /\ k.user \in Users /\ k.read \in 0..now
    BY DEF SInv, FreshTokens, TablesOK
  <2>2. k.slug \in Slugs => Since(<<k.slug, k.user>>, k.read)
    BY DEF SInv, FreshTokens
  <2> QED
    BY <2>1, <2>2, <1>1 DEF Since
<1>4. ASSUME NEW a \in streams PROVE InTime(a)'
  <2>1. a \in Accesses(now) /\ InTime(a)
    BY DEF SInv, TablesOK, FreshStreams
  <2> QED
    BY <2>1, InTimeKept
<1> QED
  BY <1>2, <1>3, <1>4

\* What a step that changes the tables and issues no token has to show.
Recorded ==
  /\ accounts' \subseteq Users
  /\ spaces' \subseteq Slugs
  /\ members' \subseteq spaces' \X accounts'
  /\ left' \in [Slugs \X Users -> -1..now]
  /\ \A p \in Slugs \X Users : /\ p \in members /\ p \notin members' => left'[p] = now
                               /\ left'[p] >= left[p]

LEMMA UnchangedLeft ==
  ASSUME SInv, left' = left, members \subseteq members'
  PROVE  /\ left' \in [Slugs \X Users -> -1..now]
         /\ \A p \in Slugs \X Users : /\ p \in members /\ p \notin members' => left'[p] = now
                                      /\ left'[p] >= left[p]
<1>1. left \in [Slugs \X Users -> -1..now] /\ now \in Nat
  BY DEF SInv, IInv, TypeOK, TablesOK
<1> QED
  BY <1>1

LEMMA GoneLeft ==
  ASSUME SInv, NEW pairs, Gone(pairs)
  PROVE  left' \in [Slugs \X Users -> -1..now]
<1>1. left \in [Slugs \X Users -> -1..now] /\ now \in Nat
  BY DEF SInv, IInv, TypeOK, TablesOK
<1>2. now \in -1..now
  BY <1>1
<1> QED
  BY <1>1, <1>2 DEF Gone

LEMMA MembersRecorded ==
  ASSUME SInv, NEW s \in Slugs, NEW u \in Users, UNCHANGED <<accounts, spaces>>,
         AddWorkspaceMember(s, u) \/ RemoveWorkspaceMember(s, u)
  PROVE  Recorded
<1>1. TablesOK
  BY DEF SInv
<1>2. CASE AddWorkspaceMember(s, u)
  BY <1>1, <1>2, AddRecords, UnchangedLeft DEF Recorded, TablesOK
<1>3. CASE RemoveWorkspaceMember(s, u)
  <2>1. Gone({<<s, u>>})
    BY <1>3 DEF RemoveWorkspaceMember
  <2>2. members' \subseteq spaces \X accounts
    BY <2>1, <1>1 DEF Gone, TablesOK
  <2> QED
    BY <1>1, <2>1, <2>2, GoneLeft, GoneRecords DEF Recorded, TablesOK
<1> QED
  BY <1>2, <1>3

LEMMA AdministerKeeps ==
  ASSUME SInv, Administer
  PROVE  (TablesOK /\ FreshLogins /\ FreshTokens /\ FreshStreams /\ AccessExpires)'
<1>1. TablesOK /\ now \in Nat /\ now' = now /\ UNCHANGED <<login, tokens, streams>> /\ reached' = {}
  BY DEF SInv, IInv, TypeOK, Administer
<1>2. changes' \in 0..MaxChanges
  BY <1>1, SessionsFacts DEF TablesOK, Administer
<1>3. Recorded
  <2>1. CASE \E u \in Users \ accounts :
               accounts' = accounts \cup {u} /\ UNCHANGED <<spaces, members, left>>
    BY <2>1, <1>1, UnchangedLeft DEF TablesOK, Recorded
  <2>2. ASSUME NEW u \in accounts, accounts' = accounts \ {u}, Gone(Slugs \X {u}),
               UNCHANGED spaces
        PROVE  Recorded
    <3>1. members' \subseteq spaces \X accounts'
      BY <2>2, <1>1 DEF TablesOK, Gone
    <3> QED
      BY <2>2, <1>1, <3>1, GoneRecords, GoneLeft DEF TablesOK, Recorded
  <2>3. CASE \E s \in Slugs \ spaces :
               spaces' = spaces \cup {s} /\ UNCHANGED <<accounts, members, left>>
    BY <2>3, <1>1, UnchangedLeft DEF TablesOK, Recorded
  <2>4. ASSUME NEW s \in spaces, spaces' = spaces \ {s}, Gone({s} \X Users),
               UNCHANGED accounts
        PROVE  Recorded
    <3>1. members' \subseteq spaces' \X accounts
      BY <2>4, <1>1 DEF TablesOK, Gone
    <3> QED
      BY <2>4, <1>1, <3>1, GoneRecords, GoneLeft DEF TablesOK, Recorded
  <2>5. ASSUME NEW s \in Slugs, NEW u \in Users, UNCHANGED <<accounts, spaces>>,
               AddWorkspaceMember(s, u) \/ RemoveWorkspaceMember(s, u)
        PROVE  Recorded
    BY <2>5, MembersRecorded
  <2> QED
    BY <2>1, <2>2, <2>3, <2>4, <2>5 DEF Administer
<1>4. TablesOK'
  BY <1>1, <1>2, <1>3 DEF TablesOK, Recorded
<1> QED
  BY <1>1, <1>3, <1>4, FreshKept DEF Recorded, FreshStreams, AccessExpires

LEMMA LoginReadKeeps ==
  ASSUME SInv, NEW u \in Users, LoginRead(u)
  PROVE  (TablesOK /\ FreshLogins /\ FreshTokens /\ FreshStreams /\ AccessExpires)'
<1>1. /\ TablesOK /\ now \in Nat /\ reached' = {}
      /\ UNCHANGED <<vars, accounts, spaces, members, tokens, streams, changes, left>>
  BY DEF SInv, IInv, TypeOK, LoginRead
<1>2. PICK s \in Memberships(u) \cup {NoSlug} :
        login' = [login EXCEPT ![u] = [slug |-> s, read |-> now]]
  BY DEF LoginRead
<1>3. now' = now /\ s \in Claims
  BY <1>1, <1>2 DEF Claims, Memberships, vars
<1>4. TablesOK'
  BY <1>1, <1>2, <1>3 DEF TablesOK
<1>5. FreshLogins'
  <2>1. s \in Slugs => <<s, u>> \in members
    BY <1>2, SessionsFacts DEF Memberships
  <2> QED
    BY <1>1, <1>2, <2>1 DEF SInv, TablesOK, FreshLogins, Since
<1>6. FreshTokens' /\ FreshStreams' /\ AccessExpires'
  BY <1>1 DEF SInv, FreshTokens, FreshStreams, Since, InTime, AccessExpires
<1> QED
  BY <1>4, <1>5, <1>6

LEMMA LoginIssueKeeps ==
  ASSUME SInv, NEW u \in Users, LoginIssue(u)
  PROVE  (TablesOK /\ FreshLogins /\ FreshTokens /\ FreshStreams /\ AccessExpires)'
<1> DEFINE new == [user |-> u, slug |-> login[u].slug, read |-> login[u].read, iat |-> now]
<1>1. /\ TablesOK /\ reached' = {}
      /\ UNCHANGED <<vars, accounts, spaces, members, streams, changes, left>>
  BY DEF SInv, LoginIssue
<1>2. /\ tokens' = tokens \cup {new} /\ login' = [login EXCEPT ![u] = NoLogin]
      /\ now' = now /\ now \in Nat
  BY DEF SInv, IInv, TypeOK, LoginIssue, vars
<1>3. login[u].slug \in Claims
  <2>1. login[u] \in [slug : Claims \cup {Idle}, read : 0..now]
    BY <1>1 DEF TablesOK
  <2>2. login[u].slug # Idle
    BY DEF LoginIssue
  <2> QED
    BY <2>1, <2>2
<1>4. new \in [user : Users, slug : Claims, read : 0..now, iat : 0..now] /\ new.read <= new.iat
  BY <1>1, <1>2, <1>3 DEF TablesOK
<1>5. NoLogin \in [slug : Claims \cup {Idle}, read : 0..now]
  BY <1>2 DEF NoLogin
<1>6. TablesOK'
  BY <1>1, <1>2, <1>4, <1>5 DEF TablesOK
<1>7. FreshLogins'
  BY <1>1, <1>2, SessionsFacts DEF SInv, TablesOK, FreshLogins, Since, NoLogin
<1>8. FreshTokens'
  <2>1. new.slug \in Slugs => Since(<<new.slug, new.user>>, new.read)
    BY DEF SInv, FreshLogins
  <2> QED
    BY <1>1, <1>2, <1>4, <2>1 DEF SInv, FreshTokens, Since
<1>9. FreshStreams' /\ AccessExpires'
  BY <1>1 DEF SInv, FreshStreams, InTime, AccessExpires
<1> QED
  BY <1>6, <1>7, <1>8, <1>9

\* A request with a token that is served is let through in time to the token's
\* workspace, and so is a stream that it opens.
LEMMA ServedKeeps ==
  ASSUME SInv, NEW k \in tokens, Admit(k), k.slug # NoSlug, Recorded,
         UNCHANGED <<accounts, spaces, login, tokens, changes>>,
         NEW slugs \in SUBSET {k.slug}, Touches(k, slugs),
         streams' \subseteq streams \cup {Access(k, k.slug)}
  PROVE  (TablesOK /\ FreshLogins /\ FreshTokens /\ FreshStreams /\ AccessExpires)'
<1> DEFINE own == <<k.slug, k.user>>
           a == Access(k, k.slug)
<1>1. /\ TablesOK /\ now \in Nat /\ now' = now
      /\ k.slug \in Slugs /\ k.user \in Users /\ k.iat \in 0..now /\ k.read \in 0..now
      /\ k.read <= k.iat
  BY DEF SInv, IInv, TypeOK, TablesOK, FreshTokens, Claims, Admit, Allow
<1>2. /\ a.slug = k.slug /\ a.user = k.user /\ a.at = now /\ a.late = k.iat - k.read
      /\ a \in Accesses(now) /\ own \in Slugs \X Users
  BY <1>1 DEF Access, Accesses
<1>3. reached' \subseteq {a}
  BY DEF Touches
<1>4. TablesOK'
  <2>1. streams' \subseteq Accesses(now') /\ reached' \subseteq Accesses(now')
    BY <1>1, <1>2, <1>3 DEF TablesOK
  <2> HIDE DEF a
  <2> QED
    BY <1>1, <2>1 DEF TablesOK, Recorded
<1>5. FreshLogins' /\ FreshTokens' /\ \A b \in streams : InTime(b)'
  BY <1>1, <1>4, FreshKept DEF Recorded
<1>6. own \in members' \/ left'[own] >= k.read
  <2>1. k \in tokens'
    OBVIOUS
  <2> QED
    BY <2>1, <1>1, <1>5 DEF FreshTokens, Since
<1>7. InTime(a)'
  <2>1. now < k.iat + TTL /\ TTL \in Nat
    BY SessionsFacts DEF Admit, Valid
  <2>2. left'[own] \in Int
    BY <1>1, <1>2 DEF Recorded
  <2>3. own \in members' \/ (left'[own] >= 0 /\ now < left'[own] + TTL + (k.iat - k.read))
    BY <1>1, <1>6, <2>1, <2>2
  <2>4. a' = Access(k, k.slug) /\ a.slug = k.slug /\ a.user = k.user
    BY <1>1 DEF Access
  <2>5. a' = a
    BY <2>4
  <2> HIDE DEF a
  <2> QED
    BY <1>2, <2>3, <2>5 DEF InTime
<1>8. FreshStreams' /\ AccessExpires'
  <2>1. \A b \in streams' : InTime(b)'
    <3>1. a' = a
      BY <1>1 DEF Access
    <3> HIDE DEF a
    <3>2. streams' \subseteq streams \cup {a}
      BY DEF a
    <3> QED
      BY <1>5, <1>7, <3>1, <3>2
  <2>2. \A b \in reached' : InTime(b)'
    <3>1. a' = a
      BY <1>1 DEF Access
    <3> HIDE DEF a
    <3> QED
      BY <1>3, <1>7, <3>1
  <2> QED
    BY <2>1, <2>2 DEF FreshStreams, AccessExpires
<1> QED
  BY <1>4, <1>5, <1>8

\* What goes on in a stream.
LEMMA StreamKeeps ==
  ASSUME SInv, NEW a \in streams, Delivers(a) \/ CloseStream(a)
  PROVE  (TablesOK /\ FreshLogins /\ FreshTokens /\ FreshStreams /\ AccessExpires)'
<1>1. /\ UNCHANGED <<vars, accounts, spaces, members, login, tokens, changes, left>>
      /\ streams' \subseteq streams /\ reached' \subseteq streams
  BY DEF Delivers, CloseStream
<1>2. TablesOK /\ \A b \in streams : InTime(b)
  BY DEF SInv, FreshStreams
<1>3. TablesOK'
  BY <1>1, <1>2 DEF TablesOK, vars
<1>4. FreshLogins' /\ FreshTokens'
  BY <1>1 DEF SInv, FreshLogins, FreshTokens, Since
<1>5. FreshStreams' /\ AccessExpires'
  BY <1>1, <1>2 DEF FreshStreams, AccessExpires, InTime
<1> QED
  BY <1>3, <1>4, <1>5

LEMMA RequestKeeps ==
  ASSUME SInv, Request
  PROVE  (TablesOK /\ FreshLogins /\ FreshTokens /\ FreshStreams /\ AccessExpires)'
<1>1. PICK k \in tokens : \/ Denied(k) \/ View(k) \/ ManageMembers(k) \/ QueryRange(k)
                          \/ OpenStream(k)
  BY DEF Request
<1>2. /\ TablesOK /\ k.slug \in Claims
      /\ UNCHANGED <<members, left>> /\ UNCHANGED <<accounts, spaces>> => Recorded
  BY UnchangedLeft DEF SInv, TablesOK, Recorded
<1>3. CASE Denied(k)
  <2>1. /\ UNCHANGED <<accounts, spaces, members, login, tokens, streams, changes, left>>
        /\ reached' = {} /\ now' = now
    BY <1>3 DEF Denied, Admit, Allow
  <2>2. TablesOK'
    BY <2>1, <1>2 DEF TablesOK
  <2> QED
    BY <2>1, <2>2, <1>2, FreshKept DEF Recorded, FreshStreams, AccessExpires
<1>4. CASE View(k)
  BY <1>2, <1>4, ServedKeeps DEF View, Served
<1>5. CASE ManageMembers(k)
  <2>1. k.slug \in Slugs
    BY <1>2, <1>5 DEF ManageMembers, Served, Claims
  <2>2. Recorded
    BY <1>5, <2>1, MembersRecorded DEF ManageMembers, Served
  <2> QED
    BY <1>5, <2>2, ServedKeeps DEF ManageMembers, Served
<1>6. CASE QueryRange(k)
  <2>1. k.slug \in Slugs
    BY <1>2, <1>6 DEF QueryRange, Served, Claims
  <2>2. Answers[k.slug] = {Shown(query, k.slug) : query \in Queries}
    BY <2>1 DEF Answers
  <2>3. PICK slugs \in Answers[k.slug] : Touches(k, slugs)
    BY <1>6 DEF QueryRange
  <2>4. slugs \subseteq {k.slug}
    BY <2>1, <2>2, <2>3, ShownOwn
  <2> QED
    BY <1>2, <1>6, <2>3, <2>4, ServedKeeps DEF QueryRange, Served
<1>7. CASE OpenStream(k)
  BY <1>2, <1>7, ServedKeeps DEF OpenStream, Served
<1> QED
  BY <1>1, <1>3, <1>4, <1>5, <1>6, <1>7

LEMMA SInvStep == SInv /\ [SessionsNext]_sessionVars => SInv'
<1> SUFFICES ASSUME SInv, [SessionsNext]_sessionVars PROVE SInv'
  OBVIOUS
<1>1. IInv'
  BY LimiterStep, IInvStep DEF SInv
<1>2. (TablesOK /\ FreshLogins /\ FreshTokens /\ FreshStreams /\ AccessExpires)'
  <2>1. CASE Passes
    BY <2>1, PassesKeeps
  <2>2. CASE Administer
    BY <2>2, AdministerKeeps
  <2>3. ASSUME NEW u \in Users, LoginRead(u) \/ LoginIssue(u)
        PROVE  (TablesOK /\ FreshLogins /\ FreshTokens /\ FreshStreams /\ AccessExpires)'
    BY <2>3, LoginReadKeeps, LoginIssueKeeps
  <2>4. CASE Request
    BY <2>4, RequestKeeps
  <2>5. ASSUME NEW a \in streams, Delivers(a) \/ CloseStream(a)
        PROVE  (TablesOK /\ FreshLogins /\ FreshTokens /\ FreshStreams /\ AccessExpires)'
    BY <2>5, StreamKeeps
  <2>6. CASE UNCHANGED sessionVars
    BY <2>6 DEF sessionVars, vars, SInv, TablesOK, FreshLogins, FreshTokens, FreshStreams,
                AccessExpires, Since, InTime
  <2> QED
    BY <2>1, <2>2, <2>3, <2>4, <2>5, <2>6 DEF SessionsNext
<1> QED
  BY <1>1, <1>2 DEF SInv

-----------------------------------------------------------------------------

\* Every reachable state of tables, logins, tokens and buckets is well typed;
\* in particular no member row is left of an account or workspace that is gone.
THEOREM SessionsTyped == SessionsSpec => []SessionsTypeOK
<1>1. SInv => SessionsTypeOK
  BY DEF SInv, IInv, TablesOK, SessionsTypeOK
<1> QED
  BY SInvInit, SInvStep, <1>1, PTL DEF SessionsSpec

\* Whoever reaches a workspace's data is a member of it, or was let through less
\* than a token's lifetime, and the time its login took, after it last was one:
\* however logins, changes of members and deletions of accounts and workspaces
\* interleave with requests and with the streams they have opened.
THEOREM AccessEnds == SessionsSpec => []AccessExpires
<1>1. SInv => AccessExpires
  BY DEF SInv
<1> QED
  BY SInvInit, SInvStep, <1>1, PTL DEF SessionsSpec

\* An expression that is let through is answered from exactly those of the
\* series it asks for that belong to the token's workspace, whatever its
\* selectors and their matchers.
THEOREM QueriesConfined == SessionsSpec => []QueriesScoped
<1>1. SInv => QueriesScoped
  <2> SUFFICES ASSUME TablesOK, NEW k \in tokens, k.slug # NoSlug PROVE AllExact[k.slug]
    BY DEF SInv, QueriesScoped
  <2>1. k.slug \in Slugs
    BY DEF TablesOK, Claims
  <2> QED
    BY <2>1, QueriesAssumption, InjectExact DEF AllExact
<1> QED
  BY SInvInit, SInvStep, <1>1, PTL DEF SessionsSpec

\* The limiter keeps its bound behind logins, tokens and members too.
THEOREM SessionsBounded == SessionsSpec => []RateBound
<1>1. SInv => RateBound
  BY DEF SInv, IInv, RateOf, RateBound
<1> QED
  BY SInvInit, SInvStep, <1>1, PTL DEF SessionsSpec

\* And its refusals stay earned, whatever else the users do with their tokens.
THEOREM SessionsRefuse == SessionsSpec => []RefusedOverLimit
<1>1. SessionsInit => SInv /\ PInv
  BY SInvInit, PInvInit DEF SessionsInit
<1>2. SInv /\ PInv /\ [SessionsNext]_sessionVars => (SInv /\ PInv)'
  BY SInvStep, LimiterStep, PInvStep DEF SInv
<1> QED
  BY <1>1, <1>2, PaidRefuses, PTL DEF SessionsSpec
=============================================================================
