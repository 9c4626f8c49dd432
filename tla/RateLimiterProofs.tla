-------------------------- MODULE RateLimiterProofs --------------------------
(***************************************************************************)
(* Theorems about RateLimiter, for every rate, capacity and set of callers. *)
(***************************************************************************)
EXTENDS RateLimiter, TLAPS

USE BucketAssumption

(* The level of a bucket that held t at time u, at the later time v. *)
Level(t, u, v) == LET l == t + (v - u) * Rate IN IF l < Capacity THEN l ELSE Capacity

LEMMA RefilledIsLevel ==
    /\ Refilled = Level(tokens, updated, now)
    /\ Refilled' = Level(tokens', updated', now')
BY DEF Refilled, Level

LEMMA LevelFacts ==
    ASSUME NEW t \in 0..Capacity, NEW u \in Nat, NEW v \in Nat, u <= v
    PROVE  /\ Level(t, u, v) \in 0..Capacity /\ t <= Level(t, u, v)
           /\ u = v => Level(t, u, v) = t
           /\ Level(t, u, v + 1) <= Level(t, u, v) + Rate
<1> DEFINE earned == (v - u) * Rate
           later == (v + 1 - u) * Rate
<1>1. later = earned + Rate /\ earned \in Nat /\ (u = v => earned = 0)
  OBVIOUS
<1>2. Level(t, u, v) = IF t + earned < Capacity THEN t + earned ELSE Capacity
  BY DEF Level
<1>3. Level(t, u, v + 1) = IF t + later < Capacity THEN t + later ELSE Capacity
  BY DEF Level
<1> HIDE DEF earned, later
<1> QED
  BY <1>1, <1>2, <1>3

LEMMA RefilledRange == TypeOK => Refilled \in 0..Capacity /\ tokens <= Refilled
<1>1. TypeOK => tokens \in 0..Capacity /\ updated \in Nat /\ now \in Nat /\ updated <= now
  BY DEF TypeOK
<1> QED
  BY <1>1, RefilledIsLevel, LevelFacts

LEMMA SleepType == TypeOK /\ Rate > 0 => \A n \in Requests : Refilled < n => SleepFor(n) \in Nat
<1> SUFFICES ASSUME TypeOK, Rate > 0, NEW n \in Requests, Refilled < n PROVE SleepFor(n) \in Nat
  OBVIOUS
<1>1. Refilled \in Nat /\ n \in Nat
  BY RefilledRange
<1>2. n - Refilled + Rate - 1 \in Nat
  BY <1>1
<1> QED
  BY <1>2 DEF SleepFor

LEMMA JustRefilled ==
    ASSUME NEW t \in 0..Capacity, NEW v \in Nat, now' = v, updated' = v, tokens' = t
    PROVE  Refilled' = t
BY RefilledIsLevel, LevelFacts

(* What granting, and refilling without granting, do to the bucket. *)
LEMMA GrantFacts ==
    ASSUME TypeOK, NEW n \in Requests, Grant(n)
    PROVE  /\ tokens' \in 0..Capacity /\ updated' = now /\ mark' = mark
           /\ used' \in Nat
           /\ used' = IF now >= mark THEN used + n ELSE used
           /\ Rate > 0 => tokens' + n = Refilled
<1>1. Refilled \in 0..Capacity /\ n \in 1..Capacity /\ tokens \in 0..Capacity /\ used \in Nat
  BY RefilledRange DEF TypeOK
<1> QED
  BY <1>1 DEF Grant

LEMMA RefillFacts ==
    ASSUME TypeOK, Refill
    PROVE  tokens' \in 0..Capacity /\ updated' = now /\ tokens' = Refilled
BY RefilledRange DEF Refill

LEMMA LeaveType ==
    ASSUME TypeOK, NEW c \in Callers, Leave(c)
    PROVE  /\ want' \in [Callers -> {0} \cup Requests]
           /\ wakeAt' \in [Callers -> Nat]
           /\ notified' \subseteq Callers
BY DEF TypeOK, Leave

-----------------------------------------------------------------------------
(* Types. *)

LEMMA TurnType == ASSUME TypeOK, NEW c \in Callers, NEW n \in Requests, Turn(c, n) PROVE TypeOK'
<1>1. now' = now /\ closed' = closed /\ now \in 0..MaxTime
  BY DEF Turn, TypeOK
<1>2. CASE closed /\ Leave(c) /\ disturbed' = disturbed \ {c} /\ UNCHANGED <<bucketVars, mark, used>>
  BY <1>1, <1>2, LeaveType DEF TypeOK, bucketVars
<1>3. CASE Grant(n) /\ Leave(c) /\ disturbed' = (disturbed \cup Sleeping) \ {c}
  BY <1>1, <1>3, GrantFacts, LeaveType DEF TypeOK, Sleeping
<1>4. CASE /\ Rate > 0 /\ Refilled < n
           /\ Refill
           /\ want' = [want EXCEPT ![c] = n]
           /\ wakeAt' = [wakeAt EXCEPT ![c] = now + SleepFor(n)]
           /\ notified' = notified \ {c}
           /\ disturbed' = disturbed \ {c}
           /\ UNCHANGED <<mark, used>>
  <2>1. now + SleepFor(n) \in Nat
    BY <1>1, <1>4, SleepType
  <2>2. wakeAt' \in [Callers -> Nat]
    BY <1>4, <2>1 DEF TypeOK
  <2> QED
    BY <1>1, <1>4, <2>2, RefillFacts DEF TypeOK
<1> QED
  BY <1>2, <1>3, <1>4 DEF Turn

LEMMA TypeStep == TypeOK /\ [Next]_vars => TypeOK'
<1> SUFFICES ASSUME TypeOK, [Next]_vars PROVE TypeOK'
  OBVIOUS
<1>1. ASSUME NEW c \in Callers, NEW n \in Requests, Acquire(c, n) PROVE TypeOK'
  BY <1>1, TurnType DEF Acquire
<1>2. ASSUME NEW c \in Callers, Wake(c) PROVE TypeOK'
  <2>1. want[c] \in Requests
    BY <1>2 DEF Wake, TypeOK
  <2> QED
    BY <1>2, <2>1, TurnType DEF Wake
<1>3. ASSUME NEW c \in Callers, Cancel(c) PROVE TypeOK'
  BY <1>3, LeaveType DEF Cancel, TypeOK, bucketVars
<1>4. ASSUME NEW n \in Requests, TryAcquire(n) PROVE TypeOK'
  <2>1. CASE Grant(n) /\ disturbed' = disturbed \cup Sleeping
    BY <1>4, <2>1, GrantFacts DEF TryAcquire, TypeOK, callerVars, Sleeping
  <2>2. CASE Refill /\ UNCHANGED ghostVars
    BY <1>4, <2>2, RefillFacts DEF TryAcquire, TypeOK, callerVars, ghostVars
  <2> QED
    BY <1>4, <2>1, <2>2 DEF TryAcquire
<1>5. CASE Reset
  BY <1>5 DEF Reset, TypeOK, callerVars, Sleeping
<1>6. CASE Close
  BY <1>6 DEF Close, TypeOK, bucketVars, ghostVars, Sleeping
<1>7. CASE Reopen
  <2>1. /\ now' = now /\ closed' = FALSE /\ updated' = now /\ tokens' = tokens
        /\ want' = want /\ wakeAt' = wakeAt /\ mark' = mark /\ used' = used
    BY <1>7 DEF Reopen
  <2>2. now \in 0..MaxTime /\ now \in 0..now
    BY DEF TypeOK
  <2>3. notified' \subseteq Callers /\ disturbed' \subseteq Callers
    BY <1>7 DEF Reopen, Sleeping, TypeOK
  <2> QED
    BY <2>1, <2>2, <2>3 DEF TypeOK
<1>8. CASE Tick
  BY <1>8 DEF Tick, TypeOK, bucketVars, callerVars, ghostVars
<1>9. CASE UNCHANGED vars
  BY <1>9 DEF TypeOK, vars, bucketVars, callerVars, ghostVars
<1> QED
  BY <1>1, <1>2, <1>3, <1>4, <1>5, <1>6, <1>7, <1>8, <1>9 DEF Next

(* Every variable keeps its type; in particular the bucket never holds less *)
(* than nothing or more than its capacity.                                  *)
THEOREM TypeCorrect == Spec => []TypeOK
<1>1. Init => TypeOK
  <2> SUFFICES ASSUME Init PROVE TypeOK
    OBVIOUS
  <2>1. now \in 0..MaxTime /\ tokens \in 0..Capacity /\ updated \in 0..now /\ mark \in 0..MaxTime
    BY DEF Init
  <2>2. want \in [Callers -> {0} \cup Requests] /\ wakeAt \in [Callers -> Nat]
    BY DEF Init
  <2> QED
    BY <2>1, <2>2 DEF Init, TypeOK
<1> QED
  BY <1>1, TypeStep, PTL DEF Spec

-----------------------------------------------------------------------------
(* The rate.  What was granted in the window and what the bucket could grant *)
(* at once do not exceed a full bucket and the refill of the window.         *)

Allowance(v, m) == Capacity + Rate * (v - m)

WindowAt(v, m, x, l) ==
    /\ v < m => x = 0
    /\ v >= m => x + l <= Allowance(v, m)

WindowInv == WindowAt(now, mark, used, Refilled)

LEMMA AllowanceFacts ==
    ASSUME NEW v \in Nat, NEW m \in Nat, v >= m
    PROVE  /\ Allowance(v, m) \in Nat /\ Allowance(v, m) >= Capacity
           /\ Allowance(v + 1, m) = Allowance(v, m) + Rate
<1>1. Rate * (v - m) \in Nat /\ Rate * (v + 1 - m) = Rate * (v - m) + Rate
  OBVIOUS
<1> QED
  BY <1>1 DEF Allowance

(* A step at one moment that takes no more from the bucket than it counts. *)
LEMMA WindowKept ==
    ASSUME NEW v \in Nat, NEW m \in Nat, NEW x \in Nat, NEW l \in Nat,
           NEW x2 \in Nat, NEW l2 \in Nat,
           WindowAt(v, m, x, l),
           v < m => x2 = x,
           v >= m => x2 + l2 <= x + l
    PROVE  WindowAt(v, m, x2, l2)
BY AllowanceFacts DEF WindowAt

(* A tick adds at most Rate to the bucket, and Rate to the allowance. *)
LEMMA WindowTicks ==
    ASSUME NEW v \in Nat, NEW m \in Nat, NEW x \in Nat, NEW l \in 0..Capacity,
           NEW l2 \in 0..Capacity, l2 <= l + Rate,
           WindowAt(v, m, x, l)
    PROVE  WindowAt(v + 1, m, x, l2)
<1>1. CASE v + 1 < m
  BY <1>1 DEF WindowAt
<1>2. CASE v + 1 >= m /\ v < m
  <2>1. x = 0 /\ Allowance(v + 1, m) >= Capacity /\ Allowance(v + 1, m) \in Nat
    BY <1>2, AllowanceFacts DEF WindowAt
  <2> QED
    BY <1>2, <2>1 DEF WindowAt
<1>3. CASE v >= m
  <2>1. Allowance(v + 1, m) = Allowance(v, m) + Rate /\ Allowance(v, m) \in Nat
    BY <1>3, AllowanceFacts
  <2> QED
    BY <1>3, <2>1 DEF WindowAt
<1> QED
  BY <1>1, <1>2, <1>3

LEMMA Numbers ==
    TypeOK => now \in Nat /\ mark \in Nat /\ used \in Nat /\ Refilled \in Nat /\ tokens \in Nat
BY RefilledRange DEF TypeOK

LEMMA GrantKeepsWindow ==
    ASSUME TypeOK, WindowInv, Rate > 0, NEW n \in Requests, Grant(n), now' = now
    PROVE  WindowInv'
<1> DEFINE l2 == Refilled - n
           x2 == IF now >= mark THEN used + n ELSE used
<1>1. l2 \in 0..Capacity /\ tokens' = l2 /\ updated' = now /\ used' = x2 /\ mark' = mark
  <2>1. Refilled \in 0..Capacity /\ n \in 1..Capacity
    BY RefilledRange
  <2> QED
    BY <2>1 DEF Grant
<1>2. x2 \in Nat /\ (now < mark => x2 = used) /\ (now >= mark => x2 + l2 <= used + Refilled)
  BY Numbers
<1>3. Refilled' = l2
  BY <1>1, Numbers, JustRefilled
<1>4. l2 \in Nat
  BY <1>1
<1>5. WindowAt(now, mark, used, Refilled)
  BY DEF WindowInv
<1> HIDE DEF l2, x2
<1>6. WindowAt(now, mark, x2, l2)
  BY <1>2, <1>4, <1>5, Numbers, WindowKept
<1> QED
  BY <1>1, <1>3, <1>6 DEF WindowInv

LEMMA RefillKeepsWindow ==
    ASSUME TypeOK, WindowInv, Refill, now' = now, UNCHANGED <<mark, used>>
    PROVE  WindowInv'
<1>1. Refilled' = Refilled
  BY RefilledRange, Numbers, JustRefilled DEF Refill
<1> QED
  BY <1>1 DEF WindowInv

LEMMA SameWindow ==
    ASSUME WindowInv, UNCHANGED <<now, tokens, updated, mark, used>>
    PROVE  WindowInv'
BY DEF WindowInv, Refilled

LEMMA WindowStep == Rate > 0 /\ TypeOK /\ WindowInv /\ [Next]_vars => WindowInv'
<1> SUFFICES ASSUME Rate > 0, TypeOK, WindowInv, [Next]_vars PROVE WindowInv'
  OBVIOUS
<1>1. ASSUME NEW c \in Callers, NEW n \in Requests, Turn(c, n) PROVE WindowInv'
  <2>1. now' = now
    BY <1>1 DEF Turn
  <2>2. CASE UNCHANGED <<bucketVars, mark, used>>
    BY <2>1, <2>2, SameWindow DEF bucketVars
  <2>3. CASE Grant(n)
    BY <2>1, <2>3, GrantKeepsWindow
  <2>4. CASE Refill /\ UNCHANGED <<mark, used>>
    BY <2>1, <2>4, RefillKeepsWindow
  <2> QED
    BY <1>1, <2>2, <2>3, <2>4 DEF Turn
<1>2. ASSUME NEW c \in Callers, NEW n \in Requests, Acquire(c, n) PROVE WindowInv'
  BY <1>1, <1>2 DEF Acquire
<1>3. ASSUME NEW c \in Callers, Wake(c) PROVE WindowInv'
  <2>1. want[c] \in Requests
    BY <1>3 DEF Wake, TypeOK
  <2> QED
    BY <1>1, <1>3, <2>1 DEF Wake
<1>4. ASSUME NEW n \in Requests, TryAcquire(n) PROVE WindowInv'
  BY <1>4, GrantKeepsWindow, RefillKeepsWindow DEF TryAcquire, ghostVars
<1>5. CASE Reset
  <2> DEFINE m2 == IF now >= mark THEN now ELSE mark
  <2>1. Refilled' = Capacity
    BY <1>5, Numbers, JustRefilled DEF Reset
  <2>2. now' = now /\ used' = 0 /\ mark' = m2 /\ m2 \in Nat
    BY <1>5, Numbers DEF Reset
  <2> HIDE DEF m2
  <2>3. WindowAt(now, m2, 0, Capacity)
    BY <2>2, Numbers, AllowanceFacts DEF WindowAt
  <2> QED
    BY <2>1, <2>2, <2>3 DEF WindowInv
<1>6. CASE Reopen
  <2>1. Refilled' = tokens
    BY <1>6, Numbers, JustRefilled DEF Reopen, TypeOK
  <2>2. WindowAt(now, mark, used, tokens)
    <3>1. used + tokens <= used + Refilled
      BY RefilledRange, Numbers
    <3> QED
      BY <3>1, Numbers, WindowKept DEF WindowInv
  <2> QED
    BY <1>6, <2>1, <2>2 DEF Reopen, WindowInv
<1>7. CASE Tick
  <2>1. /\ now' = now + 1 /\ tokens' = tokens /\ updated' = updated
        /\ mark' = mark /\ used' = used
    BY <1>7 DEF Tick, bucketVars, ghostVars
  <2>2. /\ tokens \in 0..Capacity /\ updated \in Nat /\ now \in Nat /\ now + 1 \in Nat
        /\ updated <= now /\ updated <= now + 1
    BY DEF TypeOK
  <2> DEFINE l2 == Level(tokens, updated, now + 1)
  <2>3. Refilled' = l2
    BY <2>1, RefilledIsLevel
  <2>4. l2 \in 0..Capacity /\ l2 <= Refilled + Rate
    BY <2>2, RefilledIsLevel, LevelFacts
  <2> HIDE DEF l2
  <2>5. WindowAt(now + 1, mark, used, l2)
    BY <2>4, RefilledRange, Numbers, WindowTicks DEF WindowInv
  <2> QED
    BY <2>1, <2>3, <2>5 DEF WindowInv
<1>8. CASE Close \/ (\E c \in Callers : Cancel(c)) \/ UNCHANGED vars
  BY <1>8, SameWindow DEF Close, Cancel, vars, bucketVars, ghostVars
<1> QED
  BY <1>2, <1>3, <1>4, <1>5, <1>6, <1>7, <1>8 DEF Next

LEMMA WindowInit == Init /\ TypeOK => WindowInv
<1> SUFFICES ASSUME Init, TypeOK PROVE WindowInv
  OBVIOUS
<1>1. used = 0 /\ Refilled \in 0..Capacity
  BY RefilledRange DEF Init
<1> QED
  BY <1>1, Numbers, AllowanceFacts DEF WindowInv, WindowAt

LEMMA WindowBounds == TypeOK /\ WindowInv => RateBound
<1> SUFFICES ASSUME TypeOK, WindowInv, now >= mark PROVE used <= Allowance(now, mark)
  BY DEF RateBound, Allowance
<1> QED
  BY Numbers, AllowanceFacts DEF WindowInv, WindowAt

(* No window of time, wherever it starts and however long it is, sees more   *)
(* granted than a full bucket and what the rate refills in it.               *)
THEOREM RateIsBounded == Spec => []RateBound
<1>1. CASE Rate > 0
  <2>1. TypeOK /\ WindowInv /\ [Next]_vars => WindowInv'
    BY <1>1, WindowStep
  <2> QED
    BY <2>1, WindowInit, WindowBounds, TypeCorrect, PTL DEF Spec
<1>2. CASE ~(Rate > 0)
  <2>1. RateBound
    BY <1>2 DEF RateBound
  <2> QED
    BY <2>1, PTL
<1> QED
  BY <1>1, <1>2

-----------------------------------------------------------------------------
(* The sleep.  A caller nobody disturbed gets what it asks for when its      *)
(* timeout ends and not a tick before, counted from the bucket as it is.     *)

EnoughAt(t, u, n, w) ==
    /\ t + (w - 1 - u) * Rate < n
    /\ n <= t + (w - u) * Rate

SleepInv == \A c \in Sleeping \ disturbed : EnoughAt(tokens, updated, want[c], wakeAt[c])

LEMMA Division ==
    ASSUME NEW a \in Nat, NEW d \in Nat \ {0}
    PROVE  a \div d \in Nat /\ (a \div d) * d <= a /\ a < (a \div d) * d + d
OBVIOUS

LEMMA Products ==
    ASSUME NEW u \in Int, NEW v \in Int, NEW w \in Int
    PROVE  /\ (w - u) * Rate \in Int
           /\ (w - u) * Rate = (w - v) * Rate + (v - u) * Rate
           /\ v <= w => (v - u) * Rate <= (w - u) * Rate
<1>1. (w - u) * Rate = (w - v) * Rate + (v - u) * Rate
  OBVIOUS
<1>2. v <= w => (w - v) * Rate \in Nat
  OBVIOUS
<1>3. (w - u) * Rate \in Int /\ (v - u) * Rate \in Int
  OBVIOUS
<1> QED
  BY <1>1, <1>2, <1>3

(* The length of a new sleep. *)
LEMMA SleepLength ==
    ASSUME NEW r \in Nat, NEW n \in Nat, r < n, Rate > 0, NEW v \in Nat
    PROVE  EnoughAt(r, v, n, v + ((n - r + Rate - 1) \div Rate))
<1> DEFINE a == n - r + Rate - 1
           k == a \div Rate
<1>1. a \in Nat /\ a = n - r + Rate - 1 /\ Rate \in Nat \ {0}
  OBVIOUS
<1> HIDE DEF a
<1>2. k \in Nat /\ k * Rate <= a /\ a < k * Rate + Rate /\ k * Rate \in Nat
  BY <1>1, Division
<1> HIDE DEF k
<1>3. (v + k - v) * Rate = k * Rate /\ (v + k - 1 - v) * Rate = k * Rate - Rate
  BY <1>2
<1>4. EnoughAt(r, v, n, v + k)
  BY <1>1, <1>2, <1>3 DEF EnoughAt
<1> QED
  BY <1>4 DEF k, a

(* Refilling a bucket that does not overflow leaves the moment as it is. *)
LEMMA SameMoment ==
    ASSUME NEW t \in Nat, NEW u \in Nat, NEW v \in Nat, NEW n \in Nat, NEW w \in Nat,
           EnoughAt(t, u, n, w)
    PROVE  EnoughAt(t + (v - u) * Rate, v, n, w)
<1>1. /\ (w - u) * Rate = (w - v) * Rate + (v - u) * Rate
      /\ (w - 1 - u) * Rate = (w - 1 - v) * Rate + (v - u) * Rate
  BY Products
<1>2. /\ (w - u) * Rate \in Int /\ (w - v) * Rate \in Int /\ (v - u) * Rate \in Int
      /\ (w - 1 - u) * Rate \in Int /\ (w - 1 - v) * Rate \in Int
  BY Products
<1> QED
  BY <1>1, <1>2 DEF EnoughAt

LEMMA SleeperTypes ==
    ASSUME TypeOK, NEW c \in Sleeping
    PROVE  /\ c \in Callers /\ want[c] \in Requests /\ want[c] \in Nat /\ wakeAt[c] \in Nat
           /\ want[c] <= Capacity
<1>1. c \in Callers /\ want[c] \in {0} \cup Requests /\ want[c] > 0 /\ wakeAt[c] \in Nat
  BY DEF TypeOK, Sleeping
<1>2. want[c] \in Requests
  BY <1>1
<1>3. Requests \subseteq 1..Capacity /\ Capacity \in Nat
  OBVIOUS
<1>4. want[c] \in 1..Capacity
  BY <1>2, <1>3
<1>5. want[c] \in Nat /\ want[c] <= Capacity
  BY <1>3, <1>4
<1> QED
  BY <1>1, <1>2, <1>5

(* A refill that is too little for somebody does not overflow. *)
LEMMA RefillKeepsMoment ==
    ASSUME TypeOK, SleepInv, NEW n \in Requests, Refilled < n, Refill,
           NEW c \in Sleeping \ disturbed
    PROVE  EnoughAt(tokens', updated', want[c], wakeAt[c])
<1>1. Refilled = tokens + (now - updated) * Rate
  BY DEF Refilled
<1>2. EnoughAt(tokens, updated, want[c], wakeAt[c])
  BY DEF SleepInv
<1>3. tokens \in Nat /\ updated \in Nat /\ now \in Nat
  BY DEF TypeOK
<1> QED
  BY <1>1, <1>2, <1>3, SleeperTypes, SameMoment DEF Refill

LEMMA SameSleepers ==
    ASSUME SleepInv, UNCHANGED <<tokens, updated, wakeAt>>, disturbed' = disturbed, want' = want
    PROVE  SleepInv'
BY DEF SleepInv, Sleeping

LEMMA AllDisturbed == ASSUME Sleeping' \subseteq disturbed' PROVE SleepInv'
BY DEF SleepInv

(* A caller that leaves does not disturb the others. *)
LEMMA LeaveKeepsSleep ==
    ASSUME TypeOK, SleepInv, NEW c \in Callers, Leave(c), disturbed' = disturbed \ {c},
           UNCHANGED bucketVars
    PROVE  SleepInv'
<1>1. want'[c] = 0 /\ \A d \in Callers \ {c} : want'[d] = want[d]
  BY DEF Leave, TypeOK
<1>2. wakeAt' = wakeAt /\ tokens' = tokens /\ updated' = updated
  BY DEF Leave, bucketVars
<1>3. Sleeping' \ disturbed' = (Sleeping \ disturbed) \ {c}
  BY <1>1 DEF Sleeping
<1> QED
  BY <1>1, <1>2, <1>3 DEF SleepInv, Sleeping

LEMMA TurnSleeps ==
    ASSUME TypeOK, SleepInv, NEW c \in Callers, NEW n \in Requests, Turn(c, n)
    PROVE  SleepInv'
<1>1. CASE closed /\ Leave(c) /\ disturbed' = disturbed \ {c} /\ UNCHANGED <<bucketVars, mark, used>>
  BY <1>1, LeaveKeepsSleep
<1>2. CASE Leave(c) /\ disturbed' = (disturbed \cup Sleeping) \ {c}
  <2>1. c \notin Sleeping' /\ Sleeping' \subseteq Sleeping
    BY <1>2 DEF Leave, TypeOK, Sleeping
  <2> QED
    BY <1>2, <2>1, AllDisturbed
<1>3. CASE /\ Rate > 0 /\ Refilled < n
           /\ Refill
           /\ want' = [want EXCEPT ![c] = n]
           /\ wakeAt' = [wakeAt EXCEPT ![c] = now + SleepFor(n)]
           /\ disturbed' = disturbed \ {c}
  <2>1. /\ want'[c] = n /\ wakeAt'[c] = now + SleepFor(n)
        /\ \A d \in Callers \ {c} : want'[d] = want[d] /\ wakeAt'[d] = wakeAt[d]
    BY <1>3 DEF TypeOK
  <2>2. EnoughAt(tokens', updated', want'[c], wakeAt'[c])
    <3>1. Refilled \in Nat /\ now \in Nat /\ n \in Nat
      BY Numbers
    <3>2. EnoughAt(Refilled, now, n, now + SleepFor(n))
      BY <1>3, <3>1, SleepLength DEF SleepFor
    <3> QED
      BY <1>3, <2>1, <3>2 DEF Refill
  <2>3. ASSUME NEW d \in Sleeping' \ disturbed', d # c
        PROVE  EnoughAt(tokens', updated', want'[d], wakeAt'[d])
    <3>1. d \in Callers /\ want'[d] = want[d] /\ wakeAt'[d] = wakeAt[d]
      BY <2>1, <2>3 DEF Sleeping
    <3>2. d \in Sleeping \ disturbed
      BY <1>3, <2>3, <3>1 DEF Sleeping
    <3> QED
      BY <1>3, <3>1, <3>2, RefillKeepsMoment
  <2> QED
    BY <2>2, <2>3 DEF SleepInv
<1> QED
  BY <1>1, <1>2, <1>3 DEF Turn

LEMMA SleepStep == TypeOK /\ SleepInv /\ [Next]_vars => SleepInv'
<1> SUFFICES ASSUME TypeOK, SleepInv, [Next]_vars PROVE SleepInv'
  OBVIOUS
<1>1. ASSUME NEW c \in Callers, NEW n \in Requests, Acquire(c, n) PROVE SleepInv'
  BY <1>1, TurnSleeps DEF Acquire
<1>2. ASSUME NEW c \in Callers, Wake(c) PROVE SleepInv'
  <2>1. want[c] \in Requests
    BY <1>2 DEF Wake, TypeOK
  <2> QED
    BY <1>2, <2>1, TurnSleeps DEF Wake
<1>3. ASSUME NEW c \in Callers, Cancel(c) PROVE SleepInv'
  BY <1>3, LeaveKeepsSleep DEF Cancel
<1>4. ASSUME NEW n \in Requests, TryAcquire(n) PROVE SleepInv'
  <2>1. CASE disturbed' = disturbed \cup Sleeping /\ UNCHANGED callerVars
    BY <2>1, AllDisturbed DEF callerVars, Sleeping
  <2>2. CASE Refilled < n /\ Refill /\ UNCHANGED <<ghostVars, callerVars>>
    <3>1. want' = want /\ wakeAt' = wakeAt /\ disturbed' = disturbed /\ Sleeping' = Sleeping
      BY <2>2 DEF ghostVars, callerVars, Sleeping
    <3> QED
      BY <2>2, <3>1, RefillKeepsMoment DEF SleepInv
  <2> QED
    BY <1>4, <2>1, <2>2 DEF TryAcquire
<1>5. CASE Reset
  BY <1>5, AllDisturbed DEF Reset, callerVars, Sleeping
<1>6. CASE Reopen
  BY <1>6, AllDisturbed DEF Reopen, Sleeping
<1>7. CASE Close \/ Tick \/ UNCHANGED vars
  BY <1>7, SameSleepers DEF Close, Tick, vars, bucketVars, callerVars, ghostVars
<1> QED
  BY <1>1, <1>2, <1>3, <1>4, <1>5, <1>6, <1>7 DEF Next

LEMMA EnoughWhenDue ==
    ASSUME NEW t \in Nat, NEW u \in Nat, NEW v \in Nat, NEW n \in Nat, NEW w \in Nat,
           n <= Capacity, EnoughAt(t, u, n, w)
    PROVE  Level(t, u, v) >= n <=> v >= w
<1>1. /\ (v - u) * Rate \in Int /\ (w - u) * Rate \in Int /\ (w - 1 - u) * Rate \in Int
      /\ w <= v => (w - u) * Rate <= (v - u) * Rate
      /\ v <= w - 1 => (v - u) * Rate <= (w - 1 - u) * Rate
  BY Products
<1>2. t + (v - u) * Rate >= n <=> v >= w
  BY <1>1 DEF EnoughAt
<1> QED
  BY <1>1, <1>2 DEF Level

(* A caller sleeps exactly as long as it must, for every rate, bucket and    *)
(* request and however often others refill the bucket in between, unless a   *)
(* grant, a reset or a reopening took away what it had counted on.           *)
THEOREM SleepsAreExact == Spec => []SleepIsExact
<1>1. Init => SleepInv
  <2>1. Init => Sleeping = {}
    BY DEF Init, Sleeping
  <2> QED
    BY <2>1 DEF SleepInv
<1>2. TypeOK /\ SleepInv => SleepIsExact
  <2> SUFFICES ASSUME TypeOK, SleepInv, NEW c \in Sleeping \ disturbed
               PROVE  Refilled >= want[c] <=> now >= wakeAt[c]
    BY DEF SleepIsExact
  <2>1. EnoughAt(tokens, updated, want[c], wakeAt[c])
    BY DEF SleepInv
  <2>2. tokens \in Nat /\ updated \in Nat /\ now \in Nat
    BY DEF TypeOK
  <2> QED
    BY <2>1, <2>2, SleeperTypes, EnoughWhenDue, RefilledIsLevel
<1> QED
  BY <1>1, <1>2, SleepStep, TypeCorrect, PTL DEF Spec
=============================================================================
