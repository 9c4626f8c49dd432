----------------------------- MODULE RateLimiter -----------------------------
(***************************************************************************)
(* rate_limiter.AsyncRateLimiter: a token bucket shared by asyncio tasks.  *)
(* The condition's lock is never held across a suspension, so one turn of  *)
(* the loop in acquire() is one step; between two turns a caller sleeps    *)
(* until its timeout or a notify_all().                                    *)
(*                                                                         *)
(* Tokens are counted in a unit small enough to make the refill of one     *)
(* tick of the monotonic clock, Rate, a whole number; a call of acquire()  *)
(* asks for several of these units.  Rounding of floats is not modelled.   *)
(***************************************************************************)
EXTENDS Integers

CONSTANTS
    Callers,    \* tasks
    Rate,       \* units refilled in a tick; 0 = unlimited
    Capacity,   \* units the bucket holds
    Requests,   \* units a call asks for
    MaxTime     \* bound on the clock

ASSUME BucketAssumption ==
    /\ Rate \in Nat
    /\ Capacity \in Nat \ {0}
    /\ Requests \subseteq 1..Capacity
    /\ MaxTime \in Nat

VARIABLES
    now,        \* time.monotonic()
    tokens,     \* _tokens
    updated,    \* _updated_at
    closed,     \* _closed
    want,       \* units a caller asks for, 0 = not inside acquire()
    wakeAt,     \* when the timeout of its wait ends
    notified,   \* callers woken by notify_all() that have not run yet
    (* history variables, read by properties only *)
    mark,       \* start of some window of time, chosen at the beginning
    used,       \* units granted in the window
    disturbed   \* sleeping callers for whom something changed meanwhile

bucketVars == <<tokens, updated>>
callerVars == <<want, wakeAt, notified>>
ghostVars == <<mark, used, disturbed>>
vars == <<now, bucketVars, closed, callerVars, ghostVars>>

TypeOK ==
    /\ now \in 0..MaxTime
    /\ tokens \in 0..Capacity
    /\ updated \in 0..now
    /\ closed \in BOOLEAN
    /\ want \in [Callers -> {0} \cup Requests]
    /\ wakeAt \in [Callers -> Nat]
    /\ notified \subseteq Callers
    /\ mark \in 0..MaxTime
    /\ used \in Nat
    /\ disturbed \subseteq Callers

Init ==
    /\ now = 0
    /\ tokens = Capacity
    /\ updated = 0
    /\ closed = FALSE
    /\ want = [c \in Callers |-> 0]
    /\ wakeAt = [c \in Callers |-> 0]
    /\ notified = {}
    /\ mark \in 0..MaxTime
    /\ used = 0
    /\ disturbed = {}

Sleeping == {c \in Callers : want[c] > 0}

-----------------------------------------------------------------------------
(* Mutant of Refilled: the bucket has no bottom. *)
RefilledUncapped == tokens + (now - updated) * Rate

(* _refill: what the bucket holds now. *)
Refilled ==
    LET level == tokens + (now - updated) * Rate
    IN  IF level < Capacity THEN level ELSE Capacity

(* Mutant of SleepFor: the whole request is waited for. *)
SleepForAll(n) == (n + Rate - 1) \div Rate

(* Ticks until n units are there. *)
SleepFor(n) == (n - Refilled + Rate - 1) \div Rate

Refill ==
    /\ tokens' = Refilled
    /\ updated' = now

(* n units are granted in this step. *)
Grant(n) ==
    /\ IF Rate = 0
       THEN UNCHANGED tokens
       ELSE /\ Refilled >= n
            /\ tokens' = Refilled - n
    /\ updated' = now
    /\ used' = IF now >= mark THEN used + n ELSE used
    /\ UNCHANGED mark

(* Caller c is out of acquire(), with or without what it asked for. *)
Leave(c) ==
    /\ want' = [want EXCEPT ![c] = 0]
    /\ notified' = notified \ {c}
    /\ UNCHANGED wakeAt

(* One turn of the loop in acquire(n): raise when closed, take, or sleep. *)
Turn(c, n) ==
    /\ \/ /\ closed
          /\ Leave(c)
          /\ disturbed' = disturbed \ {c}
          /\ UNCHANGED <<bucketVars, mark, used>>
       \/ /\ ~closed
          /\ Grant(n)
          /\ Leave(c)
          /\ disturbed' = (disturbed \cup Sleeping) \ {c}
       \/ /\ ~closed /\ Rate > 0 /\ Refilled < n
          /\ Refill
          /\ want' = [want EXCEPT ![c] = n]
          /\ wakeAt' = [wakeAt EXCEPT ![c] = now + SleepFor(n)]
          /\ notified' = notified \ {c}
          /\ disturbed' = disturbed \ {c}
          /\ UNCHANGED <<mark, used>>
    /\ UNCHANGED <<now, closed>>

Acquire(c, n) == want[c] = 0 /\ Turn(c, n)

(* The timeout of wait_for, or a notification, ends the sleep. *)
Wake(c) ==
    /\ want[c] > 0
    /\ wakeAt[c] <= now \/ c \in notified
    /\ Turn(c, want[c])

(* The task is cancelled while it waits. *)
Cancel(c) ==
    /\ want[c] > 0
    /\ Leave(c)
    /\ disturbed' = disturbed \ {c}
    /\ UNCHANGED <<now, bucketVars, closed, mark, used>>

(* try_acquire: never waits. *)
TryAcquire(n) ==
    /\ ~closed
    /\ \/ /\ Grant(n)
          /\ disturbed' = disturbed \cup Sleeping
       \/ /\ Rate > 0 /\ Refilled < n
          /\ Refill
          /\ UNCHANGED ghostVars
    /\ UNCHANGED <<now, closed, callerVars>>

(* reset: a full bucket; the window of the history variables starts anew. *)
Reset ==
    /\ tokens' = Capacity
    /\ updated' = now
    /\ used' = 0
    /\ mark' = IF now >= mark THEN now ELSE mark
    /\ disturbed' = disturbed \cup Sleeping
    /\ UNCHANGED <<now, closed, callerVars>>

(* close: notify_all makes every waiter raise at its next turn. *)
Close ==
    /\ closed' = TRUE
    /\ notified' = Sleeping
    /\ UNCHANGED <<now, bucketVars, want, wakeAt, ghostVars>>

(* Mutant of Reopen: the time closed is credited twice. *)
ReopenRefilled ==
    /\ closed' = FALSE
    /\ tokens' = Refilled
    /\ notified' = Sleeping
    /\ UNCHANGED <<now, updated, want, wakeAt, ghostVars>>

(* reopen: the time since the last refill earns nothing. *)
Reopen ==
    /\ closed' = FALSE
    /\ updated' = now
    /\ notified' = Sleeping
    /\ disturbed' = disturbed \cup Sleeping
    /\ UNCHANGED <<now, tokens, want, wakeAt, mark, used>>

Tick ==
    /\ now < MaxTime
    /\ now' = now + 1
    /\ UNCHANGED <<bucketVars, closed, callerVars, ghostVars>>

Next ==
    \/ \E c \in Callers :
          (\E n \in Requests : Acquire(c, n)) \/ Wake(c) \/ Cancel(c)
    \/ \E n \in Requests : TryAcquire(n)
    \/ Reset \/ Close \/ Reopen
    \/ Tick

Spec == Init /\ [][Next]_vars

-----------------------------------------------------------------------------
(* However callers come, sleep, are cancelled and overtake each other, no    *)
(* window of time sees more granted than a full bucket and the refill of its *)
(* length (a window in which the bucket was reset counts from the reset).    *)
RateBound ==
    Rate > 0 /\ now >= mark => used <= Capacity + Rate * (now - mark)

(* One sleep is exactly as long as it must be: unless something else touched *)
(* the bucket meanwhile, what a caller asked for is there when its timeout   *)
(* ends, and was not there a tick earlier.                                   *)
SleepIsExact ==
    ~closed => \A c \in Sleeping \ disturbed :
        Refilled >= want[c] <=> now >= wakeAt[c]
=============================================================================
