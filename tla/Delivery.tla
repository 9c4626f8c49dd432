------------------------------- MODULE Delivery -------------------------------
(***************************************************************************)
(* The forwarding pipeline of one PluginRuntime: delivery.DeliveryPipeline *)
(* with its DedupStore and RetryQueue, driven by the two asyncio tasks the *)
(* runtime creates, and the stops, crashes and starts around them.         *)
(*                                                                         *)
(*   "receiver"  the MCP client task; handles one message at a time        *)
(*   "worker"    PluginRuntime._retry_loop; works off one batch at a time  *)
(*                                                                         *)
(* The tasks share one event loop, so everything between two awaits that   *)
(* really suspend is one step.  Those awaits are the wait for _send_lock   *)
(* and each call of the sender.  An actor whose part is 0 waits for the    *)
(* lock; an actor whose part is p > 0 holds it and part p is with the      *)
(* sender.                                                                 *)
(***************************************************************************)
EXTENDS Naturals, FiniteSets

CONSTANTS
    Messages,       \* fingerprints of the chat messages that arrive
    Items,          \* identities of accepted messages (bounds the acceptances)
    None,           \* no message / no item
    NumParts,       \* chunks the formatter makes of a message
    MaxAttempts,    \* retry.max_attempts
    MaxQueueSize,   \* retry.max_queue_size
    DropExpired,    \* retry.drop_expired_messages
    ReplayFailed,   \* retry.replay_failed_messages
    DiskFaults,     \* TRUE: writing a state file may raise OSError
    MaxInterrupts   \* bound on the stops and crashes

ASSUME NoneAssumption == None \notin Messages /\ None \notin Items
ASSUME ItemsAssumption == IsFiniteSet(Items)
ASSUME SizesAssumption ==
    /\ NumParts \in Nat \ {0}
    /\ MaxAttempts \in Nat \ {0}
    /\ MaxQueueSize \in Nat
    /\ MaxInterrupts \in Nat
ASSUME SwitchesAssumption == {DropExpired, ReplayFailed, DiskFaults} \subseteq BOOLEAN

VARIABLES
    running,        \* PluginRuntime._started: both tasks exist
    interrupts,     \* stops and crashes so far
    seen, stable,   \* DedupStore: in memory, in its file
    records, file,  \* RetryQueue: in memory, in its file
    ripe, expired,  \* RetryQueue: what the clock says of its records
    msgOf,          \* fingerprint an item was made from; None = not made yet
    job,            \* item an actor is delivering
    part,           \* chunk an actor has with the sender; 0 = waits for the lock
    batch,          \* attempt counts of the due records the worker still has
    (* history variables, read by properties only *)
    high,           \* highest chunk of an item that reached the target
    wire,           \* last chunk that reached the target: <<item, part>>
    failures,       \* failed attempts of an item, up to MaxAttempts + 1
    dropped,        \* items given up: attempts used up, evicted or expired
    lost,           \* items the program forgot without deciding to
    forgot,         \* fingerprints the store let go (TTL, cache_size)
    confirmed,      \* items whose last chunk the sender took without an error
    unacked         \* confirmed items whose record stayed in the queue file

storeVars == <<seen, stable, forgot>>
queueVars == <<records, file, ripe, expired>>
actorVars == <<job, part, batch>>
arrivalVars == <<high, wire>>
fateVars == <<failures, dropped, lost, confirmed, unacked>>
vars == <<running, interrupts, storeVars, queueVars, msgOf, actorVars,
          arrivalVars, fateVars>>

Actors == {"receiver", "worker"}
Other(a) == IF a = "receiver" THEN "worker" ELSE "receiver"

DS == INSTANCE SeenSet WITH Fingerprints <- Messages
RQ == INSTANCE RetrySet

SaveOutcomes == IF DiskFaults THEN BOOLEAN ELSE {TRUE}

TypeOK ==
    /\ running \in BOOLEAN
    /\ interrupts \in 0..MaxInterrupts
    /\ DS!TypeOK
    /\ RQ!TypeOK
    /\ msgOf \in [Items -> Messages \cup {None}]
    /\ job \in [Actors -> Items \cup {None}]
    /\ part \in [Actors -> 0..NumParts]
    /\ batch \in RQ!Queue
    /\ high \in [Items -> 0..NumParts]
    /\ wire \in (Items \cup {None}) \X (0..NumParts)
    /\ failures \in [Items -> 0..(MaxAttempts + 1)]
    /\ dropped \subseteq Items
    /\ lost \subseteq Items
    /\ forgot \subseteq Messages
    /\ confirmed \subseteq Items
    /\ unacked \subseteq Items

Nobody == [a \in Actors |-> None]

Init ==
    /\ running = FALSE
    /\ interrupts = 0
    /\ seen = {} /\ stable = {}
    /\ RQ!Init
    /\ msgOf = [i \in Items |-> None]
    /\ job = Nobody
    /\ part = [a \in Actors |-> 0]
    /\ batch = RQ!Empty
    /\ high = [i \in Items |-> 0]
    /\ wire = <<None, 0>>
    /\ failures = [i \in Items |-> 0]
    /\ dropped = {} /\ lost = {} /\ forgot = {}
    /\ confirmed = {} /\ unacked = {}

-----------------------------------------------------------------------------
(* The send lock.  asyncio.Lock is FIFO, so with two actors whoever waits is *)
(* next.                                                                     *)

Holds(a) == part[a] > 0
Waits(a) == job[a] # None /\ part[a] = 0

(* Mutant of Ask: nobody waits for the send lock. *)
AskAlone(a) == 1

(* Part an actor is at when it asks for the lock in this step. *)
Ask(a) == IF Holds(Other(a)) THEN 0 ELSE 1

(* Mutant of PassLock: the lock is given up and the waiter is not woken. *)
PassLockAsleep(a, i) ==
    /\ job' = [job EXCEPT ![a] = i]
    /\ part' = [part EXCEPT ![a] = IF i = None \/ Waits(Other(a)) THEN 0 ELSE 1]

(* Actor a gives the lock up and goes on with item i, or stops (None). *)
PassLock(a, i) ==
    /\ job' = [job EXCEPT ![a] = i]
    /\ part' = [part EXCEPT ![a] = IF i = None \/ Waits(Other(a)) THEN 0 ELSE 1,
                            ![Other(a)] = IF Waits(Other(a)) THEN 1 ELSE @]

(* The record process_due_retries takes next from what is left of the batch. *)
NextOf(b) == IF RQ!Live(b) = {} THEN {None} ELSE RQ!Live(b)

-----------------------------------------------------------------------------
(* What reaches the target. *)

Lands(i, p) ==
    /\ high' = [high EXCEPT ![i] = IF p > @ THEN p ELSE @]
    /\ wire' = <<i, p>>

Sent(i) == high[i] = NumParts

(* Records of q that left the queue in this step for a configured reason:   *)
(* they had expired, or the queue held more than max_queue_size.            *)
Evicted(q) ==
    {i \in RQ!Live(q) \ RQ!Live(records') :
        i \in expired \/ Cardinality(RQ!Live(q) \ expired) > MaxQueueSize}

Fail(i) == failures' = [failures EXCEPT ![i] = IF @ > MaxAttempts THEN @ ELSE @ + 1]

-----------------------------------------------------------------------------
(* PluginRuntime._on_mcp_message up to the first suspension. *)

Free(i) == msgOf[i] = None

(* FilterChain.check rejects a duplicate (or the store raises while saving: *)
(* the message is not delivered either way).                                *)
Duplicate(m) ==
    /\ running /\ job["receiver"] = None
    /\ \E ok \in SaveOutcomes : DS!Recall(m, ok)
    /\ forgot' = forgot \cup (seen \ seen')
    /\ UNCHANGED <<running, interrupts, queueVars, msgOf, actorVars, arrivalVars,
                   fateVars>>

(* Mutant of Accept: the fingerprint is only looked up. *)
AcceptUnrecorded(m, i) ==
    /\ running /\ job["receiver"] = None /\ Free(i)
    /\ m \notin seen
    /\ msgOf' = [msgOf EXCEPT ![i] = m]
    /\ job' = [job EXCEPT !["receiver"] = i]
    /\ part' = [part EXCEPT !["receiver"] = Ask("receiver")]
    /\ UNCHANGED <<running, interrupts, storeVars, queueVars, batch, arrivalVars,
                   fateVars>>

(* A new message: its fingerprint is recorded and saved, then the item asks *)
(* for the send lock.                                                       *)
Accept(m, i) ==
    /\ running /\ job["receiver"] = None /\ Free(i)
    /\ DS!Remember(m, TRUE)
    /\ forgot' = forgot \cup (seen \ seen') \cup ({m} \cap seen)
    /\ msgOf' = [msgOf EXCEPT ![i] = m]
    /\ job' = [job EXCEPT !["receiver"] = i]
    /\ part' = [part EXCEPT !["receiver"] = Ask("receiver")]
    /\ UNCHANGED <<running, interrupts, queueVars, batch, arrivalVars,
                   fateVars>>

(* A new message whose fingerprint stays in memory although saving it raised: *)
(* the exception ends handle_raw, nothing is sent or queued.                  *)
AcceptFails(m, i) ==
    /\ DiskFaults
    /\ running /\ job["receiver"] = None /\ Free(i)
    /\ DS!Remember(m, FALSE)
    /\ forgot' = forgot \cup (seen \ seen') \cup ({m} \cap seen)
    /\ msgOf' = [msgOf EXCEPT ![i] = m]
    /\ lost' = lost \cup {i}
    /\ UNCHANGED <<running, interrupts, queueVars, actorVars, arrivalVars,
                   failures, dropped, confirmed, unacked>>

-----------------------------------------------------------------------------
(* One call of the sender inside _send_item. *)

(* Mutant of SendPart: the loop over the payloads does not end. *)
SendPartPastEnd(a) ==
    /\ Holds(a)
    /\ Lands(job[a], part[a])
    /\ part' = [part EXCEPT ![a] = @ + 1]
    /\ UNCHANGED <<running, interrupts, storeVars, queueVars, msgOf, job, batch,
                   fateVars>>

(* The sender took a chunk that is not the last one. *)
SendPart(a) ==
    /\ Holds(a) /\ part[a] < NumParts
    /\ Lands(job[a], part[a])
    /\ part' = [part EXCEPT ![a] = @ + 1]
    /\ UNCHANGED <<running, interrupts, storeVars, queueVars, msgOf, job, batch,
                   fateVars>>

(* DeliveryPipeline.handle after the last chunk. *)
HandleSent ==
    /\ Holds("receiver") /\ part["receiver"] = NumParts
    /\ Lands(job["receiver"], NumParts)
    /\ PassLock("receiver", None)
    /\ confirmed' = confirmed \cup {job["receiver"]}
    /\ UNCHANGED <<running, interrupts, storeVars, queueVars, msgOf, batch,
                   failures, dropped, lost, unacked>>

(* Mutant of Rest: the record stays in the snapshot. *)
RestUnconsumed(ok) == batch

(* What process_due_retries has left once the record in the worker's hands is *)
(* dealt with: an exception of the save ends the batch.                       *)
Rest(ok) ==
    LET i == job["worker"] IN
    IF ok \/ records[i] = 0 THEN [batch EXCEPT ![i] = 0] ELSE RQ!Empty

(* DeliveryPipeline.process_retry after the last chunk: acknowledge the record *)
(* and take the next one of the batch.                                         *)
RetrySent(ok) ==
    LET i == job["worker"] IN
    /\ Holds("worker") /\ part["worker"] = NumParts
    /\ Lands(i, NumParts)
    /\ RQ!Ack(i, ok)
    /\ batch' = Rest(ok)
    /\ \E next \in NextOf(Rest(ok)) : PassLock("worker", next)
    /\ confirmed' = confirmed \cup {i}
    /\ unacked' = IF file'[i] > 0 THEN unacked \cup {i} ELSE unacked
    /\ UNCHANGED <<running, interrupts, storeVars, msgOf, failures, dropped, lost>>

(* A sender error: the chunk may have reached the target nevertheless. *)
SenderRaises(a) ==
    /\ Holds(a)
    /\ \/ Lands(job[a], part[a])
       \/ UNCHANGED arrivalVars
    /\ Fail(job[a])
    /\ UNCHANGED <<running, interrupts, storeVars, msgOf, lost, confirmed, unacked>>

(* DeliveryPipeline._queue_failure(attempts=1). *)
HandleFails(ok) ==
    LET i == job["receiver"] IN
    /\ SenderRaises("receiver")
    /\ IF 1 < MaxAttempts
       THEN /\ RQ!Enqueue(i, 1, ok)
            /\ dropped' = dropped \cup Evicted([records EXCEPT ![i] = 1])
       ELSE /\ dropped' = dropped \cup {i}
            /\ UNCHANGED queueVars
    /\ PassLock("receiver", None)
    /\ UNCHANGED batch

(* Mutant of NextAttempt: a failed retry is not counted. *)
SameAttempt == batch[job["worker"]]

NextAttempt == batch[job["worker"]] + 1

(* DeliveryPipeline.process_retry, failing: reschedule, or acknowledge the *)
(* record after the last attempt; then the next record of the batch.       *)
RetryFails(ok) ==
    LET i == job["worker"] IN
    /\ SenderRaises("worker")
    /\ IF NextAttempt < MaxAttempts
       THEN /\ RQ!Reschedule(i, NextAttempt, ok)
            /\ dropped' = dropped \cup Evicted(records)
       ELSE /\ RQ!Ack(i, ok)
            /\ dropped' = dropped \cup {i}
    /\ batch' = Rest(ok)
    /\ \E next \in NextOf(Rest(ok)) : PassLock("worker", next)

-----------------------------------------------------------------------------
(* PluginRuntime._retry_loop and the clock. *)

(* process_due_retries: prune, take a snapshot of the due records, start. *)
DueBatch ==
    /\ running /\ job["worker"] = None /\ ReplayFailed
    /\ RQ!Prune
    /\ dropped' = dropped \cup Evicted(records)
    /\ batch' = RQ!Due(records')
    /\ \E i \in NextOf(batch') :
          /\ job' = [job EXCEPT !["worker"] = i]
          /\ part' = [part EXCEPT !["worker"] = IF i = None THEN 0 ELSE Ask("worker")]
    /\ UNCHANGED <<running, interrupts, storeVars, msgOf, arrivalVars,
                   failures, lost, confirmed, unacked>>

Ripen(i) ==
    /\ running
    /\ RQ!Ripen(i)
    /\ UNCHANGED <<running, interrupts, storeVars, msgOf, actorVars, arrivalVars,
                   fateVars>>

Expire(i) ==
    /\ RQ!Expire(i)
    /\ UNCHANGED <<running, interrupts, storeVars, msgOf, actorVars, arrivalVars,
                   fateVars>>

-----------------------------------------------------------------------------
(* PluginRuntime.stop, or the end of the process.  Cancelling the tasks makes *)
(* handle() re-raise CancelledError without queueing, and neither store is   *)
(* saved; a chunk that was with the sender may or may not reach the target.  *)
Interrupt ==
    /\ running /\ interrupts < MaxInterrupts
    /\ running' = FALSE
    /\ interrupts' = interrupts + 1
    /\ \/ UNCHANGED arrivalVars
       \/ \E a \in Actors : Holds(a) /\ Lands(job[a], part[a])
    /\ DS!Discard
    /\ RQ!Discard
    /\ job' = Nobody
    /\ part' = [a \in Actors |-> 0]
    /\ batch' = RQ!Empty
    /\ lost' = lost \cup ({job["receiver"]} \ {None}) \cup (RQ!Live(records) \ RQ!Live(file))
    /\ UNCHANGED <<msgOf, failures, dropped, forgot, confirmed, unacked>>

(* PluginRuntime.start: _build_pipeline loads both files and writes them back. *)
Start ==
    /\ ~running
    /\ running' = TRUE
    /\ DS!Load(TRUE)
    /\ forgot' = forgot \cup (stable \ seen')
    /\ RQ!Load(TRUE)
    /\ dropped' = dropped \cup Evicted(file)
    /\ UNCHANGED <<interrupts, msgOf, actorVars, arrivalVars, failures, lost,
                   confirmed, unacked>>

(* A save fails while the files are loaded: start() reports "failed".  The *)
(* fingerprint file may have been pruned and rewritten by then.            *)
StartFails ==
    /\ DiskFaults
    /\ ~running
    /\ stable' \in SUBSET stable
    /\ forgot' = forgot \cup (stable \ stable')
    /\ UNCHANGED <<running, interrupts, seen, queueVars, msgOf, actorVars, arrivalVars,
                   fateVars>>

Next ==
    \/ \E m \in Messages : Duplicate(m)
    \/ \E m \in Messages, i \in Items : Accept(m, i) \/ AcceptFails(m, i)
    \/ \E a \in Actors : SendPart(a)
    \/ HandleSent
    \/ \E ok \in SaveOutcomes : RetrySent(ok) \/ HandleFails(ok) \/ RetryFails(ok)
    \/ DueBatch
    \/ \E i \in Items : Ripen(i) \/ Expire(i)
    \/ Interrupt
    \/ Start \/ StartFails

Spec == Init /\ [][Next]_vars

(* The event loop runs both tasks, a call of the sender ends (the OpenAPI    *)
(* sender has a timeout; the native one is trusted to return), the retry     *)
(* loop wakes up every 0.5 s and every next_attempt_at comes.  Nobody is     *)
(* obliged to restart a stopped runtime, and senders may always fail.        *)
ReceiverAdvances ==
    SendPart("receiver") \/ HandleSent \/ \E ok \in SaveOutcomes : HandleFails(ok)

WorkerAdvances ==
    SendPart("worker") \/ \E ok \in SaveOutcomes : RetrySent(ok) \/ RetryFails(ok)

Fairness ==
    /\ WF_vars(ReceiverAdvances)
    /\ WF_vars(WorkerAdvances)
    /\ WF_vars(DueBatch)
    /\ \A i \in Items : WF_vars(Ripen(i))

FairSpec == Spec /\ Fairness

-----------------------------------------------------------------------------
(* What holds the safety properties up: the parts of the inductive invariant *)
(* proved in DeliveryProofs.                                                 *)

(* Only one actor is between two chunks, and the chunk before its current    *)
(* one was the last to arrive anywhere.                                      *)
LockInv ==
    /\ \A a \in Actors : Holds(a) => job[a] # None
    /\ ~(Holds("receiver") /\ Holds("worker"))
    /\ \A a \in Actors : part[a] > 1 => wire = <<job[a], part[a] - 1>>

(* An item the queue has never seen: not made yet, or still with the receiver. *)
FreshInv ==
    \A i \in Items : msgOf[i] = None \/ job["receiver"] = i =>
        records[i] = 0 /\ file[i] = 0 /\ batch[i] = 0 /\ i \notin confirmed

JobInv ==
    /\ job["receiver"] # None => msgOf[job["receiver"]] # None
    /\ job["worker"] # None => batch[job["worker"]] > 0

(* A stopped runtime keeps nothing in memory. *)
StoppedInv ==
    ~running => job = Nobody /\ batch = RQ!Empty /\ records = RQ!Empty /\ seen = {}

(* A waiting actor waits for the other one: the lock is never free and wanted. *)
NoIdleLock == \A a \in Actors : Waits(a) => Holds(Other(a))

Inv == LockInv /\ FreshInv /\ JobInv /\ StoppedInv /\ NoIdleLock

Queued(i) == IF running THEN records[i] > 0 ELSE file[i] > 0

(* No accepted message disappears silently: at every moment it has reached   *)
(* the target completely, or the receiver delivers it, or the retry queue    *)
(* (its file, while nothing runs) has it, or it was given up for one of the  *)
(* reasons the configuration names, or it is one of those lost to a stop, a  *)
(* crash or a failing disk.                                                  *)
Accounted ==
    \A i \in Items : msgOf[i] # None =>
        \/ Sent(i)
        \/ job["receiver"] = i
        \/ Queued(i)
        \/ i \in dropped \cup lost

(* A stop or crash loses no queued record: while the disk works, the queue   *)
(* file holds exactly the records in memory and expired ones that due()      *)
(* pruned without saving.                                                    *)
QueueOnDisk ==
    running /\ ~DiskFaults =>
        \A i \in Items : file[i] = records[i] \/ (records[i] = 0 /\ i \in expired)

(* The snapshot process_due_retries works through never goes stale: a record *)
(* of it is still in the queue with the same attempt count, or it has been   *)
(* evicted by the receiver meanwhile.                                        *)
FreshBatch ==
    \A i \in Items : batch[i] > 0 => records[i] \in {0, batch[i]}

(* Once the sender has confirmed the last chunk of a message, nothing will   *)
(* ever send it again, in this run of the process or a later one, unless the *)
(* removal of its record could not be saved.                                 *)
ConfirmedIsFinal ==
    \A i \in confirmed \ unacked :
        /\ \A a \in Actors : job[a] # i
        /\ batch[i] = 0 /\ records[i] = 0 /\ file[i] = 0

(* max_attempts counts failed deliveries over restarts: while the disk works *)
(* a message fails at most max_attempts times, and its record knows how      *)
(* often it has failed.                                                      *)
AttemptsCounted ==
    ~DiskFaults => \A i \in Items :
        /\ failures[i] <= MaxAttempts
        /\ \A q \in {records, file, batch} : q[i] \in {0, failures[i]}

(* A chat message is not forwarded as two items: two items that got as far   *)
(* as the target, the queue or the sender carry different fingerprints,      *)
(* unless the store was allowed to forget the fingerprint.  Also across      *)
(* restarts, because the fingerprint is saved before the first send.         *)
ForwardedOnce ==
    \A i, j \in Items :
        LET begun(k) == high[k] > 0 \/ job["receiver"] = k \/ records[k] > 0 \/ file[k] > 0
        IN  i # j /\ begun(i) /\ begun(j) /\ msgOf[i] = msgOf[j] => msgOf[i] \in forgot

(* Where an item is, for the contract.  A record in the worker's hands counts *)
(* as queued even after its eviction, and a record in the file counts only    *)
(* if loading it would not prune it.  "missing" is no state of the contract.  *)
StatusOf(i) ==
    CASE msgOf[i] = None -> "new"
      [] msgOf[i] # None /\ Sent(i) -> "sent"
      [] msgOf[i] # None /\ ~Sent(i) /\ job["receiver"] = i -> "flight"
      [] OTHER ->
            IF IF running THEN records[i] > 0 \/ batch[i] > 0
                          ELSE file[i] > 0 /\ i \notin expired
            THEN "queued"
            ELSE IF i \in lost THEN "lost"
            ELSE IF i \in dropped \cup expired THEN "dropped" ELSE "missing"

Contract == INSTANCE ForwardingContract WITH status <- [i \in Items |-> StatusOf(i)]

(* Every accepted message follows the life cycle of ForwardingContract; in   *)
(* particular a queued message is never lost while the disk works, and a     *)
(* sent, dropped or lost one never changes its fate.                         *)
KeepsContract == Contract!Spec

(* Chunks of two messages never interleave at the target, and the chunks of  *)
(* one delivery arrive in order: a chunk after the first arrives directly    *)
(* behind its predecessor.                                                   *)
WireOrder ==
    [][wire' # wire => wire'[2] = 1 \/ wire = <<wire'[1], wire'[2] - 1>>]_vars

Settled(i) == Sent(i) \/ i \in dropped \cup lost

(* A runtime that is not stopped for good brings every accepted message to   *)
(* its end: delivered, given up, or lost, whatever the sender and the disk   *)
(* do in between.  Neither task starves the other at the send lock.          *)
EverySettles ==
    <>[]running => \A i \in Items : (msgOf[i] # None) ~> Settled(i)

(* README.md promises at-least-once delivery and that a fingerprint is       *)
(* marked only after a successful send: a message the program lost could     *)
(* then be delivered again by the server without being taken for a duplicate. *)
AtLeastOnce ==
    \A i \in lost : Sent(i) \/ msgOf[i] \notin stable
=============================================================================
