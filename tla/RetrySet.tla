------------------------------- MODULE RetrySet -------------------------------
(***************************************************************************)
(* What persistence.RetryQueue promises its callers, without the clock,    *)
(* the due-time order and the file format.  A record is its item and its   *)
(* attempt count, so the queue is a function from items to attempt counts  *)
(* in which 0 means "no record", in memory and in the file.  Time shows    *)
(* only as two sets: records whose next_attempt_at has come (ripe) and     *)
(* records that drop_expired will prune (expired).                         *)
(*                                                                         *)
(* RetryQueue.tla is the detailed specification and implements this one;   *)
(* Delivery.tla uses the actions below for the pipeline's queue.           *)
(***************************************************************************)
EXTENDS Naturals, FiniteSets

CONSTANTS
    Items,          \* record identities
    MaxQueueSize,   \* retry.max_queue_size
    DropExpired,    \* retry.drop_expired_messages
    DiskFaults,     \* TRUE: _atomic_dump may raise OSError
    MaxAttempts     \* bound on the attempt counts callers pass

VARIABLES
    records,        \* RetryQueue._records: attempt count by item, 0 = absent
    file,           \* the same for the records of the queue file
    ripe,           \* items in memory that are due
    expired         \* items in memory or in the file past their expires_at

vars == <<records, file, ripe, expired>>

Queue == [Items -> 0..MaxAttempts]

TypeOK ==
    /\ records \in Queue
    /\ file \in Queue
    /\ ripe \subseteq Items
    /\ expired \subseteq Items

Empty == [i \in Items |-> 0]

Init ==
    /\ records = Empty
    /\ file = Empty
    /\ ripe = {}
    /\ expired = {}

Live(q) == {i \in Items : q[i] > 0}

Only(q, S) == [i \in Items |-> IF i \in S THEN q[i] ELSE 0]

(* Mutant of Kept: pruning while len >= max_queue_size. *)
KeptOneLess(q) ==
    LET fresh == Live(q) \ expired
        room  == IF Cardinality(fresh) < MaxQueueSize
                 THEN Cardinality(fresh) ELSE MaxQueueSize - 1
    IN  {S \in SUBSET fresh : Cardinality(S) = room}

(* _prune_locked: expired records go first, then as many records as the    *)
(* queue holds too many.  Which ones is the due order, unknown here.       *)
Kept(q) ==
    LET fresh == Live(q) \ expired
        room  == IF Cardinality(fresh) <= MaxQueueSize
                 THEN Cardinality(fresh) ELSE MaxQueueSize
    IN  {S \in SUBSET fresh : Cardinality(S) = room}

SaveOutcomes == IF DiskFaults THEN BOOLEAN ELSE {TRUE}

Save(ok) == file' = IF ok THEN records' ELSE file

(* The two sets speak of existing records only. *)
Track(due) ==
    /\ ripe' = due \cap Live(records')
    /\ expired' = expired \cap (Live(records') \cup Live(file'))

(* Mutant of Write: the change stays in memory. *)
WriteUnsaved(i, n, ok) ==
    /\ \E S \in Kept([records EXCEPT ![i] = n]) :
          records' = Only([records EXCEPT ![i] = n], S)
    /\ Save(FALSE)
    /\ \E due \in {ripe \ {i}, ripe \cup {i}} : Track(due)

(* Insert or replace a record, sort, prune, save.  Its new next_attempt_at *)
(* may be now already (a delay of 0).                                      *)
Write(i, n, ok) ==
    /\ \E S \in Kept([records EXCEPT ![i] = n]) :
          records' = Only([records EXCEPT ![i] = n], S)
    /\ Save(ok)
    /\ \E due \in {ripe \ {i}, ripe \cup {i}} : Track(due)

(* enqueue: nothing happens at all when max_queue_size is 0. *)
Enqueue(i, n, ok) == IF MaxQueueSize = 0 THEN UNCHANGED vars ELSE Write(i, n, ok)

(* reschedule: nothing happens when the record has left the queue. *)
Reschedule(i, n, ok) == IF records[i] = 0 THEN UNCHANGED vars ELSE Write(i, n, ok)

(* Mutant of Ack: the removal stays in memory. *)
AckUnsaved(i, ok) ==
    /\ records' = [records EXCEPT ![i] = 0]
    /\ Save(FALSE)
    /\ Track(ripe)

(* ack: the file is rewritten only when there was something to remove. *)
Ack(i, ok) ==
    IF records[i] = 0
    THEN UNCHANGED vars
    ELSE /\ records' = [records EXCEPT ![i] = 0]
         /\ Save(ok)
         /\ Track(ripe)

(* due: prunes in memory without saving; the caller gets Due(records'). *)
Prune ==
    /\ \E S \in Kept(records) : records' = Only(records, S)
    /\ UNCHANGED file
    /\ Track(ripe)

Due(q) == [i \in Items |-> IF i \in ripe THEN q[i] ELSE 0]

(* pop_due: prune, remove one due record, save; without one only prune. *)
Claim(ok) ==
    \E S \in Kept(records) :
        \/ \E i \in S \cap ripe :
              /\ records' = Only(records, S \ {i})
              /\ Save(ok)
              /\ Track(ripe)
        \/ /\ S \cap ripe = {}
           /\ records' = Only(records, S)
           /\ UNCHANGED file
           /\ Track(ripe)

(* save(): prune, sort, write. *)
Rewrite(ok) ==
    /\ \E S \in Kept(records) : records' = Only(records, S)
    /\ Save(ok)
    /\ Track(ripe)

(* Mutant of Load: the file is not read. *)
LoadNothing(ok) ==
    /\ records' = Empty
    /\ Save(ok)
    /\ Track({})

(* load() of a new process. *)
Load(ok) ==
    /\ \E S \in Kept(file) : records' = Only(file, S)
    /\ Save(ok)
    /\ \E due \in SUBSET Live(file) : Track(due)

(* clear(). *)
Clear(ok) ==
    /\ records' = Empty
    /\ Save(ok)
    /\ Track(ripe)

(* The process ends, or the runtime drops the queue object. *)
Discard ==
    /\ records' = Empty
    /\ UNCHANGED file
    /\ Track({})

(* The file is lost or damaged between two runs. *)
LoseFile ==
    /\ file' = Empty
    /\ UNCHANGED records
    /\ Track(ripe)

(* Time passes. *)
Ripen(i) ==
    /\ i \in Live(records) \ ripe
    /\ ripe' = ripe \cup {i}
    /\ UNCHANGED <<records, file, expired>>

Expire(i) ==
    /\ DropExpired
    /\ i \in (Live(records) \cup Live(file)) \ expired
    /\ expired' = expired \cup {i}
    /\ UNCHANGED <<records, file, ripe>>

Elapse ==
    /\ ripe' \in {ripe \cup S : S \in SUBSET Live(records)}
    /\ IF DropExpired
       THEN expired' \in {expired \cup S : S \in SUBSET (Live(records) \cup Live(file))}
       ELSE UNCHANGED expired
    /\ UNCHANGED <<records, file>>

Next ==
    \/ \E ok \in SaveOutcomes :
          \/ \E i \in Items, n \in 1..MaxAttempts : Enqueue(i, n, ok) \/ Reschedule(i, n, ok)
          \/ \E i \in Items : Ack(i, ok)
          \/ Claim(ok) \/ Rewrite(ok) \/ Load(ok) \/ Clear(ok)
    \/ Prune
    \/ Discard
    \/ LoseFile
    \/ Elapse

Spec == Init /\ [][Next]_vars
=============================================================================
