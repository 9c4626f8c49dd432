------------------------------ MODULE RetryQueue ------------------------------
(***************************************************************************)
(* persistence.RetryQueue: the persistent queue of failed deliveries.      *)
(* _records is an OrderedDict kept sorted by (next_attempt_at, record_id); *)
(* the file holds one former state of it or is unreadable.  A record is    *)
(* [id, attempts, due, expires]; its payload plays no part here.           *)
(*                                                                         *)
(* Record ids are made unique by a UUID: numbers stand for them, because   *)
(* sorted() compares them.  The clock is time.time() in whole units,       *)
(* assumed not to be set back.                                             *)
(***************************************************************************)
EXTENDS Naturals, Sequences, FiniteSets, Ordering

CONSTANTS
    Items,          \* record ids, numbers
    MaxQueueSize,   \* retry.max_queue_size
    DropExpired,    \* retry.drop_expired_messages
    ExpireAfter,    \* retry.message_expire_seconds
    Delays,         \* values of _delay_for_attempt
    DiskFaults,     \* TRUE: reading and writing the file may raise OSError
    MaxTime         \* bound on the clock

ASSUME QueueAssumption ==
    /\ Items \subseteq Nat
    /\ MaxQueueSize \in Nat /\ MaxTime \in Nat
    /\ ExpireAfter \in Nat \ {0}
    /\ Delays \subseteq Nat
    /\ {DropExpired, DiskFaults} \subseteq BOOLEAN

VARIABLES
    now,            \* the clock
    up,             \* a process has loaded the queue
    records,        \* _records: sequence of records
    file,           \* the queue file: [kind, records]
    (* history variables, read by properties only *)
    created,        \* when an id was enqueued; NotYet before
    diverged        \* memory may hold other records than the last good save

storeVars == <<records, file>>
ghostVars == <<created, diverged>>
vars == <<now, up, storeVars, ghostVars>>

(* Callers enqueue with attempts = 1 and reschedule with more; nothing here *)
(* depends on the number, so 2 stands for every later one.                  *)
MaxAttempts == 2

NotYet == MaxTime + 1

Record == [id : Items, attempts : 1..MaxAttempts, due : Nat, expires : Nat]
Elements(s) == {s[k] : k \in DOMAIN s}
Ids(s) == {r.id : r \in Elements(s)}
Bounded(s) ==
    /\ Len(s) <= MaxQueueSize
    /\ \A j, k \in DOMAIN s : s[j].id = s[k].id => j = k

TypeOK ==
    /\ now \in 0..MaxTime
    /\ up \in BOOLEAN
    /\ records \in Seq(Record) /\ Bounded(records)
    /\ file.kind \in {"missing", "corrupt", "records"}
    /\ file.records \in Seq(Record) /\ Bounded(file.records)
    /\ created \in [Items -> 0..NotYet]
    /\ diverged \in BOOLEAN

NoRecords == <<>>
Unreadable(kind) == [kind |-> kind, records |-> NoRecords]

Init ==
    /\ now = 0
    /\ up = FALSE
    /\ records = NoRecords
    /\ file = Unreadable("missing")
    /\ created = [i \in Items |-> NotYet]
    /\ diverged = FALSE

-----------------------------------------------------------------------------
Expired(r) == r.expires <= now
IsDue(r) == r.due <= now

Before(r, s) == r.due < s.due \/ (r.due = s.due /\ r.id < s.id)

ByDue(R) == {p \in R \X R : Before(p[1], p[2])}

(* _sort_locked. *)
Sort(s) == Ascending(Elements(s), ByDue(Elements(s)))

(* Mutant of Prune: max_queue_size is not enforced. *)
PruneExpired(s) == Select(s, {k \in DOMAIN s : ~(DropExpired /\ Expired(s[k]))})

(* popitem(last=False), the record that is due first, until max_queue_size *)
(* are left.                                                               *)
Latest(s) ==
    IF Len(s) <= MaxQueueSize THEN s ELSE SubSeq(s, Len(s) - MaxQueueSize + 1, Len(s))

(* _prune_locked: first the expired records, then those too many. *)
Prune(s) == Latest(Select(s, {k \in DOMAIN s : ~(DropExpired /\ Expired(s[k]))}))

Without(s, i) == Select(s, {k \in DOMAIN s : s[k].id # i})

(* self._records[r.record_id] = r: in place when the id is there. *)
Assign(s, r) ==
    IF r.id \in Ids(s)
    THEN [k \in DOMAIN s |-> IF s[k].id = r.id THEN r ELSE s[k]]
    ELSE Append(s, r)

(* Mutant of Put: the queue is not sorted again. *)
PutUnsorted(r) == Prune(Assign(records, r))

(* Assign, sort, prune. *)
Put(r) == Prune(Sort(Assign(records, r)))

SaveOutcomes == IF DiskFaults THEN BOOLEAN ELSE {TRUE}

Save(ok) ==
    /\ file' = IF ok THEN [kind |-> "records", records |-> records'] ELSE file
    /\ diverged' = ~ok

-----------------------------------------------------------------------------
(* enqueue of a new record; with max_queue_size 0 it is dropped at once. *)
Enqueue(i, n, delay, ok) ==
    /\ up
    /\ created[i] = NotYet
    /\ created' = [created EXCEPT ![i] = now]
    /\ IF MaxQueueSize = 0
       THEN UNCHANGED <<storeVars, diverged>>
       ELSE /\ records' = Put([id |-> i, attempts |-> n, due |-> now + delay,
                               expires |-> now + ExpireAfter])
            /\ Save(ok)
    /\ UNCHANGED <<now, up>>

(* Mutant of Updated: the new attempt renews the expiry. *)
Renewed(r, n, delay) ==
    [r EXCEPT !.attempts = n, !.due = now + delay, !.expires = now + ExpireAfter]

Updated(r, n, delay) == [r EXCEPT !.attempts = n, !.due = now + delay]

(* reschedule: None when the record has left the queue. *)
Reschedule(i, n, delay, ok) ==
    /\ up
    /\ i \in Ids(records)
    /\ \E k \in DOMAIN records :
          /\ records[k].id = i
          /\ records' = Put(Updated(records[k], n, delay))
    /\ Save(ok)
    /\ UNCHANGED <<now, up, created>>

(* Mutant of Ack: the removal is not saved. *)
AckUnsaved(i, ok) ==
    /\ up
    /\ i \in Ids(records)
    /\ records' = Without(records, i)
    /\ UNCHANGED <<now, up, file, created, diverged>>

(* ack: False, and nothing saved, when the record has left the queue. *)
Ack(i, ok) ==
    /\ up
    /\ i \in Ids(records)
    /\ records' = Without(records, i)
    /\ Save(ok)
    /\ UNCHANGED <<now, up, created>>

(* due: prune and sort in memory; the answer is the due records in order. *)
Due ==
    /\ up
    /\ records' = Sort(Prune(records))
    /\ UNCHANGED <<now, up, file, ghostVars>>

(* pop_due: the first due record is removed and the rest saved. *)
PopDue(ok) ==
    LET kept == Sort(Prune(records))
        due  == Select(kept, {k \in DOMAIN kept : IsDue(kept[k])})
    IN
    /\ up
    /\ IF due = NoRecords
       THEN /\ records' = kept
            /\ UNCHANGED <<file, diverged>>
       ELSE /\ records' = Without(kept, Head(due).id)
            /\ Save(ok)
    /\ UNCHANGED <<now, up, created>>

(* save(). *)
SaveNow(ok) ==
    /\ up
    /\ records' = Sort(Prune(records))
    /\ Save(ok)
    /\ UNCHANGED <<now, up, created>>

(* clear(). *)
Clear(ok) ==
    /\ up
    /\ records' = NoRecords
    /\ Save(ok)
    /\ UNCHANGED <<now, up, created>>

(* Mutant of Loaded: the file is taken as it is. *)
LoadedWhole(s) == Sort(s)

(* _load_value_locked: prune first, then sort. *)
Loaded(s) == Sort(Prune(s))

(* load() of a new queue object.  Only a readable file is written back. *)
Load(ok) ==
    /\ ~up
    /\ up' = TRUE
    /\ records' = Loaded(file.records)
    /\ IF file.kind = "records" THEN Save(ok) ELSE UNCHANGED <<file, diverged>>
    /\ UNCHANGED <<now, created>>

(* load() when reading raises OSError although the file is fine. *)
LoadUnread ==
    /\ DiskFaults
    /\ ~up
    /\ up' = TRUE
    /\ records' = NoRecords
    /\ diverged' = TRUE
    /\ UNCHANGED <<now, file, created>>

(* The process ends or the runtime drops the object: nothing is written. *)
Stop ==
    /\ up
    /\ up' = FALSE
    /\ records' = NoRecords
    /\ diverged' = FALSE
    /\ UNCHANGED <<now, file, created>>

(* Somebody deletes or damages the file between two runs. *)
Damage(kind) ==
    /\ ~up
    /\ file.kind = "records"
    /\ file' = Unreadable(kind)
    /\ UNCHANGED <<now, up, records, ghostVars>>

Tick ==
    /\ now < MaxTime
    /\ now' = now + 1
    /\ UNCHANGED <<up, storeVars, ghostVars>>

Next ==
    \/ \E ok \in SaveOutcomes :
          \/ \E i \in Items, delay \in Delays :
                Enqueue(i, 1, delay, ok) \/ Reschedule(i, 2, delay, ok)
          \/ \E i \in Items : Ack(i, ok)
          \/ PopDue(ok) \/ SaveNow(ok) \/ Clear(ok) \/ Load(ok)
    \/ Due
    \/ LoadUnread
    \/ Stop
    \/ \E kind \in {"missing", "corrupt"} : Damage(kind)
    \/ Tick

Spec == Init /\ [][Next]_vars

-----------------------------------------------------------------------------
InOrder(s) == \A j, k \in DOMAIN s : j < k => Before(s[j], s[k])

(* Both the memory and the file are sorted by due time at every moment: due  *)
(* hands records out in that order and eviction takes the one due first,     *)
(* also from a file that is pruned before it is sorted.                      *)
FifoByDueTime == InOrder(records) /\ InOrder(file.records)

(* A stop at any moment costs nothing: unless the last save or the load      *)
(* raised, a queue loaded from the file now would hold exactly the records   *)
(* in memory that are not expired.                                           *)
RestartKeepsQueue ==
    up /\ ~diverged => Loaded(file.records) = Loaded(records)

(* Retrying does not prolong a message's life: each record, in memory and in *)
(* the file, expires message_expire_seconds after its first failure.         *)
LifeNotExtended ==
    \A r \in Elements(records) \cup Elements(file.records) :
        r.expires = created[r.id] + ExpireAfter

(* The queue implements the abstract one used by Delivery. *)
AttemptsIn(s) ==
    [i \in Items |->
        IF i \in Ids(s) THEN (CHOOSE r \in Elements(s) : r.id = i).attempts ELSE 0]
RipeIds == {r.id : r \in {x \in Elements(records) : IsDue(x)}}
ExpiredIds ==
    IF DropExpired
    THEN {r.id : r \in {x \in Elements(records) \cup Elements(file.records) : Expired(x)}}
    ELSE {}
Abstract == INSTANCE RetrySet WITH
    records <- AttemptsIn(records),
    file    <- AttemptsIn(file.records),
    ripe    <- RipeIds,
    expired <- ExpiredIds
RefinesRetrySet == Abstract!Spec
=============================================================================
