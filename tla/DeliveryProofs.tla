--------------------------- MODULE DeliveryProofs ---------------------------
(***************************************************************************)
(* Theorems about Delivery, for every value of its constants.              *)
(*                                                                         *)
(* The lemmas of the first part say what each operation of the two stores  *)
(* does to the variables; the proofs of the invariants use them and never  *)
(* look at pruning itself.  The second part holds the invariants of the    *)
(* send lock and the worker and the order of the chunks, the third what    *)
(* becomes of an accepted message.                                         *)
(***************************************************************************)
EXTENDS Delivery, FiniteSetTheorems, TLAPS

LEMMA OnlyType ==
    ASSUME NEW q \in RQ!Queue, NEW S \in SUBSET Items
    PROVE  RQ!Only(q, S) \in RQ!Queue
BY SizesAssumption DEF RQ!Only, RQ!Queue

(* The retry queue's operations. *)

LEMMA QueueSame ==
    ASSUME RQ!TypeOK, UNCHANGED queueVars
    PROVE  RQ!TypeOK'
BY DEF RQ!TypeOK, RQ!Queue, queueVars

LEMMA KeptFacts ==
    ASSUME NEW q \in RQ!Queue, NEW S \in RQ!Kept(q), records' = RQ!Only(q, S)
    PROVE  /\ records' \in RQ!Queue
           /\ \A j \in Items : records'[j] \in {0, q[j]}
<1>1. S \in SUBSET Items
  BY DEF RQ!Kept, RQ!Live
<1>2. records' \in RQ!Queue
  BY <1>1, OnlyType
<1> QED
  BY <1>2 DEF RQ!Only

LEMMA SameCardinality == ASSUME NEW S PROVE RQ!Cardinality(S) = Cardinality(S)
BY DEF Cardinality, RQ!Cardinality

(* What pruning takes away it takes away for a reason. *)
LEMMA GoneAreEvicted ==
    ASSUME NEW q \in RQ!Queue, NEW S \in RQ!Kept(q), records' = RQ!Only(q, S),
           NEW j \in Items, q[j] > 0
    PROVE  records'[j] > 0 \/ j \in Evicted(q)
<1> DEFINE fresh == RQ!Live(q) \ expired
<1> SUFFICES ASSUME ~(records'[j] > 0), j \notin expired
             PROVE  Cardinality(fresh) > MaxQueueSize
  BY DEF Evicted, RQ!Live
<1>1. j \in fresh
  BY DEF RQ!Live
<1>2. IsFiniteSet(fresh) /\ Cardinality(fresh) \in Nat
  BY ItemsAssumption, FS_Subset, FS_CardinalityType DEF RQ!Live
<1>3. /\ S \in SUBSET fresh
      /\ Cardinality(S) =
            IF Cardinality(fresh) <= MaxQueueSize THEN Cardinality(fresh) ELSE MaxQueueSize
  BY SameCardinality DEF RQ!Kept
<1>4. j \notin S
  BY DEF RQ!Only
<1>5. Cardinality(S) # Cardinality(fresh)
  BY <1>1, <1>2, <1>3, <1>4, FS_Subset
<1> QED
  BY <1>2, <1>3, <1>5, SizesAssumption

LEMMA TrackFacts ==
    ASSUME NEW due, RQ!Track(due)
    PROVE  ripe' \subseteq Items /\ expired' \subseteq Items
BY DEF RQ!Track, RQ!Live

LEMMA WriteFacts ==
    ASSUME RQ!TypeOK, NEW i \in Items, NEW n \in 1..MaxAttempts, NEW ok \in BOOLEAN,
           RQ!Write(i, n, ok)
    PROVE  /\ RQ!TypeOK'
           /\ \A j \in Items : records'[j] \in {0, IF j = i THEN n ELSE records[j]}
           /\ \A j \in Items : j = i \/ records[j] > 0 =>
                 records'[j] > 0 \/ j \in Evicted([records EXCEPT ![i] = n])
           /\ file' \in {file, records'}
<1> DEFINE q == [records EXCEPT ![i] = n]
<1>1. q \in RQ!Queue
  BY SizesAssumption DEF RQ!TypeOK, RQ!Queue
<1>2. PICK S \in RQ!Kept(q) : records' = RQ!Only(q, S)
  BY DEF RQ!Write
<1>3. /\ records' \in RQ!Queue
      /\ \A j \in Items : records'[j] \in {0, q[j]}
  BY <1>1, <1>2, KeptFacts
<1>4. file' \in {file, records'}
  BY DEF RQ!Write, RQ!Save
<1>5. ripe' \subseteq Items /\ expired' \subseteq Items
  BY TrackFacts DEF RQ!Write
<1>6. \A j \in Items : q[j] = IF j = i THEN n ELSE records[j]
  BY DEF RQ!TypeOK, RQ!Queue
<1>7. \A j \in Items : q[j] > 0 => records'[j] > 0 \/ j \in Evicted(q)
  BY <1>1, <1>2, GoneAreEvicted
<1> QED
  <2>1. RQ!TypeOK'
    BY <1>3, <1>4, <1>5 DEF RQ!TypeOK
  <2>2. \A j \in Items : j = i \/ records[j] > 0 => q[j] > 0
    BY <1>6
  <2> QED
    BY <1>3, <1>4, <1>6, <1>7, <2>1, <2>2

LEMMA EnqueueFacts ==
    ASSUME RQ!TypeOK, NEW i \in Items, NEW n \in 1..MaxAttempts, NEW ok \in BOOLEAN,
           RQ!Enqueue(i, n, ok)
    PROVE  /\ RQ!TypeOK'
           /\ \A j \in Items \ {i} : records'[j] \in {0, records[j]}
           /\ \A j \in Items : j = i \/ records[j] > 0 =>
                 records'[j] > 0 \/ j \in Evicted([records EXCEPT ![i] = n])
           /\ file' \in {file, records'}
<1>1. CASE MaxQueueSize = 0
  <2> DEFINE q == [records EXCEPT ![i] = n]
  <2>1. UNCHANGED queueVars
    BY <1>1 DEF RQ!Enqueue, RQ!vars, queueVars
  <2>2. records' = records /\ file' = file /\ RQ!TypeOK'
    BY <2>1, QueueSame DEF queueVars
  <2>3. i \in RQ!Live(q) /\ RQ!Live(q) \subseteq Items
    BY DEF RQ!Live, RQ!TypeOK, RQ!Queue
  <2>4. i \notin expired => Cardinality(RQ!Live(q) \ expired) > 0
    <3> DEFINE fresh == RQ!Live(q) \ expired
    <3>1. IsFiniteSet(fresh) /\ Cardinality(fresh) \in Nat
      BY <2>3, ItemsAssumption, FS_Subset, FS_CardinalityType
    <3>2. i \notin expired => Cardinality(fresh) # 0
      BY <2>3, <3>1, FS_EmptySet
    <3> QED
      BY <3>1, <3>2
  <2>5. records[i] > 0 \/ i \in Evicted(q)
    BY <1>1, <2>2, <2>3, <2>4 DEF Evicted, RQ!Live
  <2> QED
    BY <2>2, <2>5
<1>2. CASE MaxQueueSize # 0
  BY <1>2, WriteFacts DEF RQ!Enqueue
<1> QED
  BY <1>1, <1>2

LEMMA RescheduleFacts ==
    ASSUME RQ!TypeOK, NEW i \in Items, NEW n \in 1..MaxAttempts, NEW ok \in BOOLEAN,
           RQ!Reschedule(i, n, ok)
    PROVE  /\ RQ!TypeOK'
           /\ \A j \in Items \ {i} : records'[j] \in {0, records[j]}
           /\ \A j \in Items : records[j] > 0 => records'[j] > 0 \/ j \in Evicted(records)
           /\ records[i] = 0 => records'[i] = 0
           /\ file' \in {file, records'}
<1>1. CASE records[i] = 0
  BY <1>1, QueueSame DEF RQ!Reschedule, RQ!vars, queueVars
<1>2. CASE records[i] # 0
  <2>1. RQ!Live([records EXCEPT ![i] = n]) = RQ!Live(records)
    BY <1>2, SizesAssumption DEF RQ!Live, RQ!TypeOK, RQ!Queue
  <2>2. Evicted([records EXCEPT ![i] = n]) = Evicted(records)
    BY <2>1 DEF Evicted
  <2> QED
    BY <1>2, <2>2, WriteFacts DEF RQ!Reschedule
<1> QED
  BY <1>1, <1>2

LEMMA AckFacts ==
    ASSUME RQ!TypeOK, NEW i \in Items, NEW ok \in BOOLEAN, RQ!Ack(i, ok)
    PROVE  /\ RQ!TypeOK'
           /\ records'[i] = 0
           /\ \A j \in Items \ {i} : records'[j] = records[j]
           /\ file' \in {file, records'}
<1>1. CASE records[i] = 0
  BY <1>1, QueueSame DEF RQ!Ack, RQ!vars, queueVars
<1>2. CASE records[i] # 0
  <2>1. records' = [records EXCEPT ![i] = 0] /\ RQ!Save(ok) /\ RQ!Track(ripe)
    BY <1>2 DEF RQ!Ack
  <2>2. ripe' \subseteq Items /\ expired' \subseteq Items
    BY <2>1, TrackFacts
  <2> QED
    BY <2>1, <2>2, SizesAssumption DEF RQ!Save, RQ!TypeOK, RQ!Queue
<1> QED
  BY <1>1, <1>2

LEMMA PruneFacts ==
    ASSUME RQ!TypeOK, RQ!Prune
    PROVE  /\ RQ!TypeOK'
           /\ \A j \in Items : records'[j] \in {0, records[j]}
           /\ \A j \in Items : records[j] > 0 => records'[j] > 0 \/ j \in Evicted(records)
           /\ file' = file
<1>1. PICK S \in RQ!Kept(records) : records' = RQ!Only(records, S)
  BY DEF RQ!Prune
<1>2. ripe' \subseteq Items /\ expired' \subseteq Items
  BY TrackFacts DEF RQ!Prune
<1> QED
  BY <1>1, <1>2, KeptFacts, GoneAreEvicted DEF RQ!Prune, RQ!TypeOK

LEMMA LoadFacts ==
    ASSUME RQ!TypeOK, RQ!Load(TRUE)
    PROVE  /\ RQ!TypeOK'
           /\ \A j \in Items : records'[j] \in {0, file[j]}
           /\ \A j \in Items : file[j] > 0 => records'[j] > 0 \/ j \in Evicted(file)
           /\ file' = records'
<1>1. PICK S \in RQ!Kept(file) : records' = RQ!Only(file, S)
  BY DEF RQ!Load
<1>2. ripe' \subseteq Items /\ expired' \subseteq Items
  BY TrackFacts DEF RQ!Load
<1> QED
  BY <1>1, <1>2, KeptFacts, GoneAreEvicted DEF RQ!Load, RQ!Save, RQ!TypeOK

LEMMA DiscardFacts ==
    ASSUME RQ!TypeOK, RQ!Discard
    PROVE  /\ RQ!TypeOK'
           /\ records' = RQ!Empty
           /\ file' = file
<1>1. ripe' \subseteq Items /\ expired' \subseteq Items
  BY TrackFacts DEF RQ!Discard
<1> QED
  BY <1>1, SizesAssumption DEF RQ!Discard, RQ!Empty, RQ!TypeOK, RQ!Queue

LEMMA ElapseFacts ==
    ASSUME RQ!TypeOK, NEW i \in Items, RQ!Ripen(i) \/ RQ!Expire(i)
    PROVE  RQ!TypeOK' /\ records' = records /\ file' = file
BY DEF RQ!Ripen, RQ!Expire, RQ!TypeOK, RQ!Queue, RQ!Live

(* The fingerprint store's operations. *)

LEMMA StoreSame ==
    ASSUME DS!TypeOK, UNCHANGED <<seen, stable>>
    PROVE  DS!TypeOK'
BY DEF DS!TypeOK

LEMMA StoreFacts ==
    ASSUME DS!TypeOK, NEW m \in Messages, NEW ok \in BOOLEAN,
           \/ DS!Recall(m, ok)
           \/ DS!Remember(m, ok)
           \/ DS!Load(ok)
           \/ DS!Discard
    PROVE  DS!TypeOK'
BY DEF DS!TypeOK, DS!Recall, DS!Remember, DS!Load, DS!Discard, DS!Save

LEMMA OutcomesAreBoolean == SaveOutcomes \subseteq BOOLEAN
BY DEF SaveOutcomes

(* The send lock and the wire. *)

LEMMA PassFacts ==
    ASSUME TypeOK, LockInv, NEW a \in Actors, Holds(a), NEW i \in Items \cup {None},
           PassLock(a, i)
    PROVE  /\ job' \in [Actors -> Items \cup {None}]
           /\ part' \in [Actors -> 0..NumParts]
           /\ job'[a] = i /\ job'[Other(a)] = job[Other(a)]
           /\ \A b \in Actors : part'[b] > 0 => job'[b] # None /\ part'[b] = 1
           /\ ~(part'["receiver"] > 0 /\ part'["worker"] > 0)
BY SizesAssumption DEF TypeOK, LockInv, Actors, Other, Holds, Waits, PassLock

LEMMA LandsFacts ==
    ASSUME TypeOK, NEW i \in Items, NEW p \in 1..NumParts, Lands(i, p)
    PROVE  /\ high' \in [Items -> 0..NumParts]
           /\ wire' \in (Items \cup {None}) \X (0..NumParts)
           /\ wire' = <<i, p>>
           /\ p = NumParts => high'[i] = NumParts
           /\ \A j \in Items : high'[j] >= high[j]
BY SizesAssumption DEF TypeOK, Lands, Sent

LEMMA SenderRaisesFacts ==
    ASSUME TypeOK, LockInv, NEW a \in Actors, SenderRaises(a)
    PROVE  /\ job[a] \in Items /\ part[a] \in 1..NumParts
           /\ high' \in [Items -> 0..NumParts]
           /\ wire' \in (Items \cup {None}) \X (0..NumParts)
           /\ wire' # wire => wire' = <<job[a], part[a]>>
           /\ \A j \in Items : high'[j] >= high[j]
           /\ failures' \in [Items -> 0..(MaxAttempts + 1)]
<1>1. job[a] \in Items /\ part[a] \in 1..NumParts
  BY SizesAssumption DEF TypeOK, LockInv, Holds, SenderRaises
<1>2. Lands(job[a], part[a]) \/ UNCHANGED arrivalVars
  BY DEF SenderRaises
<1>3. failures' \in [Items -> 0..(MaxAttempts + 1)]
  BY <1>1, SizesAssumption DEF TypeOK, SenderRaises, Fail
<1>4. CASE Lands(job[a], part[a])
  BY <1>1, <1>3, <1>4, LandsFacts
<1>5. CASE UNCHANGED arrivalVars
  BY <1>1, <1>3, <1>5 DEF arrivalVars, TypeOK
<1> QED
  BY <1>2, <1>4, <1>5

LEMMA RestFacts ==
    ASSUME TypeOK, job["worker"] \in Items, NEW ok
    PROVE  /\ Rest(ok) \in RQ!Queue
           /\ Rest(ok)[job["worker"]] = 0
           /\ \A j \in Items : Rest(ok)[j] \in {0, batch[j]}
<1> DEFINE w == job["worker"]
<1>1. [batch EXCEPT ![w] = 0] \in RQ!Queue
  BY SizesAssumption DEF TypeOK, RQ!Queue
<1>2. RQ!Empty \in RQ!Queue
  BY SizesAssumption DEF RQ!Queue, RQ!Empty
<1> QED
  BY <1>1, <1>2 DEF Rest, TypeOK, RQ!Queue, RQ!Empty

LEMMA BatchFacts ==
    ASSUME NEW b \in RQ!Queue, NEW next \in NextOf(b)
    PROVE  /\ next \in Items \cup {None}
           /\ next # None => b[next] > 0
BY DEF NextOf, RQ!Live

-----------------------------------------------------------------------------
(* Every variable keeps its type, and at most one actor is between two     *)
(* chunks, whose previous one is the last that arrived anywhere.           *)

LEMMA TypeInit == Init => TypeOK /\ LockInv
<1> SUFFICES ASSUME Init PROVE TypeOK /\ LockInv
  OBVIOUS
<1>1. RQ!TypeOK
  BY SizesAssumption DEF Init, RQ!Init, RQ!Empty, RQ!TypeOK, RQ!Queue
<1>2. DS!TypeOK
  BY DEF Init, DS!TypeOK
<1>3. batch \in RQ!Queue
  BY SizesAssumption DEF Init, RQ!Empty, RQ!Queue
<1>4. /\ msgOf \in [Items -> Messages \cup {None}]
      /\ job \in [Actors -> Items \cup {None}]
      /\ part \in [Actors -> 0..NumParts]
      /\ high \in [Items -> 0..NumParts]
      /\ wire \in (Items \cup {None}) \X (0..NumParts)
      /\ failures \in [Items -> 0..(MaxAttempts + 1)]
  BY SizesAssumption DEF Init, Nobody
<1>5. interrupts \in 0..MaxInterrupts
  BY SizesAssumption DEF Init
<1>6. LockInv
  BY DEF Init, LockInv, Holds, Actors
<1> QED
  BY <1>1, <1>2, <1>3, <1>4, <1>5, <1>6 DEF Init, TypeOK

LEMMA TypeStep == TypeOK /\ LockInv /\ [Next]_vars => TypeOK' /\ LockInv'
<1> SUFFICES ASSUME TypeOK, LockInv, [Next]_vars PROVE TypeOK' /\ LockInv'
  OBVIOUS
<1> USE SizesAssumption
<1>1. RQ!TypeOK /\ DS!TypeOK
  BY DEF TypeOK
<1>2. \A a \in Actors : Holds(a) => job[a] \in Items /\ part[a] \in 1..NumParts
  BY DEF TypeOK, LockInv, Holds
<1>3. ASSUME NEW m \in Messages, Duplicate(m)
      PROVE  TypeOK' /\ LockInv'
  <2>1. RQ!TypeOK'
    BY <1>1, <1>3, QueueSame DEF Duplicate
  <2>2. DS!TypeOK'
    BY <1>1, <1>3, StoreFacts, OutcomesAreBoolean DEF Duplicate
  <2>3. forgot' \subseteq Messages
    BY <1>1, <1>3 DEF Duplicate, TypeOK, DS!TypeOK
  <2> QED
    BY <1>3, <2>1, <2>2, <2>3
    DEF Duplicate, TypeOK, LockInv, Holds, actorVars, arrivalVars, fateVars, RQ!Queue
<1>4. ASSUME NEW m \in Messages, NEW i \in Items, Accept(m, i)
      PROVE  TypeOK' /\ LockInv'
  <2>1. RQ!TypeOK'
    BY <1>1, <1>4, QueueSame DEF Accept
  <2>2. DS!TypeOK'
    BY <1>1, <1>4, StoreFacts DEF Accept
  <2>3. forgot' \subseteq Messages
    BY <1>1, <1>4 DEF Accept, TypeOK, DS!TypeOK
  <2>4. /\ msgOf' \in [Items -> Messages \cup {None}]
        /\ job' \in [Actors -> Items \cup {None}]
        /\ part' \in [Actors -> 0..NumParts]
    BY <1>4 DEF Accept, TypeOK, Ask, Actors
  <2>5. LockInv'
    BY <1>4, NoneAssumption
    DEF Accept, TypeOK, LockInv, Ask, Holds, Other, Actors, arrivalVars
  <2> QED
    BY <1>4, <2>1, <2>2, <2>3, <2>4, <2>5 DEF Accept, TypeOK, arrivalVars, fateVars, RQ!Queue
<1>5. ASSUME NEW m \in Messages, NEW i \in Items, AcceptFails(m, i)
      PROVE  TypeOK' /\ LockInv'
  <2>1. RQ!TypeOK'
    BY <1>1, <1>5, QueueSame DEF AcceptFails
  <2>2. DS!TypeOK'
    BY <1>1, <1>5, StoreFacts DEF AcceptFails
  <2>3. forgot' \subseteq Messages
    BY <1>1, <1>5 DEF AcceptFails, TypeOK, DS!TypeOK
  <2> QED
    BY <1>5, <2>1, <2>2, <2>3
    DEF AcceptFails, TypeOK, LockInv, Holds, actorVars, arrivalVars, RQ!Queue
<1>6. ASSUME NEW a \in Actors, SendPart(a)
      PROVE  TypeOK' /\ LockInv'
  <2>1. RQ!TypeOK' /\ DS!TypeOK'
    BY <1>1, <1>6, QueueSame, StoreSame DEF SendPart, storeVars
  <2>2. /\ high' \in [Items -> 0..NumParts]
        /\ wire' \in (Items \cup {None}) \X (0..NumParts)
        /\ wire' = <<job[a], part[a]>>
    BY <1>2, <1>6, LandsFacts DEF SendPart
  <2>3. part' \in [Actors -> 0..NumParts]
    BY <1>6 DEF SendPart, TypeOK
  <2>4. LockInv'
    BY <1>6, <2>2 DEF SendPart, LockInv, TypeOK, Holds, Actors
  <2> QED
    BY <1>6, <2>1, <2>2, <2>3, <2>4 DEF SendPart, TypeOK, storeVars, fateVars, RQ!Queue
<1>7. CASE HandleSent
  <2>1. RQ!TypeOK' /\ DS!TypeOK'
    BY <1>1, <1>7, QueueSame, StoreSame DEF HandleSent, storeVars
  <2>2. /\ high' \in [Items -> 0..NumParts]
        /\ wire' \in (Items \cup {None}) \X (0..NumParts)
    BY <1>2, <1>7, LandsFacts DEF HandleSent, Actors
  <2>3. /\ job' \in [Actors -> Items \cup {None}]
        /\ part' \in [Actors -> 0..NumParts]
        /\ LockInv'
    BY <1>7, PassFacts DEF HandleSent, Actors, LockInv, Holds
  <2>4. confirmed' \subseteq Items
    BY <1>2, <1>7 DEF HandleSent, TypeOK, Actors
  <2> QED
    BY <1>7, <2>1, <2>2, <2>3, <2>4 DEF HandleSent, TypeOK, storeVars, RQ!Queue
<1>8. ASSUME NEW ok \in SaveOutcomes, RetrySent(ok)
      PROVE  TypeOK' /\ LockInv'
  <2> DEFINE i == job["worker"]
             rest == Rest(ok)
  <2>1. i \in Items /\ Holds("worker") /\ part["worker"] = NumParts
    BY <1>2, <1>8 DEF RetrySent, Actors
  <2>2. RQ!TypeOK' /\ DS!TypeOK'
    BY <1>1, <1>8, <2>1, AckFacts, StoreSame, OutcomesAreBoolean DEF RetrySent, storeVars
  <2>3. /\ high' \in [Items -> 0..NumParts]
        /\ wire' \in (Items \cup {None}) \X (0..NumParts)
    BY <1>2, <1>8, LandsFacts DEF RetrySent, Actors
  <2>4. rest \in RQ!Queue /\ batch' = rest
    <3>1. rest \in RQ!Queue
      BY <2>1, RestFacts DEF TypeOK
    <3>2. batch' = rest
      BY <1>8 DEF RetrySent
    <3> QED
      BY <3>1, <3>2
  <2>5. PICK next \in NextOf(rest) : PassLock("worker", next)
    BY <1>8 DEF RetrySent
  <2>6. next \in Items \cup {None}
    BY <2>4, BatchFacts
  <2>7. /\ job' \in [Actors -> Items \cup {None}]
        /\ part' \in [Actors -> 0..NumParts]
        /\ LockInv'
    BY <2>1, <2>5, <2>6, PassFacts DEF Actors, LockInv, Holds
  <2>8. confirmed' \subseteq Items /\ unacked' \subseteq Items
    BY <1>8, <2>1 DEF RetrySent, TypeOK
  <2> QED
    BY <1>8, <2>2, <2>3, <2>4, <2>7, <2>8 DEF RetrySent, TypeOK, storeVars
<1>9. ASSUME NEW ok \in SaveOutcomes, HandleFails(ok)
      PROVE  TypeOK' /\ LockInv'
  <2> DEFINE i == job["receiver"]
  <2>1. i \in Items /\ Holds("receiver") /\ SenderRaises("receiver")
    BY <1>2, <1>9 DEF HandleFails, SenderRaises, Actors
  <2>2. RQ!TypeOK'
    <3>1. CASE 1 < MaxAttempts
      BY <1>1, <1>9, <2>1, <3>1, EnqueueFacts, OutcomesAreBoolean DEF HandleFails
    <3>2. CASE ~(1 < MaxAttempts)
      BY <1>1, <1>9, <3>2, QueueSame DEF HandleFails
    <3> QED
      BY <3>1, <3>2
  <2>3. DS!TypeOK'
    BY <1>1, <2>1, StoreSame DEF SenderRaises, storeVars
  <2>4. /\ high' \in [Items -> 0..NumParts]
        /\ wire' \in (Items \cup {None}) \X (0..NumParts)
        /\ failures' \in [Items -> 0..(MaxAttempts + 1)]
    BY <2>1, SenderRaisesFacts DEF Actors
  <2>5. /\ job' \in [Actors -> Items \cup {None}]
        /\ part' \in [Actors -> 0..NumParts]
        /\ LockInv'
    BY <1>9, <2>1, PassFacts DEF HandleFails, Actors, LockInv, Holds
  <2>6. dropped' \subseteq Items
    BY <1>9, <2>1 DEF HandleFails, TypeOK, Evicted, RQ!Live
  <2> QED
    BY <1>9, <2>1, <2>2, <2>3, <2>4, <2>5, <2>6
    DEF HandleFails, SenderRaises, TypeOK, storeVars, RQ!Queue
<1>10. ASSUME NEW ok \in SaveOutcomes, RetryFails(ok)
       PROVE  TypeOK' /\ LockInv'
  <2> DEFINE i == job["worker"]
             rest == Rest(ok)
  <2>1. i \in Items /\ Holds("worker") /\ SenderRaises("worker")
    BY <1>2, <1>10 DEF RetryFails, SenderRaises, Actors
  <2>2. RQ!TypeOK'
    <3>0. batch[i] + 1 < MaxAttempts => batch[i] + 1 \in 1..MaxAttempts
      BY <2>1 DEF TypeOK, RQ!Queue
    <3>1. CASE batch[i] + 1 < MaxAttempts
      BY <1>1, <1>10, <2>1, <3>0, <3>1, RescheduleFacts, OutcomesAreBoolean DEF RetryFails, NextAttempt
    <3>2. CASE ~(batch[i] + 1 < MaxAttempts)
      BY <1>1, <1>10, <2>1, <3>2, AckFacts, OutcomesAreBoolean DEF RetryFails, NextAttempt
    <3> QED
      BY <3>1, <3>2
  <2>3. DS!TypeOK'
    BY <1>1, <2>1, StoreSame DEF SenderRaises, storeVars
  <2>4. /\ high' \in [Items -> 0..NumParts]
        /\ wire' \in (Items \cup {None}) \X (0..NumParts)
        /\ failures' \in [Items -> 0..(MaxAttempts + 1)]
    BY <2>1, SenderRaisesFacts DEF Actors
  <2>5. rest \in RQ!Queue /\ batch' = rest
    <3>1. rest \in RQ!Queue
      BY <2>1, RestFacts DEF TypeOK
    <3>2. batch' = rest
      BY <1>10 DEF RetryFails
    <3> QED
      BY <3>1, <3>2
  <2>6. PICK next \in NextOf(rest) : PassLock("worker", next)
    BY <1>10 DEF RetryFails
  <2>7. next \in Items \cup {None}
    BY <2>5, BatchFacts
  <2>8. /\ job' \in [Actors -> Items \cup {None}]
        /\ part' \in [Actors -> 0..NumParts]
        /\ LockInv'
    BY <2>1, <2>6, <2>7, PassFacts DEF Actors, LockInv, Holds
  <2>9. dropped' \subseteq Items
    BY <1>10, <2>1 DEF RetryFails, TypeOK, Evicted, RQ!Live
  <2> QED
    BY <2>1, <2>2, <2>3, <2>4, <2>5, <2>8, <2>9 DEF SenderRaises, TypeOK, storeVars
<1>11. CASE DueBatch
  <2>1. RQ!TypeOK'
    BY <1>1, <1>11, PruneFacts DEF DueBatch
  <2>2. DS!TypeOK'
    BY <1>1, <1>11, StoreSame DEF DueBatch, storeVars
  <2>3. batch' \in RQ!Queue
    BY <1>11, <2>1 DEF DueBatch, RQ!Due, RQ!TypeOK, RQ!Queue
  <2>4. PICK i \in NextOf(batch') :
          /\ job' = [job EXCEPT !["worker"] = i]
          /\ part' = [part EXCEPT !["worker"] = IF i = None THEN 0 ELSE Ask("worker")]
    BY <1>11 DEF DueBatch
  <2>5. i \in Items \cup {None}
    BY <2>3, <2>4, BatchFacts
  <2>6. /\ job' \in [Actors -> Items \cup {None}]
        /\ part' \in [Actors -> 0..NumParts]
    BY <2>4, <2>5 DEF TypeOK, Ask, Actors
  <2>7. LockInv'
    BY <1>11, <2>4, <2>5, NoneAssumption
    DEF DueBatch, TypeOK, LockInv, Ask, Holds, Other, Actors, arrivalVars
  <2>8. dropped' \subseteq Items
    BY <1>11 DEF DueBatch, TypeOK, Evicted, RQ!Live
  <2> QED
    BY <1>11, <2>1, <2>2, <2>3, <2>6, <2>7, <2>8 DEF DueBatch, TypeOK, arrivalVars, storeVars
<1>12. ASSUME NEW i \in Items, Ripen(i) \/ Expire(i)
       PROVE  TypeOK' /\ LockInv'
  <2>1. RQ!TypeOK' /\ DS!TypeOK'
    BY <1>1, <1>12, ElapseFacts, StoreSame DEF Ripen, Expire, storeVars
  <2> QED
    BY <1>12, <2>1
    DEF Ripen, Expire, TypeOK, LockInv, Holds, actorVars, arrivalVars, fateVars, storeVars, RQ!Queue
<1>13. CASE Interrupt
  <2>1. RQ!TypeOK' /\ DS!TypeOK'
    BY <1>1, <1>13, DiscardFacts, StoreFacts DEF Interrupt, DS!TypeOK, DS!Discard
  <2>2. /\ high' \in [Items -> 0..NumParts]
        /\ wire' \in (Items \cup {None}) \X (0..NumParts)
    <3>1. CASE UNCHANGED arrivalVars
      BY <3>1 DEF arrivalVars, TypeOK
    <3>2. CASE \E a \in Actors : Holds(a) /\ Lands(job[a], part[a])
      BY <1>2, <3>2, LandsFacts
    <3> QED
      BY <1>13, <3>1, <3>2 DEF Interrupt
  <2>3. job' \in [Actors -> Items \cup {None}] /\ part' \in [Actors -> 0..NumParts]
    BY <1>13 DEF Interrupt, Nobody
  <2>4. batch' \in RQ!Queue
    BY <1>13 DEF Interrupt, RQ!Empty, RQ!Queue
  <2>5. lost' \subseteq Items
    BY <1>13 DEF Interrupt, TypeOK, RQ!Live, Actors
  <2>6. LockInv'
    BY <1>13 DEF Interrupt, LockInv, Holds, Actors
  <2>7. running' \in BOOLEAN /\ interrupts' \in 0..MaxInterrupts
    <3>1. interrupts \in 0..MaxInterrupts
      BY DEF TypeOK
    <3>2. running' = FALSE /\ interrupts < MaxInterrupts /\ interrupts' = interrupts + 1
      BY <1>13 DEF Interrupt
    <3>3. interrupts' \in 0..MaxInterrupts
      BY <3>1, <3>2
    <3> QED
      BY <3>2, <3>3
  <2> QED
    BY <1>13, <2>1, <2>2, <2>3, <2>4, <2>5, <2>6, <2>7 DEF Interrupt, TypeOK
<1>14. CASE Start
  <2>1. RQ!TypeOK'
    BY <1>1, <1>14, LoadFacts DEF Start
  <2>2. DS!TypeOK'
    BY <1>1, <1>14 DEF Start, DS!Load, DS!Save, DS!TypeOK
  <2>3. forgot' \subseteq Messages /\ dropped' \subseteq Items
    BY <1>1, <1>14 DEF Start, TypeOK, DS!TypeOK, Evicted, RQ!Live
  <2> QED
    BY <1>14, <2>1, <2>2, <2>3 DEF Start, TypeOK, LockInv, Holds, actorVars, arrivalVars, RQ!Queue
<1>15. CASE StartFails
  <2>1. RQ!TypeOK'
    BY <1>1, <1>15, QueueSame DEF StartFails
  <2>2. DS!TypeOK' /\ forgot' \subseteq Messages
    BY <1>1, <1>15 DEF StartFails, TypeOK, DS!TypeOK
  <2> QED
    BY <1>15, <2>1, <2>2
    DEF StartFails, TypeOK, LockInv, Holds, actorVars, arrivalVars, fateVars, RQ!Queue
<1>16. CASE UNCHANGED vars
  <2>1. RQ!TypeOK' /\ DS!TypeOK'
    BY <1>1, <1>16, QueueSame, StoreSame DEF vars, storeVars
  <2> QED
    BY <1>16, <2>1
    DEF vars, TypeOK, LockInv, Holds, actorVars, arrivalVars, fateVars, storeVars, RQ!Queue
<1> QED
  BY <1>3, <1>4, <1>5, <1>6, <1>7, <1>8, <1>9, <1>10, <1>11, <1>12, <1>13, <1>14, <1>15, <1>16
  DEF Next

(* TypeOK holds in every reachable state, together with the exclusion the  *)
(* send lock of DeliveryPipeline provides.                                 *)
THEOREM TypeCorrect == Spec => [](TypeOK /\ LockInv)
BY TypeInit, TypeStep, PTL DEF Spec

-----------------------------------------------------------------------------
(* What the two tasks may assume of each other's items. *)

TaskInv == FreshInv /\ JobInv /\ StoppedInv

LEMMA HolderRuns ==
    ASSUME TypeOK, LockInv, StoppedInv, NEW a \in Actors, Holds(a)
    PROVE  running /\ job[a] \in Items
BY DEF TypeOK, LockInv, StoppedInv, Nobody

LEMMA TaskInit == Init => TaskInv
BY DEF Init, TaskInv, FreshInv, JobInv, StoppedInv, RQ!Init, RQ!Empty, Nobody, Actors

LEMMA TaskStep ==
    TypeOK /\ LockInv /\ TypeOK' /\ TaskInv /\ [Next]_vars => TaskInv'
<1> SUFFICES ASSUME TypeOK, LockInv, TypeOK', TaskInv, [Next]_vars PROVE TaskInv'
  OBVIOUS
<1> USE SizesAssumption, NoneAssumption
<1>1. RQ!TypeOK /\ FreshInv /\ JobInv /\ StoppedInv
  BY DEF TypeOK, TaskInv
<1>2. \A a \in Actors : Holds(a) => running /\ job[a] \in Items
  BY <1>1, HolderRuns
<1>3. ASSUME NEW m \in Messages, Duplicate(m)
      PROVE  TaskInv'
  BY <1>1, <1>3
  DEF Duplicate, TaskInv, FreshInv, JobInv, StoppedInv, queueVars, actorVars, fateVars
<1>4. ASSUME NEW m \in Messages, NEW i \in Items, Accept(m, i)
      PROVE  TaskInv'
  <2>1. \A j \in Items : msgOf'[j] = IF j = i THEN m ELSE msgOf[j]
    BY <1>4 DEF Accept, TypeOK
  <2>2. job'["receiver"] = i /\ job'["worker"] = job["worker"]
    BY <1>4 DEF Accept, TypeOK, Actors
  <2>3. FreshInv'
    BY <1>1, <1>4, <2>1, <2>2 DEF Accept, Free, FreshInv, queueVars, fateVars
  <2>4. JobInv'
    BY <1>1, <1>4, <2>1, <2>2 DEF Accept, JobInv
  <2> QED
    BY <1>4, <2>3, <2>4 DEF Accept, TaskInv, StoppedInv
<1>5. ASSUME NEW m \in Messages, NEW i \in Items, AcceptFails(m, i)
      PROVE  TaskInv'
  <2>1. \A j \in Items : msgOf'[j] = IF j = i THEN m ELSE msgOf[j]
    BY <1>5 DEF AcceptFails, TypeOK
  <2>2. FreshInv'
    BY <1>1, <1>5, <2>1 DEF AcceptFails, FreshInv, queueVars, actorVars
  <2>3. JobInv'
    BY <1>1, <1>5 DEF AcceptFails, JobInv, actorVars
  <2> QED
    BY <1>5, <2>2, <2>3 DEF AcceptFails, TaskInv, StoppedInv
<1>6. ASSUME NEW a \in Actors, SendPart(a)
      PROVE  TaskInv'
  BY <1>1, <1>6
  DEF SendPart, TaskInv, FreshInv, JobInv, StoppedInv, queueVars, storeVars, fateVars
<1>7. CASE HandleSent
  <2>1. job'["receiver"] = None /\ job'["worker"] = job["worker"]
    BY <1>7, PassFacts DEF HandleSent, Actors, Other
  <2>2. running /\ job["receiver"] \in Items /\ msgOf[job["receiver"]] # None
    BY <1>1, <1>2, <1>7 DEF HandleSent, Actors, JobInv
  <2>3. FreshInv'
    BY <1>1, <1>7, <2>1, <2>2 DEF HandleSent, FreshInv, queueVars
  <2>4. JobInv'
    BY <1>1, <1>7, <2>1 DEF HandleSent, JobInv
  <2> QED
    BY <1>7, <2>2, <2>3, <2>4 DEF HandleSent, TaskInv, StoppedInv
<1>8. ASSUME NEW ok \in SaveOutcomes, RetrySent(ok)
      PROVE  TaskInv'
  <2> DEFINE w == job["worker"]
             rest == Rest(ok)
  <2>1. running /\ w \in Items /\ batch[w] > 0 /\ Holds("worker")
    BY <1>1, <1>2, <1>8 DEF RetrySent, Actors, JobInv
  <2>2. /\ \A j \in Items \ {w} : records'[j] = records[j]
        /\ file' \in {file, records'}
    BY <1>1, <1>8, <2>1, AckFacts, OutcomesAreBoolean DEF RetrySent
  <2>3. batch' = rest
    BY <1>8 DEF RetrySent
  <2>4. \A j \in Items : batch'[j] \in {0, batch[j]}
    BY <1>1, <2>1, <2>3, RestFacts
  <2>5. PICK next \in NextOf(rest) : PassLock("worker", next)
    BY <1>8 DEF RetrySent
  <2>6. next \in Items \cup {None} /\ (next # None => batch'[next] > 0)
    BY <2>3, BatchFacts DEF TypeOK
  <2>7. job'["worker"] = next /\ job'["receiver"] = job["receiver"]
    BY <2>1, <2>5, <2>6, PassFacts DEF Actors, Other
  <2>8. FreshInv'
    BY <1>1, <1>8, <2>1, <2>2, <2>4, <2>7 DEF RetrySent, FreshInv, TypeOK, RQ!Queue
  <2>9. JobInv'
    BY <1>1, <1>8, <2>6, <2>7 DEF RetrySent, JobInv
  <2> QED
    BY <1>8, <2>1, <2>8, <2>9 DEF RetrySent, TaskInv, StoppedInv
<1>9. ASSUME NEW ok \in SaveOutcomes, HandleFails(ok)
      PROVE  TaskInv'
  <2> DEFINE i == job["receiver"]
  <2>1. /\ running /\ i \in Items /\ msgOf[i] # None
        /\ Holds("receiver") /\ SenderRaises("receiver")
    BY <1>1, <1>2, <1>9 DEF HandleFails, SenderRaises, Actors, JobInv
  <2>2. /\ \A j \in Items \ {i} : records'[j] \in {0, records[j]}
        /\ file' \in {file, records'}
    <3>1. CASE 1 < MaxAttempts
      BY <1>1, <1>9, <2>1, <3>1, EnqueueFacts, OutcomesAreBoolean DEF HandleFails
    <3>2. CASE ~(1 < MaxAttempts)
      BY <1>9, <3>2 DEF HandleFails, queueVars
    <3> QED
      BY <3>1, <3>2
  <2>3. job'["receiver"] = None /\ job'["worker"] = job["worker"]
    BY <1>9, <2>1, PassFacts DEF HandleFails, Actors, Other
  <2>4. FreshInv'
    BY <1>1, <1>9, <2>1, <2>2, <2>3 DEF HandleFails, SenderRaises, FreshInv
  <2>5. JobInv'
    BY <1>1, <1>9, <2>1, <2>3 DEF HandleFails, SenderRaises, JobInv
  <2> QED
    BY <2>1, <2>4, <2>5 DEF SenderRaises, TaskInv, StoppedInv
<1>10. ASSUME NEW ok \in SaveOutcomes, RetryFails(ok)
       PROVE  TaskInv'
  <2> DEFINE w == job["worker"]
             rest == Rest(ok)
  <2>1. /\ running /\ w \in Items /\ batch[w] > 0
        /\ Holds("worker") /\ SenderRaises("worker")
    BY <1>1, <1>2, <1>10 DEF RetryFails, SenderRaises, Actors, JobInv
  <2>2. /\ \A j \in Items \ {w} : records'[j] \in {0, records[j]}
        /\ file' \in {file, records'}
    <3>0. batch[w] + 1 < MaxAttempts => batch[w] + 1 \in 1..MaxAttempts
      BY <2>1 DEF TypeOK, RQ!Queue
    <3>1. CASE batch[w] + 1 < MaxAttempts
      BY <1>1, <1>10, <2>1, <3>0, <3>1, RescheduleFacts, OutcomesAreBoolean DEF RetryFails, NextAttempt
    <3>2. CASE ~(batch[w] + 1 < MaxAttempts)
      BY <1>1, <1>10, <2>1, <3>2, AckFacts, OutcomesAreBoolean DEF RetryFails, NextAttempt
    <3> QED
      BY <3>1, <3>2
  <2>3. batch' = rest
    BY <1>10 DEF RetryFails
  <2>4. \A j \in Items : batch'[j] \in {0, batch[j]}
    BY <1>1, <2>1, <2>3, RestFacts
  <2>5. PICK next \in NextOf(rest) : PassLock("worker", next)
    BY <1>10 DEF RetryFails
  <2>6. next \in Items \cup {None} /\ (next # None => batch'[next] > 0)
    BY <2>3, BatchFacts DEF TypeOK
  <2>7. job'["worker"] = next /\ job'["receiver"] = job["receiver"]
    BY <2>1, <2>5, <2>6, PassFacts DEF Actors, Other
  <2>8. FreshInv'
    BY <1>1, <2>1, <2>2, <2>4, <2>7 DEF SenderRaises, FreshInv
  <2>9. JobInv'
    BY <1>1, <2>1, <2>6, <2>7 DEF SenderRaises, JobInv
  <2> QED
    BY <2>1, <2>8, <2>9 DEF SenderRaises, TaskInv, StoppedInv
<1>11. CASE DueBatch
  <2>1. (\A j \in Items : records'[j] \in {0, records[j]}) /\ file' = file
    BY <1>1, <1>11, PruneFacts DEF DueBatch
  <2>2. \A j \in Items : batch'[j] \in {0, records'[j]}
    BY <1>11 DEF DueBatch, RQ!Due
  <2>3. PICK i \in NextOf(batch') : job' = [job EXCEPT !["worker"] = i]
    BY <1>11 DEF DueBatch
  <2>4. i # None => batch'[i] > 0
    BY <2>3, BatchFacts DEF TypeOK
  <2>5. job'["worker"] = i /\ job'["receiver"] = job["receiver"]
    BY <2>3 DEF TypeOK, Actors
  <2>6. FreshInv'
    BY <1>1, <1>11, <2>1, <2>2, <2>5 DEF DueBatch, FreshInv
  <2>7. JobInv'
    BY <1>1, <1>11, <2>4, <2>5 DEF DueBatch, JobInv
  <2> QED
    BY <1>11, <2>6, <2>7 DEF DueBatch, TaskInv, StoppedInv
<1>12. ASSUME NEW i \in Items, Ripen(i) \/ Expire(i)
       PROVE  TaskInv'
  <2>1. records' = records /\ file' = file
    BY <1>1, <1>12, ElapseFacts DEF Ripen, Expire
  <2> QED
    BY <1>1, <1>12, <2>1
    DEF Ripen, Expire, TaskInv, FreshInv, JobInv, StoppedInv, actorVars, storeVars, fateVars
<1>13. CASE Interrupt
  <2>1. records' = RQ!Empty /\ file' = file
    BY <1>1, <1>13, DiscardFacts DEF Interrupt
  <2>2. job'["receiver"] = None /\ job'["worker"] = None
    BY <1>13 DEF Interrupt, Nobody, Actors
  <2>3. FreshInv'
    BY <1>1, <1>13, <2>1, <2>2 DEF Interrupt, FreshInv, RQ!Empty
  <2>4. JobInv'
    BY <2>2 DEF JobInv
  <2> QED
    BY <1>13, <2>1, <2>3, <2>4 DEF Interrupt, TaskInv, StoppedInv, DS!Discard
<1>14. CASE Start
  <2>1. (\A j \in Items : records'[j] \in {0, file[j]}) /\ file' = records'
    BY <1>1, <1>14, LoadFacts DEF Start
  <2>2. FreshInv'
    BY <1>1, <1>14, <2>1 DEF Start, FreshInv, actorVars
  <2>3. JobInv'
    BY <1>1, <1>14 DEF Start, JobInv, actorVars
  <2> QED
    BY <1>14, <2>2, <2>3 DEF Start, TaskInv, StoppedInv
<1>15. CASE StartFails
  BY <1>1, <1>15
  DEF StartFails, TaskInv, FreshInv, JobInv, StoppedInv, queueVars, actorVars, fateVars
<1>16. CASE UNCHANGED vars
  BY <1>1, <1>16
  DEF vars, TaskInv, FreshInv, JobInv, StoppedInv, queueVars, actorVars, fateVars, storeVars
<1> QED
  BY <1>3, <1>4, <1>5, <1>6, <1>7, <1>8, <1>9, <1>10, <1>11, <1>12, <1>13, <1>14, <1>15, <1>16
  DEF Next

IndInv == TypeOK /\ LockInv /\ TaskInv

(* The invariant the safety theorems start from. *)
THEOREM InvariantHolds == Spec => []IndInv
<1>1. Init => IndInv
  BY TypeInit, TaskInit DEF IndInv
<1>2. IndInv /\ [Next]_vars => IndInv'
  BY TypeStep, TaskStep DEF IndInv
<1> QED
  BY <1>1, <1>2, PTL DEF Spec

-----------------------------------------------------------------------------
(* No accepted message disappears silently. *)

LEMMA SentStays ==
    ASSUME TypeOK, TypeOK', \A j \in Items : high'[j] >= high[j], NEW j \in Items, Sent(j)
    PROVE  Sent(j)'
BY SizesAssumption DEF TypeOK, Sent

(* While the process runs, a step that accounts for what leaves the queue *)
(* keeps everything accounted for.                                        *)
LEMMA AccountedRunning ==
    ASSUME TypeOK, TypeOK', Accounted, running, running', NEW i \in Items,
           msgOf' = msgOf,
           \A j \in Items : high'[j] >= high[j],
           \A j \in Items \ {i} : job["receiver"] = j => job'["receiver"] = j,
           \A j \in Items \ {i} : records[j] > 0 => records'[j] > 0 \/ j \in dropped',
           msgOf[i] # None =>
              high'[i] = NumParts \/ job'["receiver"] = i \/ records'[i] > 0 \/ i \in dropped' \cup lost',
           dropped \subseteq dropped', lost \subseteq lost'
    PROVE  Accounted'
<1> SUFFICES ASSUME NEW j \in Items, msgOf[j] # None
             PROVE  \/ Sent(j)'
                    \/ job'["receiver"] = j
                    \/ records'[j] > 0
                    \/ j \in dropped' \cup lost'
  BY DEF Accounted, Queued
<1>1. CASE j = i
  BY <1>1 DEF Sent
<1>2. CASE j # i
  <2>1. Sent(j) \/ job["receiver"] = j \/ records[j] > 0 \/ j \in dropped \cup lost
    BY DEF Accounted, Queued
  <2> QED
    BY <1>2, <2>1, SentStays
<1> QED
  BY <1>1, <1>2

LEMMA AccountedInit == Init => Accounted
BY DEF Init, Accounted

LEMMA AccountedStep == IndInv /\ IndInv' /\ Accounted /\ [Next]_vars => Accounted'
<1> SUFFICES ASSUME IndInv, IndInv', Accounted, [Next]_vars PROVE Accounted'
  OBVIOUS
<1> USE SizesAssumption, NoneAssumption
<1>1. TypeOK /\ TypeOK' /\ LockInv /\ RQ!TypeOK /\ RQ!TypeOK' /\ FreshInv /\ JobInv /\ StoppedInv
  BY DEF IndInv, TaskInv, TypeOK
<1>2. \A a \in Actors : Holds(a) => running /\ job[a] \in Items /\ part[a] \in 1..NumParts
  BY <1>1, HolderRuns DEF TypeOK, Holds
<1>3. ASSUME NEW m \in Messages, Duplicate(m)
      PROVE  Accounted'
  BY <1>3 DEF Duplicate, Accounted, Sent, Queued, queueVars, actorVars, arrivalVars, fateVars
<1>4. ASSUME NEW m \in Messages, NEW i \in Items, Accept(m, i)
      PROVE  Accounted'
  <2>1. \A j \in Items \ {i} : msgOf'[j] = msgOf[j]
    BY <1>4 DEF Accept, TypeOK
  <2>2. job["receiver"] = None /\ job'["receiver"] = i
    BY <1>1, <1>4 DEF Accept, TypeOK, Actors
  <2> QED
    BY <1>4, <2>1, <2>2 DEF Accept, Accounted, Sent, Queued, queueVars, arrivalVars, fateVars
<1>5. ASSUME NEW m \in Messages, NEW i \in Items, AcceptFails(m, i)
      PROVE  Accounted'
  <2>1. \A j \in Items \ {i} : msgOf'[j] = msgOf[j]
    BY <1>5 DEF AcceptFails, TypeOK
  <2> QED
    BY <1>5, <2>1 DEF AcceptFails, Accounted, Sent, Queued, queueVars, actorVars, arrivalVars
<1>6. ASSUME NEW a \in Actors, SendPart(a)
      PROVE  Accounted'
  <2>1. running /\ job[a] \in Items /\ part[a] \in 1..NumParts
    BY <1>2, <1>6 DEF SendPart
  <2>2. \A j \in Items : high'[j] >= high[j]
    BY <1>1, <1>6, <2>1, LandsFacts DEF SendPart
  <2>3. \A j \in Items : Sent(j) => Sent(j)'
    BY <1>1, <2>2, SentStays
  <2> QED
    BY <1>6, <2>3 DEF SendPart, Accounted, Queued, queueVars, fateVars
<1>7. CASE HandleSent
  <2> DEFINE i == job["receiver"]
  <2>1. running /\ i \in Items /\ NumParts \in 1..NumParts
    BY <1>2, <1>7 DEF HandleSent, Actors
  <2>2. high'[i] = NumParts /\ \A j \in Items : high'[j] >= high[j]
    <3>1. Lands(i, NumParts)
      BY <1>7 DEF HandleSent
    <3> QED
      BY <1>1, <2>1, <3>1, LandsFacts
  <2>3. /\ running' /\ msgOf' = msgOf /\ records' = records
        /\ dropped' = dropped /\ lost' = lost
    BY <1>7, <2>1 DEF HandleSent, queueVars
  <2> QED
    BY <1>1, <2>1, <2>2, <2>3, AccountedRunning
<1>8. ASSUME NEW ok \in SaveOutcomes, RetrySent(ok)
      PROVE  Accounted'
  <2> DEFINE w == job["worker"]
             rest == Rest(ok)
  <2>1. running /\ w \in Items /\ NumParts \in 1..NumParts /\ Holds("worker")
    BY <1>2, <1>8 DEF RetrySent, Actors
  <2>2. high'[w] = NumParts /\ \A j \in Items : high'[j] >= high[j]
    <3>1. Lands(w, NumParts)
      BY <1>8 DEF RetrySent
    <3> QED
      BY <1>1, <2>1, <3>1, LandsFacts
  <2>3. \A j \in Items \ {w} : records'[j] = records[j]
    BY <1>1, <1>8, <2>1, AckFacts, OutcomesAreBoolean DEF RetrySent
  <2>4. PICK next \in NextOf(rest) : PassLock("worker", next)
    BY <1>8 DEF RetrySent
  <2>5. next \in Items \cup {None}
    <3>1. batch' = rest /\ batch' \in RQ!Queue
      BY <1>1, <1>8 DEF RetrySent, TypeOK
    <3> QED
      BY <2>4, <3>1, BatchFacts
  <2>6. job'["receiver"] = job["receiver"]
    BY <1>1, <2>1, <2>4, <2>5, PassFacts DEF Actors, Other
  <2> QED
    BY <1>1, <1>8, <2>1, <2>2, <2>3, <2>6, AccountedRunning DEF RetrySent
<1>9. ASSUME NEW ok \in SaveOutcomes, HandleFails(ok)
      PROVE  Accounted'
  <2> DEFINE i == job["receiver"]
  <2>1. running /\ i \in Items /\ Holds("receiver") /\ SenderRaises("receiver")
    BY <1>2, <1>9 DEF HandleFails, SenderRaises, Actors
  <2>2. \A j \in Items : high'[j] >= high[j]
    BY <1>1, <2>1, SenderRaisesFacts DEF Actors
  <2>3. /\ \A j \in Items \ {i} : records[j] > 0 => records'[j] > 0 \/ j \in dropped'
        /\ records'[i] > 0 \/ i \in dropped'
    <3>1. CASE 1 < MaxAttempts
      BY <1>1, <1>9, <2>1, <3>1, EnqueueFacts, OutcomesAreBoolean DEF HandleFails
    <3>2. CASE ~(1 < MaxAttempts)
      BY <1>9, <3>2 DEF HandleFails, queueVars
    <3> QED
      BY <3>1, <3>2
  <2>4. dropped \subseteq dropped'
    BY <1>9 DEF HandleFails
  <2> QED
    BY <1>1, <2>1, <2>2, <2>3, <2>4, AccountedRunning DEF SenderRaises
<1>10. ASSUME NEW ok \in SaveOutcomes, RetryFails(ok)
       PROVE  Accounted'
  <2> DEFINE w == job["worker"]
             rest == Rest(ok)
  <2>1. /\ running /\ w \in Items /\ Holds("worker") /\ SenderRaises("worker")
    BY <1>2, <1>10 DEF RetryFails, SenderRaises, Actors
  <2>2. \A j \in Items : high'[j] >= high[j]
    BY <1>1, <2>1, SenderRaisesFacts DEF Actors
  <2>3. \A j \in Items : records[j] > 0 => records'[j] > 0 \/ j \in dropped'
    <3> batch[w] \in 0..MaxAttempts /\ batch[w] > 0
      BY <1>1, <2>1 DEF TypeOK, RQ!Queue, JobInv
    <3>0. batch[w] + 1 < MaxAttempts => batch[w] + 1 \in 1..MaxAttempts
      OBVIOUS
    <3>1. CASE batch[w] + 1 < MaxAttempts
      BY <1>1, <1>10, <2>1, <3>0, <3>1, RescheduleFacts, OutcomesAreBoolean DEF RetryFails, NextAttempt
    <3>2. CASE ~(batch[w] + 1 < MaxAttempts)
      BY <1>1, <1>10, <2>1, <3>2, AckFacts, OutcomesAreBoolean DEF RetryFails, NextAttempt
    <3> QED
      BY <3>1, <3>2
  <2>4. dropped \subseteq dropped'
    BY <1>10 DEF RetryFails
  <2>5. PICK next \in NextOf(rest) : PassLock("worker", next)
    BY <1>10 DEF RetryFails
  <2>6. next \in Items \cup {None}
    <3>1. batch' = rest /\ batch' \in RQ!Queue
      BY <1>1, <1>10 DEF RetryFails, TypeOK
    <3> QED
      BY <2>5, <3>1, BatchFacts
  <2>7. job'["receiver"] = job["receiver"]
    BY <1>1, <2>1, <2>5, <2>6, PassFacts DEF Actors, Other
  <2>8. \A j \in Items : Sent(j) => Sent(j)'
    BY <1>1, <2>2, SentStays
  <2> QED
    BY <2>1, <2>3, <2>4, <2>7, <2>8 DEF SenderRaises, Accounted, Queued
<1>11. CASE DueBatch
  <2>1. job'["receiver"] = job["receiver"]
    BY <1>1, <1>11 DEF DueBatch, TypeOK, Actors
  <2>2. \A j \in Items : records[j] > 0 => records'[j] > 0 \/ j \in dropped'
    BY <1>1, <1>11, PruneFacts DEF DueBatch
  <2> QED
    BY <1>11, <2>1, <2>2 DEF DueBatch, Accounted, Queued, Sent, arrivalVars
<1>12. ASSUME NEW i \in Items, Ripen(i) \/ Expire(i)
       PROVE  Accounted'
  <2>1. records' = records /\ file' = file
    BY <1>1, <1>12, ElapseFacts DEF Ripen, Expire
  <2> QED
    BY <1>12, <2>1 DEF Ripen, Expire, Accounted, Queued, Sent, actorVars, arrivalVars, fateVars
<1>13. CASE Interrupt
  <2>1. file' = file
    BY <1>1, <1>13, DiscardFacts DEF Interrupt
  <2>2. \A j \in Items : high'[j] >= high[j]
    <3>1. CASE UNCHANGED arrivalVars
      BY <1>1, <3>1 DEF arrivalVars, TypeOK
    <3>2. CASE \E a \in Actors : Holds(a) /\ Lands(job[a], part[a])
      BY <1>1, <1>2, <3>2, LandsFacts
    <3> QED
      BY <1>13, <3>1, <3>2 DEF Interrupt
  <2>3. \A j \in Items : Sent(j) => Sent(j)'
    BY <1>1, <2>2, SentStays
  <2>4. \A j \in Items : records[j] > 0 => file[j] > 0 \/ j \in lost'
    BY <1>13 DEF Interrupt, RQ!Live
  <2>5. \A j \in Items : job["receiver"] = j => j \in lost'
    BY <1>13 DEF Interrupt
  <2> QED
    BY <1>13, <2>1, <2>3, <2>4, <2>5 DEF Interrupt, Accounted, Queued
<1>14. CASE Start
  <2>1. \A j \in Items : file[j] > 0 => records'[j] > 0 \/ j \in dropped'
    BY <1>1, <1>14, LoadFacts DEF Start
  <2> QED
    BY <1>14, <2>1 DEF Start, Accounted, Queued, Sent, actorVars, arrivalVars
<1>15. CASE StartFails
  BY <1>15 DEF StartFails, Accounted, Queued, Sent, queueVars, actorVars, arrivalVars, fateVars
<1>16. CASE UNCHANGED vars
  BY <1>16 DEF vars, Accounted, Queued, Sent, queueVars, actorVars, arrivalVars, fateVars
<1> QED
  BY <1>3, <1>4, <1>5, <1>6, <1>7, <1>8, <1>9, <1>10, <1>11, <1>12, <1>13, <1>14, <1>15, <1>16
  DEF Next

(* Every accepted message is delivered, in flight, queued, given up for a  *)
(* configured reason, or among those a stop, a crash or the disk cost.     *)
THEOREM AlwaysAccounted == Spec => []Accounted
<1>1. IndInv /\ IndInv' /\ Accounted /\ [Next]_vars => Accounted'
  BY AccountedStep
<1> QED
  BY <1>1, AccountedInit, InvariantHolds, PTL DEF Spec

-----------------------------------------------------------------------------
(* What one step of either task does to the queue and to the batch, in the *)
(* form the next proofs need.                                              *)

LEMMA WorkerEnds ==
    ASSUME IndInv, IndInv', NEW ok \in SaveOutcomes, RetrySent(ok) \/ RetryFails(ok)
    PROVE  /\ running /\ running' /\ job["worker"] \in Items /\ batch[job["worker"]] > 0
           /\ job'["receiver"] = job["receiver"]
           /\ job'["worker"] # None => job'["worker"] # job["worker"]
           /\ \A j \in Items \ {job["worker"]} :
                 records'[j] \in {0, records[j]} /\ batch'[j] \in {0, batch[j]}
           /\ batch'[job["worker"]] = 0
           /\ records[job["worker"]] = 0 => records'[job["worker"]] = 0
           /\ file' \in {file, records'}
<1> DEFINE w == job["worker"]
           rest == Rest(ok)
<1> USE SizesAssumption, NoneAssumption
<1>1. /\ TypeOK /\ TypeOK' /\ LockInv /\ RQ!TypeOK /\ JobInv /\ StoppedInv
      /\ batch' \in RQ!Queue
  BY DEF IndInv, TaskInv, TypeOK
<1>2. Holds("worker") /\ running' = running
  BY DEF RetrySent, RetryFails, SenderRaises
<1>3. running /\ w \in Items /\ batch[w] > 0
  BY <1>1, <1>2, HolderRuns DEF Actors, JobInv
<1>4. batch' = rest
  BY DEF RetrySent, RetryFails
<1>5. batch'[w] = 0 /\ \A j \in Items : batch'[j] \in {0, batch[j]}
  BY <1>1, <1>3, <1>4, RestFacts
<1>6. PICK next \in NextOf(rest) : PassLock("worker", next)
  BY DEF RetrySent, RetryFails
<1>7. next \in Items \cup {None} /\ (next # None => batch'[next] > 0)
  BY <1>1, <1>4, <1>6, BatchFacts
<1>8. job'["worker"] = next /\ job'["receiver"] = job["receiver"]
  BY <1>1, <1>2, <1>6, <1>7, PassFacts DEF Actors, Other
<1>9. next # w
  BY <1>3, <1>5, <1>7
<1>10. /\ \A j \in Items \ {w} : records'[j] \in {0, records[j]}
       /\ records[w] = 0 => records'[w] = 0
       /\ file' \in {file, records'}
  <2>1. CASE RetrySent(ok)
    BY <1>1, <1>3, <2>1, AckFacts, OutcomesAreBoolean DEF RetrySent
  <2>2. CASE RetryFails(ok)
    <3> batch[w] \in 0..MaxAttempts
      BY <1>1, <1>3 DEF TypeOK, RQ!Queue
    <3>0. batch[w] + 1 < MaxAttempts => batch[w] + 1 \in 1..MaxAttempts
      OBVIOUS
    <3>1. CASE batch[w] + 1 < MaxAttempts
      BY <1>1, <1>3, <2>2, <3>0, <3>1, RescheduleFacts, OutcomesAreBoolean DEF RetryFails, NextAttempt
    <3>2. CASE ~(batch[w] + 1 < MaxAttempts)
      BY <1>1, <1>3, <2>2, <3>2, AckFacts, OutcomesAreBoolean DEF RetryFails, NextAttempt
    <3> QED
      BY <3>1, <3>2
  <2> QED
    BY <2>1, <2>2
<1> QED
  BY <1>2, <1>3, <1>5, <1>8, <1>9, <1>10

LEMMA ReceiverFails ==
    ASSUME IndInv, NEW ok \in SaveOutcomes, HandleFails(ok)
    PROVE  /\ running /\ running' /\ job["receiver"] \in Items
           /\ job'["receiver"] = None /\ job'["worker"] = job["worker"]
           /\ \A j \in Items \ {job["receiver"]} : records'[j] \in {0, records[j]}
           /\ file' \in {file, records'}
<1> DEFINE i == job["receiver"]
<1> USE SizesAssumption, NoneAssumption
<1>1. TypeOK /\ LockInv /\ RQ!TypeOK /\ StoppedInv
  BY DEF IndInv, TaskInv, TypeOK
<1>2. Holds("receiver") /\ running' = running
  BY DEF HandleFails, SenderRaises
<1>3. running /\ i \in Items
  BY <1>1, <1>2, HolderRuns DEF Actors
<1>4. job'["receiver"] = None /\ job'["worker"] = job["worker"]
  BY <1>1, <1>2, PassFacts DEF HandleFails, Actors, Other
<1>5. /\ \A j \in Items \ {i} : records'[j] \in {0, records[j]}
      /\ file' \in {file, records'}
  <2>1. CASE 1 < MaxAttempts
    BY <1>1, <1>3, <2>1, EnqueueFacts, OutcomesAreBoolean DEF HandleFails
  <2>2. CASE ~(1 < MaxAttempts)
    BY <2>2 DEF HandleFails, queueVars
  <2> QED
    BY <2>1, <2>2
<1> QED
  BY <1>2, <1>3, <1>4, <1>5

LEMMA WorkerStarts ==
    ASSUME IndInv, IndInv', DueBatch
    PROVE  /\ running /\ running' /\ job'["receiver"] = job["receiver"]
           /\ \A j \in Items : records'[j] \in {0, records[j]} /\ batch'[j] \in {0, records'[j]}
           /\ file' = file
           /\ job'["worker"] # None => records'[job'["worker"]] > 0
<1>1. TypeOK /\ RQ!TypeOK /\ TypeOK' /\ JobInv'
  BY DEF IndInv, TaskInv, TypeOK
<1>2. (\A j \in Items : records'[j] \in {0, records[j]}) /\ file' = file
  BY <1>1, PruneFacts DEF DueBatch
<1>3. \A j \in Items : batch'[j] \in {0, records'[j]}
  BY DEF DueBatch, RQ!Due
<1>4. job'["receiver"] = job["receiver"]
  BY <1>1 DEF DueBatch, TypeOK, Actors
<1>5. job'["worker"] # None => records'[job'["worker"]] > 0
  <2>1. job'["worker"] \in Items \cup {None}
    BY <1>1 DEF TypeOK, Actors
  <2>2. job'["worker"] # None => batch'[job'["worker"]] > 0
    BY <1>1 DEF JobInv
  <2> QED
    BY <1>3, <2>1, <2>2
<1> QED
  BY <1>2, <1>3, <1>4, <1>5 DEF DueBatch

-----------------------------------------------------------------------------
(* The worker's snapshot never goes stale. *)

LEMMA FreshBatchStep == IndInv /\ IndInv' /\ FreshBatch /\ [Next]_vars => FreshBatch'
<1> SUFFICES ASSUME IndInv, IndInv', FreshBatch, [Next]_vars PROVE FreshBatch'
  OBVIOUS
<1>1. TypeOK /\ FreshInv /\ StoppedInv
  BY DEF IndInv, TaskInv
<1>2. ASSUME records' = records, batch' = batch
      PROVE  FreshBatch'
  BY <1>2 DEF FreshBatch
<1>3. ASSUME NEW ok \in SaveOutcomes, RetrySent(ok) \/ RetryFails(ok)
      PROVE  FreshBatch'
  BY <1>3, WorkerEnds DEF FreshBatch
<1>4. ASSUME NEW ok \in SaveOutcomes, HandleFails(ok)
      PROVE  FreshBatch'
  <2>1. batch' = batch
    BY <1>4 DEF HandleFails
  <2>2. batch[job["receiver"]] = 0
    BY <1>1, <1>4, ReceiverFails DEF FreshInv
  <2> QED
    BY <1>4, <2>1, <2>2, ReceiverFails DEF FreshBatch
<1>5. CASE DueBatch
  BY <1>5, WorkerStarts DEF FreshBatch
<1>6. CASE Interrupt
  BY <1>6 DEF Interrupt, FreshBatch, RQ!Empty
<1>7. CASE Start
  BY <1>1, <1>7 DEF Start, StoppedInv, FreshBatch, actorVars, RQ!Empty
<1>8. CASE \/ \E m \in Messages : Duplicate(m)
           \/ \E m \in Messages, i \in Items : Accept(m, i) \/ AcceptFails(m, i)
           \/ \E a \in Actors : SendPart(a)
           \/ HandleSent \/ StartFails \/ UNCHANGED vars
  BY <1>2, <1>8
  DEF Duplicate, Accept, AcceptFails, SendPart, HandleSent, StartFails, vars, queueVars, actorVars
<1>9. ASSUME NEW i \in Items, Ripen(i) \/ Expire(i)
      PROVE  FreshBatch'
  BY <1>1, <1>2, <1>9, ElapseFacts DEF Ripen, Expire, actorVars, TypeOK
<1> QED
  BY <1>3, <1>4, <1>5, <1>6, <1>7, <1>8, <1>9 DEF Next

(* process_due_retries works through a snapshot, yet no record of it has    *)
(* been changed by anybody but the worker when its turn comes.              *)
THEOREM BatchStaysFresh == Spec => []FreshBatch
<1>1. Init => FreshBatch
  BY DEF Init, FreshBatch, RQ!Empty
<1>2. IndInv /\ IndInv' /\ FreshBatch /\ [Next]_vars => FreshBatch'
  BY FreshBatchStep
<1> QED
  BY <1>1, <1>2, InvariantHolds, PTL DEF Spec

-----------------------------------------------------------------------------
(* A confirmed message is never sent again. *)

LEMMA ConfirmedStep ==
    IndInv /\ IndInv' /\ ConfirmedIsFinal /\ [Next]_vars => ConfirmedIsFinal'
<1> SUFFICES ASSUME IndInv, IndInv', ConfirmedIsFinal, [Next]_vars PROVE ConfirmedIsFinal'
  OBVIOUS
<1> USE NoneAssumption
<1>1. TypeOK /\ LockInv /\ FreshInv /\ JobInv /\ StoppedInv /\ TypeOK' /\ FreshInv' /\ JobInv'
  BY DEF IndInv, TaskInv
<1>2. ASSUME UNCHANGED <<records, file, batch, job, confirmed, unacked>>
      PROVE  ConfirmedIsFinal'
  BY <1>2 DEF ConfirmedIsFinal
<1>3. ASSUME NEW m \in Messages, NEW i \in Items, Accept(m, i)
      PROVE  ConfirmedIsFinal'
  <2>1. i \notin confirmed
    BY <1>1, <1>3 DEF Accept, Free, FreshInv
  <2>2. job'["receiver"] = i /\ job'["worker"] = job["worker"]
    BY <1>1, <1>3 DEF Accept, TypeOK, Actors
  <2> QED
    BY <1>3, <2>1, <2>2 DEF Accept, ConfirmedIsFinal, Actors, queueVars, fateVars
<1>4. CASE HandleSent
  <2> DEFINE i == job["receiver"]
  <2>1. i \in Items /\ job'["receiver"] = None /\ job'["worker"] = job["worker"]
    BY <1>1, <1>4, HolderRuns, PassFacts DEF HandleSent, Actors, Other
  <2>2. records[i] = 0 /\ file[i] = 0 /\ batch[i] = 0
    BY <1>1, <2>1 DEF FreshInv
  <2>3. job["worker"] # i
    BY <1>1, <2>1, <2>2 DEF JobInv
  <2>4. /\ confirmed' = confirmed \cup {i} /\ unacked' = unacked
        /\ records' = records /\ file' = file /\ batch' = batch
    BY <1>4 DEF HandleSent, queueVars
  <2>5. ASSUME NEW j \in Items, j \in confirmed' \ unacked'
        PROVE  /\ \A a \in Actors : job'[a] # j
               /\ batch'[j] = 0 /\ records'[j] = 0 /\ file'[j] = 0
    <3>1. CASE j = i
      BY <2>1, <2>2, <2>3, <2>4, <3>1 DEF Actors
    <3>2. CASE j # i
      BY <2>1, <2>4, <2>5, <3>2 DEF ConfirmedIsFinal, Actors
    <3> QED
      BY <3>1, <3>2
  <2> QED
    BY <1>1, <2>5 DEF ConfirmedIsFinal, TypeOK
<1>5. ASSUME NEW ok \in SaveOutcomes, RetrySent(ok)
      PROVE  ConfirmedIsFinal'
  <2> DEFINE w == job["worker"]
  <2>1. /\ w \in Items /\ batch[w] > 0 /\ batch'[w] = 0
        /\ job'["receiver"] = job["receiver"] /\ job'["worker"] # w
        /\ \A j \in Items \ {w} : records'[j] \in {0, records[j]} /\ batch'[j] \in {0, batch[j]}
        /\ file' \in {file, records'}
    BY <1>5, WorkerEnds
  <2>2. records'[w] = 0
    BY <1>1, <1>5, <2>1, AckFacts, OutcomesAreBoolean DEF RetrySent, TypeOK
  <2>3. job["receiver"] # w
    BY <1>1, <2>1 DEF FreshInv
  <2>4. /\ confirmed' = confirmed \cup {w}
        /\ unacked' = IF file'[w] > 0 THEN unacked \cup {w} ELSE unacked
    BY <1>5 DEF RetrySent
  <2>5. file'[w] \in Nat
    BY <1>1, <2>1, SizesAssumption DEF TypeOK, RQ!TypeOK, RQ!Queue
  <2>6. ASSUME NEW j \in Items, j \in confirmed' \ unacked'
        PROVE  /\ \A a \in Actors : job'[a] # j
               /\ batch'[j] = 0 /\ records'[j] = 0 /\ file'[j] = 0
    <3>1. CASE j = w
      BY <2>1, <2>2, <2>3, <2>4, <2>5, <2>6, <3>1 DEF Actors
    <3>2. CASE j # w
      <4>1. /\ job["receiver"] # j /\ batch[j] = 0 /\ records[j] = 0 /\ file[j] = 0
        BY <2>4, <2>6, <3>2 DEF ConfirmedIsFinal, Actors
      <4>2. batch'[j] = 0 /\ records'[j] = 0 /\ file'[j] = 0
        BY <2>1, <3>2, <4>1
      <4>3. job'["worker"] # j
        BY <1>1, <4>2 DEF JobInv
      <4> QED
        BY <2>1, <4>1, <4>2, <4>3 DEF Actors
    <3> QED
      BY <3>1, <3>2
  <2> QED
    BY <1>1, <2>6 DEF ConfirmedIsFinal, TypeOK
<1>6. ASSUME NEW ok \in SaveOutcomes, RetryFails(ok)
      PROVE  ConfirmedIsFinal'
  <2>1. confirmed' = confirmed /\ unacked' = unacked
    BY <1>6 DEF RetryFails, SenderRaises
  <2>2. ASSUME NEW j \in Items, j \in confirmed \ unacked
        PROVE  /\ \A a \in Actors : job'[a] # j
               /\ batch'[j] = 0 /\ records'[j] = 0 /\ file'[j] = 0
    <3>1. /\ job["receiver"] # j /\ job["worker"] # j
          /\ batch[j] = 0 /\ records[j] = 0 /\ file[j] = 0
      BY <2>2 DEF ConfirmedIsFinal, Actors
    <3>2. batch'[j] = 0 /\ records'[j] = 0 /\ file'[j] = 0 /\ job'["receiver"] # j
      BY <1>6, <3>1, WorkerEnds
    <3>3. job'["worker"] # j
      BY <1>1, <3>2 DEF JobInv
    <3> QED
      BY <3>2, <3>3 DEF Actors
  <2> QED
    BY <1>1, <2>1, <2>2 DEF ConfirmedIsFinal, TypeOK
<1>7. ASSUME NEW ok \in SaveOutcomes, HandleFails(ok)
      PROVE  ConfirmedIsFinal'
  <2>1. confirmed' = confirmed /\ unacked' = unacked /\ batch' = batch
    BY <1>7 DEF HandleFails, SenderRaises
  <2>2. ASSUME NEW j \in Items, j \in confirmed \ unacked
        PROVE  /\ \A a \in Actors : job'[a] # j
               /\ batch'[j] = 0 /\ records'[j] = 0 /\ file'[j] = 0
    <3>1. /\ job["receiver"] # j /\ job["worker"] # j
          /\ batch[j] = 0 /\ records[j] = 0 /\ file[j] = 0
      BY <2>2 DEF ConfirmedIsFinal, Actors
    <3> QED
      BY <1>7, <2>1, <3>1, ReceiverFails DEF Actors
  <2> QED
    BY <1>1, <2>1, <2>2 DEF ConfirmedIsFinal, TypeOK
<1>8. CASE DueBatch
  <2>1. confirmed' = confirmed /\ unacked' = unacked
    BY <1>8 DEF DueBatch
  <2>2. ASSUME NEW j \in Items, j \in confirmed \ unacked
        PROVE  /\ \A a \in Actors : job'[a] # j
               /\ batch'[j] = 0 /\ records'[j] = 0 /\ file'[j] = 0
    <3>1. job["receiver"] # j /\ records[j] = 0 /\ file[j] = 0
      BY <2>2 DEF ConfirmedIsFinal, Actors
    <3>2. records'[j] = 0 /\ batch'[j] = 0 /\ file'[j] = 0 /\ job'["receiver"] # j
      BY <1>8, <3>1, WorkerStarts
    <3>3. job'["worker"] # j
      BY <1>1, <3>2 DEF JobInv
    <3> QED
      BY <3>2, <3>3 DEF Actors
  <2> QED
    BY <1>1, <2>1, <2>2 DEF ConfirmedIsFinal, TypeOK
<1>9. CASE Interrupt
  <2>1. records' = RQ!Empty /\ file' = file
    BY <1>1, <1>9, DiscardFacts DEF Interrupt, TypeOK
  <2> QED
    BY <1>1, <1>9, <2>1 DEF Interrupt, ConfirmedIsFinal, TypeOK, RQ!Empty, Nobody
<1>10. CASE Start
  <2>1. (\A j \in Items : records'[j] \in {0, file[j]}) /\ file' = records'
    BY <1>1, <1>10, LoadFacts DEF Start, TypeOK
  <2> QED
    BY <1>1, <1>10, <2>1 DEF Start, ConfirmedIsFinal, TypeOK, actorVars
<1>11. CASE \/ \E m \in Messages : Duplicate(m)
            \/ \E m \in Messages, i \in Items : AcceptFails(m, i)
            \/ \E a \in Actors : SendPart(a)
            \/ StartFails \/ UNCHANGED vars
  BY <1>2, <1>11
  DEF Duplicate, AcceptFails, SendPart, StartFails, vars, queueVars, actorVars, fateVars
<1>12. ASSUME NEW i \in Items, Ripen(i) \/ Expire(i)
       PROVE  ConfirmedIsFinal'
  BY <1>1, <1>2, <1>12, ElapseFacts DEF Ripen, Expire, actorVars, fateVars, TypeOK
<1> QED
  BY <1>3, <1>4, <1>5, <1>6, <1>7, <1>8, <1>9, <1>10, <1>11, <1>12 DEF Next

(* After the sender has confirmed the last chunk, the item is in nobody's   *)
(* hands and in no queue, in memory or on disk, now or after any restart,   *)
(* unless saving the removal of its record failed.                          *)
THEOREM ConfirmedStaysFinal == Spec => []ConfirmedIsFinal
<1>1. Init => ConfirmedIsFinal
  BY DEF Init, ConfirmedIsFinal
<1>2. IndInv /\ IndInv' /\ ConfirmedIsFinal /\ [Next]_vars => ConfirmedIsFinal'
  BY ConfirmedStep
<1> QED
  BY <1>1, <1>2, InvariantHolds, PTL DEF Spec

-----------------------------------------------------------------------------
(* The order of chunks at the target. *)

NextOnWire == wire' # wire => wire'[2] = 1 \/ wire = <<wire'[1], wire'[2] - 1>>

LEMMA LandsInOrder ==
    ASSUME TypeOK, LockInv, NEW a \in Actors, Holds(a), Lands(job[a], part[a])
    PROVE  NextOnWire
<1>1. part[a] \in Nat /\ part[a] > 0
  BY SizesAssumption DEF TypeOK, Holds
<1>2. wire' = <<job[a], part[a]>>
  BY DEF Lands
<1>3. part[a] > 1 => wire = <<job[a], part[a] - 1>>
  BY DEF LockInv
<1> QED
  BY <1>1, <1>2, <1>3 DEF NextOnWire

LEMMA WireStep == TypeOK /\ LockInv /\ [Next]_vars => NextOnWire
<1> SUFFICES ASSUME TypeOK, LockInv, [Next]_vars PROVE NextOnWire
  OBVIOUS
<1>1. ASSUME NEW a \in Actors, SendPart(a) PROVE NextOnWire
  BY <1>1, LandsInOrder DEF SendPart
<1>2. CASE HandleSent
  BY <1>2, LandsInOrder DEF HandleSent, Actors
<1>3. ASSUME NEW ok \in SaveOutcomes, RetrySent(ok) PROVE NextOnWire
  BY <1>3, LandsInOrder DEF RetrySent, Actors
<1>4. ASSUME NEW a \in Actors, SenderRaises(a) PROVE NextOnWire
  BY <1>4, LandsInOrder DEF SenderRaises, arrivalVars, NextOnWire
<1>5. CASE Interrupt
  BY <1>5, LandsInOrder DEF Interrupt, arrivalVars, NextOnWire
<1>6. ASSUME UNCHANGED wire PROVE NextOnWire
  BY <1>6 DEF NextOnWire
<1>7. CASE \/ \E m \in Messages : Duplicate(m)
           \/ \E m \in Messages, i \in Items : Accept(m, i) \/ AcceptFails(m, i)
           \/ DueBatch \/ Start \/ StartFails
           \/ \E i \in Items : Ripen(i) \/ Expire(i)
           \/ UNCHANGED vars
  BY <1>6, <1>7
  DEF Duplicate, Accept, AcceptFails, DueBatch, Start, StartFails, Ripen, Expire, vars, arrivalVars
<1>8. ASSUME NEW ok \in SaveOutcomes, HandleFails(ok) \/ RetryFails(ok) PROVE NextOnWire
  BY <1>4, <1>8 DEF HandleFails, RetryFails, Actors
<1> QED
  BY <1>1, <1>2, <1>3, <1>5, <1>7, <1>8 DEF Next

(* Chunks arrive in order and never interleave: whatever the sender, the     *)
(* queue and the disk do, a chunk that is not the first of its message is    *)
(* received directly behind its predecessor.                                 *)
THEOREM ChunksInOrder == Spec => WireOrder
<1>1. (TypeOK /\ LockInv) /\ [Next]_vars => [NextOnWire]_vars
  BY WireStep
<1>2. WireOrder <=> [][NextOnWire]_vars
  BY DEF WireOrder, NextOnWire
<1> QED
  BY <1>1, <1>2, TypeCorrect, PTL DEF Spec

-----------------------------------------------------------------------------
(***************************************************************************)
(* What becomes of an accepted message: its record is on the disk, its     *)
(* failures are counted, it is forwarded as one item, and Delivery         *)
(* implements ForwardingContract.                                          *)
(*                                                                         *)
(* The proofs start from IndInv above and add the parts below, each of     *)
(* them inductive together with those before it.                           *)
(***************************************************************************)

(* The queue never holds more live records than it may. *)
RoomInv == Cardinality(RQ!Live(records) \ expired) <= MaxQueueSize

(* What the worker still has to do is in the file as it is in memory: only a *)
(* due() prunes without saving, and the worker calls it with no batch left.  *)
BatchOnDisk ==
    running /\ ~DiskFaults => \A i \in Items : batch[i] > 0 => file[i] = records[i]

(* A first delivery has not failed yet; a record with its attempts used up   *)
(* is not written.                                                           *)
FailuresInv ==
    /\ \A i \in Items : msgOf[i] = None \/ job["receiver"] = i => failures[i] = 0
    /\ \A i \in Items : records[i] < MaxAttempts /\ file[i] < MaxAttempts /\ batch[i] < MaxAttempts

(* An item that ever got as far as the sender, the queue or the target, or   *)
(* may still do so.  ForwardedOnce leaves the worker's snapshot out, and is  *)
(* not inductive: an evicted record in it is sent all the same.              *)
Taken(i) ==
    high[i] > 0 \/ job["receiver"] = i \/ records[i] > 0 \/ file[i] > 0 \/ batch[i] > 0

OnceInv ==
    /\ \A i \in Items : Taken(i) =>
          /\ msgOf[i] \in Messages
          /\ msgOf[i] \in stable \cup forgot
          /\ running => msgOf[i] \in seen \cup forgot
    /\ \A i, j \in Items :
          i # j /\ Taken(i) /\ Taken(j) /\ msgOf[i] = msgOf[j] => msgOf[i] \in forgot

(* A lost item is nowhere any more. *)
LostInv ==
    \A i \in lost :
        /\ msgOf[i] # None /\ job["receiver"] # i
        /\ records[i] = 0 /\ file[i] = 0 /\ batch[i] = 0

-----------------------------------------------------------------------------
(* The send lock is never free and wanted. *)

LEMMA PassWakes ==
    ASSUME TypeOK, LockInv, NoIdleLock, NEW a \in Actors, Holds(a),
           NEW i \in Items \cup {None}, PassLock(a, i)
    PROVE  NoIdleLock'
BY NoneAssumption, SizesAssumption DEF TypeOK, LockInv, NoIdleLock, Actors, Other, Holds, Waits, PassLock

LEMMA IdleStep == IndInv /\ IndInv' /\ NoIdleLock /\ [Next]_vars => NoIdleLock'
<1> SUFFICES ASSUME IndInv, IndInv', NoIdleLock, [Next]_vars PROVE NoIdleLock'
  OBVIOUS
<1> USE NoneAssumption, SizesAssumption
<1>1. TypeOK /\ TypeOK' /\ LockInv
  BY DEF IndInv
<1>2. ASSUME UNCHANGED <<job, part>> PROVE NoIdleLock'
  BY <1>2 DEF NoIdleLock, Waits, Holds
<1>3. ASSUME NEW m \in Messages, NEW i \in Items, Accept(m, i) PROVE NoIdleLock'
  BY <1>1, <1>3 DEF Accept, TypeOK, LockInv, NoIdleLock, Actors, Other, Holds, Waits, Ask
<1>4. ASSUME NEW a \in Actors, SendPart(a) PROVE NoIdleLock'
  BY <1>1, <1>4 DEF SendPart, TypeOK, NoIdleLock, Actors, Other, Holds, Waits
<1>5. CASE HandleSent
  BY <1>1, <1>5, PassWakes DEF HandleSent, Actors
<1>6. ASSUME NEW ok \in SaveOutcomes, RetrySent(ok) \/ RetryFails(ok) PROVE NoIdleLock'
  <2>1. Holds("worker") /\ job["worker"] \in Items
    BY <1>1, <1>6 DEF RetrySent, RetryFails, SenderRaises, TypeOK, LockInv, Holds, Actors
  <2>2. \E next \in NextOf(Rest(ok)) : PassLock("worker", next)
    BY <1>6 DEF RetrySent, RetryFails
  <2>3. NextOf(Rest(ok)) \subseteq Items \cup {None}
    BY <1>1, <2>1, RestFacts, BatchFacts
  <2> QED
    BY <1>1, <2>1, <2>2, <2>3, PassWakes DEF Actors
<1>7. ASSUME NEW ok \in SaveOutcomes, HandleFails(ok) PROVE NoIdleLock'
  BY <1>1, <1>7, PassWakes DEF HandleFails, SenderRaises, Actors
<1>8. CASE DueBatch
  <2>1. PICK i \in NextOf(batch') :
          /\ job' = [job EXCEPT !["worker"] = i]
          /\ part' = [part EXCEPT !["worker"] = IF i = None THEN 0 ELSE Ask("worker")]
    BY <1>8 DEF DueBatch
  <2> QED
    BY <1>1, <1>8, <2>1 DEF DueBatch, TypeOK, LockInv, NoIdleLock, Actors, Other, Holds, Waits, Ask
<1>9. CASE Interrupt
  BY <1>9 DEF Interrupt, Nobody, NoIdleLock, Waits
<1>10. CASE \/ \E m \in Messages : Duplicate(m)
            \/ \E m \in Messages, i \in Items : AcceptFails(m, i)
            \/ \E i \in Items : Ripen(i) \/ Expire(i)
            \/ Start \/ StartFails \/ UNCHANGED vars
  BY <1>2, <1>10 DEF Duplicate, AcceptFails, Ripen, Expire, Start, StartFails, vars, actorVars
<1> QED
  BY <1>3, <1>4, <1>5, <1>6, <1>7, <1>8, <1>9, <1>10 DEF Next

(* One message is with the sender at a time, both tasks know whose turn it   *)
(* is, an item is in one pair of hands, and a stopped runtime keeps nothing  *)
(* in memory (delivery.py, _send_item; runtime.py, stop and _build_pipeline). *)
THEOREM TasksExclude == Spec => []Inv
<1>1. Init => NoIdleLock
  BY DEF Init, NoIdleLock, Waits, Nobody
<1>2. IndInv /\ IndInv' /\ NoIdleLock /\ [Next]_vars => NoIdleLock'
  BY IdleStep
<1>3. IndInv /\ NoIdleLock => Inv
  BY DEF IndInv, TaskInv, Inv
<1> QED
  BY <1>1, <1>2, <1>3, InvariantHolds, PTL DEF Spec

-----------------------------------------------------------------------------
(* The size of the queue. *)

LEMMA RoomKept ==
    ASSUME NEW q \in RQ!Queue, NEW S \in RQ!Kept(q), records' = RQ!Only(q, S)
    PROVE  RoomInv'
<1> DEFINE fresh == RQ!Live(q) \ expired
           live == RQ!Live(records)' \ expired'
<1>1. IsFiniteSet(fresh) /\ Cardinality(fresh) \in Nat
  BY ItemsAssumption, FS_Subset, FS_CardinalityType DEF RQ!Live
<1>2. /\ S \in SUBSET fresh
      /\ Cardinality(S) =
            IF Cardinality(fresh) <= MaxQueueSize THEN Cardinality(fresh) ELSE MaxQueueSize
  BY SameCardinality DEF RQ!Kept
<1>3. IsFiniteSet(S) /\ Cardinality(S) <= MaxQueueSize
  BY <1>1, <1>2, FS_Subset, SizesAssumption
<1>4. live \in SUBSET S
  BY DEF RQ!Live, RQ!Only
<1>5. IsFiniteSet(live) /\ Cardinality(live) <= Cardinality(S) /\ Cardinality(live) \in Nat /\ Cardinality(S) \in Nat
  BY <1>3, <1>4, FS_Subset, FS_CardinalityType
<1>6. Cardinality(live) <= MaxQueueSize
  BY <1>3, <1>5, SizesAssumption
<1> QED
  BY <1>6 DEF RoomInv

LEMMA RoomShrinks ==
    ASSUME RoomInv, RQ!Live(records)' \subseteq RQ!Live(records),
           RQ!Live(records)' \cap expired \subseteq expired'
    PROVE  RoomInv'
<1> DEFINE old == RQ!Live(records) \ expired
           new == RQ!Live(records)' \ expired'
<1>1. IsFiniteSet(old)
  BY ItemsAssumption, FS_Subset DEF RQ!Live
<1>2. new \in SUBSET old
  OBVIOUS
<1>3. IsFiniteSet(new) /\ Cardinality(new) <= Cardinality(old)
  BY <1>1, <1>2, FS_Subset
<1>4. Cardinality(new) \in Nat /\ Cardinality(old) \in Nat
  BY <1>1, <1>3, FS_CardinalityType
<1>5. Cardinality(old) <= MaxQueueSize
  BY DEF RoomInv
<1>6. Cardinality(new) <= MaxQueueSize
  BY <1>3, <1>4, <1>5, SizesAssumption
<1> QED
  BY <1>6 DEF RoomInv

LEMMA RoomSame ==
    ASSUME RoomInv, UNCHANGED queueVars
    PROVE  RoomInv'
BY RoomShrinks DEF queueVars, RQ!Live

LEMMA RoomTracked ==
    ASSUME RoomInv, RQ!Live(records)' \subseteq RQ!Live(records), NEW due, RQ!Track(due)
    PROVE  RoomInv'
BY RoomShrinks DEF RQ!Track, RQ!Live

LEMMA RoomWritten ==
    ASSUME RQ!TypeOK, NEW i \in Items, NEW n \in 1..MaxAttempts, NEW ok, RQ!Write(i, n, ok)
    PROVE  RoomInv'
<1>1. [records EXCEPT ![i] = n] \in RQ!Queue
  BY SizesAssumption DEF RQ!TypeOK, RQ!Queue
<1> QED
  BY <1>1, RoomKept DEF RQ!Write

LEMMA RoomAcked ==
    ASSUME RQ!TypeOK, RoomInv, NEW i \in Items, NEW ok, RQ!Ack(i, ok)
    PROVE  RoomInv'
<1>1. CASE records[i] = 0
  BY <1>1, RoomSame DEF RQ!Ack, RQ!vars, queueVars
<1>2. CASE records[i] # 0
  <2>1. records' = [records EXCEPT ![i] = 0] /\ RQ!Track(ripe)
    BY <1>2 DEF RQ!Ack
  <2>2. RQ!Live(records)' \subseteq RQ!Live(records)
    BY <2>1 DEF RQ!Live, RQ!TypeOK, RQ!Queue
  <2> QED
    BY <2>1, <2>2, RoomTracked
<1> QED
  BY <1>1, <1>2

LEMMA RoomStep == IndInv /\ RoomInv /\ [Next]_vars => RoomInv'
<1> SUFFICES ASSUME IndInv, RoomInv, [Next]_vars PROVE RoomInv'
  OBVIOUS
<1> USE SizesAssumption
<1>1. TypeOK /\ LockInv /\ RQ!TypeOK
  BY DEF IndInv, TypeOK
<1>2. ASSUME NEW ok \in SaveOutcomes, RetrySent(ok) PROVE RoomInv'
  <2>1. job["worker"] \in Items
    BY <1>1, <1>2 DEF RetrySent, TypeOK, LockInv, Holds, Actors
  <2> QED
    BY <1>1, <1>2, <2>1, RoomAcked DEF RetrySent
<1>3. ASSUME NEW ok \in SaveOutcomes, HandleFails(ok) PROVE RoomInv'
  <2>1. job["receiver"] \in Items
    BY <1>1, <1>3 DEF HandleFails, SenderRaises, TypeOK, LockInv, Holds, Actors
  <2>2. CASE 1 < MaxAttempts /\ MaxQueueSize # 0
    BY <1>1, <1>3, <2>1, <2>2, RoomWritten DEF HandleFails, RQ!Enqueue
  <2>3. CASE ~(1 < MaxAttempts /\ MaxQueueSize # 0)
    BY <1>3, <2>3, RoomSame DEF HandleFails, RQ!Enqueue, RQ!vars, queueVars
  <2> QED
    BY <2>2, <2>3
<1>4. ASSUME NEW ok \in SaveOutcomes, RetryFails(ok) PROVE RoomInv'
  <2>1. job["worker"] \in Items
    BY <1>1, <1>4 DEF RetryFails, SenderRaises, TypeOK, LockInv, Holds, Actors
  <2>2. NextAttempt < MaxAttempts => NextAttempt \in 1..MaxAttempts
    BY <1>1, <2>1 DEF TypeOK, RQ!Queue, NextAttempt
  <2>3. CASE NextAttempt < MaxAttempts /\ records[job["worker"]] # 0
    BY <1>1, <1>4, <2>1, <2>2, <2>3, RoomWritten DEF RetryFails, RQ!Reschedule
  <2>4. CASE NextAttempt < MaxAttempts /\ records[job["worker"]] = 0
    BY <1>4, <2>4, RoomSame DEF RetryFails, RQ!Reschedule, RQ!vars, queueVars
  <2>5. CASE ~(NextAttempt < MaxAttempts)
    BY <1>1, <1>4, <2>1, <2>5, RoomAcked DEF RetryFails
  <2> QED
    BY <2>3, <2>4, <2>5
<1>5. CASE DueBatch
  BY <1>1, <1>5, RoomKept DEF DueBatch, RQ!Prune, RQ!TypeOK
<1>6. ASSUME NEW i \in Items, Ripen(i) \/ Expire(i) PROVE RoomInv'
  BY <1>6, RoomShrinks DEF Ripen, Expire, RQ!Ripen, RQ!Expire, RQ!Live
<1>7. CASE Interrupt
  <2>1. records' = RQ!Empty /\ RQ!Track({})
    BY <1>7 DEF Interrupt, RQ!Discard
  <2>2. RQ!Live(records)' \subseteq RQ!Live(records)
    BY <2>1 DEF RQ!Live, RQ!Empty
  <2> QED
    BY <2>1, <2>2, RoomTracked
<1>8. CASE Start
  BY <1>1, <1>8, RoomKept DEF Start, RQ!Load, RQ!TypeOK
<1>9. CASE \/ \E m \in Messages : Duplicate(m)
           \/ \E m \in Messages, i \in Items : Accept(m, i) \/ AcceptFails(m, i)
           \/ \E a \in Actors : SendPart(a)
           \/ HandleSent \/ StartFails \/ UNCHANGED vars
  BY <1>9, RoomSame DEF Duplicate, Accept, AcceptFails, SendPart, HandleSent, StartFails, vars
<1> QED
  BY <1>2, <1>3, <1>4, <1>5, <1>6, <1>7, <1>8, <1>9 DEF Next

LEMMA RoomInit == Init => RoomInv
<1> SUFFICES ASSUME Init PROVE RoomInv
  OBVIOUS
<1>1. RQ!Live(records) \ expired = {}
  BY DEF Init, RQ!Init, RQ!Live, RQ!Empty
<1> QED
  BY <1>1, FS_EmptySet, SizesAssumption DEF RoomInv

-----------------------------------------------------------------------------
(* The queue file. *)

DiskInv == RoomInv /\ QueueOnDisk /\ BatchOnDisk

(* What QueueOnDisk and BatchOnDisk say of a running process. *)
OnDisk ==
    /\ \A i \in Items : file[i] = records[i] \/ (records[i] = 0 /\ i \in expired)
    /\ \A i \in Items : batch[i] > 0 => file[i] = records[i]

(* While there is room pruning takes expired records only, and keeps them in *)
(* sight as long as the file has them.                                       *)
LEMMA OnlyExpiredGo ==
    ASSUME RQ!TypeOK, RoomInv, RQ!Prune, NEW j \in Items, records[j] > 0, records'[j] = 0
    PROVE  j \in expired
<1> DEFINE fresh == RQ!Live(records) \ expired
<1>1. PICK S \in RQ!Kept(records) : records' = RQ!Only(records, S)
  BY DEF RQ!Prune
<1>2. IsFiniteSet(fresh)
  BY ItemsAssumption, FS_Subset DEF RQ!Live
<1>3. S \in SUBSET fresh /\ Cardinality(S) = Cardinality(fresh)
  BY SameCardinality, <1>1 DEF RQ!Kept, RoomInv
<1>4. S = fresh
  BY <1>2, <1>3, FS_Subset
<1> QED
  BY <1>1, <1>4 DEF RQ!Only, RQ!Live

LEMMA PruneOnDisk ==
    ASSUME RQ!TypeOK, RoomInv, RQ!Prune,
           \A i \in Items : file[i] = records[i] \/ (records[i] = 0 /\ i \in expired)
    PROVE  \A i \in Items : file'[i] = records'[i] \/ (records'[i] = 0 /\ i \in expired')
<1> SUFFICES ASSUME NEW i \in Items, file'[i] # records'[i]
             PROVE  records'[i] = 0 /\ i \in expired'
  OBVIOUS
<1>1. records'[i] \in {0, records[i]} /\ file' = file /\ RQ!TypeOK'
  BY PruneFacts
<1>2. expired' = expired \cap (RQ!Live(records') \cup RQ!Live(file'))
  BY DEF RQ!Prune, RQ!Track
<1>3. records'[i] = 0 /\ file'[i] > 0
  BY <1>1 DEF RQ!TypeOK, RQ!Queue
<1>4. i \in expired
  BY <1>1, <1>3, OnlyExpiredGo DEF RQ!TypeOK, RQ!Queue
<1> QED
  BY <1>2, <1>3, <1>4 DEF RQ!Live

LEMMA DiskStep == IndInv /\ IndInv' /\ DiskInv /\ [Next]_vars => DiskInv'
<1> SUFFICES ASSUME IndInv, IndInv', DiskInv, [Next]_vars PROVE DiskInv'
  OBVIOUS
<1> USE SizesAssumption
<1>1. TypeOK /\ LockInv /\ RQ!TypeOK /\ StoppedInv /\ JobInv /\ FreshInv
  BY DEF IndInv, TaskInv, TypeOK
<1>2. RoomInv'
  BY RoomStep DEF DiskInv
<1> SUFFICES ASSUME running', ~DiskFaults
             PROVE  OnDisk'
  BY <1>2 DEF DiskInv, QueueOnDisk, BatchOnDisk, OnDisk
<1> USE DEF OnDisk
<1>3. SaveOutcomes = {TRUE}
  BY DEF SaveOutcomes
<1>4. running => OnDisk
  BY DEF DiskInv, QueueOnDisk, BatchOnDisk
<1>5. ASSUME running, UNCHANGED <<records, file, expired>>,
             \A i \in Items : batch'[i] \in {0, batch[i]}
      PROVE  OnDisk'
  BY <1>4, <1>5
<1>6. ASSUME file' = records'
      PROVE  OnDisk'
  BY <1>6
<1>7. ASSUME RetrySent(TRUE) \/ RetryFails(TRUE)
      PROVE  OnDisk'
  <2>1. running /\ \A j \in Items : batch'[j] \in {0, batch[j]}
    <3>1. TRUE \in SaveOutcomes
      BY <1>3
    <3>2. /\ running /\ batch'[job["worker"]] = 0
          /\ \A j \in Items \ {job["worker"]} : batch'[j] \in {0, batch[j]}
      BY <1>7, <3>1, WorkerEnds
    <3> QED
      BY <3>2
  <2>2. \/ file' = records'
        \/ UNCHANGED <<records, file, expired>>
    BY <1>7 DEF RetrySent, RetryFails, RQ!Ack, RQ!Reschedule, RQ!Write, RQ!Save, RQ!vars
  <2> QED
    BY <1>5, <1>6, <2>1, <2>2
<1>8. ASSUME HandleFails(TRUE)
      PROVE  OnDisk'
  <2>1. running /\ batch' = batch
    BY <1>1, <1>8, HolderRuns DEF HandleFails, SenderRaises, Actors
  <2>2. \/ file' = records'
        \/ UNCHANGED <<records, file, expired>>
    BY <1>8 DEF HandleFails, RQ!Enqueue, RQ!Write, RQ!Save, RQ!vars, queueVars
  <2> QED
    BY <1>5, <1>6, <2>1, <2>2
<1>9. CASE DueBatch
  <2>1. \A i \in Items : file'[i] = records'[i] \/ (records'[i] = 0 /\ i \in expired')
    BY <1>1, <1>4, <1>9, PruneOnDisk DEF DueBatch, DiskInv
  <2>2. \A i \in Items : batch'[i] \in {0, records'[i]}
    BY <1>9 DEF DueBatch, RQ!Due
  <2> QED
    BY <2>1, <2>2
<1>10. ASSUME NEW k \in Items, Ripen(k) \/ Expire(k)
       PROVE  OnDisk'
  BY <1>4, <1>10 DEF Ripen, Expire, RQ!Ripen, RQ!Expire, actorVars
<1>11. CASE Start
  BY <1>6, <1>11 DEF Start, RQ!Load, RQ!Save
<1>12. CASE Interrupt \/ StartFails
  BY <1>12 DEF Interrupt, StartFails
<1>13. CASE \/ \E m \in Messages : Duplicate(m)
            \/ \E m \in Messages, i \in Items : Accept(m, i) \/ AcceptFails(m, i)
            \/ \E a \in Actors : SendPart(a)
            \/ HandleSent \/ UNCHANGED vars
  <2>1. UNCHANGED <<running, records, file, expired, batch>>
    BY <1>13 DEF Duplicate, Accept, AcceptFails, SendPart, HandleSent, vars, queueVars, actorVars
  <2> QED
    BY <1>5, <2>1
<1> QED
  BY <1>3, <1>7, <1>8, <1>9, <1>10, <1>11, <1>12, <1>13 DEF Next

LEMMA DiskInvHolds == Spec => []DiskInv
<1>1. Init => DiskInv
  BY RoomInit DEF Init, DiskInv, QueueOnDisk, BatchOnDisk
<1>2. IndInv /\ IndInv' /\ DiskInv /\ [Next]_vars => DiskInv'
  BY DiskStep
<1> QED
  BY <1>1, <1>2, InvariantHolds, PTL DEF Spec

(* While the disk works, a crash at any moment finds in the queue file what  *)
(* memory holds and, beyond that, at most expired records that due() left    *)
(* there (persistence.py, RetryQueue.due and _save_locked).                  *)
THEOREM QueueIsOnDisk == Spec => []QueueOnDisk
<1>1. DiskInv => QueueOnDisk
  BY DEF DiskInv
<1> QED
  BY <1>1, DiskInvHolds, PTL

-----------------------------------------------------------------------------
(* Attempt counts. *)

LEMMA FailCounts ==
    ASSUME TypeOK, NEW i \in Items, Fail(i)
    PROVE  /\ failures'[i] = IF failures[i] > MaxAttempts THEN failures[i] ELSE failures[i] + 1
           /\ \A j \in Items \ {i} : failures'[j] = failures[j]
BY DEF TypeOK, Fail

(* The receiver's failure makes a record of one attempt, if any. *)
LEMMA FirstCount ==
    ASSUME IndInv, NEW ok \in SaveOutcomes, HandleFails(ok)
    PROVE  LET i == job["receiver"] IN
           /\ i \in Items /\ running /\ running' = running
           /\ msgOf' = msgOf /\ batch' = batch /\ batch[i] = 0
           /\ job'["receiver"] = None
           /\ Fail(i)
           /\ records[i] = 0 /\ file[i] = 0
           /\ records'[i] # 0 => records'[i] = 1 /\ 1 < MaxAttempts
           /\ \A j \in Items \ {i} : records'[j] \in {0, records[j]}
           /\ file' \in {file, records'}
<1> DEFINE i == job["receiver"]
<1>1. TypeOK /\ LockInv /\ RQ!TypeOK /\ FreshInv
  BY DEF IndInv, TaskInv, TypeOK
<1>2. /\ i \in Items /\ running /\ job'["receiver"] = None
      /\ \A j \in Items \ {i} : records'[j] \in {0, records[j]}
      /\ file' \in {file, records'}
  BY ReceiverFails
<1>3. /\ running' = running /\ msgOf' = msgOf /\ batch' = batch /\ Fail(i)
  BY DEF HandleFails, SenderRaises
<1>4. records[i] = 0 /\ file[i] = 0 /\ batch[i] = 0
  BY <1>1, <1>2 DEF FreshInv
<1>5. records'[i] # 0 => records'[i] = 1 /\ 1 < MaxAttempts
  <2>1. CASE 1 < MaxAttempts /\ MaxQueueSize # 0
    <3>1. 1 \in 1..MaxAttempts /\ ok \in BOOLEAN
      BY SizesAssumption, OutcomesAreBoolean
    <3>2. RQ!Write(i, 1, ok)
      BY <2>1 DEF HandleFails, RQ!Enqueue
    <3> HIDE DEF i
    <3>3. \A j \in Items : records'[j] \in {0, IF j = i THEN 1 ELSE records[j]}
      BY <1>1, <1>2, <3>1, <3>2, WriteFacts
    <3> QED
      BY <1>2, <2>1, <3>3
  <2>2. CASE ~(1 < MaxAttempts /\ MaxQueueSize # 0)
    BY <1>4, <2>2 DEF HandleFails, RQ!Enqueue, RQ!vars, queueVars
  <2> QED
    BY <2>1, <2>2
<1> QED
  BY <1>2, <1>3, <1>4, <1>5

(* The worker's failure counts the record up, if it is still there. *)
LEMMA NextCount ==
    ASSUME IndInv, IndInv', NEW ok \in SaveOutcomes, RetryFails(ok)
    PROVE  LET w == job["worker"] IN
           /\ w \in Items /\ running /\ running' = running
           /\ msgOf' = msgOf /\ job'["receiver"] = job["receiver"]
           /\ Fail(w)
           /\ batch[w] > 0 /\ batch'[w] = 0
           /\ records[w] = 0 => records'[w] = 0
           /\ records'[w] # 0 => records'[w] = batch[w] + 1 /\ batch[w] + 1 < MaxAttempts
           /\ \A j \in Items \ {w} :
                 records'[j] \in {0, records[j]} /\ batch'[j] \in {0, batch[j]}
           /\ file' \in {file, records'}
           /\ SaveOutcomes = {TRUE} => file' = records' \/ (records[w] = 0 /\ UNCHANGED <<records, file>>)
<1> DEFINE w == job["worker"]
<1>1. TypeOK /\ RQ!TypeOK
  BY DEF IndInv, TypeOK
<1>2. /\ running /\ running' /\ w \in Items /\ batch[w] > 0 /\ batch'[w] = 0
      /\ job'["receiver"] = job["receiver"]
      /\ \A j \in Items \ {w} :
            records'[j] \in {0, records[j]} /\ batch'[j] \in {0, batch[j]}
      /\ records[w] = 0 => records'[w] = 0
      /\ file' \in {file, records'}
  BY WorkerEnds
<1>3. running' = running /\ msgOf' = msgOf /\ Fail(w)
  BY DEF RetryFails, SenderRaises
<1>4. batch[w] \in 0..MaxAttempts /\ ok \in BOOLEAN
  BY <1>1, <1>2, OutcomesAreBoolean DEF TypeOK, RQ!Queue
<1>5. records'[w] # 0 => records'[w] = batch[w] + 1 /\ batch[w] + 1 < MaxAttempts
  <2>1. CASE batch[w] + 1 < MaxAttempts /\ records[w] # 0
    <3> DEFINE n == batch[w] + 1
    <3>1. RQ!Write(w, n, ok) /\ n \in 1..MaxAttempts
      BY <1>4, <2>1, SizesAssumption DEF RetryFails, NextAttempt, RQ!Reschedule
    <3>2. RQ!TypeOK /\ w \in Items /\ ok \in BOOLEAN
      BY <1>1, <1>2, <1>4
    <3> HIDE DEF w, n
    <3>3. \A j \in Items : records'[j] \in {0, IF j = w THEN n ELSE records[j]}
      BY <3>1, <3>2, WriteFacts
    <3> QED
      BY <2>1, <3>2, <3>3 DEF n
  <2>2. CASE batch[w] + 1 < MaxAttempts /\ records[w] = 0
    BY <1>2, <2>2
  <2>3. CASE ~(batch[w] + 1 < MaxAttempts)
    BY <1>1, <1>2, <1>4, <2>3, AckFacts DEF RetryFails, NextAttempt
  <2> QED
    BY <2>1, <2>2, <2>3
<1>6. SaveOutcomes = {TRUE} => file' = records' \/ (records[w] = 0 /\ UNCHANGED <<records, file>>)
  BY DEF RetryFails, RQ!Ack, RQ!Reschedule, RQ!Write, RQ!Save, RQ!vars
<1> QED
  BY <1>2, <1>3, <1>5, <1>6

LEMMA FailuresStep == IndInv /\ IndInv' /\ FailuresInv /\ [Next]_vars => FailuresInv'
<1> SUFFICES ASSUME IndInv, IndInv', FailuresInv, [Next]_vars PROVE FailuresInv'
  OBVIOUS
<1> USE SizesAssumption, NoneAssumption
<1>1. TypeOK /\ TypeOK' /\ LockInv /\ RQ!TypeOK /\ RQ!TypeOK' /\ JobInv /\ StoppedInv
  BY DEF IndInv, TaskInv, TypeOK
<1>2. ASSUME UNCHANGED <<records, file, batch, msgOf, job, failures>>
      PROVE  FailuresInv'
  BY <1>2 DEF FailuresInv
<1>3. ASSUME NEW m \in Messages, NEW i \in Items, Accept(m, i) PROVE FailuresInv'
  <2>1. \A j \in Items \ {i} : msgOf'[j] = msgOf[j]
    BY <1>1, <1>3 DEF Accept, TypeOK
  <2>2. job'["receiver"] = i /\ msgOf[i] = None
    BY <1>1, <1>3 DEF Accept, TypeOK, Actors, Free
  <2> QED
    BY <1>3, <2>1, <2>2 DEF Accept, FailuresInv, queueVars, fateVars
<1>4. ASSUME NEW m \in Messages, NEW i \in Items, AcceptFails(m, i) PROVE FailuresInv'
  <2>1. \A j \in Items \ {i} : msgOf'[j] = msgOf[j]
    BY <1>1, <1>4 DEF AcceptFails, TypeOK
  <2> QED
    BY <1>4, <2>1 DEF AcceptFails, Free, FailuresInv, queueVars, actorVars
<1>5. CASE HandleSent
  <2>1. job'["receiver"] = None
    BY <1>1, <1>5, PassFacts DEF HandleSent, Actors
  <2> QED
    BY <1>5, <2>1 DEF HandleSent, FailuresInv, queueVars
<1>6. ASSUME NEW ok \in SaveOutcomes, RetrySent(ok) PROVE FailuresInv'
  <2>1. /\ job["worker"] \in Items /\ batch'[job["worker"]] = 0
        /\ job'["receiver"] = job["receiver"]
        /\ \A j \in Items \ {job["worker"]} :
              records'[j] \in {0, records[j]} /\ batch'[j] \in {0, batch[j]}
        /\ file' \in {file, records'}
    BY <1>6, WorkerEnds
  <2>2. records'[job["worker"]] = 0
    BY <1>1, <1>6, <2>1, AckFacts, OutcomesAreBoolean DEF RetrySent
  <2>3. msgOf' = msgOf /\ failures' = failures
    BY <1>6 DEF RetrySent
  <2> QED
    BY <2>1, <2>2, <2>3 DEF FailuresInv
<1>7. ASSUME NEW ok \in SaveOutcomes, HandleFails(ok) PROVE FailuresInv'
  <2> DEFINE i == job["receiver"]
  <2>1. /\ i \in Items /\ msgOf' = msgOf /\ batch' = batch
        /\ job'["receiver"] = None /\ Fail(i)
        /\ records'[i] # 0 => records'[i] = 1 /\ 1 < MaxAttempts
        /\ \A j \in Items \ {i} : records'[j] \in {0, records[j]}
        /\ file' \in {file, records'}
    BY <1>7, FirstCount
  <2>2. \A j \in Items \ {i} : failures'[j] = failures[j]
    BY <1>1, <2>1, FailCounts
  <2>3. msgOf[i] # None
    BY <1>1, <2>1 DEF JobInv
  <2>4. ASSUME NEW j \in Items PROVE records'[j] < MaxAttempts /\ file'[j] < MaxAttempts
    BY <2>1 DEF FailuresInv
  <2> QED
    BY <2>1, <2>2, <2>3, <2>4 DEF FailuresInv
<1>8. ASSUME NEW ok \in SaveOutcomes, RetryFails(ok) PROVE FailuresInv'
  <2> DEFINE w == job["worker"]
  <2>1. /\ w \in Items /\ msgOf' = msgOf /\ job'["receiver"] = job["receiver"]
        /\ Fail(w) /\ batch[w] > 0 /\ batch'[w] = 0
        /\ records'[w] # 0 => records'[w] = batch[w] + 1 /\ batch[w] + 1 < MaxAttempts
        /\ \A j \in Items \ {w} :
              records'[j] \in {0, records[j]} /\ batch'[j] \in {0, batch[j]}
        /\ file' \in {file, records'}
    BY <1>8, NextCount
  <2>2. \A j \in Items \ {w} : failures'[j] = failures[j]
    BY <1>1, <2>1, FailCounts
  <2>3. msgOf[w] # None /\ job["receiver"] # w
    BY <2>1 DEF IndInv, TaskInv, FreshInv
  <2>4. ASSUME NEW j \in Items
        PROVE  records'[j] < MaxAttempts /\ file'[j] < MaxAttempts /\ batch'[j] < MaxAttempts
    BY <2>1 DEF FailuresInv
  <2> QED
    BY <2>1, <2>2, <2>3, <2>4 DEF FailuresInv
<1>9. CASE DueBatch
  <2>1. /\ job'["receiver"] = job["receiver"] /\ file' = file
        /\ \A j \in Items : records'[j] \in {0, records[j]} /\ batch'[j] \in {0, records'[j]}
    BY <1>9, WorkerStarts
  <2> QED
    BY <1>9, <2>1 DEF DueBatch, FailuresInv
<1>10. CASE Interrupt
  <2>1. records' = RQ!Empty /\ file' = file /\ batch' = RQ!Empty /\ job'["receiver"] = None
    BY <1>1, <1>10, DiscardFacts DEF Interrupt, Nobody, Actors
  <2> QED
    BY <1>10, <2>1 DEF Interrupt, FailuresInv, RQ!Empty
<1>11. CASE Start
  <2>1. (\A j \in Items : records'[j] \in {0, file[j]}) /\ file' = records'
    BY <1>1, <1>11, LoadFacts DEF Start
  <2> QED
    BY <1>11, <2>1 DEF Start, FailuresInv, actorVars
<1>12. ASSUME NEW i \in Items, Ripen(i) \/ Expire(i) PROVE FailuresInv'
  BY <1>1, <1>2, <1>12, ElapseFacts DEF Ripen, Expire, actorVars, fateVars
<1>13. CASE \/ \E m \in Messages : Duplicate(m)
            \/ \E a \in Actors : SendPart(a)
            \/ StartFails \/ UNCHANGED vars
  BY <1>2, <1>13 DEF Duplicate, SendPart, StartFails, vars, queueVars, actorVars, fateVars
<1> QED
  BY <1>3, <1>4, <1>5, <1>6, <1>7, <1>8, <1>9, <1>10, <1>11, <1>12, <1>13 DEF Next

LEMMA CountedStep ==
    IndInv /\ IndInv' /\ DiskInv /\ FailuresInv /\ AttemptsCounted /\ [Next]_vars => AttemptsCounted'
<1> SUFFICES ASSUME IndInv, IndInv', DiskInv, FailuresInv, AttemptsCounted, [Next]_vars, ~DiskFaults
             PROVE  AttemptsCounted'
  BY DEF AttemptsCounted
<1> DEFINE Counted(i) == /\ failures[i] <= MaxAttempts
                         /\ records[i] \in {0, failures[i]} /\ file[i] \in {0, failures[i]}
                         /\ batch[i] \in {0, failures[i]}
<1> USE SizesAssumption
<1>1. TypeOK /\ TypeOK' /\ LockInv /\ RQ!TypeOK /\ RQ!TypeOK' /\ StoppedInv
  BY DEF IndInv, TaskInv, TypeOK
<1>2. SaveOutcomes = {TRUE}
  BY DEF SaveOutcomes
<1>3. \A i \in Items : Counted(i)
  BY DEF AttemptsCounted
<1> SUFFICES ASSUME NEW i \in Items PROVE Counted(i)'
  BY DEF AttemptsCounted
<1>4. ASSUME UNCHANGED failures,
             records'[i] \in {0, records[i], file[i]}, file'[i] \in {0, records[i], file[i]},
             batch'[i] \in {0, records[i], batch[i]}
      PROVE  Counted(i)'
  BY <1>3, <1>4
<1>5. ASSUME NEW ok \in SaveOutcomes, RetrySent(ok) PROVE Counted(i)'
  <2>1. /\ i # job["worker"] => records'[i] \in {0, records[i]} /\ batch'[i] \in {0, batch[i]}
        /\ batch'[job["worker"]] = 0 /\ job["worker"] \in Items
        /\ file' \in {file, records'}
    BY <1>5, WorkerEnds
  <2>2. records'[job["worker"]] = 0
    BY <1>1, <1>5, <2>1, AckFacts, OutcomesAreBoolean DEF RetrySent
  <2>3. failures' = failures
    BY <1>5 DEF RetrySent
  <2> QED
    BY <1>4, <2>1, <2>2, <2>3
<1>6. ASSUME NEW ok \in SaveOutcomes, HandleFails(ok) PROVE Counted(i)'
  <2> DEFINE r == job["receiver"]
  <2>1. /\ r \in Items /\ batch' = batch /\ batch[r] = 0 /\ Fail(r)
        /\ records[r] = 0 /\ file[r] = 0
        /\ records'[r] # 0 => records'[r] = 1 /\ 1 < MaxAttempts
        /\ \A j \in Items \ {r} : records'[j] \in {0, records[j]}
        /\ file' \in {file, records'}
    BY <1>6, FirstCount
  <2>2. failures'[r] = 1 /\ \A j \in Items \ {r} : failures'[j] = failures[j]
    <3>1. failures[r] = 0
      BY <2>1 DEF FailuresInv
    <3> QED
      BY <1>1, <2>1, <3>1, FailCounts
  <2>3. CASE i = r
    BY <2>1, <2>2, <2>3
  <2>4. CASE i # r
    BY <1>3, <2>1, <2>2, <2>4
  <2> QED
    BY <2>3, <2>4
<1>7. ASSUME NEW ok \in SaveOutcomes, RetryFails(ok) PROVE Counted(i)'
  <2> DEFINE w == job["worker"]
  <2>1. /\ w \in Items /\ running /\ Fail(w) /\ batch[w] > 0 /\ batch'[w] = 0
        /\ records[w] = 0 => records'[w] = 0
        /\ records'[w] # 0 => records'[w] = batch[w] + 1 /\ batch[w] + 1 < MaxAttempts
        /\ \A j \in Items \ {w} :
              records'[j] \in {0, records[j]} /\ batch'[j] \in {0, batch[j]}
        /\ file' = records' \/ (records[w] = 0 /\ UNCHANGED <<records, file>>)
    BY <1>2, <1>7, NextCount
  <2>2. batch[w] < MaxAttempts /\ batch[w] = failures[w] /\ failures[w] \in Nat
    BY <1>1, <1>3, <2>1 DEF FailuresInv, TypeOK
  <2>3. failures'[w] = batch[w] + 1 /\ \A j \in Items \ {w} : failures'[j] = failures[j]
    BY <1>1, <2>1, <2>2, FailCounts
  <2>4. file[w] = records[w]
    BY <2>1 DEF DiskInv, BatchOnDisk
  <2>5. CASE i = w
    BY <2>1, <2>2, <2>3, <2>4, <2>5
  <2>6. CASE i # w
    BY <1>3, <2>1, <2>3, <2>6
  <2> QED
    BY <2>5, <2>6
<1>8. CASE DueBatch
  <2>1. /\ file' = file /\ failures' = failures
        /\ records'[i] \in {0, records[i]} /\ batch'[i] \in {0, records'[i]}
    BY <1>8, WorkerStarts DEF DueBatch
  <2> QED
    BY <1>4, <2>1
<1>9. CASE Interrupt
  <2>1. records' = RQ!Empty /\ file' = file /\ batch' = RQ!Empty /\ failures' = failures
    BY <1>1, <1>9, DiscardFacts DEF Interrupt
  <2> QED
    BY <1>4, <2>1 DEF RQ!Empty
<1>10. CASE Start
  <2>1. records'[i] \in {0, file[i]} /\ file' = records' /\ UNCHANGED <<batch, failures>>
    BY <1>1, <1>10, LoadFacts DEF Start, actorVars
  <2> QED
    BY <1>4, <2>1
<1>11. ASSUME NEW k \in Items, Ripen(k) \/ Expire(k) PROVE Counted(i)'
  BY <1>1, <1>4, <1>11, ElapseFacts DEF Ripen, Expire, actorVars, fateVars
<1>12. CASE \/ \E m \in Messages : Duplicate(m)
            \/ \E m \in Messages, k \in Items : Accept(m, k) \/ AcceptFails(m, k)
            \/ \E a \in Actors : SendPart(a)
            \/ HandleSent \/ StartFails \/ UNCHANGED vars
  <2>1. UNCHANGED <<records, file, batch, failures>>
    BY <1>12 DEF Duplicate, Accept, AcceptFails, SendPart, HandleSent, StartFails, vars,
                 queueVars, actorVars, fateVars
  <2> QED
    BY <1>4, <2>1
<1> QED
  BY <1>5, <1>6, <1>7, <1>8, <1>9, <1>10, <1>11, <1>12 DEF Next

LEMMA FailuresInvHolds == Spec => []FailuresInv
<1>1. Init => FailuresInv
  BY SizesAssumption DEF Init, FailuresInv, RQ!Init, RQ!Empty
<1>2. IndInv /\ IndInv' /\ FailuresInv /\ [Next]_vars => FailuresInv'
  BY FailuresStep
<1> QED
  BY <1>1, <1>2, InvariantHolds, PTL DEF Spec

(* max_attempts bounds the failed deliveries of a message over all restarts, *)
(* and memory, file and the worker's snapshot agree on how many there were   *)
(* (delivery.py, handle, process_retry and process_due_retries).             *)
THEOREM AttemptsAreCounted == Spec => []AttemptsCounted
<1>1. Init => AttemptsCounted
  BY SizesAssumption DEF Init, AttemptsCounted, RQ!Init, RQ!Empty
<1>2. IndInv /\ IndInv' /\ DiskInv /\ FailuresInv /\ AttemptsCounted /\ [Next]_vars => AttemptsCounted'
  BY CountedStep
<1> QED
  BY <1>1, <1>2, InvariantHolds, DiskInvHolds, FailuresInvHolds, PTL DEF Spec

-----------------------------------------------------------------------------
(* What becomes of a message has a cause: a stop takes the receiver's one,   *)
(* and without time limits and evictions only the last attempt gives one up. *)

LossesCounted == ~DiskFaults => Cardinality(lost) <= interrupts

LEMMA LossesStep == IndInv /\ DiskInv /\ LossesCounted /\ [Next]_vars => LossesCounted'
<1> SUFFICES ASSUME IndInv, DiskInv, LossesCounted, [Next]_vars, ~DiskFaults
             PROVE  Cardinality(lost') <= interrupts'
  BY DEF LossesCounted
<1>1. IsFiniteSet(lost) /\ Cardinality(lost) \in Nat /\ interrupts \in Nat
  BY SizesAssumption, ItemsAssumption, FS_Subset, FS_CardinalityType DEF IndInv, TypeOK
<1>2. Cardinality(lost) <= interrupts
  BY DEF LossesCounted
<1>3. CASE Interrupt
  <2> DEFINE r == job["receiver"]
  <2>1. RQ!Live(records) \subseteq RQ!Live(file)
    BY <1>3 DEF Interrupt, DiskInv, QueueOnDisk, RQ!Live
  <2>2. lost' = lost \cup ({r} \ {None}) /\ interrupts' = interrupts + 1
    BY <1>3, <2>1 DEF Interrupt
  <2>3. lost' \in {lost, lost \cup {r}}
    BY <2>2
  <2>4. Cardinality(lost \cup {r}) <= Cardinality(lost) + 1
    BY <1>1, FS_AddElement
  <2>5. CASE lost' = lost
    BY <1>1, <1>2, <2>2, <2>5
  <2>6. CASE lost' = lost \cup {r}
    <3> DEFINE more == Cardinality(lost \cup {r})
    <3>1. more \in Nat
      BY <1>1, FS_AddElement, FS_CardinalityType
    <3>2. more <= interrupts + 1
      <4> HIDE DEF more, r
      <4> QED
        BY <1>1, <1>2, <2>4, <3>1 DEF more
    <3> QED
      BY <2>2, <2>6, <3>2
  <2> QED
    BY <2>3, <2>5, <2>6
<1>4. CASE ~Interrupt
  <2>1. UNCHANGED <<lost, interrupts>>
    BY <1>4 DEF Next, Duplicate, Accept, AcceptFails, SendPart, HandleSent, RetrySent, HandleFails,
                RetryFails, SenderRaises, DueBatch, Ripen, Expire, Start, StartFails, vars, fateVars
  <2> QED
    BY <1>2, <2>1
<1> QED
  BY <1>3, <1>4

(* While the disk works, a stop or crash loses at most the one message that  *)
(* the receiver had accepted and not yet sent or queued; what was queued     *)
(* survives (delivery.py, handle; runtime.py, stop).                         *)
THEOREM StopsLoseOneEach == Spec => []LossesCounted
<1>1. Init => LossesCounted
  BY FS_EmptySet DEF Init, LossesCounted
<1> QED
  BY <1>1, LossesStep, InvariantHolds, DiskInvHolds, PTL DEF Spec

(* Neither the clock nor a full queue can take a record away. *)
Dependable == ~DiskFaults /\ ~DropExpired /\ Cardinality(Items) <= MaxQueueSize

TriedInv ==
    Dependable =>
        /\ expired = {}
        /\ \A i \in dropped : failures[i] = MaxAttempts

LEMMA NothingEvicted ==
    ASSUME Dependable, IndInv, expired = {}, NEW q PROVE Evicted(q) = {}
<1> DEFINE live == RQ!Live(q)
<1>1. Cardinality(live) <= Cardinality(Items)
  BY ItemsAssumption, FS_Subset DEF RQ!Live
<1>2. Cardinality(live) \in Nat /\ Cardinality(Items) \in Nat
  BY ItemsAssumption, FS_Subset, FS_CardinalityType DEF RQ!Live
<1>3. live \ expired = live
  OBVIOUS
<1>4. ~(Cardinality(live) > MaxQueueSize)
  <2> HIDE DEF live
  <2> QED
    BY <1>1, <1>2, SizesAssumption DEF Dependable
<1> QED
  BY <1>3, <1>4 DEF Evicted

LEMMA TriedStep ==
    /\ IndInv /\ IndInv' /\ DiskInv /\ FailuresInv /\ AttemptsCounted /\ AttemptsCounted'
    /\ TriedInv /\ [Next]_vars
    => TriedInv'
<1> SUFFICES ASSUME IndInv, IndInv', FailuresInv, AttemptsCounted, AttemptsCounted',
                    TriedInv, [Next]_vars, Dependable
             PROVE  expired' = {} /\ \A i \in dropped' : failures'[i] = MaxAttempts
  BY DEF TriedInv
<1> USE SizesAssumption
<1>1. TypeOK /\ TypeOK' /\ RQ!TypeOK /\ dropped \subseteq Items
  BY DEF IndInv, TypeOK
<1>2. /\ expired = {} /\ ~DiskFaults /\ ~DropExpired
      /\ \A i \in dropped : failures[i] = MaxAttempts
  BY DEF TriedInv, Dependable
<1>3. \A q : Evicted(q) = {}
  BY <1>2, NothingEvicted
<1>4. \A i \in Items : failures'[i] <= MaxAttempts
  BY <1>2 DEF AttemptsCounted
(* The clock ends no record. *)
<1>5. expired' = {}
  <2>1. expired' = expired \/ \E due : RQ!Track(due)
    BY <1>2 DEF Next, Duplicate, Accept, AcceptFails, SendPart, HandleSent, RetrySent, HandleFails,
                RetryFails, SenderRaises, DueBatch, Ripen, Expire, Interrupt, Start, StartFails,
                vars, queueVars, RQ!vars, RQ!Ack, RQ!Enqueue, RQ!Reschedule, RQ!Write, RQ!Prune,
                RQ!Ripen, RQ!Expire, RQ!Discard, RQ!Load
  <2> QED
    BY <1>2, <2>1 DEF RQ!Track
(* A message given up stays at its last failure. *)
<1>6. ASSUME NEW k \in Items, Fail(k), NEW i \in dropped
      PROVE  failures'[i] = MaxAttempts
  <2>1. i \in Items /\ failures[i] = MaxAttempts /\ failures'[i] <= MaxAttempts
    BY <1>1, <1>2, <1>4
  <2>2. CASE i = k
    <3>1. failures'[i] = failures[i] + 1
      BY <1>1, <1>6, <2>1, <2>2, FailCounts
    <3> QED
      BY <2>1, <3>1
  <2>3. CASE i # k
    BY <1>1, <1>6, <2>1, <2>3, FailCounts
  <2> QED
    BY <2>2, <2>3
<1>7. ASSUME NEW ok \in SaveOutcomes, HandleFails(ok)
      PROVE  \A i \in dropped' : failures'[i] = MaxAttempts
  <2> DEFINE r == job["receiver"]
  <2>1. r \in Items /\ Fail(r) /\ failures[r] = 0
    BY <1>7, FirstCount DEF FailuresInv
  <2>2. failures'[r] = 1
    BY <1>1, <2>1, FailCounts
  <2>3. CASE 1 < MaxAttempts
    BY <1>3, <1>6, <1>7, <2>1, <2>3 DEF HandleFails
  <2>4. CASE MaxAttempts = 1
    BY <1>6, <1>7, <2>1, <2>2, <2>4 DEF HandleFails
  <2> QED
    BY <2>3, <2>4
<1>8. ASSUME NEW ok \in SaveOutcomes, RetryFails(ok)
      PROVE  \A i \in dropped' : failures'[i] = MaxAttempts
  <2> DEFINE w == job["worker"]
  <2>1. w \in Items /\ Fail(w) /\ batch[w] > 0
    BY <1>8, NextCount
  <2>2. batch[w] < MaxAttempts /\ batch[w] = failures[w] /\ failures[w] \in Nat
    BY <1>1, <1>2, <2>1 DEF FailuresInv, AttemptsCounted, TypeOK
  <2>3. failures'[w] = batch[w] + 1
    BY <1>1, <2>1, <2>2, FailCounts
  <2>4. CASE NextAttempt < MaxAttempts
    BY <1>3, <1>6, <1>8, <2>1, <2>4 DEF RetryFails
  <2>5. CASE ~(NextAttempt < MaxAttempts)
    <3>1. failures'[w] = MaxAttempts
      BY <2>2, <2>3, <2>5 DEF NextAttempt
    <3> QED
      BY <1>6, <1>8, <2>1, <2>5, <3>1 DEF RetryFails
  <2> QED
    BY <2>4, <2>5
<1>9. CASE DueBatch \/ Start
  BY <1>2, <1>3, <1>5, <1>9 DEF DueBatch, Start
<1>10. CASE \/ \E m \in Messages : Duplicate(m)
            \/ \E m \in Messages, k \in Items : Accept(m, k) \/ AcceptFails(m, k)
            \/ \E a \in Actors : SendPart(a)
            \/ \E ok \in SaveOutcomes : RetrySent(ok)
            \/ \E k \in Items : Ripen(k) \/ Expire(k)
            \/ HandleSent \/ Interrupt \/ StartFails \/ UNCHANGED vars
  <2>1. UNCHANGED <<dropped, failures>>
    BY <1>10 DEF Duplicate, Accept, AcceptFails, SendPart, HandleSent, RetrySent, Ripen, Expire,
                 Interrupt, StartFails, vars, fateVars
  <2> QED
    BY <1>2, <1>5, <2>1
<1> QED
  BY <1>5, <1>7, <1>8, <1>9, <1>10 DEF Next

AlwaysTried ==
    Dependable => \A i \in Items : msgOf[i] # None =>
        \/ Sent(i)
        \/ job["receiver"] = i
        \/ Queued(i)
        \/ failures[i] = MaxAttempts
        \/ i \in lost

(* With a working disk, no expiry and room for every message, an accepted    *)
(* message is with the target, with the receiver, in the queue, has failed   *)
(* max_attempts times, or was the receiver's one at one of the stops: the    *)
(* pipeline drops nothing on its own account (delivery.py, handle,           *)
(* process_retry; persistence.py, _prune_locked).                            *)
THEOREM GivenUpAfterAttempts == Spec => []AlwaysTried
<1>1. Init => TriedInv
  BY DEF Init, TriedInv, RQ!Init
<1>2. Accounted /\ TriedInv => AlwaysTried
  BY DEF Accounted, TriedInv, AlwaysTried
<1> QED
  BY <1>1, <1>2, TriedStep, InvariantHolds, DiskInvHolds, FailuresInvHolds, AttemptsAreCounted,
     AlwaysAccounted, PTL DEF Spec

-----------------------------------------------------------------------------
(* One message, one item. *)

LEMMA TakenNoted ==
    ASSUME OnceInv,
           \A k \in Items : Taken(k)' => Taken(k) /\ msgOf'[k] = msgOf[k],
           forgot \subseteq forgot', stable \cup forgot \subseteq stable' \cup forgot',
           running' => IF running THEN seen \cup forgot \subseteq seen' \cup forgot'
                                  ELSE stable \cup forgot \subseteq seen' \cup forgot'
    PROVE  OnceInv'
BY DEF OnceInv

LEMMA LandsAlone ==
    ASSUME TypeOK, NEW i \in Items, NEW p, Lands(i, p)
    PROVE  \A j \in Items \ {i} : high'[j] = high[j]
BY DEF TypeOK, Lands

LEMMA HandsAreTaken ==
    ASSUME IndInv, NEW a \in Actors, Holds(a)
    PROVE  job[a] \in Items /\ Taken(job[a])
<1>1. job[a] \in Items /\ job[a] # None
  BY DEF IndInv, TypeOK, LockInv, Holds
<1>2. a = "receiver" \/ (a = "worker" /\ batch[job[a]] > 0)
  BY <1>1 DEF IndInv, TaskInv, JobInv, Actors
<1> QED
  BY <1>1, <1>2 DEF Taken

(* A chunk arrives, or may have arrived, of an item that was taken before. *)
LEMMA ArrivalsAreTaken ==
    ASSUME IndInv, IndInv', NEW a \in Actors, Holds(a),
           Lands(job[a], part[a]) \/ UNCHANGED arrivalVars
    PROVE  \A k \in Items : high'[k] > 0 => Taken(k)
<1>1. job[a] \in Items /\ Taken(job[a])
  BY HandsAreTaken
<1>2. \A k \in Items \ {job[a]} : high'[k] = high[k]
  BY <1>1, LandsAlone DEF IndInv, arrivalVars
<1> QED
  BY <1>1, <1>2 DEF Taken

LEMMA AcceptOnce ==
    ASSUME IndInv, IndInv', OnceInv, NEW m \in Messages, NEW i \in Items, Accept(m, i)
    PROVE  OnceInv'
<1>1. TypeOK /\ FreshInv
  BY DEF IndInv, TaskInv
<1>2. /\ running /\ running' /\ msgOf[i] = None /\ job["receiver"] = None
      /\ UNCHANGED <<records, file, batch, high>>
      /\ forgot' = forgot \cup (seen \ seen') \cup ({m} \cap seen)
      /\ m \in seen' /\ stable' = seen'
  BY DEF Accept, Free, queueVars, arrivalVars, DS!Remember, DS!Save
<1>3. /\ msgOf'[i] = m /\ \A k \in Items \ {i} : msgOf'[k] = msgOf[k]
      /\ job'["receiver"] = i
  BY <1>1 DEF Accept, TypeOK, Actors
<1>4. \A k \in Items \ {i} : Taken(k)' => Taken(k)
  BY <1>2, <1>3 DEF Taken
<1>5. ASSUME NEW k \in Items, Taken(k)'
      PROVE  /\ msgOf'[k] \in Messages
             /\ msgOf'[k] \in seen' \cup forgot'
  BY <1>2, <1>3, <1>4, <1>5 DEF OnceInv
<1>6. ASSUME NEW k \in Items \ {i}, Taken(k)', msgOf'[k] = m
      PROVE  m \in forgot'
  BY <1>2, <1>3, <1>4, <1>6 DEF OnceInv
<1>7. ASSUME NEW j \in Items, NEW k \in Items, j # k, Taken(j)', Taken(k)', msgOf'[j] = msgOf'[k]
      PROVE  msgOf'[j] \in forgot'
  <2>1. CASE j = i \/ k = i
    BY <1>3, <1>6, <1>7, <2>1
  <2>2. CASE j # i /\ k # i
    BY <1>2, <1>3, <1>4, <1>7, <2>2 DEF OnceInv
  <2> QED
    BY <2>1, <2>2
<1> QED
  BY <1>2, <1>5, <1>7 DEF OnceInv

LEMMA OnceStep == IndInv /\ IndInv' /\ OnceInv /\ [Next]_vars => OnceInv'
<1> SUFFICES ASSUME IndInv, IndInv', OnceInv, [Next]_vars PROVE OnceInv'
  OBVIOUS
<1> USE NoneAssumption, SizesAssumption
<1>1. TypeOK /\ TypeOK' /\ LockInv /\ RQ!TypeOK /\ RQ!TypeOK' /\ DS!TypeOK /\ StoppedInv /\ JobInv /\ FreshInv
  BY DEF IndInv, TaskInv, TypeOK
<1>2. ASSUME \A k \in Items : Taken(k)' => Taken(k), UNCHANGED <<msgOf, storeVars>>,
             running' => running
      PROVE  OnceInv'
  BY <1>2, TakenNoted DEF storeVars
<1>3. ASSUME NEW m \in Messages, Duplicate(m) PROVE OnceInv'
  <2>1. UNCHANGED <<running, msgOf, high, job, records, file, batch>>
    BY <1>3 DEF Duplicate, queueVars, actorVars, arrivalVars
  <2>2. stable' \in {stable, seen'} /\ forgot' = forgot \cup (seen \ seen') /\ running
    BY <1>3 DEF Duplicate, DS!Recall, DS!Save
  <2>3. \A k \in Items : Taken(k)' => Taken(k)
    BY <2>1 DEF Taken
  <2>4. \A k \in Items : Taken(k) => msgOf[k] \in stable' \cup forgot' /\ msgOf[k] \in seen' \cup forgot'
    BY <2>2 DEF OnceInv
  <2> QED
    BY <2>1, <2>2, <2>3, <2>4 DEF OnceInv
<1>4. ASSUME NEW m \in Messages, NEW i \in Items, AcceptFails(m, i) PROVE OnceInv'
  <2>1. /\ UNCHANGED <<running, high, job, records, file, batch, stable>>
        /\ running /\ msgOf[i] = None /\ job["receiver"] = None
    BY <1>4 DEF AcceptFails, Free, queueVars, actorVars, arrivalVars, DS!Remember, DS!Save
  <2>2. forgot' = forgot \cup (seen \ seen') \cup ({m} \cap seen)
    BY <1>4 DEF AcceptFails
  <2>3. ~Taken(i)
    BY <2>1 DEF OnceInv
  <2>4. \A k \in Items \ {i} : msgOf'[k] = msgOf[k]
    BY <1>1, <1>4 DEF AcceptFails, TypeOK
  <2>5. \A k \in Items : Taken(k)' => Taken(k) /\ msgOf'[k] = msgOf[k]
    BY <2>1, <2>3, <2>4 DEF Taken
  <2> QED
    BY <2>1, <2>2, <2>5, TakenNoted
<1>5. ASSUME NEW a \in Actors, SendPart(a) PROVE OnceInv'
  <2>1. \A k \in Items : high'[k] > 0 => Taken(k)
    BY <1>5, ArrivalsAreTaken DEF SendPart
  <2> QED
    BY <1>2, <1>5, <2>1 DEF SendPart, queueVars, Taken
<1>6. CASE HandleSent
  <2>1. \A k \in Items : high'[k] > 0 => Taken(k)
    BY <1>6, ArrivalsAreTaken DEF HandleSent, Actors
  <2>2. job'["receiver"] = None
    BY <1>1, <1>6, PassFacts DEF HandleSent, Actors
  <2> QED
    BY <1>2, <1>6, <2>1, <2>2 DEF HandleSent, queueVars, Taken
<1>7. ASSUME NEW ok \in SaveOutcomes, RetrySent(ok) \/ RetryFails(ok) PROVE OnceInv'
  <2> DEFINE w == job["worker"]
  <2>1. \A k \in Items : high'[k] > 0 => Taken(k)
    BY <1>7, ArrivalsAreTaken DEF RetrySent, RetryFails, SenderRaises, Actors
  <2>2. /\ running /\ w \in Items /\ batch[w] > 0 /\ job'["receiver"] = job["receiver"]
        /\ \A j \in Items \ {w} : records'[j] \in {0, records[j]} /\ batch'[j] \in {0, batch[j]}
        /\ file' \in {file, records'}
    BY <1>7, WorkerEnds
  <2>3. UNCHANGED <<msgOf, storeVars, running>>
    BY <1>7 DEF RetrySent, RetryFails, SenderRaises
  <2>4. Taken(w) /\ \A k \in Items \ {w} : Taken(k)' => Taken(k)
    BY <2>1, <2>2 DEF Taken
  <2> QED
    BY <1>2, <2>3, <2>4
<1>8. ASSUME NEW ok \in SaveOutcomes, HandleFails(ok) PROVE OnceInv'
  <2> DEFINE r == job["receiver"]
  <2>1. \A k \in Items : high'[k] > 0 => Taken(k)
    BY <1>8, ArrivalsAreTaken DEF HandleFails, SenderRaises, Actors
  <2>2. /\ r \in Items /\ job'["receiver"] = None /\ UNCHANGED <<running, msgOf, batch>>
        /\ \A j \in Items \ {r} : records'[j] \in {0, records[j]}
        /\ file' \in {file, records'}
    BY <1>8, FirstCount
  <2>3. UNCHANGED storeVars
    BY <1>8 DEF HandleFails, SenderRaises
  <2>4. Taken(r) /\ \A k \in Items \ {r} : Taken(k)' => Taken(k)
    BY <2>1, <2>2 DEF Taken
  <2> QED
    BY <1>2, <2>2, <2>3, <2>4
<1>9. CASE DueBatch
  <2>1. /\ job'["receiver"] = job["receiver"] /\ file' = file
        /\ \A j \in Items : records'[j] \in {0, records[j]} /\ batch'[j] \in {0, records'[j]}
    BY <1>9, WorkerStarts
  <2>2. \A k \in Items : Taken(k)' => Taken(k)
    BY <1>9, <2>1 DEF DueBatch, arrivalVars, Taken
  <2> QED
    BY <1>2, <1>9, <2>2 DEF DueBatch
<1>10. ASSUME NEW i \in Items, Ripen(i) \/ Expire(i) PROVE OnceInv'
  <2>1. UNCHANGED <<records, file>>
    BY <1>1, <1>10, ElapseFacts DEF Ripen, Expire
  <2> QED
    BY <1>2, <1>10, <2>1 DEF Ripen, Expire, actorVars, arrivalVars, Taken
<1>11. CASE Interrupt
  <2>1. records' = RQ!Empty /\ file' = file /\ batch' = RQ!Empty /\ job'["receiver"] = None
    BY <1>1, <1>11, DiscardFacts DEF Interrupt, Nobody, Actors
  <2>2. \A k \in Items : high'[k] > 0 => Taken(k)
    <3>1. CASE UNCHANGED arrivalVars
      BY <3>1 DEF arrivalVars, Taken
    <3>2. CASE \E a \in Actors : Holds(a) /\ Lands(job[a], part[a])
      BY <3>2, ArrivalsAreTaken
    <3> QED
      BY <1>11, <3>1, <3>2 DEF Interrupt
  <2>3. \A k \in Items : Taken(k)' => Taken(k)
    BY <2>1, <2>2 DEF Taken, RQ!Empty
  <2>4. UNCHANGED <<msgOf, forgot, stable>> /\ ~running'
    BY <1>11 DEF Interrupt, DS!Discard
  <2> QED
    BY <2>3, <2>4, TakenNoted
<1>12. CASE Start
  <2>1. (\A j \in Items : records'[j] \in {0, file[j]}) /\ file' = records'
    BY <1>1, <1>12, LoadFacts DEF Start
  <2>2. \A k \in Items : Taken(k)' => Taken(k)
    BY <1>12, <2>1 DEF Start, actorVars, arrivalVars, Taken
  <2>3. ~running /\ stable' = seen' /\ forgot' = forgot \cup (stable \ seen') /\ msgOf' = msgOf
    BY <1>12 DEF Start, DS!Load, DS!Save
  <2> QED
    BY <2>2, <2>3, TakenNoted
<1>13. CASE StartFails
  <2>1. \A k \in Items : Taken(k)' => Taken(k)
    BY <1>13 DEF StartFails, queueVars, actorVars, arrivalVars, Taken
  <2>2. ~running' /\ msgOf' = msgOf /\ forgot' = forgot \cup (stable \ stable')
    BY <1>13 DEF StartFails, fateVars
  <2> QED
    BY <2>1, <2>2, TakenNoted
<1>14. CASE UNCHANGED vars
  BY <1>2, <1>14 DEF vars, queueVars, actorVars, arrivalVars, storeVars, Taken
<1> QED
  BY <1>3, AcceptOnce, <1>4, <1>5, <1>6, <1>7, <1>8, <1>9, <1>10, <1>11, <1>12, <1>13, <1>14 DEF Next

LEMMA OnceInvHolds == Spec => []OnceInv
<1>1. Init => OnceInv
  BY NoneAssumption DEF Init, OnceInv, Taken, RQ!Init, RQ!Empty, Nobody, Actors
<1>2. IndInv /\ IndInv' /\ OnceInv /\ [Next]_vars => OnceInv'
  BY OnceStep
<1> QED
  BY <1>1, <1>2, InvariantHolds, PTL DEF Spec

(* Two items with one fingerprint are not both forwarded, in one run of the  *)
(* process or in two, unless the store was allowed to forget the fingerprint: *)
(* it is saved before the first chunk is sent (filter_chain.py, delivery.py). *)
THEOREM ForwardedAtMostOnce == Spec => []ForwardedOnce
<1>1. OnceInv => ForwardedOnce
  BY DEF OnceInv, ForwardedOnce, Taken
<1> QED
  BY <1>1, OnceInvHolds, PTL

-----------------------------------------------------------------------------
(* Delivery implements ForwardingContract. *)

LEMMA LostStep == IndInv /\ IndInv' /\ LostInv /\ [Next]_vars => LostInv'
<1> SUFFICES ASSUME IndInv, IndInv', LostInv, [Next]_vars PROVE LostInv'
  OBVIOUS
<1> USE NoneAssumption, SizesAssumption
<1>1. TypeOK /\ TypeOK' /\ LockInv /\ RQ!TypeOK /\ RQ!TypeOK' /\ StoppedInv /\ JobInv /\ FreshInv
  BY DEF IndInv, TaskInv, TypeOK
<1>2. lost \subseteq Items
  BY <1>1 DEF TypeOK
<1>3. ASSUME lost' = lost, msgOf' = msgOf,
             \A j \in lost : job'["receiver"] # j /\ records'[j] = 0 /\ file'[j] = 0 /\ batch'[j] = 0
      PROVE  LostInv'
  BY <1>3 DEF LostInv
<1>4. ASSUME NEW m \in Messages, NEW i \in Items, Accept(m, i) PROVE LostInv'
  <2>1. i \notin lost /\ \A j \in Items \ {i} : msgOf'[j] = msgOf[j]
    BY <1>1, <1>4 DEF Accept, Free, TypeOK, LostInv
  <2>2. job'["receiver"] = i
    BY <1>1, <1>4 DEF Accept, TypeOK, Actors
  <2> QED
    BY <1>2, <1>4, <2>1, <2>2 DEF Accept, LostInv, queueVars, fateVars
<1>5. ASSUME NEW m \in Messages, NEW i \in Items, AcceptFails(m, i) PROVE LostInv'
  <2>1. msgOf'[i] = m /\ \A j \in Items \ {i} : msgOf'[j] = msgOf[j]
    BY <1>1, <1>5 DEF AcceptFails, TypeOK
  <2>2. records[i] = 0 /\ file[i] = 0 /\ batch[i] = 0
    BY <1>1, <1>5 DEF AcceptFails, Free, FreshInv
  <2> QED
    BY <1>2, <1>5, <2>1, <2>2 DEF AcceptFails, LostInv, queueVars, actorVars
<1>6. CASE HandleSent
  <2>1. job'["receiver"] = None
    BY <1>1, <1>6, PassFacts DEF HandleSent, Actors
  <2> QED
    BY <1>2, <1>3, <1>6, <2>1 DEF HandleSent, queueVars, LostInv
<1>7. ASSUME NEW ok \in SaveOutcomes, RetrySent(ok) \/ RetryFails(ok) PROVE LostInv'
  <2>1. /\ batch[job["worker"]] > 0 /\ job'["receiver"] = job["receiver"]
        /\ \A j \in Items \ {job["worker"]} :
              records'[j] \in {0, records[j]} /\ batch'[j] \in {0, batch[j]}
        /\ file' \in {file, records'}
    BY <1>7, WorkerEnds
  <2>2. lost' = lost /\ msgOf' = msgOf
    BY <1>7 DEF RetrySent, RetryFails, SenderRaises
  <2>3. \A j \in lost : j # job["worker"]
    BY <2>1 DEF LostInv
  <2> QED
    BY <1>2, <1>3, <2>1, <2>2, <2>3 DEF LostInv
<1>8. ASSUME NEW ok \in SaveOutcomes, HandleFails(ok) PROVE LostInv'
  <2>1. /\ job'["receiver"] = None /\ msgOf' = msgOf /\ batch' = batch
        /\ \A j \in Items \ {job["receiver"]} : records'[j] \in {0, records[j]}
        /\ file' \in {file, records'}
    BY <1>8, FirstCount
  <2>2. lost' = lost
    BY <1>8 DEF HandleFails, SenderRaises
  <2> QED
    BY <1>2, <1>3, <2>1, <2>2 DEF LostInv
<1>9. CASE DueBatch
  <2>1. /\ job'["receiver"] = job["receiver"] /\ file' = file
        /\ \A j \in Items : records'[j] \in {0, records[j]} /\ batch'[j] \in {0, records'[j]}
    BY <1>9, WorkerStarts
  <2> QED
    BY <1>2, <1>3, <1>9, <2>1 DEF DueBatch, LostInv
<1>10. CASE Interrupt
  <2>1. records' = RQ!Empty /\ file' = file /\ batch' = RQ!Empty /\ job'["receiver"] = None
    BY <1>1, <1>10, DiscardFacts DEF Interrupt, Nobody, Actors
  <2>2. msgOf' = msgOf /\
        lost' = lost \cup ({job["receiver"]} \ {None}) \cup (RQ!Live(records) \ RQ!Live(file))
    BY <1>10 DEF Interrupt
  <2>3. ASSUME NEW i \in Items, i = job["receiver"] PROVE msgOf[i] # None /\ file[i] = 0
    BY <1>1, <2>3 DEF JobInv, FreshInv
  <2>4. ASSUME NEW i \in Items, records[i] > 0, ~(file[i] > 0) PROVE msgOf[i] # None /\ file[i] = 0
    BY <1>1, <2>4 DEF FreshInv, RQ!TypeOK, RQ!Queue
  <2>5. job["receiver"] \in Items \cup {None}
    BY <1>1 DEF TypeOK, Actors
  <2>6. ASSUME NEW i \in lost' PROVE i \in Items /\ msgOf[i] # None /\ file[i] = 0
    BY <1>2, <2>2, <2>3, <2>4, <2>5 DEF RQ!Live, LostInv
  <2> QED
    BY <2>1, <2>2, <2>6 DEF LostInv, RQ!Empty
<1>11. CASE Start
  <2>1. (\A j \in Items : records'[j] \in {0, file[j]}) /\ file' = records'
    BY <1>1, <1>11, LoadFacts DEF Start
  <2> QED
    BY <1>2, <1>3, <1>11, <2>1 DEF Start, LostInv, actorVars
<1>12. ASSUME NEW i \in Items, Ripen(i) \/ Expire(i) PROVE LostInv'
  <2>1. records' = records /\ file' = file
    BY <1>1, <1>12, ElapseFacts DEF Ripen, Expire
  <2> QED
    BY <1>3, <1>12, <2>1 DEF Ripen, Expire, LostInv, actorVars, fateVars
<1>13. CASE \/ \E m \in Messages : Duplicate(m)
            \/ \E a \in Actors : SendPart(a)
            \/ StartFails \/ UNCHANGED vars
  BY <1>3, <1>13 DEF Duplicate, SendPart, StartFails, vars, queueVars, actorVars, fateVars, LostInv
<1> QED
  BY <1>4, <1>5, <1>6, <1>7, <1>8, <1>9, <1>10, <1>11, <1>12, <1>13 DEF Next

LEMMA LostInvHolds == Spec => []LostInv
<1>1. Init => LostInv
  BY DEF Init, LostInv
<1>2. IndInv /\ IndInv' /\ LostInv /\ [Next]_vars => LostInv'
  BY LostStep
<1> QED
  BY <1>1, <1>2, InvariantHolds, PTL DEF Spec

(* What "queued" means to StatusOf. *)
InQueue(i) == IF running THEN records[i] > 0 \/ batch[i] > 0
              ELSE file[i] > 0 /\ i \notin expired

(* Each status by what it takes to have it. *)
LEMMA StatusNow ==
    ASSUME NEW i
    PROVE  LET s == StatusOf(i) IN
           /\ s = "new" <=> msgOf[i] = None
           /\ s = "sent" <=> msgOf[i] # None /\ Sent(i)
           /\ s = "flight" <=> msgOf[i] # None /\ ~Sent(i) /\ job["receiver"] = i
           /\ s = "queued" <=> msgOf[i] # None /\ ~Sent(i) /\ job["receiver"] # i /\ InQueue(i)
           /\ s = "lost" <=> msgOf[i] # None /\ ~Sent(i) /\ job["receiver"] # i /\ ~InQueue(i) /\ i \in lost
           /\ s \in Contract!Status \cup {"missing"}
BY DEF StatusOf, InQueue, Contract!Status

LEMMA StatusNext ==
    ASSUME NEW i
    PROVE  LET s == StatusOf(i)' IN
           /\ s = "new" <=> msgOf'[i] = None
           /\ s = "sent" <=> msgOf'[i] # None /\ Sent(i)'
           /\ s = "flight" <=> msgOf'[i] # None /\ ~Sent(i)' /\ job'["receiver"] = i
           /\ s = "queued" <=> msgOf'[i] # None /\ ~Sent(i)' /\ job'["receiver"] # i /\ InQueue(i)'
           /\ s = "lost" <=> msgOf'[i] # None /\ ~Sent(i)' /\ job'["receiver"] # i /\ ~InQueue(i)' /\ i \in lost'
           /\ s \in Contract!Status \cup {"missing"}
BY DEF StatusOf, InQueue, Contract!Status

(* Accounted is why no item is ever "missing". *)
LEMMA NeverMissing == Accounted => \A i \in Items : StatusOf(i) \in Contract!Status
<1> SUFFICES ASSUME Accounted, NEW i \in Items, StatusOf(i) = "missing" PROVE FALSE
  BY StatusNow
<1>1. /\ msgOf[i] # None /\ ~Sent(i) /\ job["receiver"] # i
      /\ ~InQueue(i) /\ i \notin lost /\ i \notin dropped \cup expired
  BY DEF StatusOf, InQueue
<1> QED
  BY <1>1 DEF Accounted, Queued, InQueue

LEMMA NeverMissingNext == Accounted' => \A i \in Items : StatusOf(i)' \in Contract!Status
<1> SUFFICES ASSUME Accounted', NEW i \in Items, StatusOf(i)' = "missing" PROVE FALSE
  BY StatusNext
<1>1. /\ msgOf'[i] # None /\ ~Sent(i)' /\ job'["receiver"] # i
      /\ ~InQueue(i)' /\ i \notin lost' /\ i \notin dropped' \cup expired'
  BY DEF StatusOf, InQueue
<1> QED
  BY <1>1 DEF Accounted, Queued, InQueue

Move(j) ==
    \/ StatusOf(j)' = StatusOf(j)
    \/ StatusOf(j) # "new" /\ <<StatusOf(j), StatusOf(j)'>> \in Contract!Allowed

(* What every step but an acceptance leaves true of an item. *)
Keeps(j) ==
    /\ msgOf'[j] = msgOf[j]
    /\ Sent(j) => Sent(j)'
    /\ Sent(j)' => Sent(j) \/ \E a \in Actors : Holds(a) /\ job[a] = j
    /\ job'["receiver"] = j => job["receiver"] = j
    /\ j \in lost => j \in lost'
    /\ InQueue(j)' => InQueue(j) \/ job["receiver"] = j \/ DiskFaults
    /\ j \in lost' \ lost => job["receiver"] = j \/ (DiskFaults /\ InQueue(j))

LEMMA KeepsMoves ==
    ASSUME IndInv, LostInv, LostInv', Accounted, Accounted', NEW j \in Items, Keeps(j)
    PROVE  Move(j)
<1> USE DEF Keeps
<1> DEFINE old == StatusOf(j)
           new == StatusOf(j)'
<1>1. old \in Contract!Status /\ new \in Contract!Status
  BY NeverMissing, NeverMissingNext
<1>2. TypeOK /\ LockInv /\ JobInv /\ StoppedInv
  BY DEF IndInv, TaskInv
<1>3. \A a \in Actors : Holds(a) /\ job[a] = j => job["receiver"] = j \/ InQueue(j)
  <2>1. SUFFICES ASSUME Holds("worker"), job["worker"] = j PROVE InQueue(j)
    BY DEF Actors
  <2>2. running /\ j # None
    BY <1>2, <2>1, HolderRuns, NoneAssumption DEF Actors
  <2> QED
    BY <1>2, <2>1, <2>2 DEF JobInv, InQueue
<1>4. CASE old = "new"
  BY <1>4, StatusNow, StatusNext DEF Move
<1>5. CASE old = "sent"
  BY <1>5, StatusNow, StatusNext DEF Move
<1>6. CASE old = "flight"
  <2>1. new # "new"
    BY <1>6, StatusNow, StatusNext
  <2> QED
    BY <1>1, <1>6, <2>1 DEF Move, Contract!Status, Contract!Allowed, Contract!Moves, Contract!FaultyMoves
<1>7. CASE old = "queued"
  <2>1. new # "new" /\ new # "flight"
    BY <1>7, StatusNow, StatusNext
  <2>2. new = "lost" => DiskFaults
    <3>1. SUFFICES ASSUME new = "lost" PROVE j \notin lost
      BY <1>7, StatusNow, StatusNext
    <3>2. InQueue(j)
      BY <1>7, StatusNow
    <3> QED
      BY <1>2, <3>2 DEF LostInv, InQueue
  <2> QED
    BY <1>1, <1>7, <2>1, <2>2 DEF Move, Contract!Status, Contract!Allowed, Contract!Moves, Contract!FaultyMoves
<1>8. CASE old = "lost"
  <2>1. /\ msgOf[j] # None /\ ~Sent(j) /\ job["receiver"] # j /\ ~InQueue(j) /\ j \in lost
    BY <1>8, StatusNow
  <2>2. ~Sent(j)' /\ job'["receiver"] # j /\ j \in lost'
    BY <1>3, <2>1
  <2>3. ~InQueue(j)'
    BY <2>2 DEF LostInv, InQueue
  <2> QED
    BY <1>8, <2>1, <2>2, <2>3, StatusNext DEF Move
<1>9. CASE old = "dropped"
  <2>1. /\ msgOf[j] # None /\ ~Sent(j) /\ job["receiver"] # j /\ ~InQueue(j) /\ j \notin lost
    BY <1>9, StatusNow
  <2>2. ~Sent(j)' /\ job'["receiver"] # j /\ j \notin lost' /\ msgOf'[j] # None
    BY <1>3, <2>1
  <2>3. new = "dropped" \/ (new = "queued" /\ DiskFaults)
    BY <1>1, <2>1, <2>2, StatusNext DEF Contract!Status
  <2> QED
    BY <1>9, <2>3 DEF Move, Contract!Allowed, Contract!Moves, Contract!FaultyMoves
<1> QED
  BY <1>1, <1>4, <1>5, <1>6, <1>7, <1>8, <1>9 DEF Contract!Status

(* The clauses of Keeps about what the sender took in this step. *)
LEMMA SendersKeep ==
    ASSUME IndInv, IndInv', NEW a \in Actors, Holds(a),
           Lands(job[a], part[a]) \/ UNCHANGED arrivalVars,
           NEW j \in Items
    PROVE  /\ Sent(j) => Sent(j)'
           /\ Sent(j)' => Sent(j) \/ (Holds(a) /\ job[a] = j)
<1>1. TypeOK /\ TypeOK' /\ LockInv /\ job[a] \in Items /\ part[a] \in 1..NumParts
  BY HandsAreTaken, SizesAssumption DEF IndInv, TypeOK, Holds
<1>2. CASE Lands(job[a], part[a])
  <2>1. \A k \in Items : high'[k] >= high[k]
    BY <1>1, <1>2, LandsFacts
  <2>2. \A k \in Items \ {job[a]} : high'[k] = high[k]
    BY <1>1, <1>2, LandsAlone
  <2> QED
    BY <1>1, <2>1, <2>2, SentStays DEF Sent
<1>3. CASE UNCHANGED arrivalVars
  BY <1>3 DEF arrivalVars, Sent
<1> QED
  BY <1>2, <1>3

LEMMA KeepsStep ==
    ASSUME IndInv, IndInv', DiskInv, [Next]_vars,
           ~ \E m \in Messages, i \in Items : Accept(m, i) \/ AcceptFails(m, i),
           NEW j \in Items
    PROVE  Keeps(j)
<1> USE NoneAssumption, SizesAssumption
<1>1. /\ TypeOK /\ TypeOK' /\ LockInv /\ RQ!TypeOK /\ RQ!TypeOK' /\ StoppedInv /\ JobInv /\ FreshInv
      /\ StoppedInv'
  BY DEF IndInv, TaskInv, TypeOK
<1>2. ASSUME UNCHANGED <<running, msgOf, job, lost, high>>,
             records'[j] \in {0, records[j]}, batch'[j] \in {0, batch[j]}, file'[j] = file[j],
             j \in expired /\ ~running /\ file[j] > 0 => j \in expired'
      PROVE  Keeps(j)
  BY <1>2 DEF Keeps, Sent, InQueue
<1>3. ASSUME NEW a \in Actors, SendPart(a) PROVE Keeps(j)
  BY <1>3, SendersKeep DEF SendPart, Keeps, InQueue, queueVars, fateVars
<1>4. CASE HandleSent
  <2>1. job'["receiver"] = None
    BY <1>1, <1>4, PassFacts DEF HandleSent, Actors
  <2> QED
    BY <1>4, <2>1, SendersKeep DEF HandleSent, Keeps, InQueue, queueVars, Actors
<1>5. ASSUME NEW ok \in SaveOutcomes, RetrySent(ok) \/ RetryFails(ok) PROVE Keeps(j)
  <2>1. /\ running /\ running' /\ job'["receiver"] = job["receiver"] /\ job["worker"] \in Items
        /\ batch[job["worker"]] > 0
        /\ \A k \in Items \ {job["worker"]} :
              records'[k] \in {0, records[k]} /\ batch'[k] \in {0, batch[k]}
    BY <1>5, WorkerEnds
  <2>2. InQueue(job["worker"])
    BY <2>1 DEF InQueue
  <2>3. InQueue(j)' => InQueue(j)
    BY <2>1, <2>2 DEF InQueue
  <2>4. Holds("worker") /\ (Lands(job["worker"], part["worker"]) \/ UNCHANGED arrivalVars)
    BY <1>5 DEF RetrySent, RetryFails, SenderRaises
  <2> QED
    BY <1>5, <2>1, <2>3, <2>4, SendersKeep DEF RetrySent, RetryFails, SenderRaises, Keeps, Actors
<1>6. ASSUME NEW ok \in SaveOutcomes, HandleFails(ok) PROVE Keeps(j)
  <2>1. /\ running /\ running' = running /\ msgOf' = msgOf /\ batch' = batch
        /\ job'["receiver"] = None
        /\ \A k \in Items \ {job["receiver"]} : records'[k] \in {0, records[k]}
    BY <1>6, FirstCount
  <2>2. InQueue(j)' => InQueue(j) \/ job["receiver"] = j
    BY <2>1 DEF InQueue
  <2> QED
    BY <1>6, <2>1, <2>2, SendersKeep DEF HandleFails, SenderRaises, Keeps, Actors
<1>7. CASE DueBatch
  <2>1. /\ running /\ running' /\ job'["receiver"] = job["receiver"]
        /\ \A k \in Items : records'[k] \in {0, records[k]} /\ batch'[k] \in {0, records'[k]}
    BY <1>7, WorkerStarts
  <2> QED
    BY <1>7, <2>1 DEF DueBatch, Keeps, InQueue, Sent, arrivalVars
<1>8. ASSUME NEW i \in Items, Ripen(i) \/ Expire(i) PROVE Keeps(j)
  <2>1. records' = records /\ file' = file /\ expired \subseteq expired'
    BY <1>1, <1>8, ElapseFacts DEF Ripen, Expire, RQ!Ripen, RQ!Expire
  <2> QED
    BY <1>2, <1>8, <2>1 DEF Ripen, Expire, actorVars, arrivalVars, fateVars
<1>9. CASE Interrupt
  <2>1. /\ records' = RQ!Empty /\ file' = file /\ batch' = RQ!Empty /\ job'["receiver"] = None
        /\ msgOf' = msgOf /\ running /\ ~running'
        /\ lost' = lost \cup ({job["receiver"]} \ {None}) \cup (RQ!Live(records) \ RQ!Live(file))
    BY <1>1, <1>9, DiscardFacts DEF Interrupt, Nobody, Actors
  <2>2. /\ Sent(j) => Sent(j)'
        /\ Sent(j)' => Sent(j) \/ \E a \in Actors : Holds(a) /\ job[a] = j
    <3>1. CASE UNCHANGED arrivalVars
      BY <3>1 DEF arrivalVars, Sent
    <3>2. CASE \E a \in Actors : Holds(a) /\ Lands(job[a], part[a])
      BY <3>2, SendersKeep
    <3> QED
      BY <1>9, <3>1, <3>2 DEF Interrupt
  <2>3. InQueue(j)' => InQueue(j) \/ DiskFaults
    <3>1. SUFFICES ASSUME file[j] > 0, j \notin expired', ~DiskFaults PROVE records[j] > 0
      BY <2>1 DEF InQueue
    <3>2. file[j] = records[j] \/ j \in expired
      BY <2>1, <3>1 DEF DiskInv, QueueOnDisk
    <3>3. expired' = expired \cap (RQ!Live(records') \cup RQ!Live(file'))
      BY <1>9 DEF Interrupt, RQ!Discard, RQ!Track
    <3> QED
      BY <2>1, <3>1, <3>2, <3>3 DEF RQ!Live
  <2>4. j \in RQ!Live(records) \ RQ!Live(file) => DiskFaults /\ InQueue(j)
    <3>1. SUFFICES ASSUME records[j] > 0, ~(file[j] > 0) PROVE DiskFaults
      BY <2>1 DEF RQ!Live, InQueue
    <3> QED
      BY <2>1, <3>1 DEF DiskInv, QueueOnDisk
  <2> QED
    BY <2>1, <2>2, <2>3, <2>4 DEF Keeps
<1>10. CASE Start
  <2>1. PICK S \in RQ!Kept(file) : records' = RQ!Only(file, S)
    BY <1>10 DEF Start, RQ!Load
  <2>2. ~running /\ running' /\ batch' = batch /\ batch[j] = 0
    BY <1>1, <1>10 DEF Start, actorVars, StoppedInv, RQ!Empty
  <2>3. InQueue(j)' => InQueue(j)
    BY <2>1, <2>2 DEF InQueue, RQ!Kept, RQ!Only, RQ!Live
  <2> QED
    BY <1>10, <2>3 DEF Start, Keeps, Sent, actorVars, arrivalVars
<1>11. CASE \/ \E m \in Messages : Duplicate(m)
            \/ StartFails \/ UNCHANGED vars
  BY <1>2, <1>11
  DEF Duplicate, StartFails, vars, queueVars, actorVars, arrivalVars, fateVars
<1> QED
  BY <1>3, <1>4, <1>5, <1>6, <1>7, <1>8, <1>9, <1>10, <1>11 DEF Next

(* An acceptance takes one new item up and leaves the others where they are. *)
LEMMA BeginStep ==
    ASSUME IndInv, IndInv', OnceInv, NEW m \in Messages, NEW i \in Items,
           Accept(m, i) \/ AcceptFails(m, i)
    PROVE  /\ \A j \in Items : StatusOf(j) # "flight"
           /\ StatusOf(i) = "new"
           /\ StatusOf(i)' = "flight" \/ (StatusOf(i)' = "lost" /\ DiskFaults)
           /\ \A j \in Items \ {i} : StatusOf(j)' = StatusOf(j)
<1> USE NoneAssumption, SizesAssumption
<1>1. TypeOK /\ FreshInv
  BY DEF IndInv, TaskInv
<1>2. /\ running /\ running' = running /\ job["receiver"] = None /\ msgOf[i] = None
      /\ UNCHANGED <<records, file, expired, batch, high, dropped>>
  BY DEF Accept, AcceptFails, Free, queueVars, actorVars, arrivalVars, fateVars
<1>3. \A j \in Items : StatusOf(j) # "flight"
  BY <1>2, StatusNow
<1>4. StatusOf(i) = "new"
  BY <1>2, StatusNow
<1>5. msgOf'[i] = m /\ \A j \in Items \ {i} : msgOf'[j] = msgOf[j]
  BY <1>1 DEF Accept, AcceptFails, TypeOK
<1>6. /\ \A j \in Items \ {i} : job'["receiver"] # j
      /\ \A j \in Items \ {i} : j \in lost' <=> j \in lost
      /\ job'["receiver"] = i \/ (job'["receiver"] # i /\ i \in lost' /\ DiskFaults)
  BY <1>1, <1>2 DEF Accept, AcceptFails, TypeOK, Actors, actorVars, fateVars
<1>7. ~Sent(i)' /\ ~InQueue(i)'
  <2>1. ~Taken(i)
    BY <1>2 DEF OnceInv
  <2>2. high[i] = 0
    BY <1>1, <2>1 DEF Taken, TypeOK
  <2> QED
    BY <1>2, <2>1, <2>2 DEF Taken, Sent, InQueue
<1>8. StatusOf(i)' = "flight" \/ (StatusOf(i)' = "lost" /\ DiskFaults)
  BY <1>5, <1>6, <1>7, StatusNext
<1>9. ASSUME NEW j \in Items \ {i} PROVE StatusOf(j)' = StatusOf(j)
  BY <1>2, <1>5, <1>6 DEF StatusOf, Sent
<1> QED
  BY <1>3, <1>4, <1>8, <1>9

LEMMA ContractStep ==
    /\ IndInv /\ IndInv' /\ DiskInv /\ OnceInv
    /\ LostInv /\ LostInv' /\ Accounted /\ Accounted' /\ [Next]_vars
    => Contract!Next
<1> SUFFICES ASSUME IndInv, IndInv', DiskInv, OnceInv, LostInv, LostInv',
                    Accounted, Accounted', [Next]_vars
             PROVE  Contract!Next
  OBVIOUS
<1> DEFINE old == [j \in Items |-> StatusOf(j)]
           new == [j \in Items |-> StatusOf(j)']
<1>1. new \in [Items -> Contract!Status]
  BY NeverMissingNext
<1>2. ASSUME NEW m \in Messages, NEW i \in Items, Accept(m, i) \/ AcceptFails(m, i)
      PROVE  Contract!Begin(i)
  <2>1. /\ \A j \in Items : StatusOf(j) # "flight"
        /\ StatusOf(i) = "new"
        /\ StatusOf(i)' = "flight" \/ (StatusOf(i)' = "lost" /\ DiskFaults)
        /\ \A j \in Items \ {i} : StatusOf(j)' = StatusOf(j)
    BY <1>2, BeginStep
  <2>2. Contract!InFlight = {}
    BY <2>1 DEF Contract!InFlight
  <2>3. StatusOf(i)' \in {t \in Contract!Status : <<"new", t>> \in Contract!Allowed}
    BY <2>1 DEF Contract!Status, Contract!Allowed, Contract!Moves, Contract!FaultyMoves
  <2>4. new = [old EXCEPT ![i] = StatusOf(i)']
    BY <2>1
  <2> QED
    BY <2>1, <2>2, <2>3, <2>4 DEF Contract!Begin
<1>3. CASE ~ \E m \in Messages, i \in Items : Accept(m, i) \/ AcceptFails(m, i)
  <2>1. ASSUME NEW j \in Items PROVE Move(j)
    BY <1>3, KeepsStep, KeepsMoves
  <2> QED
    BY <1>1, <2>1 DEF Contract!Next, Contract!Advance, Move
<1> QED
  BY <1>2, <1>3 DEF Contract!Next

(* Every accepted message goes new - flight - sent, queued, dropped or lost  *)
(* and on from queued only as the contract lets it, one at a time in flight, *)
(* over all stops, crashes and restarts (delivery.py, runtime.py).           *)
THEOREM PipelineKeepsContract == Spec => KeepsContract
<1>1. Init => Contract!Init
  <2> SUFFICES ASSUME Init PROVE [j \in Items |-> StatusOf(j)] = [j \in Items |-> "new"]
    BY DEF Contract!Init
  <2> QED
    BY StatusNow DEF Init
<1>2. /\ IndInv /\ IndInv' /\ DiskInv /\ OnceInv
      /\ LostInv /\ LostInv' /\ Accounted /\ Accounted' /\ [Next]_vars
      => Contract!Next
  BY ContractStep
<1> QED
  BY <1>1, <1>2, InvariantHolds, DiskInvHolds, OnceInvHolds, LostInvHolds,
     AlwaysAccounted, PTL DEF Spec, KeepsContract, Contract!Spec
====
