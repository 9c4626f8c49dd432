------------------------------ MODULE DedupStore ------------------------------
(***************************************************************************)
(* persistence.DedupStore: a bounded, time-limited memory of fingerprints  *)
(* with a JSON file behind it.  _entries is an OrderedDict from            *)
(* fingerprint to time, oldest use first; the file is replaced atomically, *)
(* so it holds one whole former state of _entries or is unreadable.        *)
(*                                                                         *)
(* The clock is time.time() in whole units, assumed not to be set back.    *)
(***************************************************************************)
EXTENDS Integers, Sequences, FiniteSets, Ordering

CONSTANTS
    Fingerprints,   \* keys that are not blank
    CacheSize,      \* dedup.cache_size
    TTL,            \* dedup.ttl_seconds
    DiskFaults,     \* TRUE: reading and writing the file may raise OSError
    MaxTime         \* bound on the clock

ASSUME StoreAssumption ==
    /\ CacheSize \in Nat /\ TTL \in Nat /\ MaxTime \in Nat
    /\ DiskFaults \in BOOLEAN

VARIABLES
    now,            \* time.time()
    up,             \* a process has loaded the store
    entries,        \* _entries: sequence of [fp, at], least recently used first
    file,           \* the state file: [kind, entries]
    (* history variables, read by properties only *)
    lastAdd,        \* time of the last check_and_add of a fingerprint, or Never
    since,          \* other fingerprints used after that
    excused,        \* fingerprints a fault or clear() made the store forget
    diverged        \* memory may hold other entries than the last good save

storeVars == <<entries, file>>
ghostVars == <<lastAdd, since, excused, diverged>>
vars == <<now, up, storeVars, ghostVars>>

Never == -1

Entry == [fp : Fingerprints, at : 0..MaxTime]
Keys(s) == {s[k].fp : k \in DOMAIN s}
Bounded(s) ==
    /\ Len(s) <= CacheSize
    /\ \A j, k \in DOMAIN s : s[j].fp = s[k].fp => j = k

TypeOK ==
    /\ now \in 0..MaxTime
    /\ up \in BOOLEAN
    /\ entries \in Seq(Entry) /\ Bounded(entries)
    /\ file.kind \in {"missing", "corrupt", "entries"}
    /\ file.entries \in Seq(Entry) /\ Bounded(file.entries)
    /\ lastAdd \in [Fingerprints -> {Never} \cup 0..MaxTime]
    /\ since \in [Fingerprints -> SUBSET Fingerprints]
    /\ excused \subseteq Fingerprints
    /\ diverged \in BOOLEAN

NoEntries == <<>>
Unreadable(kind) == [kind |-> kind, entries |-> NoEntries]

Init ==
    /\ now = 0
    /\ up = FALSE
    /\ entries = NoEntries
    /\ file = Unreadable("missing")
    /\ lastAdd = [f \in Fingerprints |-> Never]
    /\ since = [f \in Fingerprints |-> {}]
    /\ excused = {}
    /\ diverged = FALSE

-----------------------------------------------------------------------------
Expired(e) == TTL = 0 \/ now - e.at >= TTL

(* Mutants of Newest: no bound; the bound drops the wrong end. *)
Unbounded(s) == s
Oldest(s) == SubSeq(s, 1, IF Len(s) <= CacheSize THEN Len(s) ELSE CacheSize)

(* popitem(last=False) until cache_size entries are left. *)
Newest(s) == IF Len(s) <= CacheSize THEN s ELSE SubSeq(s, Len(s) - CacheSize + 1, Len(s))

Prune(s) == Newest(Select(s, {k \in DOMAIN s : ~Expired(s[k])}))

Without(s, f) == Select(s, {k \in DOMAIN s : s[k].fp # f})

EntryOf(s, f) == CHOOSE e \in {s[k] : k \in DOMAIN s} : e.fp = f

(* What check_and_add(f) answers. *)
Knows(f) == f \in Keys(Prune(entries))

SaveOutcomes == IF DiskFaults THEN BOOLEAN ELSE {TRUE}

(* Mutant of Save: the file gets the entries as they were before. *)
SaveTooEarly(ok) ==
    /\ file' = IF ok THEN [kind |-> "entries", entries |-> entries] ELSE file
    /\ diverged' = ~ok

Save(ok) ==
    /\ file' = IF ok THEN [kind |-> "entries", entries |-> entries'] ELSE file
    /\ diverged' = ~ok

(* f is used: everybody else has one more fingerprint used after it. *)
Used(f) == [g \in Fingerprints |-> IF g = f THEN since[g] ELSE since[g] \cup {f}]

(* check_and_add of a fingerprint: prune, move it to the end with the time *)
(* of now, save.  The answer is Knows(f).                                  *)
CheckAndAdd(f, ok) ==
    /\ up
    /\ entries' = Newest(Append(Without(Prune(entries), f), [fp |-> f, at |-> now]))
    /\ Save(ok)
    /\ lastAdd' = [lastAdd EXCEPT ![f] = now]
    /\ since' = [Used(f) EXCEPT ![f] = {}]
    /\ excused' = excused \ {f}
    /\ UNCHANGED <<now, up>>

(* A blank fingerprint is never a duplicate and never stored. *)
CheckAndAddBlank(ok) ==
    /\ up
    /\ UNCHANGED entries
    /\ Save(ok)
    /\ UNCHANGED <<now, up, lastAdd, since, excused>>

(* Mutant of Contains: looking a fingerprint up renews it. *)
ContainsRenews(f) ==
    LET kept == Prune(entries) IN
    /\ up
    /\ entries' = IF f \in Keys(kept)
                  THEN Append(Without(kept, f), [fp |-> f, at |-> now]) ELSE kept
    /\ since' = IF f \in Keys(kept) THEN Used(f) ELSE since
    /\ UNCHANGED <<now, up, file, lastAdd, excused, diverged>>

(* contains: prunes and refreshes the LRU order, but not the time, in memory. *)
Contains(f) ==
    LET kept == Prune(entries) IN
    /\ up
    /\ entries' = IF f \in Keys(kept)
                  THEN Append(Without(kept, f), EntryOf(kept, f)) ELSE kept
    /\ since' = IF f \in Keys(kept) THEN Used(f) ELSE since
    /\ UNCHANGED <<now, up, file, lastAdd, excused, diverged>>

(* save(). *)
SaveNow(ok) ==
    /\ up
    /\ entries' = Prune(entries)
    /\ Save(ok)
    /\ UNCHANGED <<now, up, lastAdd, since, excused>>

(* clear(). *)
Clear(ok) ==
    /\ up
    /\ entries' = NoEntries
    /\ Save(ok)
    /\ excused' = Fingerprints
    /\ UNCHANGED <<now, up, lastAdd, since>>

(* load() of a new store object.  Only a readable file is written back. *)
Load(ok) ==
    /\ ~up
    /\ up' = TRUE
    /\ entries' = Prune(file.entries)
    /\ IF file.kind = "entries" THEN Save(ok) ELSE UNCHANGED <<file, diverged>>
    /\ UNCHANGED <<now, lastAdd, since, excused>>

(* load() when reading raises OSError although the file is fine: the store *)
(* starts empty and the next save replaces the file.                       *)
LoadUnread ==
    /\ DiskFaults
    /\ ~up
    /\ up' = TRUE
    /\ entries' = NoEntries
    /\ excused' = Fingerprints
    /\ diverged' = TRUE
    /\ UNCHANGED <<now, file, lastAdd, since>>

(* The process ends or the runtime drops the object: nothing is written. *)
Stop ==
    /\ up
    /\ up' = FALSE
    /\ entries' = NoEntries
    /\ excused' = IF diverged THEN Fingerprints ELSE excused
    /\ diverged' = FALSE
    /\ UNCHANGED <<now, file, lastAdd, since>>

(* Somebody deletes or damages the file between two runs. *)
Damage(kind) ==
    /\ ~up
    /\ file.kind = "entries"
    /\ file' = Unreadable(kind)
    /\ excused' = Fingerprints
    /\ UNCHANGED <<now, up, entries, lastAdd, since, diverged>>

Tick ==
    /\ now < MaxTime
    /\ now' = now + 1
    /\ UNCHANGED <<up, storeVars, ghostVars>>

Next ==
    \/ \E ok \in SaveOutcomes :
          \/ \E f \in Fingerprints : CheckAndAdd(f, ok)
          \/ CheckAndAddBlank(ok) \/ SaveNow(ok) \/ Clear(ok) \/ Load(ok)
    \/ \E f \in Fingerprints : Contains(f)
    \/ LoadUnread
    \/ Stop
    \/ \E kind \in {"missing", "corrupt"} : Damage(kind)
    \/ Tick

Spec == Init /\ [][Next]_vars

-----------------------------------------------------------------------------
(* A message is rejected as a duplicate only if the same fingerprint was     *)
(* offered less than ttl_seconds ago, in this run of the process or in an    *)
(* earlier one.  Looking it up does not extend its life.                     *)
NoFalseDuplicate ==
    up => \A f \in Fingerprints :
        Knows(f) => lastAdd[f] # Never /\ now - lastAdd[f] < TTL

(* A repeated message is not let through: a fingerprint offered less than    *)
(* ttl_seconds ago is known as long as fewer than cache_size others were     *)
(* used since, also over restarts, unless a fault or clear() erased it.      *)
NoFalseAccept ==
    up => \A f \in Fingerprints \ excused :
        /\ lastAdd[f] # Never /\ now - lastAdd[f] < TTL
        /\ Cardinality(since[f]) < CacheSize
        => Knows(f)

(* The store implements the abstract set of fingerprints used by Delivery. *)
Seen == INSTANCE SeenSet WITH seen <- Keys(entries), stable <- Keys(file.entries)
RefinesSeenSet == Seen!Spec
=============================================================================
