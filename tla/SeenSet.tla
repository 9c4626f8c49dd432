------------------------------- MODULE SeenSet -------------------------------
(***************************************************************************)
(* What persistence.DedupStore promises its callers, without the clock,    *)
(* the LRU order and the file format: a set of fingerprints that answers   *)
(* "seen before?" and remembers the question in the same step, together    *)
(* with the copy of it that the state file holds.  Entries may be          *)
(* forgotten (TTL, cache_size) inside any operation, never invented.       *)
(*                                                                         *)
(* DedupStore.tla is the detailed specification and implements this one;   *)
(* Delivery.tla uses the actions below for the pipeline's store.           *)
(***************************************************************************)
CONSTANTS
    Fingerprints,   \* keys a message can have
    DiskFaults      \* TRUE: _atomic_dump may raise OSError

VARIABLES
    seen,           \* keys of DedupStore._entries, in memory
    stable          \* keys the state file holds

vars == <<seen, stable>>

TypeOK ==
    /\ seen \subseteq Fingerprints
    /\ stable \subseteq Fingerprints

Init ==
    /\ seen = {}
    /\ stable \in SUBSET Fingerprints

(* The outcomes of one _save_locked call. *)
SaveOutcomes == IF DiskFaults THEN BOOLEAN ELSE {TRUE}

Save(ok) == stable' = IF ok THEN seen' ELSE stable

(* check_and_add of a key that survives the prune: a duplicate. *)
Recall(f, ok) ==
    \E kept \in SUBSET seen :
        /\ f \in kept
        /\ seen' = kept
        /\ Save(ok)

(* check_and_add of a key that is not there after the prune: it is inserted, *)
(* which may push others out of the cache.                                   *)
Remember(f, ok) ==
    \E kept \in SUBSET (seen \ {f}) :
        /\ seen' = kept \cup {f}
        /\ Save(ok)

(* contains: prunes in memory only. *)
Lookup ==
    /\ seen' \in SUBSET seen
    /\ UNCHANGED stable

(* check_and_add when nothing is kept (cache_size = 0, blank key), save(), clear(). *)
Flush(ok) ==
    /\ seen' \in SUBSET seen
    /\ Save(ok)

(* load() of a new process: entries come from the file, the file is rewritten. *)
Load(ok) ==
    /\ seen' \in SUBSET stable
    /\ Save(ok)

(* The process ends, or the runtime drops the store object. *)
Discard ==
    /\ seen' = {}
    /\ UNCHANGED stable

(* The file is lost or damaged between two runs. *)
LoseFile ==
    /\ stable' = {}
    /\ UNCHANGED seen

Next ==
    \/ \E ok \in SaveOutcomes :
          \/ \E f \in Fingerprints : Recall(f, ok) \/ Remember(f, ok)
          \/ Flush(ok)
          \/ Load(ok)
    \/ Lookup
    \/ Discard
    \/ LoseFile

Spec == Init /\ [][Next]_vars
=============================================================================
