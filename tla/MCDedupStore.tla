----------------------------- MODULE MCDedupStore -----------------------------
(* DedupStore for TLC: symmetry of the fingerprints. *)
EXTENDS DedupStore, TLC

MCSymmetry == Permutations(Fingerprints)
=============================================================================
