------------------------------- MODULE Ordering -------------------------------
(* Subsequences and sorted sequences, as SelectSeq and SortSeq give them, *)
(* defined by what they are and not by how they are computed.             *)
EXTENDS Naturals, Sequences, FiniteSets

(* The elements of the finite set R, one after another in the strict order L, *)
(* a set of pairs: the i-th is the one with i - 1 elements below it.          *)
Ascending(R, L) ==
    [i \in 1..Cardinality(R) |->
        CHOOSE x \in R : Cardinality({y \in R : <<y, x>> \in L}) = i - 1]

(* What s has at the positions in D, in the order of s. *)
Select(s, D) ==
    LET t == Ascending(D, {p \in D \X D : p[1] < p[2]})
    IN  [i \in 1..Cardinality(D) |-> s[t[i]]]
=============================================================================
