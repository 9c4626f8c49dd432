------------------------------ MODULE MCDelivery ------------------------------
(***************************************************************************)
(* Delivery for TLC: symmetry of the model values.                         *)
(***************************************************************************)
EXTENDS Delivery, TLC

MCSymmetry == Permutations(Messages) \cup Permutations(Items)
=============================================================================
