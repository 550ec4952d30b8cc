----------------------------- MODULE MCBinding -----------------------------
(* Instances of Binding for TLC. *)
EXTENDS Binding, TLC

MCSymmetry == Permutations(Step)
=============================================================================
