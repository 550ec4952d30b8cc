------------------------------ MODULE MCWorker ------------------------------
(* Instances of Worker for TLC. *)
EXTENDS Worker, TLC

\* Neither tasks nor workers are told apart by anything but their names.
MCSymmetry == Permutations(Task) \cup Permutations(Worker)
=============================================================================
