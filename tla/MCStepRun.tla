----------------------------- MODULE MCStepRun -----------------------------
(* Instances of StepRun for TLC. *)
EXTENDS StepRun
=============================================================================
