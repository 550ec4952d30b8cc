--------------------------- MODULE MCFlowBuilder ---------------------------
(* Instances of FlowBuilder for TLC. *)
EXTENDS FlowBuilder
=============================================================================
