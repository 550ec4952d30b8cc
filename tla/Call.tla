-------------------------------- MODULE Call --------------------------------
(***************************************************************************)
(* A call of one of the functions: the input is chosen, and the behaviour  *)
(* ends when the output is there.  A function computed in one step has one *)
(* action; the compiler has one for each thing it does to the graph.       *)
(***************************************************************************)

VARIABLES input,      \* what the function is called with
          output      \* what it returned, or nothing yet

Nothing == [of |-> "nothing"]
=============================================================================
