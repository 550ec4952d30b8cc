----------------------------- MODULE MCCombine -----------------------------
(***************************************************************************)
(* An instance of the combines for TLC: every small combine task is an     *)
(* initial state, and the worker hands it over in one step.                *)
(***************************************************************************)
EXTENDS CombineMeaning

(* Combine tasks: some of the arms or the collection have a result, next to
   every small context of the workflow's own. *)

PlainNames == {"a", "b", "c"}
Contexts == UNION {[K -> {"own"}] : K \in SUBSET {Plain(n) : n \in PlainNames}}
Results(of) == {[n \in staged |-> <<"result", n>>] : staged \in SUBSET of}

Collections == {"forEach", "spawn"} \X {"a", "b"}
RealMergeInputs ==
  {m \in {MergeInput(own, results, arms, collect) :
            own \in Contexts, results \in Results({"a", "b"}),
            arms \in SUBSET {"a", "b"}, collect \in Collections \cup {NoCollection}} :
     Staging(PlainNames, m.own, m.results, m.arms, m.collect)}

MergeInit == input \in RealMergeInputs /\ output = Nothing

ClashSpec == MergeInit /\ [][HandOver]_<<input, output>>
=============================================================================
