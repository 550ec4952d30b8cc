--------------------------- MODULE CombineMeaning ---------------------------
(***************************************************************************)
(* What the engine makes of a context of the workflow's own for a combine, *)
(* and what the combine's handler must get from it (combine.go:8-22).      *)
(***************************************************************************)
EXTENDS Combine, Call

(* The key each name of results is staged under. *)
ScratchKey(arms, collect, name) == IF arms # {} THEN Arm(name) ELSE Collected(collect)

(* The task of a combine of arms, or of what collect names, of which results
   has the results by name.  A collection comes with the steps that made it. *)
TaskFor(own, results, arms, collect) ==
  LET keys  == {ScratchKey(arms, collect, n) : n \in DOMAIN results}
      steps == IF collect = NoCollection THEN {} ELSE {StepsOf(collect)}
  IN  CombineTask(
        [k \in DOMAIN own \cup keys \cup steps |->
           IF k \in keys THEN results[k[3]] ELSE IF k \in steps THEN "steps" ELSE own[k]],
        arms, collect)

(* Such a task is one the engine makes: the workflow's own context has plain
   keys only, and there is a result for some of the arms or for the collection;
   a step that is no combine has none. *)
Staging(Name, own, results, arms, collect) ==
  /\ own = [k \in DOMAIN own |-> own[k]]
  /\ DOMAIN own \subseteq {Plain(n) : n \in Name}
  /\ results = [n \in DOMAIN results |-> results[n]]
  /\ DOMAIN results \subseteq Name
  /\ \/ arms # {} /\ collect = NoCollection /\ DOMAIN results \subseteq arms
     \/ /\ arms = {}
        /\ \/ collect \in {"forEach", "spawn"} \X Name /\ DOMAIN results \subseteq {collect[2]}
           \/ collect = NoCollection /\ DOMAIN results = {}

IsCombineTask(arms, collect) == arms # {} \/ collect # NoCollection

(* The names whose results the handler finds in its context. *)
InContext(results, collect) == IF collect[1] = "spawn" THEN {} ELSE DOMAIN results

(* The names the results go by in the handler's context, staged or not: those of
   the arms, or of the forEach.  Created branches have none. *)
ResultNames(arms, collect) ==
  IF arms # {} THEN arms ELSE IF collect[1] = "forEach" THEN {collect[2]} ELSE {}

(* An arm or forEach name is also a key of the workflow's own context. *)
Ambiguous(own, arms, collect) ==
  \E n \in ResultNames(arms, collect) : Plain(n) \in DOMAIN own

(* The handler gets every key of the workflow's own context untouched and each
   result it merges under its name, and nothing else: nothing staged is left
   behind and no result hides a key, so a combine whose result would is refused.
   None is refused without an ambiguous name, and a step that is no combine gets
   its context as it is. *)
SeesBoth(given, own, results, arms, collect) ==
  /\ given = Refused => IsCombineTask(arms, collect) /\ Ambiguous(own, arms, collect)
  /\ given.outcome = "combine" <=> IsCombineTask(arms, collect) /\ given # Refused
  /\ given.outcome = "combine" =>
       /\ given.base = own
       /\ given.results = results
       /\ DOMAIN given.ctx = DOMAIN own \cup {Plain(n) : n \in InContext(results, collect)}
       /\ \A k \in DOMAIN own : given.ctx[k] = own[k]
       /\ \A n \in InContext(results, collect) : given.ctx[Plain(n)] = results[n]
  /\ given.outcome = "step" => given.ctx = own
----------------------------------------------------------------------------
(* A call of a combine's handler, which gets what the worker makes of a task. *)

MergeInput(own, results, arms, collect) ==
  [of |-> "merge", own |-> own, results |-> results, arms |-> arms, collect |-> collect]

(* execute, before it calls the handler of a step. *)
HandOver ==
  /\ output = Nothing /\ input.of = "merge"
  /\ output' = [of |-> "merge",
                given |-> Unstage(TaskFor(input.own, input.results, input.arms, input.collect))]
  /\ UNCHANGED input

CombineSpec(Name) ==
  /\ input.of = "merge" /\ Staging(Name, input.own, input.results, input.arms, input.collect)
  /\ output = Nothing
  /\ [][HandOver]_<<input, output>>

(* A combine's handler gets each result it merges under its name, every key of
   the workflow's own context untouched, and nothing else.  It is refused what it
   could not tell apart, and nothing is refused without a name that is ambiguous
   (unstage). *)
CombineSeesBoth ==
  output.of = "merge" =>
    SeesBoth(output.given, input.own, input.results, input.arms, input.collect)

(* A combine fails when the name of one of its arms, or of its forEach, is also a
   key of the workflow's own context: what the comment on unstage says
   (combine.go:20-22).  The code looks at a name only when a result is staged for
   it (combine.go:34-37). *)
ClashesAreRefused ==
  output.of = "merge" =>
    (Ambiguous(input.own, input.arms, input.collect) => output.given = Refused)
=============================================================================
