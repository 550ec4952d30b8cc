------------------------------ MODULE Combine ------------------------------
(***************************************************************************)
(* How a combine's activation is handed to its handler (unstage in         *)
(* combine.go).  The engine stages the results of a join in the context,   *)
(* under reserved keys, and unstage takes them out again.  A key is a      *)
(* triple <<prefix, prefix within, name>>; a context is a function from    *)
(* keys to values.                                                         *)
(***************************************************************************)
EXTENDS Sequences, FiniteSets, Functions

Plain(name)   == <<"", "", name>>
Arm(name)     == <<"arm", "", name>>
(* collect is what a combine collects: <<"forEach", name>> or <<"spawn", name>>. *)
Collected(collect) == <<collect[1], "", collect[2]>>
StepsOf(collect)   == <<"steps", collect[1], collect[2]>>

NoCollection == <<"none", "">>

(* A task as a poll hands it over: arms is set for a fork's combine only,
   collect for that of a forEach or of created branches. *)
CombineTask(ctx, arms, collect) == [ctx |-> ctx, arms |-> arms, collect |-> collect]
IsMerge(task) == task.arms # {} \/ task.collect # NoCollection

Without(ctx, keys) == Restrict(ctx, DOMAIN ctx \ keys)
Over(placed, base) ==
  [k \in DOMAIN base \cup {Plain(n) : n \in DOMAIN placed} |->
     IF k[3] \in DOMAIN placed /\ k = Plain(k[3]) THEN placed[k[3]] ELSE base[k]]

Refused == [outcome |-> "refused"]

(* The names with a staged result take their place in the context; a name that
   is a key of the context already refuses them all.  "scratch" has the key each
   name is staged under. *)

(* A mutant: a result silently takes the place of the key. *)
Place_Overwrites(base, scratch) ==
  LET rest   == Without(base, Range(scratch))
      placed == [n \in DOMAIN scratch |-> base[scratch[n]]]
  IN  [outcome |-> "combine", ctx |-> Over(placed, rest), base |-> rest, results |-> placed]

Place(base, scratch) ==
  LET rest   == Without(base, Range(scratch))
      placed == [n \in DOMAIN scratch |-> base[scratch[n]]]
  IN  IF \E n \in DOMAIN scratch : Plain(n) \in DOMAIN rest THEN Refused
      ELSE [outcome |-> "combine", ctx |-> Over(placed, rest), base |-> rest, results |-> placed]

(* What the handler gets: its context, the base without any result, and the
   results by name. *)
UnstageArms(task) ==
  Place(task.ctx, [a \in {n \in task.arms : Arm(n) \in DOMAIN task.ctx} |-> Arm(a)])

UnstageItems(task) ==
  LET key  == Collected(task.collect)
      base == Without(task.ctx, {StepsOf(task.collect)})
  IN  Place(base, [n \in {m \in {task.collect[2]} : key \in DOMAIN base} |-> key])

(* Created branches have no name in the context: their results are handed over
   only as results, and none are an empty list. *)
UnstageSpawned(task) ==
  LET key  == Collected(task.collect)
      base == Without(task.ctx, {key, StepsOf(task.collect)})
  IN  [outcome |-> "combine", ctx |-> base, base |-> base,
       results |-> [n \in {m \in {task.collect[2]} : key \in DOMAIN task.ctx} |-> task.ctx[key]]]

Unstage(task) ==
  IF ~IsMerge(task) THEN [outcome |-> "step", ctx |-> task.ctx]
  ELSE IF task.arms # {} THEN UnstageArms(task)
  ELSE IF task.collect[1] = "spawn" THEN UnstageSpawned(task)
  ELSE UnstageItems(task)
=============================================================================
