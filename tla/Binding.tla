------------------------------ MODULE Binding ------------------------------
(***************************************************************************)
(* How a worker binds handlers to the steps of one workflow, and which     *)
(* handler a dispatched task gets (worker.go:114-210, 264-359, 449-573;    *)
(* handlers.go:79-132, 245-419).  A program binds steps one by one with    *)
(* Handle and its siblings, or a struct of methods with RegisterHandler,   *)
(* and declares steps only created branches run with BranchSteps.  Start   *)
(* checks the bindings against the graph registered at the time.  A task   *)
(* of a graph's node gets what was bound; a task of a created branch,      *)
(* which is in no graph, is bound by name when it is dispatched.           *)
(*                                                                         *)
(* A step stands for its canonical name, a handler for the shape of its    *)
(* function, and a queue, a message or a result for nothing.               *)
(***************************************************************************)
EXTENDS Naturals, FiniteSets

CONSTANTS
  Step,       \* the names of steps
  MaxCalls,   \* bound: calls that bind handlers or declare branch steps
  MaxGraphs   \* bound: versions of the workflow registered after the first

ASSUME BindingAssumption ==
  IsFiniteSet(Step) /\ MaxCalls \in Nat \ {0} /\ MaxGraphs \in Nat

VARIABLES
  phase,         \* "setup" before a Start or after one that failed, "starting" from
                 \* the check of the claims to the match of the methods, or "running"
  claims,        \* Worker.claims: <<step, kind>>
  handlers,      \* Worker.handlers: activity -> the shape bound to it, or "none"
  itemHandlers,  \* Worker.itemHandlers: the steps bound to an item handler
  method,        \* Worker.handlerSets: step -> the shape of its method, or "none"
  undoMethod,    \* Worker.handlerSets: the steps with a Compensate method
  registered,    \* whether RegisterHandler was called
  branch,        \* Worker.branchSteps
  createdKinds,  \* Worker.createdKinds: activity -> kind, or "none"
  lazy,          \* Worker.lazy: activity -> shape, or "none"
  graph,         \* the graph the server has registered: step -> node, or "none"
  known,         \* the graph Start checked the claims against, until it fails or Stop
  seen,          \* the graph it then matched the methods against
  calls, graphs  \* what the bounds count

bound == <<claims, handlers, itemHandlers, method, undoMethod, registered, branch>>
vars == <<phase, bound, createdKinds, lazy, graph, known, seen, calls, graphs>>

\* The forward activity of a step and its undo ("...#compensate").
Activity == Step \X {"do", "undo"}
Do(s) == <<s, "do">>
Undo(s) == <<s, "undo">>

\* What kind of step a handler's shape serves.
Kind == {"TASK", "PREDICATE", "COMBINE", "COMPENSATE"}
Shape == Kind \cup {"ITEM"}

\* What a method of a RegisterHandler struct can be: an Activity, a side effect,
\* a predicate or an item activity.
Method == {"activity", "effect", "gate", "item"}
KindOfMethod(m) == IF m = "gate" THEN "PREDICATE" ELSE "TASK"

\* A graph's node, as far as handlers go.  "item" is the body of a forEach, which
\* the checks of Start cannot tell from any other task.
Node == {"task", "compensable", "item", "gate", "combine"}
KindOfNode(n) == IF n = "gate" THEN "PREDICATE" ELSE "TASK"
Graph == [Step -> Node \cup {"none"}]
NoGraph == [s \in Step |-> "none"]

Init ==
  /\ phase = "setup"
  /\ claims = {}
  /\ handlers = [a \in Activity |-> "none"]
  /\ itemHandlers = {}
  /\ method = [s \in Step |-> "none"]
  /\ undoMethod = {}
  /\ registered = FALSE
  /\ branch = {}
  /\ createdKinds = [a \in Activity |-> "none"]
  /\ lazy = [a \in Activity |-> "none"]
  /\ graph \in Graph
  /\ known = NoGraph
  /\ seen = NoGraph
  /\ calls = 0
  /\ graphs = 0

-----------------------------------------------------------------------------
(* The calls of the program before it starts the worker.  A duplicate that   *)
(* the code notices panics, so it is no step.                                *)

Calls == phase = "setup" /\ calls < MaxCalls /\ calls' = calls + 1

\* Handle, HandleStep, HandleGate, HandleEffect, HandleCombine, HandleCombineStep
Handle(s, kind) ==
  /\ Calls
  /\ handlers[Do(s)] = "none"
  /\ handlers' = [handlers EXCEPT ![Do(s)] = kind]
  /\ claims' = claims \cup {<<s, kind>>}
  /\ UNCHANGED <<phase, itemHandlers, method, undoMethod, registered, branch,
                 createdKinds, lazy, graph, known, seen, graphs>>

HandleCompensation(s) ==
  /\ Calls
  /\ handlers[Undo(s)] = "none"
  /\ handlers' = [handlers EXCEPT ![Undo(s)] = "COMPENSATE"]
  /\ claims' = claims \cup {<<s, "COMPENSATE">>}
  /\ UNCHANGED <<phase, itemHandlers, method, undoMethod, registered, branch,
                 createdKinds, lazy, graph, known, seen, graphs>>

HandleItem(s) ==
  /\ Calls
  /\ s \notin itemHandlers
  /\ itemHandlers' = itemHandlers \cup {s}
  /\ claims' = claims \cup {<<s, "TASK">>}
  /\ UNCHANGED <<phase, handlers, method, undoMethod, registered, branch,
                 createdKinds, lazy, graph, known, seen, graphs>>

BranchSteps(s) ==
  /\ Calls
  /\ branch' = branch \cup {s}
  /\ UNCHANGED <<phase, claims, handlers, itemHandlers, method, undoMethod, registered,
                 createdKinds, lazy, graph, known, seen, graphs>>

\* A struct with at least one handler method or compensator.
RegisterHandler(methods, undos) ==
  /\ Calls
  /\ ~registered
  /\ undos # {} \/ \E s \in Step : methods[s] # "none"
  /\ registered' = TRUE
  /\ method' = methods
  /\ undoMethod' = undos
  /\ UNCHANGED <<phase, claims, handlers, itemHandlers, branch, createdKinds, lazy,
                 graph, known, seen, graphs>>

\* The server's graph changes: a new version of the workflow is registered.
NewVersion(g) ==
  /\ graphs < MaxGraphs
  /\ g # graph
  /\ graph' = g
  /\ graphs' = graphs + 1
  /\ UNCHANGED <<phase, bound, createdKinds, lazy, known, seen, calls>>

-----------------------------------------------------------------------------
(* Start: reconcile and the binding of the handler struct *)

\* Mutant: the kind of a task claim's node is not compared.
ClaimFits_AnyKind(s, kind) ==
  CASE kind = "TASK"       -> graph[s] \notin {"none", "combine"}
    [] kind = "PREDICATE"  -> graph[s] = "gate"
    [] kind = "COMBINE"    -> graph[s] = "combine"
    [] kind = "COMPENSATE" -> graph[s] = "compensable"

\* reconcile: a claim of a branch step is not checked; any other must fit its
\* node, and a forward claim of a compensable step needs the undo's.
ClaimFits(s, kind) ==
  CASE kind = "TASK"       -> graph[s] \in {"task", "compensable", "item"}
    [] kind = "PREDICATE"  -> graph[s] = "gate"
    [] kind = "COMBINE"    -> graph[s] = "combine"
    [] kind = "COMPENSATE" -> graph[s] = "compensable"

BranchClaim(s) == graph[s] = "none" /\ s \in branch

\* Mutant: the pairing of a claim with its undo's is not checked.
ClaimsFit_Unpaired == \A c \in claims : BranchClaim(c[1]) \/ ClaimFits(c[1], c[2])

ClaimsFit ==
  /\ \A c \in claims : BranchClaim(c[1]) \/ ClaimFits(c[1], c[2])
  /\ \A c \in claims : c[2] = "TASK" /\ graph[c[1]] = "compensable"
       => <<c[1], "COMPENSATE">> \in claims

\* bindHandlerSet: which methods bind, to what, and whether all may.
MethodBinds == {s \in Step : method[s] # "none" /\ graph[s] # "none"}
UndoBinds == {s \in undoMethod : graph[s] # "none"}

ShapeBound(s) ==
  IF graph[s] = "combine" THEN "COMBINE" ELSE KindOfMethod(method[s])

MethodFits(s) ==
  /\ KindOfMethod(method[s]) = KindOfNode(graph[s])
  /\ method[s] = "effect" => graph[s] # "combine"
  /\ graph[s] = "compensable" => s \in undoMethod

MethodsFit ==
  /\ \A s \in Step : method[s] # "none" =>
       IF graph[s] = "none" THEN s \in branch ELSE MethodFits(s)
  /\ \A s \in undoMethod :
       IF graph[s] = "none" THEN s \in branch ELSE graph[s] = "compensable"

\* applyBindings fails at a binding whose activity has a handler already.
NothingTwice ==
  /\ \A s \in MethodBinds : handlers[Do(s)] = "none"
  /\ \A s \in UndoBinds : handlers[Undo(s)] = "none"

\* Mutants: a method is installed without the wrapper of its kind; the registry
\* is rebuilt from the struct, and what Handle had bound is lost.
Install_Unwrapped(methods, undos) ==
  /\ handlers' = [a \in Activity |->
       IF a[2] = "do" /\ a[1] \in methods /\ method[a[1]] # "item" THEN method[a[1]]
       ELSE IF a[2] = "undo" /\ a[1] \in undos THEN "COMPENSATE" ELSE handlers[a]]
  /\ itemHandlers' = itemHandlers \cup {s \in methods : method[s] = "item"}
Install_Rebuilds(methods, undos) ==
  /\ handlers' = [a \in Activity |->
       IF a[2] = "do" /\ a[1] \in methods /\ method[a[1]] # "item" THEN ShapeBound(a[1])
       ELSE IF a[2] = "undo" /\ a[1] \in undos THEN "COMPENSATE" ELSE "none"]
  /\ itemHandlers' = itemHandlers \cup {s \in methods : method[s] = "item"}

\* The bindings of the given methods and compensators are installed.
Install(methods, undos) ==
  /\ handlers' = [a \in Activity |->
       IF a[2] = "do" /\ a[1] \in methods /\ method[a[1]] # "item" THEN ShapeBound(a[1])
       ELSE IF a[2] = "undo" /\ a[1] \in undos THEN "COMPENSATE" ELSE handlers[a]]
  /\ itemHandlers' = itemHandlers \cup {s \in methods : method[s] = "item"}

\* The claims of branch steps leave their kind behind for the dispatch.  (Of two
\* kinds noted for one activity one is HandleItem's, and then none is looked up.)
NoteCreatedKinds(noted) ==
  createdKinds' = [a \in Activity |->
    LET kinds == {c[2] : c \in {d \in noted : d[1] = a[1] /\ BranchClaim(d[1])
                                   /\ (d[2] = "COMPENSATE" <=> a[2] = "undo")}}
    IN IF kinds = {} THEN createdKinds[a] ELSE CHOOSE k \in kinds : TRUE]

\* reconcile fetches the graph and checks the claims against it.
StartChecksClaims ==
  /\ phase = "setup" /\ ClaimsFit
  /\ NoteCreatedKinds(claims)
  /\ phase' = "starting"
  /\ known' = graph
  /\ UNCHANGED <<bound, lazy, graph, seen, calls, graphs>>

\* An error: some of the kinds are noted already, and stay.
StartRefusesClaims ==
  /\ phase = "setup" /\ ~ClaimsFit
  /\ \E noted \in SUBSET claims : NoteCreatedKinds(noted)
  /\ UNCHANGED <<phase, bound, lazy, graph, known, seen, calls, graphs>>

\* matchHandlerSet fetches the graph again, which may be another by now.
StartBindsMethods ==
  /\ phase = "starting" /\ MethodsFit /\ NothingTwice
  /\ Install(MethodBinds, UndoBinds)
  /\ phase' = "running"
  /\ seen' = IF registered THEN graph ELSE known
  /\ UNCHANGED <<claims, method, undoMethod, registered, branch, createdKinds, lazy, graph,
                 known, calls, graphs>>

\* An error: of the bindings those before the duplicate are installed, and stay.
StartRefusesMethods ==
  /\ phase = "starting" /\ ~(MethodsFit /\ NothingTwice)
  /\ IF MethodsFit
     THEN \E methods \in SUBSET {s \in MethodBinds : handlers[Do(s)] = "none"},
             undos \in SUBSET {s \in UndoBinds : handlers[Undo(s)] = "none"} :
            /\ undos # {} => methods = MethodBinds
            /\ Install(methods, undos)
     ELSE UNCHANGED <<handlers, itemHandlers>>
  /\ phase' = "setup"
  /\ known' = NoGraph
  /\ UNCHANGED <<claims, method, undoMethod, registered, branch, createdKinds, lazy, graph,
                 seen, calls, graphs>>

Stop ==
  /\ phase = "running"
  /\ phase' = "setup"
  /\ known' = NoGraph /\ seen' = NoGraph
  /\ UNCHANGED <<bound, createdKinds, lazy, graph, calls, graphs>>

-----------------------------------------------------------------------------
(* The dispatch of a task *)

\* A task: the step, what it runs as ("COMPENSATE" is the step's undo), whether
\* it is of a created branch, whether it comes with a base context (an item of a
\* forEach, or a step of a created branch), and whether its context is an object.
Task == [step : Step, as : Kind, created : BOOLEAN, item : BOOLEAN, object : BOOLEAN]

ActivityOf(t) == IF t.as = "COMPENSATE" THEN Undo(t.step) ELSE Do(t.step)

TasksOf(g) ==
  {t \in Task :
     /\ ~t.created
     /\ t.item <=> g[t.step] = "item"
     /\ ~t.item => t.object
     /\ CASE t.as = "TASK"       -> g[t.step] \in {"task", "compensable", "item"}
          [] t.as = "PREDICATE"  -> g[t.step] = "gate"
          [] t.as = "COMBINE"    -> g[t.step] = "combine"
          [] t.as = "COMPENSATE" -> g[t.step] = "compensable"}

\* Steps of created branches carry the base context; their undo does not.
CreatedTask ==
  {t \in Task : t.created /\ (t.item <=> t.as # "COMPENSATE") /\ (~t.item => t.object)}

\* bindCreated: the shape a method serves a created branch's task with, "none"
\* when no method implements it or the method's shape does not fit.
BindCreated(t) ==
  LET m == method[t.step]
  IN CASE t.as = "COMPENSATE" -> IF t.step \in undoMethod THEN "COMPENSATE" ELSE "none"
       [] t.as = "COMBINE"    -> IF m = "activity" THEN "COMBINE" ELSE "none"
       [] OTHER -> IF m \notin {"none", "item"} /\ KindOfMethod(m) = t.as THEN t.as ELSE "none"

HandlerFor(t) ==
  LET a == ActivityOf(t)
  IN CASE ~t.created -> handlers[a]
       [] t.created /\ handlers[a] # "none" ->
            IF createdKinds[a] \in {"none", t.as} THEN handlers[a] ELSE "none"
       [] t.created /\ handlers[a] = "none" /\ lazy[a] # "none" -> lazy[a]
       [] OTHER -> BindCreated(t)

\* execute: the shape of the handler that runs the task, or "none" when the task
\* is refused with a failure.
BoundAsItem(t) == t.as # "COMPENSATE" /\ t.step \in itemHandlers
ToItemHandler(t) == t.item /\ (BoundAsItem(t) \/ ~t.created)
Runs(t) ==
  CASE ToItemHandler(t)                    -> IF BoundAsItem(t) THEN "ITEM" ELSE "none"
    [] ~ToItemHandler(t) /\ BoundAsItem(t) -> "none"
    [] OTHER -> IF t.item /\ ~t.object THEN "none" ELSE HandlerFor(t)

\* A created branch's step is bound on its first dispatch, and stays bound.
Dispatch(t) ==
  LET a == ActivityOf(t)
      late == /\ t.created /\ ~BoundAsItem(t)
              /\ handlers[a] = "none" /\ lazy[a] = "none"
  IN /\ phase = "running"
     /\ lazy' = IF late THEN [lazy EXCEPT ![a] = BindCreated(t)] ELSE lazy
     /\ UNCHANGED <<phase, bound, createdKinds, graph, known, seen, calls, graphs>>

Next ==
  \/ \E s \in Step :
        \/ \E kind \in Kind \ {"COMPENSATE"} : Handle(s, kind)
        \/ HandleCompensation(s) \/ HandleItem(s) \/ BranchSteps(s)
  \/ \E methods \in [Step -> Method \cup {"none"}], undos \in SUBSET Step :
        RegisterHandler(methods, undos)
  \/ \E g \in Graph : NewVersion(g)
  \/ StartChecksClaims \/ StartRefusesClaims \/ StartBindsMethods \/ StartRefusesMethods \/ Stop
  \/ \E t \in TasksOf(known) \cup TasksOf(seen) \cup TasksOf(graph) \cup CreatedTask : Dispatch(t)

Spec == Init /\ [][Next]_vars

-----------------------------------------------------------------------------
(* Type invariant: every variable of Binding holds a value of its kind. *)
TypeOK ==
  /\ phase \in {"setup", "starting", "running"}
  /\ claims \subseteq Step \X Kind
  /\ handlers \in [Activity -> Kind \cup {"none"}]
  /\ itemHandlers \subseteq Step
  /\ method \in [Step -> Method \cup {"none"}]
  /\ undoMethod \subseteq Step
  /\ registered \in BOOLEAN
  /\ branch \subseteq Step
  /\ createdKinds \in [Activity -> Kind \cup {"none"}]
  /\ lazy \in [Activity -> Kind \cup {"none"}]
  /\ graph \in Graph /\ known \in Graph /\ seen \in Graph
  /\ calls \in 0..MaxCalls /\ graphs \in 0..MaxGraphs

\* Whether a handler of this shape can serve this task.
Fits(shape, t) == IF shape = "ITEM" THEN t.item /\ t.as = "TASK" ELSE shape = t.as

\* Is the activity one a Handle call bound, rather than a method?
Claimed(a) == \E c \in claims : c[1] = a[1] /\ (c[2] = "COMPENSATE" <=> a[2] = "undo")

\* The graph Start looked at when it bound the activity: what it vouches for.
GraphOf(a) == IF Claimed(a) THEN known ELSE seen
Vouched == {t \in TasksOf(known) \cup TasksOf(seen) : t \in TasksOf(GraphOf(ActivityOf(t)))}

(* Start checks kinds so that dispatch need not (worker.go:264-265,          *)
(* 533): while the worker runs, a task that Start vouches for gets a handler *)
(* of its own kind, or none, even when the workflow changed within Start;    *)
(* and so does a created branch's task when it is the first of its activity  *)
(* to be dispatched and no Handle call bound it (worker.go:529).             *)
TasksFit ==
  phase = "running" =>
    /\ \A t \in Vouched : Runs(t) = "none" \/ Fits(Runs(t), t)
    /\ \A t \in CreatedTask :
         handlers[ActivityOf(t)] = "none" /\ lazy[ActivityOf(t)] = "none" /\ ~BoundAsItem(t)
           => Runs(t) = "none" \/ Fits(Runs(t), t)

(* A worker that started runs what it claimed (worker.go:114-115): a task    *)
(* of the graph it checked is not refused for want of a handler, unless the  *)
(* step is bound as an item and is none, or the reverse.                     *)
ServesWhatItClaims ==
  phase = "running" =>
    \A t \in TasksOf(known) :
      <<t.step, t.as>> \in claims /\ (BoundAsItem(t) <=> t.item) => Runs(t) # "none"

(* "Start refuses a worker that serves a compensable step's forward handler  *)
(* without also binding its compensator" (worker.go:157-159): one that runs  *)
(* serves the undo of every compensable step it serves, in the graph it      *)
(* looked at when it bound the step.                                         *)
UndoIsServed ==
  phase = "running" =>
    \A s \in Step :
      /\ handlers[Do(s)] # "none" \/ s \in itemHandlers
      /\ GraphOf(Do(s))[s] = "compensable"
      => handlers[Undo(s)] = "COMPENSATE"
=============================================================================
