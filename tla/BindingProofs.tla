--------------------------- MODULE BindingProofs ---------------------------
(***************************************************************************)
(* Proofs about Binding, for any set of steps and any number of calls,     *)
(* Starts and versions of the workflow: what a worker that runs has bound  *)
(* fits the graph it was checked against, and serves it.                   *)
(***************************************************************************)
EXTENDS Binding, TLAPS

\* The kind of a claim that a node takes, and of the forward tasks it has.
ClaimFitsNode(kind, n) ==
  CASE kind = "TASK"       -> n \in {"task", "compensable", "item"}
    [] kind = "PREDICATE"  -> n = "gate"
    [] kind = "COMBINE"    -> n = "combine"
    [] kind = "COMPENSATE" -> n = "compensable"

ForwardKind(n) == IF n = "gate" THEN "PREDICATE" ELSE IF n = "combine" THEN "COMBINE" ELSE "TASK"

\* What is claimed is bound, whatever a Start that failed has left.
ClaimsBound ==
  \A s \in Step :
    /\ \A kind \in {"PREDICATE", "COMBINE"} : <<s, kind>> \in claims => handlers[Do(s)] = kind
    /\ <<s, "TASK">> \in claims => handlers[Do(s)] = "TASK" \/ s \in itemHandlers
    /\ <<s, "COMPENSATE">> \in claims => handlers[Undo(s)] = "COMPENSATE"

\* What is bound and was not claimed is a method's.
RestIsMethods ==
  \A s \in Step :
    /\ handlers[Undo(s)] \in {"none", "COMPENSATE"}
    /\ handlers[Do(s)] # "none" /\ ~Claimed(Do(s)) => method[s] # "none"
    /\ s \in itemHandlers => <<s, "TASK">> \in claims \/ method[s] # "none"
    /\ method[s] # "none" => registered

\* From the check of the claims on, they fit the graph they were checked against.
KnownFits ==
  phase \in {"starting", "running"} =>
    \A s \in Step : known[s] # "none" =>
      /\ \A kind \in Kind : <<s, kind>> \in claims => ClaimFitsNode(kind, known[s])
      /\ known[s] = "compensable" /\ <<s, "TASK">> \in claims => <<s, "COMPENSATE">> \in claims

\* While the worker runs, a method serves the node it was matched against.
SeenFits ==
  phase = "running" =>
    \A s \in Step : seen[s] # "none" /\ method[s] # "none" =>
      /\ handlers[Do(s)] # "none" /\ ~Claimed(Do(s)) => handlers[Do(s)] = ForwardKind(seen[s])
      /\ seen[s] = "compensable" => handlers[Undo(s)] = "COMPENSATE"

Inv == ClaimsBound /\ RestIsMethods /\ KnownFits /\ SeenFits

----------------------------------------------------------------------------
(* Types. *)

\* A method is installed as a handler of some kind.
LEMMA ShapeType == ASSUME NEW s \in Step PROVE ShapeBound(s) \in Kind
BY DEF ShapeBound, KindOfMethod, Kind

\* A created branch's task is bound to a handler of its own kind, or to none.
LEMMA BindCreatedType == ASSUME NEW t \in Task PROVE BindCreated(t) \in {"none", t.as} /\ t.as \in Kind
<1>1. t.as \in {"TASK", "PREDICATE", "COMBINE", "COMPENSATE"}
  BY DEF Task, Kind
<1> QED  BY <1>1 DEF BindCreated, Kind

\* Installing methods keeps the registry's types.
LEMMA InstallTypes ==
  ASSUME TypeOK, NEW methods \in SUBSET Step, NEW undos, Install(methods, undos)
  PROVE  handlers' \in [Activity -> Kind \cup {"none"}] /\ itemHandlers' \subseteq Step
<1>1. \A a \in Activity : a[1] \in methods => ShapeBound(a[1]) \in Kind
  BY ShapeType
<1>2. \A a \in Activity : handlers[a] \in Kind \cup {"none"}
  BY DEF TypeOK
<1>3. "COMPENSATE" \in Kind
  BY DEF Kind
<1> QED  BY <1>1, <1>2, <1>3 DEF Install, TypeOK

\* The kinds noted for created branches are kinds.
LEMMA NoteTypes ==
  ASSUME TypeOK, NEW noted \in SUBSET claims, NoteCreatedKinds(noted)
  PROVE  createdKinds' \in [Activity -> Kind \cup {"none"}]
<1> DEFINE kinds(a) == {c[2] : c \in {d \in noted : d[1] = a[1] /\ BranchClaim(d[1])
                                          /\ (d[2] = "COMPENSATE" <=> a[2] = "undo")}}
<1>1. createdKinds' = [a \in Activity |-> IF kinds(a) = {} THEN createdKinds[a] ELSE CHOOSE k \in kinds(a) : TRUE]
  BY DEF NoteCreatedKinds
<1>2. \A a \in Activity : kinds(a) \subseteq Kind
  BY DEF TypeOK
<1> HIDE DEF kinds
<1>3. \A a \in Activity : kinds(a) # {} => (CHOOSE k \in kinds(a) : TRUE) \in Kind
  BY <1>2
<1>4. \A a \in Activity : createdKinds[a] \in Kind \cup {"none"}
  BY DEF TypeOK
<1> QED  BY <1>1, <1>3, <1>4

\* Initially nothing is bound.
LEMMA InitTypes == Init => TypeOK
<1> SUFFICES ASSUME Init PROVE TypeOK
  OBVIOUS
<1>1. NoGraph \in Graph /\ 0 \in 0 .. MaxCalls /\ 0 \in 0 .. MaxGraphs
  BY BindingAssumption DEF NoGraph, Graph
<1>2. /\ [a \in Activity |-> "none"] \in [Activity -> Kind \cup {"none"}]
      /\ [s \in Step |-> "none"] \in [Step -> Method \cup {"none"}]
  OBVIOUS
<1> QED  BY <1>1, <1>2 DEF Init, TypeOK

\* Every call, every Start, every version and every dispatch keeps the types.
LEMMA NextTypes == TypeOK /\ [Next]_vars => TypeOK'
<1> SUFFICES ASSUME TypeOK, [Next]_vars PROVE TypeOK'
  OBVIOUS
<1> USE BindingAssumption
<1>0. ASSUME Calls PROVE calls' \in 0 .. MaxCalls
  BY <1>0 DEF Calls, TypeOK
<1>1. ASSUME NEW s \in Step, NEW kind \in Kind \ {"COMPENSATE"}, Handle(s, kind) PROVE TypeOK'
  BY <1>0, <1>1 DEF Handle, TypeOK, Activity, Do
<1>2. ASSUME NEW s \in Step, HandleCompensation(s) PROVE TypeOK'
  <2>1. "COMPENSATE" \in Kind
    BY DEF Kind
  <2> QED  BY <1>0, <1>2, <2>1 DEF HandleCompensation, TypeOK, Activity, Undo
<1>3. ASSUME NEW s \in Step, HandleItem(s) PROVE TypeOK'
  <2>1. "TASK" \in Kind
    BY DEF Kind
  <2> QED  BY <1>0, <1>3, <2>1 DEF HandleItem, TypeOK
<1>4. ASSUME NEW s \in Step, BranchSteps(s) PROVE TypeOK'
  BY <1>0, <1>4 DEF BranchSteps, TypeOK
<1>5. ASSUME NEW methods \in [Step -> Method \cup {"none"}], NEW undos \in SUBSET Step,
             RegisterHandler(methods, undos)
      PROVE  TypeOK'
  BY <1>0, <1>5 DEF RegisterHandler, TypeOK
<1>6. ASSUME NEW g \in Graph, NewVersion(g) PROVE TypeOK'
  BY <1>6 DEF NewVersion, TypeOK, bound
<1>7. CASE StartChecksClaims
  <2>1. createdKinds' \in [Activity -> Kind \cup {"none"}]
    BY <1>7, NoteTypes DEF StartChecksClaims
  <2> QED  BY <1>7, <2>1 DEF StartChecksClaims, TypeOK, bound
<1>8. CASE StartRefusesClaims
  <2>1. createdKinds' \in [Activity -> Kind \cup {"none"}]
    BY <1>8, NoteTypes DEF StartRefusesClaims
  <2> QED  BY <1>8, <2>1 DEF StartRefusesClaims, TypeOK, bound
<1>9. CASE StartBindsMethods
  <2>1. MethodBinds \in SUBSET Step
    BY DEF MethodBinds
  <2>2. handlers' \in [Activity -> Kind \cup {"none"}] /\ itemHandlers' \subseteq Step
    BY <1>9, <2>1, InstallTypes DEF StartBindsMethods
  <2> QED  BY <1>9, <2>2 DEF StartBindsMethods, TypeOK
<1>10. CASE StartRefusesMethods
  <2>1. handlers' \in [Activity -> Kind \cup {"none"}] /\ itemHandlers' \subseteq Step
    <3>1. CASE MethodsFit
      <4> PICK methods \in SUBSET {s \in MethodBinds : handlers[Do(s)] = "none"},
               undos \in SUBSET {s \in UndoBinds : handlers[Undo(s)] = "none"} : Install(methods, undos)
        BY <1>10, <3>1 DEF StartRefusesMethods
      <4>1. methods \in SUBSET Step
        BY DEF MethodBinds
      <4> QED  BY <4>1, InstallTypes
    <3>2. CASE ~MethodsFit
      BY <1>10, <3>2 DEF StartRefusesMethods, TypeOK
    <3> QED  BY <3>1, <3>2
  <2>2. NoGraph \in Graph
    BY DEF NoGraph, Graph
  <2> QED  BY <1>10, <2>1, <2>2 DEF StartRefusesMethods, TypeOK
<1>11. CASE Stop
  <2>1. NoGraph \in Graph
    BY DEF NoGraph, Graph
  <2> QED  BY <1>11, <2>1 DEF Stop, TypeOK, bound
<1>12. ASSUME NEW t \in Task, Dispatch(t) PROVE TypeOK'
  <2>1. BindCreated(t) \in Kind \cup {"none"}
    BY BindCreatedType
  <2>2. lazy' \in [Activity -> Kind \cup {"none"}]
    BY <1>12, <2>1 DEF Dispatch, TypeOK
  <2> QED  BY <1>12, <2>2 DEF Dispatch, TypeOK, bound
<1>13. CASE UNCHANGED vars
  BY <1>13 DEF TypeOK, vars, bound
<1> QED  BY <1>1, <1>2, <1>3, <1>4, <1>5, <1>6, <1>7, <1>8, <1>9, <1>10, <1>11, <1>12, <1>13
         DEF Next, TasksOf, CreatedTask

\* Every reachable state of Binding is well typed, whatever is bound and started.
THEOREM TypeCorrect == Spec => []TypeOK
BY InitTypes, NextTypes, PTL DEF Spec

----------------------------------------------------------------------------
(* The inductive invariant. *)

\* The activities of two steps, and of the two directions, are different ones.
LEMMA Activities ==
  ASSUME NEW s \in Step, NEW u \in Step
  PROVE  /\ Do(s) \in Activity /\ Undo(s) \in Activity /\ Do(s) # Undo(u)
         /\ Do(s) = Do(u) <=> s = u
         /\ Undo(s) = Undo(u) <=> s = u
         /\ Do(s)[1] = s /\ Do(s)[2] = "do" /\ Undo(s)[1] = s /\ Undo(s)[2] = "undo"
BY DEF Do, Undo, Activity

\* What it is to be claimed, in each direction.
LEMMA ClaimedIs ==
  ASSUME TypeOK, NEW s \in Step
  PROVE  /\ Claimed(Do(s)) <=> \E kind \in Kind \ {"COMPENSATE"} : <<s, kind>> \in claims
         /\ Claimed(Undo(s)) <=> <<s, "COMPENSATE">> \in claims
<1>1. claims \subseteq Step \X Kind
  BY DEF TypeOK
<1>2. Claimed(Do(s)) <=> \E c \in claims : c[1] = s /\ c[2] # "COMPENSATE"
  BY DEF Claimed, Do
<1>3. Claimed(Undo(s)) <=> \E c \in claims : c[1] = s /\ c[2] = "COMPENSATE"
  BY DEF Claimed, Undo
<1>4. \A c \in claims : c = <<c[1], c[2]>> /\ c[2] \in Kind
  BY <1>1
<1> QED  BY <1>2, <1>3, <1>4

\* Where methods are installed there was nothing: what is claimed stays bound.
LEMMA InstallKeeps ==
  ASSUME TypeOK, ClaimsBound, RestIsMethods,
         NEW methods \in SUBSET {s \in MethodBinds : handlers[Do(s)] = "none"},
         NEW undos \in SUBSET {s \in UndoBinds : handlers[Undo(s)] = "none"},
         Install(methods, undos), UNCHANGED <<claims, method, registered>>
  PROVE  ClaimsBound' /\ RestIsMethods'
<1>1. \A s \in Step : handlers'[Do(s)] =
        IF s \in methods /\ method[s] # "item" THEN ShapeBound(s) ELSE handlers[Do(s)]
  BY Activities DEF Install
<1>2. \A s \in Step : handlers'[Undo(s)] = IF s \in undos THEN "COMPENSATE" ELSE handlers[Undo(s)]
  BY Activities DEF Install
<1>3. itemHandlers' = itemHandlers \cup {s \in methods : method[s] = "item"}
  BY DEF Install
<1>4. \A s \in methods : handlers[Do(s)] = "none" /\ method[s] # "none"
  BY DEF MethodBinds
<1>5. ClaimsBound'
  <2> SUFFICES ASSUME NEW s \in Step
               PROVE  /\ \A kind \in {"PREDICATE", "COMBINE"} : <<s, kind>> \in claims => handlers'[Do(s)] = kind
                      /\ <<s, "TASK">> \in claims => handlers'[Do(s)] = "TASK" \/ s \in itemHandlers'
                      /\ <<s, "COMPENSATE">> \in claims => handlers'[Undo(s)] = "COMPENSATE"
    BY DEF ClaimsBound, Do, Undo
  <2>1. \A kind \in {"PREDICATE", "COMBINE"} : <<s, kind>> \in claims => handlers[Do(s)] = kind
    BY DEF ClaimsBound
  <2>2. <<s, "TASK">> \in claims => handlers[Do(s)] = "TASK" \/ s \in itemHandlers
    BY DEF ClaimsBound
  <2>3. <<s, "COMPENSATE">> \in claims => handlers[Undo(s)] = "COMPENSATE"
    BY DEF ClaimsBound
  <2> QED  BY <1>1, <1>2, <1>3, <1>4, <2>1, <2>2, <2>3
<1>6. RestIsMethods'
  <2>0. \A s \in Step : Claimed(Do(s))' <=> Claimed(Do(s))
    BY DEF Claimed, Do
  <2> SUFFICES ASSUME NEW s \in Step
               PROVE  /\ handlers'[Undo(s)] \in {"none", "COMPENSATE"}
                      /\ handlers'[Do(s)] # "none" /\ ~Claimed(Do(s)) => method[s] # "none"
                      /\ s \in itemHandlers' => <<s, "TASK">> \in claims \/ method[s] # "none"
                      /\ method[s] # "none" => registered
    BY <2>0 DEF RestIsMethods, Do, Undo
  <2> QED  BY <1>1, <1>2, <1>3, <1>4 DEF RestIsMethods
<1> QED  BY <1>5, <1>6

\* Nothing that was bound, claimed or matched changes.
Steady ==
  UNCHANGED <<phase, claims, handlers, itemHandlers, method, registered, known, seen>>

\* What changes neither bindings nor what they were checked against.
LEMMA SteadyKeeps == ASSUME Inv, Steady PROVE Inv'
BY DEF Inv, Steady, ClaimsBound, RestIsMethods, KnownFits, SeenFits, Claimed, Do, Undo

\* Outside of a Start that is under way, and while the worker does not run, what
\* was bound need not fit any graph.
LEMMA SetupKeeps ==
  ASSUME ClaimsBound', RestIsMethods', phase' = "setup"
  PROVE  Inv'
BY DEF Inv, KnownFits, SeenFits

\* Handle and its siblings bind what they claim, where nothing was bound.
LEMMA CallsKeep ==
  ASSUME TypeOK, Inv, NEW s \in Step,
         \/ \E kind \in Kind \ {"COMPENSATE"} : Handle(s, kind)
         \/ HandleCompensation(s) \/ HandleItem(s)
  PROVE  Inv'
<1>1. PICK k \in Kind : /\ claims' = claims \cup {<<s, k>>} /\ phase' = "setup"
                        /\ UNCHANGED <<method, registered>>
                        /\ \/ /\ k # "COMPENSATE" /\ handlers[Do(s)] = "none"
                              /\ handlers' = [handlers EXCEPT ![Do(s)] = k]
                              /\ itemHandlers' = itemHandlers
                           \/ /\ k = "COMPENSATE"
                              /\ handlers' = [handlers EXCEPT ![Undo(s)] = k]
                              /\ itemHandlers' = itemHandlers
                           \/ /\ k = "TASK"
                              /\ handlers' = handlers
                              /\ itemHandlers' = itemHandlers \cup {s}
  <2>1. "COMPENSATE" \in Kind /\ "TASK" \in Kind
    BY DEF Kind
  <2> QED  BY <2>1 DEF Handle, HandleCompensation, HandleItem, Calls
<1>2. \A u \in Step : /\ handlers'[Do(u)] # handlers[Do(u)] => u = s /\ k # "COMPENSATE" /\ handlers[Do(u)] = "none" /\ handlers'[Do(u)] = k
                      /\ handlers'[Undo(u)] # handlers[Undo(u)] => u = s /\ k = "COMPENSATE" /\ handlers'[Undo(u)] = k
                      /\ itemHandlers' # itemHandlers => k = "TASK" /\ itemHandlers' = itemHandlers \cup {s}
  BY <1>1, Activities DEF TypeOK
<1>3. /\ k = "COMPENSATE" => handlers'[Undo(s)] = k
      /\ k # "COMPENSATE" => handlers'[Do(s)] = k \/ (k = "TASK" /\ s \in itemHandlers')
  BY <1>1, Activities DEF TypeOK
<1>4. \A u \in Step : \A kind : <<u, kind>> \in claims' <=> <<u, kind>> \in claims \/ (u = s /\ kind = k)
  BY <1>1
<1>5. "none" \notin Kind
  BY DEF Kind
<1>6. ClaimsBound'
  <2> SUFFICES ASSUME NEW u \in Step
               PROVE  /\ \A kind \in {"PREDICATE", "COMBINE"} : <<u, kind>> \in claims' => handlers'[Do(u)] = kind
                      /\ <<u, "TASK">> \in claims' => handlers'[Do(u)] = "TASK" \/ u \in itemHandlers'
                      /\ <<u, "COMPENSATE">> \in claims' => handlers'[Undo(u)] = "COMPENSATE"
    BY DEF ClaimsBound, Do, Undo
  <2>1. /\ \A kind \in {"PREDICATE", "COMBINE"} : <<u, kind>> \in claims => handlers[Do(u)] = kind
        /\ <<u, "TASK">> \in claims => handlers[Do(u)] = "TASK" \/ u \in itemHandlers
        /\ <<u, "COMPENSATE">> \in claims => handlers[Undo(u)] = "COMPENSATE"
    BY DEF Inv, ClaimsBound
  <2>2. itemHandlers \subseteq itemHandlers'
    BY <1>1
  <2> QED  BY <1>2, <1>3, <1>4, <2>1, <2>2
<1>7. RestIsMethods'
  <2> SUFFICES ASSUME NEW u \in Step
               PROVE  /\ handlers'[Undo(u)] \in {"none", "COMPENSATE"}
                      /\ handlers'[Do(u)] # "none" /\ ~Claimed(Do(u))' => method'[u] # "none"
                      /\ u \in itemHandlers' => <<u, "TASK">> \in claims' \/ method'[u] # "none"
                      /\ method'[u] # "none" => registered'
    BY DEF RestIsMethods, Do, Undo
  <2>1. /\ handlers[Undo(u)] \in {"none", "COMPENSATE"}
        /\ handlers[Do(u)] # "none" /\ ~Claimed(Do(u)) => method[u] # "none"
        /\ u \in itemHandlers => <<u, "TASK">> \in claims \/ method[u] # "none"
        /\ method[u] # "none" => registered
    BY DEF Inv, RestIsMethods
  <2>2. Claimed(Do(u)) => Claimed(Do(u))'
    BY <1>1 DEF Claimed, Do
  <2>3. u = s /\ k # "COMPENSATE" => Claimed(Do(u))'
    <3> SUFFICES ASSUME u = s, k # "COMPENSATE" PROVE Claimed(Do(u))'
      OBVIOUS
    <3> PICK c : c = <<s, k>>
      OBVIOUS
    <3>1. c \in claims' /\ c[1] = s /\ c[2] = k
      BY <1>1
    <3>2. Do(u)[1] = s /\ Do(u)[2] = "do"
      BY DEF Do
    <3> QED  BY <3>1, <3>2 DEF Claimed, Do
  <2> QED  BY <1>1, <1>2, <1>4, <2>1, <2>2, <2>3
<1> QED  BY <1>1, <1>6, <1>7, SetupKeeps

\* The one struct of methods is registered while no method is bound.
LEMMA RegisterKeeps ==
  ASSUME TypeOK, Inv, NEW methods \in [Step -> Method \cup {"none"}], NEW undos \in SUBSET Step,
         RegisterHandler(methods, undos)
  PROVE  Inv'
<1>1. /\ ~registered /\ registered' = TRUE /\ phase' = "setup"
      /\ UNCHANGED <<claims, handlers, itemHandlers>>
  BY DEF RegisterHandler, Calls
<1>2. \A s \in Step : method[s] = "none"
  BY <1>1 DEF Inv, RestIsMethods
<1>3. ClaimsBound'
  BY <1>1 DEF Inv, ClaimsBound, Do, Undo
<1>4. RestIsMethods'
  BY <1>1, <1>2 DEF Inv, RestIsMethods, Claimed, Do, Undo
<1> QED  BY <1>1, <1>3, <1>4, SetupKeeps

\* A claim that fits its node fits it as the graph of Start, too.
LEMMA CheckedFits ==
  ASSUME TypeOK, ClaimsFit, NEW s \in Step, graph[s] # "none"
  PROVE  /\ \A kind \in Kind : <<s, kind>> \in claims => ClaimFitsNode(kind, graph[s])
         /\ graph[s] = "compensable" /\ <<s, "TASK">> \in claims => <<s, "COMPENSATE">> \in claims
<1>1. ASSUME NEW kind \in Kind, <<s, kind>> \in claims PROVE ClaimFitsNode(kind, graph[s])
  <2>1. ClaimFits(s, kind)
    <3>1. BranchClaim(<<s, kind>>[1]) \/ ClaimFits(<<s, kind>>[1], <<s, kind>>[2])
      BY <1>1 DEF ClaimsFit
    <3> QED  BY <3>1 DEF BranchClaim
  <2>2. kind \in {"TASK", "PREDICATE", "COMBINE", "COMPENSATE"}
    BY DEF Kind
  <2> QED  BY <2>1, <2>2 DEF ClaimFits, ClaimFitsNode
<1>2. ASSUME graph[s] = "compensable", <<s, "TASK">> \in claims PROVE <<s, "COMPENSATE">> \in claims
  <2>1. <<s, "TASK">>[2] = "TASK" /\ graph[<<s, "TASK">>[1]] = "compensable"
          => <<<<s, "TASK">>[1], "COMPENSATE">> \in claims
    BY <1>2 DEF ClaimsFit
  <2> QED  BY <1>2, <2>1
<1> QED  BY <1>1, <1>2

\* When all methods are installed each serves the node it was matched against.
LEMMA BindsKeeps == ASSUME TypeOK, Inv, StartBindsMethods PROVE Inv'
<1>1. /\ phase = "starting" /\ MethodsFit /\ NothingTwice /\ Install(MethodBinds, UndoBinds)
      /\ phase' = "running" /\ seen' = IF registered THEN graph ELSE known
      /\ UNCHANGED <<claims, method, undoMethod, registered, known>>
  BY DEF StartBindsMethods
<1>2. ClaimsBound' /\ RestIsMethods'
  <2>1. /\ MethodBinds \in SUBSET {s \in MethodBinds : handlers[Do(s)] = "none"}
        /\ UndoBinds \in SUBSET {s \in UndoBinds : handlers[Undo(s)] = "none"}
    BY <1>1 DEF NothingTwice
  <2> QED  BY <1>1, <2>1, InstallKeeps DEF Inv
<1>3. KnownFits'
  BY <1>1 DEF Inv, KnownFits
<1>4. \A s \in Step : Claimed(Do(s))' <=> Claimed(Do(s))
  BY <1>1 DEF Claimed, Do
<1>5. SeenFits'
  <2> SUFFICES ASSUME NEW s \in Step, seen'[s] # "none", method[s] # "none"
               PROVE  /\ handlers'[Do(s)] # "none" /\ ~Claimed(Do(s)) => handlers'[Do(s)] = ForwardKind(seen'[s])
                      /\ seen'[s] = "compensable" => handlers'[Undo(s)] = "COMPENSATE"
    BY <1>1, <1>4 DEF SeenFits, Do, Undo
  <2>1. seen' = graph
    BY <1>1 DEF Inv, RestIsMethods
  <2>2. s \in MethodBinds /\ MethodFits(s) /\ handlers[Do(s)] = "none"
    BY <1>1, <2>1 DEF MethodBinds, MethodsFit, NothingTwice
  <2>3. handlers'[Do(s)] = IF method[s] # "item" THEN ShapeBound(s) ELSE "none"
    BY <1>1, <2>2, Activities DEF Install
  <2>4. graph[s] \in Node
    BY <2>1 DEF TypeOK, Graph
  <2>5. ShapeBound(s) = ForwardKind(graph[s])
    BY <2>2, <2>4 DEF ShapeBound, ForwardKind, MethodFits, KindOfMethod, KindOfNode, Node
  <2>6. graph[s] = "compensable" => handlers'[Undo(s)] = "COMPENSATE"
    BY <1>1, <2>2, Activities DEF MethodFits, UndoBinds, Install
  <2> QED  BY <2>1, <2>3, <2>5, <2>6
<1> QED  BY <1>2, <1>3, <1>5 DEF Inv

\* A Start that fails half way leaves bindings behind, all of them methods'.
LEMMA RefusesKeeps == ASSUME TypeOK, Inv, StartRefusesMethods PROVE Inv'
<1>1. phase' = "setup" /\ UNCHANGED <<claims, method, registered>>
  BY DEF StartRefusesMethods
<1>2. CASE MethodsFit
  <2> PICK methods \in SUBSET {s \in MethodBinds : handlers[Do(s)] = "none"},
           undos \in SUBSET {s \in UndoBinds : handlers[Undo(s)] = "none"} : Install(methods, undos)
    BY <1>2 DEF StartRefusesMethods
  <2>1. ClaimsBound' /\ RestIsMethods'
    BY <1>1, InstallKeeps DEF Inv
  <2> QED  BY <1>1, <2>1, SetupKeeps
<1>3. CASE ~MethodsFit
  <2>1. UNCHANGED <<handlers, itemHandlers>>
    BY <1>3 DEF StartRefusesMethods
  <2>2. ClaimsBound' /\ RestIsMethods'
    BY <1>1, <2>1 DEF Inv, ClaimsBound, RestIsMethods, Claimed, Do, Undo
  <2> QED  BY <1>1, <2>2, SetupKeeps
<1> QED  BY <1>2, <1>3

\* Initially nothing is bound.
LEMMA InitInv == Init => Inv
<1> SUFFICES ASSUME Init PROVE Inv
  OBVIOUS
<1>1. /\ claims = {} /\ itemHandlers = {} /\ phase = "setup"
      /\ \A s \in Step : handlers[Do(s)] = "none" /\ handlers[Undo(s)] = "none" /\ method[s] = "none"
  BY Activities DEF Init
<1> QED  BY <1>1 DEF Inv, ClaimsBound, RestIsMethods, KnownFits, SeenFits

\* Every call, every Start, every version and every dispatch keeps the invariant.
LEMMA NextInv == TypeOK /\ Inv /\ [Next]_vars => Inv'
<1> SUFFICES ASSUME TypeOK, Inv, [Next]_vars PROVE Inv'
  OBVIOUS
<1>1. ASSUME NEW s \in Step,
             \/ \E kind \in Kind \ {"COMPENSATE"} : Handle(s, kind)
             \/ HandleCompensation(s) \/ HandleItem(s)
      PROVE  Inv'
  BY <1>1, CallsKeep
<1>2. ASSUME NEW methods \in [Step -> Method \cup {"none"}], NEW undos \in SUBSET Step,
             RegisterHandler(methods, undos)
      PROVE  Inv'
  BY <1>2, RegisterKeeps
<1>3. ASSUME \/ \E s \in Step : BranchSteps(s)
             \/ \E g \in Graph : NewVersion(g)
             \/ StartRefusesClaims
             \/ \E t \in Task : Dispatch(t)
             \/ UNCHANGED vars
      PROVE  Inv'
  <2>1. Steady
    BY <1>3 DEF BranchSteps, Calls, NewVersion, StartRefusesClaims, Dispatch, vars, bound, Steady
  <2> QED  BY <2>1, SteadyKeeps
<1>4. CASE StartChecksClaims
  <2>1. /\ phase' = "starting" /\ known' = graph /\ ClaimsFit
        /\ UNCHANGED <<claims, handlers, itemHandlers, method, registered>>
    BY <1>4 DEF StartChecksClaims, bound
  <2>2. KnownFits'
    BY <2>1, CheckedFits DEF KnownFits
  <2> QED  BY <2>1, <2>2 DEF Inv, ClaimsBound, RestIsMethods, SeenFits, Claimed, Do, Undo
<1>5. CASE StartBindsMethods
  BY <1>5, BindsKeeps
<1>6. CASE StartRefusesMethods
  BY <1>6, RefusesKeeps
<1>7. CASE Stop
  <2>1. phase' = "setup" /\ UNCHANGED <<claims, handlers, itemHandlers, method, registered>>
    BY <1>7 DEF Stop, bound
  <2>2. ClaimsBound' /\ RestIsMethods'
    BY <2>1 DEF Inv, ClaimsBound, RestIsMethods, Claimed, Do, Undo
  <2> QED  BY <2>1, <2>2, SetupKeeps
<1> QED  BY <1>1, <1>2, <1>3, <1>4, <1>5, <1>6, <1>7 DEF Next, TasksOf, CreatedTask

\* Whatever was bound, and however often Start failed or the workflow changed,
\* what is claimed is bound, what is bound otherwise is a method's, and both fit
\* the graph they were checked against.
THEOREM InvCorrect == Spec => []Inv
BY InitTypes, InitInv, NextTypes, NextInv, PTL DEF Spec

----------------------------------------------------------------------------
(* What a running worker does with a task. *)

\* What a task of a graph tells of its step.
LEMMA TaskOfGraph ==
  ASSUME NEW g \in Graph, NEW t \in TasksOf(g)
  PROVE  /\ t.step \in Step /\ ~t.created /\ g[t.step] # "none"
         /\ t.item <=> g[t.step] = "item"
         /\ ~t.item => t.object
         /\ t.as \in Kind
         /\ t.as # "COMPENSATE" => t.as = ForwardKind(g[t.step])
         /\ t.as = "COMPENSATE" => g[t.step] = "compensable"
         /\ ActivityOf(t) = IF t.as = "COMPENSATE" THEN Undo(t.step) ELSE Do(t.step)
<1>1. t \in Task /\ t.as \in {"TASK", "PREDICATE", "COMBINE", "COMPENSATE"}
  BY DEF TasksOf, Task, Kind
<1>2. t.step \in Step /\ t.as \in Kind
  BY <1>1 DEF Task
<1>3. /\ ~t.created /\ (t.item <=> g[t.step] = "item") /\ (~t.item => t.object)
      /\ CASE t.as = "TASK"       -> g[t.step] \in {"task", "compensable", "item"}
           [] t.as = "PREDICATE"  -> g[t.step] = "gate"
           [] t.as = "COMBINE"    -> g[t.step] = "combine"
           [] t.as = "COMPENSATE" -> g[t.step] = "compensable"
  BY DEF TasksOf
<1>4. /\ t.as = "TASK" => g[t.step] \in {"task", "compensable", "item"}
      /\ t.as = "PREDICATE" => g[t.step] = "gate"
      /\ t.as = "COMBINE" => g[t.step] = "combine"
      /\ t.as = "COMPENSATE" => g[t.step] = "compensable"
  BY <1>3
<1> QED  BY <1>1, <1>2, <1>3, <1>4 DEF ForwardKind, ActivityOf

\* A task of a graph runs what is bound to its activity, as an item or not.
LEMMA RunsIs ==
  ASSUME TypeOK, NEW g \in Graph, NEW t \in TasksOf(g)
  PROVE  Runs(t) = IF t.item THEN (IF BoundAsItem(t) THEN "ITEM" ELSE "none")
                   ELSE IF BoundAsItem(t) THEN "none" ELSE handlers[ActivityOf(t)]
<1>1. ~t.created /\ (~t.item => t.object)
  BY TaskOfGraph
<1>2. ToItemHandler(t) <=> t.item
  BY <1>1 DEF ToItemHandler
<1>3. HandlerFor(t) = handlers[ActivityOf(t)]
  BY <1>1 DEF HandlerFor
<1>4. CASE t.item
  BY <1>2, <1>4 DEF Runs
<1>5. CASE ~t.item /\ BoundAsItem(t)
  BY <1>2, <1>5 DEF Runs
<1>6. CASE ~t.item /\ ~BoundAsItem(t)
  BY <1>1, <1>2, <1>3, <1>6 DEF Runs
<1> QED  BY <1>4, <1>5, <1>6

\* Start checks kinds so that dispatch need not: a running worker gives a task
\* Start vouches for a handler of its own kind, or refuses it (worker.go,
\* reconcile, bindHandlerSet; execute).
THEOREM BoundFits == Spec => []TasksFit
<1>1. TypeOK /\ Inv => TasksFit
  <2> SUFFICES ASSUME TypeOK, Inv, phase = "running"
               PROVE  /\ \A t \in Vouched : Runs(t) = "none" \/ Fits(Runs(t), t)
                      /\ \A t \in CreatedTask :
                           handlers[ActivityOf(t)] = "none" /\ lazy[ActivityOf(t)] = "none" /\ ~BoundAsItem(t)
                             => Runs(t) = "none" \/ Fits(Runs(t), t)
    BY DEF TasksFit
  <2>1. ASSUME NEW t \in Vouched PROVE Runs(t) = "none" \/ Fits(Runs(t), t)
    <3> PICK s, a : s = t.step /\ a = ActivityOf(t)
      OBVIOUS
    <3> PICK g : g = GraphOf(a)
      OBVIOUS
    <3>1. g \in Graph /\ t \in TasksOf(g)
      BY DEF Vouched, GraphOf, TypeOK
    <3>2. /\ s \in Step /\ g[s] # "none" /\ (t.item <=> g[s] = "item") /\ t.as \in Kind
          /\ t.as # "COMPENSATE" => t.as = ForwardKind(g[s])
          /\ a = IF t.as = "COMPENSATE" THEN Undo(s) ELSE Do(s)
          /\ t.as = "COMPENSATE" => g[s] = "compensable"
      BY <3>1, TaskOfGraph
    <3>3. CASE t.item
      <4>1. t.as = "TASK"
        BY <3>2, <3>3 DEF ForwardKind
      <4> QED  BY <3>1, <3>3, <4>1, RunsIs DEF Fits
    <3>4. CASE ~t.item /\ BoundAsItem(t)
      BY <3>1, <3>4, RunsIs
    <3>5. CASE ~t.item /\ ~BoundAsItem(t)
      <4>1. Runs(t) = handlers[a]
        BY <3>1, <3>5, RunsIs
      <4>2. handlers[a] = "none" \/ handlers[a] = t.as
        <5>1. CASE t.as = "COMPENSATE"
          BY <3>2, <5>1 DEF Inv, RestIsMethods
        <5>2. CASE t.as # "COMPENSATE" /\ Claimed(a)
          <6>1. s \notin itemHandlers
            BY <3>5, <5>2 DEF BoundAsItem
          <6>2. g = known
            BY <5>2 DEF GraphOf
          <6>3. PICK kind \in Kind \ {"COMPENSATE"} : <<s, kind>> \in claims
            BY <3>2, <5>2, ClaimedIs
          <6>4. kind \in {"TASK", "PREDICATE", "COMBINE"}
            BY DEF Kind
          <6>5. handlers[a] = kind
            BY <3>2, <5>2, <6>1, <6>3, <6>4 DEF Inv, ClaimsBound
          <6>6. ClaimFitsNode(kind, g[s])
            BY <3>2, <6>2, <6>3 DEF Inv, KnownFits
          <6>7. kind = ForwardKind(g[s])
            BY <6>4, <6>6 DEF ClaimFitsNode, ForwardKind
          <6> QED  BY <3>2, <5>2, <6>5, <6>7
        <5>3. CASE t.as # "COMPENSATE" /\ ~Claimed(a)
          <6>1. g = seen
            BY <5>3 DEF GraphOf
          <6>2. handlers[a] # "none" => method[s] # "none"
            BY <3>2, <5>3 DEF Inv, RestIsMethods
          <6> QED  BY <3>2, <5>3, <6>1, <6>2 DEF Inv, SeenFits
        <5> QED  BY <5>1, <5>2, <5>3
      <4>3. t.as # "ITEM"
        BY <3>2 DEF Kind
      <4> QED  BY <4>1, <4>2, <4>3 DEF Fits
    <3> QED  BY <3>3, <3>4, <3>5
  <2>2. ASSUME NEW t \in CreatedTask,
               handlers[ActivityOf(t)] = "none", lazy[ActivityOf(t)] = "none", ~BoundAsItem(t)
        PROVE  Runs(t) = "none" \/ Fits(Runs(t), t)
    <3>1. t \in Task /\ t.created
      BY DEF CreatedTask
    <3>2. ~ToItemHandler(t)
      BY <2>2, <3>1 DEF ToItemHandler
    <3>3. HandlerFor(t) = BindCreated(t)
      BY <2>2, <3>1 DEF HandlerFor
    <3>4. BindCreated(t) \in {"none", t.as} /\ t.as # "ITEM"
      BY <3>1, BindCreatedType DEF Kind
    <3>5. Runs(t) = "none" \/ Runs(t) = BindCreated(t)
      BY <2>2, <3>2, <3>3 DEF Runs
    <3> QED  BY <3>4, <3>5 DEF Fits
  <2> QED  BY <2>1, <2>2
<1> QED  BY <1>1, TypeCorrect, InvCorrect, PTL

\* A worker that started has a handler for each task it claimed of the graph it
\* checked, bound as an item exactly when the task is one (worker.go, reconcile).
THEOREM ClaimsServed == Spec => []ServesWhatItClaims
<1>1. TypeOK /\ Inv => ServesWhatItClaims
  <2> SUFFICES ASSUME TypeOK, Inv, phase = "running", NEW t \in TasksOf(known),
                      <<t.step, t.as>> \in claims, BoundAsItem(t) <=> t.item
               PROVE  Runs(t) # "none"
    BY DEF ServesWhatItClaims
  <2>1. known \in Graph
    BY DEF TypeOK
  <2>2. CASE t.item
    BY <2>1, <2>2, RunsIs
  <2>3. CASE ~t.item
    <3>1. Runs(t) = handlers[ActivityOf(t)]
      BY <2>1, <2>3, RunsIs
    <3>2. /\ t.step \in Step /\ t.as \in {"TASK", "PREDICATE", "COMBINE", "COMPENSATE"}
          /\ ActivityOf(t) = IF t.as = "COMPENSATE" THEN Undo(t.step) ELSE Do(t.step)
      BY <2>1, TaskOfGraph DEF Kind
    <3>3. t.as # "COMPENSATE" => t.step \notin itemHandlers
      BY <2>3 DEF BoundAsItem
    <3>4. handlers[ActivityOf(t)] = t.as
      BY <3>2, <3>3 DEF Inv, ClaimsBound
    <3> QED  BY <3>1, <3>2, <3>4
  <2> QED  BY <2>2, <2>3
<1> QED  BY <1>1, TypeCorrect, InvCorrect, PTL

\* A running worker that serves a compensable step serves its undo, in the graph
\* it looked at when it bound the step (worker.go, reconcile, bindHandlerSet).
THEOREM UndoServed == Spec => []UndoIsServed
<1>1. TypeOK /\ Inv => UndoIsServed
  <2> SUFFICES ASSUME TypeOK, Inv, phase = "running", NEW s \in Step,
                      handlers[Do(s)] # "none" \/ s \in itemHandlers,
                      GraphOf(Do(s))[s] = "compensable"
               PROVE  handlers[Undo(s)] = "COMPENSATE"
    BY DEF UndoIsServed
  <2>1. CASE Claimed(Do(s))
    <3>1. known[s] = "compensable"
      BY <2>1 DEF GraphOf
    <3>2. PICK kind \in Kind \ {"COMPENSATE"} : <<s, kind>> \in claims
      BY <2>1, ClaimedIs
    <3>3. ClaimFitsNode(kind, "compensable") /\ kind \in {"TASK", "PREDICATE", "COMBINE"}
      BY <3>1, <3>2 DEF Inv, KnownFits, Kind
    <3>4. kind = "TASK"
      BY <3>3 DEF ClaimFitsNode
    <3>5. <<s, "COMPENSATE">> \in claims
      BY <3>1, <3>2, <3>4 DEF Inv, KnownFits
    <3> QED  BY <3>5 DEF Inv, ClaimsBound
  <2>2. CASE ~Claimed(Do(s))
    <3>1. seen[s] = "compensable"
      BY <2>2 DEF GraphOf
    <3>2. <<s, "TASK">> \notin claims
      <4>1. "TASK" \in Kind \ {"COMPENSATE"}
        BY DEF Kind
      <4> QED  BY <2>2, <4>1, ClaimedIs
    <3>3. method[s] # "none"
      BY <2>2, <3>2 DEF Inv, RestIsMethods
    <3> QED  BY <3>1, <3>3 DEF Inv, SeenFits
  <2> QED  BY <2>1, <2>2
<1> QED  BY <1>1, TypeCorrect, InvCorrect, PTL
=============================================================================
