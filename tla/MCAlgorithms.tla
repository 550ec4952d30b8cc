---------------------------- MODULE MCAlgorithms ----------------------------
(***************************************************************************)
(* Instances of the pure functions for TLC: every small input is an        *)
(* initial state.  A flow is compiled step by step; the other functions    *)
(* are computed in the one step of a behaviour.                            *)
(***************************************************************************)
EXTENDS FlowMeaning, MCCombine, ControlPlaneMeaning, AnswersMeaning, TLC

CONSTANTS MaxSteps,   \* steps in a flow, those of its arms and bodies included
          MaxPlain,   \* a flow of at most so many steps has every kind of leaf
          MaxEvents   \* events in a run that is compared

vars == compileVars

----------------------------------------------------------------------------
(* The flows with a given number of steps.  A name is the step's place in the
   flow, NoName the empty place. *)

(* None, less than a millisecond, and one. *)
Timeouts == 0 .. Millisecond

Leaves(all) ==
  {[kind |-> "task", spawn |-> FALSE], [kind |-> "gate"]}
  \cup (IF all THEN {[kind |-> "task", spawn |-> TRUE], [kind |-> "sleep"], [kind |-> "sub"]}
                    \cup {[kind |-> "signal", timeout |-> t, escalation |-> <<>>] : t \in Timeouts}
        ELSE {})

(* An arm of ThenAllOf ends in a task or a gate. *)
IsArm(c) == c # <<>> /\ Last(c).kind \in {"task", "gate"}

(* The steps that hold n - 1 others; shapes[k + 1] are the chains of k steps. *)
Composites(n, all, shapes) ==
  LET C(k) == shapes[k + 1]
      Pairs == UNION {C(i) \X C(n - 1 - i) : i \in 0 .. n - 1}
  IN  {[kind |-> "signal", timeout |-> t, escalation |-> c] : t \in Timeouts, c \in C(n - 1) \ {<<>>}}
      \cup {[kind |-> "each", body |-> c] : c \in C(n - 1) \ {<<>>}}
      \cup {[kind |-> "loop", body |-> c, budget |-> k] :
              k \in IF all THEN {0, -1} ELSE {0}, c \in C(n - 1)}
      \cup {[kind |-> "choose", cases |-> <<[guarded |-> TRUE, then |-> c]>>] : c \in C(n - 1)}
      \cup {[kind |-> "choose", cases |-> <<[guarded |-> TRUE, then |-> p[1]],
                                            [guarded |-> g, then |-> p[2]]>>] :
              g \in BOOLEAN, p \in Pairs}
      \cup {[kind |-> "fork", arms |-> p] : p \in {q \in Pairs : IsArm(q[1]) /\ IsArm(q[2])}}

(* The chains of 0 to MaxSteps steps. *)
Shapes(all) ==
  LET Longer(shapes, n) ==
        Append(shapes, UNION {{<<h>> \o t :
          h \in (IF k = 1 THEN Leaves(all) ELSE {}) \cup Composites(k, all, shapes),
          t \in shapes[n - k + 1]} : k \in 1 .. n})
  IN  FoldLeft(Longer, <<{<<>>}>>, [n \in 1 .. (IF all THEN MaxPlain ELSE MaxSteps) |-> n])

PlainShapes == Shapes(TRUE)
DeepShapes  == Shapes(FALSE)

(* Parallel arms with loops, choices and gates inside them. *)
WideShapes ==
  LET Arms(k) == {a \in DeepShapes[k + 1] : IsArm(a)}
  IN  {<<[kind |-> "fork", arms |-> p]>> :
         p \in UNION {Arms(i) \X Arms(MaxSteps + 1 - i) : i \in 1 .. MaxSteps}}

Tuned(kind, name, queue, retry) == [kind |-> kind, name |-> name, queue |-> queue, retry |-> retry]

RECURSIVE Named(_, _, _)

(* A shape with its names; "clash" says which place takes the name of which
   other one. *)
Named(shape, place, clash) ==
  LET Name(p) == IF p = clash[1] THEN clash[2] ELSE p
      At(i, j) == place \o <<i, j>>
      Of(n, i) ==
        CASE n.kind = "task" -> Tuned("task", Name(At(i, 0)), Blank, Unset)
                                @@ [compensable |-> FALSE,
                                    combine |-> IF n.spawn THEN Name(At(i, 1)) ELSE NoName]
          [] n.kind = "gate" -> Tuned("gate", Name(At(i, 0)), Blank, Unset)
          [] n.kind = "sub" -> [kind |-> "sub", name |-> Name(At(i, 0)), flow |-> "flow"]
          [] n.kind = "signal" -> [n EXCEPT !.escalation = Named(@, At(i, 1), clash)]
                                  @@ [name |-> Name(At(i, 0))]
          [] n.kind = "fork" -> [kind |-> "fork", combine |-> Name(At(i, 0)),
                                 arms |-> [a \in 1 .. 2 |-> Named(n.arms[a], At(i, a), clash)]]
          [] n.kind = "each" -> [kind |-> "each", name |-> Name(At(i, 0)),
                                 combine |-> Name(At(i, 2)), body |-> Named(n.body, At(i, 1), clash)]
          [] n.kind = "choose" ->
               [kind |-> "choose",
                cases |-> [c \in DOMAIN n.cases |->
                  [when |-> IF n.cases[c].guarded THEN Name(At(i, -c)) ELSE NoName,
                   then |-> Named(n.cases[c].then, At(i, c), clash)]]]
          [] n.kind = "loop" -> [kind |-> "loop", while |-> Name(At(i, 0)), budget |-> n.budget,
                                 body |-> Named(n.body, At(i, 1), clash)]
          [] OTHER -> n
  IN  [i \in DOMAIN shape |-> Of(shape[i], i)]

NoClash == <<<<0>>, <<0>>>>

Flows ==
  {Named(s, <<>>, NoClash) :
     s \in UNION Range(PlainShapes) \cup UNION Range(DeepShapes) \cup WideShapes}

(* Flows of up to two steps in which one name is that of another place, or
   missing. *)
Clashing ==
  UNION {LET taken == Range(NamesOf(Named(s, <<>>, NoClash)))
         IN  {Named(s, <<>>, <<x, y>>) : x \in taken, y \in taken \cup {NoName}} :
         s \in UNION {PlainShapes[n] : n \in 1 .. 3}}

RECURSIVE StepsIn(_)

(* The steps of a chain, those inside its steps included. *)
StepsIn(chain) ==
  LET Inside(n) ==
        CASE n.kind = "signal" -> StepsIn(n.escalation)
          [] n.kind = "fork" -> UNION {StepsIn(a) : a \in Range(n.arms)}
          [] n.kind \in {"each", "loop"} -> StepsIn(n.body)
          [] n.kind = "choose" -> UNION {StepsIn(c.then) : c \in Range(n.cases)}
          [] OTHER -> {}
  IN  UNION {{n} \cup Inside(n) : n \in Range(chain)}

(* What the theorem on the compiled graph supposes of the steps. *)
ASSUME FlowsAreClosed == Closed(UNION {StepsIn(f) : f \in Flows \cup Clashing})

FlowInput(name, steps, attributes) ==
  [of |-> "flow", name |-> name, steps |-> steps, attributes |-> attributes]

Attributes == {[name |-> "a", valid |-> TRUE], [name |-> "b", valid |-> TRUE],
               [name |-> "b", valid |-> FALSE]}
OneTask == <<[kind |-> "task", name |-> <<1, 0>>, combine |-> NoName]>>

FlowInputs ==
  {FlowInput("flow", steps, <<>>) : steps \in Flows \cup Clashing}
  \cup {FlowInput(n, OneTask, a) : n \in {"flow", NoName}, a \in UNION {[1 .. n -> Attributes] : n \in 0 .. MaxAttributes + 1}}

----------------------------------------------------------------------------
(* Predicates: every comparison on its own, and trees of a good and a bad one
   up to a level below the limit. *)

Values == {"text", "longtext", "int", "int64", "float", "baddecimal", "bool"}
Fields == {"workflow", "step", "version", "attr", "badattr"}
Comparisons ==
  {Compare(f, op, vs) : f \in Fields, op \in Ops \cup {"OTHER"},
                        vs \in UNION {[1 .. n -> Values] : n \in 0 .. 3}}
  \cup {[is |-> "cmp", field |-> "attr", op |-> "EQUAL", args |-> <<l>>] : l \in {"int", "float"}}

GoodOne == Compare("version", "LESS_THAN", <<"int">>)
Atoms == {GoodOne, Compare("version", "LIKE", <<"text">>), [is |-> "nil"]}

Grown(T, few) ==
  Atoms \cup {[is |-> "not", term |-> t] : t \in T}
        \cup {[is |-> j, terms |-> ts] : j \in {"all", "any"}, ts \in {<<>>} \cup {<<t>> : t \in T}
                                                                  \cup (T \X few) \cup (few \X T)}

Trees == Grown(Grown(Grown(Atoms, Atoms), Atoms), {GoodOne})

CriteriaInputs ==
  {[of |-> "criteria", queue |-> "q", where |-> p] : p \in Comparisons \cup Trees}
  \cup {[of |-> "criteria", queue |-> q, where |-> p] : q \in BlankQueues \cup {"q"}, p \in Atoms}

----------------------------------------------------------------------------
(* Calls of the control plane, and its answers. *)

RECURSIVE Recordable(_)

(* A CreatedBranch takes every step but a forEach, and refuses what Flow does. *)
Recordable(chain) ==
  \A i \in DOMAIN chain :
    LET n == chain[i] IN
    CASE n.kind = "each"   -> FALSE
      [] n.kind = "signal" -> (n.escalation # <<>> => n.timeout > 0) /\ Recordable(n.escalation)
      [] n.kind = "fork"   -> \A a \in DOMAIN n.arms : Recordable(n.arms[a])
      [] n.kind = "choose" -> \A c \in DOMAIN n.cases : Recordable(n.cases[c].then)
      [] n.kind = "loop"   -> n.body # <<>> /\ n.budget >= 0 /\ Recordable(n.body)
      [] OTHER -> TRUE

Tunings(kind) == {Tuned(kind, "n", q, r) : q \in {Blank, "q"}, r \in {Unset, "policy"}}
TunedSteps ==
  {<<t @@ [compensable |-> c, combine |-> NoName]>> : t \in Tunings("task"), c \in BOOLEAN}
  \cup {<<t>> : t \in Tunings("gate")}

Chains == TunedSteps \cup {c \in {Named(s, <<>>, NoClash) : s \in PlainShapes[2] \cup PlainShapes[3] \cup DeepShapes[4]} :
                       Recordable(c)}

Outs(shape) ==
  CASE shape = "gate" -> {"true", "false"} [] shape = "effect" -> {"nil"}
    [] shape = "item" -> {"nil", "nilmap", "empty", "object", "list", "text", "bytes", "int",
                          "float", "true", "false", "broken"}
    [] OTHER -> {"nilmap", "empty", "object", "broken"}

Report(kind, shape, out, emits, creates) ==
  [op |-> "report", kind |-> kind, shape |-> shape, out |-> out, emits |-> emits, creates |-> creates]

Created(chains) ==
  {[input |-> i, key |-> k, chain |-> c] : i \in {"nil", "nilmap", "object", "int", "broken"}, k \in {Blank, "k"},
                                           c \in chains}

(* A handler may meet either kind of step: after Start a step of the graph may
   have changed its kind in a later version (handlerFor, worker.go:531-533). *)
ReportCalls ==
  {Report("TASK", "task", "object", <<>>, <<[input |-> "object", key |-> Blank, chain |-> c]>>) : c \in Chains}
  \cup {Report("TASK", "combine", "nilmap", <<"object">>, <<b, c>>) : b, c \in Created(TunedSteps)}
  \cup UNION {{Report(kind, shape, out, emits, <<>>) :
                 kind \in {"TASK", "PREDICATE"},
                 out \in Outs(shape),
                 emits \in UNION {[1 .. n -> {"empty", "object", "broken"}] : n \in 0 .. 2}} :
              shape \in {"task", "combine", "effect", "gate", "item"}}

Wheres == {[is |-> "nil"], Compare("workflow", "EQUAL", <<"text">>),
           [is |-> "not", term |-> Compare("attr", "IN", <<"int", "float">>)]}
Workers ==
  [explicitQueues : {Unset} \cup SUBSET {"p", "q"}, queues : SUBSET {"p", "q"},
   criteria : UNION {[1 .. n -> [queue : {"p", "q"}, where : Wheres]] : n \in 0 .. 2}]

StartOptions == {<<"version", v>> : v \in 0 .. 2}
                \cup {<<"correlation", c>> : c \in {"id", "other", Blank}}

Calls ==
  ReportCalls
  \cup {[op |-> "poll", worker |-> w] : w \in Workers}
  \cup {[op |-> "start", workflow |-> "w", initial |-> v, opts |-> opts] :
          v \in {"nilmap", "empty", "object", "broken"},
          opts \in UNION {[1 .. n -> StartOptions] : n \in 0 .. 3}}
  \cup {[op |-> "get", workflow |-> "w", version |-> v] : v \in {Unset} \cup 0 .. 2}
  \cup {[op |-> o, workflow |-> w, status |-> s] :
          o \in {"list", "search"}, w \in {Blank, "new", "old"}, s \in {Blank, "ended"}}
  \cup {[op |-> "ack", at |-> <<shard, seq>>] : shard \in 0 .. 1, seq \in 0 .. 2}

Fates == {[refused |-> FALSE, status |-> s, next |-> n] : s \in {"RUNNING", "FAILED"}, n \in {Blank, "next"}}
         \cup {[refused |-> TRUE, code |-> c] : c \in {404, 409}}
GivenAnswers ==
  {[of |-> "fates", fates |-> f] :
     f \in UNION {{g \in [1 .. n -> [task : {"t", "u", "v"}, fate : Fates]] :
                     \A i, j \in 1 .. n : i # j => g[i].task # g[j].task} : n \in 0 .. 3}}
  \cup {[of |-> "task", item |-> TRUE, value |-> v, base |-> b] : v \in WireValues, b \in {"empty", "object"}}
  \cup {[of |-> "task", item |-> FALSE, value |-> v, base |-> "empty"] : v \in {"empty", "object"}}
  \cup {[of |-> "instance", is |-> i, status |-> "RUNNING", value |-> v] :
          i \in BOOLEAN, v \in {"empty", "object"}}

CallInputs == {[of |-> "call", call |-> c] : c \in Calls}
AnswerInputs == {[of |-> "answer", answer |-> a] : a \in {x \in GivenAnswers : Tellable(x)}}

----------------------------------------------------------------------------

Init ==
  /\ input \in FlowInputs \cup RealMergeInputs \cup CriteriaInputs
               \cup CallInputs \cup AnswerInputs
  /\ output = Nothing
  /\ CompileInit

(* criteria.New, and then a poll with the result. *)
MakeCriteria ==
  /\ output = Nothing /\ input.of = "criteria"
  /\ output' = [of |-> "criteria", ok |-> NewCriteria(input.queue, input.where),
                sent |-> PredicateProto(input.where)]
  /\ UNCHANGED input

(* A call of the client, up to what it sends. *)
Send ==
  /\ output = Nothing /\ input.of = "call"
  /\ output' = [of |-> "call", msg |-> Sent(input.call)]
  /\ UNCHANGED input

(* Define compiles, for what its chain recorded without a mistake of its own. *)
Next ==
  \/ CompileNext
  \/ (HandOver \/ MakeCriteria \/ Send \/ Receive) /\ UNCHANGED graphVars

Spec == Init /\ [][Next]_vars

----------------------------------------------------------------------------
(* An instance of the compiled graph does what the flow says: the same steps
   in the same order, each arm ended by its own gates, loops, choices and
   escalations included, and it comes to the same end (appendNode).  Only a wait
   shorter than a millisecond never times out. *)
RunsAsDeclared ==
  Compiled => GraphRuns(output.graph, MaxEvents) = FlowRuns(input.steps, MaxEvents)

(* compile refuses a flow exactly when two steps share a name, a name or the
   workflow's own is missing, or a part of it is empty, and never accepts attributes the server
   would refuse. *)
RefusesInvalid ==
  output.of = "flow" =>
    (output.graph.ok <=> /\ input.name # NoName
                         /\ ValidFlow(input.steps)
                         /\ Len(input.attributes) <= MaxAttributes
                         /\ \A i \in DOMAIN input.attributes : input.attributes[i].valid
                         /\ Cardinality({input.attributes[i].name : i \in DOMAIN input.attributes})
                              = Len(input.attributes))

(* A worker reads from a graph node what the flow declared it to be: which
   steps are combines, and which may create branches (isCombine, spawns). *)
RolesAreRead ==
  Compiled =>
    LET spawners  == Roles(input.steps, "spawner")
        spawned   == Roles(input.steps, "spawnCombine")
        merges    == Roles(input.steps, "combine")
    IN  \A i \in DOMAIN Nodes :
          /\ IsCombine(Nodes[i]) <=> Nodes[i].name \in spawned \cup merges
          /\ Spawns(Nodes, i) <=> Nodes[i].name \in spawners \cup spawned

----------------------------------------------------------------------------
RECURSIVE Depth(_), Size(_), Parts(_)
TermsOf(p) == CASE p.is \in {"all", "any"} -> p.terms [] p.is = "not" -> <<p.term>> [] OTHER -> <<>>
Depth(p) == 1 + FoldLeft(LAMBDA m, t : IF Depth(t) > m THEN Depth(t) ELSE m, 0, TermsOf(p))
Size(p) == FoldLeft(LAMBDA n, t : n + Size(t), 1, TermsOf(p))
Parts(p) == {p} \cup UNION {Parts(t) : t \in Range(TermsOf(p))}

(* Every part of it can be evaluated, and it is within the limits as a whole. *)
ServerTakes(p) ==
  /\ Depth(p) <= MaxDepth /\ Size(p) <= MaxNodes
  /\ \A q \in Parts(p) :
       CASE q.is = "cmp" -> Comparable(q)
         [] q.is \in {"all", "any"} -> q.terms # <<>>
         [] q.is = "nil" -> FALSE
         [] OTHER -> TRUE

(* New accepts a criteria exactly when it is for a queue that has a name and its
   predicate, if it has one, is one the server takes; and a predicate that was
   accepted is sent as it is: no literal and no term is lost on the wire (New,
   validate, validateComparison, predicateProto). *)
AcceptsWhatServerTakes ==
  output.of = "criteria" =>
    LET all == input.where.is = "nil" IN
    /\ output.ok <=> input.queue \notin BlankQueues /\ (all \/ ServerTakes(input.where))
    /\ output.ok /\ ~all => output.sent = input.where

----------------------------------------------------------------------------
(* The server takes a request to mean what the caller asked for: the chain of a
   created branch with every arm, escalation and body of it, what a handler's
   return does to the context, the queues of a poll, a version, a filter or a
   place in the event log.  What cannot be asked is not sent at all (ReportSteps,
   stepResult, branchStepProto, Start, poll, checkCriteria).  Only a gate's handler
   on a step that is now a task is misread, and a timeout of less than a
   millisecond lost. *)
RequestsMeanWhatIsSaid ==
  output.of = "call" =>
    IF Impossible(input.call) THEN output.msg = NotSent
    ELSE /\ output.msg # NotSent
         /\ Understood(input.call.op, output.msg) =
              IF GateOnTask(input.call) THEN Misread(input.call) ELSE Asked(input.call)
=============================================================================
