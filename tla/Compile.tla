------------------------------ MODULE Compile ------------------------------
(***************************************************************************)
(* The topology compiler (workflow.go): it turns the chain of steps a Flow *)
(* recorded into the graph the server runs.  A step is a record with its   *)
(* kind; a chain is a sequence of steps; a name is any value, and NoName   *)
(* stands for the empty string.                                            *)
(*                                                                         *)
(*   [kind |-> "task",   name, combine]   combine = NoName: not spawning   *)
(*   [kind |-> "gate",   name]                                             *)
(*   [kind |-> "sleep"]                                                    *)
(*   [kind |-> "signal", name, timeout, escalation]  timeout 0: none       *)
(*   [kind |-> "sub",    name]                                             *)
(*   [kind |-> "fork",   arms, combine]              arms: chains          *)
(*   [kind |-> "each",   name, body, combine]                              *)
(*   [kind |-> "choose", cases]           cases: [when, then], in order    *)
(*   [kind |-> "loop",   while, body, budget]                              *)
(*                                                                         *)
(* A builder appends the steps of a chain one by one.  For a chain inside  *)
(* a step it opens a builder of its own and waits for it: builders is the  *)
(* stack of those at work, the one that is not waiting last.  All of them  *)
(* share the graph.  fail, a panic that compile recovers, ends them all.   *)
(* Ids are positions in the sequence of nodes, 0 is no node.  Queues,      *)
(* retry policies, the compensable flag, the flow of a sub workflow, the   *)
(* loop's default budget and the version hash are left out: nothing in the *)
(* compiler reads them back.  A timeout is counted in half milliseconds:   *)
(* one can be shorter than the millisecond the graph counts in.            *)
(***************************************************************************)
EXTENDS Call, Integers, Sequences, SequencesExt, FiniteSets

CONSTANTS NoName,         \* the empty string as a name
          MaxAttributes   \* the most attributes one workflow declares

ASSUME CompileAssumption == MaxAttributes \in Nat

VARIABLES nodes,     \* graph.nodes, in the order they were added
          names,     \* graph.reserved
          builders   \* the builders at work, each waiting for the next one

graphVars == <<nodes, names, builders>>
compileVars == <<input, output, graphVars>>

----------------------------------------------------------------------------
(* The graph. *)

NoCollect == <<"none", NoName>>

Node(kind, name) ==
  [kind |-> kind, name |-> name, next |-> 0, alt |-> 0, branches |-> <<>>,
   expected |-> 0, arms |-> <<>>, collect |-> NoCollect, timeout |-> 0]

Id == Len(nodes) + 1

(* The open ends in "ends", pairs of a node and one of its edges, lead to the
   node "target". *)
Wire(ns, ends, target) ==
  [i \in DOMAIN ns |->
     [ns[i] EXCEPT !.next = IF <<i, "next">> \in ends THEN target ELSE @,
                   !.alt  = IF <<i, "alt">>  \in ends THEN target ELSE @]]

(* A mutant: a name is never compared with those already taken. *)
Free_Unchecked(taken) == \A i \in DOMAIN taken : taken[i] # NoName

(* May these names be reserved, one after the other? *)
Free(taken) ==
  /\ \A i \in DOMAIN taken : taken[i] # NoName /\ taken[i] \notin names
  /\ \A i, j \in DOMAIN taken : i # j => taken[i] # taken[j]

----------------------------------------------------------------------------
(* The builders.  While one waits, "id" is the node its step begins with and
   "starts" has the starts of the step's chains that are built. *)

Builder(steps, join) ==
  [todo |-> steps, join |-> join, open |-> {}, start |-> 0, id |-> 0, starts |-> <<>>]

Height == Len(builders)
Top == builders[Height]
Caller == builders[Height - 1]

(* The k lowest builders, with b in the place of the k-th. *)
Upto(k, b) == [i \in 1 .. k |-> IF i = k THEN b ELSE builders[i]]

Attach(b, id) == [b EXCEPT !.open = {}, !.start = IF b.open = {} /\ @ = 0 THEN id ELSE @]

(* The builder b with its step done, from which the ends in "open" go on. *)
Done(b, open) == [b EXCEPT !.todo = Tail(@), !.open = open, !.id = 0, !.starts = <<>>]

(* The builder b waits for a chain of its step. *)
Waits(b, id, starts) == [b EXCEPT !.id = id, !.starts = starts]

----------------------------------------------------------------------------
(* What a step asks for before anything is built of it, and what it reserves
   then and once its chains are built. *)

HasDefault(n) == n.cases # <<>> /\ Last(n.cases).when = NoName
Guards(n) == IF HasDefault(n) THEN Len(n.cases) - 1 ELSE Len(n.cases)

Malformed(n) ==
  CASE n.kind = "signal" -> n.escalation # <<>> /\ n.timeout <= 0
    [] n.kind = "fork"   -> Len(n.arms) < 2 \/ n.combine = NoName
    [] n.kind = "each"   -> n.body = <<>> \/ n.combine = NoName
    [] n.kind = "choose" -> Guards(n) = 0
    [] OTHER             -> FALSE

NamesFirst(n) ==
  CASE n.kind = "task" /\ n.combine # NoName -> <<n.name, n.combine>>
    [] n.kind = "choose" -> [i \in 1 .. Guards(n) |-> n.cases[i].when]
    [] n.kind \in {"sleep", "fork", "loop"} -> <<>>
    [] OTHER -> <<n.name>>

NamesLast(n) ==
  CASE n.kind \in {"fork", "each"} -> <<n.combine>>
    [] n.kind = "loop" -> <<n.while>>
    [] OTHER -> <<>>

----------------------------------------------------------------------------
(* appendNode, up to the first chain of the step. *)

(* compile got past the name of the workflow. *)
Compiling == output = Nothing /\ input.of = "flow" /\ input.name # NoName

Step == Head(Top.todo)

(* The builder at work comes to a step of this kind. *)
Comes(kind) ==
  /\ Compiling /\ Top.todo # <<>> /\ Step.kind = kind
  /\ ~Malformed(Step) /\ Free(NamesFirst(Step))
  /\ names' = names \cup Range(NamesFirst(Step))
  /\ UNCHANGED <<input, output>>

(* New nodes, the first of which the open ends of the builder lead to. *)
Adds(new) == nodes' = Wire(nodes, Top.open, Id) \o new

GoesOn(open) == builders' = Upto(Height, Done(Attach(Top, Id), open))

(* The step's builder waits as b for a chain that is built in one of its own. *)
Opens(k, b, steps, join) == builders' = Append(Upto(k, b), Builder(steps, join))

AppendTask ==
  /\ Comes("task")
  /\ IF Step.combine = NoName
     THEN Adds(<<Node("TASK", Step.name)>>) /\ GoesOn({<<Id, "next">>})
     ELSE /\ Adds(<<[Node("TASK", Step.name) EXCEPT !.next = Id + 1],
                    [Node("JOIN", NoName) EXCEPT !.next = Id + 2],
                    [Node("TASK", Step.combine) EXCEPT !.collect = <<"spawn", Step.name>>]>>)
          /\ GoesOn({<<Id + 2, "next">>})

(* A mutant: a gate always ends the instance, inside an arm too. *)
AppendGate_EndsAll ==
  /\ Comes("gate")
  /\ Adds(<<[Node("PREDICATE", Step.name) EXCEPT !.alt = Id + 1], Node("END", Step.name)>>)
  /\ GoesOn({<<Id, "next">>})

(* false leads to the join of the enclosing arm, or to an end of its own. *)
AppendGate ==
  /\ Comes("gate")
  /\ IF Top.join = 0
     THEN Adds(<<[Node("PREDICATE", Step.name) EXCEPT !.alt = Id + 1], Node("END", Step.name)>>)
     ELSE Adds(<<[Node("PREDICATE", Step.name) EXCEPT !.alt = Top.join]>>)
  /\ GoesOn({<<Id, "next">>})

AppendSleep ==
  /\ Comes("sleep")
  /\ Adds(<<Node("SLEEP", NoName)>>)
  /\ GoesOn({<<Id, "next">>})

AppendSubFlow ==
  /\ Comes("sub")
  /\ Adds(<<Node("SUB_WORKFLOW", Step.name)>>)
  /\ GoesOn({<<Id, "next">>})

(* Duration.Milliseconds, of a timeout: what is less than one is lost. *)
Milliseconds(timeout) == timeout \div 2

AppendSignal ==
  /\ Comes("signal")
  /\ Adds(<<[Node("SIGNAL", Step.name) EXCEPT !.timeout = Milliseconds(Step.timeout)]>>)
  /\ IF Step.escalation = <<>> THEN GoesOn({<<Id, "next">>})
     ELSE Opens(Height, Waits(Attach(Top, Id), Id, <<>>), Step.escalation, Top.join)

AppendFork ==
  /\ Comes("fork")
  /\ Adds(<<Node("FORK", NoName), [Node("JOIN", NoName) EXCEPT !.expected = Len(Step.arms)]>>)
  /\ Opens(Height, Waits(Attach(Top, Id), Id, <<>>), Step.arms[1], Id + 1)

AppendForEach ==
  /\ Comes("each")
  /\ Adds(<<Node("DYN_FORK", Step.name), Node("JOIN", NoName)>>)
  /\ Opens(Height, Waits(Attach(Top, Id), Id, <<>>), Step.body, Id + 1)

(* All guards, each leading to the next one if it says no. *)
AppendChoose ==
  /\ Comes("choose")
  /\ Adds([i \in 1 .. Guards(Step) |->
             [Node("PREDICATE", Step.cases[i].when) EXCEPT
                !.alt = IF i < Guards(Step) THEN Id + i ELSE 0]])
  /\ Opens(Height, Waits(Attach(Top, Id), Id, <<>>), Step.cases[1].then, Top.join)

AppendLoop ==
  /\ Comes("loop")
  /\ UNCHANGED nodes
  /\ Opens(Height, Top, Step.body, Top.join)

----------------------------------------------------------------------------
(* appendNode, each time a chain of the step is built. *)

Asking == Head(Caller.todo)

(* The starts of the step's chains that are built by now. *)
Built == Append(Caller.starts, Top.start)

(* A chain that is not empty, of a step of this kind, is built. *)
BackAt(kind) ==
  /\ Compiling /\ Top.todo = <<>> /\ Height > 1 /\ Asking.kind = kind
  /\ Top.start # 0
  /\ UNCHANGED <<input, output>>

Reserves == /\ Free(NamesLast(Asking))
            /\ names' = names \cup Range(NamesLast(Asking))

Resumes(b, open) == builders' = Upto(Height - 1, Done(b, open))

EscalationBuilt ==
  /\ BackAt("signal")
  /\ nodes' = Wire(nodes, {<<Caller.id, "alt">>}, Top.start)
  /\ Resumes(Caller, {<<Caller.id, "next">>} \cup Top.open)
  /\ UNCHANGED names

(* buildBranch: a branch runs from its start to the join, and nowhere else. *)
Joined == Wire(nodes, Top.open, Top.join)

ArmBuilt ==
  /\ BackAt("fork")
  /\ IF Len(Built) < Len(Asking.arms)
     THEN /\ nodes' = Joined
          /\ Opens(Height - 1, Waits(Caller, Caller.id, Built), Asking.arms[Len(Built) + 1], Top.join)
          /\ UNCHANGED names
     ELSE /\ Reserves
          /\ nodes' = Append([Joined EXCEPT ![Caller.id].branches = Built, ![Top.join].next = Id],
                             [Node("TASK", Asking.combine) EXCEPT
                                !.arms = [i \in DOMAIN Asking.arms |-> Last(Asking.arms[i]).name]])
          /\ Resumes(Caller, {<<Id, "next">>})

BodyBuilt ==
  /\ BackAt("each")
  /\ Reserves
  /\ nodes' = Append([Joined EXCEPT ![Caller.id].branches = Built,
                                    ![Caller.id].next = Top.join,
                                    ![Top.join].next = Id],
                     [Node("TASK", Asking.combine) EXCEPT !.collect = <<"forEach", Asking.name>>])
  /\ Resumes(Caller, {<<Id, "next">>})

(* collectCase: the chain of a case hangs on one edge of its guard, that of
   Otherwise on the other one of the last guard. *)
Guard == Caller.id + (IF Len(Built) <= Guards(Asking) THEN Len(Built) ELSE Guards(Asking)) - 1
Edge  == IF Len(Built) <= Guards(Asking) THEN "next" ELSE "alt"

(* A mutant: the open ends of the earlier cases are dropped. *)
OpenSoFar_Forgets == Top.open

(* The open ends of the cases so far. *)
OpenSoFar == Caller.open \cup Top.open

CaseBuilt ==
  /\ BackAt("choose")
  /\ nodes' = Wire(nodes, {<<Guard, Edge>>}, Top.start)
  /\ IF Len(Built) < Len(Asking.cases)
     THEN Opens(Height - 1, [Waits(Caller, Caller.id, Built) EXCEPT !.open = OpenSoFar],
                Asking.cases[Len(Built) + 1].then, Top.join)
     ELSE Resumes(Caller, IF HasDefault(Asking) THEN OpenSoFar
                          ELSE OpenSoFar \cup {<<Guard, "alt">>})
  /\ UNCHANGED names

(* The body runs first, then again while the condition holds. *)
LoopBuilt ==
  /\ BackAt("loop")
  /\ Asking.budget >= 0 /\ Reserves
  /\ nodes' = Append(Wire(Wire(nodes, Top.open, Id), Caller.open, Top.start),
                     [Node("PREDICATE", Asking.while) EXCEPT !.next = Top.start])
  /\ Resumes(Attach(Caller, Top.start), {<<Id, "alt">>})

----------------------------------------------------------------------------
(* compile.  An attribute is [name, valid]: valid stands for the syntax of its
   name, type and path. *)

BadAttributes(attributes) ==
  \/ Len(attributes) > MaxAttributes
  \/ \E i \in DOMAIN attributes : ~attributes[i].valid
  \/ \E i, j \in DOMAIN attributes : i # j /\ attributes[i].name = attributes[j].name

Refusal == [ok |-> FALSE, start |-> 0, nodes |-> <<>>]

Gives(graph) == output' = [of |-> "flow", graph |-> graph] /\ UNCHANGED <<input, graphVars>>

CompileEnds ==
  /\ Compiling /\ Top.todo = <<>> /\ Height = 1
  /\ input.steps # <<>> /\ ~BadAttributes(input.attributes)
  /\ Gives([ok |-> TRUE, start |-> Top.start,
              nodes |-> Append(Wire(nodes, Top.open, Id), Node("END", NoName))])

(* A workflow without a name; a step, or a chain of it, that is wrong; a flow
   without steps; attributes. *)
CompileFails ==
  /\ output = Nothing /\ input.of = "flow"
  /\ \/ input.name = NoName
     \/ IF Top.todo # <<>> THEN Malformed(Step) \/ ~Free(NamesFirst(Step))
        ELSE IF Height > 1
        THEN \/ Top.start = 0
             \/ Asking.kind = "loop" /\ Asking.budget < 0
             \/ /\ Asking.kind = "fork" => Len(Built) = Len(Asking.arms)
                /\ ~Free(NamesLast(Asking))
        ELSE input.steps = <<>> \/ BadAttributes(input.attributes)
  /\ Gives(Refusal)

CompileInit ==
  /\ nodes = <<>> /\ names = {}
  /\ builders = <<Builder(IF input.of = "flow" THEN input.steps ELSE <<>>, 0)>>

AppendNode ==
  \/ AppendTask \/ AppendGate \/ AppendSleep \/ AppendSubFlow \/ AppendSignal
  \/ AppendFork \/ AppendForEach \/ AppendChoose \/ AppendLoop
  \/ EscalationBuilt \/ ArmBuilt \/ BodyBuilt \/ CaseBuilt \/ LoopBuilt

CompileNext == AppendNode \/ CompileEnds \/ CompileFails

----------------------------------------------------------------------------
(* How a worker reads a registered graph (isCombine, spawns). *)

(* A mutant: only the combine of a fork is recognised. *)
IsCombine_ArmsOnly(node) == node.kind = "TASK" /\ node.arms # <<>>

IsCombine(node) == node.kind = "TASK" /\ (node.arms # <<>> \/ node.collect # NoCollect)

(* May the step at node id create branches: a task followed by a dynamic join
   and the combine of its own branches, or that combine. *)
Spawns(ns, id) ==
  LET n == ns[id] IN
  \/ n.collect[1] = "spawn"
  \/ /\ n.kind = "TASK" /\ ~IsCombine(n)
     /\ n.next # 0 /\ ns[n.next].kind = "JOIN" /\ ns[n.next].expected = 0
     /\ LET after == ns[n.next].next
        IN  after # 0 /\ ns[after].collect = <<"spawn", n.name>>
=============================================================================
