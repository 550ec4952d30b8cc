----------------------------- MODULE GraphShape -----------------------------
(***************************************************************************)
(* What a compiled graph is, whatever the flow: the shape the server's     *)
(* walk relies on at every node.                                           *)
(***************************************************************************)
EXTENDS Compile

(* The flows that can be made of a set of steps: every chain inside a step is
   made of these steps too. *)
Closed(Steps) ==
  \A n \in Steps :
    /\ n.kind = "signal" => n.escalation \in Seq(Steps)
    /\ n.kind = "fork"   => n.arms \in Seq(Seq(Steps))
    /\ n.kind = "each"   => n.body \in Seq(Steps)
    /\ n.kind = "choose" => n.cases \in Seq([when : {c.when : c \in Range(n.cases)}, then : Seq(Steps)])
    /\ n.kind = "loop"   => n.body \in Seq(Steps)

CompileSpec(Steps) ==
  /\ input.of = "flow" /\ input.steps \in Seq(Steps) /\ output = Nothing
  /\ CompileInit
  /\ [][CompileNext]_compileVars

----------------------------------------------------------------------------
Compiled == output.of = "flow" /\ output.graph.ok
Nodes == output.graph.nodes

(* The nodes an edge leads to from a node of S. *)
Successors(ns, S) ==
  (UNION {{ns[i].next, ns[i].alt} \cup Range(ns[i].branches) : i \in S}) \ {0}

(* The nodes reached from those of S; a path is no longer than the graph. *)
ReachableFrom(ns, S) ==
  LET reach[k \in Nat] ==
        IF k = 0 THEN S
        ELSE LET before == reach[k - 1] IN before \cup Successors(ns, before)
  IN  reach[Len(ns)]

(* The edges the server follows from a node of its kind are there. *)
Wired(n) ==
  /\ n.kind # "END" => n.next # 0 \/ n.kind = "FORK"
  /\ n.kind = "PREDICATE" => n.alt # 0
  /\ n.kind = "FORK" => Len(n.branches) >= 2 /\ 0 \notin Range(n.branches)
  /\ n.kind = "DYN_FORK" => Len(n.branches) = 1 /\ n.branches[1] # 0

(* Every node of an accepted graph is reached from its start, and every edge
   the server may follow leads somewhere (attach, wireOpenTo, chain). *)
NoLooseEnds ==
  Compiled =>
    /\ ReachableFrom(Nodes, {output.graph.start}) = DOMAIN Nodes
    /\ \A i \in DOMAIN Nodes : Wired(Nodes[i])

(* The kinds of node that are found by the name of their step. *)
Addressed == {"TASK", "PREDICATE", "SIGNAL", "SUB_WORKFLOW", "DYN_FORK"}

(* Every step of an accepted graph has a name, and no two have the same: a
   worker binds its handlers, and the engine stages results, by name (reserve). *)
NamesAreUnique ==
  Compiled =>
    \A i, j \in DOMAIN Nodes :
      Nodes[i].kind \in Addressed /\ Nodes[j].kind \in Addressed =>
        Nodes[i].name # NoName /\ (Nodes[i].name = Nodes[j].name => i = j)
=============================================================================
