---------------------------- MODULE FlowMeaning ----------------------------
(***************************************************************************)
(* What the compiler owes.  FlowRuns is the meaning of a chain as Flow's   *)
(* methods document it (flow.go), defined on the chain itself; GraphRuns   *)
(* is what the server does with the compiled graph, as the client uses it. *)
(* A run is what happened, in order, and how it ended:                     *)
(*                                                                         *)
(*   "on"      it came to the end of the chain                             *)
(*   "gated"   a gate outside every arm said no, which ends the instance   *)
(*   "failed"  a wait without escalation timed out                         *)
(*                                                                         *)
(* Arms run one after the other, in their order: they share nothing, so    *)
(* the order tells nothing apart.  A collection is empty or has one item.  *)
(* Only runs of at most a given number of events are built: a loop has     *)
(* runs of any length.                                                     *)
(***************************************************************************)
EXTENDS GraphShape

Run(events, end) == [events |-> events, end |-> end, at |-> 0]

(* Each run of R, followed by a run of Next(budget) if it came to its end. *)
Then(R, Next(_), max) ==
  UNION {IF r.end # "on" THEN {r}
         ELSE {[s EXCEPT !.events = r.events \o s.events] : s \in Next(max - Len(r.events))} : r \in R}

Event(e, max) == IF max >= 1 THEN {Run(<<e>>, "on")} ELSE {}
Ends(e, end, max) == {[r EXCEPT !.end = end] : r \in Event(e, max)}

(* What a run of an arm or a body means to the step around it: a gate that
   said no ended the arm only. *)
AsArm(R) == {IF r.end = "gated" THEN [r EXCEPT !.end = "on"] ELSE r : r \in R}

----------------------------------------------------------------------------
(* The meaning of a chain.  A wait times out if its timeout is a millisecond or
   more: one that is shorter reaches the server as none, and waits for ever,
   whatever its escalation (workflow.go:409). *)

Millisecond == 2

RECURSIVE FlowRuns(_, _), NodeRuns(_, _), ArmsRuns(_, _), CaseRuns(_, _, _), LoopRuns(_, _)

FlowRuns(steps, max) ==
  IF steps = <<>> THEN {Run(<<>>, "on")}
  ELSE Then(NodeRuns(Head(steps), max), LAMBDA left : FlowRuns(Tail(steps), left), max)

ArmsRuns(arms, max) ==
  IF arms = <<>> THEN {Run(<<>>, "on")}
  ELSE Then(AsArm(FlowRuns(Head(arms), max)), LAMBDA left : ArmsRuns(Tail(arms), left), max)

(* The first arm whose guard holds, or Otherwise, or none. *)
CaseRuns(cases, i, max) ==
  IF i > Len(cases) THEN {Run(<<>>, "on")}
  ELSE IF cases[i].when = NoName THEN FlowRuns(cases[i].then, max)
  ELSE Then(Event(<<cases[i].when, "yes">>, max),
            LAMBDA left : FlowRuns(cases[i].then, left), max)
       \cup Then(Event(<<cases[i].when, "no">>, max),
                 LAMBDA left : CaseRuns(cases, i + 1, left), max)

LoopRuns(n, max) ==
  Then(FlowRuns(n.body, max),
       LAMBDA left : Event(<<n.while, "no">>, left)
                     \cup Then(Event(<<n.while, "yes">>, left),
                               LAMBDA l : LoopRuns(n, l), left),
       max)

NodeRuns(n, max) ==
  CASE n.kind = "task" ->
         IF n.combine = NoName THEN Event(<<n.name>>, max)
         ELSE Then(Event(<<n.name>>, max), LAMBDA left : Event(<<n.combine>>, left), max)
    [] n.kind = "gate" ->
         Event(<<n.name, "yes">>, max) \cup Ends(<<n.name, "no">>, "gated", max)
    [] n.kind = "sleep" -> Event(<<NoName, "sleep">>, max)
    [] n.kind = "sub" -> Event(<<n.name>>, max)
    [] n.kind = "signal" ->
         Event(<<n.name, "signal">>, max)
         \cup (IF n.timeout < Millisecond THEN {}
               ELSE IF n.escalation # <<>>
               THEN Then(Event(<<n.name, "timeout">>, max),
                         LAMBDA left : FlowRuns(n.escalation, left), max)
               ELSE Ends(<<n.name, "timeout">>, "failed", max))
    [] n.kind = "fork" ->
         Then(ArmsRuns(n.arms, max), LAMBDA left : Event(<<n.combine>>, left), max)
    [] n.kind = "each" ->
         Event(<<n.name, "empty">>, max)
         \cup Then(Event(<<n.name, "item">>, max),
                   LAMBDA left : Then(AsArm(FlowRuns(n.body, left)),
                                      LAMBDA l : Event(<<n.combine>>, l), left),
                   max)
    [] n.kind = "choose" -> CaseRuns(n.cases, 1, max)
    [] n.kind = "loop" -> LoopRuns(n, max)

----------------------------------------------------------------------------
(* The server's walk over a graph.  A branch stops at the join it comes to
   ("join", with its id); an instance stops at an end.  A fork goes on past its
   join once every branch has come to that one join, which must expect them
   all; otherwise the instance is stuck there. *)

Stopped(end, at) == {[events |-> <<>>, end |-> end, at |-> at]}

SpawnJoin(ns, id) ==
  ns[id].next # 0 /\ ns[ns[id].next].collect[1] = "spawn"

Arrived(R) == {r \in R : r.end = "join"}
AsBranch(R) == {IF r.end = "join" THEN Run(r.events, "on") ELSE r : r \in R}

RECURSIVE Walk(_, _, _), Branches(_, _, _)

(* The runs of all branches, one after the other. *)
Branches(ns, starts, max) ==
  IF starts = <<>> THEN {Run(<<>>, "on")}
  ELSE Then(AsBranch(Walk(ns, Head(starts), max)),
            LAMBDA left : Branches(ns, Tail(starts), left), max)

(* The runs from a node to a join or to the end. *)
Walk(ns, id, max) ==
  LET n == ns[id]
      After(R, to) == Then(R, LAMBDA left : Walk(ns, to, left), max)
      Joins == {r.at : r \in Arrived(UNION {Walk(ns, s, max) : s \in Range(n.branches)})}
      Forked(R) ==
        IF Joins = {} THEN R
        ELSE LET join == CHOOSE j \in Joins : TRUE IN
             IF Joins = {join} /\ ns[join].expected \in {0, Len(n.branches)}
             THEN After(R, ns[join].next) ELSE Stopped("stuck", id)
  IN
  CASE n.kind = "END"  -> Stopped(IF n.name = NoName THEN "done" ELSE "gated", 0)
    [] n.kind = "JOIN" -> IF SpawnJoin(ns, id) THEN Walk(ns, n.next, max)
                          ELSE Stopped("join", id)
    [] n.kind \in {"TASK", "SUB_WORKFLOW"} -> After(Event(<<n.name>>, max), n.next)
    [] n.kind = "SLEEP" -> After(Event(<<NoName, "sleep">>, max), n.next)
    [] n.kind = "PREDICATE" ->
         After(Event(<<n.name, "yes">>, max), n.next) \cup After(Event(<<n.name, "no">>, max), n.alt)
    [] n.kind = "SIGNAL" ->
         After(Event(<<n.name, "signal">>, max), n.next)
         \cup (IF n.timeout = 0 THEN {}
               ELSE IF n.alt # 0 THEN After(Event(<<n.name, "timeout">>, max), n.alt)
               ELSE Ends(<<n.name, "timeout">>, "failed", max))
    [] n.kind = "FORK" -> Forked(Branches(ns, n.branches, max))
    [] n.kind = "DYN_FORK" ->
         After(Event(<<n.name, "empty">>, max), ns[ns[n.next].next].next)
         \cup Forked(Then(Event(<<n.name, "item">>, max),
                         LAMBDA left : Branches(ns, n.branches, left), max))

(* The runs of an instance of the graph, told like those of the flow. *)
GraphRuns(g, max) ==
  {Run(r.events, IF r.end = "done" THEN "on" ELSE r.end) : r \in Walk(g.nodes, g.start, max)}

----------------------------------------------------------------------------
(* What a flow says of its own shape. *)

RECURSIVE NamesOf(_), Sound(_)

(* The names a chain takes, one for each time it takes it. *)
NamesOf(steps) ==
  LET Of(n) ==
        CASE n.kind = "task"   -> IF n.combine = NoName THEN <<n.name>> ELSE <<n.name, n.combine>>
          [] n.kind = "sleep"  -> <<>>
          [] n.kind = "signal" -> <<n.name>> \o NamesOf(n.escalation)
          [] n.kind = "fork"   -> FlattenSeq([i \in DOMAIN n.arms |-> NamesOf(n.arms[i])])
                                  \o <<n.combine>>
          [] n.kind = "each"   -> <<n.name, n.combine>> \o NamesOf(n.body)
          [] n.kind = "choose" ->
               FlattenSeq([i \in DOMAIN n.cases |->
                 (IF i = Len(n.cases) /\ n.cases[i].when = NoName THEN <<>> ELSE <<n.cases[i].when>>)
                 \o NamesOf(n.cases[i].then)])
          [] n.kind = "loop"   -> <<n.while>> \o NamesOf(n.body)
          [] OTHER             -> <<n.name>>
  IN  FlattenSeq([i \in DOMAIN steps |-> Of(steps[i])])

(* No arm, body or escalation is empty where it may not be, a choice has a
   guarded arm, a wait that escalates has a timeout, a loop's bound is no
   negative number. *)
Sound(steps) ==
  \A i \in DOMAIN steps :
    LET n == steps[i] IN
    CASE n.kind = "signal" -> n.escalation # <<>> => n.timeout > 0 /\ Sound(n.escalation)
      [] n.kind = "fork"   -> \A a \in DOMAIN n.arms : n.arms[a] # <<>> /\ Sound(n.arms[a])
      [] n.kind = "each"   -> n.body # <<>> /\ Sound(n.body)
      [] n.kind = "choose" ->
           /\ \E c \in DOMAIN n.cases : n.cases[c].when # NoName
           /\ \A c \in DOMAIN n.cases : n.cases[c].then # <<>> /\ Sound(n.cases[c].then)
      [] n.kind = "loop"   -> n.body # <<>> /\ n.budget >= 0 /\ Sound(n.body)
      [] OTHER -> TRUE

ValidFlow(steps) ==
  LET taken == NamesOf(steps) IN
  /\ steps # <<>> /\ Sound(steps)
  /\ \A i, j \in DOMAIN taken : taken[i] # NoName /\ (i # j => taken[i] # taken[j])

RECURSIVE Roles(_, _)

(* The names of a chain whose step plays a role: "spawner", "combine". *)
Roles(steps, role) ==
  LET Of(n) ==
        CASE n.kind = "task" -> (IF n.combine # NoName /\ role \in {"spawner", "spawnCombine"}
                                 THEN {IF role = "spawner" THEN n.name ELSE n.combine} ELSE {})
          [] n.kind = "signal" -> Roles(n.escalation, role)
          [] n.kind = "fork"   -> UNION {Roles(n.arms[i], role) : i \in DOMAIN n.arms}
                                  \cup (IF role = "combine" THEN {n.combine} ELSE {})
          [] n.kind = "each"   -> Roles(n.body, role)
                                  \cup (IF role = "combine" THEN {n.combine} ELSE {})
          [] n.kind = "choose" -> UNION {Roles(n.cases[i].then, role) : i \in DOMAIN n.cases}
          [] n.kind = "loop"   -> Roles(n.body, role)
          [] OTHER -> {}
  IN  UNION {Of(steps[i]) : i \in DOMAIN steps}
=============================================================================
