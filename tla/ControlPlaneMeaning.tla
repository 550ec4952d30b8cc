------------------------ MODULE ControlPlaneMeaning ------------------------
(***************************************************************************)
(* What the requests of ControlPlane owe: Asked is what the caller asked   *)
(* for, in the words of the documentation of each call, and Understood     *)
(* what the server takes a message to mean, in the words of the comments   *)
(* in proto/wiggle.proto.                                                  *)
(***************************************************************************)
EXTENDS ControlPlane

(* An event of a shard's log, as the server hands it to a consumer: its cursor
   is the consumer's place just after it. *)
EventTold(at) == [EventView EXCEPT !.shard = at[1], !.seq = at[2], !.cursor = at]

(* A call, as the program's own code makes it. *)
Sent(call) ==
  CASE call.op = "report" ->
         ReportSteps("t", ReportedAs(call.shape, call.kind), Adapted(call.shape, call.out), call.emits, call.creates)
    [] call.op = "poll"   -> IF CriteriaAccepted(call.worker) THEN Poll(call.worker, 1) ELSE NotSent
    [] call.op = "start"  -> Start(call.workflow, call.initial, call.opts)
    [] call.op = "get"    -> IF Has(call.version) THEN GetWorkflowVersion(call.workflow, call.version)
                             ELSE GetWorkflow(call.workflow)
    [] call.op = "list"   -> ListInstances(call.workflow, call.status)
    [] call.op = "search" -> Search("words", call.workflow, call.status)
    [] call.op = "ack"    -> AckEvents("consumer", EventOf(EventTold(call.at)).cursor)

----------------------------------------------------------------------------
(* The server's reading. *)

RECURSIVE ChainMeant(_)

StepMeant(m) ==
  CASE m.kind = "TASK"  -> [kind |-> "task", name |-> m.name, combine |-> m.combine,
                            compensable |-> m.compensable, queue |-> m.queue, retry |-> m.retry]
    [] m.kind = "SLEEP" -> [kind |-> "sleep"]
    [] m.kind = "SIGNAL" -> [kind |-> "signal", name |-> m.name, timeout |-> m.sleep_millis,
                             escalation |-> ChainMeant(m.escalation)]
    [] m.kind = "SUB_WORKFLOW" -> [kind |-> "sub", name |-> m.name, flow |-> m.workflow]
    [] m.kind = "FORK" -> [kind |-> "fork", combine |-> m.combine,
                           arms |-> [i \in DOMAIN m.arms |-> ChainMeant(m.arms[i].steps)]]
    [] m.kind = "PREDICATE" /\ m.body # <<>> ->
         [kind |-> "loop", while |-> m.name, body |-> ChainMeant(m.body), budget |-> m.loop_budget]
    [] m.kind = "PREDICATE" /\ m.cases # <<>> ->
         [kind |-> "choose",
          cases |-> [i \in DOMAIN m.cases |->
                       [when |-> m.cases[i].guard, then |-> ChainMeant(m.cases[i].steps)]]]
    [] OTHER -> [kind |-> "gate", name |-> m.name, queue |-> m.queue, retry |-> m.retry]

ChainMeant(ms) == [i \in DOMAIN ms |-> StepMeant(ms[i])]

Effect(outcome) ==
  IF ~Has(outcome) THEN <<"untouched", "nothing">>
  ELSE <<IF outcome[1] = "merge" THEN "replaced" ELSE "takes", outcome[2]>>

(* One step of a run of one task: what becomes of the context or the branch
   taken, the events committed with it, the branches it starts. *)
ReportMeant(msg) ==
  LET s == msg.runs[1].steps[1]
  IN  [effect |-> Effect(s.outcome),
       events |-> [i \in DOMAIN s.events |-> s.events[i].payload],
       branches |-> [i \in DOMAIN s.branches |->
                       [input |-> s.branches[i].input, key |-> s.branches[i].key,
                        chain |-> ChainMeant(s.branches[i].steps)]]]

Everything == [is |-> "everything"]
Claims(c) == <<c.queue, IF Has(c.where) THEN c.where ELSE Everything>>

(* Queues or criteria, never both; a queue named twice is rejected. *)
PollMeant(msg) ==
  IF msg.queues # <<>> /\ msg.criteria # <<>> THEN "rejected"
  ELSE LET claims == [i \in DOMAIN msg.criteria |-> Claims(msg.criteria[i])]
                     \o [i \in DOMAIN msg.queues |-> <<msg.queues[i], Everything>>]
       IN  IF \E i, j \in DOMAIN claims : i # j /\ claims[i][1] = claims[j][1] THEN "rejected"
           ELSE {claims[i] : i \in DOMAIN claims}

OrAny(filter) == IF Has(filter) THEN {filter} ELSE {"new", "old", "ended"}
OrLatest(version) == IF Has(version) THEN version ELSE -1

Understood(op, msg) ==
  CASE op = "report" -> ReportMeant(msg)
    [] op = "poll"   -> PollMeant(msg)
    [] op = "start"  -> <<msg.workflow, msg.context, OrLatest(msg.version), msg.correlation_id>>
    [] op = "get"    -> <<msg.name, OrLatest(msg.version)>>
    [] op \in {"list", "search"} -> <<OrAny(msg.workflow), OrAny(msg.status)>>
    [] op = "ack"    -> IF msg.acked_cursor # Blank THEN msg.acked_cursor ELSE msg.acked_seq

----------------------------------------------------------------------------
(* What the caller asked for. *)

OnWire(v) == CASE v = "nilmap" -> "empty" [] v = "bytes" -> "text" [] v = "nil" -> "null"
               [] v \in {"int", "float"} -> "number" [] OTHER -> v

(* A handler that returns nothing leaves the context as it is, a gate says
   which way to go. *)
Returned(call) ==
  IF call.shape = "gate" THEN <<"takes", call.out>>
  ELSE IF call.shape = "effect" \/ call.out = "nil" \/ (call.shape # "item" /\ call.out = "nilmap")
  THEN <<"untouched", "nothing">>
  ELSE <<"replaced", OnWire(call.out)>>

(* Nothing is sent for what cannot be, nor for a gate whose handler is one of a
   task; two criteria for one queue, or criteria beside the queues,
   never reach a poll. *)
Impossible(call) ==
  CASE call.op = "report" ->
         \/ call.kind = "PREDICATE" /\ call.shape \notin {"gate", "item"}
         \/ call.out = "broken" \/ \E i \in DOMAIN call.emits : call.emits[i] = "broken"
         \/ \E i \in DOMAIN call.creates : call.creates[i].input = "broken"
    [] call.op = "poll" ->
         LET cs == call.worker.criteria IN
         cs # <<>> /\ (\/ Has(call.worker.explicitQueues)
                       \/ \E i, j \in DOMAIN cs : i # j /\ cs[i].queue = cs[j].queue)
    [] call.op = "start" -> call.initial = "broken"
    [] OTHER -> FALSE

LastOf(opts, what) ==
  LET of == SelectSeq(opts, LAMBDA o : o[1] = what) IN IF of = <<>> THEN Unset ELSE Last(of)[2]

RECURSIVE InMilliseconds(_)

(* A chain with its timeouts in whole milliseconds, which is all a branch can
   ask for: one that is shorter is none (branch.go:145). *)
InMilliseconds(chain) ==
  LET Of(n) ==
        CASE n.kind = "signal" -> [n EXCEPT !.timeout = @ \div 2, !.escalation = InMilliseconds(@)]
          [] n.kind = "fork"   -> [n EXCEPT !.arms = [a \in DOMAIN @ |-> InMilliseconds(@[a])]]
          [] n.kind = "loop"   -> [n EXCEPT !.body = InMilliseconds(@)]
          [] n.kind = "choose" ->
               [n EXCEPT !.cases = [c \in DOMAIN @ |-> [@[c] EXCEPT !.then = InMilliseconds(@)]]]
          [] OTHER -> n
  IN  [i \in DOMAIN chain |-> Of(chain[i])]

Asked(call) ==
  CASE call.op = "report" ->
         [effect |-> Returned(call),
          events |-> call.emits,
          branches |-> [i \in DOMAIN call.creates |->
                          [call.creates[i] EXCEPT !.input = OnWire(@), !.chain = InMilliseconds(@)]]]
    [] call.op = "poll" ->
         LET w == call.worker IN
         IF w.criteria # <<>>
         THEN {<<c.queue, IF c.where.is = "nil" THEN Everything ELSE c.where>> : c \in Range(w.criteria)}
         ELSE {<<q, Everything>> : q \in IF Has(w.explicitQueues) THEN w.explicitQueues ELSE w.queues}
    [] call.op = "start" ->
         <<call.workflow, OnWire(call.initial), OrLatest(LastOf(call.opts, "version")),
           LastOf(call.opts, "correlation")>>
    [] call.op = "get" -> <<call.workflow, OrLatest(call.version)>>
    [] call.op \in {"list", "search"} ->
         LET Want(f) == IF f = Blank THEN {"new", "old", "ended"} ELSE {f}
         IN  <<Want(call.workflow), Want(call.status)>>
    [] call.op = "ack" -> call.at

(* A gate's handler may run on a step that became a task in a later version of
   the workflow: handlerFor looks at no step that is in a graph.  Nothing stops
   the report then, and true or false replaces the context (worker.go:518-519). *)
GateOnTask(call) == call.op = "report" /\ call.shape = "gate" /\ call.kind = "TASK"

Misread(call) == [Asked(call) EXCEPT !.effect = <<"replaced", call.out>>]
=============================================================================
