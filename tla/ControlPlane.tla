---------------------------- MODULE ControlPlane ----------------------------
(***************************************************************************)
(* What the client sends: the encoding of a step's report (handlers.go,    *)
(* report.go, value.go), the requests of client.go and feed.go in which an *)
(* absent field means something, and the queues a worker polls             *)
(* (worker.go).                                                            *)
(*                                                                         *)
(* A value is its kind.  A Go value is "nil", "nilmap" (a map that is nil, *)
(* typed), "empty" and "object" (maps), "list", "text", "bytes", "int",    *)
(* "float", "true", "false", or "broken": one that holds a channel, say,   *)
(* and has no protobuf form.                                               *)
(***************************************************************************)
EXTENDS Answers, Criteria, FiniteSets

NoForm == "no form"

ToValue(v) ==
  CASE v = "nil" -> "null" [] v = "nilmap" -> "empty" [] v = "bytes" -> "text"
    [] v \in {"int", "float"} -> "number" [] v = "broken" -> NoForm [] OTHER -> v

----------------------------------------------------------------------------
(* The branches a step created.  A chain is a chain of Compile, of tasks and
   gates that also have queue and retry, tasks that may be compensable, and sub
   workflows with the flow they run; a branch step as branch.go records it has
   the fields of its message.  The length of a sleep is left out. *)

RECURSIVE Recorded(_)

RecordedStep(n) ==
  CASE n.kind = "task" ->
         [BranchStep EXCEPT !.name = n.name, !.kind = "TASK", !.combine = n.combine,
                            !.compensable = n.compensable, !.queue = n.queue, !.retry = n.retry]
    [] n.kind = "gate"   ->
         [BranchStep EXCEPT !.name = n.name, !.kind = "PREDICATE", !.queue = n.queue, !.retry = n.retry]
    [] n.kind = "sleep"  -> [BranchStep EXCEPT !.kind = "SLEEP"]
    [] n.kind = "sub"    ->
         [BranchStep EXCEPT !.name = n.name, !.kind = "SUB_WORKFLOW", !.workflow = n.flow]
    [] n.kind = "signal" ->
         [BranchStep EXCEPT !.name = n.name, !.kind = "SIGNAL", !.escalation = Recorded(n.escalation),
                            !.sleep_millis = n.timeout \div 2]   \* half milliseconds
    [] n.kind = "fork"   ->
         [BranchStep EXCEPT !.kind = "FORK", !.combine = n.combine,
                            !.arms = [i \in DOMAIN n.arms |-> Recorded(n.arms[i])]]
    [] n.kind = "loop"   ->
         [BranchStep EXCEPT !.name = n.while, !.kind = "PREDICATE", !.body = Recorded(n.body),
                            !.loop_budget = n.budget]
    [] n.kind = "choose" ->
         [BranchStep EXCEPT !.kind = "PREDICATE",
            !.cases = [i \in DOMAIN n.cases |->
              [BranchCase EXCEPT !.guard = n.cases[i].when, !.steps = Recorded(n.cases[i].then)]]]

Recorded(chain) == [i \in DOMAIN chain |-> RecordedStep(chain[i])]

RECURSIVE BranchSteps(_)

BranchStepProto(st) ==
  [st EXCEPT !.escalation = BranchSteps(@),
             !.arms = [i \in DOMAIN @ |-> [BranchArm EXCEPT !.steps = BranchSteps(st.arms[i])]],
             !.body = BranchSteps(@),
             !.cases = [i \in DOMAIN @ |-> [@[i] EXCEPT !.steps = BranchSteps(@)]]]

BranchSteps(steps) == [i \in DOMAIN steps |-> BranchStepProto(steps[i])]

CreatedBranchProto(b) ==
  [CreatedBranch EXCEPT !.input = ToValue(b.input), !.key = b.key, !.steps = BranchSteps(Recorded(b.chain))]

----------------------------------------------------------------------------
(* The report of a step. *)

(* A mutant: a nil map is handed on as it is, a value that is not nil. *)
Adapted_TypedNil(shape, out) == IF shape = "effect" THEN "nil" ELSE out

(* What the handlers' adapters make of what the function returned: a task or a
   combine that returns a nil map returned nothing, an effect never returns
   anything; a gate's bool and an item's value pass as they are. *)
Adapted(shape, out) ==
  IF shape = "effect" \/ (shape \in {"task", "combine"} /\ out = "nilmap") THEN "nil" ELSE out

IsBool(v) == v \in {"true", "false"}

(* executeItem does not look at the kind of its step: it reports every one as a
   task. *)
ReportedAs(shape, kind) == IF shape = "item" THEN "TASK" ELSE kind

(* execute: is there anything to report, and what. *)
Reportable(kind, result) == kind = "PREDICATE" => IsBool(result)
StepReport(kind, result, emitted, created) ==
  [predicate |-> IF kind = "PREDICATE" THEN result ELSE Unset,
   merge |-> IF kind = "PREDICATE" THEN "nil" ELSE result,
   events |-> emitted, branches |-> created]

StepResultProto(s) ==
  [StepResult EXCEPT
     !.events = [i \in DOMAIN s.events |-> [EmittedEvent EXCEPT !.payload = ToValue(s.events[i])]],
     !.branches = [i \in DOMAIN s.branches |-> CreatedBranchProto(s.branches[i])],
     !.outcome = IF Has(s.predicate) THEN One("predicate_value", s.predicate)
                 ELSE IF s.merge # "nil" THEN One("merge", ToValue(s.merge)) ELSE Unset]

(* Something in the report has no protobuf form. *)
Unencodable(r) ==
  \/ \E i \in DOMAIN r.events : r.events[i].payload = NoForm
  \/ \E i \in DOMAIN r.branches : r.branches[i].input = NoForm
  \/ r.outcome = One("merge", NoForm)

(* The call fails before anything is sent. *)
NotSent == Unset

ReportSteps(task, kind, result, emitted, created) ==
  LET step == StepResultProto(StepReport(kind, result, emitted, created))
      run  == [ReportedRun EXCEPT !.task_id = task, !.steps = <<step>>, !.final = TRUE]
  IN  IF ~Reportable(kind, result) \/ Unencodable(step) THEN NotSent
      ELSE [ReportStepsRequest EXCEPT !.runs = <<run>>]

----------------------------------------------------------------------------
(* Polls.  A worker has the queues it was restricted to, or Unset; those it
   learned; its criteria, each [queue, where]. *)

CriteriaAccepted(w) ==
  w.criteria # <<>> =>
    /\ ~Has(w.explicitQueues)
    /\ Cardinality({w.criteria[i].queue : i \in DOMAIN w.criteria}) = Len(w.criteria)

(* Maps iterate in any order; the queues are sorted, here in one order. *)
ServedQueues(w) == SetToSeq(IF Has(w.explicitQueues) THEN w.explicitQueues ELSE w.queues)

CriteriaProto(c) ==
  [QueueCriteria EXCEPT !.queue = c.queue,
                        !.where = IF c.where.is = "nil" THEN Unset ELSE PredicateProto(c.where)]

Poll(w, free) ==
  IF w.criteria # <<>>
  THEN [PollRequest EXCEPT !.max = free, !.criteria = [i \in DOMAIN w.criteria |-> CriteriaProto(w.criteria[i])]]
  ELSE [PollRequest EXCEPT !.max = free, !.queues = ServedQueues(w)]

----------------------------------------------------------------------------
(* Instances and events. *)

GetWorkflow(name) == [GetWorkflowRequest EXCEPT !.name = name]
GetWorkflowVersion(name, v) == [GetWorkflow(name) EXCEPT !.version = v]

WithVersion(r, v) == [r EXCEPT !.version = v]
WithCorrelationID(r, id) == [r EXCEPT !.correlation_id = id]
StartOption(r, o) == IF o[1] = "version" THEN WithVersion(r, o[2]) ELSE WithCorrelationID(r, o[2])

Start(workflow, initial, opts) ==
  IF ToValue(initial) = NoForm THEN NotSent
  ELSE FoldLeft(StartOption, [StartInstanceRequest EXCEPT !.workflow = workflow,
                                                          !.context = ToValue(initial)], opts)

AnyIfBlank(filter) == IF filter = Blank THEN Unset ELSE filter

ListInstances(workflow, status) ==
  [ListInstancesRequest EXCEPT !.workflow = AnyIfBlank(workflow), !.status = AnyIfBlank(status)]
Search(text, workflow, status) ==
  [SearchRequest EXCEPT !.text = text, !.workflow = AnyIfBlank(workflow), !.status = AnyIfBlank(status)]

AckEvents(consumer, cursor) ==
  [AckEventsRequest EXCEPT !.consumer = consumer, !.acked_cursor = cursor]
=============================================================================
