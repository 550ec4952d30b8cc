------------------------------ MODULE Messages ------------------------------
(***************************************************************************)
(* The messages of the control plane whose absent fields mean something    *)
(* (internal/pb/wiggle.pb.go), each as its zero value: a record of its     *)
(* fields with what their getters return when nobody set them.  A field    *)
(* that can be absent (an optional one, a message, a oneof) is Unset then. *)
(* A message is built with EXCEPT, as a literal of the Go type is.         *)
(***************************************************************************)

CONSTANTS Unset,   \* an optional field nobody set
          Blank    \* the empty string, the zero of a field that holds a name

Has(field) == field # Unset

(* A oneof is a pair of the name of the field that is set and its value. *)
One(name, value) == <<name, value>>

----------------------------------------------------------------------------
(* Workflows and instances. *)

GetWorkflowRequest == [name |-> Blank, version |-> Unset]
StartInstanceRequest ==
  [workflow |-> Blank, context |-> Unset, version |-> Unset, correlation_id |-> Unset]
ListInstancesRequest ==
  [workflow |-> Unset, status |-> Unset, limit |-> 0, correlation_id |-> Unset]
SearchRequest ==
  [text |-> Blank, workflow |-> Unset, status |-> Unset, updated_from |-> 0, updated_to |-> 0,
   limit |-> 0, partial_ok |-> FALSE, semantic |-> FALSE]
InstanceView ==
  [id |-> Blank, workflow |-> Blank, version |-> 0, status |-> Blank,
   termination_reason |-> Unset, error |-> Unset, context |-> Unset,
   created_at |-> 0, updated_at |-> 0]
InstanceDetail == [instance |-> Unset, tokens |-> <<>>]

----------------------------------------------------------------------------
(* Polls and tasks. *)

QueueCriteria == [queue |-> Blank, where |-> Unset]
PollRequest ==
  [worker_id |-> Blank, queues |-> <<>>, max |-> 0, lease_millis |-> 0, wait_millis |-> 0,
   versions |-> <<>>, criteria |-> <<>>]
TaskActivation ==
  [task_id |-> Blank, instance_id |-> Blank, workflow |-> Blank, version |-> 0,
   node_id |-> Blank, step_name |-> Blank, activity |-> Blank, kind |-> Blank, attempt |-> 0,
   lease_expires_at |-> 0, lease_owner |-> Blank, context |-> Unset, execution_mode |-> Blank,
   base_context |-> Unset, item_index |-> 0, item_map_key |-> Blank, collect_key |-> Blank,
   arm_names |-> <<>>, correlation_id |-> Blank, instance_created_at |-> 0]

----------------------------------------------------------------------------
(* Reports. *)

EmittedEvent == [type |-> Blank, payload |-> Unset]
StepResult ==
  [node_id |-> Blank, outcome |-> Unset, started_at |-> 0, finished_at |-> 0,
   events |-> <<>>, branches |-> <<>>]
CreatedBranch == [input |-> Unset, key |-> Blank, steps |-> <<>>]
BranchStep ==
  [name |-> Blank, kind |-> Blank, compensable |-> FALSE, queue |-> Blank, retry |-> Unset,
   sleep_millis |-> 0, combine |-> Blank, workflow |-> Blank, escalation |-> <<>>,
   arms |-> <<>>, body |-> <<>>, loop_budget |-> 0, cases |-> <<>>]
BranchCase == [guard |-> Blank, steps |-> <<>>]
BranchArm == [steps |-> <<>>]
ReportedRun ==
  [task_id |-> Blank, lease_owner |-> Blank, steps |-> <<>>, final |-> FALSE, criteria |-> <<>>]
ReportStepsRequest == [runs |-> <<>>]
RunApplied == [instance_status |-> Blank, lease_expires_at |-> 0, next_task_id |-> Blank]
RunOutcome == [task_id |-> Blank, applied |-> Unset, error_status |-> 0, error |-> Blank]
ReportStepsResult == [results |-> <<>>]

----------------------------------------------------------------------------
(* The event log. *)

EventView ==
  [seq |-> 0, instance_id |-> Blank, workflow |-> Blank, version |-> 0,
   correlation_id |-> Blank, type |-> Blank, created_at |-> 0, payload |-> Unset,
   node_id |-> Blank, shard |-> 0, cursor |-> Blank]
AckEventsRequest == [consumer |-> Blank, acked_seq |-> 0, acked_cursor |-> Blank]
=============================================================================
