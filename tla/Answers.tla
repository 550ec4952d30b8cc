------------------------------ MODULE Answers ------------------------------
(***************************************************************************)
(* What the client reads from an answer of the control plane: the outcome  *)
(* of a report (report.go), a polled task and an instance (client.go), an  *)
(* event (feed.go), and the values in them (value.go).                     *)
(*                                                                         *)
(* A value is its kind.  On the wire it is "null", "number", "text",       *)
(* "true", "false", "list", or a map, "empty" or "object"; in Go "nil" and *)
(* "float" stand for the first two.                                        *)
(***************************************************************************)
EXTENDS Messages, Naturals, Sequences

FromValue(v) ==
  CASE ~Has(v) \/ v = "null" -> "nil" [] v = "number" -> "float" [] OTHER -> v

IsMap(v) == v \in {"empty", "object"}
AsMap(v) == IF IsMap(v) THEN v ELSE "empty"

----------------------------------------------------------------------------
(* The first outcome of the task's own run; no outcome is a refusal too. *)
RefusedWith(status) == [refused |-> TRUE, code |-> status]

(* A mutant: the first outcome is taken, whatever run it is of. *)
ReportAnswer_First(task, answer) ==
  LET r == answer.results[1]
  IN  IF answer.results = <<>> THEN RefusedWith(500)
      ELSE IF r.error_status # 0 \/ ~Has(r.applied) THEN RefusedWith(r.error_status)
      ELSE [refused |-> FALSE, status |-> r.applied.instance_status, next |-> r.applied.next_task_id]

ReportAnswer(task, answer) ==
  LET mine == {i \in DOMAIN answer.results : answer.results[i].task_id = task}
      r    == answer.results[CHOOSE i \in mine : \A j \in mine : i <= j]
  IN  IF mine = {} THEN RefusedWith(500)
      ELSE IF r.error_status # 0 \/ ~Has(r.applied) THEN RefusedWith(r.error_status)
      ELSE [refused |-> FALSE, status |-> r.applied.instance_status, next |-> r.applied.next_task_id]

----------------------------------------------------------------------------
(* A polled task: an item step is one that has a base. *)
Task(t) ==
  [raw |-> FromValue(t.context), context |-> AsMap(FromValue(t.context)),
   isItem |-> Has(t.base_context), base |-> AsMap(FromValue(t.base_context)),
   collectKey |-> t.collect_key, armNames |-> t.arm_names]

(* An answer without an instance is no view at all. *)
InstanceOf(detail) ==
  IF ~Has(detail.instance) THEN "nil"
  ELSE [status |-> detail.instance.status, context |-> AsMap(FromValue(detail.instance.context)),
        reason |-> IF Has(detail.instance.termination_reason)
                   THEN detail.instance.termination_reason ELSE Blank]

EventOf(e) == [payload |-> AsMap(FromValue(e.payload)), cursor |-> e.cursor, seq |-> e.seq, shard |-> e.shard]
=============================================================================
