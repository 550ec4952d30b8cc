--------------------------- MODULE AnswersMeaning ---------------------------
(***************************************************************************)
(* What the answers owe: Told is what the server has to say, as it puts it *)
(* in a message, and Given what the caller should make of it.              *)
(***************************************************************************)
EXTENDS Answers, Call, Functions

(* Answers: the fates of reported runs, in the order they are told, a fate
   being a status of the instance or a refusal; a task; an instance, or none. *)

Outcome(task, fate) ==
  IF fate.refused THEN [RunOutcome EXCEPT !.task_id = task, !.error_status = fate.code]
  ELSE [RunOutcome EXCEPT !.task_id = task,
          !.applied = [RunApplied EXCEPT !.instance_status = fate.status, !.next_task_id = fate.next]]

Told(answer) ==
  CASE answer.of = "fates" ->
         [ReportStepsResult EXCEPT
            !.results = [i \in DOMAIN answer.fates |-> Outcome(answer.fates[i].task, answer.fates[i].fate)]]
    [] answer.of = "task" ->
         [TaskActivation EXCEPT !.context = answer.value,
                                !.base_context = IF answer.item THEN answer.base ELSE Unset]
    [] answer.of = "instance" ->
         [InstanceDetail EXCEPT !.instance =
            IF answer.is THEN [InstanceView EXCEPT !.status = answer.status, !.context = answer.value]
            ELSE Unset]

(* What a handler of the worker is called with. *)
Arguments(t) == IF t.isItem THEN <<"item", t.base, t.raw>> ELSE <<"step", t.context>>

(* The answer, as the client reads it. *)
Read(answer) ==
  LET msg == Told(answer) IN
  CASE answer.of = "fates"    -> ReportAnswer("t", msg)
    [] answer.of = "task"     -> Arguments(Task(msg))
    [] answer.of = "instance" -> InstanceOf(msg)

InGo(v) == CASE v = "null" -> "nil" [] v = "number" -> "float" [] OTHER -> v

(* A run nobody answers for is refused.  An item may be any value, and its step
   gets the context from before the forEach beside it. *)
Given(answer) ==
  CASE answer.of = "fates" ->
         IF \E i \in DOMAIN answer.fates : answer.fates[i].task = "t"
         THEN answer.fates[CHOOSE i \in DOMAIN answer.fates : answer.fates[i].task = "t"].fate
         ELSE [refused |-> TRUE, code |-> 500]
    [] answer.of = "task" ->
         IF answer.item THEN <<"item", answer.base, InGo(answer.value)>> ELSE <<"step", answer.value>>
    [] answer.of = "instance" ->
         IF answer.is THEN [status |-> answer.status, context |-> answer.value, reason |-> Blank]
         ELSE "nil"

----------------------------------------------------------------------------
(* The answers a server gives: no run is answered for twice, an item and its
   result are any value, and every other value is a map. *)

WireValues == {"null", "empty", "object", "list", "text", "number", "true", "false"}
Maps == {"empty", "object"}

IsFate(fate) ==
  fate = IF fate.refused THEN [refused |-> TRUE, code |-> fate.code]
         ELSE [refused |-> FALSE, status |-> fate.status, next |-> fate.next]

Tellable(answer) ==
  CASE answer.of = "fates" ->
         LET told == answer.fates IN
         /\ told \in Seq(Range(told))
         /\ \A i \in DOMAIN told : told[i].fate.refused \in BOOLEAN /\ IsFate(told[i].fate)
         /\ \A i, j \in DOMAIN told : i # j => told[i].task # told[j].task
    [] answer.of = "task" ->
         /\ answer.item \in BOOLEAN /\ answer.base \in Maps
         /\ answer.value \in IF answer.item THEN WireValues ELSE Maps
    [] answer.of = "instance" -> answer.is \in BOOLEAN /\ answer.value \in Maps
    [] OTHER -> FALSE

(* An absent field is neither a value nor a message. *)
AbsentIsApart ==
  /\ Unset \notin WireValues
  /\ \A s, n : [RunApplied EXCEPT !.instance_status = s, !.next_task_id = n] # Unset
  /\ \A s, c : [InstanceView EXCEPT !.status = s, !.context = c] # Unset

(* The rest of a call, from the answer that came. *)
Receive ==
  /\ output = Nothing /\ input.of = "answer"
  /\ output' = [of |-> "answer", value |-> Read(input.answer)]
  /\ UNCHANGED input

AnswerSpec ==
  /\ input.of = "answer" /\ Tellable(input.answer)
  /\ output = Nothing
  /\ [][Receive]_<<input, output>>

(* What the server says reaches the caller: whether its own run was applied,
   whatever else the answer tells; a handler's arguments; an instance (ReportSteps,
   poll, instanceView). *)
AnswersReadAsGiven == output.of = "answer" => output.value = Given(input.answer)
=============================================================================
