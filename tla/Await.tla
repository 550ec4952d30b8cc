------------------------------- MODULE Await -------------------------------
(***************************************************************************)
(* Client.AwaitCompletion (client.go:234-257) against the instance it      *)
(* waits for.  Time is counted in ticks: what is left until the deadline,  *)
(* and what is left of the call or of the pause under way, so that no      *)
(* clock runs without end.                                                 *)
(*                                                                         *)
(* The deadline is looked at between two calls only.  The server, which    *)
(* reads the instance at some moment of a call, and the instance itself    *)
(* are external.                                                           *)
(***************************************************************************)
EXTENDS Integers

CONSTANTS
  Timeout,   \* the timeout the caller gives, in ticks
  Pause,     \* the 200 ms between two calls, in ticks
  MaxCall    \* the longest a call takes, in ticks

\* What the constants are; Caller assumes it.
AwaitAssumption ==
  Timeout \in Nat /\ Pause \in Nat \ {0} /\ MaxCall \in Nat

VARIABLES
  status,   \* the instance at the server: "none" before Client.Start
  phase,    \* AwaitCompletion: "none", "calling", "answered", "pausing", or what
            \* it returned: "settled", "timeout", "cancelled", "failed"; or it
            \* "panicked"
  view,     \* the status in the snapshot of the call under way, or the last one,
            \* or "nil" if there was no instance in it
  left,     \* ticks until the deadline, negative after it
  due,      \* ticks until the call must end, or the pause ends
  ended     \* `left` when the instance reached its last status

vars == <<status, phase, view, left, due, ended>>

Terminal == {"COMPLETED", "FAILED", "CANCELLED", "COMPENSATED", "COMPENSATION_FAILED"}

\* Where an instance goes from each status; it ends as FAILED and CANCELLED just
\* as it does as COMPLETED, and as COMPENSATION_FAILED as it does as COMPENSATED.
After == [RUNNING |-> {"COMPLETED", "COMPENSATING"}, COMPENSATING |-> {"COMPENSATED"}]

Waiting == {"calling", "answered", "pausing"}
Returned == {"settled", "timeout", "cancelled", "failed", "panicked"}

IsTerminal(s) == s \in Terminal

Init ==
  /\ status = "none" /\ phase = "none" /\ view = "none"
  /\ left = Timeout /\ due = 0 /\ ended = Timeout

----------------------------------------------------------------------------
(* The server and the instance. *)

\* Client.Start has returned the instance's id, and the caller waits for it.
Called ==
  /\ status = "none" /\ phase = "none"
  /\ status' = "RUNNING" /\ phase' = "calling" /\ due' = MaxCall
  /\ UNCHANGED <<view, left, ended>>

Advances(s) ==
  /\ status \in DOMAIN After /\ s \in After[status]
  /\ status' = s
  /\ ended' = left
  /\ UNCHANGED <<phase, view, left, due>>

\* GetInstance reads the instance; the answer is on its way.
Reads ==
  /\ phase = "calling"
  /\ phase' = "answered" /\ view' = status
  /\ UNCHANGED <<status, left, due, ended>>

\* It answers without an instance, which a message of its kind may do, and
\* instanceView makes a nil view of that.
ReadsNothing ==
  /\ phase = "calling"
  /\ phase' = "answered" /\ view' = "nil"
  /\ UNCHANGED <<status, left, due, ended>>

----------------------------------------------------------------------------
(* AwaitCompletion. *)

\* A mutant: the deadline is looked at before the answer.
Answered_DeadlineFirst ==
  /\ phase = "answered" /\ view # "nil"
  /\ phase' = CASE left < 0 -> "timeout"
                [] left >= 0 /\ IsTerminal(view) -> "settled"
                [] OTHER -> "pausing"
  /\ due' = IF phase' = "pausing" THEN Pause ELSE 0
  /\ UNCHANGED <<status, view, left, ended>>

Answered ==
  /\ phase = "answered" /\ view # "nil"
  /\ phase' = CASE IsTerminal(view) -> "settled"
                [] ~IsTerminal(view) /\ left < 0 -> "timeout"
                [] OTHER -> "pausing"
  /\ due' = IF phase' = "pausing" THEN Pause ELSE 0
  /\ UNCHANGED <<status, view, left, ended>>

\* IsTerminal reads the status of a view that is nil.
AnswerMissing ==
  /\ phase = "answered" /\ view = "nil"
  /\ phase' = "panicked" /\ due' = 0
  /\ UNCHANGED <<status, view, left, ended>>

\* An error of the call is returned as it is, the caller's own cancellation too.
CallFails ==
  /\ phase \in {"calling", "answered"}
  /\ phase' = "failed" /\ due' = 0
  /\ UNCHANGED <<status, view, left, ended>>

\* <-ctx.Done()
Cancelled ==
  /\ phase = "pausing"
  /\ phase' = "cancelled" /\ due' = 0
  /\ UNCHANGED <<status, view, left, ended>>

\* <-time.After
PauseEnds ==
  /\ phase = "pausing" /\ due = 0
  /\ phase' = "calling" /\ due' = MaxCall
  /\ UNCHANGED <<status, view, left, ended>>

\* A tick passes, unless the call or the pause has lasted as long as it can.
Tick ==
  /\ phase \in Waiting /\ due > 0
  /\ left' = left - 1 /\ due' = due - 1
  /\ UNCHANGED <<status, phase, view, ended>>

\* The steps AwaitCompletion takes when nothing goes wrong.
GoesOn == Reads \/ Answered \/ AnswerMissing \/ PauseEnds \/ Tick

Next ==
  \/ Called
  \/ \E s \in Terminal \cup {"COMPENSATING"} : Advances(s)
  \/ GoesOn
  \/ ReadsNothing
  \/ CallFails
  \/ Cancelled

Spec == Init /\ [][Next]_vars

----------------------------------------------------------------------------
(* Properties. *)

\* AwaitCompletion tells the truth: without an error, the instance has the
\* terminal status it was given; a timeout is reported of an instance that had
\* not ended a call's time before the deadline.  And it waits a pause and a call
\* past its deadline, no longer, if no call hangs (client.go:234-257).
AwaitTellsTheTruth ==
  /\ phase = "settled" => view = status /\ view \in Terminal
  /\ phase = "timeout" =>
       /\ left < 0 /\ view \notin Terminal
       /\ status \in Terminal => ended < MaxCall
  /\ left >= -(Pause + MaxCall)
=============================================================================
