------------------------------ MODULE StepRun ------------------------------
(***************************************************************************)
(* One step and its attempts, from inside: the StepRun a handler emits     *)
(* events and creates branches on (step.go), the part of execute that      *)
(* makes its report of them (worker.go), and the report's encoding         *)
(* (report.go).                                                            *)
(*                                                                         *)
(* A handler may start goroutines of its own; the mutex of StepRun is      *)
(* there for them.  One that outlives the handler goes on emitting,        *)
(* creating and chaining while execute drains the StepRun and encodes what *)
(* it drained: every step of both is an action, in any order.  Attempts    *)
(* overlap when a lease runs out.  The server, and what becomes of a call, *)
(* are external: a report or a failure is applied, refused or lost.        *)
(***************************************************************************)
EXTENDS Naturals, Sequences, FiniteSets, SequencesExt

CONSTANTS
  MaxAttempt,   \* attempts of the step
  MaxEmit,      \* events one attempt emits
  MaxCreate,    \* branches one attempt creates
  MaxChain      \* steps chained onto one branch

ASSUME StepRunAssumption ==
  /\ MaxAttempt \in Nat \ {0} /\ MaxEmit \in Nat
  /\ MaxCreate \in Nat /\ MaxChain \in Nat

Attempts == 1 .. MaxAttempt

VARIABLES
  st,        \* attempt -> where its execute is
  leftover,  \* attempt -> did the handler leave a goroutine behind
  buffer,    \* attempt -> the events in its StepRun: emitted, not drained
  said,      \* attempt -> the events emitted while its handler ran
  created,   \* attempt -> the branches opened on its StepRun, in order
  whole,     \* attempt -> those of them, and as they were, when its handler returned
  drained,   \* attempt -> the events and the number of branches drain returned
  report,    \* attempt -> what was encoded for the server
  mayCreate, \* is the step a spawning step, or the combine of one
  task,      \* what the server holds of the step: "open", "completed", "failed"
  log,       \* the events the server committed with the step
  spawned,   \* the branches the server started with it
  winner     \* the attempt the step was settled by, 0 before

worker == <<st, leftover, buffer, said, created, whole, drained, report>>
server == <<task, log, spawned, winner>>
vars == <<st, leftover, buffer, said, created, whole, drained, report, mayCreate,
          task, log, spawned, winner>>

\* An event is the attempt that emitted it and its place in what it emitted; a
\* branch is the number of its steps, and whether a mistake was made on it.
Event == Attempts \X (1 .. MaxEmit)
Branch == [steps : 0 .. MaxChain, bad : BOOLEAN]
NotYet == [events |-> <<>>, branches |-> <<>>]

Init ==
  /\ st = [a \in Attempts |-> "none"]
  /\ leftover = [a \in Attempts |-> FALSE]
  /\ buffer = [a \in Attempts |-> <<>>]
  /\ said = [a \in Attempts |-> <<>>]
  /\ created = [a \in Attempts |-> <<>>]
  /\ whole = [a \in Attempts |-> <<>>]
  /\ drained = [a \in Attempts |-> [events |-> <<>>, branches |-> 0]]
  /\ report = [a \in Attempts |-> NotYet]
  /\ mayCreate \in BOOLEAN
  /\ task = "open" /\ log = <<>> /\ spawned = <<>> /\ winner = 0

----------------------------------------------------------------------------
(* The handler, and the goroutines it leaves. *)

\* A mutant: an attempt goes on with the StepRun of the one before.
Begin_Reuses(a) ==
  /\ task = "open" /\ st[a] = "none"
  /\ a > 1 => st[a - 1] # "none"
  /\ st' = [st EXCEPT ![a] = "runs"]
  /\ buffer' = IF a > 1 THEN [buffer EXCEPT ![a] = buffer[a - 1]] ELSE buffer
  /\ UNCHANGED <<leftover, said, created, whole, drained, report, mayCreate, server>>

\* execute makes a StepRun and calls the handler; a second attempt begins when
\* the first one failed or lost its lease.
Begin(a) ==
  /\ task = "open" /\ st[a] = "none"
  /\ a > 1 => st[a - 1] # "none"
  /\ st' = [st EXCEPT ![a] = "runs"]
  /\ UNCHANGED <<leftover, buffer, said, created, whole, drained, report, mayCreate, server>>

\* Someone may call the StepRun: the handler, or what it left behind.
Active(a) == st[a] = "runs" \/ leftover[a]

\* How many events attempt a has emitted, reported or not.
Emitted(a) == Len(drained[a].events) + Len(buffer[a])

Emit(a) ==
  /\ Active(a) /\ Emitted(a) < MaxEmit
  /\ LET e == <<a, Emitted(a) + 1>> IN
     /\ buffer' = [buffer EXCEPT ![a] = Append(@, e)]
     /\ said' = IF st[a] = "runs" THEN [said EXCEPT ![a] = Append(@, e)] ELSE said
  /\ UNCHANGED <<st, leftover, created, whole, drained, report, mayCreate, server>>

Create(a) ==
  /\ Active(a) /\ Len(created[a]) < MaxCreate
  /\ created' = [created EXCEPT ![a] = Append(@, [steps |-> 0, bad |-> ~mayCreate])]
  /\ UNCHANGED <<st, leftover, buffer, said, whole, drained, report, mayCreate, server>>

\* A Then method on a branch records a step, or the first mistake made on it.
Extend(a, i) ==
  /\ Active(a) /\ created[a][i].steps < MaxChain /\ ~created[a][i].bad
  /\ \/ created' = [created EXCEPT ![a][i].steps = @ + 1]
     \/ created' = [created EXCEPT ![a][i].bad = TRUE]
  /\ UNCHANGED <<st, leftover, buffer, said, whole, drained, report, mayCreate, server>>

HandlerReturns(a, left) ==
  /\ st[a] = "runs"
  /\ st' = [st EXCEPT ![a] = "returned"]
  /\ leftover' = [leftover EXCEPT ![a] = left]
  /\ whole' = [whole EXCEPT ![a] = created[a]]
  /\ UNCHANGED <<buffer, said, created, drained, report, mayCreate, server>>

----------------------------------------------------------------------------
(* What execute does next. *)

\* w.fail: the StepRun is dropped with all that is in it, and a failure is sent.
HandlerFails(a, left) ==
  /\ st[a] = "runs"
  /\ st' = [st EXCEPT ![a] = "failed"]
  /\ leftover' = [leftover EXCEPT ![a] = left]
  /\ UNCHANGED <<buffer, said, created, whole, drained, report, mayCreate, server>>

\* A mutant: drain leaves the events in the StepRun.
Drain_Keeps(a) ==
  LET mistake == \E i \in DOMAIN created[a] : created[a][i].bad IN
  /\ st[a] = "returned"
  /\ st' = [st EXCEPT ![a] = IF mistake THEN "failed" ELSE "drained"]
  /\ drained' = [drained EXCEPT ![a] = [events |-> buffer[a], branches |-> Len(created[a])]]
  /\ UNCHANGED <<leftover, buffer, said, created, whole, report, mayCreate, server>>

\* A mutant: nobody asks the branches for their mistakes.
Drain_Unchecked(a) ==
  /\ st[a] = "returned"
  /\ st' = [st EXCEPT ![a] = "drained"]
  /\ drained' = [drained EXCEPT ![a] = [events |-> buffer[a], branches |-> Len(created[a])]]
  /\ buffer' = [buffer EXCEPT ![a] = <<>>]
  /\ UNCHANGED <<leftover, said, created, whole, report, mayCreate, server>>

\* drain: what was collected is taken; a mistake on any branch fails the step.
Drain(a) ==
  LET mistake == \E i \in DOMAIN created[a] : created[a][i].bad IN
  /\ st[a] = "returned"
  /\ st' = [st EXCEPT ![a] = IF mistake THEN "failed" ELSE "drained"]
  /\ drained' = [drained EXCEPT ![a] = [events |-> buffer[a], branches |-> Len(created[a])]]
  /\ buffer' = [buffer EXCEPT ![a] = <<>>]
  /\ UNCHANGED <<leftover, said, created, whole, report, mayCreate, server>>

\* A predicate whose handler returned no bool fails.
NotABool(a) ==
  /\ st[a] = "drained"
  /\ st' = [st EXCEPT ![a] = "failed"]
  /\ UNCHANGED <<leftover, buffer, said, created, whole, drained, report, mayCreate, server>>

\* stepResult reads the events drained, and each branch as it is now: a
\* goroutine left behind still holds the branches.
Encode(a) ==
  /\ st[a] = "drained"
  /\ st' = [st EXCEPT ![a] = "sent"]
  /\ report' = [report EXCEPT ![a] =
       [events |-> drained[a].events,
        branches |-> [i \in 1 .. drained[a].branches |-> created[a][i].steps]]]
  /\ UNCHANGED <<leftover, buffer, said, created, whole, drained, mayCreate, server>>

\* An event, an input or the result has no protobuf form: nothing is sent.
EncodeFails(a) ==
  /\ st[a] = "drained"
  /\ st' = [st EXCEPT ![a] = "dropped"]
  /\ UNCHANGED <<leftover, buffer, said, created, whole, drained, report, mayCreate, server>>

----------------------------------------------------------------------------
(* The server: a report settles the step once, even one whose call the worker
   has given up; a failure that is final, by its kind or by the retry policy,
   ends it.  A call that is lost or refused changes nothing. *)

Settle(a) ==
  /\ st[a] \in {"sent", "over"} /\ task = "open"
  /\ task' = "completed" /\ winner' = a
  /\ log' = report[a].events /\ spawned' = report[a].branches
  /\ UNCHANGED <<worker, mayCreate>>

Abandon(a) ==
  /\ st[a] = "failed" /\ task = "open"
  /\ task' = "failed"
  /\ UNCHANGED <<worker, mayCreate, log, spawned, winner>>

\* A mutant: after a call that failed the step is drained and sent again.
Over_DrainsAgain(a) ==
  /\ st[a] = "sent"
  /\ st' = [st EXCEPT ![a] = "returned"]
  /\ UNCHANGED <<leftover, buffer, said, created, whole, drained, report, mayCreate, server>>

\* The call returns, whatever became of the report, and execute with it.
Over(a) ==
  /\ st[a] = "sent"
  /\ st' = [st EXCEPT ![a] = "over"]
  /\ UNCHANGED <<leftover, buffer, said, created, whole, drained, report, mayCreate, server>>

Handler(a) ==
  \/ Begin(a)
  \/ Emit(a)
  \/ Create(a)
  \/ \E i \in DOMAIN created[a] : Extend(a, i)
  \/ \E left \in BOOLEAN : HandlerReturns(a, left)
  \/ \E left \in BOOLEAN : HandlerFails(a, left)

Execute(a) ==
  \/ Drain(a)
  \/ NotABool(a)
  \/ Encode(a)
  \/ EncodeFails(a)
  \/ Over(a)

Next == \E a \in Attempts : Handler(a) \/ Execute(a) \/ Settle(a) \/ Abandon(a)

Spec == Init /\ [][Next]_vars

----------------------------------------------------------------------------
(* Properties. *)

TypeOK ==
  /\ st \in [Attempts -> {"none", "runs", "returned", "failed", "drained", "dropped", "sent", "over"}]
  /\ leftover \in [Attempts -> BOOLEAN]
  /\ buffer \in [Attempts -> Seq(Event)] /\ said \in [Attempts -> Seq(Event)]
  /\ created \in [Attempts -> Seq(Branch)] /\ whole \in [Attempts -> Seq(Branch)]
  /\ drained \in [Attempts -> [events : Seq(Event), branches : 0 .. MaxCreate]]
  /\ report \in [Attempts -> [events : Seq(Event), branches : Seq(0 .. MaxChain)]]
  /\ \A a \in Attempts :
       /\ Emitted(a) <= MaxEmit /\ Len(created[a]) <= MaxCreate
       /\ drained[a].branches <= Len(created[a])
  /\ mayCreate \in BOOLEAN
  /\ task \in {"open", "completed", "failed"}
  /\ log \in Seq(Event) /\ spawned \in Seq(0 .. MaxChain)
  /\ winner \in {0} \cup Attempts

\* What is committed is what one attempt emitted, all of it and in its order:
\* every event its handler emitted before it returned, nothing of any other
\* attempt, and more only from a goroutine the handler left behind
\* (step.go:38-40, Emit; drain).
CommittedAsSaid ==
  winner # 0 =>
    /\ IsPrefix(said[winner], log)
    /\ \A i \in DOMAIN log : log[i] = <<winner, i>>
    /\ ~leftover[winner] => log = said[winner]

\* The branches that start are those the handler created, each with every step
\* chained onto it when the handler returned, and none with a mistake, or of a
\* step that may not create any (step.go:53-57, Create; drain; createdBranch).
BranchesWhole ==
  winner # 0 =>
    /\ Len(whole[winner]) <= Len(spawned)
    /\ whole[winner] # <<>> => mayCreate
    /\ \A i \in DOMAIN whole[winner] :
         /\ ~whole[winner][i].bad
         /\ whole[winner][i].steps <= spawned[i]
         /\ ~leftover[winner] => whole[winner][i].steps = spawned[i]

\* An attempt as StepPromise sees it.
AttemptIs(a) ==
  CASE st[a] = "none" -> "none"
    [] st[a] \in {"runs", "returned", "drained"} -> "running"
    [] st[a] \in {"failed", "dropped"} -> "bad"
    [] OTHER -> "good"

Promise == INSTANCE StepPromise WITH
  Task <- {"step"}, MaxLease <- MaxAttempt,
  phase <- [t \in {"step"} |-> task],
  attempt <- [t \in {"step"} |-> [a \in Attempts |-> AttemptIs(a)]],
  commits <- [t \in {"step"} |-> IF winner = 0 THEN {} ELSE {winner}]

\* StepRun implements StepPromise: only a good attempt commits, one at most, and
\* a bad one may end the step (execute, drain).
KeepsPromise == Promise!Spec
=============================================================================
