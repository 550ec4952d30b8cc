------------------------------- MODULE Worker -------------------------------
(***************************************************************************)
(* Workers (worker.go) that poll one server for tasks, run a handler for   *)
(* each task in a goroutine of its own, and settle each task with a report *)
(* or a failure.  A worker is its poll loop, its semaphore, its executions *)
(* and the caller of Start and Stop.  The server is external: a table of   *)
(* tasks and leases, as the code and the comments of src/ use it.          *)
(*                                                                         *)
(* One caller per worker, which calls Start and Stop in turn, is assumed   *)
(* here; callers that overlap are the subject of WorkerLifecycle.  Which   *)
(* handler a task gets is abstracted to Refuse or Run, and the heartbeat   *)
(* to the freedom of a lease to expire at any time, or never.              *)
(***************************************************************************)
EXTENDS Naturals, FiniteSets

CONSTANTS
  Worker,       \* the worker processes
  Task,         \* the tasks of the server
  Concurrency,  \* WithConcurrency: the most steps a worker has in flight
  MaxLease,     \* bound: how many times the server leases one task
  MaxFaults,    \* bound: crashes, failed polls, lost or delayed requests
  NoWorker      \* not a worker: the holder of a lease never granted

ASSUME WorkerAssumption == IsFiniteSet(Worker) /\ NoWorker \notin Worker
ASSUME TaskAssumption == IsFiniteSet(Task)
ASSUME BoundAssumption ==
  Concurrency \in Nat \ {0} /\ MaxLease \in Nat \ {0} /\ MaxFaults \in Nat

VARIABLES
  \* the server
  status,       \* task -> "ready", "leased", "completed" or "failed"
  claims,       \* task -> how many times it was leased
  holder,       \* lease -> the worker it was granted to
  committed,    \* task -> the leases' numbers whose results were committed
  \* a worker's poll loop
  running,      \* worker -> Worker.running
  loop,         \* worker -> where pollLoop is
  free,         \* worker -> the local `free` of pollLoop
  answer,       \* worker -> leases the server granted to the poll under way
  batch,        \* worker -> res.Tasks not yet dispatched
  sem,          \* worker -> len(sem)
  \* executions
  exec,         \* lease -> where its execute() is
  outcome,      \* lease -> how its execution ended
  wire,         \* leases whose report or failure is on its way to the server
  \* the environment
  caller,       \* worker -> what the caller of Start and Stop is doing
  faults        \* how many faults have happened

server == <<status, claims, holder, committed>>
polling == <<running, loop, free, answer, batch>>
executing == <<exec, outcome, wire>>
vars == <<server, polling, sem, executing, caller, faults>>

Lease == Task \X (1..MaxLease)
Outcome == {"none", "ok", "retryable", "permanent", "unencodable"}
Live == {"begun", "running", "calling"}

\* The executions of w whose goroutine has not returned.
Active(w) == {l \in Lease : exec[l] \in Live /\ holder[l] = w}

\* The lease the server currently goes by for task t, and whether a request
\* made under lease l is from its owner.  lease_owner names the worker, so an
\* older lease of the same worker is as good as the current one.
Current(t) == <<t, claims[t]>>
Held(l) == status[l[1]] = "leased" /\ holder[Current(l[1])] = holder[l]

Init ==
  /\ status = [t \in Task |-> "ready"]
  /\ claims = [t \in Task |-> 0]
  /\ holder = [l \in Lease |-> NoWorker]
  /\ committed = [t \in Task |-> {}]
  /\ running = [w \in Worker |-> FALSE]
  /\ loop = [w \in Worker |-> "idle"]
  /\ free = [w \in Worker |-> 0]
  /\ answer = [w \in Worker |-> {}]
  /\ batch = [w \in Worker |-> {}]
  /\ sem = [w \in Worker |-> 0]
  /\ exec = [l \in Lease |-> "none"]
  /\ outcome = [l \in Lease |-> "none"]
  /\ wire = {}
  /\ caller = [w \in Worker |-> "stopped"]
  /\ faults = 0

Fault == faults < MaxFaults /\ faults' = faults + 1

-----------------------------------------------------------------------------
(* Start and Stop *)

\* A Start that gets past its checks: a new loop, with a semaphore of its own.
\* (One that fails its checks puts running back, which changes nothing here.)
Start(w) ==
  /\ caller[w] = "stopped"
  /\ ~running[w]
  /\ running' = [running EXCEPT ![w] = TRUE]
  /\ loop' = [loop EXCEPT ![w] = "check"]
  /\ sem' = [sem EXCEPT ![w] = 0]
  /\ caller' = [caller EXCEPT ![w] = "started"]
  /\ UNCHANGED <<server, free, answer, batch, executing, faults>>

StopCalled(w) ==
  /\ caller[w] = "started"
  /\ running[w]
  /\ running' = [running EXCEPT ![w] = FALSE]
  /\ caller' = [caller EXCEPT ![w] = "stopping"]
  /\ UNCHANGED <<server, loop, free, answer, batch, sem, executing, faults>>

\* Mutant: Stop does not wait.
StopReturns_AtOnce(w) ==
  /\ caller[w] = "stopping"
  /\ caller' = [caller EXCEPT ![w] = "stopped"]
  /\ UNCHANGED <<server, polling, sem, executing, faults>>

\* wg.Wait: the loop, the only member of the group, has returned.
StopReturns(w) ==
  /\ caller[w] = "stopping"
  /\ loop[w] = "idle"
  /\ caller' = [caller EXCEPT ![w] = "stopped"]
  /\ UNCHANGED <<server, polling, sem, executing, faults>>

-----------------------------------------------------------------------------
(* The poll loop.  The sleeps are steps that change nothing. *)

\* Mutants: one place too many; the steps in flight are not subtracted.
LoopPolls_OneMore(w) ==
  /\ loop[w] = "check"
  /\ running[w]
  /\ sem[w] < Concurrency
  /\ free' = [free EXCEPT ![w] = Concurrency - sem[w] + 1]
  /\ loop' = [loop EXCEPT ![w] = "polling"]
  /\ UNCHANGED <<server, running, answer, batch, sem, executing, caller, faults>>
LoopPolls_AsksForAll(w) ==
  /\ loop[w] = "check"
  /\ running[w]
  /\ sem[w] < Concurrency
  /\ free' = [free EXCEPT ![w] = Concurrency]
  /\ loop' = [loop EXCEPT ![w] = "polling"]
  /\ UNCHANGED <<server, running, answer, batch, sem, executing, caller, faults>>

LoopPolls(w) ==
  /\ loop[w] = "check"
  /\ running[w]
  /\ sem[w] < Concurrency
  /\ free' = [free EXCEPT ![w] = Concurrency - sem[w]]
  /\ loop' = [loop EXCEPT ![w] = "polling"]
  /\ UNCHANGED <<server, running, answer, batch, sem, executing, caller, faults>>

LoopExits(w) ==
  /\ loop[w] = "check"
  /\ ~running[w]
  /\ loop' = [loop EXCEPT ![w] = "draining"]
  /\ UNCHANGED <<server, running, free, answer, batch, sem, executing, caller, faults>>

\* The server grants a poll up to its max of ready tasks.
Grant(w, granted) ==
  /\ loop[w] = "polling"
  /\ answer[w] = {}
  /\ granted # {}
  /\ Cardinality(granted) <= free[w]
  /\ \A t \in granted : status[t] = "ready" /\ claims[t] < MaxLease
  /\ status' = [t \in Task |-> IF t \in granted THEN "leased" ELSE status[t]]
  /\ claims' = [t \in Task |-> IF t \in granted THEN claims[t] + 1 ELSE claims[t]]
  /\ holder' = [l \in Lease |->
                  IF l[1] \in granted /\ l[2] = claims[l[1]] + 1 THEN w ELSE holder[l]]
  /\ answer' = [answer EXCEPT ![w] = {<<t, claims[t] + 1>> : t \in granted}]
  /\ UNCHANGED <<committed, running, loop, free, batch, sem, executing, caller, faults>>

PollReturns(w) ==
  /\ loop[w] = "polling"
  /\ batch' = [batch EXCEPT ![w] = answer[w]]
  /\ answer' = [answer EXCEPT ![w] = {}]
  /\ loop' = [loop EXCEPT ![w] = IF answer[w] = {} THEN "check" ELSE "dispatch"]
  /\ UNCHANGED <<server, running, free, sem, executing, caller, faults>>

\* Poll returns an error, and with it every lease of the answer is forgotten.
\* Stop cancels the poll, which is no fault.  The loop breaks when it finds
\* running false, else it goes on.
PollFails(w) ==
  /\ loop[w] = "polling"
  /\ answer' = [answer EXCEPT ![w] = {}]
  /\ \/ /\ ~running[w]
        /\ loop' = [loop EXCEPT ![w] = "draining"]
        /\ UNCHANGED faults
     \/ /\ running[w]
        /\ loop' = [loop EXCEPT ![w] = "check"]
        /\ Fault
  /\ UNCHANGED <<server, running, free, batch, sem, executing, caller>>

\* `sem <- struct{}{}` blocks while the semaphore is full.
Dispatch(w, l) ==
  /\ loop[w] = "dispatch"
  /\ l \in batch[w]
  /\ sem[w] < Concurrency
  /\ sem' = [sem EXCEPT ![w] = @ + 1]
  /\ exec' = [exec EXCEPT ![l] = "begun"]
  /\ batch' = [batch EXCEPT ![w] = @ \ {l}]
  /\ loop' = [loop EXCEPT ![w] = IF batch[w] = {l} THEN "check" ELSE "dispatch"]
  /\ UNCHANGED <<server, running, free, answer, outcome, wire, caller, faults>>

\* Mutant: the loop does not wait for its executions.
LoopDrained_AtOnce(w) ==
  /\ loop[w] = "draining"
  /\ loop' = [loop EXCEPT ![w] = "idle"]
  /\ UNCHANGED <<server, running, free, answer, batch, sem, executing, caller, faults>>

\* inflight.Wait, then the deferred wg.Done.
LoopDrained(w) ==
  /\ loop[w] = "draining"
  /\ Active(w) = {}
  /\ loop' = [loop EXCEPT ![w] = "idle"]
  /\ UNCHANGED <<server, running, free, answer, batch, sem, executing, caller, faults>>

-----------------------------------------------------------------------------
(* One execution.  Its goroutine's deferred function takes its place in the *)
(* semaphore back: `<-sem` needs one to be there.                           *)

Returns(l) ==
  /\ sem[holder[l]] > 0
  /\ sem' = [sem EXCEPT ![holder[l]] = @ - 1]
  /\ exec' = [exec EXCEPT ![l] = "done"]

\* No handler fits the task: a failure that is not retried, and no heartbeat.
Refuse(l) ==
  /\ exec[l] = "begun"
  /\ exec' = [exec EXCEPT ![l] = "calling"]
  /\ outcome' = [outcome EXCEPT ![l] = "permanent"]
  /\ wire' = wire \cup {l}
  /\ UNCHANGED <<server, polling, sem, caller, faults>>

Run(l) ==
  /\ exec[l] = "begun"
  /\ exec' = [exec EXCEPT ![l] = "running"]
  /\ UNCHANGED <<server, polling, sem, outcome, wire, caller, faults>>

\* The handler returns a result, an error or a PermanentError, and execute
\* makes the call that settles the task.
HandlerReturns(l, how) ==
  /\ exec[l] = "running"
  /\ outcome' = [outcome EXCEPT ![l] = how]
  /\ exec' = [exec EXCEPT ![l] = "calling"]
  /\ wire' = wire \cup {l}
  /\ UNCHANGED <<server, polling, sem, caller, faults>>

\* The handler returns a result that has no protobuf form: ReportSteps fails
\* before it calls the server, report logs the error, and execute returns.
ResultUnencodable(l) ==
  /\ exec[l] = "running"
  /\ outcome' = [outcome EXCEPT ![l] = "unencodable"]
  /\ Returns(l)
  /\ UNCHANGED <<server, polling, wire, caller, faults>>

\* Mutants: the place in the semaphore is kept; inflight.Done is not called; the
\* step runs again in place, as if a refused report were to be repeated.
CallReturns_KeepsPlace(l) ==
  /\ exec[l] = "calling"
  /\ l \notin wire
  /\ exec' = [exec EXCEPT ![l] = "done"]
  /\ UNCHANGED <<server, polling, sem, outcome, wire, caller, faults>>
CallReturns_NotDone(l) ==
  /\ exec[l] = "calling"
  /\ l \notin wire
  /\ sem[holder[l]] > 0
  /\ sem' = [sem EXCEPT ![holder[l]] = @ - 1]
  /\ UNCHANGED <<server, polling, exec, outcome, wire, caller, faults>>

CallReturns_RunsAgain(l) ==
  /\ exec[l] = "calling"
  /\ l \notin wire
  /\ exec' = [exec EXCEPT ![l] = "running"]
  /\ UNCHANGED <<server, polling, sem, outcome, wire, caller, faults>>

\* The call is over.  Accepted, refused or lost, execute just returns.
CallReturns(l) ==
  /\ exec[l] = "calling"
  /\ l \notin wire
  /\ Returns(l)
  /\ UNCHANGED <<server, polling, outcome, wire, caller, faults>>

\* The call fails while its request is still on the way.
CallBreaks(l) ==
  /\ exec[l] = "calling"
  /\ l \in wire
  /\ Fault
  /\ Returns(l)
  /\ UNCHANGED <<server, polling, outcome, wire, caller>>

-----------------------------------------------------------------------------
(* The server, and what may happen to a request or to a process *)

\* A report completes the task, with its result and events in one transaction;
\* a failure makes it ready again or fails it for good.  A request that is not
\* from the lease's owner is refused.
Apply(l) ==
  /\ l \in wire
  /\ wire' = wire \ {l}
  /\ \/ /\ Held(l)
        /\ outcome[l] = "ok"
        /\ status' = [status EXCEPT ![l[1]] = "completed"]
        /\ committed' = [committed EXCEPT ![l[1]] = @ \cup {l[2]}]
     \/ /\ Held(l)
        /\ outcome[l] = "retryable"
        /\ status' \in {[status EXCEPT ![l[1]] = s] : s \in {"ready", "failed"}}
        /\ UNCHANGED committed
     \/ /\ Held(l)
        /\ outcome[l] = "permanent"
        /\ status' = [status EXCEPT ![l[1]] = "failed"]
        /\ UNCHANGED committed
     \/ /\ ~Held(l)
        /\ UNCHANGED <<status, committed>>
  /\ UNCHANGED <<claims, holder, polling, sem, exec, outcome, caller, faults>>

RequestLost(l) ==
  /\ l \in wire
  /\ Fault
  /\ wire' = wire \ {l}
  /\ UNCHANGED <<server, polling, sem, exec, outcome, caller>>

\* The server reclaims a task: its lease was not extended in time.
LeaseExpires(t) ==
  /\ status[t] = "leased"
  /\ status' = [status EXCEPT ![t] = "ready"]
  /\ UNCHANGED <<claims, holder, committed, polling, sem, executing, caller, faults>>

\* The process dies, and a new one of the same id may be started.  The
\* requests it sent may still arrive.
Crash(w) ==
  /\ Fault
  /\ caller[w] # "stopped"
  /\ running' = [running EXCEPT ![w] = FALSE]
  /\ loop' = [loop EXCEPT ![w] = "idle"]
  /\ answer' = [answer EXCEPT ![w] = {}]
  /\ batch' = [batch EXCEPT ![w] = {}]
  /\ sem' = [sem EXCEPT ![w] = 0]
  /\ exec' = [l \in Lease |-> IF l \in Active(w) THEN "lost" ELSE exec[l]]
  /\ caller' = [caller EXCEPT ![w] = "stopped"]
  /\ UNCHANGED <<server, free, outcome, wire>>

-----------------------------------------------------------------------------
Loop(w) ==
  \/ LoopPolls(w) \/ LoopExits(w) \/ PollReturns(w) \/ LoopDrained(w)
  \/ \E l \in Lease : Dispatch(w, l)
  \/ ~running[w] /\ PollFails(w)

Execution(l) ==
  \/ Refuse(l) \/ Run(l) \/ ResultUnencodable(l) \/ CallReturns(l)
  \/ \E how \in {"ok", "retryable", "permanent"} : HandlerReturns(l, how)

Next ==
  \/ \E w \in Worker :
        \/ Start(w) \/ StopCalled(w) \/ StopReturns(w)
        \/ Loop(w) \/ PollFails(w) \/ Crash(w)
        \/ \E granted \in SUBSET Task : Grant(w, granted)
  \/ \E l \in Lease : Execution(l) \/ CallBreaks(l) \/ Apply(l) \/ RequestLost(l)
  \/ \E t \in Task : LeaseExpires(t)

Spec == Init /\ [][Next]_vars

-----------------------------------------------------------------------------
(* Fairness.  The Go scheduler runs every goroutine that can run, handlers  *)
(* return, and a call with WaitForReady is answered in the end: weak        *)
(* fairness.  A lease nobody works under runs out.  A server that is asked  *)
(* again and again for work grants a ready task sooner or later: strong     *)
(* fairness, for the polls come and go.  Nothing is assumed of callers,     *)
(* faults or the expiry of a lease whose step is still running.             *)

Orphaned(t) == \A l \in Lease : l[1] = t => exec[l] \notin Live

Fairness ==
  /\ \A w \in Worker : WF_vars(Loop(w)) /\ WF_vars(StopReturns(w))
  /\ \A l \in Lease : WF_vars(Execution(l)) /\ WF_vars(Apply(l))
  /\ \A t \in Task :
        /\ WF_vars(Orphaned(t) /\ LeaseExpires(t))
        /\ SF_vars(\E w \in Worker, granted \in SUBSET Task :
                     t \in granted /\ Grant(w, granted))

FairSpec == Spec /\ Fairness

-----------------------------------------------------------------------------
(* Type invariant: every variable of Worker holds a value of its kind. *)
TypeOK ==
  /\ status \in [Task -> {"ready", "leased", "completed", "failed"}]
  /\ claims \in [Task -> 0..MaxLease]
  /\ holder \in [Lease -> Worker \cup {NoWorker}]
  /\ committed \in [Task -> SUBSET (1..MaxLease)]
  /\ running \in [Worker -> BOOLEAN]
  /\ loop \in [Worker -> {"idle", "check", "polling", "dispatch", "draining"}]
  /\ free \in [Worker -> 0..Concurrency]
  /\ answer \in [Worker -> SUBSET Lease]
  /\ batch \in [Worker -> SUBSET Lease]
  /\ sem \in [Worker -> 0..Concurrency]
  /\ exec \in [Lease -> Live \cup {"none", "done", "lost"}]
  /\ outcome \in [Lease -> Outcome]
  /\ wire \subseteq Lease
  /\ caller \in [Worker -> {"stopped", "started", "stopping"}]
  /\ faults \in 0..MaxFaults

(* WithConcurrency "sets the maximum steps in flight" (worker.go:27): the    *)
(* leases a worker has asked for, received or is running never exceed it,    *)
(* so a lease it holds is never kept waiting for another step to end.        *)
WithinConcurrency ==
  \A w \in Worker :
    Cardinality(answer[w] \cup batch[w] \cup Active(w)) <= Concurrency

(* The semaphore (worker.go:406, 438, 441) counts the executions that are    *)
(* under way, through crashes and restarts, and the loop's send on it never  *)
(* blocks: a loop that dispatches has room for the rest of its batch.        *)
SemaphoreCountsExecutions ==
  \A w \in Worker :
    /\ sem[w] = Cardinality(Active(w))
    /\ loop[w] = "dispatch" => sem[w] + Cardinality(batch[w]) <= Concurrency

(* The inductive invariant behind the bound on the steps in flight: what a   *)
(* worker holds at each point of its loop, and that a lease reaches exactly  *)
(* one worker, which runs it at most once.                                   *)
LoopInv ==
  \A w \in Worker :
    /\ loop[w] = "polling" =>
         sem[w] + free[w] <= Concurrency /\ Cardinality(answer[w]) <= free[w]
    /\ loop[w] # "polling" => answer[w] = {}
    /\ loop[w] = "dispatch" => sem[w] + Cardinality(batch[w]) <= Concurrency
    /\ loop[w] # "dispatch" => batch[w] = {}
    /\ loop[w] = "idle" => Active(w) = {}
LeaseInv ==
  /\ \A w \in Worker, l \in Lease :
       l \in answer[w] \cup batch[w] => holder[l] = w /\ exec[l] = "none"
  /\ \A l \in Lease : l[2] > claims[l[1]] => holder[l] = NoWorker
  /\ \A l \in Lease : holder[l] = NoWorker => exec[l] = "none"
CallerInv ==
  \A w \in Worker :
    /\ running[w] <=> caller[w] = "started"
    /\ caller[w] = "stopped" => loop[w] = "idle"
SemaphoreInv == \A w \in Worker : sem[w] = Cardinality(Active(w))
WorkerInv == LoopInv /\ LeaseInv /\ CallerInv /\ SemaphoreInv

(* Stop "halts polling and waits for in-flight steps to finish"              *)
(* (worker.go:255): while a worker is stopped it has no loop, no batch it    *)
(* would still dispatch and no step that is running.                         *)
StopQuiesces ==
  \A w \in Worker : caller[w] = "stopped" =>
    /\ ~running[w] /\ loop[w] = "idle"
    /\ answer[w] = {} /\ batch[w] = {} /\ Active(w) = {}

(* A step's result is committed at most once, with the lease of an attempt   *)
(* that succeeded, however many attempts ran, overlapped or were reported    *)
(* late: Worker implements StepPromise.                                      *)
PhaseOf(s) == IF s \in {"ready", "leased"} THEN "open" ELSE s
AttemptOf(l) ==
  CASE outcome[l] = "ok" -> "good"
    [] outcome[l] \in {"retryable", "permanent", "unencodable"} -> "bad"
    [] outcome[l] = "none" /\ exec[l] = "none" -> "none"
    [] outcome[l] = "none" /\ exec[l] = "lost" -> "lost"
    [] OTHER -> "running"

Promise == INSTANCE StepPromise WITH
  phase <- [t \in Task |-> PhaseOf(status[t])],
  attempt <- [t \in Task |-> [n \in 1..MaxLease |-> AttemptOf(<<t, n>>)]],
  commits <- committed
KeepsPromise == Promise!Spec

(* Stop returns (worker.go:256-262), given that handlers return and calls    *)
(* are answered: nothing the loop waits for waits for the loop.              *)
StopTerminates ==
  \A w \in Worker : caller[w] = "stopping" ~> caller[w] = "stopped"

(* While some worker keeps running, every task is settled in the end, or has *)
(* been leased as often as the bound allows: leases lost with a failed poll, *)
(* a crashed process or a broken call are granted again (worker.go:57-58).   *)
TaskProgress ==
  \A t \in Task :
    (\E w \in Worker : <>[](running[w]))
      => <>(status[t] \in {"completed", "failed"} \/ claims[t] = MaxLease)
=============================================================================
