# Verification of wiggle-go

TLA+ models of the Go client and worker of the Wiggle workflow engine, checked
with TLC and, where it matters most, proved with TLAPS. The reference is the
code: every action is translated from the function `PROJECT.json` names for it
(`map`), with its guards, its early returns and the order of its effects. The
server is not in this repository; what the models say of it is what the code
and its comments rely on, and it is marked external in the map.

## The system

A program registers a *workflow* (a graph of named steps compiled from a
`Flow`) and runs *workers*. A worker polls the server for *tasks*, runs for each
the handler that is bound to its step in a goroutine of its own, keeps the
task's *lease* alive meanwhile, and *settles* the task with a report or a
failure. The server re-leases a task whose lease runs out.

| Component (source) | State it keeps | Operations | Interacts with |
|---|---|---|---|
| Worker loop and executions (`worker.go:404-522`, `611-647`) | `running`, the local semaphore, `free`, the batch, one goroutine per step | `pollLoop`, `execute`, `executeItem`, `report`, `fail` | server (poll, report, fail), handlers, heartbeat, `Start`/`Stop` |
| Start and Stop (`worker.go:234-262`) | `running`, `ctx`, `cancel`, `wg` | `Start`, `Stop` | the loops it launches, other callers |
| Heartbeat (`worker.go:650-671`) | its ticker, the channel `stop` | `startHeartbeat` | server (heartbeat), the execution it serves |
| Binding (`worker.go:114-232`, `264-359`, `526-573`; `handlers.go`) | `handlers`, `itemHandlers`, `claims`, `handlerSets`, `branchSteps`, `createdKinds`, `lazy`, `graphs`, `queues` | `Handle...`, `RegisterHandler`, `BranchSteps`, `reconcile`, `bindHandlerSet`, `handlerFor`, `bindCreated` | the registered graph, dispatch |
| StepRun (`step.go`) and staging (`combine.go`) | `emitted`, `created`, `base`, `results` | `Emit`, `Create`, `drain`, `unstage`, `spawns` | the handler and goroutines it starts, the report |
| Builders (`flow.go`, `branch.go`) | `steps`, `err`, `pending` / `allOfPending` | `Then...`, `Combine`, `Err` | the compiler, the report |
| Compiler (`workflow.go`) | `nodes`, `reserved`, `open` ends | `compile`, `appendNode`, `appendChoose`, `contentVersion` | `Client.Register` |
| Client (`client.go`, `report.go`, `value.go`) | a connection | `Register`, `Start`, `Signal`, `AwaitCompletion`, `Poll`, `ReportSteps`, `Fail`, `Heartbeat`, queries | server |
| Event feed (`feed.go`) | none (the cursor is the server's) | `PollEvents`, `AckEvents`, search and statistics | server |
| Criteria (`criteria/`) | none | constructors and `New`'s validation | `PollCriteria` |
| `internal/pb`, `proto`, `examples` | none | generated code, a sample program | |

What makes each of them hard, and what correct means:

* **Worker.** The loop computes how much it may ask for, then waits for seconds
  while executions end; a poll may fail after the server granted it; processes
  die; reports are lost, late, or made under a lease that has moved on, maybe to
  the same worker. Correct: never more than `concurrency` steps, nothing running
  after `Stop`, at most one result committed per step, no task stuck.
* **Start and Stop.** They change `running`, `ctx`, `cancel` and `wg` in separate
  statements, and may be called from several goroutines. Correct: `wg` counts
  the loops, a `Stop` outlasts the loops it stopped, and calls that take turns
  keep to the concurrency.
* **Heartbeat.** A ticker, a lease and calls that take time. Correct: a running
  step keeps its lease, and the goroutine ends with the step.
* **Binding.** Steps, methods and the graph are matched at `Start`, tasks of
  created branches only at dispatch, with caches that outlive a restart.
  Correct: a task gets a handler of its kind, what was claimed is served, and
  what can be done can be undone.
* **Builders and compiler.** Sequences of calls nobody writes a test for;
  open ends wired across nested structures. Correct: every step that was chained
  is in the graph, in order, or `Define` returns an error.
* **StepRun and staging.** Buffers drained while goroutines the handler left may
  still write; attempts that overlap; names that collide. Correct: what is
  committed is what one attempt said; a combine sees the results and the context.
* **Client, feed, criteria.** Deadlines, acknowledgements, fields that mean
  something when they are absent, limits shared by nested terms. Correct: what is
  asked is what was meant, no event is skipped, nothing is accepted that the
  server cannot evaluate.

`PROJECT.json` lists the hazards one by one, each at its line.

## Modules

| Module | Models |
|---|---|
| `Worker` | workers, executions and server: the core |
| `StepPromise` | abstract: what a step may become, whatever happens; `Worker` and `StepRun` implement it |
| `WorkerLifecycle` | `Start` and `Stop` called by any number of goroutines, and their loops |
| `Heartbeat` | the heartbeat of one step against its lease, in discrete time |
| `Binding` | binding, `Start`'s checks, lookup at dispatch |
| `StepRun` | one step's attempts from inside: `Emit`, `Create`, `drain`, the encoding of the report |
| `FlowBuilder` | a `Flow` or a `CreatedBranch` as the calls that record it |
| `Call` | a call of one of the functions: `input`, `output` |
| `Compile` | `compile`: from a recorded chain to a graph, step by step; how a worker reads that graph |
| `GraphShape` | what a compiled graph is whatever the flow: reached, wired, its names unique |
| `FlowMeaning` | reference: what a flow means, how the server walks a graph, when a flow is valid |
| `Combine` | `unstage`: what a combine's handler is given |
| `CombineMeaning` | reference: the task the engine makes of a workflow's context, and what the handler must get from it; the rule `unstage` documents |
| `Comparisons` | the comparisons of a field: how they are built, the check of one |
| `Criteria` | the constructors, `validate` and the wire form of predicates |
| `Messages` | the protocol's messages in which an absent field means something |
| `Answers` | how the client reads what comes back |
| `AnswersMeaning` | reference: what the server has to say, and what the caller should make of it |
| `ControlPlane` | what the client sends |
| `ControlPlaneMeaning` | reference: what was asked, and what the server takes a message to mean |
| `Await` | `AwaitCompletion` against the instance, in discrete time |
| `EventFeed` | a consumer of the event log, its failures and restarts |
| `Caller` | composes `Await` and `EventFeed`: the program of the integration tests |
| `WorkerProofs`, `WorkerLifecycleProofs`, `HeartbeatProofs`, `BindingProofs`, `StepRunProofs`, `FlowBuilderProofs`, `CallerProofs`, `AlgorithmProofs` | theorems |
| `MC...` | instances for TLC; `MCAlgorithms` enumerates the inputs of the functions, with those of `MCCombine` |

`FlowMeaning`, `Criteria`, `ControlPlane`, `ControlPlaneMeaning` and `MCAlgorithms`
use RECURSIVE operators: they are for TLC only, and nothing with a theorem reaches
them. What needs none of these is in a module beside them (`Compile`, `GraphShape`,
`Comparisons`, `Answers`, `AnswersMeaning`), which the theorems are about.

### Worker

One poll loop per worker (`loop`: idle, check, polling, dispatch, draining), its
semaphore `sem`, the local `free`, the leases granted to a poll that has not
returned (`answer`) and those returned but not dispatched (`batch`). An
execution is named by its lease `<<task, n>>`: `exec` says where `execute` is
(begun, running, calling, done, or lost with its process), `outcome` how its
handler ended, `wire` which requests are on their way. The server is `status`,
`claims` (how often a task was leased), `holder` (to whom) and `committed`.

| Action | Code |
|---|---|
| `Start`, `StopCalled`, `StopReturns` | `Start`; `Stop` up to and from `wg.Wait` |
| `LoopPolls`, `LoopExits`, `PollReturns`, `PollFails`, `Dispatch`, `LoopDrained` | the statements of `pollLoop`; its sleeps change nothing |
| `Refuse`, `Run`, `HandlerReturns`, `ResultUnencodable`, `CallReturns`, `CallBreaks` | the ways through `execute` |
| `Grant`, `Apply`, `LeaseExpires`, `RequestLost`, `Crash` | server, network, process |

`lease_owner` names the worker and nothing else tells two leases of one task
apart, so a request under an older lease of the same worker counts as the
holder's (`Held`). Which handler runs is `Binding`'s matter; here a task may be
refused or run. A lease may expire at any time, so that no property depends on
heartbeats. One caller per worker starts and stops it in turn; several are `WorkerLifecycle`'s
matter.

`StepPromise` is the abstract view: attempts begin, end well or badly or are
lost with their process, and one good attempt may be committed, once.
`KeepsPromise` maps `status`, `exec`, `outcome` and `committed` to it.

### WorkerLifecycle

A step per statement of `Start` and `Stop` at which another goroutine can
intervene: the swap of `running`, the checks (they may wait for a
registration), the making of `ctx` and `cancel`, `wg.Add` with the launch,
`cancel()`, `wg.Wait()`. `wg.Wait` is more than a guard, and what is more about it is
where several callers meet:

| Action | `sync.WaitGroup` |
|---|---|
| `StopWaitsOrSleeps` | `Wait` passes at zero, and sleeps otherwise |
| `SleepersReleased` | the `Done` that came to zero lets the sleepers go, in a step of its own |
| `StopWakes` | a sleeper goes on, and panics if the group is in use again (`worker.go:261`) |
| `StartLaunches`, `StartMisusesAdd` | `Add` and the loop; it panics while there are sleepers at zero (`worker.go:249`) |

So a loop may be launched after the counter came to zero and before the waiting
`Stop` has returned, and a call may panic, as in the code. The other callers go on after
a panic, as when the caller recovers it; what a process that dies of it does is a
prefix of that. Two variables are history: `stops`, the loops a `Stop` found alive when
it turned `running` off, and `overlapped`, whether two calls were ever under way at
once. `w.ctx` is read by a loop with no synchronisation while
another `Start` may write it: `LoopPolls` picks any value it may see. Loops are
numbered by launch, contexts by their making (0 is nil).

### Heartbeat

Time advances in ticks of a quarter of a second, as what is left of the lease,
what is left until the ticker fires, and how long the heartbeat under way has
taken; no clock grows without end. A heartbeat takes up to `MaxDelay`, and a step
starts up to `MaxDelay` after its lease was granted. The select may choose the
tick although `stop` is closed.

### Binding

One workflow and at most one `RegisterHandler` struct. A step is its canonical
name, a handler the kind of step its function fits, an activity a step's `do` or
`undo`. `Start` is two steps, since it fetches the graph twice: once for the
claims, once for the handler struct. Each succeeds or fails, and a failure leaves
behind what the code leaves behind (noted kinds, the bindings installed before a
duplicate). `NewVersion` replaces the registered graph at any time, between those
two steps too. Left out: queues, panics on a duplicate (no step), two steps whose
names fold to the same one, a gate in a forEach's body.

### StepRun

One step, its attempts, and a goroutine each handler may leave behind. `st` says
where an attempt's `execute` is; `buffer` and `created` are the fields of its
`StepRun`, `drained` what `drain` returned, `report` what was encoded. `said` and
`whole` note what there was when the handler returned, for the properties. A
branch drained is still the handler's pointer, so that a goroutine may chain onto
it until it is encoded (`Extend`, `Encode`). Each call of `Emit`, `Create` and `drain`
holds the mutex and is one step. The server settles a step once (`Settle`), also
by a report whose call has failed on the worker.

### Compile, Combine, Criteria, ControlPlane

The compiler is a state machine. The code's functions call one another down the
nested chains and share one graph; in `Compile` that graph is `nodes`, `names` are
the names it has reserved, and `builders` is the stack of the builders at work, each
but the last waiting for a chain inside the step it has come to. A builder has the
steps still to do, its open ends (pairs of a node and an edge), the start of its
chain and the join around it; while it waits, the node of its step and the starts of
the chains built so far.

| Action | Code |
|---|---|
| `AppendTask`, `AppendGate`, `AppendSleep`, `AppendSubFlow`, `AppendSignal`, `AppendFork`, `AppendForEach`, `AppendChoose`, `AppendLoop` | a case of `appendNode`, up to its first inner chain |
| `EscalationBuilt`, `ArmBuilt`, `BodyBuilt`, `CaseBuilt`, `LoopBuilt` | the same case, each time an inner chain returns (`sub`, `buildBranch`, `collectCase`) |
| `CompileEnds`, `CompileFails` | `addEnd` and the return of `compile`; `fail`, which it recovers |

Its reference is `FlowMeaning`,
written from what a flow says: `FlowRuns` gives the runs of a chain, as sequences of
events, without any graph; `GraphRuns` those of the server's walk over a graph. The
two must be equal (`RunsAsDeclared`). In `Combine` a key is a triple of prefixes and
a name, so that no two keys are confused that are different strings; the workflow's
own keys are those without a prefix. In `Criteria` a
literal is its kind; the server's types and limits are in the definitions' terms
(`AcceptsWhatServerTakes`). In `ControlPlane` a value is its kind, with a value that
has no form (`"broken"`) and a nil map apart from nil; `Messages` gives each message
as its zero value, built with `EXCEPT`, so that a field nobody sets is what its
getter returns. `ControlPlaneMeaning` and `AnswersMeaning` say what was asked, told and understood,
from the documentation of the calls and the comments of the protocol. These four are
functions: one step from the input to the output.

### Await, EventFeed, Caller

`Await` counts what is left until the deadline, and of the call or pause under way.
`EventFeed` is the loop of the integration test: poll, see to each event, acknowledge
the last one's cursor. Its log has shards; an answer mixes them, and a cursor is a
place in each. The program may die, or its call fail, at any step; an
acknowledgement that failed may arrive later. `Caller` runs one after the other, over
a server where each transition of an instance is an entry of the log.

### FlowBuilder

One chain under construction: `steps`, `failed` (`err` is set), `pending`, and the
`stages` that `ThenAllOf` and `ThenForEach` returned, each with the number of steps
there were and what was pending when it was opened. The program may make any
call next, on the chain or on any stage it holds. One action per method of
`Flow` (`Flow...`, `ForkCombine`, `ForEachCombine`) and of `CreatedBranch`
(`Branch...`, `ArmsCombine`), since the two differ: a `Flow` refuses a step while a
stage waits, a branch appends it; a branch checks names and arguments when it is
called, a `Flow` leaves many of them to `compile` (an argument that is "flawed").
`Define` and `Drain` decide what becomes of the chain. Arms and bodies, which
callbacks build on chains of their own, come as what they turned out to be.

## Runs

| Run | Instance | Shows |
|---|---|---|
| `worker_capacity` | 1 worker, concurrency 2, 3 tasks, 1 fault | type invariant; never more than `concurrency` leases held or running; the semaphore counts executions and its send never blocks; stopped means quiet |
| `worker_overlap` | 2 workers, 1 task leased twice, 1 fault | `Worker` implements `StepPromise`; the inductive invariant holds; `Stop` returns; no task is stuck while a worker runs |
| `lifecycle_many` | 3 callers, 2 starts | however calls overlap: the wait group is right, a `Stop` that turned `running` off outlasts the loops it found, and only a `Start` still in its checks lets a `Stop` call a nil `cancel`; as long as calls take turns: never more than `concurrency` steps, every `Stop` waits, and returns |
| `lifecycle_restart` | 2 callers | **violated**: `Start` during a `Stop` doubles the concurrency |
| `heartbeat_faulty` | lease 4 s, delays to 3/4 s, one failing call | the lease is kept until a heartbeat fails; the goroutine ends |
| `binding_start` | 2 steps, 2 calls, 1 change of graph at any moment | what `Start` accepts fits the graph it was checked against, is served and can be undone |
| `step_attempts` | 2 attempts, each 2 events and 1 branch of 1 step | events and branches committed are one attempt's, whole and in order; `StepRun` implements `StepPromise` |
| `flow_chains` | up to 5 calls on a chain | a stage that waits can be combined; stages opened in turn are in their place |
| `flow_forgotten` | up to 4 calls | **violated**: `Define` accepts a flow that lost a stage |
| `algorithms` | every flow of up to 3 steps with two kinds of leaves or up to 3 of all kinds, forks whose two arms have 4 together, combine tasks over 3 keys, predicates to one level past the limit, calls and answers | see below |
| `combine_clash` | the same combine tasks | **violated**: a name that is also a key of the context is refused only when a result is staged for it |
| `caller_consumer` | 2 shards, 4 events, batches of 2, 1 failure | `AwaitCompletion` tells the truth; no event is skipped; each is handled in the end |

`algorithms` asks one question of each function: the graph runs as the flow is
declared (`RunsAsDeclared`), but for a wait shorter than a millisecond, all of it is
reached and wired (`NoLooseEnds`), `compile` refuses what is invalid and nothing else
(`RefusesInvalid`), a worker reads from the graph what a step is (`RolesAreRead`); a
combine gets every result and the context without it, or is refused
(`CombineSeesBoth`); a criteria is accepted when it names a queue and the server can
evaluate it (`AcceptsWhatServerTakes`); a message means what the caller asked
(`RequestsMeanWhatIsSaid`), and an answer is read as it was given
(`AnswersReadAsGiven`). The input is chosen, then a flow is compiled step by step, and
every other function computed in one. TLC also evaluates `FlowsAreClosed`: the flows
it enumerates are made of a set of steps as the theorems about the compiler assume.

Two of them hold with an exception that is part of their statement. Every handler meets
both kinds of step in `RequestsMeanWhatIsSaid`, since `handlerFor` looks at no step of a
graph and a later version may have changed its kind: what fits badly is refused, but a
gate's handler on a task is not, and its bool replaces the context. And a timeout
shorter than a millisecond is none to the server, in a graph and in a branch: the
inputs have one, durations being counted in half milliseconds. Neither is what the
docs promise; see below.

**Bounds.** `MaxLease`, `MaxFaults`, `MaxStarts`, `MaxCalls`, `MaxGraphs`,
`MaxBreaks` bound what would grow without end, in guards. Three tasks and
concurrency 2 are the least with which a batch can arrive while a step runs
and still be too large; two leases of one task are what an overlap needs, and
two workers make it an overlap of processes; one fault is enough to lose a
report, a poll, or a process, and the proofs cover any number. Two starts make
two loops, of which the second may follow a complete stop or overlap the first;
three callers are a `Start`, the `Stop` that waits and another `Stop`. Two binding calls
are a claim and a struct, or a claim and its undo. In `worker_overlap` each worker
has room for one step, so two attempts on one worker overlap only through a late
report; two steps at once are in `worker_capacity` and in the proofs. Five calls
on a chain are two stages, their `Combine`s and a step between. `MaxEvents` (7) cuts
the runs that are compared: longer than one round of any loop in a flow of these
sizes, and the same on both sides. Three steps put each kind of step in each other
kind, and one beside it. The limits of criteria (3, 4 and 2) are small so that
each is reached from below and exceeded. Two events and a branch per attempt are a
half-drained buffer; with calls and pauses of up to one tick, the deadline of a timeout
of one passes in a call or in a pause.

**Fairness** (`FairSpec`). The Go scheduler runs every goroutine that can run, and
handlers return: weak fairness of the loop, of each execution, of `Stop`'s
steps. Calls with `WaitForReady` are answered in the end: weak fairness of
`Apply` and of the heartbeat's answer. In `WorkerLifecycle` a `Start` that
passed its checks and the release of a wait group's sleepers go on too; a poll need not
be answered, only a cancelled one must fail, which gRPC does. A lease nobody
works under runs out. A ready task is granted in the end: strong fairness of
`Grant`, since polls come and go. A Go select with two ready cases chooses
at random: strong fairness of `StopSeen`. No fairness of callers, faults, crashes
or the expiry of a lease that is worked under. In `Caller` the program's own steps
and its calls go on, and a program that died is started again by whoever runs it
(weak fairness of each); no fairness of instances, failures or late
acknowledgements.

**Deadlock** is checked wherever the system must go on; a heartbeat that has
ended, a flow that is defined, a step that is settled, a program that has read
a full log and a function that is computed stop for good (`CHECK_DEADLOCK FALSE`).

Each property of a passing run has a mutant: a changed copy of one definition,
just above it and commented as such, under which TLC finds it violated.

## Proofs

All for every value of the constants that satisfies the named assumptions of the
modules (finite sets of workers, tasks, callers and steps; positive concurrency; for
the heartbeat, a delay shorter than the interval and the lease; for the program, times
that are numbers and a log of finitely many shards). No bound on faults, leases,
starts or calls enters an argument except as the guard that has it. Each module has
the types first, then an inductive invariant (TLC checked it on the module's run
before it was proved), then what follows from it.

* `WorkerProofs`. `TypeCorrect`, then `InvCorrect`: `WorkerInv` is inductive
  with the types. `WithinConcurrency` and `StopQuiesces` alone are not: the bound
  on a batch follows only if `free` was computed from a semaphore that has since
  gone down (`LoopInv`), the semaphore counts the executions (`SemaphoreInv`),
  a lease is held by one worker and executed at most once (`LeaseInv`), and a
  stopped caller has an idle loop (`CallerInv`). From it follow
  `SemaphoreCounts`, `ConcurrencyRespected` and `StopIsQuiet`. `PromiseKept` is
  the refinement: with the further invariant that a request on the wire or a
  commit belongs to an attempt that ended so, each step of `Worker` is a step of
  `StepPromise` or a stutter.
* `WorkerLifecycleProofs`, all for any number of callers. `TypeCorrect` (the wait group
  never goes below zero) and `WaitGroupIsRight`, through every panic. `StopOutlasts`: a
  `Stop` that turned `running` off and has returned left none of the loops it found
  alive. That `wg` is zero when it goes on is not enough, since its sleep ends before
  it looks again: the invariant says that from the release of a sleeper on, what it
  found has returned, while newer loops may run. `NilCancelOnlyInOverlap`: when
  `running` is true and no context was ever made, some `Start` is in its checks.
  `EachLoopWithinConcurrency`: what is left of the limit when loops overlap,
  `Concurrency` steps for each loop in the wait group. For calls that take turns:
  `TurnsKeepConcurrency` and `TurnsStopWaits`, from the invariant that one caller at
  most is in a call, and one loop at most is alive and none from the return of a `Stop`
  to the next launch. The hypothesis cannot be dropped: `lifecycle_restart` shows two
  loops with two callers.
* `HeartbeatProofs`. `TypeCorrect`, and `AmpleLeaseKept`: a lease longer than the
  interval and twice the longest delay is kept until a heartbeat fails; the invariant
  is what is left of the lease at each point of the round. `IntervalWithinLease`: the
  interval is shorter than the lease just when the lease exceeds a second: with
  a shorter one the first heartbeat comes when the lease is over.
* `BindingProofs`. `BoundFits`, `ClaimsServed` and `UndoServed` speak of a running
  worker, while what decides them was bound by calls long before, by a `Start` that
  failed, or was checked against a graph that has changed since. `Inv` says what
  outlives those: what is claimed is bound to a handler of its kind (`ClaimsBound`)
  and what is bound but not claimed is a method's (`RestIsMethods`), in every phase;
  from the check of the claims on, they fit the graph it looked at (`KnownFits`), and
  once running, the methods fit the one they were matched with (`SeenFits`).
* `StepRunProofs`. An event carries its attempt and its number wherever it is kept, in
  the buffer, drained or reported (`Numbered`); what is drained is what the handler
  said, and more only if it left a goroutine (`EventsKept`); a branch only grows once
  its handler returned, and a mistake on it stays (`BranchesKept`); a completed step
  holds one attempt's report (`Settled`). From it `CommitsWhatWasSaid` and
  `StartsWholeBranches`, for any number of attempts whose goroutines run on through
  each other's reports, and `PromiseKept`, the refinement of `StepPromise`.
* `FlowBuilderProofs`. `TypeCorrect`; `PendingCanBeCombined` and `StagesInPlace` for any
  number of calls. Each action has one of six effects on the chain (`Effects`), and the
  invariant says of each stage that it is the one that waits or stands in its
  place (`InOrder`). It assumes what `StagesKept` assumes: no stage opened while
  another waits, and none combined twice, which in a `Flow` `compile` sees to.
* `CallerProofs`. `AwaitIsTruthful`: `AwaitInv` binds what is left until the deadline to
  what is left of the call or the pause, so that a running instance a call saw had not
  ended a call's time before it (`ended`). `ConsumerSkipsNothing`: the place, every
  acknowledgement on its way and the batch's cursors lie in the log and have everything
  promised before them handled (`Covered`), and a batch goes on from the place without
  a gap (`Chained`); the merging of shards in `E!Answers` keeps that.
* `AlgorithmProofs`, first the functions without recursion. `CombineHandsOverBoth`: for
  every context of plain keys, every set of names and every results, `unstage` hands
  over what `SeesBoth` says; `HandlersSeeBoth` is the run's property. From the lemmas
  that the first outcome of one's own run is the one found and that a value comes back
  as the kind it was, `AnswersReachTheCaller`; its hypothesis is that the mark of a field
  that is not set is none of the values of one that is (`AbsentIsApart`).
  `ComparisonsAreComparable`: the check of a comparison with any number of literals
  passes just when the server can evaluate it.
* `AlgorithmProofs`, then the compiler, for flows of any length and depth made of any set
  of steps (`Closed(Steps)`: the chains inside a step of the set are of the set too).
  `GraphsHaveNoLooseEnds` is no induction over the flow: the nesting is in the stack of
  builders, so an invariant of the stack and the graph is enough. It has five parts
  (`Good`). `GraphOK`: edges lead to nodes of the graph, and which may still be missing
  depends on the kind. `Levels`: what each builder has to do, its open ends and its start
  are of this graph, and one that waits stands at the node of its step. `Apart`: no edge
  is the business of two builders. `Owed`: an edge that is missing is an open end of some
  builder, or one its step sets when it resumes. Without it a wired graph at the end would
  not follow. `Reached`: a set of nodes that is closed under edges and under what the
  builders still have to connect, and has the first start in it, has every node.
  Reachability is stated so because a step changes edges all over the graph, and a
  path would have to be rebuilt; closed sets need only be compared. Each of the fourteen actions
  keeps the five parts, most of them through three lemmas (`Appends`, `ReturnsInOrder`,
  `Rewired`) that say what a step may do. At the end nothing is owed, so the graph is
  wired, and the only closed set is all of it; that the reached nodes are closed after
  as many steps as there are nodes (`ReachesAll`) follows, since they can grow at most that often.
* `NamesAreDistinct`, in the same module: every step of an accepted graph has a name and
  no two have the same, whatever was wired when. The invariant adds to `Good` that
  each node with a name to find it by has one that is taken and its own (`Distinct`);
  it must hold through the steps that set edges of old nodes, which is where `Good`
  is needed. No run lists `NamesAreUnique`: a name that is reserved twice shows as a
  flow that `RefusesInvalid` says is wrong.

Only model-checked: the liveness properties (`StopTerminates`, `TaskProgress`,
`HeartbeatEnds`, `EventsHandled`), since liveness under fairness and `ENABLED` are out
of this prover's reach; and, of the functions over nested data, those whose meaning is
itself recursive: that a graph runs as its flow says (`RunsAsDeclared`), that just the
invalid flows are refused (`RefusesInvalid`), what a worker reads from a graph
(`RolesAreRead`), nested predicates (`AcceptsWhatServerTakes`) and the chains in a
request (`RequestsMeanWhatIsSaid`). Those need an induction over data, and RECURSIVE
operators, which the provers do not have. They are checked over all inputs up to
their bounds.

## What the checks found

Three violated runs are real disagreements between the code and its own comments;
`PROJECT.json` quotes each: a `Start` during a `Stop` doubles the concurrency
(`worker.go:406`), `Define` accepts a flow that lost a stage (`flow.go:185`), and a
combine whose arm or forEach has the name of a key of the context is refused only when
a result is staged for it (`combine.go:34`).

Further ones, seen while modelling, without a run of their own:

* Start and Stop: a `Stop` that overlaps the first `Start` calls a nil `cancel`
  (`worker.go:260`); `NilCancelNeedsOverlap` says that it takes such an overlap. A `Start`
  that overlaps a waiting `Stop` may make `sync.WaitGroup` panic, in its `Add`
  (`worker.go:249`) or in the `Wait` (`worker.go:261`), or launch a loop before that
  `Stop` returns. A second `Stop` returns at once while the first still waits
  (`worker.go:257`). `reconcile` writes `queues` and `handlers` while an old loop
  reads them, when a `Start` overlaps a `Stop` (`worker.go:329`, `226`).
* Reports: a result with no protobuf form is never sent, and its task stays leased
  and runs again (`report.go:53-56`, against `worker.go:633`).
* Heartbeat: with a lease of a second or less the first one comes too late
  (`worker.go:653`, theorem `IntervalWithinLease`); it gives up at the first error of
  any kind (`worker.go:664`).
* Binding: the handler bound on first dispatch is kept by activity alone
  (`worker.go:551`, against `worker.go:529`); a restart with a handler struct fails,
  since its own bindings are duplicates (`handlers.go:273`); of two steps that fold
  to one name only the first is bound (`handlers.go:293-304`); a gate in a forEach's
  body compiles and binds, but its items go to `executeItem`, which fails them for
  good (`worker.go:613`); a worker whose claims are all branch steps learns no queue.
* Polls: the hold-off is ignored when the answer has tasks (`worker.go:430`);
  `WithCriteria` says it replaces `WithQueues` (`worker.go:48`), while `checkCriteria`
  refuses both (`worker.go:594`).
* Branches: a stage is forgotten as in a flow (`branch.go:204`), and what is chained
  while a stage waits comes before it; the flag `keyed` is recorded and never read
  (`branch.go:24`), so an empty key is no key.
* Steps whose kind changed in a later version: a gate's handler runs on what is now a
  task, and its bool replaces the context (`worker.go:531-533`, `518-519`).
* Values: a timeout below a millisecond becomes 0, which is none, though a positive
  timeout "fails the instance when it passes" (`branch.go:129-130`, `145`,
  `workflow.go:409`); integers beyond 2^53 are rounded (`value.go`); a nil map as an
  item's result or a branch's input is sent as an empty one; `MaxText` counts bytes
  (`criteria.go:240`); a loop's bound is cut to 32 bits after it was checked
  (`branch.go:228`).
* `AwaitCompletion`: a call that hangs outlives the timeout; an answer without an
  instance is dereferenced (`client.go:242`), which `Await` has as a panic
  (`AnswerMissing`).

## Plan

Done: the worker, its lifecycle, heartbeat and binding; the builders and the compiler;
`StepRun`, staging and reports; criteria; the calls in which an absent field means
something; waiting and consuming; every safety invariant of these but five over nested data as a
theorem. What is left, in order of weight:

1. `Binding` with queues, and with names that fold.
2. `Await` with a call that does not return.
3. Theorems: `RolesAreRead`, with what a node is for noted in the state of the
   compiler, so that no recursion over the flow is needed to say it.

## Not modelled

Of the generated code (5930 lines, protoc's): reflection, stubs, and the messages
whose fields are copied one by one. Of the client: register, cancel, signal,
schedules, health, statistics, coverage and the hits of a search, each of which builds
one message and decodes one answer, with no state and no absent field that means
something; `Connect`. The examples. Queues and retry policies inside a graph, the
default loop budget and the version hash of a graph, which nothing reads back.
Formatting of errors and logging. The engine behind the server's interface, but for
what the models need of it, marked external.
