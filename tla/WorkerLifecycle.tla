-------------------------- MODULE WorkerLifecycle --------------------------
(***************************************************************************)
(* Worker.Start and Worker.Stop (worker.go:234-262), statement by          *)
(* statement, called by any number of goroutines, and the poll loops they  *)
(* launch (worker.go:404-447).  A step here is what one goroutine does     *)
(* between two points at which another can intervene: the compare-and-swap *)
(* on `running`, the checks of Start (which may wait for a registration),  *)
(* the assignment of w.ctx and w.cancel, wg.Add and the launch of the      *)
(* loop, cancel, wg.Wait.                                                  *)
(*                                                                         *)
(* A Wait that finds the counter above zero sleeps.  The Done that takes   *)
(* the counter to zero lets the sleepers go in a step of its own, and a    *)
(* sleeper goes on in another; Go's WaitGroup panics where an Add falls    *)
(* between two of them.  A caller that panicked takes no further step: the *)
(* others go on as they do when it recovers the panic, and every behaviour *)
(* of a process that the panic ends is a prefix of one modelled here.      *)
(***************************************************************************)
EXTENDS Naturals, FiniteSets

CONSTANTS
  Caller,       \* the goroutines that call Start and Stop
  Concurrency,  \* WithConcurrency
  MaxStarts     \* bound: Starts that get as far as making a context

ASSUME LifecycleAssumption ==
  IsFiniteSet(Caller) /\ Concurrency \in Nat \ {0} /\ MaxStarts \in Nat \ {0}

VARIABLES
  pc,         \* caller -> where it is in Start or Stop
  running,    \* Worker.running
  context,    \* Worker.ctx and Worker.cancel: 0 is nil, n the n-th context made
  cancelled,  \* the contexts whose cancel was called
  wg,         \* Worker.wg's counter
  loop,       \* loop -> where it is; loop n is the one launched n-th
  born,       \* loop -> Worker.ctx when it was launched
  pollsWith,  \* loop -> the context of the poll under way, 0 when there is none
  steps,      \* loop -> its executions under way, which is len(sem) too
  stops,      \* history: caller -> the loops alive when its Stop turned running off
  overlapped  \* history: two calls have been under way at once

loops == <<loop, born, pollsWith, steps>>
history == <<stops, overlapped>>
vars == <<pc, running, context, cancelled, wg, loops, history>>

LoopId == 1..MaxStarts
LoopPlace == {"none", "check", "asking", "polling", "draining", "returned"}
CallerPlace == {"out", "checking", "launching", "cancelling", "waiting", "asleep", "woken",
                "passed", "returned", "panicked"}

\* The steps in flight, over all loops, each a place in its loop's semaphore,
\* and the loops that have not returned.
PlacesTaken == UNION {{n} \X (1..steps[n]) : n \in LoopId}
InFlight == Cardinality(PlacesTaken)
Alive == {n \in LoopId : loop[n] \in {"check", "asking", "polling", "draining"}}

Init ==
  /\ pc = [c \in Caller |-> "out"]
  /\ running = FALSE
  /\ context = 0
  /\ cancelled = {}
  /\ wg = 0
  /\ loop = [n \in LoopId |-> "none"]
  /\ born = [n \in LoopId |-> 0]
  /\ pollsWith = [n \in LoopId |-> 0]
  /\ steps = [n \in LoopId |-> 0]
  /\ stops = [c \in Caller |-> {}]
  /\ overlapped = FALSE

Goes(c, from, to) == pc[c] = from /\ pc' = [pc EXCEPT ![c] = to]
Moves(n, from, to) == loop[n] = from /\ loop' = [loop EXCEPT ![n] = to]

\* A caller that is in neither Start nor Stop; a call that begins.
Idle(c) == pc[c] \in {"out", "returned"}
Enters(c) == overlapped' = (overlapped \/ \E d \in Caller \ {c} : ~Idle(d))

\* The callers asleep in wg.Wait: the waiters that the WaitGroup counts.
Sleepers == {c \in Caller : pc[c] = "asleep"}

-----------------------------------------------------------------------------
(* Start.  One that finds running set returns nil and has done nothing. *)

StartSwaps(c) ==
  /\ Goes(c, "out", "checking")
  /\ Enters(c)
  /\ ~running
  /\ running' = TRUE
  /\ UNCHANGED <<context, cancelled, wg, loops, stops>>

\* Mutant: a Start that fails forgets to put running back.
StartFails_StaysRunning(c) ==
  /\ Goes(c, "checking", "out")
  /\ UNCHANGED <<running, context, cancelled, wg, loops, history>>

\* checkCriteria or reconcile returns an error.
StartFails(c) ==
  /\ Goes(c, "checking", "out")
  /\ running' = FALSE
  /\ UNCHANGED <<context, cancelled, wg, loops, history>>

\* The checks are passed: w.ctx, w.cancel = context.WithCancel(...).
StartMakesContext(c) ==
  /\ context < MaxStarts
  /\ Goes(c, "checking", "launching")
  /\ context' = context + 1
  /\ UNCHANGED <<running, cancelled, wg, loops, history>>

\* w.wg.Add(1); go w.pollLoop()
StartLaunches(c) ==
  /\ wg = 0 => Sleepers = {}
  /\ Goes(c, "launching", "out")
  /\ wg' = wg + 1
  /\ \E n \in LoopId :
       /\ \A m \in LoopId : m < n <=> loop[m] # "none"
       /\ loop' = [loop EXCEPT ![n] = "check"]
       /\ born' = [born EXCEPT ![n] = context]
  /\ UNCHANGED <<running, context, cancelled, pollsWith, steps, history>>

\* wg.Add between the Done that took the counter to zero and the release of
\* its waiters: "WaitGroup misuse: Add called concurrently with Wait".  No loop
\* is launched, and the Done clears the counter, or panics too.
StartMisusesAdd(c) ==
  /\ wg = 0 /\ Sleepers # {}
  /\ Goes(c, "launching", "panicked")
  /\ UNCHANGED <<running, context, cancelled, wg, loops, history>>

-----------------------------------------------------------------------------
(* Stop *)

StopSwaps(c) ==
  /\ Goes(c, "out", "cancelling")
  /\ Enters(c)
  /\ running
  /\ running' = FALSE
  /\ stops' = [stops EXCEPT ![c] = Alive]
  /\ UNCHANGED <<context, cancelled, wg, loops>>

\* The swap fails, and Stop returns.
StopFindsItStopped(c) ==
  /\ Goes(c, "out", "returned")
  /\ Enters(c)
  /\ ~running
  /\ UNCHANGED <<running, context, cancelled, wg, loops, stops>>

\* Mutant: the poll under way is not cancelled.
StopCancels_Nothing(c) ==
  /\ IF context = 0 THEN Goes(c, "cancelling", "panicked")
                    ELSE Goes(c, "cancelling", "waiting")
  /\ UNCHANGED <<running, context, cancelled, wg, loops, history>>

\* w.cancel(), a call of a nil function when no Start has got that far.
StopCancels(c) ==
  /\ IF context = 0 THEN Goes(c, "cancelling", "panicked")
                    ELSE Goes(c, "cancelling", "waiting")
  /\ cancelled' = IF context = 0 THEN cancelled ELSE cancelled \cup {context}
  /\ UNCHANGED <<running, context, wg, loops, history>>

\* Mutant: Stop does not wait.
StopWaitsOrSleeps_Never(c) ==
  /\ Goes(c, "waiting", "passed")
  /\ UNCHANGED <<running, context, cancelled, wg, loops, history>>

\* w.wg.Wait() passes when the counter is zero, and sleeps when it is not.
StopWaitsOrSleeps(c) ==
  /\ IF wg = 0 THEN Goes(c, "waiting", "passed") ELSE Goes(c, "waiting", "asleep")
  /\ UNCHANGED <<running, context, cancelled, wg, loops, history>>

\* The last wg.Done lets every sleeper go.
SleepersReleased ==
  /\ wg = 0 /\ Sleepers # {}
  /\ pc' = [c \in Caller |-> IF c \in Sleepers THEN "woken" ELSE pc[c]]
  /\ UNCHANGED <<running, context, cancelled, wg, loops, history>>

\* A sleeper let go looks at the counter and the waiters again, and panics if
\* they are in use: "WaitGroup is reused before previous Wait has returned".
StopWakes(c) ==
  /\ IF wg = 0 /\ Sleepers = {} THEN Goes(c, "woken", "passed")
                                ELSE Goes(c, "woken", "panicked")
  /\ UNCHANGED <<running, context, cancelled, wg, loops, history>>

StopReturns(c) ==
  /\ Goes(c, "passed", "returned")
  /\ UNCHANGED <<running, context, cancelled, wg, loops, history>>

\* The caller goes on to its next call.
Leaves(c) ==
  /\ Goes(c, "returned", "out")
  /\ stops' = [stops EXCEPT ![c] = {}]
  /\ UNCHANGED <<running, context, cancelled, wg, loops, overlapped>>

-----------------------------------------------------------------------------
(* A poll loop *)

LoopChecks(n) ==
  /\ Moves(n, "check", "asking")
  /\ running
  /\ steps[n] < Concurrency
  /\ UNCHANGED <<pc, running, context, cancelled, wg, born, pollsWith, steps, history>>

LoopExits(n) ==
  /\ Moves(n, "check", "draining")
  /\ ~running
  /\ UNCHANGED <<pc, running, context, cancelled, wg, born, pollsWith, steps, history>>

\* The loop reads w.ctx each time it polls.  A Start that runs at the same time
\* writes it with no synchronisation between them: the loop may see the context
\* it was launched under or the newest one.
LoopPolls(n) ==
  /\ Moves(n, "asking", "polling")
  /\ \E seen \in {born[n], context} : pollsWith' = [pollsWith EXCEPT ![n] = seen]
  /\ UNCHANGED <<pc, running, context, cancelled, wg, born, steps, history>>

\* The poll is answered, with as many tasks as there is room for or fewer
\* (none: the loop sleeps); each is dispatched to a goroutine.  An answer may
\* win over a cancellation.
PollAnswered(n) ==
  /\ Moves(n, "polling", "check")
  /\ \E k \in steps[n]..Concurrency : steps' = [steps EXCEPT ![n] = k]
  /\ pollsWith' = [pollsWith EXCEPT ![n] = 0]
  /\ UNCHANGED <<pc, running, context, cancelled, wg, born, history>>

\* The poll fails.  The loop breaks if running is false by now, and sleeps and
\* goes on if not.
PollFails(n) ==
  /\ IF running THEN Moves(n, "polling", "check") ELSE Moves(n, "polling", "draining")
  /\ pollsWith' = [pollsWith EXCEPT ![n] = 0]
  /\ UNCHANGED <<pc, running, context, cancelled, wg, born, steps, history>>

StepEnds(n) ==
  /\ steps[n] > 0
  /\ steps' = [steps EXCEPT ![n] = @ - 1]
  /\ UNCHANGED <<pc, running, context, cancelled, wg, loop, born, pollsWith, history>>

\* Mutants: wg.Done is called twice; the loop does not wait for its steps.
LoopReturns_DoneTwice(n) ==
  /\ Moves(n, "draining", "returned")
  /\ steps[n] = 0
  /\ wg' = wg - 2
  /\ UNCHANGED <<pc, running, context, cancelled, born, pollsWith, steps, history>>
LoopReturns_LeavesSteps(n) ==
  /\ Moves(n, "draining", "returned")
  /\ wg' = wg - 1
  /\ UNCHANGED <<pc, running, context, cancelled, born, pollsWith, steps, history>>

\* inflight.Wait(), then the deferred wg.Done().
LoopReturns(n) ==
  /\ Moves(n, "draining", "returned")
  /\ steps[n] = 0
  /\ wg' = wg - 1
  /\ UNCHANGED <<pc, running, context, cancelled, born, pollsWith, steps, history>>

-----------------------------------------------------------------------------
StopGoesOn(c) ==
  StopCancels(c) \/ StopWaitsOrSleeps(c) \/ StopWakes(c) \/ StopReturns(c) \/ Leaves(c)
StartGoesOn(c) == StartLaunches(c) \/ StartMisusesAdd(c)

\* What a loop does without the server's help.  A poll with WaitForReady may wait
\* for an unreachable server for ever, but not once its context is cancelled.
LoopGoesOn(n) ==
  \/ LoopChecks(n) \/ LoopExits(n) \/ LoopPolls(n) \/ LoopReturns(n)
  \/ pollsWith[n] \in cancelled /\ PollFails(n)

Next ==
  \/ \E c \in Caller :
        \/ StartSwaps(c) \/ StartFails(c) \/ StartMakesContext(c) \/ StartGoesOn(c)
        \/ StopSwaps(c) \/ StopFindsItStopped(c) \/ StopGoesOn(c)
  \/ SleepersReleased
  \/ \E n \in LoopId : LoopGoesOn(n) \/ PollAnswered(n) \/ PollFails(n) \/ StepEnds(n)

Spec == Init /\ [][Next]_vars

\* Go runs every goroutine that can run, and the steps in flight end.  Callers
\* need not call, and the server need not answer a poll.
Fairness ==
  /\ \A c \in Caller : WF_vars(StopGoesOn(c)) /\ WF_vars(StartGoesOn(c))
  /\ WF_vars(SleepersReleased)
  /\ \A n \in LoopId : WF_vars(LoopGoesOn(n)) /\ WF_vars(StepEnds(n))
FairSpec == Spec /\ Fairness

-----------------------------------------------------------------------------
(* Type invariant: every variable of WorkerLifecycle holds a value of its kind. *)
TypeOK ==
  /\ pc \in [Caller -> CallerPlace]
  /\ running \in BOOLEAN
  /\ context \in 0..MaxStarts
  /\ cancelled \subseteq 1..MaxStarts
  /\ wg \in 0..MaxStarts
  /\ loop \in [LoopId -> LoopPlace]
  /\ born \in [LoopId -> 0..MaxStarts]
  /\ pollsWith \in [LoopId -> 0..MaxStarts]
  /\ steps \in [LoopId -> 0..Concurrency]
  /\ stops \in [Caller -> SUBSET LoopId]
  /\ overlapped \in BOOLEAN

(* Worker.wg counts the loops that have not returned, and a loop that has    *)
(* returned has left no step behind: what wg.Wait (worker.go:261) relies on. *)
WaitGroupCountsLoops ==
  /\ wg = Cardinality(Alive)
  /\ \A n \in LoopId \ Alive : steps[n] = 0

(* "Stop halts polling and waits for in-flight steps to finish"              *)
(* (worker.go:255), however many goroutines call Start and Stop: when a Stop *)
(* that turned running off has returned, every loop that was alive then has  *)
(* ended, with all its steps.  Other Starts may have launched newer loops    *)
(* before it returns, and its Wait may have panicked instead (worker.go:261).*)
StopOutlastsItsLoops ==
  \A c \in Caller : pc[c] = "returned" =>
    \A n \in stops[c] : loop[n] = "returned" /\ steps[n] = 0

(* A Stop comes to call a nil cancel function (worker.go:260) only if it     *)
(* turned running off while another goroutine was in the checks of a Start   *)
(* (worker.go:238-246), before any Start had made a context: neither a Start *)
(* that failed nor an earlier Stop leaves the worker in such a state.        *)
NilCancelNeedsOverlap ==
  [][\A c \in Caller :
       pc[c] = "out" /\ pc'[c] = "cancelling" /\ context = 0
         => \E d \in Caller \ {c} : pc[d] = "checking"]_vars

(* "WithConcurrency sets the maximum steps in flight" (worker.go:27), over   *)
(* all the loops the worker has: what the doc says, of any calls.            *)
WithinConcurrency == InFlight <= Concurrency

(* The same as long as the calls of Start and Stop, from whatever            *)
(* goroutines, have taken turns: a restart follows a complete Stop.          *)
TurnsWithinConcurrency == ~overlapped => WithinConcurrency

(* "Stop halts polling and waits for in-flight steps to finish"              *)
(* (worker.go:255): as long as calls take turns, a Stop that returns, the    *)
(* one that finds the worker stopped included, leaves no step in flight.     *)
StopWaits ==
  [][\A c \in Caller :
       ~overlapped' /\ pc[c] # "returned" /\ pc'[c] = "returned" => InFlight = 0]_vars

(* Where calls take turns a Stop returns, even when the server answers no    *)
(* poll: its cancel reaches the poll under way (worker.go:260, 417-423).     *)
StopTerminates ==
  []~overlapped =>
    \A c \in Caller : pc[c] \in {"cancelling", "waiting", "asleep", "woken", "passed"}
                        ~> pc[c] = "returned"
=============================================================================
