----------------------- MODULE WorkerLifecycleProofs -----------------------
(***************************************************************************)
(* What WorkerLifecycle guarantees for any number of callers and Starts:   *)
(* the wait group counts the loops, a Stop returns only when the loops it  *)
(* stopped are gone, and a nil cancel can only be met through a Start that *)
(* is still in its checks.  And what it guarantees as long as calls take   *)
(* turns: every Stop leaves the worker quiet, and the steps in flight are  *)
(* those of one loop, within the concurrency.                              *)
(***************************************************************************)
EXTENDS WorkerLifecycle, FiniteSetTheorems, TLAPS

Inv == TypeOK /\ WaitGroupCountsLoops

(* The loops are finitely many, and so are those that are alive. *)
LEMMA AliveFinite ==
  /\ IsFiniteSet(Alive) /\ Cardinality(Alive) \in 0..MaxStarts
  /\ Cardinality(Alive) = 0 <=> Alive = {}
<1>1. IsFiniteSet(LoopId) /\ Cardinality(LoopId) = MaxStarts
  BY LifecycleAssumption, FS_Interval DEF LoopId
<1>2. Alive \in SUBSET LoopId
  BY DEF Alive
<1>3. IsFiniteSet(Alive) /\ Cardinality(Alive) <= MaxStarts
  BY <1>1, <1>2, FS_Subset
<1>4. Cardinality(Alive) \in Nat
  BY <1>3, FS_CardinalityType
<1> QED
  BY <1>3, <1>4, FS_EmptySet, LifecycleAssumption

(* Initially no loop is alive. *)
LEMMA InitHolds == Init => Inv
<1> SUFFICES ASSUME Init PROVE Inv
  OBVIOUS
<1>1. TypeOK
  <2>1. 0 \in 0..MaxStarts /\ 0 \in 0..Concurrency
    BY LifecycleAssumption
  <2>2. pc \in [Caller -> CallerPlace] /\ loop \in [LoopId -> LoopPlace]
    BY DEF Init, CallerPlace, LoopPlace
  <2>3. /\ born \in [LoopId -> 0..MaxStarts] /\ pollsWith \in [LoopId -> 0..MaxStarts]
        /\ steps \in [LoopId -> 0..Concurrency]
    BY <2>1 DEF Init
  <2>4. stops \in [Caller -> SUBSET LoopId] /\ overlapped \in BOOLEAN
    BY DEF Init
  <2> QED
    BY <2>1, <2>2, <2>3, <2>4 DEF Init, TypeOK
<1>2. Alive = {}
  BY DEF Init, Alive
<1>3. WaitGroupCountsLoops
  BY <1>2, FS_EmptySet DEF Init, WaitGroupCountsLoops
<1> QED
  BY <1>1, <1>3 DEF Inv

(* A step that moves a loop between two places where it is alive, or moves   *)
(* none, leaves wg right.                                                    *)
LEMMA AliveStable ==
  ASSUME Inv, TypeOK', wg' = wg,
         \A n \in LoopId : /\ n \in Alive <=> loop'[n] \in {"check", "asking", "polling", "draining"}
                           /\ n \notin Alive => steps'[n] = steps[n]
  PROVE  Inv' /\ Alive' = Alive
<1>1. Alive' = Alive
  BY DEF Alive
<1> QED
  BY <1>1 DEF Inv, WaitGroupCountsLoops

\* The steps of a caller, or of all the sleepers, that touch no loop.
CallerStep ==
  \/ \E c \in Caller :
       \/ StartSwaps(c) \/ StartFails(c) \/ StartMakesContext(c) \/ StartMisusesAdd(c)
       \/ StopSwaps(c) \/ StopFindsItStopped(c) \/ StopGoesOn(c)
  \/ SleepersReleased

LoopStep(n) == LoopGoesOn(n) \/ PollAnswered(n) \/ PollFails(n) \/ StepEnds(n)

(* Every step is one of a caller, the launch of a loop, or one of a loop. *)
LEMMA StepKinds ==
  ASSUME Next
  PROVE  CallerStep \/ (\E c \in Caller : StartLaunches(c)) \/ (\E n \in LoopId : LoopStep(n))
BY DEF Next, CallerStep, LoopStep, StartGoesOn

(* A step of a caller leaves the loops and the wait group as they are, and   *)
(* keeps the types.                                                          *)
LEMMA CallerFrame ==
  ASSUME TypeOK, CallerStep
  PROVE  TypeOK' /\ UNCHANGED <<wg, loop, born, pollsWith, steps>>
<1>1. ASSUME NEW c \in Caller,
             \/ StartSwaps(c) \/ StartFails(c) \/ StartMakesContext(c) \/ StartMisusesAdd(c)
             \/ StopSwaps(c) \/ StopFindsItStopped(c) \/ StopGoesOn(c)
      PROVE  TypeOK' /\ UNCHANGED <<wg, loop, born, pollsWith, steps>>
  <2>1. UNCHANGED <<wg, loop, born, pollsWith, steps>>
    BY <1>1 DEF StartSwaps, StartFails, StartMakesContext, StartMisusesAdd, StopSwaps,
                StopFindsItStopped, StopGoesOn, StopCancels, StopWaitsOrSleeps, StopWakes,
                StopReturns, Leaves, loops
  <2>2. pc' \in [Caller -> CallerPlace]
    BY <1>1 DEF StartSwaps, StartFails, StartMakesContext, StartMisusesAdd, StopSwaps,
                StopFindsItStopped, StopGoesOn, StopCancels, StopWaitsOrSleeps, StopWakes,
                StopReturns, Leaves, Goes, TypeOK, CallerPlace
  <2>3. running' \in BOOLEAN /\ context' \in 0..MaxStarts
    <3>1. context < MaxStarts => context + 1 \in 0..MaxStarts
      BY LifecycleAssumption DEF TypeOK
    <3>2. context' = context \/ (context < MaxStarts /\ context' = context + 1)
      BY <1>1 DEF StartSwaps, StartFails, StartMakesContext, StartMisusesAdd, StopSwaps,
                  StopFindsItStopped, StopGoesOn, StopCancels, StopWaitsOrSleeps, StopWakes,
                  StopReturns, Leaves
    <3>3. running' \in {running, TRUE, FALSE}
      BY <1>1 DEF StartSwaps, StartFails, StartMakesContext, StartMisusesAdd, StopSwaps,
                  StopFindsItStopped, StopGoesOn, StopCancels, StopWaitsOrSleeps, StopWakes,
                  StopReturns, Leaves
    <3> QED
      BY <3>1, <3>2, <3>3 DEF TypeOK
  <2>4. cancelled' \subseteq 1..MaxStarts
    <3>1. context # 0 => context \in 1..MaxStarts
      BY LifecycleAssumption DEF TypeOK
    <3>2. cancelled' = cancelled \/ (context # 0 /\ cancelled' = cancelled \cup {context})
      BY <1>1 DEF StartSwaps, StartFails, StartMakesContext, StartMisusesAdd, StopSwaps,
                  StopFindsItStopped, StopGoesOn, StopCancels, StopWaitsOrSleeps, StopWakes,
                  StopReturns, Leaves
    <3> QED
      BY <3>1, <3>2 DEF TypeOK
  <2>5. stops' \in [Caller -> SUBSET LoopId]
    <3>1. {} \in SUBSET LoopId /\ Alive \in SUBSET LoopId
      BY DEF Alive
    <3>2. stops' = stops \/ \E A \in SUBSET LoopId : stops' = [stops EXCEPT ![c] = A]
      BY <1>1, <3>1
         DEF StartSwaps, StartFails, StartMakesContext, StartMisusesAdd, StopSwaps,
             StopFindsItStopped, StopGoesOn, StopCancels, StopWaitsOrSleeps, StopWakes,
             StopReturns, Leaves, history
    <3> QED
      BY <3>2 DEF TypeOK
  <2>6. overlapped' \in BOOLEAN
    BY <1>1 DEF StartSwaps, StartFails, StartMakesContext, StartMisusesAdd, StopSwaps,
                StopFindsItStopped, StopGoesOn, StopCancels, StopWaitsOrSleeps, StopWakes,
                StopReturns, Leaves, history, Enters, TypeOK
  <2> QED
    BY <2>1, <2>2, <2>3, <2>4, <2>5, <2>6 DEF TypeOK
<1>2. CASE SleepersReleased
  <2>1. pc' \in [Caller -> CallerPlace]
    BY <1>2 DEF SleepersReleased, TypeOK, CallerPlace
  <2> QED
    BY <1>2, <2>1 DEF SleepersReleased, TypeOK, loops, history
<1> QED
  BY <1>1, <1>2 DEF CallerStep

(* A step of a loop leaves the callers, running, the context and the history *)
(* as they are, and moves at most the loop itself, which is alive.           *)
LEMMA LoopFrame ==
  ASSUME NEW n \in LoopId, LoopStep(n)
  PROVE  /\ UNCHANGED <<pc, running, context, stops, overlapped>>
         /\ \/ loop' = loop
            \/ n \in Alive /\ \E p \in LoopPlace \ {"none"} : loop' = [loop EXCEPT ![n] = p]
BY DEF LoopStep, LoopGoesOn, LoopChecks, LoopExits, LoopPolls, LoopReturns, PollAnswered,
       PollFails, StepEnds, Moves, Alive, LoopPlace, history

(* Every step keeps the types and the count of the loops. *)
LEMMA NextHolds == Inv /\ [Next]_vars => Inv'
<1> SUFFICES ASSUME Inv, [Next]_vars PROVE Inv'
  OBVIOUS
<1>a. TypeOK /\ wg = Cardinality(Alive) /\ \A n \in LoopId \ Alive : steps[n] = 0
  BY DEF Inv, WaitGroupCountsLoops
<1>1. ASSUME CallerStep PROVE Inv'
  <2>1. TypeOK' /\ UNCHANGED <<wg, loop, born, pollsWith, steps>>
    BY <1>1, <1>a, CallerFrame
  <2> QED
    BY <2>1, AliveStable DEF Alive
<1>2. ASSUME NEW c \in Caller, StartLaunches(c) PROVE Inv'
  <2>1. PICK n \in LoopId :
          /\ \A m \in LoopId : m < n <=> loop[m] # "none"
          /\ loop' = [loop EXCEPT ![n] = "check"]
          /\ born' = [born EXCEPT ![n] = context]
    BY <1>2 DEF StartLaunches
  <2>2. n \notin Alive
    BY <2>1 DEF Alive, LoopId
  <2>3. Alive' = Alive \cup {n}
    BY <1>a, <2>1 DEF Alive, TypeOK
  <2>4. Cardinality(Alive') = Cardinality(Alive) + 1
    BY <2>2, <2>3, AliveFinite, FS_AddElement
  <2>5. wg' = Cardinality(Alive')
    BY <1>2, <1>a, <2>4 DEF StartLaunches
  <2>6. wg' \in 0..MaxStarts
    <3>1. Alive' \in SUBSET LoopId /\ IsFiniteSet(LoopId) /\ Cardinality(LoopId) = MaxStarts
      BY LifecycleAssumption, FS_Interval DEF LoopId, Alive
    <3>2. Cardinality(Alive') <= MaxStarts
      BY <3>1, FS_Subset
    <3>3. Cardinality(Alive') \in Nat
      BY <2>4, AliveFinite
    <3> QED
      BY <2>5, <3>2, <3>3, LifecycleAssumption
  <2>7. TypeOK'
    <3>1. pc' \in [Caller -> CallerPlace]
      BY <1>2, <1>a DEF StartLaunches, Goes, TypeOK, CallerPlace
    <3>2. loop' \in [LoopId -> LoopPlace] /\ born' \in [LoopId -> 0..MaxStarts]
      BY <1>a, <2>1 DEF TypeOK, LoopPlace
    <3> QED
      BY <1>2, <1>a, <2>6, <3>1, <3>2 DEF TypeOK, StartLaunches, history
  <2>8. \A m \in LoopId \ Alive' : steps'[m] = 0
    BY <1>2, <1>a, <2>3 DEF StartLaunches
  <2> QED
    BY <2>5, <2>7, <2>8 DEF Inv, WaitGroupCountsLoops
<1>3. ASSUME NEW n \in LoopId,
             LoopChecks(n) \/ LoopExits(n) \/ LoopPolls(n) \/ PollAnswered(n) \/ PollFails(n)
      PROVE  Inv'
  <2>1. /\ loop[n] \in {"check", "asking", "polling"}
        /\ loop' \in {[loop EXCEPT ![n] = p] : p \in {"check", "asking", "polling", "draining"}}
    BY <1>3 DEF LoopChecks, LoopExits, LoopPolls, PollAnswered, PollFails, Moves
  <2>2. loop' \in [LoopId -> LoopPlace]
    BY <1>a, <2>1 DEF TypeOK, LoopPlace
  <2>3. steps' \in [LoopId -> 0..Concurrency] /\ \A m \in LoopId \ {n} : steps'[m] = steps[m]
    <3>1. CASE PollAnswered(n)
      <4>1. PICK k \in steps[n]..Concurrency : steps' = [steps EXCEPT ![n] = k]
        BY <3>1 DEF PollAnswered
      <4>2. k \in 0..Concurrency
        BY <1>a, <4>1, LifecycleAssumption DEF TypeOK
      <4> QED
        BY <1>a, <4>1, <4>2 DEF TypeOK
    <3>2. CASE ~PollAnswered(n)
      BY <1>3, <1>a, <3>2 DEF LoopChecks, LoopExits, LoopPolls, PollFails, TypeOK
    <3> QED
      BY <3>1, <3>2
  <2>4. pollsWith' \in [LoopId -> 0..MaxStarts]
    <3>1. 0 \in 0..MaxStarts
      BY LifecycleAssumption
    <3>2. pollsWith' = pollsWith \/ \E k \in 0..MaxStarts : pollsWith' = [pollsWith EXCEPT ![n] = k]
      BY <1>3, <1>a, <3>1
         DEF LoopChecks, LoopExits, LoopPolls, PollAnswered, PollFails, TypeOK
    <3> QED
      BY <1>a, <3>2 DEF TypeOK
  <2>5. UNCHANGED <<pc, running, context, cancelled, wg, born, stops, overlapped>>
    BY <1>3 DEF LoopChecks, LoopExits, LoopPolls, PollAnswered, PollFails, history
  <2>6. TypeOK'
    BY <1>a, <2>2, <2>3, <2>4, <2>5 DEF TypeOK
  <2>7. \A m \in LoopId :
          /\ m \in Alive <=> loop'[m] \in {"check", "asking", "polling", "draining"}
          /\ m \notin Alive => steps'[m] = steps[m]
    BY <1>a, <2>1, <2>3 DEF Alive, TypeOK
  <2> QED
    BY <2>5, <2>6, <2>7, AliveStable
<1>4. ASSUME NEW n \in LoopId, LoopReturns(n) PROVE Inv'
  <2>1. n \in Alive /\ Alive' = Alive \ {n}
    BY <1>4, <1>a DEF LoopReturns, Moves, Alive, TypeOK
  <2>2. Cardinality(Alive') = Cardinality(Alive) - 1
    BY <2>1, AliveFinite, FS_RemoveElement
  <2>3. Cardinality(Alive) \in 1..MaxStarts
    BY <2>1, AliveFinite, LifecycleAssumption
  <2>4. wg' = Cardinality(Alive') /\ wg' \in 0..MaxStarts
    BY <1>4, <1>a, <2>2, <2>3, LifecycleAssumption DEF LoopReturns
  <2>5. TypeOK'
    BY <1>4, <1>a, <2>4 DEF LoopReturns, Moves, TypeOK, LoopPlace, history
  <2>6. \A m \in LoopId \ Alive' : steps'[m] = 0
    BY <1>4, <1>a, <2>1 DEF LoopReturns
  <2> QED
    BY <2>4, <2>5, <2>6 DEF Inv, WaitGroupCountsLoops
<1>5. ASSUME NEW n \in LoopId, StepEnds(n) PROVE Inv'
  <2>1. steps[n] - 1 \in 0..Concurrency
    BY <1>5, <1>a, LifecycleAssumption DEF StepEnds, TypeOK
  <2>2. TypeOK'
    BY <1>5, <1>a, <2>1 DEF StepEnds, TypeOK, history
  <2>3. \A m \in LoopId : m \notin Alive => steps'[m] = steps[m]
    BY <1>5, <1>a DEF StepEnds, TypeOK
  <2> QED
    BY <1>5, <2>2, <2>3, AliveStable DEF StepEnds, Alive
<1>6. CASE UNCHANGED vars
  BY <1>6 DEF vars, loops, history, Inv, TypeOK, WaitGroupCountsLoops, Alive
<1> QED
  BY <1>1, <1>2, <1>3, <1>4, <1>5, <1>6, StepKinds DEF LoopStep, LoopGoesOn

(* Every variable of WorkerLifecycle keeps its type; wg in particular never  *)
(* goes below zero, where wg.Done (worker.go:405) would panic.               *)
THEOREM TypeCorrect == Spec => []TypeOK
<1>1. Inv => TypeOK
  BY DEF Inv
<1> QED
  BY <1>1, InitHolds, NextHolds, PTL DEF Spec

(* In every reachable state the wait group counts the loops. *)
THEOREM WaitGroupIsRight == Spec => []WaitGroupCountsLoops
<1>1. Inv => WaitGroupCountsLoops
  BY DEF Inv
<1> QED
  BY <1>1, InitHolds, NextHolds, PTL DEF Spec

-----------------------------------------------------------------------------
(* Calls that overlap *)

\* What a caller's Stop has stopped was launched before, and is over from the
\* moment its Wait lets it go.
StopsAreOver ==
  \A c \in Caller :
    /\ \A n \in stops[c] : loop[n] # "none"
    /\ pc[c] \in {"out", "checking", "launching"} => stops[c] = {}
    /\ pc[c] \in {"woken", "passed", "returned"} => \A n \in stops[c] : loop[n] = "returned"

(* Once no loop is alive, every loop that was ever launched has returned. *)
LEMMA AllReturned ==
  ASSUME Inv, wg = 0, NEW n \in LoopId, loop[n] # "none"
  PROVE  loop[n] = "returned"
<1>1. Alive = {}
  BY AliveFinite DEF Inv, WaitGroupCountsLoops
<1> QED
  BY <1>1 DEF Inv, TypeOK, LoopPlace, Alive

(* A loop that was launched stays launched, and one that has returned stays  *)
(* so.                                                                       *)
LEMMA LoopsGoForward ==
  ASSUME Inv, Next, NEW n \in LoopId
  PROVE  /\ loop[n] # "none" => loop'[n] # "none"
         /\ loop[n] = "returned" => loop'[n] = "returned"
<1>a. TypeOK
  BY DEF Inv
<1>1. CASE CallerStep
  BY <1>1, <1>a, CallerFrame
<1>2. ASSUME NEW c \in Caller, StartLaunches(c)
      PROVE  /\ loop[n] # "none" => loop'[n] # "none"
             /\ loop[n] = "returned" => loop'[n] = "returned"
  <2>1. PICK k \in LoopId : /\ \A m \in LoopId : m < k <=> loop[m] # "none"
                           /\ loop' = [loop EXCEPT ![k] = "check"]
    BY <1>2 DEF StartLaunches
  <2>2. loop[k] = "none"
    BY <2>1 DEF LoopId
  <2> QED
    BY <1>a, <2>1, <2>2 DEF TypeOK
<1>3. ASSUME NEW k \in LoopId, LoopStep(k)
      PROVE  /\ loop[n] # "none" => loop'[n] # "none"
             /\ loop[n] = "returned" => loop'[n] = "returned"
  BY <1>3, <1>a, LoopFrame DEF TypeOK, Alive
<1> QED
  BY <1>1, <1>2, <1>3, StepKinds

(* However many goroutines call Start and Stop, the Stop that returns has    *)
(* outlasted the loops it stopped and their steps (worker.go:255-262).       *)
THEOREM StopOutlasts == Spec => []StopOutlastsItsLoops
<1>1. Init => StopsAreOver
  BY DEF Init, StopsAreOver
<1>2. Inv /\ StopsAreOver /\ [Next]_vars => StopsAreOver'
  <2> SUFFICES ASSUME Inv, StopsAreOver, [Next]_vars PROVE StopsAreOver'
    OBVIOUS
  <2>a. TypeOK
    BY DEF Inv
  <2>1. CASE UNCHANGED vars
    BY <2>1 DEF vars, loops, history, StopsAreOver
  <2>2. ASSUME Next, NEW c \in Caller, stops'[c] = stops[c],
               pc'[c] = pc[c] \/ pc'[c] \notin {"out", "checking", "launching"} \/ stops[c] = {},
               \/ pc'[c] \notin {"woken", "passed", "returned"}
               \/ pc[c] \in {"woken", "passed", "returned"} \/ stops[c] = {} \/ wg = 0
        PROVE  /\ \A n \in stops'[c] : loop'[n] # "none"
               /\ pc'[c] \in {"out", "checking", "launching"} => stops'[c] = {}
               /\ pc'[c] \in {"woken", "passed", "returned"}
                    => \A n \in stops'[c] : loop'[n] = "returned"
    <3>1. stops[c] \subseteq LoopId
      BY <2>a DEF TypeOK
    <3>2. \A n \in stops[c] : loop[n] # "none" /\ loop'[n] # "none"
      BY <2>2, <3>1, LoopsGoForward DEF StopsAreOver
    <3>3. \A n \in stops[c] : loop[n] = "returned" => loop'[n] = "returned"
      BY <2>2, <3>1, LoopsGoForward
    <3>4. wg = 0 => \A n \in stops[c] : loop[n] = "returned"
      BY <3>1, <3>2, AllReturned
    <3> QED
      BY <2>2, <3>2, <3>3, <3>4 DEF StopsAreOver
  <2>3. ASSUME NEW c \in Caller, Next,
               \/ StartSwaps(c) \/ StartFails(c) \/ StartMakesContext(c) \/ StartMisusesAdd(c)
               \/ StartLaunches(c) \/ StopFindsItStopped(c) \/ StopCancels(c)
               \/ StopWaitsOrSleeps(c) \/ StopWakes(c) \/ StopReturns(c)
        PROVE  StopsAreOver'
    <3>1. stops' = stops
      BY <2>3 DEF StartSwaps, StartFails, StartMakesContext, StartMisusesAdd, StartLaunches,
                  StopFindsItStopped, StopCancels, StopWaitsOrSleeps, StopWakes, StopReturns,
                  history
    <3>2. \A d \in Caller \ {c} : pc'[d] = pc[d]
      BY <2>3, <2>a DEF StartSwaps, StartFails, StartMakesContext, StartMisusesAdd, StartLaunches,
                  StopFindsItStopped, StopCancels, StopWaitsOrSleeps, StopWakes, StopReturns,
                  Goes, TypeOK
    <3>3. pc'[c] = pc[c] \/ pc'[c] \notin {"out", "checking", "launching"} \/ stops[c] = {}
      BY <2>3, <2>a DEF StartSwaps, StartFails, StartMakesContext, StartMisusesAdd, StartLaunches,
                  StopFindsItStopped, StopCancels, StopWaitsOrSleeps, StopWakes, StopReturns,
                  Goes, TypeOK, StopsAreOver
    <3>4. \/ pc'[c] \notin {"woken", "passed", "returned"}
          \/ pc[c] \in {"woken", "passed", "returned"} \/ stops[c] = {} \/ wg = 0
      BY <2>3, <2>a DEF StartSwaps, StartFails, StartMakesContext, StartMisusesAdd, StartLaunches,
                  StopFindsItStopped, StopCancels, StopWaitsOrSleeps, StopWakes, StopReturns,
                  Goes, TypeOK, StopsAreOver
    <3>5. ASSUME NEW d \in Caller
          PROVE  /\ pc'[d] = pc[d] \/ pc'[d] \notin {"out", "checking", "launching"}
                      \/ stops[d] = {}
                 /\ \/ pc'[d] \notin {"woken", "passed", "returned"}
                    \/ pc[d] \in {"woken", "passed", "returned"} \/ stops[d] = {} \/ wg = 0
      BY <3>2, <3>3, <3>4
    <3> QED
      BY <2>2, <2>3, <3>1, <3>5 DEF StopsAreOver
  <2>4. ASSUME NEW c \in Caller, StopSwaps(c), Next PROVE StopsAreOver'
    <3>1. stops' = [stops EXCEPT ![c] = Alive] /\ pc' = [pc EXCEPT ![c] = "cancelling"]
      BY <2>4 DEF StopSwaps, Goes
    <3>2. \A n \in Alive : loop'[n] # "none"
      BY <2>4, LoopsGoForward DEF Alive
    <3>3. stops'[c] = Alive /\ pc'[c] = "cancelling"
      BY <2>a, <3>1 DEF TypeOK
    <3>4. \A d \in Caller \ {c} : pc'[d] = pc[d] /\ stops'[d] = stops[d]
      BY <2>a, <3>1 DEF TypeOK
    <3> QED
      BY <2>2, <2>4, <3>2, <3>3, <3>4 DEF StopsAreOver
  <2>5. ASSUME NEW c \in Caller, Leaves(c), Next PROVE StopsAreOver'
    <3>1. stops' = [stops EXCEPT ![c] = {}] /\ pc' = [pc EXCEPT ![c] = "out"]
      BY <2>5 DEF Leaves, Goes
    <3>3. stops'[c] = {}
      BY <2>a, <3>1 DEF TypeOK
    <3>4. \A d \in Caller \ {c} : pc'[d] = pc[d] /\ stops'[d] = stops[d]
      BY <2>a, <3>1 DEF TypeOK
    <3> QED
      BY <2>2, <2>5, <3>3, <3>4 DEF StopsAreOver
  <2>6. CASE SleepersReleased /\ Next
    <3>1. stops' = stops /\ wg = 0
      BY <2>6 DEF SleepersReleased, history
    <3>2. \A d \in Caller : pc'[d] = pc[d] \/ pc'[d] = "woken"
      BY <2>6, <2>a DEF SleepersReleased, TypeOK
    <3> QED
      BY <2>2, <2>6, <3>1, <3>2 DEF StopsAreOver
  <2>7. ASSUME NEW n \in LoopId, LoopStep(n), Next PROVE StopsAreOver'
    <3>1. UNCHANGED <<pc, stops>>
      BY <2>7, LoopFrame
    <3> QED
      BY <2>2, <2>7, <3>1 DEF StopsAreOver
  <2> QED
    BY <2>1, <2>3, <2>4, <2>5, <2>6, <2>7, StepKinds DEF CallerStep, StopGoesOn
<1>3. Inv /\ StopsAreOver => StopOutlastsItsLoops
  <2> SUFFICES ASSUME Inv, StopsAreOver, NEW c \in Caller, pc[c] = "returned", NEW n \in stops[c]
               PROVE  loop[n] = "returned" /\ steps[n] = 0
    BY DEF StopOutlastsItsLoops
  <2>1. n \in LoopId /\ loop[n] = "returned"
    BY DEF StopsAreOver, Inv, TypeOK
  <2> QED
    BY <2>1 DEF Inv, WaitGroupCountsLoops, Alive
<1> QED
  BY <1>1, <1>2, <1>3, InitHolds, NextHolds, PTL DEF Spec

\* Running without a context means that a Start is still in its checks.
ContextOrChecks == running /\ context = 0 => \E d \in Caller : pc[d] = "checking"

(* However many goroutines call Start and Stop, a Stop comes to a nil cancel *)
(* (worker.go:260) only past a Start that is in its checks (worker.go:238).  *)
THEOREM NilCancelOnlyInOverlap == Spec => NilCancelNeedsOverlap
<1>1. Init => ContextOrChecks
  BY DEF Init, ContextOrChecks
<1>2. Inv /\ ContextOrChecks /\ [Next]_vars => ContextOrChecks'
  <2> SUFFICES ASSUME Inv, ContextOrChecks, [Next]_vars PROVE ContextOrChecks'
    OBVIOUS
  <2>a. pc \in [Caller -> CallerPlace] /\ context \in Nat
    BY LifecycleAssumption DEF Inv, TypeOK
  <2>1. ASSUME NEW c \in Caller, StartSwaps(c) PROVE ContextOrChecks'
    BY <2>1, <2>a DEF StartSwaps, Goes, ContextOrChecks
  <2>2. ASSUME NEW c \in Caller, StartFails(c) \/ StopSwaps(c) PROVE ContextOrChecks'
    BY <2>2 DEF StartFails, StopSwaps, ContextOrChecks
  <2>3. ASSUME NEW c \in Caller, StartMakesContext(c) PROVE ContextOrChecks'
    BY <2>3, <2>a DEF StartMakesContext, ContextOrChecks
  <2>4. ASSUME NEW c \in Caller, pc[c] # "checking", pc' = [pc EXCEPT ![c] = pc'[c]],
               UNCHANGED <<running, context>>
        PROVE  ContextOrChecks'
    BY <2>4, <2>a DEF ContextOrChecks
  <2>5. ASSUME NEW c \in Caller,
               \/ StartLaunches(c) \/ StartMisusesAdd(c) \/ StopFindsItStopped(c) \/ StopGoesOn(c)
        PROVE  ContextOrChecks'
    <3>1. pc[c] # "checking" /\ UNCHANGED <<running, context>>
      BY <2>5 DEF StartLaunches, StartMisusesAdd, StopFindsItStopped, StopGoesOn, StopCancels,
                  StopWaitsOrSleeps, StopWakes, StopReturns, Leaves, Goes
    <3>2. pc' = [pc EXCEPT ![c] = pc'[c]]
      BY <2>5, <2>a DEF StartLaunches, StartMisusesAdd, StopFindsItStopped, StopGoesOn,
                  StopCancels, StopWaitsOrSleeps, StopWakes, StopReturns, Leaves, Goes
    <3> QED
      BY <2>4, <3>1, <3>2
  <2>6. CASE SleepersReleased
    BY <2>6, <2>a DEF SleepersReleased, Sleepers, ContextOrChecks
  <2>7. ASSUME NEW n \in LoopId, LoopStep(n) PROVE ContextOrChecks'
    BY <2>7, LoopFrame DEF ContextOrChecks
  <2>8. CASE UNCHANGED vars
    BY <2>8 DEF vars, ContextOrChecks
  <2> QED
    BY <2>1, <2>2, <2>3, <2>5, <2>6, <2>7, <2>8, StepKinds DEF CallerStep
<1>3. ASSUME Inv, ContextOrChecks, [Next]_vars
      PROVE  [\A c \in Caller :
                pc[c] = "out" /\ pc'[c] = "cancelling" /\ context = 0
                  => \E d \in Caller \ {c} : pc[d] = "checking"]_vars
  <2> SUFFICES ASSUME Next, NEW c \in Caller, pc[c] = "out", pc'[c] = "cancelling", context = 0
               PROVE  \E d \in Caller \ {c} : pc[d] = "checking"
    BY <1>3
  <2>a. pc \in [Caller -> CallerPlace]
    BY <1>3 DEF Inv, TypeOK
  <2>1. running
    <3>1. ASSUME NEW d \in Caller,
                 \/ StartSwaps(d) \/ StartFails(d) \/ StartMakesContext(d) \/ StartLaunches(d)
                 \/ StartMisusesAdd(d) \/ StopSwaps(d) \/ StopFindsItStopped(d) \/ StopGoesOn(d)
          PROVE  running
      BY <3>1, <2>a DEF StartSwaps, StartFails, StartMakesContext, StartLaunches, StartMisusesAdd,
             StopSwaps, StopFindsItStopped, StopGoesOn, StopCancels, StopWaitsOrSleeps,
             StopWakes, StopReturns, Leaves, Goes
    <3>2. ~SleepersReleased
      BY <2>a DEF SleepersReleased, Sleepers
    <3>3. \A n \in LoopId : ~LoopStep(n)
      BY LoopFrame
    <3> QED
      BY <3>1, <3>2, <3>3, StepKinds DEF CallerStep
  <2> QED
    BY <1>3, <2>1 DEF ContextOrChecks
<1> QED
  BY <1>1, <1>2, <1>3, InitHolds, NextHolds, PTL DEF Spec, NilCancelNeedsOverlap

-----------------------------------------------------------------------------
(* Calls that take turns *)

\* As long as no two calls have been under way at once: one call at most is,
\* one loop at most is alive, and none is from the moment a Stop's Wait lets it
\* go until a Start launches the next.
OneLoop ==
  ~overlapped =>
    /\ \A c, d \in Caller : ~Idle(c) /\ ~Idle(d) => c = d
    /\ \A m, n \in Alive : m = n
    /\ \A c \in Caller :
         /\ pc[c] \in {"checking", "launching"} => running /\ Alive = {}
         /\ pc[c] \in {"cancelling", "waiting", "asleep", "woken", "passed"} => ~running
         /\ pc[c] \in {"woken", "passed"} => Alive = {}
    /\ (\A c \in Caller : Idle(c)) /\ ~running => Alive = {}

(* Calls that take turns never leave the worker with two loops. *)
LEMMA OneLoopInvariant == Spec => [](Inv /\ OneLoop)
<1>1. Init => OneLoop
  <2>1. Init => Alive = {}
    BY DEF Init, Alive
  <2> QED
    BY <2>1 DEF Init, OneLoop, Idle
<1>2. Inv /\ OneLoop /\ [Next]_vars => OneLoop'
  <2> SUFFICES ASSUME Inv, OneLoop, [Next]_vars PROVE OneLoop'
    OBVIOUS
  <2>a. TypeOK /\ wg = Cardinality(Alive)
    BY DEF Inv, WaitGroupCountsLoops
  <2>b. wg = 0 <=> Alive = {}
    BY <2>a, AliveFinite
  <2>t. pc \in [Caller -> CallerPlace] /\ overlapped \in BOOLEAN
    BY <2>a DEF TypeOK
  <2>1. ASSUME NEW c \in Caller, StartSwaps(c) \/ StopSwaps(c) \/ StopFindsItStopped(c)
        PROVE  OneLoop'
    <3>1. Alive' = Alive
      BY <2>1 DEF Alive, StartSwaps, StopSwaps, StopFindsItStopped, loops
    <3>2. CASE overlapped'
      BY <3>2 DEF OneLoop
    <3>3. CASE ~overlapped'
      <4>1. ~overlapped /\ \A d \in Caller \ {c} : Idle(d)
        BY <2>1, <2>t, <3>3 DEF StartSwaps, StopSwaps, StopFindsItStopped, Enters
      <4>2. \A d \in Caller : Idle(d)
        BY <2>1, <4>1 DEF StartSwaps, StopSwaps, StopFindsItStopped, Goes, Idle
      <4>3. \A d \in Caller \ {c} : pc'[d] \in {"out", "returned"}
        BY <2>1, <2>t, <4>1 DEF StartSwaps, StopSwaps, StopFindsItStopped, Goes, Idle
      <4>4. /\ \A m, n \in Alive : m = n
            /\ ~running => Alive = {}
        BY <4>1, <4>2 DEF OneLoop
      <4>5. \/ pc'[c] = "checking" /\ running' /\ Alive = {}
            \/ pc'[c] = "cancelling" /\ ~running'
            \/ pc'[c] = "returned" /\ ~running' /\ Alive = {}
        BY <2>1, <2>t, <4>4 DEF StartSwaps, StopSwaps, StopFindsItStopped, Goes
      <4> QED
        BY <3>1, <4>3, <4>4, <4>5 DEF OneLoop, Idle
    <3> QED
      BY <3>2, <3>3
  <2>2. ASSUME NEW c \in Caller, StartLaunches(c) PROVE OneLoop'
    <3>1. PICK n \in LoopId : loop' = [loop EXCEPT ![n] = "check"]
      BY <2>2 DEF StartLaunches
    <3>2. overlapped' = overlapped /\ running' = running
      BY <2>2 DEF StartLaunches, history
    <3>3. CASE overlapped
      BY <3>2, <3>3 DEF OneLoop
    <3>4. CASE ~overlapped
      <4>1. Alive = {} /\ running
        BY <2>2, <3>4 DEF OneLoop, StartLaunches, Goes
      <4>2. Alive' \subseteq {n}
        BY <2>a, <3>1, <4>1 DEF Alive, TypeOK
      <4>3. \A d \in Caller \ {c} : Idle(d)
        BY <2>2, <3>4 DEF OneLoop, StartLaunches, Goes, Idle
      <4>4. \A d \in Caller : pc'[d] \in {"out", "returned"}
        BY <2>2, <2>t, <4>3 DEF StartLaunches, Goes, Idle
      <4> QED
        BY <3>2, <4>1, <4>2, <4>4 DEF OneLoop, Idle
    <3> QED
      BY <3>3, <3>4
  <2>3. ASSUME NEW n \in LoopId, LoopStep(n) PROVE OneLoop'
    <3>1. /\ UNCHANGED <<pc, running, overlapped>>
          /\ loop' = loop \/ (n \in Alive /\ \E p \in LoopPlace : loop' = [loop EXCEPT ![n] = p])
      BY <2>3, LoopFrame
    <3>2. Alive' \subseteq Alive
      BY <2>a, <3>1 DEF Alive, TypeOK
    <3> QED
      BY <3>1, <3>2 DEF OneLoop, Idle
  <2>4. CASE UNCHANGED vars
    BY <2>4 DEF vars, loops, history, OneLoop, Alive, Idle
  <2>5. ASSUME NEW c \in Caller,
               \/ StartFails(c) \/ StartMakesContext(c) \/ StartMisusesAdd(c) \/ StopGoesOn(c)
        PROVE  OneLoop'
    <3>1. Alive' = Alive /\ overlapped' = overlapped
      BY <2>5 DEF Alive, StartFails, StartMakesContext, StartMisusesAdd, StopGoesOn, StopCancels,
                  StopWaitsOrSleeps, StopWakes, StopReturns, Leaves, loops, history
    <3>2. \A d \in Caller \ {c} : pc'[d] = pc[d]
      BY <2>5, <2>t DEF StartFails, StartMakesContext, StartMisusesAdd, StopGoesOn, StopCancels,
                  StopWaitsOrSleeps, StopWakes, StopReturns, Leaves, Goes
    <3>3. CASE overlapped
      BY <3>1, <3>3 DEF OneLoop
    <3>4. CASE ~overlapped
      <4>1. CASE StartFails(c)
        <5>1. Alive = {} /\ ~running' /\ pc'[c] = "out"
          BY <2>t, <3>4, <4>1 DEF OneLoop, StartFails, Goes
        <5>2. \A d \in Caller \ {c} : pc'[d] \in {"out", "returned"}
          BY <3>2, <3>4, <4>1 DEF OneLoop, StartFails, Goes, Idle
        <5> QED
          BY <3>1, <5>1, <5>2 DEF OneLoop, Idle
      <4>2. CASE StartMakesContext(c) \/ StartMisusesAdd(c)
        <5>1. /\ running' = running /\ running /\ Alive = {}
              /\ pc'[c] \in {"launching", "panicked"}
          BY <2>t, <3>4, <4>2 DEF OneLoop, StartMakesContext, StartMisusesAdd, Goes
        <5>2. \A d \in Caller \ {c} : pc'[d] \in {"out", "returned"}
          BY <3>2, <3>4, <4>2 DEF OneLoop, StartMakesContext, StartMisusesAdd, Goes, Idle
        <5> QED
          BY <3>1, <5>1, <5>2 DEF OneLoop, Idle
      <4>3. CASE StopCancels(c) \/ StopWaitsOrSleeps(c) \/ StopWakes(c) \/ StopReturns(c)
        <5>1. ~running' /\ \A m, n \in Alive : m = n
          BY <3>4, <4>3 DEF OneLoop, StopCancels, StopWaitsOrSleeps, StopWakes, StopReturns, Goes
        <5>2. \A d \in Caller \ {c} : pc'[d] \in {"out", "returned"}
          BY <3>2, <3>4, <4>3 DEF OneLoop, StopCancels, StopWaitsOrSleeps, StopWakes, StopReturns,
                                  Goes, Idle
        <5>3. \/ pc'[c] \in {"waiting", "asleep", "panicked"}
              \/ pc'[c] \in {"passed", "returned"} /\ Alive = {}
          BY <2>t, <2>b, <3>4, <4>3
             DEF OneLoop, StopCancels, StopWaitsOrSleeps, StopWakes, StopReturns, Goes
        <5> QED
          BY <3>1, <5>1, <5>2, <5>3 DEF OneLoop, Idle
      <4>4. CASE Leaves(c)
        <5>1. pc[c] = "returned" /\ pc'[c] = "out" /\ running' = running
          BY <2>t, <4>4 DEF Leaves, Goes
        <5> QED
          BY <3>1, <3>2, <3>4, <5>1 DEF OneLoop, Idle
      <4> QED
        BY <2>5, <4>1, <4>2, <4>3, <4>4 DEF StopGoesOn
    <3> QED
      BY <3>3, <3>4
  <2>6. CASE SleepersReleased
    <3>1. Alive' = Alive /\ overlapped' = overlapped /\ running' = running /\ Alive = {}
      BY <2>6, <2>b DEF Alive, SleepersReleased, loops, history
    <3>2. \A c \in Caller :
            /\ pc'[c] \in {"out", "returned"} <=> pc[c] \in {"out", "returned"}
            /\ pc'[c] = pc[c] \/ (pc[c] = "asleep" /\ pc'[c] = "woken")
      BY <2>6, <2>t DEF SleepersReleased, Sleepers
    <3> QED
      BY <3>1, <3>2 DEF OneLoop, Idle
  <2> QED
    BY <2>1, <2>2, <2>3, <2>4, <2>5, <2>6, StepKinds DEF CallerStep
<1> QED
  BY <1>1, <1>2, InitHolds, NextHolds, PTL DEF Spec

(* What is in flight is what the only loop alive has in flight. *)
LEMMA InFlightBound ==
  ASSUME Inv, \A m, n \in Alive : m = n
  PROVE  InFlight <= Concurrency /\ (Alive = {} => InFlight = 0)
<1>1. TypeOK /\ \A n \in LoopId \ Alive : steps[n] = 0
  BY DEF Inv, WaitGroupCountsLoops
<1>2. \A n \in LoopId \ Alive : {n} \X (1..steps[n]) = {}
  BY <1>1
<1>3. CASE Alive = {}
  <2>1. PlacesTaken = {}
    BY <1>2, <1>3 DEF PlacesTaken
  <2> QED
    BY <2>1, FS_EmptySet, LifecycleAssumption DEF InFlight
<1>4. CASE Alive # {}
  <2>1. PICK n \in LoopId : n \in Alive
    BY <1>4 DEF Alive
  <2>2. \A m \in LoopId \ {n} : m \notin Alive
    BY <2>1
  <2>3. steps[n] \in 0..Concurrency
    BY <1>1 DEF TypeOK
  <2>4. PlacesTaken \subseteq {n} \X (1..Concurrency)
    BY <1>2, <2>2, <2>3, LifecycleAssumption DEF PlacesTaken
  <2>5. IsFiniteSet({n}) /\ Cardinality({n}) = 1
    BY FS_Singleton
  <2>6. IsFiniteSet(1..Concurrency) /\ Cardinality(1..Concurrency) = Concurrency
    BY LifecycleAssumption, FS_Interval
  <2>7. /\ IsFiniteSet({n} \X (1..Concurrency))
        /\ Cardinality({n} \X (1..Concurrency)) = Concurrency
    <3>1. /\ IsFiniteSet({n} \X (1..Concurrency))
          /\ Cardinality({n} \X (1..Concurrency))
               = Cardinality({n}) * Cardinality(1..Concurrency)
      BY <2>5, <2>6, FS_Product, Zenon
    <3> QED
      BY <3>1, <2>5, <2>6, LifecycleAssumption
  <2>8. Cardinality(PlacesTaken) <= Concurrency
    BY <2>4, <2>7, FS_Subset
  <2> QED
    BY <1>4, <2>8 DEF InFlight
<1> QED
  BY <1>3, <1>4

(* As long as calls take turns the steps in flight never exceed what         *)
(* WithConcurrency says (worker.go:27), however often the worker is stopped  *)
(* and started, and by whichever goroutines.                                 *)
THEOREM TurnsKeepConcurrency == Spec => []TurnsWithinConcurrency
<1>1. Inv /\ OneLoop => TurnsWithinConcurrency
  BY InFlightBound DEF OneLoop, TurnsWithinConcurrency, WithinConcurrency
<1> QED
  BY <1>1, OneLoopInvariant, PTL

(* As long as calls take turns every Stop that returns, the one that finds   *)
(* the worker stopped included, leaves no step in flight (worker.go:255-262).*)
THEOREM TurnsStopWaits == Spec => StopWaits
<1>1. ASSUME Inv, OneLoop, [Next]_vars
      PROVE  [\A c \in Caller :
                ~overlapped' /\ pc[c] # "returned" /\ pc'[c] = "returned" => InFlight = 0]_vars
  <2> SUFFICES ASSUME Next, NEW c \in Caller, ~overlapped', pc[c] # "returned", pc'[c] = "returned"
               PROVE  InFlight = 0
    BY <1>1
  <2>t. pc \in [Caller -> CallerPlace] /\ overlapped \in BOOLEAN
    BY <1>1 DEF Inv, TypeOK
  <2>1. StopReturns(c) \/ StopFindsItStopped(c)
    <3>1. ASSUME NEW d \in Caller,
                 \/ StartSwaps(d) \/ StartFails(d) \/ StartMakesContext(d) \/ StartLaunches(d)
                 \/ StartMisusesAdd(d) \/ StopSwaps(d) \/ StopFindsItStopped(d) \/ StopGoesOn(d)
          PROVE  StopReturns(c) \/ StopFindsItStopped(c)
      <4>1. d = c
        BY <2>t, <3>1 DEF StartSwaps, StartFails, StartMakesContext, StartLaunches,
               StartMisusesAdd, StopSwaps, StopFindsItStopped, StopGoesOn, StopCancels,
               StopWaitsOrSleeps, StopWakes, StopReturns, Leaves, Goes
      <4> QED
        BY <2>t, <3>1, <4>1 DEF StartSwaps, StartFails, StartMakesContext, StartLaunches,
               StartMisusesAdd, StopSwaps, StopGoesOn, StopCancels, StopWaitsOrSleeps,
               StopWakes, Leaves, Goes
    <3>2. ~SleepersReleased
      BY <2>t DEF SleepersReleased, Sleepers
    <3>3. \A n \in LoopId : ~LoopStep(n)
      BY LoopFrame
    <3> QED
      BY <3>1, <3>2, <3>3, StepKinds DEF CallerStep
  <2>2. ~overlapped /\ (StopFindsItStopped(c) => \A d \in Caller : Idle(d))
    BY <2>1, <2>t DEF StopReturns, StopFindsItStopped, Enters, Idle, Goes, history
  <2>3. Alive = {}
    BY <1>1, <2>1, <2>2 DEF OneLoop, StopReturns, StopFindsItStopped, Goes
  <2> QED
    BY <1>1, <2>3, InFlightBound
<1> QED
  BY <1>1, OneLoopInvariant, PTL DEF Spec, StopWaits

(* What any number of loops has in flight. *)
LEMMA InFlightOfAll ==
  ASSUME Inv
  PROVE  InFlight <= Cardinality(Alive) * Concurrency
<1>1. TypeOK /\ \A n \in LoopId \ Alive : steps[n] = 0
  BY DEF Inv, WaitGroupCountsLoops
<1>2. IsFiniteSet(Alive)
  BY AliveFinite
<1>3. IsFiniteSet(1..Concurrency) /\ Cardinality(1..Concurrency) = Concurrency
  BY LifecycleAssumption, FS_Interval
<1>4. PlacesTaken \subseteq Alive \X (1..Concurrency)
  <2> SUFFICES ASSUME NEW n \in LoopId, NEW k \in 1..steps[n]
               PROVE  n \in Alive /\ k \in 1..Concurrency
    BY DEF PlacesTaken
  <2>1. steps[n] \in 0..Concurrency
    BY <1>1 DEF TypeOK
  <2> QED
    BY <1>1, <2>1, LifecycleAssumption
<1>5. /\ IsFiniteSet(Alive \X (1..Concurrency))
      /\ Cardinality(Alive \X (1..Concurrency)) = Cardinality(Alive) * Cardinality(1..Concurrency)
  BY <1>2, <1>3, FS_Product, Zenon
<1>6. Cardinality(PlacesTaken) <= Cardinality(Alive \X (1..Concurrency))
  BY <1>4, <1>5, FS_Subset
<1> QED
  BY <1>3, <1>5, <1>6 DEF InFlight

(* However many goroutines call Start and Stop, each loop that has not       *)
(* returned, and is in the wait group, has at most WithConcurrency steps in  *)
(* flight: what the limit (worker.go:27) is worth when loops overlap.        *)
THEOREM EachLoopWithinConcurrency == Spec => [](InFlight <= wg * Concurrency)
<1>1. Spec => []Inv
  BY InitHolds, NextHolds, PTL DEF Spec
<1>2. Inv => InFlight <= wg * Concurrency
  BY InFlightOfAll DEF Inv, WaitGroupCountsLoops
<1> QED
  BY <1>1, <1>2, PTL
=============================================================================
