----------------------------- MODULE Heartbeat -----------------------------
(***************************************************************************)
(* The heartbeat of one step (worker.go:480-481, 621-622, 649-671) against *)
(* the lease it extends.  Time is counted in ticks of a fixed length, as   *)
(* what is left of the lease, what is left until the ticker fires, and how *)
(* long the heartbeat under way has taken: no clock runs without end.      *)
(*                                                                         *)
(* The step starts some delay after its lease was granted.  The ticker of  *)
(* the heartbeat fires every Interval; each time the goroutine asks the    *)
(* server for a full lease from then on, and ends at the first error.  The *)
(* server is external: it extends a lease that has not run out.            *)
(***************************************************************************)
EXTENDS Integers

CONSTANTS
  LeaseTime,   \* Worker.leaseMillis, in ticks
  Second,      \* one second, in ticks
  MaxDelay,    \* from grant to start of the step, and from the ticker to the answer
  MaxBreaks    \* bound: heartbeats that fail although the lease is alive

\* Mutant: the ticker fires once per lease.
Interval_WholeLease == LeaseTime

\* startHeartbeat: half the lease, and no less than a second.
Interval == IF LeaseTime \div 2 < Second THEN Second ELSE LeaseTime \div 2

ASSUME TimeAssumption ==
  /\ LeaseTime \in Nat \ {0} /\ Second \in Nat \ {0}
  /\ MaxDelay \in Nat /\ MaxBreaks \in Nat
\* A heartbeat is answered before the ticker fires again, and a step starts
\* before its lease is over.
ASSUME DelayAssumption == MaxDelay < Interval /\ MaxDelay < LeaseTime

VARIABLES
  step,     \* "running" until execute returns and closes `stop`, then "over"
  left,     \* what is left of the lease at the server; 0: the task is reclaimed
  toTick,   \* time until the ticker fires
  fired,    \* the ticker's channel holds a tick
  beat,     \* the goroutine: "waiting" in its select, "calling" until the server
            \* has decided, "answered" until the call returns, or "ended"
  waited,   \* how long the tick, and the call it caused, have taken so far
  breaks    \* how many heartbeats failed

vars == <<step, left, toTick, fired, beat, waited, breaks>>

Init ==
  /\ step = "running"
  /\ \E late \in 0..MaxDelay : left = LeaseTime - late
  /\ toTick = Interval
  /\ fired = FALSE
  /\ beat = "waiting"
  /\ waited = 0
  /\ breaks = 0

Busy == fired \/ beat \in {"calling", "answered"}

-----------------------------------------------------------------------------
\* Mutant: the ticker is not periodic.
Pass_Once ==
  /\ beat # "ended"
  /\ Busy => waited < MaxDelay
  /\ left' = IF left = 0 THEN 0 ELSE left - 1
  /\ toTick' = toTick - 1
  /\ fired' = (fired \/ toTick = 1)
  /\ waited' = IF Busy THEN waited + 1 ELSE 0
  /\ UNCHANGED <<step, beat, breaks>>

(* Time passes, while no one is late.  The ticker drops a tick when its      *)
(* channel is full (it never is: DelayAssumption).                           *)
Pass ==
  /\ beat # "ended"
  /\ Busy => waited < MaxDelay
  /\ left' = IF left = 0 THEN 0 ELSE left - 1
  /\ IF toTick = 1 THEN toTick' = Interval /\ fired' = TRUE
                   ELSE toTick' = toTick - 1 /\ fired' = fired
  /\ waited' = IF Busy THEN waited + 1 ELSE 0
  /\ UNCHANGED <<step, beat, breaks>>

\* With no heartbeat left the lease just runs out.
PassSilently ==
  /\ beat = "ended"
  /\ left > 0
  /\ left' = left - 1
  /\ UNCHANGED <<step, toTick, fired, beat, waited, breaks>>

\* case <-t.C, which the select may choose although `stop` is closed too.
Beat ==
  /\ beat = "waiting"
  /\ fired
  /\ fired' = FALSE
  /\ beat' = "calling"
  /\ UNCHANGED <<step, left, toTick, waited, breaks>>

\* The server extends the lease from now.  Of a step that is over, the task may
\* be leased to the same worker again.
Extend ==
  /\ beat = "calling"
  /\ left > 0 \/ step = "over"
  /\ left' = LeaseTime
  /\ beat' = "answered"
  /\ UNCHANGED <<step, toTick, fired, waited, breaks>>

BeatReturns ==
  /\ beat = "answered"
  /\ beat' = "waiting"
  /\ waited' = 0
  /\ UNCHANGED <<step, left, toTick, fired, breaks>>

\* The lease is not this step's any more.
Refused ==
  /\ beat = "calling"
  /\ left = 0 \/ step = "over"
  /\ beat' = "ended"
  /\ UNCHANGED <<step, left, toTick, fired, waited, breaks>>

\* The call fails for another reason.  The goroutine makes no difference.
Breaks ==
  /\ beat \in {"calling", "answered"}
  /\ breaks < MaxBreaks
  /\ breaks' = breaks + 1
  /\ beat' = "ended"
  /\ UNCHANGED <<step, left, toTick, fired, waited>>

\* execute returns: the deferred close(stop).
StepEnds ==
  /\ step = "running"
  /\ step' = "over"
  /\ UNCHANGED <<left, toTick, fired, beat, waited, breaks>>

\* Mutant: the goroutine looks at `stop` only once the lease has run out.
StopSeen_AfterLease ==
  /\ beat = "waiting"
  /\ step = "over"
  /\ left = 0
  /\ beat' = "ended"
  /\ UNCHANGED <<step, left, toTick, fired, waited, breaks>>

\* case <-stop
StopSeen ==
  /\ beat = "waiting"
  /\ step = "over"
  /\ beat' = "ended"
  /\ UNCHANGED <<step, left, toTick, fired, waited, breaks>>

Next ==
  \/ Pass \/ PassSilently \/ Beat \/ Extend \/ BeatReturns \/ Refused \/ Breaks
  \/ StepEnds \/ StopSeen

Spec == Init /\ [][Next]_vars

\* The server answers and the goroutine runs.  A select with two ready cases
\* chooses at random, so it does not pass `stop` over for ever.
FairSpec == Spec /\ WF_vars(Extend \/ Refused) /\ WF_vars(BeatReturns) /\ SF_vars(StopSeen)

-----------------------------------------------------------------------------
(* Type invariant: every variable of Heartbeat holds a value of its kind. *)
TypeOK ==
  /\ step \in {"running", "over"}
  /\ left \in 0..LeaseTime
  /\ toTick \in 1..Interval
  /\ fired \in BOOLEAN
  /\ beat \in {"waiting", "calling", "answered", "ended"}
  /\ waited \in 0..MaxDelay
  /\ breaks \in 0..MaxBreaks

(* "extends the lease periodically while a slow step runs" (worker.go:649):  *)
(* as long as no heartbeat fails, the lease of a running step does not run   *)
(* out, however long it runs and however late its heartbeats are.            *)
LeaseKept == step = "running" /\ breaks = 0 => left > 0

(* Once execute has closed `stop` the goroutine ends (worker.go:661),        *)
(* whatever ticks and answers are still on their way.                        *)
HeartbeatEnds == step = "over" ~> beat = "ended"
=============================================================================
