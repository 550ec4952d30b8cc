-------------------------- MODULE HeartbeatProofs --------------------------
(***************************************************************************)
(* When the heartbeat is enough: a lease that outlasts the interval and    *)
(* twice the longest delay never runs out under a running step, as long as *)
(* no heartbeat fails.  The interval is no less than a second, so a lease  *)
(* of a second or less is never such a lease.                              *)
(***************************************************************************)
EXTENDS Heartbeat, TLAPS

(* The lease is long enough for its heartbeat. *)
Ample == Interval + 2 * MaxDelay < LeaseTime

(* The interval is a positive number. *)
LEMMA IntervalType == Interval \in Nat \ {0}
<1>1. LeaseTime \div 2 \in Nat
  BY TimeAssumption
<1> QED
  BY <1>1, TimeAssumption DEF Interval

(* An interval is shorter than the lease just when the lease is longer than  *)
(* a second: with a shorter one the first heartbeat comes too late           *)
(* (worker.go:652-655).                                                      *)
THEOREM IntervalWithinLease == Interval < LeaseTime <=> LeaseTime > Second
<1>1. LeaseTime \div 2 \in Nat /\ LeaseTime \div 2 < LeaseTime
  BY TimeAssumption
<1> QED
  BY <1>1, TimeAssumption DEF Interval

(* What is left of a running step's lease covers the way to the answer to    *)
(* the next heartbeat; a heartbeat is over long before the next is due.      *)
OnTime ==
  step = "running" /\ breaks = 0 =>
    /\ beat # "ended"
    /\ fired => beat = "waiting"
    /\ Busy => toTick = Interval - waited
    /\ fired \/ beat = "calling" => left > MaxDelay - waited
    /\ ~fired /\ beat \in {"waiting", "answered"} => left > toTick + MaxDelay

(* Every variable of Heartbeat keeps its type, for any lease and delay: the   *)
(* ticker and the lease never run below zero, and no call outlasts MaxDelay.  *)
THEOREM TypeCorrect == Spec => []TypeOK
<1> USE TimeAssumption, DelayAssumption, IntervalType
<1>1. Init => TypeOK
  <2>1. ASSUME NEW late \in 0..MaxDelay PROVE LeaseTime - late \in 0..LeaseTime
    OBVIOUS
  <2>2. Interval \in 1..Interval /\ 0 \in 0..MaxDelay /\ 0 \in 0..MaxBreaks
    OBVIOUS
  <2> QED
    BY <2>1, <2>2 DEF Init, TypeOK
<1>2. TypeOK /\ [Next]_vars => TypeOK'
  <2> SUFFICES ASSUME TypeOK, [Next]_vars PROVE TypeOK'
    OBVIOUS
  <2>1. CASE Pass
    <3>1. left' \in 0..LeaseTime
      BY <2>1 DEF Pass, TypeOK
    <3>2. toTick' \in 1..Interval
      BY <2>1 DEF Pass, TypeOK
    <3>4. fired' = TRUE \/ fired' = fired
      BY <2>1 DEF Pass
    <3>3. waited' \in 0..MaxDelay
      BY <2>1 DEF Pass, TypeOK
    <3> QED
      BY <2>1, <3>1, <3>2, <3>3, <3>4 DEF Pass, TypeOK
  <2>2. CASE PassSilently
    BY <2>2 DEF PassSilently, TypeOK
  <2>5. CASE Beat
    BY <2>5 DEF Beat, TypeOK
  <2>6. CASE Extend
    <3>1. LeaseTime \in 0..LeaseTime
      OBVIOUS
    <3> QED
      BY <2>6, <3>1 DEF Extend, TypeOK
  <2>7. CASE BeatReturns
    <3>1. 0 \in 0..MaxDelay
      OBVIOUS
    <3> QED
      BY <2>7, <3>1 DEF BeatReturns, TypeOK
  <2>3. CASE Refused \/ Breaks \/ StepEnds \/ StopSeen
    BY <2>3 DEF Refused, Breaks, StepEnds, StopSeen, TypeOK
  <2>4. CASE UNCHANGED vars
    BY <2>4 DEF vars, TypeOK
  <2> QED
    BY <2>1, <2>2, <2>3, <2>4, <2>5, <2>6, <2>7 DEF Next
<1> QED
  BY <1>1, <1>2, PTL DEF Spec

(* With an ample lease the lease of a running step never runs out. *)
THEOREM AmpleLeaseKept == Ample => (Spec => []LeaseKept)
<1> SUFFICES ASSUME Ample PROVE Spec => []LeaseKept
  OBVIOUS
<1> USE TimeAssumption, DelayAssumption, IntervalType
<1>1. Init => OnTime
  BY DEF Init, OnTime, Busy, Ample
<1>2. TypeOK /\ OnTime /\ [Next]_vars => OnTime'
  <2> SUFFICES ASSUME TypeOK, OnTime, [Next]_vars PROVE OnTime'
    OBVIOUS
  <2>1. CASE Pass
    <3>1. CASE Busy
      <4>1. step = "running" /\ breaks = 0 => toTick # 1
        BY <2>1, <3>1 DEF Pass, OnTime, TypeOK
      <4> QED
        BY <2>1, <3>1, <4>1 DEF Pass, OnTime, TypeOK, Busy
    <3>2. CASE ~Busy
      BY <2>1, <3>2 DEF Pass, OnTime, TypeOK, Busy
    <3> QED
      BY <3>1, <3>2
  <2>2. CASE Beat
    BY <2>2 DEF Beat, OnTime, TypeOK, Busy
  <2>3. CASE Extend
    BY <2>3 DEF Extend, OnTime, TypeOK, Busy, Ample
  <2>4. CASE BeatReturns
    BY <2>4 DEF BeatReturns, OnTime, TypeOK, Busy
  <2>5. CASE Refused
    BY <2>5 DEF Refused, OnTime, TypeOK
  <2>6. CASE Breaks
    BY <2>6 DEF Breaks, OnTime, TypeOK
  <2>7. CASE PassSilently \/ StepEnds \/ StopSeen
    BY <2>7 DEF PassSilently, StepEnds, StopSeen, OnTime
  <2>8. CASE UNCHANGED vars
    BY <2>8 DEF vars, OnTime, Busy
  <2> QED
    BY <2>1, <2>2, <2>3, <2>4, <2>5, <2>6, <2>7, <2>8 DEF Next
<1>3. TypeOK /\ OnTime => LeaseKept
  BY DEF TypeOK, OnTime, LeaseKept
<1> QED
  BY <1>1, <1>2, <1>3, TypeCorrect, PTL DEF Spec
=============================================================================
