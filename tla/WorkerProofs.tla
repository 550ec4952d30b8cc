---------------------------- MODULE WorkerProofs ----------------------------
(***************************************************************************)
(* What Worker guarantees for every number of workers, tasks, leases and   *)
(* faults and every concurrency: type correctness, the bound on the steps  *)
(* in flight, the quiet after Stop, and the promise about each step.       *)
(***************************************************************************)
EXTENDS Worker, FiniteSetTheorems, TLAPS

(* Initially every variable has its type. *)
LEMMA InitTypes == Init => TypeOK
BY BoundAssumption DEF Init, TypeOK, Lease, Outcome, Live

(* Every step of a loop, an execution, the server or a caller keeps types. *)
LEMMA NextTypes == TypeOK /\ [Next]_vars => TypeOK'
<1> SUFFICES ASSUME TypeOK, [Next]_vars PROVE TypeOK'
  OBVIOUS
<1> USE BoundAssumption DEF TypeOK, server, polling, executing
<1>1. ASSUME NEW w \in Worker, Start(w) PROVE TypeOK'
  BY <1>1 DEF Start
<1>2. ASSUME NEW w \in Worker, StopCalled(w) PROVE TypeOK'
  BY <1>2 DEF StopCalled
<1>3. ASSUME NEW w \in Worker, StopReturns(w) PROVE TypeOK'
  BY <1>3 DEF StopReturns
<1>4. ASSUME NEW w \in Worker, LoopPolls(w) PROVE TypeOK'
  BY <1>4 DEF LoopPolls
<1>5. ASSUME NEW w \in Worker, LoopExits(w) PROVE TypeOK'
  BY <1>5 DEF LoopExits
<1>6. ASSUME NEW w \in Worker, PollReturns(w) PROVE TypeOK'
  BY <1>6 DEF PollReturns
<1>7. ASSUME NEW w \in Worker, LoopDrained(w) PROVE TypeOK'
  BY <1>7 DEF LoopDrained
<1>8. ASSUME NEW w \in Worker, NEW l \in Lease, Dispatch(w, l) PROVE TypeOK'
  BY <1>8 DEF Dispatch, Live
<1>9. ASSUME NEW w \in Worker, PollFails(w) PROVE TypeOK'
  BY <1>9 DEF PollFails, Fault
<1>10. ASSUME NEW w \in Worker, Crash(w) PROVE TypeOK'
  BY <1>10 DEF Crash, Fault
<1>11. ASSUME NEW w \in Worker, NEW granted \in SUBSET Task, Grant(w, granted)
       PROVE TypeOK'
  <2>1. \A t \in granted : claims[t] + 1 \in 1..MaxLease
    BY <1>11 DEF Grant
  <2>2. {<<t, claims[t] + 1>> : t \in granted} \subseteq Lease
    BY <2>1 DEF Lease
  <2>3. claims' \in [Task -> 0..MaxLease]
    BY <1>11, <2>1 DEF Grant
  <2>4. answer' \in [Worker -> SUBSET Lease]
    BY <1>11, <2>2 DEF Grant
  <2> QED
    BY <1>11, <2>3, <2>4 DEF Grant
<1>12. ASSUME NEW l \in Lease, Refuse(l) PROVE TypeOK'
  BY <1>12 DEF Refuse, Outcome, Live
<1>13. ASSUME NEW l \in Lease, Run(l) PROVE TypeOK'
  BY <1>13 DEF Run, Live
<1>14. ASSUME NEW l \in Lease, NEW how \in {"ok", "retryable", "permanent"},
              HandlerReturns(l, how)
       PROVE TypeOK'
  BY <1>14 DEF HandlerReturns, Outcome, Live
<1>15. ASSUME NEW l \in Lease, Returns(l) PROVE sem' \in [Worker -> 0..Concurrency]
  <2> DEFINE w == holder[l]
  <2>1. CASE w \in Worker
    <3>1. sem[w] - 1 \in 0..Concurrency
      BY <1>15, <2>1 DEF Returns
    <3> QED
      BY <1>15, <3>1 DEF Returns
  <2>2. CASE w \notin Worker
    <3>1. sem' = [sem EXCEPT ![w] = sem[w] - 1]
      BY <1>15 DEF Returns
    <3> HIDE DEF w
    <3> QED
      BY <2>2, <3>1
  <2> QED
    BY <2>1, <2>2
<1>16. ASSUME NEW l \in Lease, ResultUnencodable(l) PROVE TypeOK'
  BY <1>15, <1>16 DEF ResultUnencodable, Returns, Outcome
<1>17. ASSUME NEW l \in Lease, CallReturns(l) PROVE TypeOK'
  BY <1>15, <1>17 DEF CallReturns, Returns
<1>18. ASSUME NEW l \in Lease, CallBreaks(l) PROVE TypeOK'
  <2>1. faults' \in 0..MaxFaults
    BY <1>18 DEF CallBreaks, Fault
  <2>2. exec' \in [Lease -> Live \cup {"none", "done", "lost"}]
    BY <1>18 DEF CallBreaks, Returns
  <2> QED
    BY <1>15, <1>18, <2>1, <2>2 DEF CallBreaks
<1>19. ASSUME NEW l \in Lease, Apply(l) PROVE TypeOK'
  <2>1. l[1] \in Task /\ l[2] \in 1..MaxLease
    BY DEF Lease
  <2>2. committed' \in [Task -> SUBSET (1..MaxLease)]
    BY <1>19, <2>1 DEF Apply
  <2> QED
    BY <1>19, <2>1, <2>2 DEF Apply
<1>20. ASSUME NEW l \in Lease, RequestLost(l) PROVE TypeOK'
  BY <1>20 DEF RequestLost, Fault
<1>21. ASSUME NEW t \in Task, LeaseExpires(t) PROVE TypeOK'
  BY <1>21 DEF LeaseExpires
<1>22. CASE UNCHANGED vars
  BY <1>22 DEF vars
<1> QED
  BY <1>1, <1>2, <1>3, <1>4, <1>5, <1>6, <1>7, <1>8, <1>9, <1>10, <1>11, <1>12, <1>13,
     <1>14, <1>16, <1>17, <1>18, <1>19, <1>20, <1>21, <1>22
     DEF Next, Loop, Execution

(* Type correctness: TypeOK holds in every reachable state of Worker. *)
THEOREM TypeCorrect == Spec => []TypeOK
BY InitTypes, NextTypes, PTL DEF Spec

-----------------------------------------------------------------------------
(* Leases, and the sets of leases a worker holds, are finite. *)
LEMMA LeasesFinite ==
  /\ IsFiniteSet(Lease)
  /\ \A S \in SUBSET Lease : IsFiniteSet(S) /\ Cardinality(S) \in Nat
<1>1. IsFiniteSet(1..MaxLease)
  BY BoundAssumption, FS_Interval
<1>2. IsFiniteSet(Lease)
  BY <1>1, TaskAssumption, FS_Product DEF Lease
<1> QED
  BY <1>2, FS_Subset, FS_CardinalityType

(* A grant of k tasks is a grant of at most k leases. *)
LEMMA GrantSize ==
  ASSUME TypeOK, NEW granted \in SUBSET Task
  PROVE  Cardinality({<<t, claims[t] + 1>> : t \in granted}) <= Cardinality(granted)
<1> DEFINE leases == {<<t, claims[t] + 1>> : t \in granted}
           f == [t \in granted |-> <<t, claims[t] + 1>>]
<1>1. IsFiniteSet(granted)
  BY TaskAssumption, FS_Subset
<1>2. f \in Surjection(granted, leases)
  BY DEF Surjection
<1> HIDE DEF f, leases
<1>3. Cardinality(leases) <= Cardinality(granted)
  BY <1>1, <1>2, FS_Surjection
<1> QED
  BY <1>3 DEF leases

(* A step that starts or ends no execution leaves Active as it was. *)
LEMMA ActiveStable ==
  ASSUME \A l \in Lease : exec'[l] \in Live <=> exec[l] \in Live,
         \A l \in Lease : exec[l] \in Live => holder'[l] = holder[l]
  PROVE  \A w \in Worker : Active(w)' = Active(w)
BY DEF Active

(* When an execution ends, its worker has one execution less.  *)
LEMMA ReturnsInv ==
  ASSUME TypeOK, WorkerInv, NEW l \in Lease, exec[l] \in Live, Returns(l),
         UNCHANGED holder
  PROVE  /\ SemaphoreInv'
         /\ \A w \in Worker : sem'[w] <= sem[w] /\ Active(w)' \subseteq Active(w)
<1> DEFINE v == holder[l]
<1>1. v \in Worker
  BY DEF WorkerInv, LeaseInv, TypeOK, Live
<1>2. Active(v)' = Active(v) \ {l} /\ l \in Active(v)
  BY <1>1 DEF Active, Returns, TypeOK, Live
<1>3. sem'[v] = sem[v] - 1
  BY <1>1 DEF Returns, TypeOK
<1>4. \A w \in Worker \ {v} : Active(w)' = Active(w) /\ sem'[w] = sem[w]
  BY <1>1 DEF Active, Returns, TypeOK, Live
<1>5. Active(v) \in SUBSET Lease
  BY DEF Active
<1>6. Cardinality(Active(v)') = Cardinality(Active(v)) - 1
  BY <1>2, <1>5, LeasesFinite, FS_RemoveElement
<1>7. SemaphoreInv'
  BY <1>1, <1>3, <1>4, <1>6 DEF SemaphoreInv, WorkerInv
<1>8. \A w \in Worker : sem[w] \in Nat
  BY BoundAssumption DEF TypeOK
<1> QED
  BY <1>1, <1>2, <1>3, <1>4, <1>7, <1>8

(* WorkerInv holds initially. *)
LEMMA InitInv == Init => WorkerInv
<1> SUFFICES ASSUME Init PROVE WorkerInv
  OBVIOUS
<1>1. \A w \in Worker : Active(w) = {}
  BY DEF Init, Active, Live
<1>2. SemaphoreInv
  BY <1>1, FS_EmptySet DEF Init, SemaphoreInv
<1>3. LoopInv
  BY <1>1 DEF Init, LoopInv
<1>4. LeaseInv /\ CallerInv
  BY WorkerAssumption DEF Init, LeaseInv, CallerInv
<1> QED
  BY <1>2, <1>3, <1>4 DEF WorkerInv

(* A step that leaves the loops and the leases alone, and by which no worker *)
(* comes to have more executions, keeps all but SemaphoreInv.                *)
LEMMA LoopUntouched ==
  ASSUME TypeOK, TypeOK', WorkerInv,
         UNCHANGED <<polling, caller, holder, claims>>,
         \A w \in Worker : sem'[w] <= sem[w] /\ Active(w)' \subseteq Active(w),
         \A l \in Lease : exec[l] = "none" <=> exec'[l] = "none"
  PROVE  LoopInv' /\ LeaseInv' /\ CallerInv'
<1>1. \A w \in Worker : sem[w] \in Nat /\ sem'[w] \in Nat /\ free[w] \in Nat
  BY BoundAssumption DEF TypeOK
<1>2. \A w \in Worker : Cardinality(batch[w]) \in Nat /\ Cardinality(answer[w]) \in Nat
  BY LeasesFinite DEF TypeOK
<1>3. LoopInv'
  BY <1>1, <1>2, BoundAssumption DEF WorkerInv, LoopInv, polling
<1>4. LeaseInv'
  BY DEF WorkerInv, LeaseInv, polling
<1>5. CallerInv'
  BY DEF WorkerInv, CallerInv, polling
<1> QED
  BY <1>3, <1>4, <1>5

(* A step of one execution keeps WorkerInv. *)
LEMMA ExecutionInv ==
  ASSUME TypeOK, TypeOK', WorkerInv, NEW l \in Lease,
         Execution(l) \/ CallBreaks(l) \/ Apply(l) \/ RequestLost(l)
  PROVE  WorkerInv'
<1>1. ASSUME exec[l] \in Live, Returns(l),
             UNCHANGED <<polling, caller, holder, claims>>
      PROVE  WorkerInv'
  <2>1. SemaphoreInv' /\ \A w \in Worker :
          sem'[w] <= sem[w] /\ Active(w)' \subseteq Active(w)
    BY <1>1, ReturnsInv
  <2>2. \A k \in Lease : exec[k] = "none" <=> exec'[k] = "none"
    BY <1>1 DEF Returns, TypeOK, Live
  <2>3. LoopInv' /\ LeaseInv' /\ CallerInv'
    BY <1>1, <2>1, <2>2, LoopUntouched
  <2> QED
    BY <2>1, <2>3 DEF WorkerInv
<1>2. ASSUME \A k \in Lease : exec'[k] \in Live <=> exec[k] \in Live,
             \A k \in Lease : exec[k] = "none" <=> exec'[k] = "none",
             UNCHANGED <<polling, sem, caller, holder, claims>>
      PROVE  WorkerInv'
  <2>1. \A w \in Worker : Active(w)' = Active(w)
    BY <1>2, ActiveStable
  <2>2. SemaphoreInv'
    BY <1>2, <2>1 DEF WorkerInv, SemaphoreInv
  <2>3. \A w \in Worker : sem'[w] <= sem[w]
    BY <1>2, BoundAssumption DEF TypeOK
  <2>4. LoopInv' /\ LeaseInv' /\ CallerInv'
    BY <1>2, <2>1, <2>3, LoopUntouched
  <2> QED
    BY <2>2, <2>4 DEF WorkerInv
<1>3. CASE Refuse(l)
  BY <1>2, <1>3 DEF Refuse, server, TypeOK, Live
<1>4. CASE Run(l)
  BY <1>2, <1>4 DEF Run, server, TypeOK, Live
<1>5. CASE \E how \in {"ok", "retryable", "permanent"} : HandlerReturns(l, how)
  BY <1>2, <1>5 DEF HandlerReturns, server, TypeOK, Live
<1>6. CASE ResultUnencodable(l)
  BY <1>1, <1>6 DEF ResultUnencodable, server, Live
<1>7. CASE CallReturns(l)
  BY <1>1, <1>7 DEF CallReturns, server, Live
<1>8. CASE CallBreaks(l)
  BY <1>1, <1>8 DEF CallBreaks, server, Live
<1>9. CASE Apply(l)
  BY <1>2, <1>9 DEF Apply
<1>10. CASE RequestLost(l)
  BY <1>2, <1>10 DEF RequestLost, server
<1> QED
  BY <1>3, <1>4, <1>5, <1>6, <1>7, <1>8, <1>9, <1>10 DEF Execution

(* A step of a caller, a loop or the server that starts and ends no          *)
(* execution keeps SemaphoreInv, and each other part by what it changes.     *)
LEMMA QuietInv ==
  ASSUME TypeOK, WorkerInv, UNCHANGED <<sem, exec>>,
         \A l \in Lease : exec[l] \in Live => holder'[l] = holder[l]
  PROVE  SemaphoreInv' /\ \A w \in Worker : Active(w)' = Active(w)
<1>1. \A w \in Worker : Active(w)' = Active(w)
  BY ActiveStable
<1> QED
  BY <1>1 DEF WorkerInv, SemaphoreInv

(* A step of a caller, of a loop or of the server's table keeps WorkerInv. *)
LEMMA WorkerStepInv ==
  ASSUME TypeOK, TypeOK', WorkerInv, NEW w \in Worker,
         \/ Start(w) \/ StopCalled(w) \/ StopReturns(w) \/ Loop(w) \/ PollFails(w)
         \/ Crash(w) \/ \E granted \in SUBSET Task : Grant(w, granted)
  PROVE  WorkerInv'
<1> USE DEF server, polling, executing
<1>a. \A v \in Worker : /\ Cardinality(answer[v]) \in Nat
                        /\ Cardinality(batch[v]) \in Nat
                        /\ sem[v] \in 0..Concurrency /\ free[v] \in 0..Concurrency
  BY LeasesFinite DEF TypeOK
<1>b. Cardinality({}) = 0
  BY FS_EmptySet
<1>c. LoopInv /\ LeaseInv /\ CallerInv /\ SemaphoreInv
  BY DEF WorkerInv
<1>1. CASE Start(w)
  <2>1. \A v \in Worker : Active(v)' = Active(v)
    BY <1>1, ActiveStable DEF Start
  <2>2. Active(w) = {} /\ batch[w] = {} /\ answer[w] = {}
    BY <1>1, <1>c DEF Start, LoopInv, CallerInv
  <2>3. SemaphoreInv'
    <3>1. sem'[w] = 0 /\ \A v \in Worker \ {w} : sem'[v] = sem[v]
      BY <1>1 DEF Start, TypeOK
    <3>2. Cardinality(Active(w)') = 0
      BY <1>b, <2>1, <2>2
    <3>3. ASSUME NEW v \in Worker PROVE sem'[v] = Cardinality(Active(v)')
      BY <1>c, <2>1, <3>1, <3>2 DEF SemaphoreInv
    <3> QED
      BY <3>3 DEF SemaphoreInv
  <2>4. LoopInv'
    BY <1>1, <1>c, <2>1, <2>2 DEF Start, LoopInv, TypeOK
  <2>5. LeaseInv' /\ CallerInv'
    BY <1>1, <1>c DEF Start, LeaseInv, CallerInv, TypeOK
  <2> QED
    BY <2>3, <2>4, <2>5 DEF WorkerInv
<1>2. CASE StopCalled(w)
  <2>1. SemaphoreInv' /\ \A v \in Worker : Active(v)' = Active(v)
    BY <1>2, QuietInv DEF StopCalled
  <2>2. LoopInv'
    BY <1>2, <1>c, <2>1 DEF StopCalled, LoopInv
  <2>3. LeaseInv' /\ CallerInv'
    BY <1>2, <1>c DEF StopCalled, LeaseInv, CallerInv, TypeOK
  <2> QED
    BY <2>1, <2>2, <2>3 DEF WorkerInv
<1>3. CASE StopReturns(w)
  <2>1. SemaphoreInv' /\ \A v \in Worker : Active(v)' = Active(v)
    BY <1>3, QuietInv DEF StopReturns
  <2>2. LoopInv'
    BY <1>3, <1>c, <2>1 DEF StopReturns, LoopInv
  <2>3. LeaseInv' /\ CallerInv'
    BY <1>3, <1>c DEF StopReturns, LeaseInv, CallerInv, TypeOK
  <2> QED
    BY <2>1, <2>2, <2>3 DEF WorkerInv
<1>4. CASE LoopPolls(w)
  <2>1. SemaphoreInv' /\ \A v \in Worker : Active(v)' = Active(v)
    BY <1>4, QuietInv DEF LoopPolls
  <2>2. LoopInv'
    <3>1. sem[w] + free'[w] = Concurrency /\ free'[w] \in Nat
      BY <1>4, <1>a, BoundAssumption DEF LoopPolls, TypeOK
    <3>2. answer[w] = {} /\ batch[w] = {} /\ loop'[w] = "polling"
      BY <1>4, <1>c DEF LoopPolls, LoopInv, TypeOK
    <3>3. Cardinality(answer[w]) <= free'[w]
      BY <1>b, <3>1, <3>2
    <3>4. \A v \in Worker \ {w} : loop'[v] = loop[v] /\ free'[v] = free[v]
      BY <1>4 DEF LoopPolls, TypeOK
    <3>5. UNCHANGED <<sem, answer, batch>>
      BY <1>4 DEF LoopPolls
    <3>6. sem[w] + free'[w] <= Concurrency
      BY <3>1, BoundAssumption
    <3> QED
      BY <1>c, <2>1, <3>2, <3>3, <3>4, <3>5, <3>6 DEF LoopInv
  <2>3. LeaseInv' /\ CallerInv'
    BY <1>4, <1>c DEF LoopPolls, LeaseInv, CallerInv, TypeOK
  <2> QED
    BY <2>1, <2>2, <2>3 DEF WorkerInv
<1>5. CASE LoopExits(w)
  <2>1. SemaphoreInv' /\ \A v \in Worker : Active(v)' = Active(v)
    BY <1>5, QuietInv DEF LoopExits
  <2>2. LoopInv'
    BY <1>5, <1>c, <2>1 DEF LoopExits, LoopInv, TypeOK
  <2>3. LeaseInv' /\ CallerInv'
    BY <1>5, <1>c DEF LoopExits, LeaseInv, CallerInv, TypeOK
  <2> QED
    BY <2>1, <2>2, <2>3 DEF WorkerInv
<1>6. CASE PollReturns(w)
  <2>1. SemaphoreInv' /\ \A v \in Worker : Active(v)' = Active(v)
    BY <1>6, QuietInv DEF PollReturns
  <2>2. LoopInv'
    BY <1>6, <1>a, <1>b, <1>c, <2>1, BoundAssumption DEF PollReturns, LoopInv, TypeOK
  <2>3. LeaseInv' /\ CallerInv'
    BY <1>6, <1>c DEF PollReturns, LeaseInv, CallerInv, TypeOK
  <2> QED
    BY <2>1, <2>2, <2>3 DEF WorkerInv
<1>7. CASE PollFails(w)
  <2>1. SemaphoreInv' /\ \A v \in Worker : Active(v)' = Active(v)
    BY <1>7, QuietInv DEF PollFails
  <2>2. LoopInv'
    BY <1>7, <1>c, <2>1 DEF PollFails, LoopInv, TypeOK
  <2>3. LeaseInv' /\ CallerInv'
    BY <1>7, <1>c DEF PollFails, LeaseInv, CallerInv, TypeOK
  <2> QED
    BY <2>1, <2>2, <2>3 DEF WorkerInv
<1>8. CASE LoopDrained(w)
  <2>1. SemaphoreInv' /\ \A v \in Worker : Active(v)' = Active(v)
    BY <1>8, QuietInv DEF LoopDrained
  <2>2. LoopInv'
    BY <1>8, <1>c, <2>1 DEF LoopDrained, LoopInv, TypeOK
  <2>3. LeaseInv' /\ CallerInv'
    BY <1>8, <1>c DEF LoopDrained, LeaseInv, CallerInv, TypeOK
  <2> QED
    BY <2>1, <2>2, <2>3 DEF WorkerInv
<1>9. ASSUME NEW l \in Lease, Dispatch(w, l) PROVE WorkerInv'
  <2>1. l \notin Active(w) /\ holder[l] = w /\ exec[l] = "none"
    BY <1>9, <1>c DEF Dispatch, LeaseInv, Active, Live
  <2>2. Active(w)' = Active(w) \cup {l}
    BY <1>9, <2>1 DEF Dispatch, Active, Live, TypeOK
  <2>3. \A v \in Worker \ {w} : Active(v)' = Active(v) /\ sem'[v] = sem[v]
    BY <1>9, <2>1 DEF Dispatch, Active, TypeOK
  <2>4. Cardinality(Active(w)') = Cardinality(Active(w)) + 1
    <3>1. Active(w) \in SUBSET Lease
      BY DEF Active
    <3> QED
      BY <2>1, <2>2, <3>1, LeasesFinite, FS_AddElement
  <2>5. SemaphoreInv'
    BY <1>9, <1>c, <2>3, <2>4 DEF Dispatch, SemaphoreInv, TypeOK
  <2>6. Cardinality(batch'[w]) = Cardinality(batch[w]) - 1
    <3>1. batch[w] \in SUBSET Lease /\ batch'[w] = batch[w] \ {l} /\ l \in batch[w]
      BY <1>9 DEF Dispatch, TypeOK
    <3> QED
      BY <3>1, LeasesFinite, FS_RemoveElement
  <2>7. LoopInv'
    BY <1>9, <1>a, <1>c, <2>2, <2>3, <2>6, BoundAssumption DEF Dispatch, LoopInv, TypeOK
  <2>8. LeaseInv'
    <3>1. \A v \in Worker : l \notin answer'[v] \cup batch'[v]
      BY <1>9, <1>c, <2>1 DEF Dispatch, LeaseInv, LoopInv, TypeOK
    <3> QED
      BY <1>9, <1>c, <2>1, <3>1, WorkerAssumption DEF Dispatch, LeaseInv, TypeOK
  <2>9. CallerInv'
    BY <1>9, <1>c DEF Dispatch, CallerInv, TypeOK
  <2> QED
    BY <2>5, <2>7, <2>8, <2>9 DEF WorkerInv
<1>10. CASE Crash(w)
  <2>1. Active(w)' = {} /\ \A v \in Worker \ {w} : Active(v)' = Active(v)
    BY <1>10 DEF Crash, Active, Live, TypeOK
  <2>2. SemaphoreInv'
    <3>1. sem'[w] = 0 /\ \A v \in Worker \ {w} : sem'[v] = sem[v]
      BY <1>10 DEF Crash, TypeOK
    <3>2. Cardinality(Active(w)') = 0
      BY <1>b, <2>1
    <3>3. ASSUME NEW v \in Worker PROVE sem'[v] = Cardinality(Active(v)')
      BY <1>c, <2>1, <3>1, <3>2 DEF SemaphoreInv
    <3> QED
      BY <3>3 DEF SemaphoreInv
  <2>3. LoopInv'
    BY <1>10, <1>c, <2>1 DEF Crash, LoopInv, TypeOK
  <2>4. LeaseInv'
    BY <1>10, <1>c DEF Crash, LeaseInv, TypeOK, Active, Live
  <2>5. CallerInv'
    BY <1>10, <1>c DEF Crash, CallerInv, TypeOK
  <2> QED
    BY <2>2, <2>3, <2>4, <2>5 DEF WorkerInv
<1>11. ASSUME NEW granted \in SUBSET Task, Grant(w, granted) PROVE WorkerInv'
  <2> DEFINE leases == {<<t, claims[t] + 1>> : t \in granted}
  <2>1. \A l \in leases : l \in Lease /\ l[2] > claims[l[1]] /\ l[1] \in granted
    BY <1>11, BoundAssumption DEF Grant, Lease, TypeOK
  <2>2. \A l \in Lease : l \in leases <=> (l[1] \in granted /\ l[2] = claims[l[1]] + 1)
    BY DEF Lease
  <2>3. \A l \in leases : holder[l] = NoWorker /\ exec[l] = "none" /\ holder'[l] = w
    BY <1>11, <1>c, <2>1, <2>2 DEF Grant, LeaseInv
  <2>4. \A l \in Lease \ leases : holder'[l] = holder[l]
    BY <1>11, <2>2 DEF Grant
  <2>5. SemaphoreInv' /\ \A v \in Worker : Active(v)' = Active(v)
    <3>1. \A l \in Lease : exec[l] \in Live => holder'[l] = holder[l]
      BY <2>3, <2>4 DEF Live
    <3> QED
      BY <1>11, <3>1, QuietInv DEF Grant
  <2>6. LoopInv'
    <3>1. answer'[w] = leases /\ \A v \in Worker \ {w} : answer'[v] = answer[v]
      BY <1>11 DEF Grant, TypeOK
    <3>2. Cardinality(leases) <= free[w]
      <4>1. Cardinality(granted) \in Nat
        BY TaskAssumption, FS_Subset, FS_CardinalityType
      <4>2. leases \in SUBSET Lease
        BY <2>1
      <4>3. Cardinality(leases) \in Nat
        BY <4>2, LeasesFinite
      <4> QED
        BY <1>11, <1>a, <4>1, <4>3, GrantSize DEF Grant
    <3> HIDE DEF leases
    <3>3. Cardinality(answer'[w]) <= free[w] /\ loop[w] = "polling"
      BY <1>11, <3>1, <3>2 DEF Grant
    <3>4. UNCHANGED <<loop, free, sem, batch>>
      BY <1>11 DEF Grant
    <3> QED
      BY <1>c, <2>5, <3>1, <3>3, <3>4 DEF LoopInv
  <2>7. LeaseInv'
    <3>1. \A l \in Lease : l[1] \in Task /\ l[2] \in 1..MaxLease
      BY DEF Lease
    <3>2. \A l \in Lease : l[2] > claims'[l[1]] => l \notin leases /\ l[2] > claims[l[1]]
      BY <1>11, <2>2, <3>1 DEF Grant, TypeOK
    <3>3. answer'[w] = leases /\ \A v \in Worker \ {w} : answer'[v] = answer[v]
      BY <1>11 DEF Grant, TypeOK
    <3>4. batch' = batch /\ exec' = exec
      BY <1>11 DEF Grant
    <3> HIDE DEF leases
    <3>5. ASSUME NEW v \in Worker, NEW l \in Lease, l \in answer'[v] \cup batch'[v]
          PROVE  holder'[l] = v /\ exec'[l] = "none"
      <4>1. CASE l \in leases
        <5>1. holder[l] = NoWorker
          BY <2>3, <4>1
        <5>2. l \notin answer[v] \cup batch[v]
          BY <1>c, <5>1, WorkerAssumption DEF LeaseInv
        <5>3. v = w
          BY <3>3, <3>4, <3>5, <5>2
        <5> QED
          BY <2>3, <3>4, <4>1, <5>3
      <4>2. CASE l \notin leases
        <5>1. l \in answer[v] \cup batch[v]
          BY <3>3, <3>4, <3>5, <4>2
        <5> QED
          BY <1>c, <2>4, <3>4, <4>2, <5>1 DEF LeaseInv
      <4> QED
        BY <4>1, <4>2
    <3>6. \A l \in Lease : l[2] > claims'[l[1]] => holder'[l] = NoWorker
      BY <1>c, <2>4, <3>2 DEF LeaseInv
    <3>7. \A l \in Lease : holder'[l] = NoWorker => exec'[l] = "none"
      BY <1>c, <2>3, <2>4, <3>4 DEF LeaseInv
    <3> QED
      BY <3>5, <3>6, <3>7 DEF LeaseInv
  <2>8. CallerInv'
    BY <1>11, <1>c DEF Grant, CallerInv
  <2> QED
    BY <2>5, <2>6, <2>7, <2>8 DEF WorkerInv
<1> QED
  BY <1>1, <1>2, <1>3, <1>4, <1>5, <1>6, <1>7, <1>8, <1>9, <1>10, <1>11 DEF Loop

(* Every step keeps WorkerInv. *)
LEMMA NextInv == TypeOK /\ TypeOK' /\ WorkerInv /\ [Next]_vars => WorkerInv'
<1> SUFFICES ASSUME TypeOK, TypeOK', WorkerInv, [Next]_vars PROVE WorkerInv'
  OBVIOUS
<1>1. ASSUME NEW t \in Task, LeaseExpires(t) PROVE WorkerInv'
  <2>1. SemaphoreInv' /\ \A w \in Worker : Active(w)' = Active(w)
    BY <1>1, QuietInv DEF LeaseExpires, executing
  <2> QED
    BY <1>1, <2>1 DEF LeaseExpires, WorkerInv, LoopInv, LeaseInv, CallerInv, polling, executing
<1>2. CASE UNCHANGED vars
  <2>1. SemaphoreInv' /\ \A w \in Worker : Active(w)' = Active(w)
    BY <1>2, QuietInv DEF vars, server, executing
  <2> QED
    BY <1>2, <2>1 DEF vars, WorkerInv, LoopInv, LeaseInv, CallerInv, server, polling, executing
<1> QED
  BY <1>1, <1>2, WorkerStepInv, ExecutionInv DEF Next

(* The invariant: what a worker holds at each point of its loop, in every    *)
(* reachable state.                                                          *)
THEOREM InvCorrect == Spec => []WorkerInv
BY InitTypes, InitInv, NextInv, TypeCorrect, PTL DEF Spec

(* The semaphore counts the executions under way, and the loop never blocks  *)
(* on it: a consequence of WorkerInv.                                        *)
THEOREM SemaphoreCounts == Spec => []SemaphoreCountsExecutions
<1>1. WorkerInv => SemaphoreCountsExecutions
  BY DEF WorkerInv, SemaphoreInv, LoopInv, SemaphoreCountsExecutions
<1> QED
  BY <1>1, InvCorrect, PTL

(* WithConcurrency bounds the leases a worker has been granted and has not   *)
(* finished, wherever they are.                                              *)
THEOREM ConcurrencyRespected == Spec => []WithinConcurrency
<1>1. TypeOK /\ WorkerInv => WithinConcurrency
  <2> SUFFICES ASSUME TypeOK, WorkerInv, NEW w \in Worker
               PROVE  Cardinality(answer[w] \cup batch[w] \cup Active(w)) <= Concurrency
    BY DEF WithinConcurrency
  <2> DEFINE a == answer[w]  b == batch[w]  r == Active(w)
  <2>1. a \in SUBSET Lease /\ b \in SUBSET Lease /\ r \in SUBSET Lease
    BY DEF TypeOK, Active
  <2>2. /\ Cardinality(a) \in Nat /\ Cardinality(b) \in Nat /\ Cardinality(r) \in Nat
        /\ IsFiniteSet(a) /\ IsFiniteSet(b) /\ IsFiniteSet(r)
    BY <2>1, LeasesFinite
  <2>3. sem[w] = Cardinality(r) /\ sem[w] \in 0..Concurrency /\ free[w] \in 0..Concurrency
    BY DEF WorkerInv, SemaphoreInv, TypeOK
  <2>4. CASE loop[w] = "polling"
    <3>1. b = {} /\ Cardinality(r) + Cardinality(a) <= Concurrency
      BY <2>2, <2>3, <2>4, BoundAssumption DEF WorkerInv, LoopInv
    <3>2. (a \cup b) \cup r = a \cup r
      BY <3>1
    <3>3. Cardinality(a \cup r) = Cardinality(a) + Cardinality(r) - Cardinality(a \cap r)
      BY <2>2, FS_Union
    <3>4. Cardinality(a \cap r) \in Nat
      <4>1. a \cap r \in SUBSET Lease
        BY <2>1
      <4> QED
        BY <4>1, LeasesFinite
    <3> HIDE DEF a, b, r
    <3>5. Cardinality(a \cup r) <= Concurrency
      BY <2>2, <3>1, <3>3, <3>4, BoundAssumption
    <3> QED
      BY <3>2, <3>5 DEF a, b, r
  <2>5. CASE loop[w] # "polling"
    <3>1. a = {} /\ Cardinality(r) + Cardinality(b) <= Concurrency
      <4>1. CASE b = {}
        BY <2>2, <2>3, <2>5, <4>1, FS_EmptySet, BoundAssumption DEF WorkerInv, LoopInv
      <4>2. CASE b # {}
        BY <2>2, <2>3, <2>5, <4>2, BoundAssumption DEF WorkerInv, LoopInv
      <4> QED
        BY <4>1, <4>2
    <3>2. (a \cup b) \cup r = b \cup r
      BY <3>1
    <3>3. Cardinality(b \cup r) = Cardinality(b) + Cardinality(r) - Cardinality(b \cap r)
      BY <2>2, FS_Union
    <3>4. Cardinality(b \cap r) \in Nat
      <4>1. b \cap r \in SUBSET Lease
        BY <2>1
      <4> QED
        BY <4>1, LeasesFinite
    <3> HIDE DEF a, b, r
    <3>5. Cardinality(b \cup r) <= Concurrency
      BY <2>2, <3>1, <3>3, <3>4, BoundAssumption
    <3> QED
      BY <3>2, <3>5 DEF a, b, r
  <2> QED
    BY <2>4, <2>5
<1> QED
  BY <1>1, TypeCorrect, InvCorrect, PTL

(* Once Stop has returned, nothing of the worker is left: no loop, no lease  *)
(* it would still run, no step that is running.                              *)
THEOREM StopIsQuiet == Spec => []StopQuiesces
<1>1. WorkerInv => StopQuiesces
  BY DEF WorkerInv, LoopInv, CallerInv, StopQuiesces
<1> QED
  BY <1>1, InvCorrect, PTL

-----------------------------------------------------------------------------
(* The refinement of StepPromise. *)

\* A task that is open has nothing committed, and an execution has an outcome
\* only when its handler is over.
PromiseInv ==
  /\ \A t \in Task : status[t] \in {"ready", "leased"} => committed[t] = {}
  /\ \A l \in Lease : exec[l] \in {"none", "begun", "running"} => outcome[l] = "none"

(* PromiseInv is inductive, given the types. *)
LEMMA NextPromiseInv ==
  TypeOK /\ TypeOK' /\ WorkerInv /\ PromiseInv /\ [Next]_vars => PromiseInv'
<1> SUFFICES ASSUME TypeOK, TypeOK', WorkerInv, PromiseInv, [Next]_vars PROVE PromiseInv'
  OBVIOUS
<1> USE DEF PromiseInv, server, polling, executing
<1>1. ASSUME NEW w \in Worker, Start(w) \/ StopCalled(w) \/ StopReturns(w) PROVE PromiseInv'
  BY <1>1 DEF Start, StopCalled, StopReturns
<1>2. ASSUME NEW w \in Worker,
             LoopPolls(w) \/ LoopExits(w) \/ PollReturns(w) \/ LoopDrained(w) \/ PollFails(w)
      PROVE  PromiseInv'
  BY <1>2 DEF LoopPolls, LoopExits, PollReturns, LoopDrained, PollFails
<1>3. ASSUME NEW w \in Worker, NEW l \in Lease, Dispatch(w, l) PROVE PromiseInv'
  <2>1. exec[l] = "none"
    BY <1>3 DEF WorkerInv, LeaseInv, Dispatch
  <2> QED
    BY <1>3, <2>1 DEF Dispatch, TypeOK
<1>4. ASSUME NEW w \in Worker, Crash(w) PROVE PromiseInv'
  BY <1>4 DEF Crash
<1>5. ASSUME NEW w \in Worker, NEW granted \in SUBSET Task, Grant(w, granted) PROVE PromiseInv'
  BY <1>5 DEF Grant
<1>6. ASSUME NEW l \in Lease, Refuse(l) \/ Run(l) PROVE PromiseInv'
  BY <1>6 DEF Refuse, Run, TypeOK
<1>7. ASSUME NEW l \in Lease, \E how \in {"ok", "retryable", "permanent"} : HandlerReturns(l, how)
      PROVE  PromiseInv'
  BY <1>7 DEF HandlerReturns, TypeOK
<1>8. ASSUME NEW l \in Lease, ResultUnencodable(l) PROVE PromiseInv'
  BY <1>8 DEF ResultUnencodable, Returns, TypeOK
<1>9. ASSUME NEW l \in Lease, CallReturns(l) \/ CallBreaks(l) PROVE PromiseInv'
  BY <1>9 DEF CallReturns, CallBreaks, Returns, TypeOK
<1>10. ASSUME NEW l \in Lease, Apply(l) PROVE PromiseInv'
  <2>1. UNCHANGED <<exec, outcome>>
    BY <1>10 DEF Apply
  <2>2. l[1] \in Task
    BY DEF Lease
  <2>3. CASE Held(l) /\ outcome[l] = "ok"
    <3>1. /\ status' = [status EXCEPT ![l[1]] = "completed"]
          /\ \A t \in Task \ {l[1]} : committed'[t] = committed[t]
      BY <1>10, <2>3 DEF Apply, TypeOK
    <3> QED
      BY <2>1, <2>2, <3>1 DEF TypeOK
  <2>4. CASE ~(Held(l) /\ outcome[l] = "ok")
    <3>1. committed' = committed
      BY <1>10, <2>4 DEF Apply
    <3>2. \A t \in Task : status'[t] = status[t] \/ status[t] = "leased"
      BY <1>10, <2>2, <2>4 DEF Apply, TypeOK, Held
    <3> QED
      BY <2>1, <3>1, <3>2
  <2> QED
    BY <2>3, <2>4
<1>11. ASSUME NEW l \in Lease, RequestLost(l) PROVE PromiseInv'
  BY <1>11 DEF RequestLost
<1>12. ASSUME NEW t \in Task, LeaseExpires(t) PROVE PromiseInv'
  BY <1>12 DEF LeaseExpires, TypeOK
<1>13. CASE UNCHANGED vars
  BY <1>13 DEF vars
<1> QED
  BY <1>1, <1>2, <1>3, <1>4, <1>5, <1>6, <1>7, <1>8, <1>9, <1>10, <1>11, <1>12, <1>13
     DEF Next, Loop, Execution

PhaseBar == [t \in Task |-> PhaseOf(status[t])]
AttemptBar == [t \in Task |-> [n \in 1..MaxLease |-> AttemptOf(<<t, n>>)]]

(* A step that changes no execution but l's changes no attempt but l's. *)
LEMMA OneAttempt ==
  ASSUME NEW l \in Lease, NEW how, AttemptOf(l)' = how,
         \A k \in Lease \ {l} : AttemptOf(k)' = AttemptOf(k)
  PROVE  AttemptBar' = [AttemptBar EXCEPT ![l[1]][l[2]] = how]
<1>1. PICK t \in Task, n \in 1..MaxLease : l = <<t, n>>
  BY DEF Lease
<1>2. \A s \in Task, m \in 1..MaxLease :
        AttemptOf(<<s, m>>)' = IF s = t /\ m = n THEN how ELSE AttemptOf(<<s, m>>)
  BY <1>1 DEF Lease
<1> QED
  BY <1>1, <1>2 DEF AttemptBar

(* A step that changes the AttemptOf no lease changes no attempt. *)
LEMMA NoAttempt ==
  ASSUME \A l \in Lease : AttemptOf(l)' = AttemptOf(l)
  PROVE  AttemptBar' = AttemptBar
<1>1. \A t \in Task, n \in 1..MaxLease : AttemptOf(<<t, n>>)' = AttemptOf(<<t, n>>)
  BY DEF Lease
<1> QED
  BY <1>1 DEF AttemptBar

(* The initial states map to initial states. *)
LEMMA InitRefines == Init => PromiseInv /\ Promise!Init
BY DEF Init, PromiseInv, Promise!Init, Promise!Attempts, PhaseOf, AttemptOf, Lease

(* Every step maps to a step of StepPromise, or to no step. *)
LEMMA NextRefines ==
  ASSUME TypeOK, TypeOK', WorkerInv, PromiseInv, [Next]_vars
  PROVE  [Promise!Next]_(Promise!vars)
<1> USE DEF server, polling, executing
<1> DEFINE Same == PhaseBar' = PhaseBar /\ AttemptBar' = AttemptBar /\ committed' = committed
<1>s. Same => [Promise!Next]_(Promise!vars)
  BY DEF Promise!vars, PhaseBar, AttemptBar
<1>i. \A l \in Lease : l[1] \in Task /\ l[2] \in 1..MaxLease /\ l = <<l[1], l[2]>>
  BY DEF Lease
<1>e. ASSUME NEW l \in Lease, NEW how \in {"good", "bad"},
             AttemptOf(l) = "running", AttemptOf(l)' = how,
             \A k \in Lease \ {l} : AttemptOf(k)' = AttemptOf(k),
             UNCHANGED <<status, committed>>
      PROVE  [Promise!Next]_(Promise!vars)
  <2>1. AttemptBar' = [AttemptBar EXCEPT ![l[1]][l[2]] = how]
    BY <1>e, OneAttempt
  <2>2. AttemptBar[l[1]][l[2]] = "running"
    BY <1>e, <1>i DEF AttemptBar
  <2>3. PhaseBar' = PhaseBar
    BY <1>e DEF PhaseBar
  <2>4. Promise!End(l[1], l[2], how)
    BY <1>e, <2>1, <2>2, <2>3 DEF Promise!End, AttemptBar, PhaseBar
  <2> QED
    BY <1>i, <2>4 DEF Promise!Next, Promise!Attempts
<1>1. ASSUME NEW w \in Worker, Start(w) \/ StopCalled(w) \/ StopReturns(w)
      PROVE  [Promise!Next]_(Promise!vars)
  <2>1. UNCHANGED <<status, exec, outcome, committed>>
    BY <1>1 DEF Start, StopCalled, StopReturns
  <2> QED
    BY <1>s, <2>1 DEF PhaseBar, AttemptBar, AttemptOf
<1>2. ASSUME NEW w \in Worker,
             LoopPolls(w) \/ LoopExits(w) \/ PollReturns(w) \/ LoopDrained(w) \/ PollFails(w)
      PROVE  [Promise!Next]_(Promise!vars)
  <2>1. UNCHANGED <<status, exec, outcome, committed>>
    BY <1>2 DEF LoopPolls, LoopExits, PollReturns, LoopDrained, PollFails
  <2> QED
    BY <1>s, <2>1 DEF PhaseBar, AttemptBar, AttemptOf
<1>3. ASSUME NEW w \in Worker, NEW l \in Lease, Dispatch(w, l)
      PROVE  [Promise!Next]_(Promise!vars)
  <2>1. exec[l] = "none" /\ outcome[l] = "none"
    BY <1>3 DEF WorkerInv, LeaseInv, Dispatch, PromiseInv
  <2>2. AttemptOf(l) = "none" /\ AttemptOf(l)' = "running"
    BY <1>3, <2>1 DEF AttemptOf, Dispatch, TypeOK
  <2>3. \A k \in Lease \ {l} : AttemptOf(k)' = AttemptOf(k)
    BY <1>3 DEF AttemptOf, Dispatch, TypeOK
  <2>4. AttemptBar' = [AttemptBar EXCEPT ![l[1]][l[2]] = "running"]
    BY <2>2, <2>3, OneAttempt
  <2>5. AttemptBar[l[1]][l[2]] = "none"
    BY <1>i, <2>2 DEF AttemptBar
  <2>6. Promise!Begin(l[1], l[2])
    BY <1>3, <2>4, <2>5 DEF Promise!Begin, AttemptBar, PhaseBar, Dispatch
  <2> QED
    BY <1>i, <2>6 DEF Promise!Next, Promise!Attempts
<1>4. ASSUME NEW w \in Worker, Crash(w) PROVE [Promise!Next]_(Promise!vars)
  <2> DEFINE dead == {l \in Active(w) : outcome[l] = "none"}
  <2>1. dead \in SUBSET (Task \X (1..MaxLease))
    BY DEF Active, Lease
  <2>2. \A l \in dead : AttemptOf(l) = "running" /\ AttemptOf(l)' = "lost"
    BY <1>4 DEF Crash, Active, Live, AttemptOf, TypeOK
  <2>3. \A l \in Lease \ dead : AttemptOf(l)' = AttemptOf(l)
    BY <1>4 DEF Crash, Active, Live, AttemptOf, TypeOK, Outcome
  <2>4. \A l \in dead : AttemptBar[l[1]][l[2]] = "running"
    BY <1>i, <2>1, <2>2 DEF AttemptBar, Lease
  <2>5. AttemptBar' = [t \in Task |-> [n \in 1..MaxLease |->
                         IF <<t, n>> \in dead THEN "lost" ELSE AttemptBar[t][n]]]
    <3>1. \A t \in Task, n \in 1..MaxLease :
            AttemptOf(<<t, n>>)' = IF <<t, n>> \in dead THEN "lost" ELSE AttemptOf(<<t, n>>)
      BY <2>1, <2>2, <2>3 DEF Lease
    <3> HIDE DEF dead
    <3> QED
      BY <3>1 DEF AttemptBar
  <2> HIDE DEF dead
  <2>6. Promise!Lose
    BY <1>4, <2>1, <2>4, <2>5 DEF Promise!Lose, Promise!Attempts, AttemptBar, PhaseBar, Crash
  <2> QED
    BY <2>6 DEF Promise!Next
<1>5. ASSUME NEW w \in Worker, NEW granted \in SUBSET Task, Grant(w, granted)
      PROVE  [Promise!Next]_(Promise!vars)
  <2>1. PhaseBar' = PhaseBar
    BY <1>5 DEF Grant, PhaseBar, PhaseOf, TypeOK
  <2>2. UNCHANGED <<exec, outcome, committed>>
    BY <1>5 DEF Grant
  <2> QED
    BY <1>s, <2>1, <2>2 DEF AttemptBar, AttemptOf
<1>6. ASSUME NEW l \in Lease, Refuse(l) PROVE [Promise!Next]_(Promise!vars)
  <2>1. AttemptOf(l) = "running" /\ AttemptOf(l)' = "bad"
    BY <1>6 DEF Refuse, AttemptOf, TypeOK, PromiseInv
  <2>2. \A k \in Lease \ {l} : AttemptOf(k)' = AttemptOf(k)
    BY <1>6 DEF Refuse, AttemptOf, TypeOK
  <2> QED
    BY <1>6, <1>e, <2>1, <2>2 DEF Refuse
<1>7. ASSUME NEW l \in Lease, Run(l) PROVE [Promise!Next]_(Promise!vars)
  <2>1. \A k \in Lease : AttemptOf(k)' = AttemptOf(k)
    BY <1>7 DEF Run, AttemptOf, TypeOK
  <2>2. AttemptBar' = AttemptBar
    BY <2>1, NoAttempt
  <2> QED
    BY <1>7, <1>s, <2>2 DEF Run, PhaseBar
<1>8. ASSUME NEW l \in Lease, NEW how \in {"ok", "retryable", "permanent"},
             HandlerReturns(l, how)
      PROVE  [Promise!Next]_(Promise!vars)
  <2>1. AttemptOf(l) = "running" /\ AttemptOf(l)' = IF how = "ok" THEN "good" ELSE "bad"
    BY <1>8 DEF HandlerReturns, AttemptOf, TypeOK, PromiseInv
  <2>2. \A k \in Lease \ {l} : AttemptOf(k)' = AttemptOf(k)
    BY <1>8 DEF HandlerReturns, AttemptOf, TypeOK
  <2> QED
    BY <1>8, <1>e, <2>1, <2>2 DEF HandlerReturns
<1>9. ASSUME NEW l \in Lease, ResultUnencodable(l) PROVE [Promise!Next]_(Promise!vars)
  <2>1. AttemptOf(l) = "running" /\ AttemptOf(l)' = "bad"
    BY <1>9 DEF ResultUnencodable, Returns, AttemptOf, TypeOK, PromiseInv
  <2>2. \A k \in Lease \ {l} : AttemptOf(k)' = AttemptOf(k)
    BY <1>9 DEF ResultUnencodable, Returns, AttemptOf, TypeOK
  <2> QED
    BY <1>9, <1>e, <2>1, <2>2 DEF ResultUnencodable
<1>10. ASSUME NEW l \in Lease, CallReturns(l) \/ CallBreaks(l)
       PROVE  [Promise!Next]_(Promise!vars)
  <2>1. \A k \in Lease : AttemptOf(k)' = AttemptOf(k)
    BY <1>10 DEF CallReturns, CallBreaks, Returns, AttemptOf, TypeOK
  <2>2. AttemptBar' = AttemptBar
    BY <2>1, NoAttempt
  <2> QED
    BY <1>10, <1>s, <2>2 DEF CallReturns, CallBreaks, PhaseBar
<1>11. ASSUME NEW l \in Lease, Apply(l) PROVE [Promise!Next]_(Promise!vars)
  <2>1. UNCHANGED <<exec, outcome>>
    BY <1>11 DEF Apply
  <2>2. AttemptBar' = AttemptBar
    BY <2>1 DEF AttemptBar, AttemptOf
  <2>3. CASE Held(l) /\ outcome[l] = "ok"
    <3>1. /\ status[l[1]] = "leased"
          /\ status' = [status EXCEPT ![l[1]] = "completed"]
          /\ committed' = [committed EXCEPT ![l[1]] = {l[2]}]
      BY <1>11, <1>i, <2>3 DEF Apply, Held, PromiseInv, TypeOK
    <3>2. PhaseBar[l[1]] = "open" /\ PhaseBar' = [PhaseBar EXCEPT ![l[1]] = "completed"]
      BY <1>i, <3>1 DEF PhaseBar, PhaseOf, TypeOK
    <3>3. AttemptBar[l[1]][l[2]] = "good"
      BY <1>i, <2>3 DEF AttemptBar, AttemptOf
    <3>4. Promise!Commit(l[1], l[2])
      BY <2>2, <3>1, <3>2, <3>3 DEF Promise!Commit, PhaseBar, AttemptBar
    <3> QED
      BY <1>i, <3>4 DEF Promise!Next, Promise!Attempts
  <2>4. CASE Held(l) /\ outcome[l] # "ok"
    <3>1. /\ status[l[1]] = "leased" /\ committed' = committed
          /\ outcome[l] \in {"retryable", "permanent"}
          /\ \/ status' = [status EXCEPT ![l[1]] = "ready"]
             \/ status' = [status EXCEPT ![l[1]] = "failed"]
      BY <1>11, <2>4 DEF Apply, Held
    <3>2. CASE status' = [status EXCEPT ![l[1]] = "ready"]
      <4>1. PhaseBar' = PhaseBar
        BY <1>i, <3>1, <3>2 DEF PhaseBar, PhaseOf, TypeOK
      <4> QED
        BY <1>s, <2>2, <3>1, <4>1
    <3>3. CASE status' = [status EXCEPT ![l[1]] = "failed"]
      <4>1. PhaseBar[l[1]] = "open" /\ PhaseBar' = [PhaseBar EXCEPT ![l[1]] = "failed"]
        <5>1. PhaseBar[l[1]] = "open"
          BY <1>i, <3>1 DEF PhaseBar, PhaseOf
        <5>2. \A t \in Task :
                PhaseOf(status'[t]) = IF t = l[1] THEN "failed" ELSE PhaseOf(status[t])
          BY <1>i, <3>3 DEF PhaseOf, TypeOK
        <5> QED
          BY <1>i, <5>1, <5>2 DEF PhaseBar
      <4>2. AttemptBar[l[1]][l[2]] = "bad"
        BY <1>i, <3>1 DEF AttemptBar, AttemptOf
      <4>3. Promise!Abandon(l[1])
        BY <1>i, <2>2, <3>1, <4>1, <4>2
           DEF Promise!Abandon, Promise!Attempts, PhaseBar, AttemptBar
      <4> QED
        BY <1>i, <4>3 DEF Promise!Next
    <3> QED
      BY <3>1, <3>2, <3>3
  <2>5. CASE ~Held(l)
    <3>1. UNCHANGED <<status, committed>>
      BY <1>11, <2>5 DEF Apply
    <3> QED
      BY <1>s, <2>2, <3>1 DEF PhaseBar
  <2> QED
    BY <2>3, <2>4, <2>5
<1>12. ASSUME NEW l \in Lease, RequestLost(l) PROVE [Promise!Next]_(Promise!vars)
  <2>1. UNCHANGED <<status, exec, outcome, committed>>
    BY <1>12 DEF RequestLost
  <2> QED
    BY <1>s, <2>1 DEF PhaseBar, AttemptBar, AttemptOf
<1>13. ASSUME NEW t \in Task, LeaseExpires(t) PROVE [Promise!Next]_(Promise!vars)
  <2>1. PhaseBar' = PhaseBar
    BY <1>13 DEF LeaseExpires, PhaseBar, PhaseOf, TypeOK
  <2>2. UNCHANGED <<exec, outcome, committed>>
    BY <1>13 DEF LeaseExpires
  <2> QED
    BY <1>s, <2>1, <2>2 DEF AttemptBar, AttemptOf
<1>14. CASE UNCHANGED vars
  <2>1. UNCHANGED <<status, exec, outcome, committed>>
    BY <1>14 DEF vars
  <2> QED
    BY <1>s, <2>1 DEF PhaseBar, AttemptBar, AttemptOf
<1> QED
  BY <1>1, <1>2, <1>3, <1>4, <1>5, <1>6, <1>7, <1>8, <1>9, <1>10, <1>11, <1>12, <1>13, <1>14
     DEF Next, Loop, Execution

(* Worker implements StepPromise: at most one attempt's result is committed, *)
(* and only a successful attempt's.                                          *)
THEOREM PromiseKept == Spec => KeepsPromise
BY InitTypes, InitInv, InitRefines, NextTypes, NextInv, NextPromiseInv, NextRefines, PTL
   DEF Spec, KeepsPromise, Promise!Spec
=============================================================================
