---------------------------- MODULE StepPromise ----------------------------
(***************************************************************************)
(* What the worker and the server promise together about one step: a       *)
(* handler may be run many times, each run is an attempt, and the result   *)
(* (and the events and branches that ride it) of at most one attempt is    *)
(* committed -- never that of an attempt that failed.  A step that is      *)
(* completed or failed stays so.                                           *)
(*                                                                         *)
(* This is the contract the comments state (step.go:38-41, Emit; the       *)
(* Worker type, worker.go:57-58): "committed if and only if this attempt   *)
(* completes", "a crash loses at most the in-flight step".                 *)
(***************************************************************************)
EXTENDS Naturals

CONSTANTS
  Task,        \* the steps
  MaxLease     \* how many times one step may be handed to a worker

VARIABLES
  phase,       \* task -> "open", "completed" or "failed"
  attempt,     \* task -> 1..MaxLease -> what has become of that attempt
  commits      \* task -> the attempts whose result is committed

vars == <<phase, attempt, commits>>

Attempts == 1..MaxLease

Init ==
  /\ phase = [t \in Task |-> "open"]
  /\ attempt = [t \in Task |-> [n \in Attempts |-> "none"]]
  /\ commits = [t \in Task |-> {}]

Begin(t, n) ==
  /\ attempt[t][n] = "none"
  /\ attempt' = [attempt EXCEPT ![t][n] = "running"]
  /\ UNCHANGED <<phase, commits>>

\* An attempt ends: its handler succeeded ("good"), or it did not ("bad":
\* an error, a refusal, a result that cannot be sent).
End(t, n, how) ==
  /\ attempt[t][n] = "running"
  /\ attempt' = [attempt EXCEPT ![t][n] = how]
  /\ UNCHANGED <<phase, commits>>

\* One good attempt's result is committed, in the transaction that completes
\* the step.
Commit(t, n) ==
  /\ phase[t] = "open"
  /\ attempt[t][n] = "good"
  /\ phase' = [phase EXCEPT ![t] = "completed"]
  /\ commits' = [commits EXCEPT ![t] = {n}]
  /\ UNCHANGED attempt

\* A bad attempt's failure is final for the step.
Abandon(t) ==
  /\ phase[t] = "open"
  /\ \E n \in Attempts : attempt[t][n] = "bad"
  /\ phase' = [phase EXCEPT ![t] = "failed"]
  /\ UNCHANGED <<attempt, commits>>

\* The attempts a process takes with it when it dies: none of them ends.
Lose ==
  \E dead \in SUBSET (Task \X Attempts) :
    /\ \A a \in dead : attempt[a[1]][a[2]] = "running"
    /\ attempt' = [t \in Task |-> [n \in Attempts |->
                     IF <<t, n>> \in dead THEN "lost" ELSE attempt[t][n]]]
    /\ UNCHANGED <<phase, commits>>

Next ==
  \/ \E t \in Task, n \in Attempts :
        \/ Begin(t, n)
        \/ \E how \in {"good", "bad"} : End(t, n, how)
        \/ Commit(t, n)
  \/ \E t \in Task : Abandon(t)
  \/ Lose

Spec == Init /\ [][Next]_vars
=============================================================================
