------------------------------- MODULE Caller ------------------------------
(***************************************************************************)
(* A program as the repository's integration tests write it (runFlow and   *)
(* TestIntegrationEventsAndStats, integration_flows_test.go:15-34,         *)
(* 162-204): it registers a consumer of the event log, starts an instance, *)
(* waits for its end, and reads the log from the place it registered.      *)
(*                                                                         *)
(* Await and EventFeed run one after the other in the program and side by  *)
(* side at the server: each transition of the instance is an event of the  *)
(* log, written with it.                                                   *)
(***************************************************************************)
EXTENDS Integers, Sequences

CONSTANTS
  Timeout, Pause, MaxCall,
  Shards, MaxLog, MaxBatch, MaxFailures,
  Home       \* the shard of the instance

VARIABLES
  status, phase, view, left, due, ended,
  log, registered, from, place, late, start, pc, batch, at, handled, failures

A == INSTANCE Await
E == INSTANCE EventFeed

ASSUME CallerAssumption == A!AwaitAssumption /\ E!FeedAssumption /\ Home \in Shards

awaitVars == <<status, phase, view, left, due, ended>>
feedVars == <<log, registered, from, place, late, start, pc, batch, at, handled, failures>>
vars == <<status, phase, view, left, due, ended,
          log, registered, from, place, late, start, pc, batch, at, handled, failures>>

Init == A!Init /\ E!Init

\* Client.Start returns, and AwaitCompletion is called.
StartsFlow ==
  /\ pc = "waits"
  /\ A!Called
  /\ E!Appends(Home)

\* The instance moves, with its entry in the log.
InstanceAdvances(s) == A!Advances(s) /\ E!Appends(Home)

\* Another instance does.
OtherAdvances(s) == s # Home /\ E!Appends(s) /\ UNCHANGED awaitVars

\* What the program does while it waits.
WaitGoesOn == pc = "waits" /\ A!GoesOn /\ UNCHANGED feedVars
WaitFails == pc = "waits" /\ (A!ReadsNothing \/ A!CallFails \/ A!Cancelled) /\ UNCHANGED feedVars

\* Only what AwaitCompletion returned without an error lets the program go on.
ConsumesNow == phase = "settled" /\ E!Consumes /\ UNCHANGED awaitVars

\* It ends with any error of AwaitCompletion.
GivesUp ==
  /\ phase \in A!Returned \ {"settled"} /\ pc = "waits"
  /\ pc' = "down"
  /\ UNCHANGED <<awaitVars, log, registered, from, place, late, start, batch, at, handled, failures>>

FeedGoesOn == E!GoesOn /\ UNCHANGED awaitVars
FeedFails == (E!CallFails \/ E!Dies) /\ UNCHANGED awaitVars
LateAck == (\E c \in late : E!LateAck(c)) /\ UNCHANGED awaitVars

Next ==
  \/ StartsFlow
  \/ \E s \in A!Terminal \cup {"COMPENSATING"} : InstanceAdvances(s)
  \/ \E s \in Shards : OtherAdvances(s)
  \/ WaitGoesOn \/ WaitFails
  \/ ConsumesNow \/ GivesUp
  \/ FeedGoesOn \/ FeedFails \/ LateAck

\* The program runs on, its calls come to an end, and it is started again when
\* it died.  Nothing makes an instance move, or a late acknowledgement arrive.
Fairness ==
  /\ WF_vars(StartsFlow) /\ WF_vars(WaitGoesOn)
  /\ WF_vars(ConsumesNow) /\ WF_vars(GivesUp)
  /\ WF_vars(FeedGoesOn)

Spec == Init /\ [][Next]_vars /\ Fairness

----------------------------------------------------------------------------
(* Properties. *)

AwaitTellsTheTruth == A!AwaitTellsTheTruth

NothingSkipped == E!NothingSkipped

\* Every event appended after the consumer was registered is handled in the end,
\* if the program goes on after its failures: those of the instance it waited
\* for, and of those it did not (feed.go:32-60).
EventsHandled ==
  \A s \in Shards : \A i \in 1 .. MaxLog[s] :
    E!Promised(s, i) ~> <<s, i>> \in handled
=============================================================================
