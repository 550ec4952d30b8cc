----------------------------- MODULE EventFeed -----------------------------
(***************************************************************************)
(* A program that consumes the event log: PollEvents and AckEvents         *)
(* (feed.go:32-60) in the loop the repository's own consumer runs          *)
(* (integration_flows_test.go:162-204).  The consumer is a name at the     *)
(* server with a place in the log; the program that polls through it may   *)
(* die between any two of its steps and be started again.                  *)
(*                                                                         *)
(* The server is external.  Its log is a number of shards, each in order;  *)
(* an answer mixes them as it likes, and an entry's cursor is the place    *)
(* just after it in that mix.  What it deletes from the log is left out.   *)
(***************************************************************************)
EXTENDS Naturals, Sequences, FiniteSets, FiniteSetsExt, SequencesExt

CONSTANTS
  Shards,      \* the shards of the log
  MaxLog,      \* bound: shard -> the most events it has
  MaxBatch,    \* the max of PollEvents
  MaxFailures  \* bound: calls that fail, and deaths of the program

\* What the constants are; Caller assumes it.
FeedAssumption ==
  IsFiniteSet(Shards) /\ MaxLog \in [Shards -> Nat] /\ MaxBatch \in Nat \ {0} /\ MaxFailures \in Nat

VARIABLES
  log,        \* shard -> how many events it has
  registered, \* does the server know the consumer
  from,       \* the place the consumer was registered at
  place,      \* its place now: what is after it is delivered again
  late,       \* places acknowledged by calls that failed, still on their way
  start,      \* the startFrom of the program's calls: "tail" or "earliest"
  pc,         \* the program: "new", "registers", "waits", "loop", "polls",
              \* "served", "handles", "acks", or "down"
  batch,      \* the events of the answer
  at,         \* how many of them are handled
  handled,    \* the events handled so far, by any life of the program
  failures

vars == <<log, registered, from, place, late, start, pc, batch, at, handled, failures>>
server == <<log, registered, from, place>>
program == <<start, batch, at, handled>>

Init ==
  /\ log \in {[s \in Shards |-> 0], [s \in Shards |-> Min({1, MaxLog[s]})]}
  /\ registered = FALSE /\ from = log /\ place = log /\ late = {}
  /\ start \in {"tail", "earliest"}
  /\ pc = "new" /\ batch = <<>> /\ at = 0 /\ handled = {} /\ failures = 0

----------------------------------------------------------------------------
(* The server. *)

Appends(s) ==
  /\ log[s] < MaxLog[s]
  /\ log' = [log EXCEPT ![s] = @ + 1]
  /\ UNCHANGED <<registered, from, place, late, pc, program, failures>>

\* The entries after place p, in the order of shards `order`.
Entries(p, order) ==
  [i \in DOMAIN order |->
     LET after == [s \in Shards |-> p[s] + Cardinality({j \in 1 .. i : order[j] = s})] IN
     [shard |-> order[i], seq |-> after[order[i]], cursor |-> after]]

\* What PollEvents may answer from place p: up to `max` events, and none
\* only when there is none.
Answers(p, max) ==
  LET all == {Entries(p, o) : o \in SeqOf(Shards, max)}
      there == {b \in all : \A i \in DOMAIN b : b[i].seq <= log[b[i].shard]}
  IN  IF \E s \in Shards : p[s] < log[s] THEN there \ {<<>>} ELSE {<<>>}

\* The first poll registers the consumer, at startFrom; later ones ignore it.
Registered ==
  LET first == IF start = "tail" THEN log ELSE [s \in Shards |-> 0] IN
  /\ registered' = TRUE
  /\ from' = IF registered THEN from ELSE first
  /\ place' = IF registered THEN place ELSE first

\* A cursor acknowledges all before it, and never takes the consumer back.
Furthest(p, q) == [s \in Shards |-> Max({p[s], q[s]})]

LateAck(c) ==
  /\ c \in late
  /\ place' = Furthest(place, c) /\ late' = late \ {c}
  /\ UNCHANGED <<log, registered, from, pc, program, failures>>

----------------------------------------------------------------------------
(* The program. *)

\* The consumer is registered first, by a poll whose answer is dropped.
Registers == pc = "new" /\ pc' = "registers" /\ UNCHANGED <<server, late, program, failures>>
RegisterServed ==
  /\ pc = "registers"
  /\ pc' = "waits" /\ Registered
  /\ UNCHANGED <<log, late, program, failures>>

\* The loop begins.
Consumes == pc = "waits" /\ pc' = "loop" /\ UNCHANGED <<server, late, program, failures>>

Polls == pc = "loop" /\ pc' = "polls" /\ UNCHANGED <<server, late, program, failures>>
PollServed ==
  /\ pc = "polls"
  /\ pc' = "served" /\ Registered
  /\ batch' \in Answers(place', MaxBatch)
  /\ UNCHANGED <<log, late, start, at, handled, failures>>

\* A mutant: an empty answer ends the loop.
PollReturns_LastWhenEmpty ==
  /\ pc = "served"
  /\ pc' = IF batch = <<>> THEN "over" ELSE "handles"
  /\ UNCHANGED <<server, late, program, failures>>

\* PollEvents hands over the events as they came.
PollReturns ==
  /\ pc = "served"
  /\ pc' = IF batch = <<>> THEN "loop" ELSE "handles"
  /\ UNCHANGED <<server, late, program, failures>>

\* The program sees to the next event of the batch.
HandlesEvent ==
  /\ pc = "handles" /\ at < Len(batch)
  /\ at' = at + 1
  /\ handled' = handled \cup {<<batch[at + 1].shard, batch[at + 1].seq>>}
  /\ UNCHANGED <<server, late, start, pc, batch, failures>>

\* A mutant: a batch is acknowledged when it is half done.
Acks_Early ==
  /\ pc = "handles" /\ 2 * at >= Len(batch)
  /\ pc' = "acks"
  /\ UNCHANGED <<server, late, program, failures>>

\* AckEvents with the cursor of the last event, when all are handled.
Acks ==
  /\ pc = "handles" /\ at = Len(batch)
  /\ pc' = "acks"
  /\ UNCHANGED <<server, late, program, failures>>

AckServed ==
  /\ pc = "acks"
  /\ pc' = "loop" /\ place' = Furthest(place, Last(batch).cursor)
  /\ batch' = <<>> /\ at' = 0
  /\ UNCHANGED <<log, registered, from, late, start, handled, failures>>

\* A call fails, and the program with it; an AckEvents may still arrive.
CallFails ==
  /\ pc \in {"registers", "polls", "served", "acks"} /\ failures < MaxFailures
  /\ pc' = "down" /\ failures' = failures + 1
  /\ \/ UNCHANGED late
     \/ pc = "acks" /\ late' = late \cup {Last(batch).cursor}
  /\ batch' = <<>> /\ at' = 0
  /\ UNCHANGED <<server, start, handled>>

Dies ==
  /\ pc \in {"waits", "loop", "handles"} /\ failures < MaxFailures
  /\ pc' = "down" /\ failures' = failures + 1
  /\ batch' = <<>> /\ at' = 0
  /\ UNCHANGED <<server, late, start, handled>>

\* It is started again, with the same name for its consumer.
Restarts ==
  /\ pc = "down"
  /\ pc' = "loop"
  /\ UNCHANGED <<server, late, program, failures>>

\* The steps of the program and of its calls when nothing goes wrong.
GoesOn ==
  \/ Registers \/ RegisterServed
  \/ Polls \/ PollServed \/ PollReturns \/ HandlesEvent \/ Acks \/ AckServed
  \/ Restarts

Next ==
  \/ \E s \in Shards : Appends(s)
  \/ \E c \in late : LateAck(c)
  \/ GoesOn
  \/ Consumes
  \/ CallFails
  \/ Dies

Spec == Init /\ [][Next]_vars

----------------------------------------------------------------------------
(* Properties. *)

\* Is the event one the consumer was promised: appended after its place when
\* it was registered?
Promised(s, i) == registered /\ from[s] < i /\ i <= log[s]

\* The consumer's place never passes an event nobody handled, whichever life of
\* the program it was delivered to, and whatever acknowledgement arrives late:
\* "Events are delivered again until AckEvents moves the cursor past them"
\* (feed.go:32-35).
NothingSkipped ==
  /\ \A s \in Shards : \A i \in 1 .. MaxLog[s] :
       Promised(s, i) /\ i <= place[s] => <<s, i>> \in handled
  /\ \A s \in Shards : place[s] <= log[s]
=============================================================================
