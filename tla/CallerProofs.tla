---------------------------- MODULE CallerProofs ----------------------------
(***************************************************************************)
(* Proofs about Caller, for every timeout, pause and length of a call, and *)
(* for every log and batch size: AwaitCompletion tells the truth, and the  *)
(* consumer's place in the log never passes an event nobody handled.       *)
(***************************************************************************)
EXTENDS Caller, FiniteSetTheorems, SequenceTheorems, TLAPS

----------------------------------------------------------------------------
(* AwaitCompletion. *)

\* A snapshot that shows an end shows the end; what is left until the deadline
\* and of the call or the pause are bound to each other; and an instance seen
\* running when the call read it ended after the call began.
AwaitInv ==
  /\ status \in {"none", "RUNNING", "COMPENSATING"} \cup A!Terminal
  /\ phase \in {"none"} \cup A!Waiting \cup A!Returned
  /\ left \in Int /\ due \in Nat /\ ended \in Int
  /\ view \in A!Terminal => view = status
  /\ phase \in {"calling", "answered"} => due <= MaxCall /\ left >= due - (Pause + MaxCall)
  /\ phase = "pausing" => left >= due - Pause
  /\ phase = "none" => left >= 0
  /\ phase \notin A!Waiting => left >= -(Pause + MaxCall)
  /\ phase = "answered" /\ status \in A!Terminal /\ view \notin A!Terminal \cup {"nil"} =>
       ended <= left + (MaxCall - due)
  /\ phase = "settled" => view \in A!Terminal
  /\ phase = "timeout" =>
       /\ left < 0 /\ view \notin A!Terminal
       /\ status \in A!Terminal => ended < MaxCall

----------------------------------------------------------------------------
(* The event feed. *)

Entry == [shard : Shards, seq : Nat, cursor : [Shards -> Nat]]

\* Does event e move the cursor on in shard s?
Unit(e, s) == IF e.shard = s THEN 1 ELSE 0

\* Place q is in the log, and everything promised up to it is handled.
Covered(q) ==
  \A s \in Shards :
    /\ q[s] <= log[s]
    /\ \A i \in Nat : E!Promised(s, i) /\ i <= q[s] => <<s, i>> \in handled

\* The batch goes on from the consumer's place, or one before it, without a gap.
Chained(b) ==
  /\ \A i \in 1 .. Len(b) : b[i].seq = b[i].cursor[b[i].shard] /\ b[i].seq <= log[b[i].shard]
  /\ \A i \in 1 .. Len(b) : i > 1 =>
       \A s \in Shards : b[i].cursor[s] = b[i - 1].cursor[s] + Unit(b[i], s)
  /\ Len(b) > 0 => \A s \in Shards : b[1].cursor[s] <= place[s] + Unit(b[1], s)

FeedTypes ==
  /\ log \in [Shards -> Nat] /\ from \in [Shards -> Nat] /\ place \in [Shards -> Nat]
  /\ registered \in BOOLEAN
  /\ late \in SUBSET [Shards -> Nat]
  /\ start \in {"tail", "earliest"}
  /\ pc \in {"new", "registers", "waits", "loop", "polls", "served", "handles", "acks", "down"}
  /\ batch \in Seq(Entry) /\ at \in Nat
  /\ handled \in SUBSET (Shards \X Nat)

Serving == {"served", "handles", "acks"}

FeedInv ==
  /\ Covered(place)
  /\ \A c \in late : Covered(c)
  /\ ~registered => late = {} /\ pc \notin Serving
  /\ pc \in Serving => Chained(batch)
  /\ pc \notin {"handles", "acks"} => at = 0
  /\ pc \in {"handles", "acks"} =>
       /\ Len(batch) > 0 /\ at <= Len(batch)
       /\ at > 0 => Covered(batch[at].cursor)
  /\ pc = "acks" => at = Len(batch)

----------------------------------------------------------------------------
(* Proofs about AwaitCompletion. *)

\* Initially nothing is waited for.
LEMMA InitAwait == Init => AwaitInv
BY CallerAssumption DEF Init, A!Init, A!AwaitAssumption, AwaitInv, A!Terminal, A!Waiting, A!Returned

\* What Caller does with AwaitCompletion is one of its actions, or none.
LEMMA AwaitSteps ==
  ASSUME [Next]_vars
  PROVE  A!Next \/ UNCHANGED awaitVars
BY DEF Next, vars, awaitVars, StartsFlow, InstanceAdvances, OtherAdvances, WaitGoesOn, WaitFails,
       ConsumesNow, GivesUp, FeedGoesOn, FeedFails, LateAck, A!Next

\* Each action of the call, of the instance and of the clock keeps AwaitInv.
LEMMA NextAwait == ASSUME AwaitInv, [Next]_vars PROVE AwaitInv'
<1> USE CallerAssumption DEF A!AwaitAssumption, AwaitInv, A!Terminal, A!Waiting, A!Returned
<1>1. CASE A!Called
  BY <1>1 DEF A!Called
<1>2. ASSUME NEW s \in A!Terminal \cup {"COMPENSATING"}, A!Advances(s) PROVE AwaitInv'
  <2>1. status \in {"RUNNING", "COMPENSATING"} /\ status' = s /\ ended' = left
        /\ UNCHANGED <<phase, view, left, due>>
    BY <1>2 DEF A!Advances, A!After
  <2> QED  BY <2>1
<1>3. CASE A!Reads
  BY <1>3 DEF A!Reads
<1>4. CASE A!Answered
  <2>1. /\ phase = "answered" /\ view # "nil"
        /\ UNCHANGED <<status, view, left, ended>>
    BY <1>4 DEF A!Answered
  <2>2. CASE A!IsTerminal(view)
    BY <1>4, <2>1, <2>2 DEF A!Answered, A!IsTerminal
  <2>3. CASE ~A!IsTerminal(view) /\ left < 0
    <3>1. phase' = "timeout" /\ due' = 0
      BY <1>4, <2>3 DEF A!Answered
    <3> QED  BY <2>1, <2>3, <3>1 DEF A!IsTerminal
  <2>4. CASE ~A!IsTerminal(view) /\ ~(left < 0)
    <3>1. phase' = "pausing" /\ due' = Pause
      BY <1>4, <2>4 DEF A!Answered
    <3> QED  BY <2>1, <2>4, <3>1
  <2> QED  BY <2>2, <2>3, <2>4
<1>5. CASE A!PauseEnds
  BY <1>5 DEF A!PauseEnds
<1>6. CASE A!Tick
  BY <1>6 DEF A!Tick
<1>7. CASE A!CallFails
  BY <1>7 DEF A!CallFails
<1>8. CASE A!Cancelled
  BY <1>8 DEF A!Cancelled
<1>9. CASE A!ReadsNothing
  BY <1>9 DEF A!ReadsNothing
<1>10. CASE A!AnswerMissing
  BY <1>10 DEF A!AnswerMissing
<1>11. CASE UNCHANGED awaitVars
  BY <1>11 DEF awaitVars
<1> QED  BY <1>1, <1>2, <1>3, <1>4, <1>5, <1>6, <1>7, <1>8, <1>9, <1>10, <1>11, AwaitSteps DEF A!Next, A!GoesOn

\* AwaitCompletion, whatever its timeout, returns without an error only the end
\* the instance has, and times out only of an instance that had not ended a
\* call's time before the deadline (client.go, AwaitCompletion).
THEOREM AwaitIsTruthful == Spec => []AwaitTellsTheTruth
<1>1. AwaitInv => AwaitTellsTheTruth
  BY CallerAssumption DEF A!AwaitAssumption, AwaitInv, AwaitTellsTheTruth, A!AwaitTellsTheTruth,
     A!Terminal, A!Waiting, A!Returned
<1> QED  BY <1>1, InitAwait, NextAwait, PTL DEF Spec

----------------------------------------------------------------------------
(* Lemmas about the feed's operators. *)

\* The instance counts as FiniteSets does.
LEMMA SameCardinality == ASSUME NEW S PROVE E!Cardinality(S) = Cardinality(S)
BY DEF E!Cardinality, Cardinality

\* The larger of two numbers.
LEMMA LargerOfTwo ==
  ASSUME NEW a \in Nat, NEW b \in Nat
  PROVE  E!Max({a, b}) = IF a >= b THEN a ELSE b
<1> PICK m \in {a, b} : m = IF a >= b THEN a ELSE b
  OBVIOUS
<1>1. \A y \in {a, b} : m >= y
  OBVIOUS
<1>2. \A x \in {a, b} : (\A y \in {a, b} : x >= y) => x = m
  OBVIOUS
<1>3. (CHOOSE x \in {a, b} : \A y \in {a, b} : x >= y) = m
  BY <1>1, <1>2
<1> QED  BY <1>3 DEF E!Max

\* A late acknowledgement moves the consumer on in each shard, or not at all.
LEMMA FurthestIs ==
  ASSUME NEW p \in [Shards -> Nat], NEW q \in [Shards -> Nat]
  PROVE  /\ E!Furthest(p, q) \in [Shards -> Nat]
         /\ \A s \in Shards : /\ E!Furthest(p, q)[s] >= p[s]
                              /\ E!Furthest(p, q)[s] \in {p[s], q[s]}
<1>1. \A s \in Shards : E!Furthest(p, q)[s] = IF p[s] >= q[s] THEN p[s] ELSE q[s]
  BY LargerOfTwo DEF E!Furthest
<1>2. \A s \in Shards : E!Furthest(p, q)[s] \in Nat
  BY <1>1
<1>3. E!Furthest(p, q) \in [Shards -> Nat]
  BY <1>2 DEF E!Furthest
<1> QED  BY <1>1, <1>3

\* How many of the first i shards of an order are s.
Count(order, i, s) == Cardinality({j \in 1 .. i : order[j] = s})

\* The count goes up by one at each occurrence.
LEMMA CountOn ==
  ASSUME NEW order, NEW i \in Nat \ {0}, NEW s
  PROVE  /\ Count(order, i, s) \in Nat /\ Count(order, 0, s) = 0
         /\ Count(order, i, s) = Count(order, i - 1, s) + (IF order[i] = s THEN 1 ELSE 0)
<1> DEFINE T(k) == {j \in 1 .. k : order[j] = s}
<1>1. \A k \in Nat : IsFiniteSet(T(k))
  <2> TAKE k \in Nat
  <2>1. IsFiniteSet(1 .. k)
    BY FS_Interval
  <2> QED  BY <2>1, FS_Subset
<1>2. T(0) = {}
  OBVIOUS
<1>3. T(i) = IF order[i] = s THEN T(i - 1) \cup {i} ELSE T(i - 1)
  OBVIOUS
<1>4. i \notin T(i - 1) /\ i - 1 \in Nat
  OBVIOUS
<1> HIDE DEF T
<1>5. Cardinality(T(0)) = 0
  BY <1>2, FS_EmptySet
<1>6. Cardinality(T(i)) = Cardinality(T(i - 1)) + (IF order[i] = s THEN 1 ELSE 0)
  <2>1. CASE order[i] = s
    <3>1. Cardinality(T(i - 1) \cup {i}) = Cardinality(T(i - 1)) + 1
      BY <1>1, <1>4, FS_AddElement
    <3> QED  BY <1>3, <2>1, <3>1
  <2>2. CASE order[i] # s
    <3>1. T(i) = T(i - 1) /\ Cardinality(T(i - 1)) \in Nat
      BY <1>1, <1>3, <1>4, <2>2, FS_CardinalityType
    <3> QED  BY <2>2, <3>1
  <2> QED  BY <2>1, <2>2
<1>7. Cardinality(T(i)) \in Nat
  BY <1>1, FS_CardinalityType
<1> QED  BY <1>5, <1>6, <1>7 DEF Count, T

\* An answer goes on from the place it was asked from, event by event, and is
\* in the log.
LEMMA AnswerChains ==
  ASSUME NEW p \in [Shards -> Nat], NEW b \in E!Answers(p, MaxBatch)
  PROVE  /\ b \in Seq(Entry)
         /\ \A i \in 1 .. Len(b) : b[i].seq = b[i].cursor[b[i].shard] /\ b[i].seq <= log[b[i].shard]
         /\ \A i \in 1 .. Len(b) : i > 1 =>
              \A s \in Shards : b[i].cursor[s] = b[i - 1].cursor[s] + Unit(b[i], s)
         /\ Len(b) > 0 => \A s \in Shards : b[1].cursor[s] = p[s] + Unit(b[1], s)
<1>1. \/ b = <<>>
      \/ \E o \in E!SeqOf(Shards, MaxBatch) :
           b = E!Entries(p, o) /\ \A i \in DOMAIN b : b[i].seq <= log[b[i].shard]
  BY DEF E!Answers
<1>2. CASE b = <<>>
  BY <1>2
<1>3. CASE b # <<>>
  <2>1. PICK o \in E!SeqOf(Shards, MaxBatch) :
           b = E!Entries(p, o) /\ \A i \in DOMAIN b : b[i].seq <= log[b[i].shard]
    BY <1>1, <1>3
  <2>2. PICK m \in Nat : o \in [1 .. m -> Shards]
    BY <2>1, CallerAssumption DEF E!SeqOf, E!FeedAssumption
  <2> DEFINE after(i) == [s \in Shards |-> p[s] + Count(o, i, s)]
  <2>3. /\ DOMAIN b = 1 .. m
        /\ \A i \in 1 .. m : b[i] = [shard |-> o[i], seq |-> after(i)[o[i]], cursor |-> after(i)]
    BY <2>1, <2>2, SameCardinality DEF E!Entries, Count
  <2>4. \A i \in 1 .. m : after(i) \in [Shards -> Nat]
    BY CountOn
  <2>5. \A i \in 1 .. m : o[i] \in Shards
    BY <2>2
  <2>6. \A i \in 1 .. m : /\ b[i] \in Entry
                          /\ b[i].seq = b[i].cursor[b[i].shard]
                          /\ b[i].shard = o[i]
                          /\ b[i].cursor = after(i)
    BY <2>3, <2>4, <2>5 DEF Entry
  <2>7. b \in Seq(Entry) /\ Len(b) = m
    <3>1. b = [i \in 1 .. m |-> b[i]]
      BY <2>1, <2>3 DEF E!Entries
    <3>2. b \in [1 .. m -> Entry]
      BY <2>6, <3>1
    <3>3. b \in Seq(Entry)
      BY <3>2, SeqDef
    <3>4. DOMAIN b = 1 .. Len(b) /\ Len(b) \in Nat
      BY <3>3, LenProperties
    <3> QED  BY <2>3, <3>3, <3>4
  <2>10. \A i \in 1 .. m : \A s \in Shards : after(i)[s] = p[s] + Count(o, i, s)
    OBVIOUS
  <2> HIDE DEF after
  <2>11. \A i \in 1 .. m : \A s \in Shards : b[i].cursor[s] = p[s] + Count(o, i, s)
    BY <2>6, <2>10
  <2>8. \A i \in 1 .. m : i > 1 => \A s \in Shards :
          b[i].cursor[s] = b[i - 1].cursor[s] + Unit(b[i], s)
    <3> SUFFICES ASSUME NEW i \in 1 .. m, i > 1, NEW s \in Shards
                 PROVE  b[i].cursor[s] = b[i - 1].cursor[s] + Unit(b[i], s)
      OBVIOUS
    <3> PICK k \in 1 .. m : k = i - 1
      OBVIOUS
    <3>1. i \in Nat \ {0} /\ k \in Nat \ {0}
      OBVIOUS
    <3>2. Count(o, k, s) \in Nat
      BY <3>1, CountOn
    <3>3. Count(o, i, s) = Count(o, i - 1, s) + (IF o[i] = s THEN 1 ELSE 0)
      BY <3>1, CountOn
    <3>4. Count(o, i, s) = Count(o, k, s) + Unit(b[i], s)
      BY <2>6, <3>3 DEF Unit
    <3>5. b[i].cursor[s] = p[s] + Count(o, i, s) /\ b[k].cursor[s] = p[s] + Count(o, k, s)
      BY <2>11
    <3>6. p[s] \in Nat /\ Unit(b[i], s) \in Nat
      BY DEF Unit
    <3> QED  BY <3>2, <3>4, <3>5, <3>6
  <2>9. m > 0 => \A s \in Shards : b[1].cursor[s] = p[s] + Unit(b[1], s)
    <3> SUFFICES ASSUME m > 0, NEW s \in Shards
                 PROVE  b[1].cursor[s] = p[s] + Unit(b[1], s)
      OBVIOUS
    <3>1. 1 \in 1 .. m /\ 1 \in Nat \ {0} /\ 1 - 1 = 0
      OBVIOUS
    <3>2. Count(o, 1, s) = Count(o, 0, s) + (IF o[1] = s THEN 1 ELSE 0) /\ Count(o, 0, s) = 0
      BY <3>1, CountOn
    <3>3. Count(o, 1, s) = Unit(b[1], s)
      BY <2>6, <3>1, <3>2 DEF Unit
    <3> QED  BY <2>11, <3>1, <3>3
  <2> QED  BY <2>1, <2>3, <2>6, <2>7, <2>8, <2>9
<1> QED  BY <1>2, <1>3

----------------------------------------------------------------------------
(* Proofs about the feed. *)

\* The program moves from one point to another, and nothing else changes.
Moves(to) ==
  /\ pc' = to
  /\ UNCHANGED <<log, registered, from, place, late, start, batch, at, handled, failures>>

\* What Caller does with the feed is one of its actions, or the end of the
\* program after a wait that failed, or nothing.
LEMMA FeedSteps ==
  ASSUME [Next]_vars
  PROVE  E!Next \/ (pc = "waits" /\ Moves("down")) \/ UNCHANGED feedVars
BY CallerAssumption
   DEF Next, vars, feedVars, StartsFlow, InstanceAdvances, OtherAdvances, WaitGoesOn, WaitFails,
       ConsumesNow, GivesUp, FeedGoesOn, FeedFails, LateAck, E!Next, Moves

\* The last cursor of a batch being handled is a place in the log.
LEMMA LastCursor ==
  ASSUME FeedTypes, FeedInv, pc = "acks"
  PROVE  /\ E!Last(batch) = batch[at] /\ at > 0
         /\ E!Last(batch).cursor \in [Shards -> Nat] /\ Covered(E!Last(batch).cursor)
<1>1. /\ at = Len(batch) /\ Len(batch) > 0 /\ (at > 0 => Covered(batch[at].cursor))
      /\ batch \in Seq(Entry) /\ at \in Nat
  BY DEF FeedTypes, FeedInv
<1>2. batch[at] \in Entry
  BY <1>1, ElementOfSeq
<1> QED  BY <1>1, <1>2 DEF Entry, E!Last

\* Initially the log has no consumer.
LEMMA InitFeed == Init => FeedTypes /\ FeedInv
<1> SUFFICES ASSUME Init PROVE FeedTypes /\ FeedInv
  OBVIOUS
<1>1. /\ log \in {[s \in Shards |-> 0], [s \in Shards |-> E!Min({1, MaxLog[s]})]}
      /\ registered = FALSE /\ from = log /\ place = log /\ late = {}
      /\ start \in {"tail", "earliest"}
      /\ pc = "new" /\ batch = <<>> /\ at = 0 /\ handled = {}
  BY DEF Init, E!Init
<1>2. log \in [Shards -> Nat]
  <2>1. CASE log = [s \in Shards |-> 0]
    BY <2>1
  <2>2. CASE log = [s \in Shards |-> E!Min({1, MaxLog[s]})]
    <3>1. \A s \in Shards : E!Min({1, MaxLog[s]}) \in Nat
      <4> TAKE s \in Shards
      <4> PICK n \in Nat : n = MaxLog[s]
        BY CallerAssumption DEF E!FeedAssumption
      <4> PICK m \in {1, n} : m = IF 1 <= n THEN 1 ELSE n
        OBVIOUS
      <4>1. \A y \in {1, n} : m <= y
        OBVIOUS
      <4>2. E!Min({1, n}) \in {1, n}
        BY <4>1 DEF E!Min
      <4> QED  BY <4>2
    <3> QED  BY <2>2, <3>1
  <2> QED  BY <1>1, <2>1, <2>2
<1>3. FeedTypes
  <2>1. batch \in Seq(Entry) /\ at \in Nat
    BY <1>1
  <2>2. late \in SUBSET [Shards -> Nat] /\ handled \in SUBSET (Shards \X Nat)
    BY <1>1
  <2>3. from \in [Shards -> Nat] /\ place \in [Shards -> Nat]
    BY <1>1, <1>2
  <2> QED  BY <1>1, <1>2, <2>1, <2>2, <2>3 DEF FeedTypes
<1> QED  BY <1>1, <1>2, <1>3 DEF FeedInv, Covered, E!Promised, Serving

\* Every action of the server and of the program keeps the feed's types.
LEMMA NextFeedTypes == ASSUME FeedTypes, FeedInv, [Next]_vars PROVE FeedTypes'
<1> USE DEF FeedTypes
<1>1. ASSUME NEW s \in Shards, E!Appends(s) PROVE FeedTypes'
  BY <1>1 DEF E!Appends, E!program
<1>2. ASSUME NEW c \in late, E!LateAck(c) PROVE FeedTypes'
  <2>1. place' \in [Shards -> Nat]
    BY <1>2, FurthestIs DEF E!LateAck
  <2> QED  BY <1>2, <2>1 DEF E!LateAck, E!program
<1>3. CASE E!Registers \/ E!Consumes \/ E!Polls \/ E!Acks \/ E!PollReturns \/ E!Restarts
  BY <1>3 DEF E!Registers, E!Consumes, E!Polls, E!Acks, E!PollReturns, E!Restarts, E!server, E!program
<1>4. ASSUME E!Registered, UNCHANGED log
      PROVE  from' \in [Shards -> Nat] /\ place' \in [Shards -> Nat] /\ registered' = TRUE
  BY <1>4 DEF E!Registered
<1>5. CASE E!RegisterServed
  BY <1>4, <1>5 DEF E!RegisterServed, E!program
<1>6. CASE E!PollServed
  <2>1. /\ E!Registered /\ UNCHANGED <<log, late, start, at, handled>> /\ pc' = "served"
        /\ batch' \in E!Answers(place', MaxBatch)
    BY <1>6 DEF E!PollServed
  <2>2. from' \in [Shards -> Nat] /\ place' \in [Shards -> Nat] /\ registered' = TRUE
    BY <1>4, <2>1
  <2>3. batch' \in Seq(Entry)
    BY <2>1, <2>2, AnswerChains
  <2> QED  BY <2>1, <2>2, <2>3
<1>7. CASE E!HandlesEvent
  <2>1. batch[at + 1] \in Entry
    BY <1>7, ElementOfSeq DEF E!HandlesEvent
  <2>2. <<batch[at + 1].shard, batch[at + 1].seq>> \in Shards \X Nat
    BY <2>1 DEF Entry
  <2> QED  BY <1>7, <2>2 DEF E!HandlesEvent, E!server
<1>8. CASE E!AckServed
  <2>1. place' \in [Shards -> Nat]
    BY <1>8, LastCursor, FurthestIs DEF E!AckServed
  <2> QED  BY <1>8, <2>1 DEF E!AckServed
<1>9. CASE E!CallFails
  <2>1. late' \in SUBSET [Shards -> Nat]
    BY <1>9, LastCursor DEF E!CallFails
  <2> QED  BY <1>9, <2>1 DEF E!CallFails, E!server
<1>10. CASE E!Dies
  BY <1>10 DEF E!Dies, E!server
<1>11. CASE Moves("down") \/ UNCHANGED feedVars
  BY <1>11 DEF Moves, feedVars
<1> QED  BY <1>1, <1>2, <1>3, <1>5, <1>6, <1>7, <1>8, <1>9, <1>10, <1>11, FeedSteps DEF E!Next, E!GoesOn

\* A place that is covered stays so while the log and what is handled grow.
LEMMA CoveredStays ==
  ASSUME FeedTypes, FeedTypes', NEW q \in [Shards -> Nat], Covered(q),
         registered' = registered, from' = from,
         \A s \in Shards : log[s] <= log'[s], handled \subseteq handled'
  PROVE  Covered(q)'
<1> SUFFICES ASSUME NEW s \in Shards
             PROVE  /\ q[s] <= log'[s]
                    /\ \A i \in Nat : E!Promised(s, i)' /\ i <= q[s] => <<s, i>> \in handled'
  BY DEF Covered
<1>1. q[s] \in Nat /\ log[s] \in Nat /\ log'[s] \in Nat /\ log[s] <= log'[s]
  BY DEF FeedTypes
<1>2. q[s] <= log[s] /\ \A i \in Nat : E!Promised(s, i) /\ i <= q[s] => <<s, i>> \in handled
  BY DEF Covered
<1>3. q[s] <= log'[s]
  BY <1>1, <1>2
<1>4. ASSUME NEW i \in Nat, E!Promised(s, i)', i <= q[s] PROVE <<s, i>> \in handled'
  <2>1. i <= log[s]
    BY <1>1, <1>2, <1>4
  <2>2. E!Promised(s, i)
    BY <1>4, <2>1 DEF E!Promised
  <2> QED  BY <1>2, <1>4, <2>2
<1> QED  BY <1>3, <1>4

\* The further of two covered places is covered.
LEMMA CoveredFurther ==
  ASSUME NEW p \in [Shards -> Nat], NEW q \in [Shards -> Nat], Covered(p), Covered(q)
  PROVE  Covered(E!Furthest(p, q))
<1> SUFFICES ASSUME NEW s \in Shards
             PROVE  /\ E!Furthest(p, q)[s] <= log[s]
                    /\ \A i \in Nat : E!Promised(s, i) /\ i <= E!Furthest(p, q)[s] => <<s, i>> \in handled
  BY DEF Covered
<1>1. CASE E!Furthest(p, q)[s] = p[s]
  BY <1>1 DEF Covered
<1>2. CASE E!Furthest(p, q)[s] = q[s]
  BY <1>2 DEF Covered
<1> QED  BY <1>1, <1>2, FurthestIs

\* When an event of a batch is handled, all up to its cursor is.
LEMMA HandledOn ==
  ASSUME FeedTypes, FeedInv, E!HandlesEvent, NEW e, e = batch[at + 1]
  PROVE  Covered(e.cursor)'
<1> PICK n \in Nat : n = at + 1
  BY DEF FeedTypes
<1>1. /\ n \in 1 .. Len(batch) /\ n = at + 1 /\ pc = "handles" /\ at \in Nat
      /\ handled' = handled \cup {<<e.shard, e.seq>>}
      /\ UNCHANGED <<log, registered, from, place, batch>>
  BY DEF E!HandlesEvent, FeedTypes, E!server
<1>2. e \in Entry
  BY <1>1, ElementOfSeq DEF FeedTypes
<1>3. /\ e.shard \in Shards /\ e.seq \in Nat /\ e.cursor \in [Shards -> Nat]
  BY <1>2 DEF Entry
<1>4. e.seq = e.cursor[e.shard] /\ e.seq <= log[e.shard]
  BY <1>1 DEF FeedInv, Chained, Serving
<1>5. PICK q \in [Shards -> Nat] :
        Covered(q) /\ \A s \in Shards : e.cursor[s] <= q[s] + Unit(e, s)
  <2>1. CASE at = 0
    <3>1. n = 1 /\ Len(batch) > 0
      BY <1>1, <2>1
    <3>2. \A s \in Shards : e.cursor[s] <= place[s] + Unit(e, s)
      BY <1>1, <3>1 DEF FeedInv, Chained, Serving
    <3> QED  BY <3>2 DEF FeedTypes, FeedInv
  <2>2. CASE at # 0
    <3>1. at \in 1 .. Len(batch) /\ at > 0 /\ n > 1 /\ n - 1 = at
      BY <1>1, <2>2
    <3>2. batch[at] \in Entry /\ Covered(batch[at].cursor)
      BY <1>1, <3>1, ElementOfSeq DEF FeedTypes, FeedInv
    <3>3. batch[at].cursor \in [Shards -> Nat]
      BY <3>2 DEF Entry
    <3>4. \A s \in Shards : e.cursor[s] = batch[n - 1].cursor[s] + Unit(e, s)
      BY <1>1, <3>1 DEF FeedInv, Chained, Serving
    <3>5. \A s \in Shards : e.cursor[s] = batch[at].cursor[s] + Unit(e, s)
      BY <3>1, <3>4
    <3>6. \A s \in Shards : e.cursor[s] \in Nat
      BY <1>3
    <3>7. \A s \in Shards : e.cursor[s] <= batch[at].cursor[s] + Unit(e, s)
      BY <3>5, <3>6
    <3> QED  BY <3>2, <3>3, <3>7
  <2> QED  BY <2>1, <2>2
<1>6. ASSUME NEW s \in Shards
      PROVE  /\ e.cursor[s] <= log[s]
             /\ \A i \in Nat : E!Promised(s, i) /\ i <= e.cursor[s] =>
                  <<s, i>> \in handled \cup {<<e.shard, e.seq>>}
  <2>1. /\ q[s] \in Nat /\ e.cursor[s] \in Nat /\ log[s] \in Nat
        /\ e.cursor[s] <= q[s] + Unit(e, s) /\ q[s] <= log[s]
        /\ \A i \in Nat : E!Promised(s, i) /\ i <= q[s] => <<s, i>> \in handled
    BY <1>3, <1>5 DEF Covered, FeedTypes
  <2>2. CASE e.shard = s
    <3>1. e.cursor[s] = e.seq /\ e.seq <= log[s] /\ e.cursor[s] <= q[s] + 1
      BY <1>4, <2>1, <2>2 DEF Unit
    <3>2. ASSUME NEW i \in Nat, E!Promised(s, i), i <= e.cursor[s]
          PROVE  <<s, i>> \in handled \cup {<<e.shard, e.seq>>}
      <4>1. i = e.seq \/ i <= q[s]
        BY <2>1, <3>1, <3>2
      <4> QED  BY <2>1, <2>2, <3>2, <4>1
    <3> QED  BY <3>1, <3>2
  <2>3. CASE e.shard # s
    <3>1. e.cursor[s] <= q[s]
      BY <2>1, <2>3 DEF Unit
    <3>2. e.cursor[s] <= log[s] /\ \A i \in Nat : i <= e.cursor[s] => i <= q[s]
      BY <2>1, <3>1
    <3> QED  BY <2>1, <3>2
  <2> QED  BY <2>2, <2>3
<1>7. \A s \in Shards : \A i \in Nat : E!Promised(s, i)' <=> E!Promised(s, i)
  BY <1>1 DEF E!Promised
<1>8. \A s \in Shards :
        /\ e.cursor[s] <= log'[s]
        /\ \A i \in Nat : E!Promised(s, i)' /\ i <= e.cursor[s] => <<s, i>> \in handled'
  BY <1>1, <1>6, <1>7
<1> QED  BY <1>8 DEF Covered

\* A batch stays in the log, behind the consumer's place, while both grow.
LEMMA ChainedStays ==
  ASSUME FeedTypes, FeedTypes', Chained(batch), batch' = batch,
         \A s \in Shards : log[s] <= log'[s], \A s \in Shards : place[s] <= place'[s]
  PROVE  Chained(batch)'
<1>1. \A i \in 1 .. Len(batch) :
        /\ batch[i] \in Entry /\ batch[i].shard \in Shards /\ batch[i].seq \in Nat
        /\ batch[i].cursor \in [Shards -> Nat]
  <2>1. \A i \in 1 .. Len(batch) : batch[i] \in Entry
    BY ElementOfSeq DEF FeedTypes
  <2> QED  BY <2>1 DEF Entry
<1>2. \A i \in 1 .. Len(batch) : batch[i].seq <= log'[batch[i].shard]
  <2> TAKE i \in 1 .. Len(batch)
  <2> PICK s \in Shards : s = batch[i].shard
    BY <1>1
  <2>1. batch[i].seq \in Nat /\ log[s] \in Nat /\ log'[s] \in Nat /\ log[s] <= log'[s]
    BY <1>1 DEF FeedTypes
  <2>2. batch[i].seq <= log[s]
    BY DEF Chained
  <2> QED  BY <2>1, <2>2
<1>3. Len(batch) > 0 => \A s \in Shards : batch[1].cursor[s] <= place'[s] + Unit(batch[1], s)
  <2> SUFFICES ASSUME Len(batch) > 0, NEW s \in Shards
               PROVE  batch[1].cursor[s] <= place'[s] + Unit(batch[1], s)
    OBVIOUS
  <2>1. Len(batch) \in Nat /\ 1 \in 1 .. Len(batch)
    BY LenProperties DEF FeedTypes
  <2>2. /\ batch[1].cursor[s] \in Nat /\ place[s] \in Nat /\ place'[s] \in Nat
        /\ place[s] <= place'[s] /\ Unit(batch[1], s) \in Nat
    BY <1>1, <2>1 DEF FeedTypes, Unit
  <2>3. batch[1].cursor[s] <= place[s] + Unit(batch[1], s)
    BY DEF Chained
  <2> QED  BY <2>2, <2>3
<1>4. \A i \in 1 .. Len(batch) : batch[i].seq = batch[i].cursor[batch[i].shard]
  BY DEF Chained
<1>5. \A i \in 1 .. Len(batch) : i > 1 =>
        \A s \in Shards : batch[i].cursor[s] = batch[i - 1].cursor[s] + Unit(batch[i], s)
  BY DEF Chained
<1> QED  BY <1>2, <1>3, <1>4, <1>5 DEF Chained, Unit

\* What does not touch the consumer's registration, nor take back the log, the
\* place or what is handled, keeps what is covered.
LEMMA Steady ==
  ASSUME FeedTypes, FeedTypes', FeedInv, registered' = registered, from' = from,
         \A s \in Shards : log[s] <= log'[s], handled \subseteq handled'
  PROVE  /\ place' = place => Covered(place)'
         /\ \A c \in late : Covered(c)'
         /\ \A q \in [Shards -> Nat] : Covered(q) => Covered(q)'
<1>1. place \in [Shards -> Nat] /\ Covered(place)
  BY DEF FeedTypes, FeedInv
<1>2. \A q \in [Shards -> Nat] : Covered(q) => Covered(q)'
  BY CoveredStays
<1>3. \A c \in late : c \in [Shards -> Nat] /\ Covered(c)
  BY DEF FeedTypes, FeedInv
<1>4. place' = place => Covered(place)'
  BY <1>1, <1>2 DEF Covered
<1> QED  BY <1>2, <1>3, <1>4

\* The cursor reached in a batch stays covered.
LEMMA ReachedStays ==
  ASSUME FeedTypes, FeedTypes', FeedInv, registered' = registered, from' = from,
         \A s \in Shards : log[s] <= log'[s], handled \subseteq handled',
         pc \in {"handles", "acks"}, UNCHANGED <<batch, at>>
  PROVE  at > 0 => Covered(batch[at].cursor)'
<1> SUFFICES ASSUME at > 0 PROVE Covered(batch[at].cursor)'
  OBVIOUS
<1>1. at \in 1 .. Len(batch) /\ Covered(batch[at].cursor) /\ batch \in Seq(Entry)
  BY DEF FeedTypes, FeedInv
<1>2. batch[at] \in Entry
  BY <1>1, ElementOfSeq
<1> PICK q \in [Shards -> Nat] : q = batch[at].cursor
  BY <1>2 DEF Entry
<1>3. Covered(q)'
  BY <1>1, Steady
<1>4. q = batch'[at'].cursor
  OBVIOUS
<1> QED  BY <1>3, <1>4

\* Each action of the server and of the program keeps the feed's invariant.
LEMMA NextFeed == ASSUME FeedTypes, FeedTypes', FeedInv, [Next]_vars PROVE FeedInv'
<1>0. \A s \in Shards : log[s] <= log[s] /\ place[s] <= place[s]
  BY DEF FeedTypes
<1>1. ASSUME NEW s \in Shards, E!Appends(s) PROVE FeedInv'
  <2>1. /\ UNCHANGED <<registered, from, place, late, pc, start, batch, at, handled>>
        /\ \A t \in Shards : log[t] <= log'[t]
    <3>1. /\ log' = [log EXCEPT ![s] = @ + 1]
          /\ UNCHANGED <<registered, from, place, late, pc, start, batch, at, handled>>
      BY <1>1 DEF E!Appends, E!program
    <3>2. \A t \in Shards : log[t] \in Nat /\ log'[t] = IF t = s THEN log[t] + 1 ELSE log[t]
      BY <3>1 DEF FeedTypes
    <3> QED  BY <3>1, <3>2
  <2>2. Covered(place)' /\ \A c \in late : Covered(c)'
    BY <2>1, Steady
  <2>3. pc \in Serving => Chained(batch)'
    BY <1>0, <2>1, ChainedStays DEF FeedInv
  <2>4. pc \in {"handles", "acks"} => (at > 0 => Covered(batch[at].cursor)')
    BY <2>1, ReachedStays
  <2> QED  BY <2>1, <2>2, <2>3, <2>4 DEF FeedInv
<1>2. ASSUME NEW c \in late, E!LateAck(c) PROVE FeedInv'
  <2>1. /\ UNCHANGED <<log, registered, from, pc, start, batch, at, handled>>
        /\ place' = E!Furthest(place, c) /\ late' \subseteq late
        /\ c \in [Shards -> Nat] /\ Covered(c)
    BY <1>2 DEF E!LateAck, E!program, FeedTypes, FeedInv
  <2>2. Covered(E!Furthest(place, c)) /\ E!Furthest(place, c) \in [Shards -> Nat]
    BY <2>1, CoveredFurther, FurthestIs DEF FeedTypes, FeedInv
  <2>3. Covered(place)'
    <3> PICK q \in [Shards -> Nat] : q = E!Furthest(place, c)
      BY <2>2
    <3>1. Covered(q)'
      BY <1>0, <2>1, <2>2, Steady
    <3> QED  BY <2>1, <3>1
  <2>4. \A d \in late' : Covered(d)'
    BY <1>0, <2>1, Steady
  <2>5. \A s \in Shards : place[s] <= place'[s]
    <3>1. \A s \in Shards : place'[s] >= place[s] /\ place'[s] \in Nat /\ place[s] \in Nat
      BY <2>1, FurthestIs DEF FeedTypes
    <3> QED  BY <3>1
  <2>6. pc \in Serving => Chained(batch)'
    BY <1>0, <2>1, <2>5, ChainedStays DEF FeedInv
  <2>7. pc \in {"handles", "acks"} => (at > 0 => Covered(batch[at].cursor)')
    BY <1>0, <2>1, ReachedStays
  <2> QED  BY <2>1, <2>3, <2>4, <2>6, <2>7 DEF FeedInv
<1>3. ASSUME UNCHANGED <<log, registered, from, place, late, batch, handled>>
      PROVE  /\ Covered(place)' /\ \A c \in late' : Covered(c)'
             /\ pc \in Serving => Chained(batch)'
             /\ pc \in {"handles", "acks"} /\ at' = at => (at > 0 => Covered(batch[at].cursor)')
  BY <1>0, <1>3, Steady, ChainedStays, ReachedStays DEF FeedInv
<1>4. CASE E!Registers \/ E!Consumes \/ E!Polls \/ E!Restarts
  <2>1. /\ pc \notin Serving /\ pc' \notin Serving
        /\ UNCHANGED <<log, registered, from, place, late, batch, at, handled>>
    BY <1>4 DEF E!Registers, E!Consumes, E!Polls, E!Restarts, E!server, E!program, Serving
  <2> QED  BY <1>3, <2>1 DEF FeedInv, Serving
<1>5. CASE E!PollReturns
  <2>1. /\ pc = "served" /\ pc' = IF batch = <<>> THEN "loop" ELSE "handles"
        /\ UNCHANGED <<log, registered, from, place, late, batch, at, handled>>
    BY <1>5 DEF E!PollReturns, E!server, E!program
  <2>2. at = 0 /\ registered
    BY <2>1 DEF FeedInv, Serving
  <2>3. batch # <<>> => Len(batch) > 0 /\ at <= Len(batch)
    BY <2>2 DEF FeedTypes
  <2> QED  BY <1>3, <2>1, <2>2, <2>3 DEF FeedInv, Serving
<1>6. CASE E!Acks
  <2>1. /\ pc = "handles" /\ pc' = "acks" /\ at = Len(batch)
        /\ UNCHANGED <<log, registered, from, place, late, batch, at, handled>>
    BY <1>6 DEF E!Acks, E!server, E!program
  <2> QED  BY <1>3, <2>1 DEF FeedInv, Serving
<1>7. ASSUME E!Registered, UNCHANGED <<log, late, handled>>
      PROVE  Covered(place)' /\ (\A c \in late' : Covered(c)') /\ registered'
  <2>1. CASE registered
    <3>1. UNCHANGED <<registered, from, place>>
      BY <1>7, <2>1 DEF E!Registered, FeedTypes
    <3> QED  BY <1>0, <1>7, <2>1, <3>1, Steady
  <2>2. CASE ~registered
    <3>1. late' = {} /\ place' = from' /\ registered'
      BY <1>7, <2>2 DEF E!Registered, FeedInv
    <3>2. \A s \in Shards : place'[s] <= log'[s]
      <4>1. CASE start = "tail"
        BY <1>0, <1>7, <2>2, <4>1 DEF E!Registered
      <4>2. CASE start # "tail"
        BY <1>7, <2>2, <4>2 DEF E!Registered, FeedTypes
      <4> QED  BY <4>1, <4>2
    <3>3. \A s \in Shards : \A i \in Nat : ~ (from'[s] < i /\ i <= place'[s])
      BY <3>1 DEF FeedTypes
    <3> QED  BY <3>1, <3>2, <3>3 DEF Covered, E!Promised
  <2> QED  BY <2>1, <2>2
<1>8. CASE E!RegisterServed
  <2>1. E!Registered /\ pc = "registers" /\ pc' = "waits" /\ UNCHANGED <<log, late, batch, at, handled>>
    BY <1>8 DEF E!RegisterServed, E!program
  <2>2. at = 0
    BY <2>1 DEF FeedInv
  <2> QED  BY <1>7, <2>1, <2>2 DEF FeedInv, Serving
<1>9. CASE E!PollServed
  <2>1. /\ E!Registered /\ pc = "polls" /\ pc' = "served" /\ UNCHANGED <<log, late, at, handled>>
        /\ batch' \in E!Answers(place', MaxBatch)
    BY <1>9 DEF E!PollServed
  <2>2. at = 0
    BY <2>1 DEF FeedInv
  <2>3. Chained(batch)'
    <3>1. place' \in [Shards -> Nat]
      BY DEF FeedTypes
    <3>2. /\ \A i \in 1 .. Len(batch') : batch'[i].seq = batch'[i].cursor[batch'[i].shard] /\
                                      batch'[i].seq <= log[batch'[i].shard]
          /\ \A i \in 1 .. Len(batch') : i > 1 =>
               \A s \in Shards : batch'[i].cursor[s] = batch'[i - 1].cursor[s] + Unit(batch'[i], s)
          /\ Len(batch') > 0 => \A s \in Shards : batch'[1].cursor[s] = place'[s] + Unit(batch'[1], s)
      BY <2>1, <3>1, AnswerChains
    <3>3. Len(batch') > 0 => \A s \in Shards : batch'[1].cursor[s] <= place'[s] + Unit(batch'[1], s)
      <4>1. \A s \in Shards : place'[s] + Unit(batch'[1], s) \in Nat
        BY <3>1 DEF Unit
      <4> QED  BY <3>2, <4>1
    <3> QED  BY <2>1, <3>2, <3>3 DEF Chained, Unit
  <2>4. Covered(place)' /\ (\A c \in late' : Covered(c)') /\ registered'
    BY <1>7, <2>1
  <2>5. pc' = "served" /\ at' = 0
    BY <2>1, <2>2
  <2> QED  BY <2>3, <2>4, <2>5 DEF FeedInv, Serving
<1>10. CASE E!HandlesEvent
  <2> PICK e : e = batch[at + 1]
    OBVIOUS
  <2>1. /\ pc = "handles" /\ at < Len(batch) /\ at' = at + 1
        /\ handled \subseteq handled'
        /\ UNCHANGED <<log, registered, from, place, late, pc, batch>>
    BY <1>10 DEF E!HandlesEvent, E!server
  <2>2. Covered(e.cursor)'
    BY <1>10, HandledOn
  <2>3. Covered(place)' /\ \A c \in late' : Covered(c)'
    BY <1>0, <2>1, Steady
  <2>4. Chained(batch)'
    BY <1>0, <2>1, ChainedStays DEF FeedInv, Serving
  <2>5. Len(batch) \in Nat /\ at \in Nat
    BY DEF FeedTypes
  <2>6. at' <= Len(batch') /\ Len(batch') > 0 /\ batch'[at'] = e
    BY <2>1, <2>5
  <2> QED  BY <2>1, <2>2, <2>3, <2>4, <2>6 DEF FeedInv, Serving
<1>11. CASE E!AckServed
  <2>1. /\ pc = "acks" /\ pc' = "loop" /\ at' = 0
        /\ place' = E!Furthest(place, E!Last(batch).cursor)
        /\ UNCHANGED <<log, registered, from, late, handled>>
    BY <1>11 DEF E!AckServed
  <2> PICK q \in [Shards -> Nat] : q = E!Last(batch).cursor /\ Covered(q)
    BY <2>1, LastCursor
  <2>2. place' = E!Furthest(place, q) /\ Covered(E!Furthest(place, q)) /\ E!Furthest(place, q) \in [Shards -> Nat]
    BY <2>1, CoveredFurther, FurthestIs DEF FeedTypes, FeedInv
  <2> PICK f \in [Shards -> Nat] : f = E!Furthest(place, q)
    BY <2>2
  <2>3. Covered(f)' /\ \A c \in late' : Covered(c)'
    BY <1>0, <2>1, <2>2, Steady
  <2>4. Covered(place)'
    BY <2>2, <2>3
  <2>5. registered
    BY <2>1 DEF FeedInv, Serving
  <2> QED  BY <2>1, <2>3, <2>4, <2>5 DEF FeedInv, Serving
<1>12. CASE E!CallFails
  <2>1. /\ pc' = "down" /\ at' = 0
        /\ UNCHANGED <<log, registered, from, place, handled>>
        /\ late' = late \/ (pc = "acks" /\ late' = late \cup {E!Last(batch).cursor})
    BY <1>12 DEF E!CallFails, E!server
  <2>2. Covered(place)' /\ \A c \in late : Covered(c)'
    BY <1>0, <2>1, Steady
  <2>3. \A c \in late' : Covered(c)'
    <3>1. CASE late' = late
      BY <2>2, <3>1
    <3>2. CASE pc = "acks" /\ late' = late \cup {E!Last(batch).cursor}
      <4> PICK q \in [Shards -> Nat] : q = E!Last(batch).cursor /\ Covered(q)
        BY <3>2, LastCursor
      <4>1. Covered(q)'
        BY <1>0, <2>1, Steady
      <4> QED  BY <2>2, <3>2, <4>1
    <3> QED  BY <2>1, <3>1, <3>2
  <2>4. ~registered => late' = {}
    BY <2>1 DEF FeedInv, Serving
  <2> QED  BY <2>1, <2>2, <2>3, <2>4 DEF FeedInv, Serving
<1>13. CASE E!Dies \/ (pc = "waits" /\ Moves("down"))
  <2>1. /\ pc' = "down" /\ at' = 0
        /\ UNCHANGED <<log, registered, from, place, late, handled>>
    BY <1>13 DEF E!Dies, E!server, Moves, FeedInv
  <2>2. Covered(place)' /\ \A c \in late' : Covered(c)'
    BY <1>0, <2>1, Steady
  <2> QED  BY <2>1, <2>2 DEF FeedInv, Serving
<1>14. CASE UNCHANGED feedVars
  <2>1. UNCHANGED <<log, registered, from, place, late, pc, batch, at, handled>>
    BY <1>14 DEF feedVars
  <2> QED  BY <1>3, <2>1 DEF FeedInv
<1> QED  BY <1>1, <1>2, <1>4, <1>5, <1>6, <1>8, <1>9, <1>10, <1>11, <1>12, <1>13, <1>14, FeedSteps
         DEF E!Next, E!GoesOn

\* The consumer's place never passes an event that was promised and that no life
\* of the program handled, and is never beyond the log (feed.go, AckEvents).
THEOREM ConsumerSkipsNothing == Spec => []NothingSkipped
<1>1. FeedTypes /\ FeedInv => NothingSkipped
  <2>1. \A s \in Shards : 1 .. MaxLog[s] \subseteq Nat
    BY CallerAssumption DEF E!FeedAssumption
  <2> QED  BY <2>1 DEF FeedInv, Covered, NothingSkipped, E!NothingSkipped
<1>2. FeedTypes /\ FeedInv /\ [Next]_vars => FeedTypes' /\ FeedInv'
  BY NextFeedTypes, NextFeed
<1> QED  BY <1>1, <1>2, InitFeed, PTL DEF Spec
=============================================================================
