--------------------------- MODULE StepRunProofs ---------------------------
(***************************************************************************)
(* Proofs about StepRun, for every number of attempts, events, branches    *)
(* and chained steps: what is committed is what the handler said, the      *)
(* branches started are the ones it created, and StepRun implements        *)
(* StepPromise.                                                            *)
(***************************************************************************)
EXTENDS StepRun, SequenceTheorems, TLAPS

\* The events of s are those attempt a emitted after its first k, in order.
Counted(s, a, k) == \A i \in DOMAIN s : s[i] = <<a, k + i>>

\* Where a report may still come from, and where one exists.
Sealed == {"drained", "sent", "over"}
Reported == {"sent", "over"}

\* Every event carries its attempt and its number, wherever it is kept.
Numbered(a) ==
  /\ Counted(said[a], a, 0)
  /\ Counted(drained[a].events, a, 0)
  /\ Counted(buffer[a], a, Len(drained[a].events))

\* Nothing is drained before the handler returned, and what is drained is what
\* the handler said, and perhaps more when it left a goroutine.
EventsKept(a) ==
  /\ st[a] \in {"none", "runs"} => ~leftover[a] /\ Len(said[a]) = Len(buffer[a])
  /\ st[a] \in {"none", "runs", "returned"} => drained[a].events = <<>>
  /\ st[a] = "returned" => /\ Len(said[a]) <= Len(buffer[a])
                           /\ ~leftover[a] => Len(said[a]) = Len(buffer[a])
  /\ st[a] \in Sealed => /\ Len(said[a]) <= Len(drained[a].events)
                         /\ ~leftover[a] => Len(said[a]) = Len(drained[a].events)
  /\ st[a] \in Reported => report[a].events = drained[a].events

\* A branch only grows after the handler returned, and not at all when it left
\* no goroutine; a mistake on it stays.
BranchesKept(a) ==
  /\ ~mayCreate => \A i \in DOMAIN created[a] : created[a][i].bad
  /\ st[a] = "returned" =>
       /\ Len(whole[a]) <= Len(created[a])
       /\ ~leftover[a] => whole[a] = created[a]
       /\ \A i \in DOMAIN whole[a] : whole[a][i].bad => created[a][i].bad
  /\ st[a] \in {"returned"} \cup Sealed => \A i \in DOMAIN whole[a] :
       /\ whole[a][i].steps <= created[a][i].steps
       /\ ~leftover[a] => whole[a][i].steps = created[a][i].steps
  /\ st[a] \in Sealed =>
       /\ Len(whole[a]) <= drained[a].branches
       /\ \A i \in DOMAIN whole[a] : ~whole[a][i].bad
       /\ whole[a] # <<>> => mayCreate
  /\ st[a] \in Reported =>
       /\ Len(report[a].branches) = drained[a].branches
       /\ \A i \in DOMAIN whole[a] :
            /\ whole[a][i].steps <= report[a].branches[i]
            /\ ~leftover[a] => whole[a][i].steps = report[a].branches[i]

\* A step is completed by the report of one attempt, and holds what is in it.
Settled ==
  /\ task = "completed" <=> winner # 0
  /\ winner # 0 => /\ st[winner] \in Reported
                   /\ log = report[winner].events
                   /\ spawned = report[winner].branches

Inv ==
  /\ \A a \in Attempts : Numbered(a) /\ EventsKept(a) /\ BranchesKept(a)
  /\ Settled

----------------------------------------------------------------------------
(* Types. *)

\* What TypeOK says of one attempt.
LEMMA Parts ==
  ASSUME TypeOK, NEW a \in Attempts
  PROVE  /\ buffer[a] \in Seq(Event) /\ Len(buffer[a]) \in Nat /\ DOMAIN buffer[a] = 1 .. Len(buffer[a])
         /\ said[a] \in Seq(Event) /\ Len(said[a]) \in Nat /\ DOMAIN said[a] = 1 .. Len(said[a])
         /\ drained[a].events \in Seq(Event) /\ Len(drained[a].events) \in Nat
         /\ DOMAIN drained[a].events = 1 .. Len(drained[a].events)
         /\ created[a] \in Seq(Branch) /\ Len(created[a]) \in Nat /\ DOMAIN created[a] = 1 .. Len(created[a])
         /\ whole[a] \in Seq(Branch) /\ Len(whole[a]) \in Nat /\ DOMAIN whole[a] = 1 .. Len(whole[a])
         /\ drained[a].branches \in Nat /\ drained[a].branches <= Len(created[a])
<1>1. /\ buffer[a] \in Seq(Event) /\ said[a] \in Seq(Event) /\ created[a] \in Seq(Branch)
      /\ whole[a] \in Seq(Branch)
  BY DEF TypeOK
<1>2. drained[a] \in [events : Seq(Event), branches : 0 .. MaxCreate]
  BY DEF TypeOK
<1>3. drained[a].events \in Seq(Event) /\ drained[a].branches \in Nat
  BY <1>2, StepRunAssumption
<1>4. drained[a].branches <= Len(created[a])
  BY DEF TypeOK
<1> QED  BY <1>1, <1>3, <1>4, LenProperties

\* The branches of an attempt are branches.
LEMMA Branches ==
  ASSUME TypeOK, NEW a \in Attempts
  PROVE  /\ \A i \in DOMAIN created[a] : created[a][i] \in Branch /\ created[a][i].steps \in 0 .. MaxChain
         /\ \A i \in DOMAIN whole[a] : whole[a][i] \in Branch /\ whole[a][i].steps \in 0 .. MaxChain
<1>1. /\ \A i \in DOMAIN created[a] : created[a][i] \in Branch
      /\ \A i \in DOMAIN whole[a] : whole[a][i] \in Branch
  BY Parts, ElementOfSeq
<1> QED  BY <1>1 DEF Branch

\* Initially nothing has been emitted or created.
LEMMA InitTypes == Init => TypeOK
<1> USE StepRunAssumption
<1> SUFFICES ASSUME Init PROVE TypeOK
  OBVIOUS
<1>1. /\ <<>> \in Seq(Event) /\ <<>> \in Seq(Branch) /\ <<>> \in Seq(0 .. MaxChain)
      /\ 0 \in 0 .. MaxCreate
  BY SMT
<1> QED  BY <1>1 DEF Init, TypeOK, NotYet, Emitted

\* A Then method changes one branch of one attempt: it has a step more, or a
\* mistake on it (Branch.chain).
LEMMA ExtendedBranch ==
  ASSUME TypeOK, NEW a \in Attempts, NEW i \in DOMAIN created[a], Extend(a, i)
  PROVE  \E s \in Seq(Branch) :
           /\ created' = [created EXCEPT ![a] = s]
           /\ Len(s) = Len(created[a])
           /\ \A j \in DOMAIN s : /\ s[j].steps >= created[a][j].steps
                                  /\ created[a][j].bad => s[j].bad
<1> USE StepRunAssumption
<1>0. created[a] \in Seq(Branch)
  BY DEF TypeOK
<1>1. /\ created[a] \in Seq(Branch) /\ i \in 1 .. Len(created[a])
      /\ \A j \in 1 .. Len(created[a]) : created[a][j] \in Branch
  BY <1>0, LenProperties, ElementOfSeq
<1>2. PICK r \in Branch : /\ created' = [created EXCEPT ![a] = [created[a] EXCEPT ![i] = r]]
                          /\ r.steps >= created[a][i].steps /\ ~created[a][i].bad
  <2>1. CASE created' = [created EXCEPT ![a][i].steps = @ + 1]
    <3> PICK r : r = [created[a][i] EXCEPT !.steps = @ + 1]
      OBVIOUS
    <3>1. created[a][i] \in Branch /\ created[a][i].steps < MaxChain /\ ~created[a][i].bad
      BY <1>1 DEF Extend
    <3>2. r \in Branch /\ r.steps >= created[a][i].steps
      BY <3>1 DEF Branch
    <3>3. created' = [created EXCEPT ![a] = [created[a] EXCEPT ![i] = r]]
      BY <2>1
    <3> QED  BY <3>1, <3>2, <3>3
  <2>2. CASE created' = [created EXCEPT ![a][i].bad = TRUE]
    <3> PICK r : r = [created[a][i] EXCEPT !.bad = TRUE]
      OBVIOUS
    <3>1. created[a][i] \in Branch /\ ~created[a][i].bad
      BY <1>1 DEF Extend
    <3>2. r \in Branch
      BY <3>1 DEF Branch
    <3>4. r.steps = created[a][i].steps /\ created[a][i].steps \in Nat
      BY <3>1 DEF Branch
    <3>3. created' = [created EXCEPT ![a] = [created[a] EXCEPT ![i] = r]]
      BY <2>2
    <3>5. r.steps >= created[a][i].steps
      BY <3>4
    <3> QED  BY <3>1, <3>2, <3>3, <3>5
  <2> QED  BY <2>1, <2>2 DEF Extend
<1> PICK s : s = [created[a] EXCEPT ![i] = r]
  OBVIOUS
<1>3. /\ s \in Seq(Branch) /\ Len(s) = Len(created[a])
      /\ DOMAIN s = 1 .. Len(created[a])
      /\ \A j \in 1 .. Len(created[a]) : s[j] = IF j = i THEN r ELSE created[a][j]
  BY <1>1, ExceptSeq, LenProperties
<1>4. \A j \in 1 .. Len(created[a]) : created[a][j].steps \in Nat
  BY <1>1 DEF Branch
<1>5. \A j \in DOMAIN s : /\ s[j].steps >= created[a][j].steps
                          /\ created[a][j].bad => s[j].bad
  BY <1>1, <1>2, <1>3, <1>4
<1> QED  BY <1>2, <1>3, <1>5

\* Every action keeps the types and the bounds of StepRun.
LEMMA NextTypes == TypeOK /\ [Next]_vars => TypeOK'
<1> USE StepRunAssumption
<1> SUFFICES ASSUME TypeOK, [Next]_vars PROVE TypeOK'
  OBVIOUS
<1>1. CASE UNCHANGED vars
  BY <1>1 DEF TypeOK, vars, Emitted
<1>2. ASSUME NEW a \in Attempts, Begin(a) PROVE TypeOK'
  BY <1>2 DEF TypeOK, Begin, server, Emitted
<1>3. ASSUME NEW a \in Attempts, Emit(a) PROVE TypeOK'
  <2>0. PICK e : e = <<a, Emitted(a) + 1>>
    OBVIOUS
  <2>1. /\ buffer[a] \in Seq(Event) /\ said[a] \in Seq(Event) /\ drained[a].events \in Seq(Event)
        /\ Emitted(a) \in Nat /\ Emitted(a) < MaxEmit
    BY <1>3 DEF TypeOK, Emit, Emitted
  <2>2. e \in Event
    BY <2>0, <2>1 DEF Event
  <2>3. Append(buffer[a], e) \in Seq(Event) /\ Len(Append(buffer[a], e)) = Len(buffer[a]) + 1
    BY <2>1, <2>2
  <2>4. buffer' \in [Attempts -> Seq(Event)] /\ said' \in [Attempts -> Seq(Event)]
    BY <1>3, <2>0, <2>1, <2>2, <2>3 DEF TypeOK, Emit
  <2>5. \A b \in Attempts : Emitted(b)' <= MaxEmit
    <3> TAKE b \in Attempts
    <3>1. /\ drained' = drained
          /\ buffer'[b] = IF b = a THEN Append(buffer[a], e) ELSE buffer[b]
      BY <1>3, <2>0 DEF TypeOK, Emit
    <3>2. Len(buffer[b]) \in Nat /\ Len(drained[b].events) \in Nat
      BY Parts
    <3>3. Emitted(b) <= MaxEmit
      BY DEF TypeOK
    <3>4. CASE b = a
      <4>0. PICK d \in Nat, n \in Nat : d = Len(drained[b].events) /\ n = Len(buffer[b])
        BY <3>2
      <4>1. Len(buffer'[b]) = n + 1
        BY <2>3, <3>1, <3>4, <4>0
      <4>2. d + n < MaxEmit
        BY <2>1, <3>4, <4>0 DEF Emitted
      <4>3. d + (n + 1) <= MaxEmit
        BY <4>2
      <4> QED  BY <3>1, <4>0, <4>1, <4>3 DEF Emitted
    <3>5. CASE b # a
      BY <3>1, <3>3, <3>5 DEF Emitted
    <3> QED  BY <3>4, <3>5
  <2> QED  BY <1>3, <2>4, <2>5 DEF TypeOK, Emit, server
<1>4. ASSUME NEW a \in Attempts, Create(a) PROVE TypeOK'
  <2> PICK r : r = [steps |-> 0, bad |-> ~mayCreate]
    OBVIOUS
  <2>1. r \in Branch
    BY DEF TypeOK, Branch
  <2>2. /\ Append(created[a], r) \in Seq(Branch)
        /\ Len(Append(created[a], r)) = Len(created[a]) + 1
        /\ Len(created[a]) \in Nat
    BY <2>1 DEF TypeOK
  <2>3. created' = [created EXCEPT ![a] = Append(created[a], r)] /\ Len(created[a]) < MaxCreate
    BY <1>4 DEF Create
  <2>4. created' \in [Attempts -> Seq(Branch)]
    BY <2>2, <2>3 DEF TypeOK
  <2>5. \A b \in Attempts : Len(created'[b]) <= MaxCreate /\ drained[b].branches <= Len(created'[b])
    <3> TAKE b \in Attempts
    <3>1. /\ Len(created[b]) <= MaxCreate /\ drained[b].branches <= Len(created[b])
          /\ drained[b].branches \in Nat
      BY DEF TypeOK
    <3>2. created'[b] = IF b = a THEN Append(created[a], r) ELSE created[b]
      BY <2>3 DEF TypeOK
    <3> QED  BY <2>2, <2>3, <3>1, <3>2
  <2> QED  BY <1>4, <2>4, <2>5 DEF TypeOK, Create, server, Emitted
<1>5. ASSUME NEW a \in Attempts, NEW i \in DOMAIN created[a], Extend(a, i) PROVE TypeOK'
  <2>1. PICK s : /\ created' = [created EXCEPT ![a] = s]
                 /\ s \in Seq(Branch) /\ Len(s) = Len(created[a])
    BY <1>5, ExtendedBranch
  <2> QED  BY <1>5, <2>1 DEF TypeOK, Extend, server, Emitted
<1>6. ASSUME NEW a \in Attempts, NEW left \in BOOLEAN, HandlerReturns(a, left) PROVE TypeOK'
  BY <1>6 DEF TypeOK, HandlerReturns, server, Emitted
<1>7. ASSUME NEW a \in Attempts, NEW left \in BOOLEAN, HandlerFails(a, left) PROVE TypeOK'
  BY <1>7 DEF TypeOK, HandlerFails, server, Emitted
<1>8. ASSUME NEW a \in Attempts, Drain(a) PROVE TypeOK'
  <2>1. [events |-> buffer[a], branches |-> Len(created[a])] \in [events : Seq(Event), branches : 0 .. MaxCreate]
    BY DEF TypeOK
  <2>2. <<>> \in Seq(Event) /\ Len(buffer[a]) <= MaxEmit
    BY DEF TypeOK, Emitted
  <2> QED  BY <1>8, <2>1, <2>2 DEF TypeOK, Drain, server, Emitted
<1>9. ASSUME NEW a \in Attempts, NotABool(a) \/ EncodeFails(a) \/ Over(a) PROVE TypeOK'
  BY <1>9 DEF TypeOK, NotABool, EncodeFails, Over, server, Emitted
<1>10. ASSUME NEW a \in Attempts, Encode(a) PROVE TypeOK'
  <2> PICK s : s = [i \in 1 .. drained[a].branches |-> created[a][i].steps]
    OBVIOUS
  <2> PICK n \in Nat : n = drained[a].branches
    BY DEF TypeOK
  <2>1. n <= Len(created[a]) /\ created[a] \in Seq(Branch) /\ drained[a].events \in Seq(Event)
    BY DEF TypeOK
  <2>3. \A i \in 1 .. n : created[a][i].steps \in 0 .. MaxChain
    <3>1. \A i \in 1 .. n : i \in 1 .. Len(created[a])
      BY <2>1
    <3>2. \A i \in 1 .. n : created[a][i] \in Branch
      BY <2>1, <3>1, ElementOfSeq
    <3> QED  BY <3>2 DEF Branch
  <2>4. s \in Seq(0 .. MaxChain)
    BY <2>3, IsASeq
  <2>2. report' = [report EXCEPT ![a] = [events |-> drained[a].events, branches |-> s]]
    BY <1>10 DEF Encode
  <2>5. [events |-> drained[a].events, branches |-> s] \in [events : Seq(Event), branches : Seq(0 .. MaxChain)]
    BY <2>1, <2>4
  <2>6. report' \in [Attempts -> [events : Seq(Event), branches : Seq(0 .. MaxChain)]]
    BY <2>2, <2>5 DEF TypeOK
  <2>7. st' = [st EXCEPT ![a] = "sent"] /\ UNCHANGED <<leftover, buffer, said, created, whole, drained, mayCreate, server>>
    BY <1>10 DEF Encode
  <2> QED  BY <2>6, <2>7 DEF TypeOK, server, Emitted
<1>11. ASSUME NEW a \in Attempts, Settle(a) PROVE TypeOK'
  BY <1>11 DEF TypeOK, Settle, worker, Emitted
<1>12. ASSUME NEW a \in Attempts, Abandon(a) PROVE TypeOK'
  BY <1>12 DEF TypeOK, Abandon, worker, Emitted
<1> QED  BY <1>1, <1>2, <1>3, <1>4, <1>5, <1>6, <1>7, <1>8, <1>9, <1>10, <1>11, <1>12
         DEF Next, Handler, Execute

\* Every reachable state of StepRun is well typed, within its bounds.
THEOREM TypeCorrect == Spec => []TypeOK
BY InitTypes, NextTypes, PTL DEF Spec

----------------------------------------------------------------------------
(* The inductive invariant. *)

Part(a) == Numbered(a) /\ EventsKept(a) /\ BranchesKept(a)

\* Nothing of attempt a changes.
Same(a) ==
  /\ st'[a] = st[a] /\ leftover'[a] = leftover[a]
  /\ buffer'[a] = buffer[a] /\ said'[a] = said[a]
  /\ created'[a] = created[a] /\ whole'[a] = whole[a]
  /\ drained'[a] = drained[a] /\ report'[a] = report[a]

Step(a) == Handler(a) \/ Execute(a)

\* An attempt has a StepRun of its own: no step of one touches another.
LEMMA Apart ==
  ASSUME TypeOK, NEW a \in Attempts, Step(a), NEW b \in Attempts, b # a
  PROVE  Same(b)
<1> USE DEF Same, TypeOK
<1>1. CASE Begin(a)
  BY <1>1 DEF Begin
<1>2. CASE Emit(a)
  BY <1>2 DEF Emit
<1>3. CASE Create(a)
  BY <1>3 DEF Create
<1>4. ASSUME NEW i \in DOMAIN created[a], Extend(a, i) PROVE Same(b)
  <2>1. PICK s : created' = [created EXCEPT ![a] = s]
    BY <1>4, ExtendedBranch
  <2> QED  BY <1>4, <2>1 DEF Extend
<1>5. ASSUME NEW left \in BOOLEAN, HandlerReturns(a, left) PROVE Same(b)
  BY <1>5 DEF HandlerReturns
<1>6. ASSUME NEW left \in BOOLEAN, HandlerFails(a, left) PROVE Same(b)
  BY <1>6 DEF HandlerFails
<1>7. CASE Drain(a)
  BY <1>7 DEF Drain
<1>8. CASE NotABool(a) \/ EncodeFails(a) \/ Over(a)
  BY <1>8 DEF NotABool, EncodeFails, Over
<1>9. CASE Encode(a)
  BY <1>9 DEF Encode
<1> QED  BY <1>1, <1>2, <1>3, <1>4, <1>5, <1>6, <1>7, <1>8, <1>9 DEF Step, Handler, Execute

\* No step of an attempt is one of the server's, nor changes what was reported.
LEMMA ReportStays ==
  ASSUME TypeOK, NEW a \in Attempts, Step(a)
  PROVE  /\ UNCHANGED <<mayCreate, server>>
         /\ st[a] \in Reported => st'[a] \in Reported /\ report'[a] = report[a]
<1> USE DEF Reported, TypeOK
<1>1. CASE Begin(a)
  BY <1>1 DEF Begin
<1>2. CASE Emit(a)
  BY <1>2 DEF Emit
<1>3. CASE Create(a)
  BY <1>3 DEF Create
<1>4. ASSUME NEW i \in DOMAIN created[a], Extend(a, i)
      PROVE  UNCHANGED <<mayCreate, server, st, report>>
  BY <1>4 DEF Extend
<1>5. CASE \E left \in BOOLEAN : HandlerReturns(a, left) \/ HandlerFails(a, left)
  BY <1>5 DEF HandlerReturns, HandlerFails
<1>6. CASE Drain(a)
  BY <1>6 DEF Drain
<1>7. CASE NotABool(a) \/ EncodeFails(a) \/ Over(a)
  BY <1>7 DEF NotABool, EncodeFails, Over
<1>8. CASE Encode(a)
  BY <1>8 DEF Encode
<1> QED  BY <1>1, <1>2, <1>3, <1>4, <1>5, <1>6, <1>7, <1>8 DEF Step, Handler, Execute

\* What is unchanged keeps its part of the invariant.
LEMMA SameKept ==
  ASSUME NEW a \in Attempts, Part(a), Same(a), mayCreate' = mayCreate
  PROVE  Part(a)'
BY DEF Part, Same, Numbered, Counted, EventsKept, BranchesKept

\* Emitting puts the next event behind those emitted before.
LEMMA EmitKeeps ==
  ASSUME TypeOK, NEW a \in Attempts, Part(a), Emit(a)
  PROVE  Part(a)'
<1>0. PICK e : e = <<a, Emitted(a) + 1>>
  OBVIOUS
<1>1. /\ buffer'[a] = Append(buffer[a], e)
      /\ said'[a] = IF st[a] = "runs" THEN Append(said[a], e) ELSE said[a]
      /\ UNCHANGED <<st, leftover, created, whole, drained, report, mayCreate>>
  BY <1>0 DEF Emit, TypeOK
<1>2. Active(a) /\ st[a] \in {"none", "runs", "returned", "failed", "drained", "dropped", "sent", "over"}
  BY DEF Emit, TypeOK
<1>3. e = <<a, Len(drained[a].events) + (Len(buffer[a]) + 1)>>
  <2>1. \A d, n \in Nat : d + n + 1 = d + (n + 1)
    OBVIOUS
  <2>2. Emitted(a) + 1 = Len(drained[a].events) + (Len(buffer[a]) + 1)
    BY <2>1, Parts DEF Emitted
  <2> QED  BY <1>0, <2>2
<1>4. /\ Len(buffer'[a]) = Len(buffer[a]) + 1
      /\ DOMAIN buffer'[a] = 1 .. Len(buffer[a]) + 1
      /\ \A i \in 1 .. Len(buffer[a]) : buffer'[a][i] = buffer[a][i]
      /\ buffer'[a][Len(buffer[a]) + 1] = e
  BY <1>1, Parts
<1>5. Counted(buffer'[a], a, Len(drained[a].events))
  <2>1. \A i \in DOMAIN buffer[a] : buffer[a][i] = <<a, Len(drained[a].events) + i>>
    BY DEF Part, Numbered, Counted
  <2>2. \A i \in 1 .. Len(buffer[a]) + 1 : i \in 1 .. Len(buffer[a]) \/ i = Len(buffer[a]) + 1
    BY Parts
  <2> QED  BY <1>3, <1>4, <2>1, <2>2, Parts DEF Counted
<1>6. CASE st[a] = "runs"
  <2>1. /\ Len(said'[a]) = Len(said[a]) + 1
        /\ DOMAIN said'[a] = 1 .. Len(said[a]) + 1
        /\ \A i \in 1 .. Len(said[a]) : said'[a][i] = said[a][i]
        /\ said'[a][Len(said[a]) + 1] = e
    BY <1>1, <1>6, Parts
  <2>2. Len(said[a]) = Len(buffer[a]) /\ Len(drained[a].events) = 0
    BY <1>6 DEF Part, EventsKept
  <2>3. e = <<a, Len(said[a]) + 1>>
    BY <1>3, <2>2, Parts
  <2>4. Counted(said'[a], a, 0)
    BY <2>1, <2>3, Parts DEF Part, Numbered, Counted
  <2>5. Len(said'[a]) = Len(buffer'[a])
    BY <1>4, <2>1, <2>2
  <2> QED  BY <1>1, <1>5, <1>6, <2>4, <2>5 DEF Part, Numbered, EventsKept, BranchesKept, Sealed, Reported
<1>7. CASE st[a] # "runs"
  <2>1. said'[a] = said[a] /\ leftover[a]
    BY <1>1, <1>2, <1>7 DEF Active
  <2>2. Len(said[a]) <= Len(buffer[a]) => Len(said[a]) <= Len(buffer'[a])
    BY <1>4, Parts
  <2>3. st[a] # "none"
    BY <2>1 DEF Part, EventsKept
  <2> QED  BY <1>1, <1>5, <1>7, <2>1, <2>2, <2>3
           DEF Part, Numbered, EventsKept, BranchesKept, Sealed, Reported
<1> QED  BY <1>6, <1>7

\* A branch opened or chained onto changes none of those the handler left.
LEMMA GrowKeeps ==
  ASSUME TypeOK, NEW a \in Attempts, Part(a),
         Create(a) \/ \E i \in DOMAIN created[a] : Extend(a, i)
  PROVE  Part(a)'
<1>1. PICK s \in Seq(Branch) :
        /\ created'[a] = s /\ Len(s) >= Len(created[a])
        /\ \A j \in DOMAIN created[a] : /\ s[j].steps >= created[a][j].steps
                                        /\ created[a][j].bad => s[j].bad
        /\ ~mayCreate => \A j \in DOMAIN s : s[j].bad
        /\ UNCHANGED <<st, leftover, buffer, said, whole, drained, report, mayCreate>>
        /\ Active(a)
  <2>1. CASE Create(a)
    <3>0. PICK r : r = [steps |-> 0, bad |-> ~mayCreate]
      OBVIOUS
    <3>1. r \in Branch /\ (~mayCreate => r.bad)
      <4>1. 0 \in 0 .. MaxChain /\ mayCreate \in BOOLEAN
        BY StepRunAssumption DEF TypeOK
      <4> QED  BY <3>0, <4>1 DEF Branch
    <3>2. PICK s : s = Append(created[a], r)
      OBVIOUS
    <3>3. /\ s \in Seq(Branch) /\ Len(s) = Len(created[a]) + 1
          /\ DOMAIN s = 1 .. Len(created[a]) + 1
          /\ \A j \in 1 .. Len(created[a]) : s[j] = created[a][j]
          /\ s[Len(created[a]) + 1] = r
      BY <3>1, <3>2, Parts
    <3>4. created'[a] = s
      BY <2>1, <3>0, <3>2 DEF Create, TypeOK
    <3>5. Len(s) >= Len(created[a])
      BY <3>3, Parts
    <3>6. \A j \in DOMAIN created[a] : created[a][j].steps >= created[a][j].steps
      BY Branches, StepRunAssumption
    <3>7. \A j \in DOMAIN created[a] : /\ s[j].steps >= created[a][j].steps
                                       /\ created[a][j].bad => s[j].bad
      BY <3>3, <3>6, Parts
    <3>8. ~mayCreate => \A j \in DOMAIN s : s[j].bad
      BY <3>1, <3>3, Parts DEF Part, BranchesKept
    <3> QED  BY <2>1, <3>3, <3>4, <3>5, <3>7, <3>8 DEF Create
  <2>2. ASSUME NEW i \in DOMAIN created[a], Extend(a, i)
        PROVE  \E s \in Seq(Branch) :
        /\ created'[a] = s /\ Len(s) >= Len(created[a])
        /\ \A j \in DOMAIN created[a] : /\ s[j].steps >= created[a][j].steps
                                        /\ created[a][j].bad => s[j].bad
        /\ ~mayCreate => \A j \in DOMAIN s : s[j].bad
        /\ UNCHANGED <<st, leftover, buffer, said, whole, drained, report, mayCreate>>
        /\ Active(a)
    <3>1. PICK s \in Seq(Branch) :
           /\ created' = [created EXCEPT ![a] = s]
           /\ Len(s) = Len(created[a])
           /\ \A j \in DOMAIN s : /\ s[j].steps >= created[a][j].steps
                                  /\ created[a][j].bad => s[j].bad
      BY <2>2, ExtendedBranch
    <3>2. created'[a] = s /\ DOMAIN s = DOMAIN created[a]
      BY <3>1, Parts, LenProperties DEF TypeOK
    <3>3. Len(s) >= Len(created[a])
      BY <3>1, Parts
    <3> QED  BY <2>2, <3>1, <3>2, <3>3 DEF Extend, Part, BranchesKept
  <2> QED  BY <2>1, <2>2
<1>1a. \A j \in DOMAIN created[a] : s[j].steps >= created[a][j].steps
  BY <1>1
<1>1b. \A j \in DOMAIN created[a] : created[a][j].bad => s[j].bad
  BY <1>1
<1>2. \A i \in DOMAIN whole[a] : i \in DOMAIN created[a] =>
        /\ whole[a][i].steps <= created[a][i].steps => whole[a][i].steps <= s[i].steps
  <2> TAKE i \in DOMAIN whole[a]
  <2> HAVE i \in DOMAIN created[a]
  <2>1. s[i] \in Branch
    BY <1>1, Parts, ElementOfSeq
  <2>2. s[i].steps \in Nat /\ whole[a][i].steps \in Nat /\ created[a][i].steps \in Nat
    BY <2>1, Branches, StepRunAssumption DEF Branch
  <2>3. s[i].steps >= created[a][i].steps
    BY <1>1a
  <2> QED  BY <2>2, <2>3
<1>3. Numbered(a)' /\ EventsKept(a)'
  BY <1>1 DEF Part, Numbered, EventsKept
<1>4. st[a] = "returned" => /\ Len(whole[a]) <= Len(created[a])
                            /\ DOMAIN whole[a] \subseteq DOMAIN created[a]
                            /\ Len(whole[a]) <= Len(s)
  BY <1>1, Parts DEF Part, BranchesKept
<1>5. st[a] \in Sealed => DOMAIN whole[a] \subseteq DOMAIN created[a]
  BY Parts DEF Part, BranchesKept
<1>6. st[a] \in {"returned"} \cup Sealed => leftover[a]
  BY <1>1 DEF Active, Sealed
<1>7. \A i \in DOMAIN s : ~mayCreate => s[i].bad
  BY <1>1
<1>8. st[a] = "returned" => \A i \in DOMAIN whole[a] : /\ whole[a][i].steps <= s[i].steps
                                                       /\ whole[a][i].bad => s[i].bad
  BY <1>1b, <1>2, <1>4 DEF Part, BranchesKept
<1>9. st[a] \in Sealed => \A i \in DOMAIN whole[a] : whole[a][i].steps <= s[i].steps
  BY <1>2, <1>5 DEF Part, BranchesKept
<1>10. BranchesKept(a)'
  <2>1. CASE st[a] = "returned"
    <3>1. /\ created'[a] = s /\ Len(whole'[a]) <= Len(created'[a])
          /\ UNCHANGED <<st, leftover, whole, drained, report, mayCreate>>
          /\ leftover[a]
      BY <1>1, <1>4, <1>6, <2>1
    <3> QED  BY <3>1, <1>7, <1>8, <2>1 DEF BranchesKept, Sealed, Reported
  <2>2. CASE st[a] \in Sealed
    BY <1>1, <1>6, <1>7, <1>9, <2>2 DEF Part, BranchesKept, Sealed, Reported
  <2>3. CASE st[a] \notin {"returned"} \cup Sealed
    BY <1>1, <1>7, <2>3 DEF Part, BranchesKept, Sealed, Reported
  <2> QED  BY <2>1, <2>2, <2>3
<1> QED  BY <1>3, <1>10 DEF Part

\* What drain returns is all that the handler said and created, unless there was
\* a mistake on a branch.
LEMMA DrainKeeps ==
  ASSUME TypeOK, NEW a \in Attempts, Part(a), Drain(a)
  PROVE  Part(a)'
<1>1. /\ st[a] = "returned"
      /\ drained'[a].events = buffer[a] /\ drained'[a].branches = Len(created[a])
      /\ buffer'[a] = <<>>
      /\ UNCHANGED <<leftover, said, created, whole, report, mayCreate>>
  BY DEF Drain, TypeOK
<1>2. Numbered(a)'
  <2>1. Len(drained[a].events) = 0
    BY <1>1 DEF Part, EventsKept
  <2>2. \A i \in DOMAIN buffer[a] : buffer[a][i] = <<a, 0 + i>>
    BY <2>1 DEF Part, Numbered, Counted
  <2>3. Counted(buffer'[a], a, Len(drained'[a].events))
    BY <1>1 DEF Counted
  <2> QED  BY <1>1, <2>2, <2>3 DEF Part, Numbered, Counted
<1>3. CASE \E i \in DOMAIN created[a] : created[a][i].bad
  <2>1. st'[a] = "failed"
    BY <1>3 DEF Drain, TypeOK
  <2> QED  BY <1>1, <1>2, <2>1 DEF Part, EventsKept, BranchesKept, Sealed, Reported
<1>4. CASE ~ \E i \in DOMAIN created[a] : created[a][i].bad
  <2>1. st'[a] = "drained"
    BY <1>4 DEF Drain, TypeOK
  <2>2. /\ Len(whole[a]) <= Len(created[a]) /\ DOMAIN whole[a] \subseteq DOMAIN created[a]
        /\ \A i \in DOMAIN whole[a] : ~whole[a][i].bad
    <3>1. Len(whole[a]) <= Len(created[a])
      BY <1>1 DEF Part, BranchesKept
    <3>2. DOMAIN whole[a] \subseteq DOMAIN created[a]
      BY <3>1, Parts
    <3> QED  BY <1>1, <1>4, <3>1, <3>2 DEF Part, BranchesKept
  <2>3. whole[a] # <<>> => mayCreate
    <3>1. whole[a] # <<>> => 1 \in DOMAIN whole[a]
      BY Parts
    <3> QED  BY <1>4, <2>2, <3>1 DEF Part, BranchesKept
  <2>4. EventsKept(a)'
    BY <1>1, <2>1 DEF Part, EventsKept, Sealed, Reported
  <2>5. BranchesKept(a)'
    BY <1>1, <2>1, <2>2, <2>3 DEF Part, BranchesKept, Sealed, Reported
  <2> QED  BY <1>2, <2>4, <2>5 DEF Part
<1> QED  BY <1>3, <1>4

\* What is reported is what was drained, and each branch at least as long as
\* when it was.
LEMMA EncodeKeeps ==
  ASSUME TypeOK, NEW a \in Attempts, Part(a), Encode(a)
  PROVE  Part(a)'
<1> PICK n \in Nat : n = drained[a].branches
  BY Parts
<1> PICK s : s = [i \in 1 .. n |-> created[a][i].steps]
  OBVIOUS
<1>1. /\ st[a] = "drained" /\ st'[a] = "sent"
      /\ report'[a].events = drained[a].events /\ report'[a].branches = s
      /\ UNCHANGED <<leftover, buffer, said, created, whole, drained, mayCreate>>
  BY DEF Encode, TypeOK
<1>2. Len(s) = drained[a].branches
  <2>1. s \in [1 .. n -> {created[a][i].steps : i \in 1 .. n}]
    OBVIOUS
  <2>2. DOMAIN s = 1 .. n
    BY <2>1
  <2> QED  BY <2>2
<1>3. DOMAIN whole[a] \subseteq 1 .. n
  BY <1>1, Parts DEF Part, BranchesKept, Sealed
<1>4. \A i \in DOMAIN whole[a] : s[i] = created[a][i].steps
  BY <1>3
<1>5. Numbered(a)' /\ EventsKept(a)'
  BY <1>1 DEF Part, Numbered, EventsKept, Sealed, Reported
<1>6. \A i \in DOMAIN whole[a] : /\ whole[a][i].steps <= created[a][i].steps
                                 /\ ~leftover[a] => whole[a][i].steps = created[a][i].steps
  BY <1>1 DEF Part, BranchesKept, Sealed
<1>7. BranchesKept(a)'
  BY <1>1, <1>2, <1>4, <1>6 DEF Part, BranchesKept, Sealed, Reported
<1> QED  BY <1>5, <1>7 DEF Part

\* A step of an attempt keeps that attempt's part of the invariant.
LEMMA StepKeeps ==
  ASSUME TypeOK, NEW a \in Attempts, Part(a), Step(a)
  PROVE  Part(a)'
<1> USE DEF Part, Numbered, EventsKept, BranchesKept, Sealed, Reported
<1>1. CASE Begin(a)
  <2>1. /\ st[a] = "none" /\ st'[a] = "runs"
        /\ UNCHANGED <<leftover, buffer, said, created, whole, drained, report, mayCreate>>
    BY <1>1 DEF Begin, TypeOK
  <2> QED  BY <2>1
<1>2. CASE Emit(a)
  BY <1>2, EmitKeeps
<1>3. CASE Create(a) \/ \E i \in DOMAIN created[a] : Extend(a, i)
  BY <1>3, GrowKeeps
<1>4. ASSUME NEW left \in BOOLEAN, HandlerReturns(a, left) PROVE Part(a)'
  <2>1. /\ st[a] = "runs" /\ st'[a] = "returned" /\ whole'[a] = created[a]
        /\ UNCHANGED <<buffer, said, created, drained, report, mayCreate>>
    BY <1>4 DEF HandlerReturns, TypeOK
  <2>2. \A i \in DOMAIN created[a] : created[a][i].steps <= created[a][i].steps
    BY Branches, StepRunAssumption
  <2>3. Len(created[a]) <= Len(created[a]) /\ Len(said[a]) = Len(buffer[a]) /\ Len(said[a]) <= Len(buffer[a])
    BY <2>1, Parts
  <2>4. BranchesKept(a)'
    BY <2>1, <2>2, <2>3
  <2>5. EventsKept(a)'
    BY <2>1, <2>3
  <2>6. Numbered(a)'
    BY <2>1
  <2> QED  BY <2>4, <2>5, <2>6
<1>5. ASSUME NEW left \in BOOLEAN, HandlerFails(a, left) PROVE Part(a)'
  <2>1. /\ st'[a] = "failed"
        /\ UNCHANGED <<buffer, said, created, whole, drained, report, mayCreate>>
    BY <1>5 DEF HandlerFails, TypeOK
  <2> QED  BY <2>1
<1>6. CASE Drain(a)
  BY <1>6, DrainKeeps
<1>7. CASE NotABool(a) \/ EncodeFails(a)
  <2>1. /\ st'[a] \in {"failed", "dropped"}
        /\ UNCHANGED <<leftover, buffer, said, created, whole, drained, report, mayCreate>>
    BY <1>7 DEF NotABool, EncodeFails, TypeOK
  <2> QED  BY <2>1
<1>8. CASE Encode(a)
  BY <1>8, EncodeKeeps
<1>9. CASE Over(a)
  <2>1. /\ st[a] = "sent" /\ st'[a] = "over"
        /\ UNCHANGED <<leftover, buffer, said, created, whole, drained, report, mayCreate>>
    BY <1>9 DEF Over, TypeOK
  <2> QED  BY <2>1
<1> QED  BY <1>1, <1>2, <1>3, <1>4, <1>5, <1>6, <1>7, <1>8, <1>9 DEF Step, Handler, Execute

\* Initially no attempt has begun, and the step is open.
LEMMA InitInv == Init => Inv
<1> SUFFICES ASSUME Init PROVE Inv
  OBVIOUS
<1>1. /\ \A a \in Attempts : /\ st[a] = "none" /\ ~leftover[a]
                             /\ buffer[a] = <<>> /\ said[a] = <<>> /\ created[a] = <<>>
                             /\ drained[a].events = <<>>
      /\ task = "open" /\ winner = 0
  BY DEF Init
<1> QED  BY <1>1 DEF Inv, Numbered, Counted, EventsKept, BranchesKept, Sealed, Reported, Settled

\* Every action keeps the invariant.
LEMMA NextInv == TypeOK /\ Inv /\ [Next]_vars => Inv'
<1> SUFFICES ASSUME TypeOK, Inv, [Next]_vars PROVE Inv'
  OBVIOUS
<1>0. \A b \in Attempts : Part(b)
  BY DEF Inv, Part
<1>1. ASSUME NEW a \in Attempts, Step(a) PROVE Inv'
  <2>1. \A b \in Attempts : Part(b)'
    <3> TAKE b \in Attempts
    <3>1. CASE b = a
      BY <1>0, <1>1, <3>1, StepKeeps
    <3>2. CASE b # a
      BY <1>0, <1>1, <3>2, Apart, ReportStays, SameKept
    <3> QED  BY <3>1, <3>2
  <2>2. \A b \in Attempts : st[b] \in Reported => st'[b] \in Reported /\ report'[b] = report[b]
    BY <1>1, Apart, ReportStays DEF Same
  <2>3. UNCHANGED server
    BY <1>1, ReportStays
  <2>4. winner # 0 => winner \in Attempts
    BY DEF TypeOK
  <2>5. Settled'
    BY <2>2, <2>3, <2>4 DEF Inv, Settled, server
  <2> QED  BY <2>1, <2>5 DEF Inv, Part
<1>2. ASSUME UNCHANGED worker, mayCreate' = mayCreate PROVE \A b \in Attempts : Part(b)'
  BY <1>0, <1>2, SameKept DEF worker, Same
<1>3. ASSUME NEW a \in Attempts, Settle(a) PROVE Inv'
  <2>1. Settled'
    BY <1>3, StepRunAssumption DEF Settle, Settled, worker, Reported, Attempts
  <2> QED  BY <1>2, <1>3, <2>1 DEF Inv, Part, Settle
<1>4. ASSUME NEW a \in Attempts, Abandon(a) PROVE Inv'
  <2>1. Settled'
    BY <1>4 DEF Abandon, Settled, worker, Inv
  <2> QED  BY <1>2, <1>4, <2>1 DEF Inv, Part, Abandon
<1>5. CASE UNCHANGED vars
  <2>1. UNCHANGED worker /\ mayCreate' = mayCreate /\ UNCHANGED server
    BY <1>5 DEF vars, worker, server
  <2>2. Settled'
    BY <2>1 DEF Inv, Settled, worker, server
  <2> QED  BY <1>2, <2>1, <2>2 DEF Inv, Part
<1> QED  BY <1>1, <1>3, <1>4, <1>5 DEF Next, Step

\* Whatever attempts do and leave behind, what each of them said and created is
\* kept apart and in order until it is reported.
THEOREM InvCorrect == Spec => []Inv
BY InitTypes, InitInv, NextTypes, NextInv, PTL DEF Spec

----------------------------------------------------------------------------
(* What is committed. *)

\* Two counted sequences of one attempt agree as far as the shorter one goes.
LEMMA CountedPrefix ==
  ASSUME NEW a \in Attempts, NEW s \in Seq(Event), NEW t \in Seq(Event),
         Counted(s, a, 0), Counted(t, a, 0), Len(s) <= Len(t)
  PROVE  IsPrefix(s, t) /\ (Len(s) = Len(t) => s = t)
<1>1. Len(s) \in Nat /\ Len(t) \in Nat /\ DOMAIN s = 1 .. Len(s) /\ DOMAIN t = 1 .. Len(t)
  BY LenProperties
<1>2. \A i \in 1 .. Len(s) : i \in 1 .. Len(t) /\ s[i] = t[i]
  <2>1. \A i \in 1 .. Len(s) : i \in 1 .. Len(t)
    BY <1>1
  <2>2. /\ \A i \in 1 .. Len(s) : s[i] = <<a, 0 + i>>
        /\ \A i \in 1 .. Len(t) : t[i] = <<a, 0 + i>>
    BY <1>1 DEF Counted
  <2> QED  BY <2>1, <2>2
<1>3. SubSeq(s, 1, Len(s)) = s
  BY SubSeqFull
<1> PICK n \in Nat : n = Len(s)
  BY <1>1
<1> PICK u : u = SubSeq(t, 1, n)
  OBVIOUS
<1>4. \A i \in 1 .. n : t[i] \in Event
  BY <1>2, ElementOfSeq
<1>5. u \in Seq(Event) /\ Len(u) = n /\ \A i \in 1 .. n : u[i] = t[i]
  <2>1. /\ SubSeq(t, 1, n) \in Seq(Event)
        /\ Len(SubSeq(t, 1, n)) = IF 1 <= n THEN n - 1 + 1 ELSE 0
        /\ \A i \in 1 .. n - 1 + 1 : SubSeq(t, 1, n)[i] = t[1 + i - 1]
    BY <1>4, SubSeqProperties
  <2> QED  BY <2>1
<1>6. s = u
  BY <1>2, <1>5, SeqEqual
<1>7. Len(s) = Len(t) => s = t
  BY <1>2, SeqEqual
<1> QED  BY <1>3, <1>6, <1>7 DEF IsPrefix

\* What a step commits is what the attempt that settled it emitted, in order and
\* from the first to the last event of its handler (StepRun.Emit, drain).
THEOREM CommitsWhatWasSaid == Spec => []CommittedAsSaid
<1>1. TypeOK /\ Inv => CommittedAsSaid
  <2> SUFFICES ASSUME TypeOK, Inv, winner # 0 PROVE
          /\ IsPrefix(said[winner], log)
          /\ \A i \in DOMAIN log : log[i] = <<winner, i>>
          /\ ~leftover[winner] => log = said[winner]
    BY DEF CommittedAsSaid
  <2>1. winner \in Attempts /\ log = drained[winner].events /\ st[winner] \in Sealed
    BY DEF TypeOK, Inv, Settled, EventsKept, Reported, Sealed
  <2>2. /\ Counted(said[winner], winner, 0) /\ Counted(log, winner, 0)
        /\ Len(said[winner]) <= Len(log)
        /\ ~leftover[winner] => Len(said[winner]) = Len(log)
    BY <2>1 DEF Inv, Numbered, EventsKept
  <2>3. said[winner] \in Seq(Event) /\ log \in Seq(Event) /\ DOMAIN log = 1 .. Len(log)
    BY <2>1, Parts
  <2>4. IsPrefix(said[winner], log) /\ (Len(said[winner]) = Len(log) => said[winner] = log)
    BY <2>1, <2>2, <2>3, CountedPrefix
  <2>5. \A i \in DOMAIN log : log[i] = <<winner, i>>
    BY <2>2, <2>3 DEF Counted
  <2> QED  BY <2>2, <2>4, <2>5
<1> QED  BY <1>1, TypeCorrect, InvCorrect, PTL

\* The branches started with a step are those its handler created, each as long
\* as the handler made it and none with a mistake (StepRun.Create, drain).
THEOREM StartsWholeBranches == Spec => []BranchesWhole
<1>1. TypeOK /\ Inv => BranchesWhole
  <2> SUFFICES ASSUME TypeOK, Inv, winner # 0 PROVE
          /\ Len(whole[winner]) <= Len(spawned)
          /\ whole[winner] # <<>> => mayCreate
          /\ \A i \in DOMAIN whole[winner] :
               /\ ~whole[winner][i].bad
               /\ whole[winner][i].steps <= spawned[i]
               /\ ~leftover[winner] => whole[winner][i].steps = spawned[i]
    BY DEF BranchesWhole
  <2>1. winner \in Attempts /\ st[winner] \in Reported /\ spawned = report[winner].branches
    BY DEF TypeOK, Inv, Settled
  <2>2. BranchesKept(winner) /\ st[winner] \in Sealed
    BY <2>1 DEF Inv, Reported, Sealed
  <2> QED  BY <2>1, <2>2 DEF BranchesKept
<1> QED  BY <1>1, TypeCorrect, InvCorrect, PTL

----------------------------------------------------------------------------
(* The refinement of StepPromise. *)

\* The step as StepPromise sees it.
Phase == [t \in {"step"} |-> task]
Attempt == [t \in {"step"} |-> [a \in Attempts |-> AttemptIs(a)]]
Commits == [t \in {"step"} |-> IF winner = 0 THEN {} ELSE {winner}]

\* When one attempt's standing changes and nothing else, it is a step of Attempt.
LEMMA OneStanding ==
  ASSUME NEW a \in Attempts, NEW how, AttemptIs(a)' = how,
         \A b \in Attempts : b # a => AttemptIs(b)' = AttemptIs(b)
  PROVE  Attempt' = [Attempt EXCEPT !["step"][a] = how]
BY DEF Attempt

\* When no attempt's standing changes, it is none.
LEMMA NoStanding ==
  ASSUME \A b \in Attempts : AttemptIs(b)' = AttemptIs(b)
  PROVE  Attempt' = Attempt
BY DEF Attempt

\* The initial states of StepRun are initial states of StepPromise.
LEMMA InitRefines == Init => Promise!Init
BY DEF Init, Promise!Init, Promise!Attempts, Attempts, AttemptIs

\* Every step of StepRun is a step of StepPromise or none.
LEMMA NextRefines == TypeOK /\ Inv /\ [Next]_vars => [Promise!Next]_(Promise!vars)
<1> SUFFICES ASSUME TypeOK, Inv, [Next]_vars PROVE [Promise!Next]_(Promise!vars)
  OBVIOUS
<1> USE DEF Promise!Attempts, Attempts
<1>0. /\ Promise!vars = <<Phase, Attempt, Commits>>
      /\ Promise!vars' = <<Phase', Attempt', Commits'>>
  BY DEF Promise!vars, Phase, Attempt, Commits
<1>1. ASSUME NEW a \in Attempts, Step(a) PROVE [Promise!Next]_(Promise!vars)
  <2>1. Phase' = Phase /\ Commits' = Commits
    BY <1>1, ReportStays DEF Phase, Commits, server
  <2>2. \A b \in Attempts : b # a => AttemptIs(b)' = AttemptIs(b)
    BY <1>1, Apart DEF Same, AttemptIs
  <2>3. \/ AttemptIs(a)' = AttemptIs(a)
        \/ AttemptIs(a) = "none" /\ AttemptIs(a)' = "running"
        \/ AttemptIs(a) = "running" /\ AttemptIs(a)' \in {"good", "bad"}
    BY <1>1 DEF Step, Handler, Execute, Begin, Emit, Create, Extend, HandlerReturns, HandlerFails,
                Drain, NotABool, Encode, EncodeFails, Over, AttemptIs, TypeOK
  <2>4. CASE AttemptIs(a)' = AttemptIs(a)
    BY <1>0, <2>1, <2>2, <2>4, NoStanding
  <2>5. CASE AttemptIs(a) = "none" /\ AttemptIs(a)' = "running"
    <3>1. Attempt' = [Attempt EXCEPT !["step"][a] = "running"]
      BY <2>2, <2>5, OneStanding
    <3>2. Promise!Begin("step", a)
      BY <2>1, <2>5, <3>1 DEF Promise!Begin, Phase, Attempt, Commits
    <3> QED  BY <3>2 DEF Promise!Next
  <2>6. ASSUME NEW how \in {"good", "bad"}, AttemptIs(a) = "running", AttemptIs(a)' = how
        PROVE  [Promise!Next]_(Promise!vars)
    <3>1. Attempt' = [Attempt EXCEPT !["step"][a] = how]
      BY <2>2, <2>6, OneStanding
    <3>2. Promise!End("step", a, how)
      BY <2>1, <2>6, <3>1 DEF Promise!End, Phase, Attempt, Commits
    <3> QED  BY <3>2 DEF Promise!Next
  <2> QED  BY <2>3, <2>4, <2>5, <2>6
<1>2. ASSUME NEW a \in Attempts, Settle(a) PROVE [Promise!Next]_(Promise!vars)
  <2>1. Attempt' = Attempt
    BY <1>2, NoStanding DEF Settle, worker, AttemptIs
  <2>2. AttemptIs(a) = "good" /\ a # 0
    BY <1>2, StepRunAssumption DEF Settle, AttemptIs
  <2>3. /\ Phase' = [Phase EXCEPT !["step"] = "completed"]
        /\ Commits' = [Commits EXCEPT !["step"] = {a}]
        /\ task = "open"
    BY <1>2, <2>2 DEF Settle, Phase, Commits
  <2>4. Promise!Commit("step", a)
    BY <2>1, <2>2, <2>3 DEF Promise!Commit, Phase, Attempt, Commits
  <2> QED  BY <2>4 DEF Promise!Next
<1>3. ASSUME NEW a \in Attempts, Abandon(a) PROVE [Promise!Next]_(Promise!vars)
  <2>1. Attempt' = Attempt
    BY <1>3, NoStanding DEF Abandon, worker, AttemptIs
  <2>2. AttemptIs(a) = "bad"
    BY <1>3 DEF Abandon, AttemptIs
  <2>3. Phase' = [Phase EXCEPT !["step"] = "failed"] /\ Commits' = Commits /\ task = "open"
    BY <1>3 DEF Abandon, Phase, Commits
  <2>4. Promise!Abandon("step")
    BY <2>1, <2>2, <2>3 DEF Promise!Abandon, Phase, Attempt, Commits
  <2> QED  BY <2>4 DEF Promise!Next
<1>4. CASE UNCHANGED vars
  BY <1>4 DEF vars, Promise!vars, AttemptIs
<1> QED  BY <1>1, <1>2, <1>3, <1>4 DEF Next, Step

\* StepRun implements StepPromise: one attempt at most is committed, it is one
\* whose handler and encoding succeeded, and a settled step stays settled
\* (execute, drain, stepResult).
THEOREM PromiseKept == Spec => KeepsPromise
BY InitTypes, InitInv, InitRefines, NextTypes, NextInv, NextRefines, PTL
   DEF Spec, KeepsPromise, Promise!Spec
=============================================================================
