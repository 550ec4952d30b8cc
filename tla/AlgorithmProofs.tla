-------------------------- MODULE AlgorithmProofs --------------------------
(***************************************************************************)
(* What the worker makes of a combine's task, of the server's answers and  *)
(* of a comparison, and what the compiler makes of a flow: for every       *)
(* value, name and size.                                                   *)
(***************************************************************************)
EXTENDS CombineMeaning, AnswersMeaning, Comparisons, GraphShape,
        FiniteSetTheorems, SequenceTheorems, WellFoundedInduction, TLAPS

----------------------------------------------------------------------------
(* The task of a combine (CombineMeaning). *)

(* No key of the workflow's own is one the engine stages under, and keys are *)
(* the same just when their parts are.                                       *)
LEMMA Keys ==
  ASSUME NEW Name, NEW own, DOMAIN own \subseteq {Plain(n) : n \in Name}
  PROVE  /\ \A n : Arm(n) \notin DOMAIN own
         /\ \A c \in {"forEach", "spawn"} \X Name :
              Collected(c) \notin DOMAIN own /\ StepsOf(c) \notin DOMAIN own
         /\ \A k \in DOMAIN own : k = Plain(k[3])
<1>1. \A n, m : Arm(n) # Plain(m)
  BY DEF Arm, Plain
<1>2. \A c \in {"forEach", "spawn"} \X Name : \A m :
        Collected(c) # Plain(m) /\ StepsOf(c) # Plain(m)
  BY DEF Collected, StepsOf, Plain
<1>3. \A n : Plain(n)[3] = n
  BY DEF Plain
<1> QED
  BY <1>1, <1>2, <1>3

(* Results placed over a context appear under their names, and the rest of   *)
(* the context shows through.                                                *)
LEMMA OverShowsBoth ==
  ASSUME NEW placed, NEW base,
         \A k \in DOMAIN base : k = Plain(k[3]),
         \A n \in DOMAIN placed : Plain(n) \notin DOMAIN base
  PROVE  /\ DOMAIN Over(placed, base) = DOMAIN base \cup {Plain(n) : n \in DOMAIN placed}
         /\ \A k \in DOMAIN base : Over(placed, base)[k] = base[k]
         /\ \A n \in DOMAIN placed : Over(placed, base)[Plain(n)] = placed[n]
<1>1. DOMAIN Over(placed, base) = DOMAIN base \cup {Plain(n) : n \in DOMAIN placed}
  BY DEF Over
<1>2. ASSUME NEW k \in DOMAIN base PROVE Over(placed, base)[k] = base[k]
  BY <1>2 DEF Over
<1>3. ASSUME NEW n \in DOMAIN placed PROVE Over(placed, base)[Plain(n)] = placed[n]
  <2>1. Plain(n)[3] = n
    BY DEF Plain
  <2> QED
    BY <1>3, <2>1 DEF Over
<1> QED
  BY <1>1, <1>2, <1>3

(* Taking the staged results out of a context leaves the workflow's own, and *)
(* a name it has already refuses them all.                                   *)
LEMMA PlaceTakesOut ==
  ASSUME NEW own, own = [k \in DOMAIN own |-> own[k]],
         NEW results, results = [n \in DOMAIN results |-> results[n]],
         NEW scratch, DOMAIN scratch = DOMAIN results,
         \A n \in DOMAIN scratch : scratch[n] \notin DOMAIN own,
         NEW base, DOMAIN base = DOMAIN own \cup {scratch[n] : n \in DOMAIN scratch},
         \A k \in DOMAIN own : base[k] = own[k],
         \A n \in DOMAIN scratch : base[scratch[n]] = results[n]
  PROVE  Place(base, scratch)
           = IF \E n \in DOMAIN results : Plain(n) \in DOMAIN own THEN Refused
             ELSE [outcome |-> "combine", ctx |-> Over(results, own),
                   base |-> own, results |-> results]
<1>1. Without(base, Range(scratch)) = own
  <2>1. DOMAIN base \ Range(scratch) = DOMAIN own
    BY DEF Range
  <2>2. Restrict(base, DOMAIN own) = [k \in DOMAIN own |-> own[k]]
    BY DEF Restrict
  <2> QED
    BY <2>1, <2>2 DEF Without
<1>2. [n \in DOMAIN scratch |-> base[scratch[n]]] = results
  <2>1. [n \in DOMAIN scratch |-> base[scratch[n]]] = [n \in DOMAIN results |-> results[n]]
    OBVIOUS
  <2> QED
    BY <2>1
<1> QED
  BY <1>1, <1>2 DEF Place

(* The two answers of Place are what the handler must get. *)
LEMMA PlaceSeesBoth ==
  ASSUME NEW own, \A k \in DOMAIN own : k = Plain(k[3]),
         NEW results, NEW arms, NEW collect,
         IsCombineTask(arms, collect), collect[1] # "spawn",
         DOMAIN results \subseteq ResultNames(arms, collect),
         NEW given,
         given = IF \E n \in DOMAIN results : Plain(n) \in DOMAIN own THEN Refused
                 ELSE [outcome |-> "combine", ctx |-> Over(results, own),
                       base |-> own, results |-> results]
  PROVE  SeesBoth(given, own, results, arms, collect)
<1>1. InContext(results, collect) = DOMAIN results
  BY DEF InContext
<1>2. CASE \E n \in DOMAIN results : Plain(n) \in DOMAIN own
  <2>1. given = Refused /\ Refused.outcome = "refused"
    BY <1>2 DEF Refused
  <2> QED
    BY <1>2, <2>1 DEF SeesBoth, Ambiguous
<1>3. CASE ~\E n \in DOMAIN results : Plain(n) \in DOMAIN own
  <2>1. /\ given.outcome = "combine" /\ given.base = own /\ given.results = results
        /\ given.ctx = Over(results, own)
    BY <1>3
  <2>2. given # Refused
    BY <2>1 DEF Refused
  <2>3. /\ DOMAIN given.ctx = DOMAIN own \cup {Plain(n) : n \in DOMAIN results}
        /\ \A k \in DOMAIN own : given.ctx[k] = own[k]
        /\ \A n \in DOMAIN results : given.ctx[Plain(n)] = results[n]
    <3>1. /\ DOMAIN Over(results, own) = DOMAIN own \cup {Plain(n) : n \in DOMAIN results}
          /\ \A k \in DOMAIN own : Over(results, own)[k] = own[k]
          /\ \A n \in DOMAIN results : Over(results, own)[Plain(n)] = results[n]
      BY <1>3, OverShowsBoth, Zenon
    <3> QED
      BY <2>1, <3>1, Zenon
  <2> QED
    BY <1>1, <2>1, <2>2, <2>3 DEF SeesBoth
<1> QED
  BY <1>2, <1>3

(* The combine of a fork. *)
LEMMA ArmsSeeBoth ==
  ASSUME NEW Name, NEW own, NEW results, NEW arms, NEW collect,
         Staging(Name, own, results, arms, collect), arms # {}
  PROVE  SeesBoth(Unstage(TaskFor(own, results, arms, collect)), own, results, arms, collect)
<1> DEFINE task == TaskFor(own, results, arms, collect)
           keys == {Arm(n) : n \in DOMAIN results}
           scratch == [a \in {n \in task.arms : Arm(n) \in DOMAIN task.ctx} |-> Arm(a)]
<1>1. /\ collect = NoCollection /\ DOMAIN results \subseteq arms
      /\ own = [k \in DOMAIN own |-> own[k]]
      /\ results = [n \in DOMAIN results |-> results[n]]
      /\ DOMAIN own \subseteq {Plain(n) : n \in Name}
  BY DEF Staging
<1>2. /\ task.arms = arms /\ task.collect = collect
      /\ task.ctx = [k \in DOMAIN own \cup keys |-> IF k \in keys THEN results[k[3]] ELSE own[k]]
  BY <1>1 DEF TaskFor, CombineTask, ScratchKey
<1>3. \A n : Arm(n) \notin DOMAIN own
  BY <1>1, Keys
<1>4. \A n : Arm(n) \in keys <=> n \in DOMAIN results
  BY DEF Arm
<1>5. {n \in task.arms : Arm(n) \in DOMAIN task.ctx} = DOMAIN results
  <2>1. DOMAIN task.ctx = DOMAIN own \cup keys
    BY <1>2
  <2> HIDE DEF task, keys
  <2> QED
    BY <1>1, <1>2, <1>3, <1>4, <2>1
<1>6. DOMAIN scratch = DOMAIN results /\ \A n \in DOMAIN results : scratch[n] = Arm(n)
  BY <1>5
<1>7. Place(task.ctx, scratch)
        = IF \E n \in DOMAIN results : Plain(n) \in DOMAIN own THEN Refused
          ELSE [outcome |-> "combine", ctx |-> Over(results, own), base |-> own, results |-> results]
  <2>1. DOMAIN task.ctx = DOMAIN own \cup {scratch[n] : n \in DOMAIN scratch}
    <3>1. {scratch[n] : n \in DOMAIN scratch} = keys
      BY <1>6
    <3>2. DOMAIN task.ctx = DOMAIN own \cup keys
      BY <1>2
    <3> QED
      BY <3>1, <3>2
  <2>2. \A k \in DOMAIN own : task.ctx[k] = own[k]
    BY <1>2, <1>3
  <2>3. ASSUME NEW n \in DOMAIN scratch PROVE task.ctx[scratch[n]] = results[n]
    <3>1. scratch[n] = Arm(n) /\ Arm(n) \in keys /\ Arm(n)[3] = n
      BY <1>6 DEF Arm
    <3> QED
      BY <1>2, <3>1
  <2> HIDE DEF scratch, task
  <2> QED
    BY <1>1, <1>3, <1>6, <2>1, <2>2, <2>3, PlaceTakesOut
<1>8. Unstage(task) = Place(task.ctx, scratch)
  BY <1>2 DEF Unstage, UnstageArms, IsMerge
<1>9. IsCombineTask(arms, collect) /\ collect[1] # "spawn"
  BY <1>1 DEF IsCombineTask, NoCollection
<1>10. \A k \in DOMAIN own : k = Plain(k[3])
  BY <1>1, Keys
<1>11. DOMAIN results \subseteq ResultNames(arms, collect)
  BY <1>1 DEF ResultNames
<1> QED
  BY <1>7, <1>8, <1>9, <1>10, <1>11, PlaceSeesBoth

(* The combine of a collection: that of a forEach is placed, that of created *)
(* branches only handed over.                                                *)
LEMMA CollectionsSeeBoth ==
  ASSUME NEW Name, NEW own, NEW results, NEW arms, NEW collect,
         Staging(Name, own, results, arms, collect), arms = {}, collect # NoCollection
  PROVE  SeesBoth(Unstage(TaskFor(own, results, arms, collect)), own, results, arms, collect)
<1> DEFINE task == TaskFor(own, results, arms, collect)
           key  == Collected(collect)
           keys == {key : n \in DOMAIN results}
           rest == Without(task.ctx, {StepsOf(collect)})
           scratch == [n \in {m \in {collect[2]} : key \in DOMAIN rest} |-> key]
<1>1. /\ collect \in {"forEach", "spawn"} \X Name /\ DOMAIN results \subseteq {collect[2]}
      /\ own = [k \in DOMAIN own |-> own[k]]
      /\ results = [n \in DOMAIN results |-> results[n]]
      /\ DOMAIN own \subseteq {Plain(n) : n \in Name}
  BY DEF Staging
<1>2. /\ task.arms = {} /\ task.collect = collect
      /\ task.ctx = [k \in DOMAIN own \cup keys \cup {StepsOf(collect)} |->
                       IF k \in keys THEN results[k[3]]
                       ELSE IF k \in {StepsOf(collect)} THEN "steps" ELSE own[k]]
  BY DEF TaskFor, CombineTask, ScratchKey
<1>3. key \notin DOMAIN own /\ StepsOf(collect) \notin DOMAIN own
  BY <1>1, Keys
<1>4. key # StepsOf(collect) /\ key[3] = collect[2]
  BY <1>1 DEF Collected, StepsOf
<1>5. \A k \in DOMAIN own : k = Plain(k[3])
  BY <1>1, Keys
<1>6. IsMerge(task) /\ IsCombineTask(arms, collect)
  BY <1>2 DEF IsMerge, IsCombineTask
<1>7. key \in DOMAIN task.ctx <=> collect[2] \in DOMAIN results
  BY <1>1, <1>2, <1>3, <1>4
<1>8. CASE collect[1] = "spawn"
  <2>1. Unstage(task)
          = [outcome |-> "combine", ctx |-> own, base |-> own, results |-> results]
    <3>1. Without(task.ctx, {key, StepsOf(collect)}) = own
      <4>1. DOMAIN task.ctx \ {key, StepsOf(collect)} = DOMAIN own
        BY <1>2, <1>3
      <4>2. Restrict(task.ctx, DOMAIN own) = [k \in DOMAIN own |-> own[k]]
        BY <1>2, <1>3 DEF Restrict
      <4> QED
        BY <1>1, <4>1, <4>2 DEF Without
    <3>2. {m \in {collect[2]} : key \in DOMAIN task.ctx} = DOMAIN results
      BY <1>1, <1>7
    <3>3. \A n \in DOMAIN results : task.ctx[key] = results[n]
      BY <1>1, <1>2, <1>4
    <3>4. [n \in {m \in {collect[2]} : key \in DOMAIN task.ctx} |-> task.ctx[key]] = results
      BY <1>1, <3>2, <3>3
    <3> QED
      BY <1>2, <1>6, <1>8, <3>1, <3>4 DEF Unstage, UnstageSpawned
  <2>2. InContext(results, collect) = {}
    BY <1>8 DEF InContext
  <2> HIDE DEF task
  <2>3. /\ Unstage(task).outcome = "combine" /\ Unstage(task).base = own
        /\ Unstage(task).results = results /\ Unstage(task).ctx = own
    BY <2>1
  <2>4. Unstage(task) # Refused
    BY <2>3 DEF Refused
  <2>5. IsCombineTask(arms, collect)
    BY <1>6
  <2>6. SeesBoth(Unstage(task), own, results, arms, collect)
    BY <2>2, <2>3, <2>4, <2>5 DEF SeesBoth
  <2> QED
    BY <2>6 DEF task
<1>9. CASE collect[1] # "spawn"
  <2>1. /\ DOMAIN rest = DOMAIN own \cup keys
        /\ \A k \in DOMAIN rest : rest[k] = IF k \in keys THEN results[k[3]] ELSE own[k]
    <3>1. DOMAIN task.ctx \ {StepsOf(collect)} = DOMAIN own \cup keys
      BY <1>2, <1>3, <1>4
    <3> QED
      BY <1>2, <1>4, <3>1 DEF Without, Restrict
  <2>2. {m \in {collect[2]} : key \in DOMAIN rest} = DOMAIN results
    BY <1>1, <1>3, <2>1
  <2>3. DOMAIN scratch = DOMAIN results /\ \A n \in DOMAIN results : scratch[n] = key
    BY <2>2
  <2>4. Place(rest, scratch)
          = IF \E n \in DOMAIN results : Plain(n) \in DOMAIN own THEN Refused
            ELSE [outcome |-> "combine", ctx |-> Over(results, own), base |-> own, results |-> results]
    <3>1. DOMAIN rest = DOMAIN own \cup {scratch[n] : n \in DOMAIN scratch}
      BY <2>1, <2>3
    <3>2. \A k \in DOMAIN own : rest[k] = own[k]
      BY <1>3, <2>1
    <3>3. \A n \in DOMAIN scratch : rest[scratch[n]] = results[n]
      BY <1>1, <1>4, <2>1, <2>3
    <3>4. \A n \in DOMAIN scratch : scratch[n] \notin DOMAIN own
      BY <1>3, <2>3
    <3> HIDE DEF scratch, rest, task
    <3> QED
      BY <1>1, <2>3, <3>1, <3>2, <3>3, <3>4, PlaceTakesOut
  <2>5. Unstage(task) = Place(rest, scratch)
    BY <1>2, <1>6, <1>9 DEF Unstage, UnstageItems
  <2> HIDE DEF scratch, rest, task
  <2>6. Unstage(task)
          = IF \E n \in DOMAIN results : Plain(n) \in DOMAIN own THEN Refused
            ELSE [outcome |-> "combine", ctx |-> Over(results, own), base |-> own, results |-> results]
    BY <2>4, <2>5, Zenon
  <2>7. IsCombineTask(arms, collect)
    BY <1>6
  <2>8. DOMAIN results \subseteq ResultNames(arms, collect)
    BY <1>1, <1>9 DEF ResultNames
  <2>9. SeesBoth(Unstage(task), own, results, arms, collect)
    BY <1>5, <1>9, <2>6, <2>7, <2>8, PlaceSeesBoth, Zenon
  <2> QED
    BY <2>9 DEF task
<1> QED
  BY <1>8, <1>9

(* For every workflow context, names and results: a handler gets the context *)
(* untouched and every result, nothing staged is left behind, and what is    *)
(* refused has a name that is also the key of something else (unstage).      *)
THEOREM CombineHandsOverBoth ==
  ASSUME NEW Name, NEW own, NEW results, NEW arms, NEW collect,
         Staging(Name, own, results, arms, collect)
  PROVE  SeesBoth(Unstage(TaskFor(own, results, arms, collect)), own, results, arms, collect)
<1>1. CASE arms = {} /\ collect = NoCollection
  <2> DEFINE task == TaskFor(own, results, arms, collect)
  <2>1. DOMAIN results = {} /\ own = [k \in DOMAIN own |-> own[k]]
    BY <1>1 DEF Staging, NoCollection
  <2>2. task.arms = {} /\ task.collect = NoCollection /\ task.ctx = own
    BY <1>1, <2>1 DEF TaskFor, CombineTask
  <2>3. Unstage(task) = [outcome |-> "step", ctx |-> own]
    BY <2>2 DEF Unstage, IsMerge
  <2>4. ~IsCombineTask(arms, collect)
    BY <1>1 DEF IsCombineTask
  <2> HIDE DEF task
  <2>5. Unstage(task).outcome = "step" /\ Unstage(task).ctx = own
    BY <2>3
  <2>6. Unstage(task) # Refused
    BY <2>5 DEF Refused
  <2>7. SeesBoth(Unstage(task), own, results, arms, collect)
    BY <2>4, <2>5, <2>6 DEF SeesBoth
  <2> QED
    BY <2>7 DEF task
<1>2. CASE arms # {}
  BY <1>2, ArmsSeeBoth
<1>3. CASE arms = {} /\ collect # NoCollection
  BY <1>3, CollectionsSeeBoth
<1> QED
  BY <1>1, <1>2, <1>3

(* Whatever combine the engine hands out, its handler gets each result it    *)
(* merges and the context untouched (execute, unstage).                      *)
THEOREM HandlersSeeBoth == ASSUME NEW Name PROVE CombineSpec(Name) => []CombineSeesBoth
<1> DEFINE Calls == /\ input.of = "merge"
                    /\ Staging(Name, input.own, input.results, input.arms, input.collect)
                    /\ output.of \in {"nothing", "merge"}
                    /\ CombineSeesBoth
           Starts == /\ input.of = "merge"
                     /\ Staging(Name, input.own, input.results, input.arms, input.collect)
                     /\ output = Nothing
<1>1. Starts => Calls
  BY DEF Nothing, CombineSeesBoth
<1>2. Calls /\ [HandOver]_<<input, output>> => Calls'
  <2> SUFFICES ASSUME Calls, [HandOver]_<<input, output>> PROVE Calls'
    OBVIOUS
  <2>1. CASE HandOver
    <3>1. /\ output'.of = "merge" /\ input' = input
          /\ output'.given = Unstage(TaskFor(input.own, input.results, input.arms, input.collect))
      BY <2>1 DEF HandOver
    <3>2. SeesBoth(output'.given, input.own, input.results, input.arms, input.collect)
      BY <3>1, CombineHandsOverBoth, Zenon
    <3> QED
      BY <3>1, <3>2 DEF CombineSeesBoth
  <2>2. CASE UNCHANGED <<input, output>>
    BY <2>2 DEF CombineSeesBoth
  <2> QED
    BY <2>1, <2>2
<1>3. Calls => CombineSeesBoth
  OBVIOUS
<1> QED
  BY <1>1, <1>2, <1>3, PTL DEF CombineSpec

----------------------------------------------------------------------------
(* The server's answers (AnswersMeaning). *)

(* The worker finds its own run in an answer that says anything of others. *)
LEMMA OutcomeFound ==
  ASSUME NEW answer, answer.of = "fates", Tellable(answer),
         AbsentIsApart
  PROVE  Read(answer) = Given(answer)
<1> DEFINE told == answer.fates
           msg == Told(answer)
           mine == {i \in DOMAIN msg.results : msg.results[i].task_id = "t"}
<1>1. /\ told \in Seq(Range(told))
      /\ \A i \in DOMAIN told : told[i].fate.refused \in BOOLEAN /\ IsFate(told[i].fate)
      /\ \A i, j \in DOMAIN told : i # j => told[i].task # told[j].task
  BY DEF Tellable
<1>2. PICK n \in Nat : DOMAIN told = 1..n
  <2> HIDE DEF told
  <2>1. Len(told) \in Nat /\ DOMAIN told = 1..Len(told)
    BY <1>1
  <2> QED
    BY <2>1
<1>3. msg.results = [i \in DOMAIN told |-> Outcome(told[i].task, told[i].fate)]
  BY DEF Told, ReportStepsResult
<1> HIDE DEF told, msg
<1>4. mine = {i \in DOMAIN told : told[i].task = "t"}
  <2>1. \A task, fate : Outcome(task, fate).task_id = task
    BY DEF Outcome, RunOutcome
  <2>3. \A i \in DOMAIN told : msg.results[i].task_id = told[i].task
    BY <1>3, <2>1
  <2>2. DOMAIN msg.results = DOMAIN told
    BY <1>3
  <2> QED
    BY <2>2, <2>3
<1>5. Read(answer) = ReportAnswer("t", msg)
  BY DEF Read, msg
<1>6. CASE mine = {}
  <2>1. Read(answer) = RefusedWith(500)
    BY <1>5, <1>6 DEF ReportAnswer
  <2>2. Given(answer) = [refused |-> TRUE, code |-> 500]
    BY <1>4, <1>6 DEF Given, told
  <2> QED
    BY <2>1, <2>2 DEF RefusedWith
<1>7. CASE mine # {}
  <2>1. PICK k \in mine : mine = {k}
    BY <1>1, <1>4, <1>7
  <2>2. (CHOOSE i \in mine : \A j \in mine : i <= j) = k
    <3>1. k \in Nat
      BY <1>2, <1>4, <2>1
    <3>2. k <= k
      BY <3>1
    <3> HIDE DEF mine
    <3> QED
      BY <2>1, <3>2
  <2>3. (CHOOSE i \in DOMAIN told : told[i].task = "t") = k
    BY <1>4, <2>1
  <2>4. Given(answer) = told[k].fate
    BY <1>4, <2>1, <2>3 DEF Given, told
  <2>5. msg.results[k] = Outcome("t", told[k].fate)
    BY <1>3, <1>4, <2>1
  <2> DEFINE r == msg.results[k]
  <2>6. Read(answer) = IF r.error_status # 0 \/ ~Has(r.applied) THEN RefusedWith(r.error_status)
                       ELSE [refused |-> FALSE, status |-> r.applied.instance_status,
                             next |-> r.applied.next_task_id]
    BY <1>5, <1>7, <2>2 DEF ReportAnswer
  <2>7. told[k].fate.refused \in BOOLEAN /\ IsFate(told[k].fate)
    BY <1>1, <1>4, <2>1
  <2> DEFINE fate == told[k].fate
  <2> HIDE DEF fate, r
  <2>8. r = Outcome("t", fate)
    BY <2>5 DEF r, fate
  <2>9. CASE fate.refused
    <3>1. ~Has(r.applied) /\ r.error_status = fate.code
      BY <2>8, <2>9 DEF Outcome, RunOutcome, Has
    <3>2. fate = [refused |-> TRUE, code |-> fate.code]
      BY <2>7, <2>9 DEF IsFate, fate
    <3> QED
      BY <2>4, <2>6, <3>1, <3>2 DEF RefusedWith, fate, r
  <2>10. CASE ~fate.refused
    <3>1. /\ r.error_status = 0
          /\ r.applied = [RunApplied EXCEPT !.instance_status = fate.status, !.next_task_id = fate.next]
      BY <2>8, <2>10 DEF Outcome, RunOutcome
    <3>2. Has(r.applied) /\ r.applied.instance_status = fate.status /\ r.applied.next_task_id = fate.next
      <4>a. [RunApplied EXCEPT !.instance_status = fate.status, !.next_task_id = fate.next] # Unset
        BY Zenon DEF AbsentIsApart
      <4>1. Has(r.applied)
        BY <3>1, <4>a, Zenon DEF Has
      <4> QED
        BY <3>1, <4>1 DEF RunApplied
    <3>3. fate = [refused |-> FALSE, status |-> fate.status, next |-> fate.next]
      BY <2>7, <2>10 DEF IsFate, fate
    <3> QED
      BY <2>4, <2>6, <3>1, <3>2, <3>3 DEF fate, r
  <2> QED
    BY <2>7, <2>9, <2>10 DEF fate
<1> QED
  BY <1>6, <1>7

(* A task and an instance are read as they are told, a value as what it is. *)
LEMMA ValuesRead ==
  ASSUME NEW answer, answer.of \in {"task", "instance"}, Tellable(answer),
         AbsentIsApart
  PROVE  Read(answer) = Given(answer)
<1> DEFINE msg == Told(answer)
<1>1. \A v \in WireValues : FromValue(v) = InGo(v)
  BY DEF AbsentIsApart, FromValue, InGo, Has, WireValues
<1>2. \A v \in Maps : v \in WireValues /\ FromValue(v) = v /\ AsMap(v) = v
  BY DEF AbsentIsApart, FromValue, Has, WireValues, Maps, AsMap, IsMap
<1>3. CASE answer.of = "task"
  <2>1. /\ answer.item \in BOOLEAN /\ answer.base \in Maps
        /\ answer.value \in IF answer.item THEN WireValues ELSE Maps
    BY <1>3 DEF Tellable
  <2>2. msg.context = answer.value /\ msg.base_context = IF answer.item THEN answer.base ELSE Unset
    BY <1>3 DEF Told, TaskActivation
  <2>3. Read(answer) = Arguments(Task(msg))
    BY <1>3 DEF Read
  <2> HIDE DEF msg
  <2>4. CASE answer.item
    <3>a. msg.base_context # Unset /\ AsMap(FromValue(msg.base_context)) = answer.base
      BY <1>2, <2>1, <2>2, <2>4 DEF AbsentIsApart
    <3>b. FromValue(msg.context) = InGo(answer.value)
      BY <1>1, <2>1, <2>2, <2>4
    <3>1. Task(msg).isItem /\ Task(msg).base = answer.base /\ Task(msg).raw = InGo(answer.value)
      BY <3>a, <3>b DEF Task, Has
    <3> QED
      BY <1>3, <2>3, <2>4, <3>1 DEF Arguments, Given
  <2>5. CASE ~answer.item
    <3>1. ~Task(msg).isItem /\ Task(msg).context = answer.value
      BY <1>2, <2>1, <2>2, <2>5 DEF Task, Has
    <3> QED
      BY <1>3, <2>3, <2>5, <3>1 DEF Arguments, Given
  <2> QED
    BY <2>1, <2>4, <2>5
<1>4. CASE answer.of = "instance"
  <2>1. answer.is \in BOOLEAN /\ answer.value \in Maps
    BY <1>4 DEF Tellable
  <2>2. msg.instance = IF answer.is
                       THEN [InstanceView EXCEPT !.status = answer.status, !.context = answer.value]
                       ELSE Unset
    BY <1>4 DEF Told, InstanceDetail
  <2>3. Read(answer) = InstanceOf(msg)
    BY <1>4 DEF Read
  <2> HIDE DEF msg
  <2>4. CASE answer.is
    <3>a. [InstanceView EXCEPT !.status = answer.status, !.context = answer.value] # Unset
      BY Zenon DEF AbsentIsApart
    <3>1. Has(msg.instance)
      BY <2>2, <2>4, <3>a, Zenon DEF Has
    <3>2. /\ msg.instance.status = answer.status /\ msg.instance.context = answer.value
          /\ msg.instance.termination_reason = Unset
      BY <2>2, <2>4 DEF InstanceView
    <3> QED
      BY <1>2, <1>4, <2>1, <2>3, <2>4, <3>1, <3>2 DEF InstanceOf, Given, Has
  <2>5. CASE ~answer.is
    BY <1>4, <2>2, <2>3, <2>5 DEF InstanceOf, Given, Has
  <2> QED
    BY <2>1, <2>4, <2>5
<1> QED
  BY <1>3, <1>4

(* Whatever the server tells, however many runs it answers for, the caller   *)
(* reads its own (ReportSteps, poll, instanceView).  An absent field is      *)
(* neither a value nor a message.                                            *)
THEOREM AnswersReachTheCaller ==
  ASSUME AbsentIsApart
  PROVE  AnswerSpec => []AnswersReadAsGiven
<1> DEFINE Answered == /\ Tellable(input.answer)
                       /\ output.of \in {"nothing", "answer"}
                       /\ AnswersReadAsGiven
           Starts == input.of = "answer" /\ Tellable(input.answer) /\ output = Nothing
<1>1. Starts => Answered
  BY DEF Nothing, AnswersReadAsGiven
<1>2. Answered /\ [Receive]_<<input, output>> => Answered'
  <2> SUFFICES ASSUME Answered, [Receive]_<<input, output>> PROVE Answered'
    OBVIOUS
  <2>1. CASE Receive
    <3>1. output'.of = "answer" /\ input' = input /\ output'.value = Read(input.answer)
      BY <2>1 DEF Receive
    <3>2. input.answer.of \in {"fates", "task", "instance"}
      BY DEF Tellable
    <3>3. Read(input.answer) = Given(input.answer)
      BY <3>2, OutcomeFound, ValuesRead
    <3> QED
      BY <3>1, <3>3 DEF AnswersReadAsGiven
  <2>2. CASE UNCHANGED <<input, output>>
    BY <2>2 DEF AnswersReadAsGiven
  <2> QED
    BY <2>1, <2>2
<1>3. Answered => AnswersReadAsGiven
  OBVIOUS
<1> QED
  BY <1>1, <1>2, <1>3, PTL DEF AnswerSpec

----------------------------------------------------------------------------
(* Comparisons. *)

(* For every limit of In, field, operator and number of literals: the client *)
(* takes a comparison just when the server has a type of value for it        *)
(* (validateComparison).                                                     *)
THEOREM ComparisonsAreComparable ==
  ASSUME NEW c, c.field \in {"workflow", "step", "version", "attr", "badattr"},
         c.op \in Ops \cup {"OTHER"},
         c.args \in Seq({"text", "longtext", "int64", "decimal", "baddecimal", "bool", "int", "float"})
  PROVE  ComparisonOk(c) <=> Comparable(c)
<1> DEFINE type == TypeOfField(c.field)
           Literals == {"text", "longtext", "int64", "decimal", "baddecimal", "bool", "int", "float"}
           used == {c.args[i] : i \in DOMAIN c.args}
           kinds == {Kind(type, c.args[i]) : i \in DOMAIN c.args}
           n == Len(c.args)
<1>1. kinds = {Kind(type, l) : l \in used}
  OBVIOUS
<1>2. used \subseteq Literals
  OBVIOUS
<1>3. n \in Nat /\ (used = {} <=> n = 0)
  <2>1. n \in Nat /\ DOMAIN c.args = 1..n
    BY LenProperties, Zenon
  <2>2. used = {} <=> DOMAIN c.args = {}
    OBVIOUS
  <2> HIDE DEF n, used
  <2> QED
    BY <2>1, <2>2
<1>4. ComparisonOk(c) <=>
        /\ c.field # "badattr" /\ c.op \in Ops /\ n \in Arity(c.op)
        /\ c.field = "step" => c.op \in {"EQUAL", "IN"}
        /\ ~(c.op = "LIKE" /\ type = "INTEGER")
        /\ "none" \notin kinds
        /\ type = "TEXT" => kinds \subseteq {"text"}
        /\ type = "INTEGER" => kinds \subseteq {"integer"}
        /\ type = "ANY" =>
             /\ \A k, l \in kinds : k = l
             /\ c.op = "LIKE" => "text" \in kinds
             /\ "flag" \in kinds => c.op \notin ordering \cup {"LIKE"}
  BY DEF ComparisonOk
<1>5. Comparable(c) <=> \E t \in TypesOf(c.field) :
        c.op \in OpsOf(c.field, t) /\ used \subseteq LiteralsOf(t) /\ n \in Arity(c.op)
  BY DEF Comparable
<1>6. n \in Arity(c.op) => (n = 0 <=> c.op = "IS_NULL")
  <2> HIDE DEF n
  <2> QED
    BY <1>3 DEF Arity, Ops
<1> HIDE DEF used, kinds, n
<1>7. CASE c.field \in {"workflow", "step"}
  <2>1. type = "TEXT" /\ TypesOf(c.field) = {"text"}
    BY <1>7 DEF TypeOfField, TypesOf
  <2>a. \A l \in Literals : Kind("TEXT", l) = "text" <=> l = "text"
    BY DEF Kind
  <2>2. /\ kinds \subseteq {"text"} <=> used \subseteq {"text"}
        /\ kinds \subseteq {"text"} => "none" \notin kinds
    BY <1>1, <1>2, <2>1, <2>a
  <2> HIDE DEF type
  <2>3. ComparisonOk(c) <=>
          /\ c.op \in Ops /\ n \in Arity(c.op)
          /\ c.field = "step" => c.op \in {"EQUAL", "IN"}
          /\ used \subseteq {"text"}
    BY <1>4, <1>7, <2>1, <2>2
  <2>4. Comparable(c) <=>
          /\ c.op \in OpsOf(c.field, "text") /\ used \subseteq {"text"} /\ n \in Arity(c.op)
    BY <1>5, <2>1 DEF LiteralsOf
  <2>5. OpsOf(c.field, "text") = IF c.field = "step" THEN {"EQUAL", "IN"} ELSE Ops
    BY DEF OpsOf
  <2> QED
    BY <1>7, <2>3, <2>4, <2>5 DEF Ops
<1>8. CASE c.field = "version"
  <2>1. type = "INTEGER" /\ TypesOf(c.field) = {"integer"}
    BY <1>8 DEF TypeOfField, TypesOf
  <2>a. \A l \in Literals : Kind("INTEGER", l) = "integer" <=> l = "int64"
    BY DEF Kind
  <2>2. /\ kinds \subseteq {"integer"} <=> used \subseteq {"int64"}
        /\ kinds \subseteq {"integer"} => "none" \notin kinds
    BY <1>1, <1>2, <2>1, <2>a
  <2> HIDE DEF type
  <2> QED
    BY <1>4, <1>5, <1>8, <2>1, <2>2 DEF OpsOf, LiteralsOf, Ops
<1>9. CASE c.field = "attr"
  <2>1. type = "ANY" /\ TypesOf(c.field) = {"text", "number", "flag"}
    BY <1>9 DEF TypeOfField, TypesOf
  <2>2. /\ "none" \in kinds <=> ~(used \subseteq {"text", "int64", "decimal", "bool"})
        /\ "text" \in kinds <=> "text" \in used
        /\ "flag" \in kinds <=> "bool" \in used
        /\ "number" \in kinds <=> "int64" \in used \/ "decimal" \in used
        /\ kinds \subseteq {"none", "text", "number", "flag"}
    BY <1>1, <1>2, <2>1 DEF Kind
  <2> HIDE DEF type
  <2>3. ComparisonOk(c) <=>
          /\ c.op \in Ops /\ n \in Arity(c.op)
          /\ \/ used \subseteq {"text"} /\ (c.op = "LIKE" => used # {})
             \/ used \subseteq {"int64", "decimal"} /\ c.op # "LIKE"
             \/ used \subseteq {"bool"} /\ c.op # "LIKE" /\ (used # {} => c.op \notin ordering)
    BY <1>4, <1>9, <2>1, <2>2
  <2>4. Comparable(c) <=>
          /\ n \in Arity(c.op)
          /\ \/ c.op \in Ops /\ used \subseteq {"text"}
             \/ c.op \in Ops \ {"LIKE"} /\ used \subseteq {"int64", "decimal"}
             \/ c.op \in {"EQUAL", "IN", "IS_NULL"} /\ used \subseteq {"bool"}
    BY <1>5, <1>9, <2>1 DEF OpsOf, LiteralsOf
  <2> QED
    BY <1>3, <1>6, <2>3, <2>4 DEF Ops, ordering
<1>10. CASE c.field = "badattr"
  BY <1>4, <1>5, <1>10 DEF TypesOf
<1> QED
  BY <1>7, <1>8, <1>9, <1>10

----------------------------------------------------------------------------
(* The graph of a flow (GraphShape): what the compiler keeps true of the graph
   and of its builders while it builds. *)

(* A record that is a node, and one that is a builder. *)
IsNode(n) ==
  n = [kind |-> n.kind, name |-> n.name, next |-> n.next, alt |-> n.alt, branches |-> n.branches,
       expected |-> n.expected, arms |-> n.arms, collect |-> n.collect, timeout |-> n.timeout]
NodeIs(n, kind, next, alt) ==
  IsNode(n) /\ n.kind = kind /\ n.next = next /\ n.alt = alt /\ n.branches = <<>>
IsBuilder(b) ==
  b = [todo |-> b.todo, join |-> b.join, open |-> b.open, start |-> b.start, id |-> b.id,
       starts |-> b.starts]

(* The edges of a node that have no target, and those of them it needs. *)
Edges == {"next", "alt", "branches"}
Missing(n, e) ==
  \/ e = "next" /\ n.next = 0
  \/ e = "alt" /\ n.alt = 0
  \/ e = "branches" /\ n.branches = <<>>
Same(n, m, e) ==
  \/ e = "next" /\ n.next = m.next
  \/ e = "alt" /\ n.alt = m.alt
  \/ e = "branches" /\ n.branches = m.branches
Lacks(n, e) ==
  \/ e = "next" /\ n.kind \notin {"END", "FORK"} /\ n.next = 0
  \/ e = "alt" /\ n.kind = "PREDICATE" /\ n.alt = 0
  \/ e = "branches" /\ n.kind = "FORK" /\ ~(Len(n.branches) >= 2)
  \/ e = "branches" /\ n.kind = "DYN_FORK" /\ ~(Len(n.branches) = 1)

(* What the step n, whose nodes begin at a place that is "at" nodes before this
   one, will still do to its edge e when "built" of its chains are built. *)
Due(n, at, e, built) ==
  \/ n.kind = "signal" /\ at = 0 /\ e \in {"next", "alt"}
  \/ n.kind = "fork" /\ ((at = 0 /\ e = "branches") \/ (at = 1 /\ e = "next"))
  \/ n.kind = "each" /\ ((at = 0 /\ e \in {"branches", "next"}) \/ (at = 1 /\ e = "next"))
  \/ n.kind = "choose" /\ ((at \in built .. Guards(n) - 1 /\ e = "next") \/ (at = Guards(n) - 1 /\ e = "alt"))

Owing(b, i, e) == b.id # 0 /\ Due(Head(b.todo), i - b.id, e, Len(b.starts))
Owes(b, i, e) == <<i, e>> \in b.open \/ Owing(b, i, e)

(* The join of the parallel step the builder waits in. *)
Pending(b, i) == b.id # 0 /\ Head(b.todo).kind \in {"fork", "each"} /\ i = b.id + 1

(* The nodes the builder's step already hangs on. *)
Hooked(b, i) ==
  /\ b.id # 0
  /\ i = b.id \/ (Head(b.todo).kind = "choose" /\ i - b.id \in 0 .. Guards(Head(b.todo)) - 1)

(* The set has the starts of what the builder and its fork have built. *)
Begun(b, S) ==
  /\ b.start # 0 => b.start \in S
  /\ b.id # 0 /\ Head(b.todo).kind = "fork" => Range(b.starts) \subseteq S

(* The builder's step begins with a node of its kind. *)
Rooted(ns, b) ==
  \/ b.id = 0
  \/ /\ Head(b.todo).kind = "fork" => ns[b.id].kind = "FORK"
     /\ Head(b.todo).kind = "each" => ns[b.id].kind = "DYN_FORK"

(* A set no edge leads out of. *)
EdgeClosed(ns, S) ==
  \A i \in DOMAIN ns :
    i \in S =>
      /\ ns[i].next # 0 => ns[i].next \in S
      /\ ns[i].alt # 0 => ns[i].alt \in S
      /\ \A j \in DOMAIN ns[i].branches : ns[i].branches[j] \in S

NodeWithin(n, max) ==
  IsNode(n) /\ n.next \in 0 .. max /\ n.alt \in 0 .. max /\ n.branches \in Seq(1 .. max)

GraphOK(ns) == ns \in Seq(Range(ns)) /\ \A i \in DOMAIN ns : NodeWithin(ns[i], Len(ns))

LevelOK(Steps, ns, b) ==
  /\ IsBuilder(b)
  /\ b.todo \in Seq(Steps)
  /\ b.join \in 0 .. Len(ns) /\ b.start \in 0 .. Len(ns) /\ b.id \in 0 .. Len(ns)
  /\ b.starts \in Seq(1 .. Len(ns))
  /\ Rooted(ns, b)
  /\ b.open \subseteq (DOMAIN ns) \X {"next", "alt"}
  /\ \A i \in Int, e \in Edges : Owes(b, i, e) => i \in DOMAIN ns /\ Missing(ns[i], e)
  /\ \A i \in Int, e \in Edges : ~(<<i, e>> \in b.open /\ Owing(b, i, e))
  /\ \A S : EdgeClosed(ns, S) /\ b.start \in S /\ b.start # 0 =>
       \A i \in Int : Hooked(b, i) \/ (\E e \in Edges : <<i, e>> \in b.open) => i \in S

(* A builder at work, and one that waits, with the builder above it. *)
AtWork(b) == b.id = 0 /\ b.starts = <<>> /\ (b.start = 0 <=> b.open = {})
Waiting(b, above) ==
  LET n == Head(b.todo) IN
  /\ b.todo # <<>> /\ ~Malformed(n)
  /\ n.kind \in {"signal", "fork", "each", "choose", "loop"}
  /\ n.kind = "loop" => AtWork(b)
  /\ n.kind # "loop" => b.id # 0 /\ b.start # 0
  /\ n.kind \in {"signal", "fork", "each"} => b.open = {}
  /\ n.kind \in {"signal", "each"} => b.starts = <<>>
  /\ n.kind \in {"fork", "each"} => above.join = b.id + 1
  /\ n.kind = "fork" => Len(b.starts) < Len(n.arms)
  /\ n.kind = "choose" => Len(b.starts) < Len(n.cases)

Levels(Steps, ns, bs) ==
  /\ bs \in Seq(Range(bs)) /\ bs # <<>>
  /\ \A k \in DOMAIN bs : LevelOK(Steps, ns, bs[k])
  /\ AtWork(bs[Len(bs)])
  /\ \A k \in 1 .. Len(bs) - 1 : Waiting(bs[k], bs[k + 1])

(* A sequence of n elements, and a new builder. *)
Size(s, n) == s \in Seq(Range(s)) /\ Len(s) = n
Fresh(Steps, ns, b) == \E steps \in Seq(Steps), join \in 0 .. Len(ns) : b = Builder(steps, join)

(* ms is ns with the edges in "ends" set; it is the sequence ps, then new. *)
Sets(ns, ends, target, ms) ==
  \A i \in DOMAIN ns :
    /\ IsNode(ms[i]) /\ ms[i].kind = ns[i].kind /\ ms[i].branches = ns[i].branches
    /\ <<i, "next">> \in ends => ms[i].next = target
    /\ <<i, "next">> \notin ends => ms[i].next = ns[i].next
    /\ <<i, "alt">> \in ends => ms[i].alt = target
    /\ <<i, "alt">> \notin ends => ms[i].alt = ns[i].alt
Joins(ps, N, new, L, ms) ==
  /\ Size(ms, N + L)
  /\ \A i \in 1 .. N : ms[i] = ps[i]
  /\ \A j \in 1 .. L : ms[N + j] = new[j]

Longer(ns, ends, target, new, ms) == ms = Wire(ns, ends, target) \o new
Tops(ps, N, x, ms) ==
  Size(ms, N + 1) /\ (\A i \in 1 .. N : ms[i] = ps[i]) /\ ms[N + 1] = x

(* The stack cs is that of the lowest m builders, with d for the last of them,
   and with a new one on it. *)
Lower(m, d, cs) == cs = Upto(m, d)
Higher(m, d, steps, join, cs) == cs = Append(Upto(m, d), Builder(steps, join))

(* Nothing of the stack bs changes below m, and the builder m becomes d, which
   is at work or waits for a new one. *)
StackAs(Steps, ms, bs, cs, m, d) ==
  /\ \/ Size(cs, m) /\ AtWork(d)
     \/ Size(cs, m + 1) /\ Waiting(d, cs[m + 1]) /\ Fresh(Steps, ms, cs[m + 1])
  /\ \A k \in 1 .. m - 1 : cs[k] = bs[k]
  /\ cs[m] = d

(* No two builders have an edge to set. *)
Apart(bs) ==
  \A j, k \in DOMAIN bs : j # k =>
    \A i \in Int, e \in Edges : ~(Owes(bs[j], i, e) /\ Owes(bs[k], i, e))

(* From the nodes of S the new ones, the first at the place N + 1, lead into S. *)
Led(new, N, S) ==
  \A j \in DOMAIN new :
    N + j \in S =>
      /\ new[j].next # 0 => new[j].next \in S
      /\ new[j].alt # 0 => new[j].alt \in S

(* What a node lacks, a builder will set. *)
Owed(ns, bs) ==
  \A i \in DOMAIN ns, e \in Edges : Lacks(ns[i], e) => \E k \in DOMAIN bs : Owes(bs[k], i, e)

(* Every node hangs on a start, a join that waits for its arms excepted. *)
Reached(ns, bs) ==
  \A S : EdgeClosed(ns, S) /\ (\A k \in DOMAIN bs : Begun(bs[k], S)) =>
    \A i \in DOMAIN ns : i \in S \/ \E j \in DOMAIN bs : Pending(bs[j], i)

Good(Steps, ns, bs) ==
  GraphOK(ns) /\ Levels(Steps, ns, bs) /\ Apart(bs) /\ Owed(ns, bs) /\ Reached(ns, bs)

(* The graph ms has the edges of ns, and may have more of them and more nodes. *)
Grows(ns, ms) ==
  /\ Len(ns) <= Len(ms)
  /\ \A i \in DOMAIN ns :
       /\ ms[i].kind = ns[i].kind
       /\ \A e \in Edges : Missing(ns[i], e) \/ Same(ns[i], ms[i], e)

(* ms is the graph ns with L new nodes, the edges in "ends" led to a target. *)
Extension(ns, N, new, L, ends, target, ms) ==
  /\ Size(ms, N + L) /\ GraphOK(ms) /\ Grows(ns, ms)
  /\ \A i \in 1 .. N : /\ \A e \in Edges : Same(ns[i], ms[i], e) \/ <<i, e>> \in ends
                       /\ <<i, "next">> \in ends => ms[i].next = target
                       /\ <<i, "alt">> \in ends => ms[i].alt = target
                       /\ ms[i].kind = ns[i].kind
  /\ \A j \in 1 .. L : ms[N + j] = new[j]

(* A step of the compiler does something to the builder m, which becomes d, and
   to those above it, up to H, which are gone or replaced by a new one.  It sets
   no edges but those they have to set, *)
SetsTheirs(ns, ms, bs, m, H) ==
  \A i \in DOMAIN ns, e \in Edges : Same(ns[i], ms[i], e) \/ \E k \in m .. H : Owes(bs[k], i, e)
(* d has to set new ones and some of theirs, *)
OwesTheirs(ns, bs, d, m, H) ==
  \A i \in Int, e \in Edges :
    Owes(d, i, e) => i \notin DOMAIN ns \/ \E k \in m .. H : Owes(bs[k], i, e)
(* the others are set, *)
LacksNone(ns, ms, bs, d, m, H) ==
  \A i \in DOMAIN ms, e \in Edges :
    Lacks(ms[i], e) =>
      \/ Owes(d, i, e)
      \/ i \in DOMAIN ns /\ Lacks(ns[i], e) /\ \A k \in m .. H : ~Owes(bs[k], i, e)
(* and what began there, the new nodes and a join that is done hang on d. *)
HangsOn(ns, ms, bs, d, m, H) ==
  \A S : EdgeClosed(ms, S) /\ Begun(d, S) /\ (\A k \in 1 .. m - 1 : Begun(bs[k], S)) =>
    /\ \A k \in m .. H : Begun(bs[k], S)
    /\ \A i \in DOMAIN ms :
         \/ i \in S \/ Pending(d, i)
         \/ i \in DOMAIN ns /\ \A k \in m .. H : ~Pending(bs[k], i)

(* New nodes, and a builder b that becomes d with them: what d has to set is at
   the new nodes, it is all they lack, and they hang on the first of them. *)
NewNodes(new, N, L) == Size(new, L) /\ \A j \in 1 .. L : NodeWithin(new[j], N + L)
TakesUp(Steps, b, d, N, L) ==
  /\ IsBuilder(d) /\ d.todo \in Seq(Steps) /\ d.join = b.join /\ d.starts = <<>>
  /\ b.open = {} /\ b.start = 0 => d.start = N + 1
  /\ ~(b.open = {} /\ b.start = 0) => d.start = b.start
  /\ d.id \in 0 .. N + L /\ d.open \subseteq (N + 1 .. N + L) \X {"next", "alt"}
OwesNew(d, new, N, L) ==
  /\ \A i \in Int, e \in Edges : Owes(d, i, e) => i - N \in 1 .. L /\ Missing(new[i - N], e)
  /\ \A i \in Int, e \in Edges : ~(<<i, e>> \in d.open /\ Owing(d, i, e))
  /\ \A j \in 1 .. L, e \in Edges : Lacks(new[j], e) => Owes(d, N + j, e)
  /\ \/ d.id = 0
     \/ /\ d.id = N + 1
        /\ Head(d.todo).kind = "fork" => new[1].kind = "FORK"
        /\ Head(d.todo).kind = "each" => new[1].kind = "DYN_FORK"
HangsOnFirst(d, new, N, L) ==
  \A S : Led(new, N, S) /\ N + 1 \in S =>
    /\ \A i \in Int : Hooked(d, i) \/ (\E e \in Edges : <<i, e>> \in d.open) => i \in S
    /\ \A j \in 1 .. L : N + j \in S \/ Pending(d, N + j)

(* The new nodes of a step whose builder goes on from the ends in "open", and
   those of a step n whose chains are built next. *)
Onward(open, new, N, L) ==
  /\ open \subseteq (N + 1 .. N + L) \X {"next", "alt"} /\ open # {}
  /\ \A i \in Int, e \in Edges : <<i, e>> \in open => Missing(new[i - N], e)
  /\ \A j \in 1 .. L, e \in Edges : Lacks(new[j], e) => <<N + j, e>> \in open
  /\ \A S : Led(new, N, S) /\ N + 1 \in S => \A j \in 1 .. L : N + j \in S
Chained(n, new, N, L) ==
  /\ \A at \in Int, e \in Edges : Due(n, at, e, 0) => at + 1 \in 1 .. L /\ Missing(new[at + 1], e)
  /\ \A j \in 1 .. L, e \in Edges : Lacks(new[j], e) => Due(n, j - 1, e, 0)
  /\ \A S : Led(new, N, S) /\ N + 1 \in S =>
              \A j \in 1 .. L : N + j \in S \/ (n.kind \in {"fork", "each"} /\ j = 2)
  /\ n.kind = "choose" => L = Guards(n)
  /\ n.kind = "fork" => new[1].kind = "FORK"
  /\ n.kind = "each" => new[1].kind = "DYN_FORK"

(* When a chain is built, its builder x is gone and the one below it, b, becomes
   d: the step of b goes on, in the graph ms. *)
TakesOver(ns, ms, b, x, d) ==
  /\ \A i \in DOMAIN ns, e \in Edges : Same(ns[i], ms[i], e) \/ Owes(b, i, e) \/ <<i, e>> \in x.open
  /\ \A i \in Int, e \in Edges :
       Owes(d, i, e) => i \notin DOMAIN ns \/ Owes(b, i, e) \/ <<i, e>> \in x.open
  /\ \A i \in DOMAIN ms, e \in Edges :
       Lacks(ms[i], e) =>
         Owes(d, i, e) \/ (i \in DOMAIN ns /\ Lacks(ns[i], e) /\ ~Owes(b, i, e) /\ <<i, e>> \notin x.open)
  /\ \A S : EdgeClosed(ms, S) /\ Begun(d, S) =>
       /\ Begun(b, S) /\ x.start \in S
       /\ \A i \in DOMAIN ms : i \in S \/ Pending(d, i) \/ (i \in DOMAIN ns /\ ~Pending(b, i))

(* The graph ms is ns with the edges in "ends" led to a node. *)
Rewires(ns, ends, target, ms) ==
  /\ GraphOK(ms) /\ Grows(ns, ms) /\ Len(ms) = Len(ns) /\ DOMAIN ms = DOMAIN ns
  /\ \A i \in DOMAIN ns : /\ \A e \in Edges : Same(ns[i], ms[i], e) \/ <<i, e>> \in ends
                          /\ <<i, "next">> \in ends => ms[i].next = target
                          /\ <<i, "alt">> \in ends => ms[i].alt = target
                          /\ ms[i].kind = ns[i].kind

(* t is the sequence s of nodes with one more. *)
OneMore(N, s, v, t) ==
  /\ t \in Seq(1 .. N) /\ Len(t) = Len(s) + 1 /\ Len(s) \in Nat
  /\ Range(t) = Range(s) \cup {v} /\ DOMAIN t = 1 .. Len(t)
  /\ \A j \in DOMAIN t : t[j] \in Range(t)

(* The branches of a step are gathered: ms is ns with the step's edges set, the
   ends of the last branch led to the join, and the combine task after it. *)
Gathered(ns, N, b, x, kind, built, ms) ==
  /\ GraphOK(ms) /\ Grows(ns, ms) /\ Len(ms) = N + 1 /\ DOMAIN ms = 1 .. N + 1
  /\ NodeIs(ms[N + 1], "TASK", 0, 0)
  /\ \A i \in 1 .. N : /\ ms[i].kind = ns[i].kind
                       /\ \A e \in Edges : Same(ns[i], ms[i], e) \/ Owes(b, i, e) \/ <<i, e>> \in x.open
                       /\ <<i, "next">> \in x.open => ms[i].next = x.join
                       /\ <<i, "alt">> \in x.open => ms[i].alt = x.join
  /\ ms[b.id].branches = built /\ ms[x.join].next = N + 1
  /\ kind = "each" => ms[b.id].next = x.join

(* The nodes ps are those of ns with the edges of a parallel step set: a is its
   fork and j its join, v the starts of its branches and w its combine task. *)
ForkSet(ns, N, a, j, v, w, ps) ==
  /\ Size(ps, N)
  /\ \A i \in 1 .. N :
       /\ IsNode(ps[i]) /\ ps[i].alt = ns[i].alt
       /\ ps[i].kind = ns[i].kind /\ ps[i].name = ns[i].name
       /\ i = a => ps[i].branches = v
       /\ i # a => ps[i].branches = ns[i].branches
       /\ i = j => ps[i].next = w
       /\ i # j => ps[i].next = ns[i].next \/ (i = a /\ ps[i].next = j)
AsDynFork(ns, a, j, v, w, ps) ==
  ps = [ns EXCEPT ![a].branches = v, ![a].next = j, ![j].next = w]

(* The first builder has begun the flow, or has all of it before it. *)
Begins(bs) == bs[1].start # 0 \/ bs[1].todo = input.steps

(* A graph that is what it should be: each of its nodes has its edges, and a
   set of nodes with the start in it that no edge leads out of has all of them. *)
Whole(ns, start) ==
  /\ GraphOK(ns) /\ start \in DOMAIN ns
  /\ \A i \in DOMAIN ns : Wired(ns[i])
  /\ \A S : EdgeClosed(ns, S) /\ start \in S => DOMAIN ns \subseteq S

----------------------------------------------------------------------------
(* Nodes, sequences and edges. *)

(* A new node has no edges.                                                  *)
LEMMA NewNode ==
  ASSUME NEW kind, NEW name
  PROVE  /\ IsNode(Node(kind, name))
         /\ Node(kind, name).kind = kind /\ Node(kind, name).next = 0
         /\ Node(kind, name).alt = 0 /\ Node(kind, name).branches = <<>>
  BY DEF Node, IsNode

(* Setting a node's next leaves its other fields (wire, addJoin).            *)
LEMMA SetNext ==
  ASSUME NEW n, IsNode(n), NEW v
  PROVE  LET m == [n EXCEPT !.next = v] IN
         /\ IsNode(m) /\ m.next = v
         /\ m.kind = n.kind /\ m.name = n.name /\ m.alt = n.alt /\ m.branches = n.branches
  BY DEF IsNode

(* Setting a node's alt leaves its other fields (wire).                      *)
LEMMA SetAlt ==
  ASSUME NEW n, IsNode(n), NEW v
  PROVE  LET m == [n EXCEPT !.alt = v] IN
         /\ IsNode(m) /\ m.alt = v
         /\ m.kind = n.kind /\ m.name = n.name /\ m.next = n.next /\ m.branches = n.branches
  BY DEF IsNode

(* Setting a node's branches leaves its other fields (setBranches).          *)
LEMMA SetBranches ==
  ASSUME NEW n, IsNode(n), NEW v
  PROVE  LET m == [n EXCEPT !.branches = v] IN
         /\ IsNode(m) /\ m.branches = v
         /\ m.kind = n.kind /\ m.name = n.name /\ m.next = n.next /\ m.alt = n.alt
  BY DEF IsNode

(* What is a sequence of its own elements: a function on an interval of      *)
(* numbers from 1.                                                           *)
LEMMA AnySeq ==
  ASSUME NEW s
  PROVE  s \in Seq(Range(s)) <=> (Len(s) \in Nat /\ s = [i \in 1 .. Len(s) |-> s[i]])
<1>1. ASSUME s \in Seq(Range(s)) PROVE Len(s) \in Nat /\ s = [i \in 1 .. Len(s) |-> s[i]]
  BY <1>1
<1>2. ASSUME NEW n \in Nat, Len(s) = n, s = [i \in 1 .. n |-> s[i]] PROVE s \in Seq(Range(s))
  <2>1. s \in [1 .. n -> Range(s)]
    BY <1>2 DEF Range
  <2> QED
    BY <2>1, SeqDef
<1> QED
  BY <1>1, <1>2

(* A sequence over a set is one over every larger set.                       *)
LEMMA WiderSeq ==
  ASSUME NEW A, NEW B, A \subseteq B, NEW s \in Seq(A)
  PROVE  s \in Seq(B)
<1>1. Len(s) \in Nat /\ s \in [1 .. Len(s) -> A]
  OBVIOUS
<1>2. s \in [1 .. Len(s) -> B]
  BY <1>1
<1> QED
  BY <1>1, <1>2, SeqDef

(* The length, the domain and the elements of a sequence.                    *)
LEMMA SeqSize ==
  ASSUME NEW T, NEW s, s \in Seq(T)
  PROVE  /\ Size(s, Len(s)) /\ Len(s) \in Nat /\ DOMAIN s = 1 .. Len(s)
         /\ \A i \in 1 .. Len(s) : s[i] \in T
<1>1. Len(s) \in Nat /\ DOMAIN s = 1 .. Len(s) /\ s = [i \in 1 .. Len(s) |-> s[i]]
  OBVIOUS
<1> QED
  BY <1>1, AnySeq DEF Size

(* A set of numbers that is not empty has a least one.                       *)
LEMMA LeastOf ==
  ASSUME NEW T, T \subseteq Nat, T # {}
  PROVE  \E x \in T : \A y \in T : x <= y
<1>1. PICK x \in T : \A y \in T : ~(<<y, x>> \in OpToRel(<, Nat))
  BY NatLessThanWellFounded, WFMin
<1>2. \A y \in T : ~(y < x)
  BY <1>1 DEF OpToRel
<1> QED
  BY <1>2

(* The nodes of a graph are numbered from 1 up to its length.                *)
LEMMA GraphDomain ==
  ASSUME NEW ns, GraphOK(ns)
  PROVE  Len(ns) \in Nat /\ DOMAIN ns = 1 .. Len(ns)
  BY AnySeq DEF GraphOK

(* Wiring ends to a target sets these edges and no others (wire,             *)
(* wireOpenTo).                                                              *)
LEMMA WireSets ==
  ASSUME NEW ns, GraphOK(ns), NEW ends, NEW target, NEW ms, ms = Wire(ns, ends, target)
  PROVE  Size(ms, Len(ns)) /\ DOMAIN ms = DOMAIN ns /\ Sets(ns, ends, target, ms)
<1>1. Len(ns) \in Nat /\ DOMAIN ns = 1 .. Len(ns)
  BY GraphDomain
<1>2. ms = [i \in 1 .. Len(ns) |-> ms[i]] /\ DOMAIN ms = 1 .. Len(ns)
  BY <1>1 DEF Wire
<1>3. Len(ms) = Len(ns)
  BY <1>1, <1>2
<1>4. Size(ms, Len(ns))
  BY <1>1, <1>2, <1>3, AnySeq DEF Size
<1>5. ASSUME NEW i \in DOMAIN ns
      PROVE  /\ IsNode(ms[i]) /\ ms[i].kind = ns[i].kind /\ ms[i].branches = ns[i].branches
             /\ <<i, "next">> \in ends => ms[i].next = target
             /\ <<i, "next">> \notin ends => ms[i].next = ns[i].next
             /\ <<i, "alt">> \in ends => ms[i].alt = target
             /\ <<i, "alt">> \notin ends => ms[i].alt = ns[i].alt
  <2>1. PICK x : x = IF <<i, "next">> \in ends THEN target ELSE ns[i].next
    OBVIOUS
  <2>2. PICK y : y = IF <<i, "alt">> \in ends THEN target ELSE ns[i].alt
    OBVIOUS
  <2>3. ms[i] = [[ns[i] EXCEPT !.next = x] EXCEPT !.alt = y]
    BY <2>1, <2>2 DEF Wire, GraphOK, NodeWithin, IsNode
  <2>4. IsNode(ns[i])
    BY DEF GraphOK, NodeWithin
  <2>5. PICK n : n = [ns[i] EXCEPT !.next = x]
    OBVIOUS
  <2>6. /\ IsNode(n) /\ n.next = x
        /\ n.kind = ns[i].kind /\ n.alt = ns[i].alt /\ n.branches = ns[i].branches
    BY <2>4, <2>5, SetNext
  <2>7. PICK q : q = [n EXCEPT !.alt = y]
    OBVIOUS
  <2>8. /\ IsNode(q) /\ q.alt = y
        /\ q.kind = n.kind /\ q.next = n.next /\ q.branches = n.branches
    BY <2>6, <2>7, SetAlt
  <2>9. ms[i] = q
    BY <2>3, <2>5, <2>7
  <2> QED
    BY <2>1, <2>2, <2>6, <2>8, <2>9
<1> QED
  BY <1>1, <1>2, <1>4, <1>5 DEF Sets

(* A set that is closed in a graph was closed before the graph grew. *)
LEMMA ClosedBefore ==
  ASSUME NEW ns, NEW ms, GraphOK(ns), GraphOK(ms), Grows(ns, ms), NEW S, EdgeClosed(ms, S)
  PROVE  EdgeClosed(ns, S)
<1>1. DOMAIN ns \subseteq DOMAIN ms
  BY GraphDomain DEF Grows
<1>2. SUFFICES ASSUME NEW i \in DOMAIN ns, i \in S
               PROVE  /\ ns[i].next # 0 => ns[i].next \in S
                      /\ ns[i].alt # 0 => ns[i].alt \in S
                      /\ \A j \in DOMAIN ns[i].branches : ns[i].branches[j] \in S
  BY DEF EdgeClosed
<1>3. /\ ms[i].next # 0 => ms[i].next \in S
      /\ ms[i].alt # 0 => ms[i].alt \in S
      /\ \A j \in DOMAIN ms[i].branches : ms[i].branches[j] \in S
  BY <1>1, <1>2 DEF EdgeClosed
<1>4. \A e \in Edges : Missing(ns[i], e) \/ Same(ns[i], ms[i], e)
  BY DEF Grows
<1>5. ns[i].next # 0 => ns[i].next = ms[i].next
  BY <1>4 DEF Edges, Missing, Same
<1>6. ns[i].alt # 0 => ns[i].alt = ms[i].alt
  BY <1>4 DEF Edges, Missing, Same
<1>7. ns[i].branches = <<>> \/ ns[i].branches = ms[i].branches
  BY <1>4 DEF Edges, Missing, Same
<1> QED
  BY <1>3, <1>5, <1>6, <1>7

(* A builder none of whose edges is set is as it was. *)
LEMMA LevelStays ==
  ASSUME NEW Steps, NEW ns, NEW ms, NEW b, GraphOK(ns), GraphOK(ms), Grows(ns, ms),
         LevelOK(Steps, ns, b),
         \A i \in DOMAIN ns, e \in Edges : Owes(b, i, e) => Same(ns[i], ms[i], e)
  PROVE  LevelOK(Steps, ms, b)
<1>1. /\ Len(ns) \in Nat /\ Len(ms) \in Nat /\ Len(ns) <= Len(ms)
      /\ DOMAIN ns = 1 .. Len(ns) /\ DOMAIN ms = 1 .. Len(ms)
  BY GraphDomain DEF Grows
<1>2. /\ b.join \in 0 .. Len(ms) /\ b.start \in 0 .. Len(ms) /\ b.id \in 0 .. Len(ms)
      /\ b.open \subseteq (DOMAIN ms) \X {"next", "alt"}
  BY <1>1 DEF LevelOK
<1>3. b.starts \in Seq(1 .. Len(ms))
  <2>1. 1 .. Len(ns) \subseteq 1 .. Len(ms)
    BY <1>1
  <2>2. b.starts \in Seq(1 .. Len(ns))
    BY DEF LevelOK
  <2> QED
    BY <2>1, <2>2, WiderSeq
<1>4. ASSUME NEW i \in Int, NEW e \in Edges, Owes(b, i, e)
      PROVE  i \in DOMAIN ms /\ Missing(ms[i], e)
  <2>1. i \in DOMAIN ns /\ Missing(ns[i], e)
    BY <1>4 DEF LevelOK
  <2>2. Same(ns[i], ms[i], e)
    BY <1>4, <2>1
  <2> QED
    BY <1>1, <2>1, <2>2 DEF Same, Missing
<1>5. ASSUME NEW S, EdgeClosed(ms, S), b.start \in S, b.start # 0
      PROVE  \A i \in Int : Hooked(b, i) \/ (\E e \in Edges : <<i, e>> \in b.open) => i \in S
  <2>1. EdgeClosed(ns, S)
    BY <1>5, ClosedBefore
  <2> QED
    BY <1>5, <2>1 DEF LevelOK
<1>6. Rooted(ms, b)
  <2>1. Rooted(ns, b) /\ b.id \in 0 .. Len(ns)
    BY DEF LevelOK
  <2>2. b.id # 0 => ms[b.id].kind = ns[b.id].kind
    BY <1>1, <2>1 DEF Grows
  <2> QED
    BY <2>1, <2>2 DEF Rooted
<1> QED
  BY <1>2, <1>3, <1>4, <1>5, <1>6 DEF LevelOK

(* A step of the compiler.  It does something to the builder m and those     *)
(* above it, which are gone or replaced by a new one, to edges they have to  *)
(* set, and to new nodes.  The invariant holds if it does so in order.       *)
LEMMA Progress ==
  ASSUME NEW Steps, NEW ns, NEW bs, Good(Steps, ns, bs),
         NEW ms, GraphOK(ms), Grows(ns, ms),
         NEW H \in Nat \ {0}, Size(bs, H), NEW m \in 1 .. H,
         NEW cs, NEW d, StackAs(Steps, ms, bs, cs, m, d),
         d.join = bs[m].join, LevelOK(Steps, ms, d),
         SetsTheirs(ns, ms, bs, m, H), OwesTheirs(ns, bs, d, m, H),
         LacksNone(ns, ms, bs, d, m, H), HangsOn(ns, ms, bs, d, m, H)
  PROVE  Good(Steps, ms, cs)
<1>0. PICK G \in {m, m + 1} :
        /\ Size(cs, G) /\ cs[m] = d /\ \A k \in 1 .. m - 1 : cs[k] = bs[k]
        /\ G = m => AtWork(d)
        /\ G = m + 1 => Waiting(d, cs[m + 1]) /\ Fresh(Steps, ms, cs[m + 1])
  BY DEF StackAs
<1>1. DOMAIN bs = 1 .. H /\ DOMAIN cs = 1 .. G
  <2>1. \A s, n : Size(s, n) => DOMAIN s = 1 .. n
    BY AnySeq DEF Size
  <2> QED
    BY <1>0, <2>1
<1>2. DOMAIN ns \subseteq DOMAIN ms /\ DOMAIN ns \subseteq Int
  BY GraphDomain DEF Good, Grows
<1>3. \A k \in DOMAIN bs : LevelOK(Steps, ns, bs[k])
  BY DEF Good, Levels
<1>4. \A j, k \in DOMAIN bs : j # k =>
        \A i \in Int, e \in Edges : ~(Owes(bs[j], i, e) /\ Owes(bs[k], i, e))
  BY DEF Good, Apart
<1>5. ASSUME G = m + 1
      PROVE  /\ LevelOK(Steps, ms, cs[m + 1]) /\ AtWork(cs[m + 1])
             /\ \A i, e : ~Owes(cs[m + 1], i, e) /\ ~Pending(cs[m + 1], i)
             /\ \A S : Begun(cs[m + 1], S)
  <2> DEFINE b == cs[m + 1]
  <2>1. PICK steps \in Seq(Steps), join \in 0 .. Len(ms) : b = Builder(steps, join)
    BY <1>0, <1>5, Zenon DEF Fresh
  <2> HIDE DEF b
  <2>2. /\ IsBuilder(b) /\ b.todo = steps /\ b.join = join /\ b.open = {}
        /\ b.start = 0 /\ b.id = 0 /\ b.starts = <<>>
    BY <2>1 DEF Builder, IsBuilder
  <2>3. \A i, e : ~Owes(b, i, e) /\ ~Pending(b, i) /\ ~Hooked(b, i)
    BY <2>2 DEF Owes, Owing, Pending, Hooked
  <2>4. LevelOK(Steps, ms, b)
    <3>1. Len(ms) \in Nat
      BY GraphDomain
    <3> QED
      BY <2>2, <2>3, <3>1 DEF LevelOK, Rooted
  <2>5. AtWork(b)
    BY <2>2 DEF AtWork
  <2>6. \A S : Begun(b, S)
    BY <2>2 DEF Begun, Range
  <2> QED
    BY <2>3, <2>4, <2>5, <2>6 DEF b
<1>6. ASSUME NEW k \in 1 .. m - 1
      PROVE  LevelOK(Steps, ms, bs[k])
  <2>1. \A i \in DOMAIN ns, e \in Edges : Owes(bs[k], i, e) => Same(ns[i], ms[i], e)
    BY <1>1, <1>2, <1>4 DEF SetsTheirs
  <2> QED
    BY <1>1, <1>3, <2>1, LevelStays DEF Good
<1>7. G \in Nat \ {0} /\ m \in Nat \ {0}
  OBVIOUS
<1>8. Levels(Steps, ms, cs)
  <2>1. \A k \in DOMAIN cs : LevelOK(Steps, ms, cs[k])
    BY <1>0, <1>1, <1>5, <1>6, <1>7
  <2>2. AtWork(cs[G])
    BY <1>0, <1>5, <1>7
  <2>a. \A k \in 1 .. H - 1 : Waiting(bs[k], bs[k + 1])
    BY Zenon DEF Good, Levels, Size
  <2>3. ASSUME NEW k \in 1 .. G - 1
        PROVE  Waiting(cs[k], cs[k + 1])
    <3>1. CASE k = m
      BY <1>0, <1>1, <1>7, <3>1
    <3>2. CASE k = m - 1
      <4>1. Waiting(bs[k], bs[m])
        BY <2>a, <3>2
      <4>2. cs[k] = bs[k] /\ cs[k + 1] = d
        BY <1>0, <1>1, <3>2
      <4> QED
        BY <4>1, <4>2 DEF Waiting
    <3>3. CASE k < m - 1
      <4>1. Waiting(bs[k], bs[k + 1])
        BY <2>a, <3>3
      <4>2. cs[k] = bs[k] /\ cs[k + 1] = bs[k + 1]
        BY <1>0, <1>1, <3>3
      <4> QED
        BY <4>1, <4>2
    <3> QED
      BY <1>0, <1>1, <1>7, <3>1, <3>2, <3>3
  <2>4. cs # <<>>
    <3>1. 1 \in DOMAIN cs
      BY <1>0, <1>1, <1>7
    <3> QED
      BY <3>1
  <2> QED
    BY <1>0, <2>1, <2>2, <2>3, <2>4, Zenon DEF Levels, Size
<1>9. Apart(cs)
  <2>1. ASSUME NEW k \in 1 .. m - 1, NEW i \in Int, NEW e \in Edges, Owes(bs[k], i, e)
        PROVE  ~Owes(d, i, e)
    <3>1. LevelOK(Steps, ns, bs[k])
      BY <1>0, <1>1, <1>3
    <3>2. i \in DOMAIN ns
      BY <2>1, <3>1 DEF LevelOK
    <3> QED
      BY <1>0, <1>1, <1>4, <2>1, <3>2 DEF OwesTheirs
  <2>2. \A j, k \in 1 .. m - 1 : j # k =>
          \A i \in Int, e \in Edges : ~(Owes(cs[j], i, e) /\ Owes(cs[k], i, e))
    BY <1>0, <1>1, <1>4
  <2>3. \A k \in 1 .. m - 1, i \in Int, e \in Edges : ~(Owes(cs[k], i, e) /\ Owes(cs[m], i, e))
    BY <1>0, <1>1, <2>1
  <2>4. \A i \in Int, e \in Edges : G = m + 1 => ~Owes(cs[m + 1], i, e)
    BY <1>5
  <2> QED
    BY <1>0, <1>1, <1>7, <2>2, <2>3, <2>4 DEF Apart
<1>10. Owed(ms, cs)
  <2> SUFFICES ASSUME NEW i \in DOMAIN ms, NEW e \in Edges, Lacks(ms[i], e)
               PROVE  \E k \in DOMAIN cs : Owes(cs[k], i, e)
    BY DEF Owed
  <2>1. CASE Owes(d, i, e)
    BY <1>0, <1>1, <1>7, <2>1
  <2>2. CASE i \in DOMAIN ns /\ Lacks(ns[i], e) /\ \A k \in m .. H : ~Owes(bs[k], i, e)
    <3>1. PICK k \in DOMAIN bs : Owes(bs[k], i, e)
      BY <2>2 DEF Good, Owed
    <3>2. k \in 1 .. m - 1
      BY <1>0, <1>1, <2>2, <3>1
    <3> QED
      BY <1>0, <1>1, <1>7, <3>1, <3>2
  <2>3. \/ Owes(d, i, e)
        \/ i \in DOMAIN ns /\ Lacks(ns[i], e) /\ \A k \in m .. H : ~Owes(bs[k], i, e)
    BY DEF LacksNone
  <2> QED
    BY <2>1, <2>2, <2>3
<1>11. Reached(ms, cs)
  <2> SUFFICES ASSUME NEW S, EdgeClosed(ms, S), \A k \in DOMAIN cs : Begun(cs[k], S),
                      NEW i \in DOMAIN ms
               PROVE  i \in S \/ \E j \in DOMAIN cs : Pending(cs[j], i)
    BY DEF Reached
  <2>1. Begun(d, S) /\ \A k \in 1 .. m - 1 : Begun(bs[k], S)
    BY <1>0, <1>1, <1>7
  <2>2. \A k \in m .. H : Begun(bs[k], S)
    BY <2>1 DEF HangsOn
  <2>3. \/ i \in S \/ Pending(d, i)
        \/ i \in DOMAIN ns /\ \A k \in m .. H : ~Pending(bs[k], i)
    BY <2>1 DEF HangsOn
  <2>4. CASE i \in S
    BY <2>4
  <2>5. CASE Pending(d, i)
    BY <1>0, <1>1, <1>7, <2>5
  <2>6. CASE i \in DOMAIN ns /\ \A k \in m .. H : ~Pending(bs[k], i)
    <3>1. EdgeClosed(ns, S)
      BY ClosedBefore DEF Good
    <3>2. \A k \in DOMAIN bs : Begun(bs[k], S)
      BY <1>0, <1>1, <2>1, <2>2
    <3>3. i \in S \/ \E k \in DOMAIN bs : Pending(bs[k], i)
      BY <2>6, <3>1, <3>2 DEF Good, Reached
    <3>4. \A k \in DOMAIN bs : Pending(bs[k], i) => k \in 1 .. m - 1
      BY <1>0, <1>1, <2>6
    <3> QED
      BY <1>0, <1>1, <1>7, <3>3, <3>4
  <2> QED
    BY <2>3, <2>4, <2>5, <2>6
<1> QED
  BY <1>8, <1>9, <1>10, <1>11 DEF Good

(* A graph with new nodes at its end has the old ones where they were.       *)
LEMMA Extended ==
  ASSUME NEW N \in Nat, NEW ps, Size(ps, N), NEW L \in Nat, NEW new, Size(new, L),
         NEW ms, ms = ps \o new
  PROVE  Joins(ps, N, new, L, ms)
<1>1. /\ ps \in Seq(Range(ps)) /\ Len(ps) = N /\ new \in Seq(Range(new)) /\ Len(new) = L
  BY DEF Size
<1> DEFINE T == Range(ps) \cup Range(new)
<1>2. ps \in Seq(T) /\ new \in Seq(T)
  BY <1>1, WiderSeq
<1> HIDE DEF T
<1>3. ms \in Seq(T) /\ Len(ms) = N + L
  BY <1>1, <1>2, ConcatProperties
<1>4. /\ \A i \in 1 .. N : ms[i] = ps[i]
      /\ \A j \in 1 .. L : ms[N + j] = new[j]
  BY <1>1, <1>2
<1>5. Size(ms, N + L)
  BY <1>3, SeqSize
<1> QED
  BY <1>4, <1>5 DEF Joins

(* A graph with one new node at its end has the old ones where they were.    *)
LEMMA Appended ==
  ASSUME NEW N \in Nat, NEW ps, Size(ps, N), NEW x,
         NEW ms, ms = Append(ps, x)
  PROVE  Tops(ps, N, x, ms)
<1>1. ps \in Seq(Range(ps)) /\ Len(ps) = N
  BY DEF Size
<1> DEFINE T == Range(ps) \cup {x}
<1>2. ps \in Seq(T) /\ x \in T
  BY <1>1, WiderSeq
<1> HIDE DEF T
<1>3. ms \in Seq(T) /\ Len(ms) = N + 1 /\ (\A i \in 1 .. N : ms[i] = ps[i]) /\ ms[N + 1] = x
  BY <1>1, <1>2, AppendProperties
<1>4. Size(ms, N + 1)
  BY <1>3, SeqSize
<1> QED
  BY <1>3, <1>4, Zenon DEF Tops

(* A graph of which "ends" now lead to a new node and which has new nodes.   *)
LEMMA Extends ==
  ASSUME NEW N \in Nat, NEW ns, GraphOK(ns), Size(ns, N),
         NEW L \in Nat, NEW new, NewNodes(new, N, L),
         NEW ends, ends \subseteq (DOMAIN ns) \X {"next", "alt"},
         \A i \in DOMAIN ns, e \in Edges : <<i, e>> \in ends => Missing(ns[i], e),
         NEW target \in 1 .. N + L,
         NEW ms, Longer(ns, ends, target, new, ms)
  PROVE  Extension(ns, N, new, L, ends, target, ms)
<1>0. PICK ps : ps = Wire(ns, ends, target)
  OBVIOUS
<1>1. DOMAIN ns = 1 .. N /\ Len(ns) = N
  BY GraphDomain DEF Size
<1>2. Size(ps, N) /\ Sets(ns, ends, target, ps)
  BY <1>0, <1>1, WireSets
<1>b. Joins(ps, N, new, L, ms)
  BY <1>0, <1>2, Extended DEF NewNodes, Longer
<1>3. \A i \in DOMAIN ns :
        /\ IsNode(ps[i]) /\ ps[i].kind = ns[i].kind /\ ps[i].branches = ns[i].branches
        /\ <<i, "next">> \in ends => ps[i].next = target
        /\ <<i, "next">> \notin ends => ps[i].next = ns[i].next
        /\ <<i, "alt">> \in ends => ps[i].alt = target
        /\ <<i, "alt">> \notin ends => ps[i].alt = ns[i].alt
  BY <1>2, Zenon DEF Sets
<1>4. /\ Size(ms, N + L)
      /\ \A i \in 1 .. N : ms[i] = ps[i]
      /\ \A j \in 1 .. L : ms[N + j] = new[j]
  BY <1>b, Zenon DEF Joins
<1>5. \A i \in 1 .. N : NodeWithin(ns[i], N)
  BY <1>1 DEF GraphOK
<1>6. ASSUME NEW i \in 1 .. N PROVE NodeWithin(ms[i], N + L)
  <2>1. 1 .. N \subseteq 1 .. N + L
    OBVIOUS
  <2>2. ns[i].branches \in Seq(1 .. N + L)
    BY <1>5, <2>1, WiderSeq DEF NodeWithin
  <2>3. ns[i].next \in 0 .. N + L /\ ns[i].alt \in 0 .. N + L
    BY <1>5 DEF NodeWithin
  <2>4. ms[i] = ps[i] /\ i \in DOMAIN ns
    BY <1>1, <1>4
  <2>5. ps[i].next \in 0 .. N + L /\ ps[i].alt \in 0 .. N + L
    <3>1. target \in 0 .. N + L
      OBVIOUS
    <3> QED
      BY <1>3, <2>3, <2>4, <3>1
  <2>6. IsNode(ps[i]) /\ ps[i].branches \in Seq(1 .. N + L)
    BY <1>3, <2>2, <2>4
  <2> QED
    BY <2>4, <2>5, <2>6 DEF NodeWithin
<1>7. DOMAIN ms = 1 .. N + L /\ Len(ms) = N + L
  BY <1>4, AnySeq DEF Size
<1>8. GraphOK(ms)
  <2>1. ASSUME NEW i \in 1 .. N + L PROVE NodeWithin(ms[i], N + L)
    <3>1. CASE i \in 1 .. N
      BY <1>6, <3>1
    <3>2. CASE i \notin 1 .. N
      <4>1. i - N \in 1 .. L /\ N + (i - N) = i
        BY <3>2
      <4>2. ms[i] = new[i - N]
        BY <1>4, <4>1
      <4> QED
        BY <4>1, <4>2 DEF NewNodes
    <3> QED
      BY <3>1, <3>2
  <2>2. ms \in Seq(Range(ms))
    BY <1>4 DEF Size
  <2> QED
    BY <1>7, <2>1, <2>2 DEF GraphOK
<1>9. ASSUME NEW i \in 1 .. N
      PROVE  /\ \A e \in Edges : Same(ns[i], ms[i], e) \/ <<i, e>> \in ends
             /\ <<i, "next">> \in ends => ms[i].next = target
             /\ <<i, "alt">> \in ends => ms[i].alt = target
             /\ ms[i].kind = ns[i].kind
  BY <1>1, <1>3, <1>4 DEF Same, Edges
<1>10. Grows(ns, ms)
  <2>1. \A i \in DOMAIN ns :
          /\ ms[i].kind = ns[i].kind
          /\ \A e \in Edges : Missing(ns[i], e) \/ Same(ns[i], ms[i], e)
    BY <1>1, <1>9
  <2>2. Len(ns) <= Len(ms)
    BY <1>1, <1>7
  <2> QED
    BY <2>1, <2>2 DEF Grows
<1> QED
  BY <1>4, <1>8, <1>9, <1>10, Zenon DEF Extension

(* New nodes at the end of the graph: the ends of the builder at work lead   *)
(* to the first of them.                                                     *)
LEMMA AppendsInOrder ==
  ASSUME NEW Steps, NEW ns, NEW bs, Good(Steps, ns, bs),
         NEW N \in Nat, Size(ns, N), NEW H \in Nat \ {0}, Size(bs, H), NEW b, b = bs[H],
         NEW L \in Nat \ {0}, NEW new, NewNodes(new, N, L),
         NEW ms, Extension(ns, N, new, L, b.open, N + 1, ms),
         NEW cs, NEW d, StackAs(Steps, ms, bs, cs, H, d), TakesUp(Steps, b, d, N, L),
         OwesNew(d, new, N, L), HangsOnFirst(d, new, N, L)
  PROVE  Good(Steps, ms, cs)
<1>1. LevelOK(Steps, ns, b) /\ AtWork(b)
  <2>1. H \in DOMAIN bs /\ Len(bs) = H
    BY AnySeq DEF Size
  <2>2. /\ \A k \in DOMAIN bs : LevelOK(Steps, ns, bs[k])
        /\ AtWork(bs[Len(bs)])
    BY Zenon DEF Good, Levels
  <2> QED
    BY <2>1, <2>2, Zenon
<1>2. DOMAIN ns = 1 .. N /\ GraphOK(ns)
  BY AnySeq DEF Size, Good
<1>3. /\ b.open \subseteq (DOMAIN ns) \X {"next", "alt"}
      /\ \A i \in DOMAIN ns, e \in Edges : <<i, e>> \in b.open => Missing(ns[i], e)
  BY <1>1, <1>2 DEF LevelOK, Owes
<1>4. /\ Size(ms, N + L) /\ GraphOK(ms) /\ Grows(ns, ms)
      /\ \A i \in 1 .. N : /\ \A e \in Edges : Same(ns[i], ms[i], e) \/ <<i, e>> \in b.open
                           /\ <<i, "next">> \in b.open => ms[i].next = N + 1
                           /\ <<i, "alt">> \in b.open => ms[i].alt = N + 1
                           /\ ms[i].kind = ns[i].kind
      /\ \A j \in 1 .. L : ms[N + j] = new[j]
  BY Zenon DEF Extension
<1>5. DOMAIN ms = 1 .. N + L /\ DOMAIN new = 1 .. L
  BY <1>4, AnySeq DEF Size, NewNodes
<1>6. ASSUME NEW S, EdgeClosed(ms, S), d.start \in S
      PROVE  N + 1 \in S /\ Begun(b, S) /\ Led(new, N, S)
  <2>3. Led(new, N, S)
    BY <1>4, <1>5, <1>6 DEF EdgeClosed, Led
  <2>1. CASE b.start = 0
    <3>1. b.open = {} /\ b.starts = <<>>
      BY <1>1, <2>1 DEF AtWork
    <3>2. Range(b.starts) = {}
      BY <3>1 DEF Range
    <3>3. d.start = N + 1
      BY <2>1, <3>1 DEF TakesUp
    <3> QED
      BY <1>6, <2>1, <2>3, <3>2, <3>3 DEF Begun
  <2>2. CASE b.start # 0
    <3>1. b.start \in S /\ b.starts = <<>> /\ b.open # {}
      BY <1>1, <1>6, <2>2 DEF AtWork, TakesUp
    <3>a. Range(b.starts) = {}
      BY <3>1 DEF Range
    <3>2. EdgeClosed(ns, S)
      BY <1>2, <1>4, <1>6, ClosedBefore
    <3>3. PICK i \in 1 .. N, e \in {"next", "alt"} : <<i, e>> \in b.open
      BY <1>2, <1>3, <3>1
    <3>b. \A R : EdgeClosed(ns, R) /\ b.start \in R /\ b.start # 0 =>
            \A j \in Int : Hooked(b, j) \/ (\E e_1 \in Edges : <<j, e_1>> \in b.open) => j \in R
      BY <1>1, Zenon DEF LevelOK
    <3>c. e \in Edges /\ i \in Int
      BY DEF Edges
    <3>4. i \in S
      BY <2>2, <3>1, <3>2, <3>3, <3>b, <3>c
    <3>5. ms[i].next = N + 1 \/ ms[i].alt = N + 1
      BY <1>4, <3>3
    <3>6. N + 1 \in S
      BY <1>5, <1>6, <3>4, <3>5 DEF EdgeClosed
    <3> QED
      BY <2>3, <3>1, <3>6, <3>a DEF Begun
  <2> QED
    BY <2>1, <2>2, <2>3
<1>7. d.start # 0 /\ d.start \in 0 .. N + L /\ d.join \in 0 .. N + L
  <2>1. b.start \in 0 .. N /\ b.join \in 0 .. N
    BY <1>1 DEF LevelOK, Size
  <2>2. b.start = 0 <=> b.open = {}
    BY <1>1 DEF AtWork
  <2> QED
    BY <2>1, <2>2 DEF TakesUp
<1>8. LevelOK(Steps, ms, d)
  <2>1. Len(ms) = N + L
    BY <1>4 DEF Size
  <2>2. \A i \in Int, e \in Edges : Owes(d, i, e) => i \in DOMAIN ms /\ Missing(ms[i], e)
    <3> SUFFICES ASSUME NEW i \in Int, NEW e \in Edges, Owes(d, i, e)
                 PROVE  i \in DOMAIN ms /\ Missing(ms[i], e)
      OBVIOUS
    <3>1. i - N \in 1 .. L /\ Missing(new[i - N], e)
      BY DEF OwesNew
    <3>2. i = N + (i - N)
      OBVIOUS
    <3> QED
      BY <1>4, <1>5, <3>1, <3>2
  <2>3. d.starts \in Seq(1 .. N + L)
    BY DEF TakesUp
  <2>4. /\ d.open \subseteq (DOMAIN ms) \X {"next", "alt"}
        /\ IsBuilder(d) /\ d.todo \in Seq(Steps) /\ d.id \in 0 .. N + L
    BY <1>5 DEF TakesUp
  <2>6. \A i \in Int, e \in Edges : ~(<<i, e>> \in d.open /\ Owing(d, i, e))
    BY DEF OwesNew
  <2>5. \A S : EdgeClosed(ms, S) /\ d.start \in S /\ d.start # 0 =>
          \A i \in Int : Hooked(d, i) \/ (\E e \in Edges : <<i, e>> \in d.open) => i \in S
    BY <1>6 DEF HangsOnFirst
  <2>7. Rooted(ms, d)
    <3>1. 1 \in 1 .. L
      OBVIOUS
    <3>2. ms[N + 1] = new[1]
      BY <1>4, <3>1
    <3> QED
      BY <3>2 DEF OwesNew, Rooted
  <2> QED
    BY <1>7, <2>1, <2>2, <2>3, <2>4, <2>5, <2>6, <2>7 DEF LevelOK
<1>9. SetsTheirs(ns, ms, bs, H, H)
  <2>1. \A i \in DOMAIN ns, e \in Edges : Same(ns[i], ms[i], e) \/ Owes(b, i, e)
    BY <1>2, <1>4 DEF Owes
  <2>2. H \in H .. H
    OBVIOUS
  <2> QED
    BY <2>1, <2>2 DEF SetsTheirs
<1>10. OwesTheirs(ns, bs, d, H, H)
  BY <1>2 DEF OwesNew, OwesTheirs
<1>11. ASSUME NEW i \in DOMAIN ms, NEW e \in Edges, Lacks(ms[i], e)
       PROVE  Owes(d, i, e) \/ (i \in DOMAIN ns /\ Lacks(ns[i], e) /\ ~Owes(b, i, e))
  <2>1. CASE i \in DOMAIN ns
    <3>1. ~(<<i, e>> \in b.open)
      <4>1. \A x \in b.open : x[2] \in {"next", "alt"}
        BY <1>3
      <4>0. i \in 1 .. N /\ N + 1 # 0
        BY <1>2, <2>1
      <4>2. <<i, "next">> \in b.open => ms[i].next # 0
        BY <1>4, <4>0
      <4>3. <<i, "alt">> \in b.open => ms[i].alt # 0
        BY <1>4, <4>0
      <4> QED
        BY <1>11, <4>1, <4>2, <4>3 DEF Lacks
    <3>2. Same(ns[i], ms[i], e) /\ ms[i].kind = ns[i].kind
      BY <1>2, <1>4, <2>1, <3>1
    <3>3. Lacks(ns[i], e)
      BY <1>11, <3>2 DEF Lacks, Same
    <3>4. ~Owes(b, i, e)
      BY <1>1, <3>1 DEF AtWork, Owes, Owing
    <3> QED
      BY <2>1, <3>3, <3>4
  <2>2. CASE i \notin DOMAIN ns
    <3>1. i - N \in 1 .. L /\ i = N + (i - N)
      BY <1>2, <1>5, <2>2
    <3>2. ms[i] = new[i - N]
      BY <1>4, <3>1
    <3> QED
      BY <1>11, <3>1, <3>2 DEF OwesNew
  <2> QED
    BY <2>1, <2>2
<1>12. ASSUME NEW S, EdgeClosed(ms, S), Begun(d, S)
       PROVE  /\ Begun(b, S)
              /\ \A i \in DOMAIN ms : i \in S \/ Pending(d, i) \/ (i \in DOMAIN ns /\ ~Pending(b, i))
  <2>1. d.start \in S
    BY <1>7, <1>12 DEF Begun
  <2>2. N + 1 \in S /\ Begun(b, S) /\ Led(new, N, S)
    BY <1>6, <1>12, <2>1
  <2>3. \A i : ~Pending(b, i)
    BY <1>1 DEF AtWork, Pending
  <2>4. ASSUME NEW i \in DOMAIN ms, i \notin DOMAIN ns PROVE i \in S \/ Pending(d, i)
    <3>1. i - N \in 1 .. L /\ i = N + (i - N)
      BY <1>2, <1>5, <2>4
    <3> QED
      BY <2>2, <3>1 DEF HangsOnFirst
  <2> QED
    BY <2>2, <2>3, <2>4
<1>13. H \in 1 .. H
  OBVIOUS
<1>14. LacksNone(ns, ms, bs, d, H, H)
  BY <1>11 DEF LacksNone
<1>15. HangsOn(ns, ms, bs, d, H, H)
  BY <1>12 DEF HangsOn
<1>16. d.join = bs[H].join
  BY DEF TakesUp
<1> QED
  BY <1>4, <1>8, <1>9, <1>10, <1>13, <1>14, <1>15, <1>16, Progress

(* What a step appends to the graph keeps the invariant if what its          *)
(* builder then has to set is at the new nodes, is all they lack, and        *)
(* hangs on the first of them (attach).                                      *)
LEMMA Appends ==
  ASSUME NEW Steps, NEW ns, NEW bs, Good(Steps, ns, bs),
         NEW N \in Nat, Size(ns, N), NEW H \in Nat \ {0}, Size(bs, H), NEW b, b = bs[H],
         NEW L \in Nat \ {0}, NEW new, NewNodes(new, N, L),
         NEW ms, Longer(ns, b.open, N + 1, new, ms),
         NEW cs, NEW d, StackAs(Steps, ms, bs, cs, H, d), TakesUp(Steps, b, d, N, L),
         OwesNew(d, new, N, L), HangsOnFirst(d, new, N, L)
  PROVE  Good(Steps, ms, cs)
<1>1. LevelOK(Steps, ns, b) /\ AtWork(b)
  <2>1. H \in DOMAIN bs /\ Len(bs) = H
    BY AnySeq DEF Size
  <2>2. /\ \A k \in DOMAIN bs : LevelOK(Steps, ns, bs[k])
        /\ AtWork(bs[Len(bs)])
    BY Zenon DEF Good, Levels
  <2> QED
    BY <2>1, <2>2, Zenon
<1>2. DOMAIN ns = 1 .. N /\ GraphOK(ns)
  BY AnySeq DEF Size, Good
<1>3. /\ b.open \subseteq (DOMAIN ns) \X {"next", "alt"}
      /\ \A i \in DOMAIN ns, e \in Edges : <<i, e>> \in b.open => Missing(ns[i], e)
  BY <1>1, <1>2 DEF LevelOK, Owes
<1>4. N + 1 \in 1 .. N + L
  OBVIOUS
<1>5. Extension(ns, N, new, L, b.open, N + 1, ms)
  BY <1>2, <1>3, <1>4, Extends
<1> QED
  BY <1>5, AppendsInOrder

----------------------------------------------------------------------------
(* The builders. *)

(* The lowest k builders, one of them for the k-th: the others are as they   *)
(* were.                                                                     *)
LEMMA Stacked ==
  ASSUME NEW k \in Nat \ {0}, NEW b
  PROVE  /\ Size(Upto(k, b), k) /\ Upto(k, b)[k] = b
         /\ \A i \in 1 .. k - 1 : Upto(k, b)[i] = builders[i]
<1>1. PICK s : s = Upto(k, b)
  OBVIOUS
<1>2. s = [i \in 1 .. k |-> IF i = k THEN b ELSE builders[i]]
  BY <1>1 DEF Upto
<1>3. DOMAIN s = 1 .. k /\ s[k] = b /\ \A i \in 1 .. k - 1 : s[i] = builders[i]
  BY <1>2
<1>4. s = [i \in 1 .. k |-> s[i]]
  BY <1>2
<1>5. s \in [1 .. k -> Range(s)]
  BY <1>3, <1>4 DEF Range
<1>6. s \in Seq(Range(s)) /\ Len(s) = k
  BY <1>3, <1>5, SeqDef
<1> QED
  BY <1>1, <1>3, <1>6 DEF Size

(* Dropping the builders above the m-th one leaves a stack in order if       *)
(* that one is at work.                                                      *)
LEMMA BackDown ==
  ASSUME NEW Steps, NEW ms, NEW m \in Nat \ {0}, NEW d, AtWork(d),
         NEW s, Lower(m, d, s)
  PROVE  StackAs(Steps, ms, builders, s, m, d)
<1>1. s = Upto(m, d)
  BY DEF Lower
<1>2. Size(s, m) /\ s[m] = d /\ \A i \in 1 .. m - 1 : s[i] = builders[i]
  BY <1>1, Stacked
<1> QED
  BY <1>2 DEF StackAs

(* A new builder over the m-th one leaves a stack in order if that one       *)
(* waits for it (sub).                                                       *)
LEMMA OneHigher ==
  ASSUME NEW Steps, NEW ms, NEW m \in Nat \ {0}, NEW d,
         NEW steps \in Seq(Steps), NEW join \in 0 .. Len(ms), Waiting(d, Builder(steps, join)),
         NEW t, Higher(m, d, steps, join, t)
  PROVE  StackAs(Steps, ms, builders, t, m, d)
<1>1. PICK s : s = Upto(m, d)
  OBVIOUS
<1>2. Size(s, m) /\ s[m] = d /\ \A i \in 1 .. m - 1 : s[i] = builders[i]
  BY <1>1, Stacked
<1>3. PICK x : x = Builder(steps, join)
  OBVIOUS
<1>4. t = Append(s, x)
  BY <1>1, <1>3 DEF Higher
<1>a. m \in Nat /\ Size(s, m)
  BY <1>2
<1>5. Size(t, m + 1) /\ (\A i \in 1 .. m : t[i] = s[i]) /\ t[m + 1] = x
  <2>1. Tops(s, m, x, t)
    BY <1>4, <1>a, Appended
  <2> QED
    BY <2>1, Zenon DEF Tops
<1>6. Fresh(Steps, ms, x) /\ Waiting(d, x)
  BY <1>3 DEF Fresh
<1>7. t[m] = d /\ \A i \in 1 .. m - 1 : t[i] = builders[i]
  BY <1>2, <1>5
<1> QED
  BY <1>5, <1>6, <1>7 DEF StackAs

(* What becomes of a builder's fields: one of them set, the others are as    *)
(* they were.                                                                *)
LEMMA SetField ==
  ASSUME NEW b, IsBuilder(b), NEW v
  PROVE  /\ [b EXCEPT !.todo = v] = [todo |-> v, join |-> b.join, open |-> b.open,
                                     start |-> b.start, id |-> b.id, starts |-> b.starts]
         /\ [b EXCEPT !.open = v] = [todo |-> b.todo, join |-> b.join, open |-> v,
                                     start |-> b.start, id |-> b.id, starts |-> b.starts]
         /\ [b EXCEPT !.start = v] = [todo |-> b.todo, join |-> b.join, open |-> b.open,
                                      start |-> v, id |-> b.id, starts |-> b.starts]
         /\ [b EXCEPT !.id = v] = [todo |-> b.todo, join |-> b.join, open |-> b.open,
                                   start |-> b.start, id |-> v, starts |-> b.starts]
         /\ [b EXCEPT !.starts = v] = [todo |-> b.todo, join |-> b.join, open |-> b.open,
                                       start |-> b.start, id |-> b.id, starts |-> v]
<1>1. [b EXCEPT !.todo = v] = [todo |-> v, join |-> b.join, open |-> b.open,
                               start |-> b.start, id |-> b.id, starts |-> b.starts]
  BY DEF IsBuilder
<1>2. [b EXCEPT !.open = v] = [todo |-> b.todo, join |-> b.join, open |-> v,
                               start |-> b.start, id |-> b.id, starts |-> b.starts]
  BY DEF IsBuilder
<1>3. [b EXCEPT !.start = v] = [todo |-> b.todo, join |-> b.join, open |-> b.open,
                                start |-> v, id |-> b.id, starts |-> b.starts]
  BY DEF IsBuilder
<1>4. [b EXCEPT !.id = v] = [todo |-> b.todo, join |-> b.join, open |-> b.open,
                             start |-> b.start, id |-> v, starts |-> b.starts]
  BY DEF IsBuilder
<1>5. [b EXCEPT !.starts = v] = [todo |-> b.todo, join |-> b.join, open |-> b.open,
                                 start |-> b.start, id |-> b.id, starts |-> v]
  BY DEF IsBuilder
<1> QED
  BY <1>1, <1>2, <1>3, <1>4, <1>5

(* Attaching a node takes the open ends of a builder, and gives it a start   *)
(* if it had none (attach).                                                  *)
LEMMA Attached ==
  ASSUME NEW b, IsBuilder(b), NEW id
  PROVE  LET d == Attach(b, id) IN
         /\ IsBuilder(d) /\ d.open = {} /\ d.todo = b.todo /\ d.join = b.join
         /\ d.id = b.id /\ d.starts = b.starts
         /\ b.open = {} /\ b.start = 0 => d.start = id
         /\ ~(b.open = {} /\ b.start = 0) => d.start = b.start
<1>1. PICK v : v = IF b.open = {} /\ b.start = 0 THEN id ELSE b.start
  OBVIOUS
<1>2. PICK x : x = [b EXCEPT !.open = {}]
  OBVIOUS
<1>3. x = [todo |-> b.todo, join |-> b.join, open |-> {}, start |-> b.start, id |-> b.id,
           starts |-> b.starts]
  BY <1>2, SetField
<1>4. Attach(b, id) = [x EXCEPT !.start = v]
  BY <1>1, <1>2, <1>3 DEF Attach, IsBuilder
<1>5. IsBuilder(x)
  BY <1>3 DEF IsBuilder
<1>6. [x EXCEPT !.start = v] = [todo |-> x.todo, join |-> x.join, open |-> x.open, start |-> v,
                                id |-> x.id, starts |-> x.starts]
  BY <1>5, SetField
<1> QED
  BY <1>1, <1>3, <1>4, <1>6 DEF IsBuilder

(* A builder whose step is done goes on with the steps after it.             *)
LEMMA DoneWith ==
  ASSUME NEW b, IsBuilder(b), NEW open
  PROVE  LET d == Done(b, open) IN
         /\ IsBuilder(d) /\ d.open = open /\ d.todo = Tail(b.todo) /\ d.join = b.join
         /\ d.id = 0 /\ d.starts = <<>> /\ d.start = b.start
<1>1. PICK x : x = [b EXCEPT !.todo = Tail(b.todo)]
  OBVIOUS
<1>2. PICK y : y = [x EXCEPT !.open = open]
  OBVIOUS
<1>3. PICK z : z = [y EXCEPT !.id = 0]
  OBVIOUS
<1>4. x = [todo |-> Tail(b.todo), join |-> b.join, open |-> b.open, start |-> b.start, id |-> b.id,
           starts |-> b.starts]
  BY <1>1, SetField
<1>5. IsBuilder(x)
  BY <1>4 DEF IsBuilder
<1>6. y = [todo |-> Tail(b.todo), join |-> b.join, open |-> open, start |-> b.start, id |-> b.id,
           starts |-> b.starts]
  BY <1>2, <1>4, <1>5, SetField
<1>7. IsBuilder(y)
  BY <1>6 DEF IsBuilder
<1>8. z = [todo |-> Tail(b.todo), join |-> b.join, open |-> open, start |-> b.start, id |-> 0,
           starts |-> b.starts]
  BY <1>3, <1>6, <1>7, SetField
<1>9. IsBuilder(z)
  BY <1>8 DEF IsBuilder
<1>10. Done(b, open) = [z EXCEPT !.starts = <<>>]
  BY <1>1, <1>2, <1>3 DEF Done, IsBuilder
<1>11. [z EXCEPT !.starts = <<>>] = [todo |-> z.todo, join |-> z.join, open |-> z.open,
                                     start |-> z.start, id |-> z.id, starts |-> <<>>]
  BY <1>9, SetField
<1> QED
  BY <1>8, <1>10, <1>11 DEF IsBuilder

(* A builder that waits for a chain keeps its steps, its ends and its        *)
(* start.                                                                    *)
LEMMA WaitsWith ==
  ASSUME NEW b, IsBuilder(b), NEW id, NEW starts
  PROVE  LET d == Waits(b, id, starts) IN
         /\ IsBuilder(d) /\ d.open = b.open /\ d.todo = b.todo /\ d.join = b.join
         /\ d.id = id /\ d.starts = starts /\ d.start = b.start
<1>1. PICK x : x = [b EXCEPT !.id = id]
  OBVIOUS
<1>2. x = [todo |-> b.todo, join |-> b.join, open |-> b.open, start |-> b.start, id |-> id,
           starts |-> b.starts]
  BY <1>1, SetField
<1>3. IsBuilder(x)
  BY <1>2 DEF IsBuilder
<1>4. Waits(b, id, starts) = [x EXCEPT !.starts = starts]
  BY <1>1 DEF Waits, IsBuilder
<1>5. [x EXCEPT !.starts = starts] = [todo |-> x.todo, join |-> x.join, open |-> x.open,
                                      start |-> x.start, id |-> x.id, starts |-> starts]
  BY <1>3, SetField
<1> QED
  BY <1>2, <1>4, <1>5 DEF IsBuilder

(* The builder at work and the graph.                                        *)
LEMMA AtTop ==
  ASSUME NEW Steps, Good(Steps, nodes, builders)
  PROVE  /\ Height \in Nat \ {0} /\ Size(builders, Height)
         /\ Len(nodes) \in Nat /\ Size(nodes, Len(nodes)) /\ DOMAIN nodes = 1 .. Len(nodes)
         /\ LevelOK(Steps, nodes, Top) /\ AtWork(Top) /\ IsBuilder(Top)
         /\ Top.todo \in Seq(Steps) /\ Top.start \in 0 .. Len(nodes) /\ Top.join \in 0 .. Len(nodes)
         /\ Top.todo # <<>> => Head(Top.todo) \in Steps /\ Tail(Top.todo) \in Seq(Steps)
<1>1. /\ builders \in Seq(Range(builders)) /\ builders # <<>>
      /\ \A k \in DOMAIN builders : LevelOK(Steps, nodes, builders[k])
      /\ AtWork(builders[Len(builders)])
  BY Zenon DEF Good, Levels
<1>2. Height \in Nat \ {0} /\ Size(builders, Height) /\ Height \in DOMAIN builders
  BY <1>1, SeqSize DEF Height
<1>3. LevelOK(Steps, nodes, Top) /\ AtWork(Top)
  BY <1>1, <1>2 DEF Top, Height
<1>4. nodes \in Seq(Range(nodes))
  BY DEF Good, GraphOK
<1>5. Len(nodes) \in Nat /\ Size(nodes, Len(nodes)) /\ DOMAIN nodes = 1 .. Len(nodes)
  BY <1>4, SeqSize
<1>6. /\ IsBuilder(Top) /\ Top.todo \in Seq(Steps)
      /\ Top.start \in 0 .. Len(nodes) /\ Top.join \in 0 .. Len(nodes)
  BY <1>3 DEF LevelOK
<1>7. Top.todo # <<>> => Head(Top.todo) \in Steps /\ Tail(Top.todo) \in Seq(Steps)
  BY <1>6, HeadTailProperties
<1> QED
  BY <1>2, <1>3, <1>5, <1>6, <1>7

(* A step without chains: the builder goes on from the edges of the new      *)
(* nodes that are in "open".                                                 *)
LEMMA GoesOnInOrder ==
  ASSUME NEW Steps, Good(Steps, nodes, builders), Top.todo # <<>>,
         NEW N, N = Len(nodes), NEW L \in Nat \ {0}, NEW new, NewNodes(new, N, L),
         NEW open, Onward(open, new, N, L),
         NEW ms, Longer(nodes, Top.open, N + 1, new, ms),
         NEW cs, Lower(Height, Done(Attach(Top, N + 1), open), cs)
  PROVE  Good(Steps, ms, cs)
<1>0. /\ open \subseteq (N + 1 .. N + L) \X {"next", "alt"} /\ open # {}
      /\ \A i \in Int, e \in Edges : <<i, e>> \in open => Missing(new[i - N], e)
      /\ \A j \in 1 .. L, e \in Edges : Lacks(new[j], e) => <<N + j, e>> \in open
      /\ \A S : Led(new, N, S) /\ N + 1 \in S => \A j \in 1 .. L : N + j \in S
  BY Zenon DEF Onward
<1>1. /\ Height \in Nat \ {0} /\ Size(builders, Height)
      /\ N \in Nat /\ Size(nodes, N)
      /\ LevelOK(Steps, nodes, Top) /\ AtWork(Top) /\ IsBuilder(Top)
      /\ Top.start \in 0 .. N /\ Tail(Top.todo) \in Seq(Steps)
  BY AtTop
<1>2. PICK a : a = Attach(Top, N + 1)
  OBVIOUS
<1>3. PICK d : d = Done(a, open)
  OBVIOUS
<1>4. /\ IsBuilder(a) /\ a.todo = Top.todo /\ a.join = Top.join
      /\ Top.open = {} /\ Top.start = 0 => a.start = N + 1
      /\ ~(Top.open = {} /\ Top.start = 0) => a.start = Top.start
  BY <1>1, <1>2, Attached
<1>5. /\ IsBuilder(d) /\ d.open = open /\ d.todo = Tail(Top.todo) /\ d.join = Top.join
      /\ d.id = 0 /\ d.starts = <<>> /\ d.start = a.start
  <2>1. /\ IsBuilder(d) /\ d.open = open /\ d.todo = Tail(a.todo) /\ d.join = a.join
        /\ d.id = 0 /\ d.starts = <<>> /\ d.start = a.start
    BY <1>3, <1>4, DoneWith
  <2> QED
    BY <1>4, <2>1
<1>6. AtWork(d)
  <2>1. Top.start = 0 <=> Top.open = {}
    BY <1>1 DEF AtWork
  <2>2. d.start # 0
    BY <1>1, <1>4, <1>5, <2>1
  <2> QED
    BY <1>0, <1>5, <2>2 DEF AtWork
<1>7. StackAs(Steps, ms, builders, cs, Height, d)
  BY <1>1, <1>2, <1>3, <1>6, BackDown
<1>8. TakesUp(Steps, Top, d, N, L)
  <2>1. 0 \in 0 .. N + L
    BY <1>1
  <2> QED
    BY <1>0, <1>1, <1>4, <1>5, <2>1 DEF TakesUp
<1>9. \A i, e : (Owes(d, i, e) <=> <<i, e>> \in open) /\ ~Owing(d, i, e) /\ ~Hooked(d, i)
  BY <1>5 DEF Owes, Owing, Hooked
<1>10. OwesNew(d, new, N, L)
  <2>1. ASSUME NEW i \in Int, NEW e \in Edges, <<i, e>> \in open PROVE i - N \in 1 .. L
    BY <1>0, <1>1, <2>1
  <2> QED
    BY <1>0, <1>1, <1>5, <1>9, <2>1 DEF OwesNew
<1>11. HangsOnFirst(d, new, N, L)
  <2>1. ASSUME NEW S, Led(new, N, S), N + 1 \in S, NEW i \in Int, NEW e \in Edges, <<i, e>> \in open
        PROVE  i \in S
    <3>0. i - N \in 1 .. L
      BY <1>0, <1>1, <2>1
    <3>1. PICK j \in 1 .. L : j = i - N
      BY <3>0, Zenon
    <3>2. i = N + j
      BY <1>1, <3>1
    <3> QED
      BY <1>0, <2>1, <3>2
  <2> QED
    BY <1>0, <1>5, <1>9, <2>1 DEF HangsOnFirst
<1>12. \A b : b = builders[Height] => b = Top
  BY DEF Top
<1> QED
  BY <1>1, <1>7, <1>8, <1>10, <1>11, <1>12, Appends

(* A step with chains: its builder waits for the first of them, which gets a *)
(* builder of its own.                                                       *)
LEMMA OpensInOrder ==
  ASSUME NEW Steps, Good(Steps, nodes, builders), Top.todo # <<>>,
         NEW n, n = Head(Top.todo), ~Malformed(n), n.kind \in {"signal", "fork", "each", "choose"},
         NEW N, N = Len(nodes), NEW L \in Nat \ {0}, NEW new, NewNodes(new, N, L),
         Chained(n, new, N, L),
         NEW steps \in Seq(Steps), NEW join \in 0 .. N + L,
         n.kind \in {"fork", "each"} => join = N + 2,
         n.kind = "fork" => 0 < Len(n.arms), n.kind = "choose" => 0 < Len(n.cases),
         NEW ms, Longer(nodes, Top.open, N + 1, new, ms),
         NEW cs, Higher(Height, Waits(Attach(Top, N + 1), N + 1, <<>>), steps, join, cs)
  PROVE  Good(Steps, ms, cs)
<1>0. /\ \A at \in Int, e \in Edges : Due(n, at, e, 0) => at + 1 \in 1 .. L /\ Missing(new[at + 1], e)
      /\ \A j \in 1 .. L, e \in Edges : Lacks(new[j], e) => Due(n, j - 1, e, 0)
      /\ \A S : Led(new, N, S) /\ N + 1 \in S =>
                  \A j \in 1 .. L : N + j \in S \/ (n.kind \in {"fork", "each"} /\ j = 2)
      /\ n.kind = "choose" => L = Guards(n)
  BY Zenon DEF Chained
<1>1. /\ Height \in Nat \ {0} /\ Size(builders, Height)
      /\ N \in Nat /\ Size(nodes, N)
      /\ LevelOK(Steps, nodes, Top) /\ AtWork(Top) /\ IsBuilder(Top)
      /\ Top.start \in 0 .. N /\ Top.todo \in Seq(Steps)
  BY AtTop
<1>2. PICK a : a = Attach(Top, N + 1)
  OBVIOUS
<1>3. PICK d : d = Waits(a, N + 1, <<>>)
  OBVIOUS
<1>4. /\ IsBuilder(a) /\ a.todo = Top.todo /\ a.join = Top.join /\ a.open = {}
      /\ Top.open = {} /\ Top.start = 0 => a.start = N + 1
      /\ ~(Top.open = {} /\ Top.start = 0) => a.start = Top.start
  BY <1>1, <1>2, Attached
<1>5. /\ IsBuilder(d) /\ d.open = {} /\ d.todo = Top.todo /\ d.join = Top.join
      /\ d.id = N + 1 /\ d.starts = <<>> /\ d.start = a.start
  <2>1. /\ IsBuilder(d) /\ d.open = a.open /\ d.todo = a.todo /\ d.join = a.join
        /\ d.id = N + 1 /\ d.starts = <<>> /\ d.start = a.start
    BY <1>3, <1>4, WaitsWith
  <2> QED
    BY <1>4, <2>1
<1>6. PICK x : x = Builder(steps, join)
  OBVIOUS
<1>7. x.join = join
  BY <1>6 DEF Builder
<1>8. Waiting(d, x)
  <2>1. Top.start = 0 <=> Top.open = {}
    BY <1>1 DEF AtWork
  <2>2. d.start # 0 /\ d.id # 0 /\ N + 2 = d.id + 1
    BY <1>1, <1>4, <1>5, <2>1
  <2>3. Len(d.starts) = 0
    BY <1>5
  <2>4. Head(d.todo) = n /\ d.todo # <<>>
    BY <1>5
  <2> QED
    BY <1>5, <1>7, <2>2, <2>3, <2>4 DEF Waiting
<1>9. Len(ms) = N + L
  <2>1. DOMAIN nodes = 1 .. N /\ GraphOK(nodes)
    BY <1>1, GraphDomain DEF Good
  <2>2. PICK ps : ps = Wire(nodes, Top.open, N + 1)
    OBVIOUS
  <2>3. Size(ps, N)
    BY <2>1, <2>2, WireSets
  <2>4. L \in Nat /\ Size(new, L)
    BY DEF NewNodes
  <2>5. Joins(ps, N, new, L, ms)
    BY <1>1, <2>2, <2>3, <2>4, Extended DEF Longer
  <2> QED
    BY <2>5, Zenon DEF Joins, Size
<1>10. StackAs(Steps, ms, builders, cs, Height, d)
  BY <1>1, <1>2, <1>3, <1>6, <1>8, <1>9, OneHigher
<1>11. TakesUp(Steps, Top, d, N, L)
  <2>1. N + 1 \in 0 .. N + L
    BY <1>1
  <2> QED
    BY <1>1, <1>4, <1>5, <2>1 DEF TakesUp
<1>12. \A i, e : /\ ~(<<i, e>> \in d.open)
                 /\ Owes(d, i, e) <=> Due(n, i - (N + 1), e, 0)
                 /\ Hooked(d, i) <=> i = N + 1 \/ (n.kind = "choose" /\ i - (N + 1) \in 0 .. Guards(n) - 1)
                 /\ Pending(d, i) <=> n.kind \in {"fork", "each"} /\ i = N + 1 + 1
  <2>1. d.id # 0 /\ Len(d.starts) = 0 /\ Head(d.todo) = n
    BY <1>1, <1>5
  <2> QED
    BY <1>5, <2>1 DEF Owes, Owing, Hooked, Pending
<1>13. OwesNew(d, new, N, L)
  <2>1. ASSUME NEW i \in Int, NEW e \in Edges, Owes(d, i, e) PROVE i - N \in 1 .. L /\ Missing(new[i - N], e)
    <3>0. i - (N + 1) \in Int
      BY <1>1
    <3>1. PICK at \in Int : at = i - (N + 1)
      BY <3>0, Zenon
    <3>2. at + 1 = i - N
      BY <1>1, <3>1
    <3>3. Due(n, at, e, 0)
      BY <1>12, <2>1, <3>1
    <3>4. at + 1 \in 1 .. L /\ Missing(new[at + 1], e)
      BY <1>0, <3>3
    <3> QED
      BY <3>2, <3>4
  <2>2. ASSUME NEW j \in 1 .. L, NEW e \in Edges, Lacks(new[j], e) PROVE Owes(d, N + j, e)
    <3>1. j - 1 = (N + j) - (N + 1)
      BY <1>1
    <3>2. Due(n, j - 1, e, 0)
      BY <1>0, <2>2
    <3> QED
      BY <1>12, <3>1, <3>2
  <2>3. Head(d.todo) = n
    BY <1>5
  <2>4. /\ n.kind = "fork" => new[1].kind = "FORK"
        /\ n.kind = "each" => new[1].kind = "DYN_FORK"
    BY Zenon DEF Chained
  <2> QED
    BY <1>5, <1>12, <2>1, <2>2, <2>3, <2>4 DEF OwesNew
<1>14. HangsOnFirst(d, new, N, L)
  <2> SUFFICES ASSUME NEW S, Led(new, N, S), N + 1 \in S
               PROVE  /\ \A i \in Int : Hooked(d, i) \/ (\E e \in Edges : <<i, e>> \in d.open) => i \in S
                      /\ \A j \in 1 .. L : N + j \in S \/ Pending(d, N + j)
    BY DEF HangsOnFirst
  <2>1. \A j \in 1 .. L : N + j \in S \/ (n.kind \in {"fork", "each"} /\ j = 2)
    BY <1>0
  <2>2. ASSUME NEW i \in Int, Hooked(d, i) PROVE i \in S
    <3>1. CASE i = N + 1
      BY <3>1
    <3>2. CASE n.kind = "choose" /\ i - (N + 1) \in 0 .. Guards(n) - 1
      <4>1. i - N \in 1 .. L /\ i = N + (i - N)
        BY <1>0, <1>1, <3>2
      <4> QED
        BY <2>1, <3>2, <4>1
    <3> QED
      BY <1>12, <2>2, <3>1, <3>2
  <2>3. ASSUME NEW j \in 1 .. L PROVE N + j \in S \/ Pending(d, N + j)
    <3>1. j = 2 => N + j = N + 1 + 1
      BY <1>1
    <3> QED
      BY <1>12, <2>1, <3>1
  <2> QED
    BY <1>12, <2>2, <2>3
<1>15. \A b : b = builders[Height] => b = Top
  BY DEF Top
<1> QED
  BY <1>1, <1>10, <1>11, <1>13, <1>14, <1>15, Appends

----------------------------------------------------------------------------
(* The steps a builder appends. *)

(* The lengths of the short sequences of nodes a step appends.               *)
LEMMA Tuples ==
  ASSUME NEW x, NEW y, NEW z
  PROVE  Size(<<x>>, 1) /\ Size(<<x, y>>, 2) /\ Size(<<x, y, z>>, 3)
<1> DEFINE T == {x, y, z}
<1>1. <<x>> \in Seq(T) /\ <<x, y>> \in Seq(T) /\ <<x, y, z>> \in Seq(T)
  OBVIOUS
<1>2. Len(<<x>>) = 1 /\ Len(<<x, y>>) = 2 /\ Len(<<x, y, z>>) = 3
  OBVIOUS
<1> HIDE DEF T
<1>3. \A s : s \in Seq(T) => Size(s, Len(s))
  BY SeqSize
<1>4. Size(<<x>>, Len(<<x>>)) /\ Size(<<x, y>>, Len(<<x, y>>)) /\ Size(<<x, y, z>>, Len(<<x, y, z>>))
  BY <1>1, <1>3, Zenon
<1> QED
  BY <1>2, <1>4, Zenon

(* New nodes, and new nodes with a field set.                                *)
LEMMA NewNodeWith ==
  ASSUME NEW kind, NEW name, NEW v
  PROVE  /\ NodeIs(Node(kind, name), kind, 0, 0)
         /\ NodeIs([Node(kind, name) EXCEPT !.next = v], kind, v, 0)
         /\ NodeIs([Node(kind, name) EXCEPT !.alt = v], kind, 0, v)
         /\ NodeIs([Node(kind, name) EXCEPT !.expected = v], kind, 0, 0)
         /\ NodeIs([Node(kind, name) EXCEPT !.arms = v], kind, 0, 0)
         /\ NodeIs([Node(kind, name) EXCEPT !.collect = v], kind, 0, 0)
         /\ NodeIs([Node(kind, name) EXCEPT !.timeout = v], kind, 0, 0)
<1>1. NodeIs(Node(kind, name), kind, 0, 0)
  BY NewNode DEF NodeIs
<1>2. NodeIs([Node(kind, name) EXCEPT !.next = v], kind, v, 0)
  BY NewNode, SetNext DEF NodeIs
<1>3. NodeIs([Node(kind, name) EXCEPT !.alt = v], kind, 0, v)
  BY NewNode, SetAlt DEF NodeIs
<1>4. NodeIs([Node(kind, name) EXCEPT !.expected = v], kind, 0, 0)
  <2>1. PICK n : n = [Node(kind, name) EXCEPT !.expected = v]
    OBVIOUS
  <2>2. n = [kind |-> kind, name |-> name, next |-> 0, alt |-> 0, branches |-> <<>>,
             expected |-> v, arms |-> <<>>, collect |-> NoCollect, timeout |-> 0]
    BY <2>1 DEF Node
  <2>3. NodeIs(n, kind, 0, 0)
    BY <2>2 DEF NodeIs, IsNode
  <2> QED
    BY <2>1, <2>3
<1>5. NodeIs([Node(kind, name) EXCEPT !.arms = v], kind, 0, 0)
  <2>1. PICK n : n = [Node(kind, name) EXCEPT !.arms = v]
    OBVIOUS
  <2>2. n = [kind |-> kind, name |-> name, next |-> 0, alt |-> 0, branches |-> <<>>,
             expected |-> 0, arms |-> v, collect |-> NoCollect, timeout |-> 0]
    BY <2>1 DEF Node
  <2>3. NodeIs(n, kind, 0, 0)
    BY <2>2 DEF NodeIs, IsNode
  <2> QED
    BY <2>1, <2>3
<1>6. NodeIs([Node(kind, name) EXCEPT !.collect = v], kind, 0, 0)
  <2>1. PICK n : n = [Node(kind, name) EXCEPT !.collect = v]
    OBVIOUS
  <2>2. n = [kind |-> kind, name |-> name, next |-> 0, alt |-> 0, branches |-> <<>>,
             expected |-> 0, arms |-> <<>>, collect |-> v, timeout |-> 0]
    BY <2>1 DEF Node
  <2>3. NodeIs(n, kind, 0, 0)
    BY <2>2 DEF NodeIs, IsNode
  <2> QED
    BY <2>1, <2>3
<1>7. NodeIs([Node(kind, name) EXCEPT !.timeout = v], kind, 0, 0)
  BY DEF NodeIs, Node, IsNode
<1> QED
  BY <1>1, <1>2, <1>3, <1>4, <1>5, <1>6, <1>7, Zenon

(* A step that is one node from which the builder goes on.                   *)
LEMMA OneNode ==
  ASSUME NEW Steps, Good(Steps, nodes, builders), Top.todo # <<>>,
         NEW n, NodeIs(n, n.kind, 0, 0), n.kind \in {"TASK", "SLEEP", "SUB_WORKFLOW", "SIGNAL"},
         NEW N, N = Len(nodes),
         NEW ms, Longer(nodes, Top.open, N + 1, <<n>>, ms),
         NEW cs, Lower(Height, Done(Attach(Top, N + 1), {<<N + 1, "next">>}), cs)
  PROVE  Good(Steps, ms, cs)
<1>1. N \in Nat
  BY AtTop
<1>2. PICK new : new = <<n>>
  OBVIOUS
<1>3. new[1] = n /\ Size(new, 1) /\ \A j \in 1 .. 1 : j = 1
  <2>1. Size(new, 1)
    BY <1>2, Tuples
  <2> QED
    BY <1>2, <2>1
<1>4. NewNodes(new, N, 1)
  <2>1. 0 \in 0 .. N + 1 /\ <<>> \in Seq(1 .. N + 1)
    BY <1>1
  <2>2. NodeWithin(n, N + 1)
    BY <2>1 DEF NodeIs, NodeWithin
  <2> QED
    BY <1>3, <2>2, Zenon DEF NewNodes
<1>5. PICK open : open = {<<N + 1, "next">>}
  OBVIOUS
<1>6. open \subseteq (N + 1 .. N + 1) \X {"next", "alt"} /\ open # {}
  BY <1>1, <1>5
<1>7. \A i \in Int, e \in Edges : <<i, e>> \in open => Missing(new[i - N], e)
  BY <1>1, <1>3, <1>5 DEF Missing, NodeIs
<1>8. \A j \in 1 .. 1, e \in Edges : Lacks(new[j], e) => <<N + j, e>> \in open
  BY <1>3, <1>5 DEF Lacks, NodeIs
<1>9. \A S : Led(new, N, S) /\ N + 1 \in S => \A j \in 1 .. 1 : N + j \in S
  BY <1>3
<1>10. Onward(open, new, N, 1)
  BY <1>6, <1>7, <1>8, <1>9, Zenon DEF Onward
<1>11. Longer(nodes, Top.open, N + 1, new, ms) /\ Lower(Height, Done(Attach(Top, N + 1), open), cs)
  BY <1>2, <1>5
<1>12. 1 \in Nat \ {0}
  OBVIOUS
<1> QED
  BY <1>4, <1>10, <1>11, <1>12, GoesOnInOrder

(* A task, with the join and the combine of its branches if it creates any   *)
(* (appendTask), keeps the invariant.                                        *)
LEMMA TaskKeeps ==
  ASSUME NEW Steps, Good(Steps, nodes, builders), AppendTask
  PROVE  Good(Steps, nodes', builders')
<1>1. Top.todo # <<>>
  BY DEF AppendTask, Comes
<1>2. PICK N \in Nat : N = Len(nodes)
  BY AtTop
<1>3. Id = N + 1
  BY <1>2 DEF Id
<1>4. CASE Step.combine = NoName
  <2>1. PICK n : n = Node("TASK", Step.name)
    OBVIOUS
  <2>a. NodeIs(n, "TASK", 0, 0)
    BY <2>1, NewNodeWith
  <2>2. NodeIs(n, n.kind, 0, 0) /\ n.kind = "TASK"
    BY <2>a DEF NodeIs
  <2>3. Longer(nodes, Top.open, N + 1, <<n>>, nodes')
    BY <1>3, <1>4, <2>1, Zenon DEF AppendTask, Adds, Longer
  <2>4. Lower(Height, Done(Attach(Top, N + 1), {<<N + 1, "next">>}), builders')
    BY <1>3, <1>4, Zenon DEF AppendTask, GoesOn, Lower
  <2> QED
    BY <1>1, <1>2, <2>2, <2>3, <2>4, OneNode
<1>5. CASE Step.combine # NoName
  <2>1. PICK x : x = [Node("TASK", Step.name) EXCEPT !.next = N + 2]
    OBVIOUS
  <2>2. PICK y : y = [Node("JOIN", NoName) EXCEPT !.next = N + 3]
    OBVIOUS
  <2>3. PICK z : z = [Node("TASK", Step.combine) EXCEPT !.collect = <<"spawn", Step.name>>]
    OBVIOUS
  <2>4. NodeIs(x, "TASK", N + 2, 0)
    BY <2>1, NewNodeWith
  <2>5. NodeIs(y, "JOIN", N + 3, 0)
    BY <2>2, NewNodeWith
  <2>6. NodeIs(z, "TASK", 0, 0)
    BY <2>3, NewNodeWith
  <2>7. PICK new : new = <<x, y, z>>
    OBVIOUS
  <2>8. Size(new, 3) /\ new[1] = x /\ new[2] = y /\ new[3] = z
    BY <2>7, Tuples
  <2>9. PICK open : open = {<<N + 3, "next">>}
    OBVIOUS
  <2>10. Longer(nodes, Top.open, N + 1, new, nodes')
    <3>1. Id + 1 = N + 2 /\ Id + 2 = N + 3
      BY <1>3
    <3> QED
      BY <1>3, <1>5, <2>1, <2>2, <2>3, <2>7, <3>1, Zenon DEF AppendTask, Adds, Longer
  <2>11. Lower(Height, Done(Attach(Top, N + 1), open), builders')
    <3>1. Id + 2 = N + 3
      BY <1>3
    <3> QED
      BY <1>3, <1>5, <2>9, <3>1, Zenon DEF AppendTask, GoesOn, Lower
  <2>12. \A j \in 1 .. 3 : j = 1 \/ j = 2 \/ j = 3
    OBVIOUS
  <2>13. NewNodes(new, N, 3)
    <3>0. <<>> \in Seq(1 .. N + 3)
      OBVIOUS
    <3>1. NodeWithin(x, N + 3)
      BY <2>4, <3>0 DEF NodeIs, NodeWithin
    <3>2. NodeWithin(y, N + 3)
      BY <2>5, <3>0 DEF NodeIs, NodeWithin
    <3>3. NodeWithin(z, N + 3)
      BY <2>6, <3>0 DEF NodeIs, NodeWithin
    <3> QED
      BY <2>8, <2>12, <3>1, <3>2, <3>3, Zenon DEF NewNodes
  <2>14. open \subseteq (N + 1 .. N + 3) \X {"next", "alt"} /\ open # {}
    BY <2>9
  <2>15. \A i \in Int, e \in Edges : <<i, e>> \in open => Missing(new[i - N], e)
    BY <2>6, <2>8, <2>9 DEF Missing, NodeIs
  <2>16. \A j \in 1 .. 3, e \in Edges : Lacks(new[j], e) => <<N + j, e>> \in open
    BY <2>4, <2>5, <2>6, <2>8, <2>9, <2>12 DEF Lacks, NodeIs
  <2>17. ASSUME NEW S, Led(new, N, S), N + 1 \in S PROVE \A j \in 1 .. 3 : N + j \in S
    <3>1. DOMAIN new = 1 .. 3
      BY <2>8, AnySeq DEF Size
    <3>2. N + 2 \in S
      BY <2>4, <2>8, <2>17, <3>1 DEF Led, NodeIs
    <3>3. N + 3 \in S
      BY <2>5, <2>8, <2>17, <3>1, <3>2 DEF Led, NodeIs
    <3> QED
      BY <2>12, <2>17, <3>2, <3>3
  <2>18. Onward(open, new, N, 3)
    BY <2>14, <2>15, <2>16, <2>17, Zenon DEF Onward
  <2>19. 3 \in Nat \ {0}
    OBVIOUS
  <2> QED
    BY <1>1, <1>2, <2>10, <2>11, <2>13, <2>18, <2>19, GoesOnInOrder
<1> QED
  BY <1>4, <1>5

(* A sleep keeps the invariant.                                              *)
LEMMA SleepKeeps ==
  ASSUME NEW Steps, Good(Steps, nodes, builders), AppendSleep
  PROVE  Good(Steps, nodes', builders')
<1>1. Top.todo # <<>>
  BY DEF AppendSleep, Comes
<1>2. PICK N \in Nat : N = Len(nodes)
  BY AtTop
<1>3. Id = N + 1
  BY <1>2 DEF Id
<1>4. PICK n : n = Node("SLEEP", NoName)
  OBVIOUS
<1>5. NodeIs(n, "SLEEP", 0, 0)
  BY <1>4, NewNodeWith
<1>6. NodeIs(n, n.kind, 0, 0) /\ n.kind = "SLEEP"
  BY <1>5 DEF NodeIs
<1>7. Longer(nodes, Top.open, N + 1, <<n>>, nodes')
  BY <1>3, <1>4, Zenon DEF AppendSleep, Adds, Longer
<1>8. Lower(Height, Done(Attach(Top, N + 1), {<<N + 1, "next">>}), builders')
  BY <1>3, Zenon DEF AppendSleep, GoesOn, Lower
<1> QED
  BY <1>1, <1>2, <1>6, <1>7, <1>8, OneNode

(* A sub workflow keeps the invariant.                                       *)
LEMMA SubFlowKeeps ==
  ASSUME NEW Steps, Good(Steps, nodes, builders), AppendSubFlow
  PROVE  Good(Steps, nodes', builders')
<1>1. Top.todo # <<>>
  BY DEF AppendSubFlow, Comes
<1>2. PICK N \in Nat : N = Len(nodes)
  BY AtTop
<1>3. Id = N + 1
  BY <1>2 DEF Id
<1>4. PICK n : n = Node("SUB_WORKFLOW", Step.name)
  OBVIOUS
<1>5. NodeIs(n, "SUB_WORKFLOW", 0, 0)
  BY <1>4, NewNodeWith
<1>6. NodeIs(n, n.kind, 0, 0) /\ n.kind = "SUB_WORKFLOW"
  BY <1>5 DEF NodeIs
<1>7. Longer(nodes, Top.open, N + 1, <<n>>, nodes')
  BY <1>3, <1>4, Zenon DEF AppendSubFlow, Adds, Longer
<1>8. Lower(Height, Done(Attach(Top, N + 1), {<<N + 1, "next">>}), builders')
  BY <1>3, Zenon DEF AppendSubFlow, GoesOn, Lower
<1> QED
  BY <1>1, <1>2, <1>6, <1>7, <1>8, OneNode

(* A gate, whose other edge leads to the join of its arm or to an end of     *)
(* its own, keeps the invariant.                                             *)
LEMMA GateKeeps ==
  ASSUME NEW Steps, Good(Steps, nodes, builders), AppendGate
  PROVE  Good(Steps, nodes', builders')
<1>1. Top.todo # <<>>
  BY DEF AppendGate, Comes
<1>2. PICK N \in Nat : N = Len(nodes)
  BY AtTop
<1>3. Id = N + 1
  BY <1>2 DEF Id
<1>4. PICK open : open = {<<N + 1, "next">>}
  OBVIOUS
<1>5. Lower(Height, Done(Attach(Top, N + 1), open), builders')
  BY <1>3, <1>4, Zenon DEF AppendGate, GoesOn, Lower
<1>6. <<>> \in Seq(1 .. N + 1) /\ <<>> \in Seq(1 .. N + 2)
  OBVIOUS
<1>7. CASE Top.join # 0
  <2>1. PICK n : n = [Node("PREDICATE", Step.name) EXCEPT !.alt = Top.join]
    OBVIOUS
  <2>2. NodeIs(n, "PREDICATE", 0, Top.join)
    BY <2>1, NewNodeWith
  <2>3. PICK new : new = <<n>>
    OBVIOUS
  <2>4. Longer(nodes, Top.open, N + 1, new, nodes')
    BY <1>3, <1>7, <2>1, <2>3, Zenon DEF AppendGate, Adds, Longer
  <2>5. Size(new, 1)
    BY <2>3, Tuples
  <2>6. new[1] = n /\ \A j \in 1 .. 1 : j = 1
    BY <2>3
  <2>7. NewNodes(new, N, 1)
    <3>1. Top.join \in 0 .. N
      BY <1>2, AtTop
    <3>2. NodeWithin(n, N + 1)
      BY <1>6, <2>2, <3>1 DEF NodeIs, NodeWithin
    <3> QED
      BY <2>5, <2>6, <3>2, Zenon DEF NewNodes
  <2>8. Onward(open, new, N, 1)
    <3>1. open \subseteq (N + 1 .. N + 1) \X {"next", "alt"} /\ open # {}
      BY <1>4
    <3>2. \A i \in Int, e \in Edges : <<i, e>> \in open => Missing(new[i - N], e)
      BY <1>4, <2>2, <2>6 DEF Missing, NodeIs
    <3>3. \A j \in 1 .. 1, e \in Edges : Lacks(new[j], e) => <<N + j, e>> \in open
      BY <1>4, <1>7, <2>2, <2>6 DEF Lacks, NodeIs
    <3>4. \A S : Led(new, N, S) /\ N + 1 \in S => \A j \in 1 .. 1 : N + j \in S
      BY <2>6
    <3> QED
      BY <3>1, <3>2, <3>3, <3>4, Zenon DEF Onward
  <2>9. 1 \in Nat \ {0}
    OBVIOUS
  <2> QED
    BY <1>1, <1>2, <1>5, <2>4, <2>7, <2>8, <2>9, GoesOnInOrder
<1>8. CASE Top.join = 0
  <2>1. PICK n : n = [Node("PREDICATE", Step.name) EXCEPT !.alt = N + 2]
    OBVIOUS
  <2>2. PICK last : last = Node("END", Step.name)
    OBVIOUS
  <2>3. NodeIs(n, "PREDICATE", 0, N + 2) /\ NodeIs(last, "END", 0, 0)
    BY <2>1, <2>2, NewNodeWith
  <2>4. PICK new : new = <<n, last>>
    OBVIOUS
  <2>5. Longer(nodes, Top.open, N + 1, new, nodes')
    <3>1. Id + 1 = N + 2
      BY <1>3
    <3> QED
      BY <1>3, <1>8, <2>1, <2>2, <2>4, <3>1, Zenon DEF AppendGate, Adds, Longer
  <2>6. Size(new, 2)
    BY <2>4, Tuples
  <2>7. new[1] = n /\ new[2] = last /\ \A j \in 1 .. 2 : j = 1 \/ j = 2
    BY <2>4
  <2>8. NewNodes(new, N, 2)
    <3>1. NodeWithin(n, N + 2)
      BY <1>6, <2>3 DEF NodeIs, NodeWithin
    <3>2. NodeWithin(last, N + 2)
      BY <1>6, <2>3 DEF NodeIs, NodeWithin
    <3> QED
      BY <2>6, <2>7, <3>1, <3>2, Zenon DEF NewNodes
  <2>9. Onward(open, new, N, 2)
    <3>1. open \subseteq (N + 1 .. N + 2) \X {"next", "alt"} /\ open # {}
      BY <1>4
    <3>2. \A i \in Int, e \in Edges : <<i, e>> \in open => Missing(new[i - N], e)
      BY <1>4, <2>3, <2>7 DEF Missing, NodeIs
    <3>3. \A j \in 1 .. 2, e \in Edges : Lacks(new[j], e) => <<N + j, e>> \in open
      BY <1>4, <2>3, <2>7 DEF Lacks, NodeIs
    <3>4. ASSUME NEW S, Led(new, N, S), N + 1 \in S PROVE \A j \in 1 .. 2 : N + j \in S
      <4>1. DOMAIN new = 1 .. 2
        BY <2>6, AnySeq DEF Size
      <4>2. N + 2 \in S
        BY <2>3, <2>7, <3>4, <4>1 DEF Led, NodeIs
      <4> QED
        BY <2>7, <3>4, <4>2
    <3> QED
      BY <3>1, <3>2, <3>3, <3>4, Zenon DEF Onward
  <2>10. 2 \in Nat \ {0}
    OBVIOUS
  <2> QED
    BY <1>1, <1>2, <1>5, <2>5, <2>8, <2>9, <2>10, GoesOnInOrder
<1> QED
  BY <1>7, <1>8

(* A signal keeps the invariant: its timeout edge waits for the              *)
(* escalation, if there is one.                                              *)
LEMMA SignalKeeps ==
  ASSUME NEW Steps, Closed(Steps), Good(Steps, nodes, builders), AppendSignal
  PROVE  Good(Steps, nodes', builders')
<1>1. Top.todo # <<>> /\ Step.kind = "signal" /\ ~Malformed(Step)
  BY DEF AppendSignal, Comes
<1>2. PICK N \in Nat : N = Len(nodes)
  BY AtTop
<1>3. Id = N + 1
  BY <1>2 DEF Id
<1>4. PICK n : n = [Node("SIGNAL", Step.name) EXCEPT !.timeout = Milliseconds(Step.timeout)]
  OBVIOUS
<1>5. NodeIs(n, "SIGNAL", 0, 0)
  BY <1>4, NewNodeWith
<1>6. PICK new : new = <<n>>
  OBVIOUS
<1>7. Longer(nodes, Top.open, N + 1, new, nodes')
  BY <1>3, <1>4, <1>6, Zenon DEF AppendSignal, Adds, Longer
<1>8. CASE Step.escalation = <<>>
  <2>1. NodeIs(n, n.kind, 0, 0) /\ n.kind = "SIGNAL"
    BY <1>5 DEF NodeIs
  <2>2. Lower(Height, Done(Attach(Top, N + 1), {<<N + 1, "next">>}), builders')
    BY <1>3, <1>8, Zenon DEF AppendSignal, GoesOn, Lower
  <2>3. Longer(nodes, Top.open, N + 1, <<n>>, nodes')
    BY <1>6, <1>7
  <2> QED
    BY <1>1, <1>2, <2>1, <2>2, <2>3, OneNode
<1>9. CASE Step.escalation # <<>>
  <2>1. Higher(Height, Waits(Attach(Top, N + 1), N + 1, <<>>), Step.escalation, Top.join, builders')
    BY <1>3, <1>9, Zenon DEF AppendSignal, Opens, Higher
  <2>2. Size(new, 1)
    BY <1>6, Tuples
  <2>3. new[1] = n /\ \A j \in 1 .. 1 : j = 1
    BY <1>6
  <2>4. NewNodes(new, N, 1)
    <3>1. <<>> \in Seq(1 .. N + 1) /\ 0 \in 0 .. N + 1
      OBVIOUS
    <3>2. NodeWithin(n, N + 1)
      BY <1>5, <3>1 DEF NodeIs, NodeWithin
    <3> QED
      BY <2>2, <2>3, <3>2, Zenon DEF NewNodes
  <2>5. Chained(Step, new, N, 1)
    <3>1. \A at \in Int, e \in Edges : Due(Step, at, e, 0) => at + 1 \in 1 .. 1 /\ Missing(new[at + 1], e)
      BY <1>1, <1>5, <2>3 DEF Due, Missing, NodeIs
    <3>2. \A j \in 1 .. 1, e \in Edges : Lacks(new[j], e) => Due(Step, j - 1, e, 0)
      BY <1>1, <1>5, <2>3 DEF Due, Lacks, NodeIs
    <3>3. \A S : Led(new, N, S) /\ N + 1 \in S =>
                   \A j \in 1 .. 1 : N + j \in S \/ (Step.kind \in {"fork", "each"} /\ j = 2)
      BY <2>3
    <3> QED
      BY <1>1, <3>1, <3>2, <3>3 DEF Chained
  <2>6. Step \in Steps /\ Step.escalation \in Seq(Steps)
    BY <1>1, AtTop DEF Step, Closed
  <2>7. Top.join \in 0 .. N + 1
    BY <1>2, AtTop
  <2>8. Step = Head(Top.todo) /\ 1 \in Nat \ {0}
    BY DEF Step
  <2> QED
    BY <1>1, <1>2, <1>7, <2>1, <2>4, <2>5, <2>6, <2>7, <2>8, OpensInOrder
<1> QED
  BY <1>8, <1>9

(* A fork keeps the invariant: it and its join wait for the arms.            *)
LEMMA ForkKeeps ==
  ASSUME NEW Steps, Closed(Steps), Good(Steps, nodes, builders), AppendFork
  PROVE  Good(Steps, nodes', builders')
<1>1. Top.todo # <<>> /\ Step.kind = "fork" /\ ~Malformed(Step)
  BY DEF AppendFork, Comes
<1>2. PICK N \in Nat : N = Len(nodes)
  BY AtTop
<1>3. Id = N + 1 /\ Id + 1 = N + 2
  BY <1>2 DEF Id
<1>4. PICK x : x = Node("FORK", NoName)
  OBVIOUS
<1>5. PICK y : y = [Node("JOIN", NoName) EXCEPT !.expected = Len(Step.arms)]
  OBVIOUS
<1>6. NodeIs(x, "FORK", 0, 0) /\ NodeIs(y, "JOIN", 0, 0)
  BY <1>4, <1>5, NewNodeWith
<1>7. PICK new : new = <<x, y>>
  OBVIOUS
<1>8. Longer(nodes, Top.open, N + 1, new, nodes')
  BY <1>3, <1>4, <1>5, <1>7, Zenon DEF AppendFork, Adds, Longer
<1>9. Higher(Height, Waits(Attach(Top, N + 1), N + 1, <<>>), Step.arms[1], N + 2, builders')
  BY <1>3, Zenon DEF AppendFork, Opens, Higher
<1>10. Size(new, 2)
  BY <1>7, Tuples
<1>11. new[1] = x /\ new[2] = y /\ \A j \in 1 .. 2 : j = 1 \/ j = 2
  BY <1>7
<1>12. NewNodes(new, N, 2)
  <2>1. <<>> \in Seq(1 .. N + 2) /\ 0 \in 0 .. N + 2
    OBVIOUS
  <2>2. NodeWithin(x, N + 2)
    BY <1>6, <2>1 DEF NodeIs, NodeWithin
  <2>3. NodeWithin(y, N + 2)
    BY <1>6, <2>1 DEF NodeIs, NodeWithin
  <2> QED
    BY <1>10, <1>11, <2>2, <2>3, Zenon DEF NewNodes
<1>13. Chained(Step, new, N, 2)
  <2>1. \A at \in Int, e \in Edges : Due(Step, at, e, 0) => at + 1 \in 1 .. 2 /\ Missing(new[at + 1], e)
    BY <1>1, <1>6, <1>11 DEF Due, Missing, NodeIs
  <2>2. \A j \in 1 .. 2, e \in Edges : Lacks(new[j], e) => Due(Step, j - 1, e, 0)
    BY <1>1, <1>6, <1>11 DEF Due, Lacks, NodeIs
  <2>3. \A S : Led(new, N, S) /\ N + 1 \in S =>
                 \A j \in 1 .. 2 : N + j \in S \/ (Step.kind \in {"fork", "each"} /\ j = 2)
    BY <1>1, <1>11
  <2> QED
    BY <1>1, <1>6, <1>11, <2>1, <2>2, <2>3 DEF Chained, NodeIs
<1>14. Step.arms \in Seq(Seq(Steps)) /\ Step = Head(Top.todo)
  BY <1>1, AtTop DEF Step, Closed
<1>15. Len(Step.arms) >= 2
  <2>1. Len(Step.arms) \in Nat
    BY <1>14
  <2> QED
    BY <1>1, <2>1 DEF Malformed
<1>16. Step.arms[1] \in Seq(Steps) /\ 0 < Len(Step.arms)
  BY <1>14, <1>15
<1>17. N + 2 \in 0 .. N + 2 /\ 2 \in Nat \ {0}
  OBVIOUS
<1> QED
  BY <1>1, <1>2, <1>8, <1>9, <1>12, <1>13, <1>14, <1>16, <1>17, OpensInOrder

(* A forEach keeps the invariant: its dynamic fork and the join wait for     *)
(* the body.                                                                 *)
LEMMA ForEachKeeps ==
  ASSUME NEW Steps, Closed(Steps), Good(Steps, nodes, builders), AppendForEach
  PROVE  Good(Steps, nodes', builders')
<1>1. Top.todo # <<>> /\ Step.kind = "each" /\ ~Malformed(Step)
  BY DEF AppendForEach, Comes
<1>2. PICK N \in Nat : N = Len(nodes)
  BY AtTop
<1>3. Id = N + 1 /\ Id + 1 = N + 2
  BY <1>2 DEF Id
<1>4. PICK x : x = Node("DYN_FORK", Step.name)
  OBVIOUS
<1>5. PICK y : y = Node("JOIN", NoName)
  OBVIOUS
<1>6. NodeIs(x, "DYN_FORK", 0, 0) /\ NodeIs(y, "JOIN", 0, 0)
  BY <1>4, <1>5, NewNodeWith
<1>7. PICK new : new = <<x, y>>
  OBVIOUS
<1>8. Longer(nodes, Top.open, N + 1, new, nodes')
  BY <1>3, <1>4, <1>5, <1>7, Zenon DEF AppendForEach, Adds, Longer
<1>9. Higher(Height, Waits(Attach(Top, N + 1), N + 1, <<>>), Step.body, N + 2, builders')
  BY <1>3, Zenon DEF AppendForEach, Opens, Higher
<1>10. Size(new, 2)
  BY <1>7, Tuples
<1>11. new[1] = x /\ new[2] = y /\ \A j \in 1 .. 2 : j = 1 \/ j = 2
  BY <1>7
<1>12. NewNodes(new, N, 2)
  <2>1. <<>> \in Seq(1 .. N + 2) /\ 0 \in 0 .. N + 2
    OBVIOUS
  <2>2. NodeWithin(x, N + 2)
    BY <1>6, <2>1 DEF NodeIs, NodeWithin
  <2>3. NodeWithin(y, N + 2)
    BY <1>6, <2>1 DEF NodeIs, NodeWithin
  <2> QED
    BY <1>10, <1>11, <2>2, <2>3, Zenon DEF NewNodes
<1>13. Chained(Step, new, N, 2)
  <2>1. \A at \in Int, e \in Edges : Due(Step, at, e, 0) => at + 1 \in 1 .. 2 /\ Missing(new[at + 1], e)
    BY <1>1, <1>6, <1>11 DEF Due, Missing, NodeIs
  <2>2. \A j \in 1 .. 2, e \in Edges : Lacks(new[j], e) => Due(Step, j - 1, e, 0)
    BY <1>1, <1>6, <1>11 DEF Due, Lacks, NodeIs
  <2>3. \A S : Led(new, N, S) /\ N + 1 \in S =>
                 \A j \in 1 .. 2 : N + j \in S \/ (Step.kind \in {"fork", "each"} /\ j = 2)
    BY <1>1, <1>11
  <2> QED
    BY <1>1, <1>6, <1>11, <2>1, <2>2, <2>3 DEF Chained, NodeIs
<1>14. Step.body \in Seq(Steps) /\ Step = Head(Top.todo)
  BY <1>1, AtTop DEF Step, Closed
<1>15. N + 2 \in 0 .. N + 2 /\ 2 \in Nat \ {0}
  OBVIOUS
<1> QED
  BY <1>1, <1>2, <1>8, <1>9, <1>12, <1>13, <1>14, <1>15, OpensInOrder

(* A choice has no more guards than cases, and one at least.                 *)
LEMMA GuardsOfCases ==
  ASSUME NEW Steps, Closed(Steps), NEW n \in Steps, n.kind = "choose"
  PROVE  /\ Len(n.cases) \in Nat /\ Guards(n) \in Int /\ Guards(n) <= Len(n.cases)
         /\ Len(n.cases) <= Guards(n) + 1 /\ (~HasDefault(n) => Guards(n) = Len(n.cases))
         /\ (HasDefault(n) => Guards(n) = Len(n.cases) - 1)
         /\ \A i \in 1 .. Len(n.cases) : n.cases[i].then \in Seq(Steps)
         /\ Guards(n) # 0 => Guards(n) \in Nat \ {0} /\ 0 < Len(n.cases)
<1>1. PICK W : n.cases \in Seq([when : W, then : Seq(Steps)])
  BY DEF Closed
<1>2. Len(n.cases) \in Nat /\ \A i \in 1 .. Len(n.cases) : n.cases[i].then \in Seq(Steps)
  <2>1. PICK T : T = [when : W, then : Seq(Steps)]
    OBVIOUS
  <2>2. n.cases \in Seq(T)
    BY <1>1, <2>1
  <2>3. Len(n.cases) \in Nat /\ \A i \in 1 .. Len(n.cases) : n.cases[i] \in T
    BY <2>2, SeqSize
  <2>4. \A c \in T : c.then \in Seq(Steps)
    BY <2>1
  <2> QED
    BY <2>3, <2>4
<1>3. n.cases = <<>> \/ Len(n.cases) > 0
  BY <1>1
<1>4. HasDefault(n) => Len(n.cases) > 0
  BY <1>3 DEF HasDefault
<1>5. PICK g : g = Guards(n)
  OBVIOUS
<1>6. (HasDefault(n) => g = Len(n.cases) - 1) /\ (~HasDefault(n) => g = Len(n.cases))
  BY <1>5 DEF Guards
<1> QED
  BY <1>2, <1>4, <1>5, <1>6

(* The guards of a choice keep the invariant: each waits for its case, the   *)
(* last one for the default too (appendChoose).                              *)
LEMMA ChooseKeeps ==
  ASSUME NEW Steps, Closed(Steps), Good(Steps, nodes, builders), AppendChoose
  PROVE  Good(Steps, nodes', builders')
<1>1. Top.todo # <<>> /\ Step.kind = "choose" /\ ~Malformed(Step)
  BY DEF AppendChoose, Comes
<1>2. PICK N \in Nat : N = Len(nodes)
  BY AtTop
<1>3. Id = N + 1
  BY <1>2 DEF Id
<1>4. PICK L : L = Guards(Step)
  OBVIOUS
<1>5. Step \in Steps /\ Step = Head(Top.todo)
  BY <1>1, AtTop DEF Step
<1>6. L \in Nat \ {0} /\ 0 < Len(Step.cases) /\ Step.cases[1].then \in Seq(Steps)
  <2>1. L # 0
    BY <1>1, <1>4 DEF Malformed
  <2> QED
    BY <1>1, <1>4, <1>5, <2>1, GuardsOfCases
<1>7. PICK new : new = [i \in 1 .. L |->
                          [Node("PREDICATE", Step.cases[i].when) EXCEPT
                             !.alt = IF i < L THEN Id + i ELSE 0]]
  OBVIOUS
<1>8. Longer(nodes, Top.open, N + 1, new, nodes')
  BY <1>3, <1>4, <1>7, Zenon DEF AppendChoose, Adds, Longer
<1>9. Higher(Height, Waits(Attach(Top, N + 1), N + 1, <<>>), Step.cases[1].then, Top.join, builders')
  BY <1>3, Zenon DEF AppendChoose, Opens, Higher
<1>10. \A i \in 1 .. L : /\ i < L => NodeIs(new[i], "PREDICATE", 0, N + 1 + i)
                         /\ i = L => NodeIs(new[i], "PREDICATE", 0, 0)
  <2> TAKE i \in 1 .. L
  <2>1. PICK v : v = IF i < L THEN Id + i ELSE 0
    OBVIOUS
  <2>2. new[i] = [Node("PREDICATE", Step.cases[i].when) EXCEPT !.alt = v]
    BY <1>7, <2>1
  <2>3. NodeIs(new[i], "PREDICATE", 0, v)
    <3>1. \A name : NodeIs([Node("PREDICATE", name) EXCEPT !.alt = v], "PREDICATE", 0, v)
      BY NewNodeWith
    <3> QED
      BY <2>2, <3>1, Zenon
  <2>4. (i < L => v = N + 1 + i) /\ (i = L => v = 0)
    BY <1>3, <1>6, <2>1
  <2> QED
    BY <2>3, <2>4
<1>11. Size(new, L) /\ DOMAIN new = 1 .. L
  <2>1. DOMAIN new = 1 .. L /\ new = [i \in 1 .. L |-> new[i]]
    BY <1>7
  <2>2. new \in [1 .. L -> Range(new)]
    BY <2>1 DEF Range
  <2>3. new \in Seq(Range(new)) /\ Len(new) = L
    BY <1>6, <2>1, <2>2, SeqDef
  <2> QED
    BY <2>1, <2>3 DEF Size
<1> HIDE <1>7
<1>12. NewNodes(new, N, L)
  <2>1. ASSUME NEW i \in 1 .. L PROVE NodeWithin(new[i], N + L)
    <3>1. <<>> \in Seq(1 .. N + L) /\ 0 \in 0 .. N + L
      BY <1>6
    <3>2. CASE i < L
      <4>1. N + 1 + i \in 0 .. N + L
        BY <1>6, <3>2
      <4> QED
        BY <1>10, <3>1, <3>2, <4>1 DEF NodeIs, NodeWithin
    <3>3. CASE i = L
      BY <1>10, <3>1, <3>3 DEF NodeIs, NodeWithin
    <3> QED
      BY <1>6, <3>2, <3>3
  <2> QED
    BY <1>11, <2>1 DEF NewNodes
<1>13. Chained(Step, new, N, L)
  <2>1. ASSUME NEW at \in Int, NEW e \in Edges, Due(Step, at, e, 0)
        PROVE  at + 1 \in 1 .. L /\ Missing(new[at + 1], e)
    <3>1. (at \in 0 .. L - 1 /\ e = "next") \/ (at = L - 1 /\ e = "alt")
      BY <1>1, <1>4, <2>1 DEF Due
    <3>2. at + 1 \in 1 .. L /\ (at = L - 1 => at + 1 = L)
      BY <1>6, <3>1
    <3>3. PICK j \in 1 .. L : j = at + 1
      BY <3>2, Zenon
    <3>4. j < L \/ j = L
      BY <1>6
    <3>5. new[j].next = 0 /\ (j = L => new[j].alt = 0)
      BY <1>10, <3>4 DEF NodeIs
    <3>6. Missing(new[j], e)
      BY <3>1, <3>2, <3>3, <3>5 DEF Missing
    <3> QED
      BY <3>3, <3>6
  <2>2. ASSUME NEW j \in 1 .. L, NEW e \in Edges, Lacks(new[j], e)
        PROVE  Due(Step, j - 1, e, 0)
    <3>1. CASE j < L
      <4>1. new[j].alt = N + 1 + j /\ new[j].kind = "PREDICATE"
        BY <1>10, <3>1 DEF NodeIs
      <4>2. e = "next"
        BY <2>2, <4>1 DEF Lacks
      <4>3. j - 1 \in 0 .. L - 1
        BY <1>6
      <4> QED
        BY <1>1, <1>4, <4>2, <4>3 DEF Due
    <3>2. CASE j = L
      <4>1. new[j].kind = "PREDICATE"
        BY <1>10, <3>2 DEF NodeIs
      <4>2. e \in {"next", "alt"}
        BY <2>2, <4>1 DEF Lacks
      <4>3. j - 1 \in 0 .. L - 1 /\ j - 1 = L - 1
        BY <1>6, <3>2
      <4> QED
        BY <1>1, <1>4, <4>2, <4>3 DEF Due
    <3> QED
      BY <1>6, <3>1, <3>2
  <2>3. ASSUME NEW S, Led(new, N, S), N + 1 \in S PROVE \A j \in 1 .. L : N + j \in S
    <3> DEFINE T == {j \in 1 .. L : N + j \notin S}
    <3>1. SUFFICES T = {}
      OBVIOUS
    <3>2. SUFFICES ASSUME T # {} PROVE FALSE
      OBVIOUS
    <3>3. T \subseteq Nat
      OBVIOUS
    <3>4. PICK j \in T : \A k \in T : j <= k
      BY <3>2, <3>3, LeastOf
    <3>5. j \in 1 .. L /\ N + j \notin S
      OBVIOUS
    <3>6. j # 1
      BY <2>3, <3>5
    <3>7. PICK k \in 1 .. L : k = j - 1
      <4>1. j - 1 \in 1 .. L
        BY <1>6, <3>5, <3>6
      <4> QED
        BY <4>1, Zenon
    <3>8. k < j /\ k < L /\ N + 1 + k = N + j
      BY <1>6, <3>5, <3>7
    <3>9. N + k \in S
      BY <3>4, <3>8
    <3>10. new[k].alt = N + j
      BY <1>10, <3>8 DEF NodeIs
    <3>11. N + j # 0
      BY <3>5
    <3>12. new[k].alt \in S
      BY <1>11, <2>3, <3>9, <3>10, <3>11 DEF Led
    <3> QED
      BY <3>5, <3>10, <3>12
  <2> QED
    BY <1>1, <1>4, <2>1, <2>2, <2>3 DEF Chained
<1>14. Top.join \in 0 .. N + L
  <2>1. Top.join \in 0 .. N
    BY <1>2, AtTop
  <2> QED
    BY <1>6, <2>1
<1> QED
  BY <1>1, <1>2, <1>5, <1>6, <1>8, <1>9, <1>12, <1>13, <1>14, OpensInOrder

(* The start of a loop, which appends nothing, keeps the invariant.          *)
LEMMA LoopKeeps ==
  ASSUME NEW Steps, Closed(Steps), Good(Steps, nodes, builders), AppendLoop
  PROVE  Good(Steps, nodes', builders')
<1>1. Top.todo # <<>> /\ Step.kind = "loop" /\ ~Malformed(Step) /\ nodes' = nodes
  BY DEF AppendLoop, Comes
<1>2. PICK H \in Nat \ {0} : H = Height
  BY AtTop
<1>3. PICK d : d = Top
  OBVIOUS
<1>4. /\ Size(builders, H) /\ LevelOK(Steps, nodes, d) /\ AtWork(d)
      /\ d.join \in 0 .. Len(nodes) /\ d.todo # <<>> /\ Head(d.todo) = Step
  BY <1>1, <1>2, <1>3, AtTop DEF Step
<1>5. Step.body \in Seq(Steps)
  BY <1>1, AtTop DEF Step, Closed
<1>6. Waiting(d, Builder(Step.body, d.join))
  BY <1>1, <1>4 DEF Waiting
<1>7. Higher(H, d, Step.body, d.join, builders')
  BY <1>2, <1>3, Zenon DEF AppendLoop, Opens, Higher
<1>8. StackAs(Steps, nodes, builders, builders', H, d)
  BY <1>4, <1>5, <1>6, <1>7, OneHigher
<1>9. GraphOK(nodes) /\ Len(nodes) \in Nat /\ d = builders[H]
  BY <1>2, <1>3, AtTop DEF Good, Top
<1>10. Grows(nodes, nodes)
  BY <1>9 DEF Grows, Same, Edges
<1>11. SetsTheirs(nodes, nodes, builders, H, H)
  BY DEF SetsTheirs, Same, Edges
<1>12. \A k \in H .. H : builders[k] = d
  BY <1>9
<1>13. H \in H .. H /\ H \in 1 .. H
  OBVIOUS
<1>14. OwesTheirs(nodes, builders, d, H, H)
  BY <1>12, <1>13 DEF OwesTheirs
<1>15. LacksNone(nodes, nodes, builders, d, H, H)
  BY <1>12, <1>13 DEF LacksNone
<1>16. HangsOn(nodes, nodes, builders, d, H, H)
  <2>1. \A i : ~Pending(d, i)
    BY <1>4 DEF AtWork, Pending
  <2> QED
    BY <1>12, <1>13, <2>1 DEF HangsOn
<1>17. d.join = builders[H].join
  BY <1>9
<1> QED
  BY <1>1, <1>4, <1>8, <1>9, <1>10, <1>11, <1>13, <1>14, <1>15, <1>16, <1>17, Progress

----------------------------------------------------------------------------
(* The chains that are built. *)

(* What a builder has hangs on its start, in a graph with more edges too.    *)
LEMMA HangsThere ==
  ASSUME NEW Steps, NEW ns, NEW ms, GraphOK(ns), GraphOK(ms), Grows(ns, ms),
         NEW b, LevelOK(Steps, ns, b), b.start # 0, NEW S, EdgeClosed(ms, S), b.start \in S
  PROVE  /\ \A i \in Int : Hooked(b, i) => i \in S
         /\ \A i \in Int, e \in Edges : <<i, e>> \in b.open => i \in S
<1>1. EdgeClosed(ns, S)
  BY ClosedBefore
<1>2. \A R : EdgeClosed(ns, R) /\ b.start \in R /\ b.start # 0 =>
        \A i \in Int : Hooked(b, i) \/ (\E e \in Edges : <<i, e>> \in b.open) => i \in R
  BY Zenon DEF LevelOK
<1> QED
  BY <1>1, <1>2

(* The builder whose chain is built, and the one that waits for it.          *)
LEMMA Returning ==
  ASSUME NEW Steps, Good(Steps, nodes, builders), Height > 1, Top.start # 0
  PROVE  /\ Height \in Nat /\ Height - 1 \in Nat \ {0} /\ Size(builders, Height)
         /\ GraphOK(nodes)
         /\ LevelOK(Steps, nodes, Caller) /\ LevelOK(Steps, nodes, Top)
         /\ IsBuilder(Caller) /\ IsBuilder(Top)
         /\ AtWork(Top) /\ Waiting(Caller, Top) /\ Top.open # {}
         /\ Caller.todo # <<>> /\ Asking \in Steps /\ Tail(Caller.todo) \in Seq(Steps)
         /\ Top.start \in 1 .. Len(nodes)
         /\ \A i \in Int, e \in Edges : Owes(Caller, i, e) => i \in DOMAIN nodes /\ Missing(nodes[i], e)
         /\ \A i \in Int, e \in Edges : <<i, e>> \in Top.open => i \in DOMAIN nodes /\ Missing(nodes[i], e)
         /\ \A i \in Int, e \in Edges : ~(Owes(Caller, i, e) /\ <<i, e>> \in Top.open)
<1>1. PICK H \in Nat : H = Height
  BY AtTop
<1>2. H - 1 \in Nat \ {0} /\ H - 1 \in 1 .. H - 1 /\ (H - 1) + 1 = H
  BY <1>1
<1>3. Size(builders, H) /\ LevelOK(Steps, nodes, Top) /\ AtWork(Top) /\ IsBuilder(Top) /\ Top.start \in 0 .. Len(nodes)
  BY <1>1, AtTop
<1>4. DOMAIN builders = 1 .. H /\ Len(builders) = H
  BY <1>3, AnySeq DEF Size
<1>5. /\ \A k \in DOMAIN builders : LevelOK(Steps, nodes, builders[k])
      /\ \A k \in 1 .. Len(builders) - 1 : Waiting(builders[k], builders[k + 1])
  BY Zenon DEF Good, Levels
<1>6. H - 1 \in DOMAIN builders /\ H \in DOMAIN builders /\ H - 1 # H
  BY <1>2, <1>4
<1>7. Caller = builders[H - 1] /\ Top = builders[H]
  BY <1>1 DEF Caller, Top
<1>8. LevelOK(Steps, nodes, Caller)
  BY <1>5, <1>6, <1>7
<1>9. Waiting(Caller, Top)
  <2>1. \A k \in 1 .. H - 1 : Waiting(builders[k], builders[k + 1])
    BY <1>4, <1>5
  <2> QED
    BY <1>2, <1>7, <2>1
<1>10. IsBuilder(Caller) /\ Caller.todo \in Seq(Steps)
  BY <1>8 DEF LevelOK
<1>11. Caller.todo # <<>>
  BY <1>9 DEF Waiting
<1>12. Asking \in Steps /\ Tail(Caller.todo) \in Seq(Steps)
  BY <1>10, <1>11, HeadTailProperties DEF Asking
<1>13. Top.open # {}
  BY <1>3 DEF AtWork
<1>14. GraphOK(nodes) /\ Apart(builders)
  BY DEF Good
<1>15. Top.start \in 1 .. Len(nodes)
  BY <1>3, <1>14, GraphDomain
<1>16. \A i \in Int, e \in Edges : Owes(Caller, i, e) => i \in DOMAIN nodes /\ Missing(nodes[i], e)
  BY <1>8 DEF LevelOK
<1>17. \A i \in Int, e \in Edges : Owes(Top, i, e) => i \in DOMAIN nodes /\ Missing(nodes[i], e)
  BY <1>3 DEF LevelOK
<1>18. \A i, e : <<i, e>> \in Top.open => Owes(Top, i, e)
  BY DEF Owes
<1>19. \A i \in Int, e \in Edges : ~(Owes(Caller, i, e) /\ Owes(Top, i, e))
  BY <1>6, <1>7, <1>14 DEF Apart
<1> QED
  BY <1>1, <1>2, <1>3, <1>8, <1>9, <1>10, <1>11, <1>12, <1>13, <1>14, <1>15, <1>16, <1>17, <1>18, <1>19

(* A built chain keeps the invariant if the step it belongs to takes over    *)
(* its open ends and its start (sub).                                        *)
LEMMA ReturnsInOrder ==
  ASSUME NEW Steps, Good(Steps, nodes, builders), Height > 1, Top.start # 0,
         NEW ms, GraphOK(ms), Grows(nodes, ms),
         NEW cs, NEW d, StackAs(Steps, ms, builders, cs, Height - 1, d),
         d.join = Caller.join, LevelOK(Steps, ms, d), TakesOver(nodes, ms, Caller, Top, d)
  PROVE  Good(Steps, ms, cs)
<1>1. PICK H \in Nat : H = Height
  BY Returning
<1>2. PICK m \in Nat \ {0} : m = H - 1
  <2>1. H - 1 \in Nat \ {0}
    BY <1>1, Returning
  <2> QED
    BY <2>1, Zenon
<1>3. Size(builders, H) /\ AtWork(Top)
  BY <1>1, Returning
<1>4. H \in Nat \ {0} /\ m \in 1 .. H /\ (\A k \in m .. H : k = m \/ k = H) /\ m \in m .. H /\ H \in m .. H
  BY <1>2
<1>5. Caller = builders[m] /\ Top = builders[H]
  BY <1>1, <1>2 DEF Caller, Top
<1>6. PICK c : c = Caller
  OBVIOUS
<1>7. PICK x : x = Top
  OBVIOUS
<1>8. \A i, e : (Owes(x, i, e) <=> <<i, e>> \in x.open) /\ ~Pending(x, i)
  BY <1>3, <1>7 DEF AtWork, Owes, Owing, Pending
<1>9. x.starts = <<>> /\ Range(x.starts) = {}
  <2>1. x.starts = <<>>
    BY <1>3, <1>7 DEF AtWork
  <2> QED
    BY <2>1 DEF Range
<1>10. /\ \A i \in DOMAIN nodes, e \in Edges : Same(nodes[i], ms[i], e) \/ Owes(c, i, e) \/ <<i, e>> \in x.open
       /\ \A i \in Int, e \in Edges :
            Owes(d, i, e) => i \notin DOMAIN nodes \/ Owes(c, i, e) \/ <<i, e>> \in x.open
       /\ \A i \in DOMAIN ms, e \in Edges :
            Lacks(ms[i], e) =>
              Owes(d, i, e) \/ (i \in DOMAIN nodes /\ Lacks(nodes[i], e) /\ ~Owes(c, i, e) /\ <<i, e>> \notin x.open)
       /\ \A S : EdgeClosed(ms, S) /\ Begun(d, S) =>
            /\ Begun(c, S) /\ x.start \in S
            /\ \A i \in DOMAIN ms : i \in S \/ Pending(d, i) \/ (i \in DOMAIN nodes /\ ~Pending(c, i))
  BY <1>6, <1>7, Zenon DEF TakesOver
<1>11. builders[m] = c /\ builders[H] = x
  BY <1>5, <1>6, <1>7
<1>12. SetsTheirs(nodes, ms, builders, m, H)
  BY <1>4, <1>8, <1>10, <1>11 DEF SetsTheirs
<1>13. OwesTheirs(nodes, builders, d, m, H)
  BY <1>4, <1>8, <1>10, <1>11 DEF OwesTheirs
<1>14. LacksNone(nodes, ms, builders, d, m, H)
  BY <1>4, <1>8, <1>10, <1>11 DEF LacksNone
<1>15. HangsOn(nodes, ms, builders, d, m, H)
  <2>1. ASSUME NEW S, EdgeClosed(ms, S), Begun(d, S)
        PROVE  /\ \A k \in m .. H : Begun(builders[k], S)
               /\ \A i \in DOMAIN ms :
                    \/ i \in S \/ Pending(d, i)
                    \/ i \in DOMAIN nodes /\ \A k \in m .. H : ~Pending(builders[k], i)
    <3>1. Begun(c, S) /\ x.start \in S
      BY <1>10, <2>1
    <3>2. Begun(x, S)
      BY <1>9, <3>1 DEF Begun
    <3> QED
      BY <1>4, <1>8, <1>10, <1>11, <2>1, <3>1, <3>2
  <2> QED
    BY <2>1 DEF HangsOn
<1>16. StackAs(Steps, ms, builders, cs, m, d) /\ d.join = builders[m].join
  BY <1>1, <1>2, <1>5
<1> QED
  BY <1>3, <1>4, <1>12, <1>13, <1>14, <1>15, <1>16, Progress

(* Wiring edges that lead nowhere keeps a graph in order and loses none of   *)
(* its edges.                                                                *)
LEMMA Rewired ==
  ASSUME NEW ns, GraphOK(ns),
         NEW ends, ends \subseteq (DOMAIN ns) \X {"next", "alt"},
         \A i \in DOMAIN ns, e \in Edges : <<i, e>> \in ends => Missing(ns[i], e),
         NEW target \in 1 .. Len(ns),
         NEW ms, ms = Wire(ns, ends, target)
  PROVE  Rewires(ns, ends, target, ms)
<1>1. PICK N \in Nat : N = Len(ns)
  BY GraphDomain
<1>2. Size(ns, N) /\ Size(ms, N)
  BY <1>1, WireSets DEF GraphOK, Size
<1>3. PICK new : new = <<>>
  OBVIOUS
<1>4. NewNodes(new, N, 0)
  BY <1>3 DEF NewNodes, Size, Range
<1>5. Longer(ns, ends, target, new, ms)
  <2>1. ms \in Seq(Range(ms))
    BY <1>2 DEF Size
  <2>2. ms \o <<>> = ms
    BY <2>1, ConcatEmptySeq
  <2> QED
    BY <1>3, <2>2 DEF Longer
<1>6. target \in 1 .. N + 0 /\ 0 \in Nat
  BY <1>1
<1>7. Extension(ns, N, new, 0, ends, target, ms)
  BY <1>2, <1>4, <1>5, <1>6, Extends
<1>8. /\ GraphOK(ms) /\ Grows(ns, ms)
      /\ \A i \in 1 .. N : /\ \A e \in Edges : Same(ns[i], ms[i], e) \/ <<i, e>> \in ends
                           /\ <<i, "next">> \in ends => ms[i].next = target
                           /\ <<i, "alt">> \in ends => ms[i].alt = target
                           /\ ms[i].kind = ns[i].kind
  BY <1>7, Zenon DEF Extension
<1>9. DOMAIN ns = 1 .. N /\ Len(ms) = N /\ DOMAIN ms = 1 .. N
  BY <1>1, <1>2, AnySeq, GraphDomain DEF Size
<1> QED
  BY <1>1, <1>8, <1>9 DEF Rewires

(* The escalation of a signal, hung on its timeout edge, keeps the           *)
(* invariant.                                                                *)
LEMMA EscalationKeeps ==
  ASSUME NEW Steps, Closed(Steps), Good(Steps, nodes, builders), EscalationBuilt
  PROVE  Good(Steps, nodes', builders')
<1>1. Height > 1 /\ Asking.kind = "signal" /\ Top.start # 0
  BY DEF EscalationBuilt, BackAt
<1>2. PICK N \in Nat : N = Len(nodes)
  BY AtTop
<1>3. PICK c : c = Caller
  OBVIOUS
<1>4. PICK x : x = Top
  OBVIOUS
<1>5. /\ Height - 1 \in Nat \ {0} /\ GraphOK(nodes)
      /\ LevelOK(Steps, nodes, c) /\ LevelOK(Steps, nodes, x)
      /\ IsBuilder(c) /\ Waiting(c, x) /\ x.open # {} /\ Tail(c.todo) \in Seq(Steps)
      /\ x.start \in 1 .. N /\ x.start # 0
      /\ \A i \in Int, e \in Edges : Owes(c, i, e) => i \in DOMAIN nodes /\ Missing(nodes[i], e)
      /\ \A i \in Int, e \in Edges : <<i, e>> \in x.open => i \in DOMAIN nodes /\ Missing(nodes[i], e)
      /\ \A i \in Int, e \in Edges : ~(Owes(c, i, e) /\ <<i, e>> \in x.open)
  BY <1>1, <1>2, <1>3, <1>4, Returning
<1>6. /\ Head(c.todo).kind = "signal" /\ c.id # 0 /\ c.start # 0 /\ c.starts = <<>> /\ c.open = {}
  BY <1>1, <1>3, <1>5 DEF Waiting, Asking
<1>7. DOMAIN nodes = 1 .. N
  BY <1>2, <1>5, GraphDomain
<1>8. /\ c.id \in 0 .. N /\ c.start \in 0 .. N /\ c.join \in 0 .. N
      /\ x.open \subseteq (DOMAIN nodes) \X {"next", "alt"}
  BY <1>2, <1>5 DEF LevelOK
<1>9. \A i \in Int, e \in Edges : Owes(c, i, e) <=> i = c.id /\ e \in {"next", "alt"}
  <2>1. \A i \in Int : i - c.id = 0 <=> i = c.id
    BY <1>8
  <2> QED
    BY <1>6, <2>1 DEF Owes, Owing, Due
<1>10. c.id \in 1 .. N /\ c.id \in Int /\ nodes[c.id].alt = 0 /\ nodes[c.id].next = 0
  BY <1>5, <1>7, <1>8, <1>9 DEF Edges, Missing
<1>11. PICK ends : ends = {<<c.id, "alt">>}
  OBVIOUS
<1>12. nodes' = Wire(nodes, ends, x.start)
  BY <1>3, <1>4, <1>11 DEF EscalationBuilt
<1>13. Rewires(nodes, ends, x.start, nodes')
  <2>1. ends \subseteq (DOMAIN nodes) \X {"next", "alt"}
    BY <1>7, <1>10, <1>11
  <2>2. \A i \in DOMAIN nodes, e \in Edges : <<i, e>> \in ends => Missing(nodes[i], e)
    BY <1>10, <1>11 DEF Missing
  <2>3. x.start \in 1 .. Len(nodes)
    BY <1>2, <1>5
  <2> QED
    BY <1>5, <1>12, <2>1, <2>2, <2>3, Rewired
<1>14. PICK ms : ms = nodes'
  OBVIOUS
<1>15. /\ GraphOK(ms) /\ Grows(nodes, ms) /\ Len(ms) = N /\ DOMAIN ms = 1 .. N
       /\ \A i \in 1 .. N, e \in Edges : Same(nodes[i], ms[i], e) \/ <<i, e>> \in ends
       /\ ms[c.id].alt = x.start
       /\ \A i \in 1 .. N : ms[i].kind = nodes[i].kind
  BY <1>2, <1>7, <1>10, <1>11, <1>13, <1>14 DEF Rewires
<1>16. PICK open : open = {<<c.id, "next">>} \cup x.open
  OBVIOUS
<1>17. PICK d : d = Done(c, open)
  OBVIOUS
<1>18. /\ IsBuilder(d) /\ d.open = open /\ d.todo = Tail(c.todo) /\ d.join = c.join
       /\ d.id = 0 /\ d.starts = <<>> /\ d.start = c.start
  BY <1>5, <1>17, DoneWith
<1>19. StackAs(Steps, ms, builders, builders', Height - 1, d)
  <2>1. Lower(Height - 1, d, builders')
    BY <1>3, <1>4, <1>16, <1>17 DEF EscalationBuilt, Resumes, Lower
  <2>2. AtWork(d)
    BY <1>6, <1>16, <1>18 DEF AtWork
  <2> QED
    BY <1>5, <2>1, <2>2, BackDown
<1>20. \A i, e : (Owes(d, i, e) <=> <<i, e>> \in open) /\ ~Owing(d, i, e) /\ ~Hooked(d, i) /\ ~Pending(d, i)
  BY <1>18 DEF Owes, Owing, Hooked, Pending
<1>21. ASSUME NEW S, EdgeClosed(ms, S), c.start \in S
       PROVE  x.start \in S /\ \A i \in Int, e \in Edges : <<i, e>> \in open => i \in S
  <2>1. \A i \in Int : Hooked(c, i) => i \in S
    BY <1>5, <1>6, <1>15, <1>21, HangsThere
  <2>2. c.id \in S
    BY <1>6, <1>10, <2>1 DEF Hooked
  <2>3. x.start \in S
    BY <1>5, <1>10, <1>15, <1>21, <2>2 DEF EdgeClosed
  <2>4. \A i \in Int, e \in Edges : <<i, e>> \in x.open => i \in S
    BY <1>5, <1>15, <1>21, <2>3, HangsThere
  <2> QED
    BY <1>16, <2>2, <2>3, <2>4
<1>22. LevelOK(Steps, ms, d)
  <2>1. open \subseteq (DOMAIN ms) \X {"next", "alt"}
    BY <1>7, <1>8, <1>10, <1>15, <1>16
  <2>2. ASSUME NEW i \in Int, NEW e \in Edges, Owes(d, i, e) PROVE i \in DOMAIN ms /\ Missing(ms[i], e)
    <3>1. i \in 1 .. N /\ Missing(nodes[i], e) /\ <<i, e>> \notin ends
      <4>1. CASE i = c.id /\ e = "next"
        BY <1>10, <1>11, <4>1 DEF Missing
      <4>2. CASE <<i, e>> \in x.open
        BY <1>5, <1>7, <1>9, <1>11, <4>2
      <4> QED
        BY <1>16, <1>20, <2>2, <4>1, <4>2
    <3>2. Same(nodes[i], ms[i], e)
      BY <1>15, <3>1
    <3> QED
      BY <1>15, <3>1, <3>2 DEF Same, Missing
  <2>3. <<>> \in Seq(1 .. N) /\ 0 \in 0 .. N
    OBVIOUS
  <2> QED
    BY <1>5, <1>8, <1>15, <1>18, <1>20, <1>21, <2>1, <2>2, <2>3 DEF LevelOK, Rooted
<1>23. TakesOver(nodes, ms, c, x, d)
  <2>1. \A i \in DOMAIN nodes, e \in Edges : Same(nodes[i], ms[i], e) \/ Owes(c, i, e) \/ <<i, e>> \in x.open
    BY <1>7, <1>9, <1>11, <1>15
  <2>2. \A i \in Int, e \in Edges :
          Owes(d, i, e) => i \notin DOMAIN nodes \/ Owes(c, i, e) \/ <<i, e>> \in x.open
    BY <1>9, <1>16, <1>20
  <2>3. ASSUME NEW i \in DOMAIN ms, NEW e \in Edges, Lacks(ms[i], e), ~Owes(d, i, e)
        PROVE  i \in DOMAIN nodes /\ Lacks(nodes[i], e) /\ ~Owes(c, i, e) /\ <<i, e>> \notin x.open
    <3>1. i \in 1 .. N /\ i \in Int /\ <<i, e>> \notin x.open /\ ~(i = c.id /\ e = "next")
      BY <1>15, <1>16, <1>20, <2>3
    <3>2. ~(i = c.id /\ e = "alt")
      BY <1>5, <1>15, <2>3 DEF Lacks
    <3>3. ~Owes(c, i, e)
      BY <1>9, <3>1, <3>2
    <3>4. Same(nodes[i], ms[i], e) /\ ms[i].kind = nodes[i].kind
      BY <1>11, <1>15, <3>1, <3>2
    <3>5. Lacks(nodes[i], e)
      BY <2>3, <3>4 DEF Lacks, Same
    <3> QED
      BY <1>7, <3>1, <3>3, <3>5
  <2>4. ASSUME NEW S, EdgeClosed(ms, S), Begun(d, S)
        PROVE  /\ Begun(c, S) /\ x.start \in S
               /\ \A i \in DOMAIN ms : i \in S \/ Pending(d, i) \/ (i \in DOMAIN nodes /\ ~Pending(c, i))
    <3>1. c.start \in S
      BY <1>6, <1>18, <2>4 DEF Begun
    <3>2. Begun(c, S)
      <4>1. Range(c.starts) = {}
        BY <1>6 DEF Range
      <4> QED
        BY <3>1, <4>1 DEF Begun
    <3>3. \A i : ~Pending(c, i)
      BY <1>6 DEF Pending
    <3> QED
      BY <1>7, <1>15, <1>21, <2>4, <3>1, <3>2, <3>3
  <2> QED
    BY <2>1, <2>2, <2>3, <2>4 DEF TakesOver
<1> QED
  BY <1>1, <1>3, <1>4, <1>14, <1>15, <1>18, <1>19, <1>22, <1>23, ReturnsInOrder

(* The ends of a branch lead to the join of its step.                        *)
LEMMA BranchJoins ==
  ASSUME NEW Steps, Good(Steps, nodes, builders), Height > 1, Top.start # 0,
         Asking.kind \in {"fork", "each"}, NEW N, N = Len(nodes)
  PROVE  /\ Caller.open = {} /\ Caller.id # 0 /\ Caller.start # 0
         /\ Caller.id \in 1 .. N /\ Caller.start \in 1 .. N /\ Caller.join \in 0 .. N
         /\ Top.join = Caller.id + 1 /\ Top.join \in 1 .. N
         /\ Caller.starts \in Seq(1 .. N)
         /\ Asking.kind = "each" => Caller.starts = <<>>
         /\ Asking.kind = "fork" => Len(Caller.starts) < Len(Asking.arms)
         /\ nodes[Caller.id].branches = <<>> /\ nodes[Top.join].next = 0
         /\ Asking.kind = "each" => nodes[Caller.id].next = 0
         /\ \A i \in Int, e \in Edges :
              Owes(Caller, i, e) <=> \/ i = Caller.id /\ e = "branches"
                                     \/ i = Caller.id /\ e = "next" /\ Asking.kind = "each"
                                     \/ i = Top.join /\ e = "next"
         /\ Top.open \subseteq (DOMAIN nodes) \X {"next", "alt"}
         /\ Rewires(nodes, Top.open, Top.join, Joined)
<1>1. PICK c : c = Caller
  OBVIOUS
<1>2. PICK x : x = Top
  OBVIOUS
<1>3. /\ GraphOK(nodes) /\ N \in Nat
      /\ LevelOK(Steps, nodes, c) /\ LevelOK(Steps, nodes, x) /\ Waiting(c, x)
      /\ \A i \in Int, e \in Edges : Owes(c, i, e) => i \in DOMAIN nodes /\ Missing(nodes[i], e)
      /\ \A i \in Int, e \in Edges : <<i, e>> \in x.open => i \in DOMAIN nodes /\ Missing(nodes[i], e)
  BY <1>1, <1>2, AtTop, Returning
<1>4. /\ Head(c.todo) = Asking /\ c.id # 0 /\ c.start # 0 /\ c.open = {} /\ x.join = c.id + 1
      /\ Asking.kind = "each" => c.starts = <<>>
      /\ Asking.kind = "fork" => Len(c.starts) < Len(Asking.arms)
  BY <1>1, <1>3 DEF Waiting, Asking
<1>5. /\ c.id \in 0 .. N /\ c.start \in 0 .. N /\ c.join \in 0 .. N /\ c.starts \in Seq(1 .. N)
      /\ x.open \subseteq (DOMAIN nodes) \X {"next", "alt"}
  BY <1>3 DEF LevelOK
<1>6. DOMAIN nodes = 1 .. N
  BY <1>3, GraphDomain
<1>7. \A i \in Int, e \in Edges :
        Owes(c, i, e) <=> \/ i = c.id /\ e = "branches"
                          \/ i = c.id /\ e = "next" /\ Asking.kind = "each"
                          \/ i = x.join /\ e = "next"
  <2>1. \A i \in Int : (i - c.id = 0 <=> i = c.id) /\ (i - c.id = 1 <=> i = x.join)
    BY <1>4, <1>5
  <2> QED
    BY <1>4, <2>1 DEF Owes, Owing, Due
<1>8. /\ c.id \in 1 .. N /\ x.join \in 1 .. N /\ c.start \in 1 .. N
      /\ nodes[c.id].branches = <<>> /\ nodes[x.join].next = 0
      /\ Asking.kind = "each" => nodes[c.id].next = 0
  <2>1. c.id \in Int /\ x.join \in Int /\ "branches" \in Edges /\ "next" \in Edges
    BY <1>4, <1>5 DEF Edges
  <2>2. c.id \in DOMAIN nodes /\ Missing(nodes[c.id], "branches")
    BY <1>3, <1>7, <2>1
  <2>3. x.join \in DOMAIN nodes /\ Missing(nodes[x.join], "next")
    BY <1>3, <1>7, <2>1
  <2>4. Asking.kind = "each" => Missing(nodes[c.id], "next")
    BY <1>3, <1>7, <2>1
  <2> QED
    BY <1>4, <1>5, <1>6, <2>2, <2>3, <2>4 DEF Missing
<1>9. Rewires(nodes, x.open, x.join, Joined)
  <2>1. Joined = Wire(nodes, x.open, x.join)
    BY <1>2 DEF Joined
  <2>2. \A i \in DOMAIN nodes, e \in Edges : <<i, e>> \in x.open => Missing(nodes[i], e)
    BY <1>3, <1>6
  <2>3. x.join \in 1 .. Len(nodes)
    BY <1>8
  <2> QED
    BY <1>3, <1>5, <2>1, <2>2, <2>3, Rewired
<1> QED
  BY <1>1, <1>2, <1>4, <1>5, <1>7, <1>8, <1>9

(* What one more start makes of the starts so far.                           *)
LEMMA OneMoreStart ==
  ASSUME NEW N \in Nat, NEW s \in Seq(1 .. N), NEW v \in 1 .. N, NEW t, t = Append(s, v)
  PROVE  OneMore(N, s, v, t)
<1>1. t \in Seq(1 .. N) /\ Len(t) = Len(s) + 1 /\ Len(s) \in Nat /\ DOMAIN t = 1 .. Len(t)
  BY AppendProperties
<1>2. (\A i \in 1 .. Len(s) : t[i] = s[i]) /\ t[Len(s) + 1] = v
  BY AppendProperties
<1>3. Range(t) = Range(s) \cup {v}
  BY <1>1, <1>2 DEF Range
<1> QED
  BY <1>1, <1>3 DEF Range, OneMore

(* An arm of a fork that is not its last one, led to the join, keeps the     *)
(* invariant (buildBranch).                                                  *)
LEMMA ArmKeeps ==
  ASSUME NEW Steps, Closed(Steps), Good(Steps, nodes, builders), ArmBuilt,
         Len(Built) < Len(Asking.arms)
  PROVE  Good(Steps, nodes', builders')
<1>1. Height > 1 /\ Asking.kind = "fork" /\ Top.start # 0
  BY DEF ArmBuilt, BackAt
<1>2. PICK N \in Nat : N = Len(nodes)
  BY AtTop
<1>3. PICK c : c = Caller
  OBVIOUS
<1>4. PICK x : x = Top
  OBVIOUS
<1>5. /\ Height - 1 \in Nat \ {0} /\ GraphOK(nodes)
      /\ LevelOK(Steps, nodes, c) /\ LevelOK(Steps, nodes, x)
      /\ IsBuilder(c) /\ Waiting(c, x) /\ x.open # {} /\ c.todo # <<>> /\ Asking \in Steps
      /\ x.start \in 1 .. N /\ x.start # 0
      /\ \A i \in Int, e \in Edges : Owes(c, i, e) => i \in DOMAIN nodes /\ Missing(nodes[i], e)
      /\ \A i \in Int, e \in Edges : ~(Owes(c, i, e) /\ <<i, e>> \in x.open)
  BY <1>1, <1>2, <1>3, <1>4, Returning
<1>6. /\ c.open = {} /\ c.id # 0 /\ c.start # 0
      /\ c.id \in 1 .. N /\ c.start \in 1 .. N /\ c.join \in 0 .. N
      /\ x.join = c.id + 1 /\ x.join \in 1 .. N /\ c.starts \in Seq(1 .. N)
      /\ x.open \subseteq (DOMAIN nodes) \X {"next", "alt"}
      /\ Rewires(nodes, x.open, x.join, Joined)
  BY <1>1, <1>2, <1>3, <1>4, BranchJoins
<1>7. PICK ms : ms = nodes'
  OBVIOUS
<1>8. ms = Joined
  BY <1>7 DEF ArmBuilt
<1>9. /\ GraphOK(ms) /\ Grows(nodes, ms) /\ Len(ms) = N /\ DOMAIN ms = DOMAIN nodes
      /\ DOMAIN nodes = 1 .. N
      /\ \A i \in DOMAIN nodes : /\ \A e \in Edges : Same(nodes[i], ms[i], e) \/ <<i, e>> \in x.open
                                 /\ <<i, "next">> \in x.open => ms[i].next = x.join
                                 /\ <<i, "alt">> \in x.open => ms[i].alt = x.join
                                 /\ ms[i].kind = nodes[i].kind
  BY <1>2, <1>5, <1>6, <1>8, GraphDomain DEF Rewires
<1>10. PICK built : built = Append(c.starts, x.start)
  OBVIOUS
<1>11. /\ built \in Seq(1 .. N) /\ Len(built) = Len(c.starts) + 1 /\ Len(c.starts) \in Nat
       /\ Range(built) = Range(c.starts) \cup {x.start}
  <2>1. OneMore(N, c.starts, x.start, built)
    BY <1>5, <1>6, <1>10, OneMoreStart
  <2> QED
    BY <2>1 DEF OneMore
<1>12. Built = built
  BY <1>3, <1>4, <1>10 DEF Built
<1>13. PICK d : d = Waits(c, c.id, built)
  OBVIOUS
<1>14. /\ IsBuilder(d) /\ d.open = {} /\ d.todo = c.todo /\ d.join = c.join
       /\ d.id = c.id /\ d.starts = built /\ d.start = c.start
  BY <1>5, <1>6, <1>13, WaitsWith
<1>15. Head(d.todo) = Asking /\ Head(c.todo) = Asking
  BY <1>3, <1>14 DEF Asking
<1>16. StackAs(Steps, ms, builders, builders', Height - 1, d)
  <2>1. PICK steps : steps = Asking.arms[Len(Built) + 1]
    OBVIOUS
  <2>2. steps \in Seq(Steps)
    <3>1. Asking.arms \in Seq(Seq(Steps))
      BY <1>1, <1>5 DEF Closed
    <3>2. Len(Asking.arms) \in Nat /\ \A i \in 1 .. Len(Asking.arms) : Asking.arms[i] \in Seq(Steps)
      BY <3>1, SeqSize
    <3>3. Len(Built) + 1 \in 1 .. Len(Asking.arms)
      BY <1>11, <1>12, <3>2
    <3> QED
      BY <2>1, <3>2, <3>3
  <2>3. Waiting(d, Builder(steps, x.join))
    <3>1. Builder(steps, x.join).join = d.id + 1
      BY <1>6, <1>14 DEF Builder
    <3>2. ~Malformed(Asking)
      BY <1>5, <1>15 DEF Waiting
    <3>3. Len(d.starts) < Len(Asking.arms)
      BY <1>12, <1>14
    <3>4. d.todo # <<>> /\ d.id # 0 /\ d.start # 0
      BY <1>5, <1>6, <1>14
    <3> QED
      BY <1>1, <1>14, <1>15, <3>1, <3>2, <3>3, <3>4 DEF Waiting
  <2>4. Higher(Height - 1, d, steps, x.join, builders')
    BY <1>3, <1>4, <1>12, <1>13, <2>1 DEF ArmBuilt, Opens, Higher
  <2>5. x.join \in 0 .. Len(ms)
    BY <1>6, <1>9
  <2> QED
    BY <1>5, <2>2, <2>3, <2>4, <2>5, OneHigher
<1>17. \A i, e : /\ Owes(d, i, e) <=> Owes(c, i, e)
                 /\ Hooked(d, i) <=> Hooked(c, i)
                 /\ Pending(d, i) <=> Pending(c, i)
                 /\ <<i, e>> \notin d.open
  BY <1>1, <1>6, <1>14, <1>15 DEF Owes, Owing, Due, Hooked, Pending
<1>18. LevelOK(Steps, ms, d)
  <2>1. ASSUME NEW i \in Int, NEW e \in Edges, Owes(d, i, e) PROVE i \in DOMAIN ms /\ Missing(ms[i], e)
    <3>1. i \in DOMAIN nodes /\ Missing(nodes[i], e) /\ <<i, e>> \notin x.open
      BY <1>5, <1>17, <2>1
    <3>2. Same(nodes[i], ms[i], e)
      BY <1>9, <3>1
    <3> QED
      BY <1>9, <3>1, <3>2 DEF Same, Missing
  <2>2. \A S : EdgeClosed(ms, S) /\ d.start \in S /\ d.start # 0 => \A i \in Int : Hooked(d, i) => i \in S
    BY <1>5, <1>9, <1>14, <1>17, HangsThere
  <2>3. c.todo \in Seq(Steps)
    BY <1>5 DEF LevelOK
  <2>4. c.id \in 0 .. N /\ c.start \in 0 .. N
    BY <1>6
  <2>5. d.open \subseteq (DOMAIN ms) \X {"next", "alt"}
    BY <1>14
  <2>6. Rooted(ms, d)
    <3>1. Rooted(nodes, c)
      BY <1>5 DEF LevelOK
    <3>2. ms[c.id].kind = nodes[c.id].kind
      BY <1>6, <1>9
    <3> QED
      BY <1>14, <3>1, <3>2 DEF Rooted
  <2> QED
    BY <1>6, <1>9, <1>11, <1>14, <1>17, <2>1, <2>2, <2>3, <2>4, <2>5, <2>6 DEF LevelOK
<1>19. TakesOver(nodes, ms, c, x, d)
  <2>1. \A i \in DOMAIN nodes, e \in Edges : Same(nodes[i], ms[i], e) \/ Owes(c, i, e) \/ <<i, e>> \in x.open
    BY <1>9
  <2>2. \A i \in Int, e \in Edges :
          Owes(d, i, e) => i \notin DOMAIN nodes \/ Owes(c, i, e) \/ <<i, e>> \in x.open
    BY <1>17
  <2>3. ASSUME NEW i \in DOMAIN ms, NEW e \in Edges, Lacks(ms[i], e), ~Owes(d, i, e)
        PROVE  i \in DOMAIN nodes /\ Lacks(nodes[i], e) /\ ~Owes(c, i, e) /\ <<i, e>> \notin x.open
    <3>1. x.join # 0 /\ i \in DOMAIN nodes
      BY <1>6, <1>9
    <3>2. <<i, e>> \notin x.open
      <4>1. <<i, e>> \in x.open => e \in {"next", "alt"}
        BY <1>6
      <4> QED
        BY <1>9, <2>3, <3>1, <4>1 DEF Lacks
    <3>3. Lacks(nodes[i], e)
      BY <1>9, <2>3, <3>1, <3>2 DEF Lacks, Same
    <3> QED
      BY <1>17, <2>3, <3>1, <3>2, <3>3
  <2>4. ASSUME NEW S, EdgeClosed(ms, S), Begun(d, S)
        PROVE  /\ Begun(c, S) /\ x.start \in S
               /\ \A i \in DOMAIN ms : i \in S \/ Pending(d, i) \/ (i \in DOMAIN nodes /\ ~Pending(c, i))
    BY <1>1, <1>6, <1>9, <1>11, <1>14, <1>15, <1>17, <2>4 DEF Begun
  <2> QED
    BY <2>1, <2>2, <2>3, <2>4 DEF TakesOver
<1> QED
  BY <1>1, <1>3, <1>4, <1>7, <1>9, <1>14, <1>16, <1>18, <1>19, ReturnsInOrder

(* A case of a choice, hung on an edge of its guard, keeps the invariant,    *)
(* be it the last one or not (collectCase).                                  *)
LEMMA CaseKeeps ==
  ASSUME NEW Steps, Closed(Steps), Good(Steps, nodes, builders), CaseBuilt
  PROVE  Good(Steps, nodes', builders')
<1>1. Height > 1 /\ Asking.kind = "choose" /\ Top.start # 0
  BY DEF CaseBuilt, BackAt
<1>2. PICK N \in Nat : N = Len(nodes)
  BY AtTop
<1>3. PICK c : c = Caller
  OBVIOUS
<1>4. PICK x : x = Top
  OBVIOUS
<1>5. /\ Height - 1 \in Nat \ {0} /\ GraphOK(nodes)
      /\ LevelOK(Steps, nodes, c) /\ LevelOK(Steps, nodes, x)
      /\ IsBuilder(c) /\ Waiting(c, x) /\ c.todo # <<>> /\ Asking \in Steps
      /\ Tail(c.todo) \in Seq(Steps)
      /\ x.start \in 1 .. N /\ x.start # 0
      /\ \A i \in Int, e \in Edges : Owes(c, i, e) => i \in DOMAIN nodes /\ Missing(nodes[i], e)
      /\ \A i \in Int, e \in Edges : <<i, e>> \in x.open => i \in DOMAIN nodes /\ Missing(nodes[i], e)
      /\ \A i \in Int, e \in Edges : ~(Owes(c, i, e) /\ <<i, e>> \in x.open)
  BY <1>1, <1>2, <1>3, <1>4, Returning
<1>6. /\ Head(c.todo) = Asking /\ c.id # 0 /\ c.start # 0
      /\ Len(c.starts) < Len(Asking.cases) /\ ~Malformed(Asking)
  BY <1>1, <1>3, <1>5 DEF Waiting, Asking
<1>7. /\ c.id \in 0 .. N /\ c.start \in 0 .. N /\ c.join \in 0 .. N /\ c.starts \in Seq(1 .. N)
      /\ c.open \subseteq (DOMAIN nodes) \X {"next", "alt"} /\ c.todo \in Seq(Steps)
      /\ x.open \subseteq (DOMAIN nodes) \X {"next", "alt"} /\ x.join \in 0 .. N
  BY <1>2, <1>5 DEF LevelOK
<1>8. \A i \in Int, e \in Edges : ~(<<i, e>> \in c.open /\ Owing(c, i, e))
  BY <1>5, Zenon DEF LevelOK
<1>9. DOMAIN nodes = 1 .. N
  BY <1>2, <1>5, GraphDomain
<1>10. PICK g : g = Guards(Asking)
  OBVIOUS
<1>11. /\ g \in Nat \ {0} /\ g <= Len(Asking.cases) /\ Len(Asking.cases) <= g + 1
       /\ Len(Asking.cases) \in Nat
       /\ ~HasDefault(Asking) => Len(Asking.cases) = g
       /\ HasDefault(Asking) => Len(Asking.cases) = g + 1
       /\ \A i \in 1 .. Len(Asking.cases) : Asking.cases[i].then \in Seq(Steps)
  <2>1. g # 0
    BY <1>1, <1>6, <1>10 DEF Malformed
  <2> QED
    BY <1>1, <1>5, <1>10, <2>1, GuardsOfCases
<1>12. PICK built : built = Append(c.starts, x.start)
  OBVIOUS
<1>13. PICK k \in Nat : k = Len(c.starts)
  BY <1>7
<1>14. built \in Seq(1 .. N) /\ Len(built) = k + 1 /\ Built = built
  <2>1. OneMore(N, c.starts, x.start, built)
    BY <1>5, <1>7, <1>12, OneMoreStart
  <2>2. Built = built
    BY <1>3, <1>4, <1>12 DEF Built
  <2> QED
    BY <1>13, <2>1, <2>2 DEF OneMore
<1> HIDE <1>12
<1>15. k + 1 \in 1 .. Len(Asking.cases)
  BY <1>6, <1>11, <1>13
<1>16. PICK i0 : i0 = Guard
  OBVIOUS
<1>17. PICK e0 : e0 = Edge
  OBVIOUS
<1>18. /\ k + 1 <= g => i0 = c.id + k /\ e0 = "next"
       /\ k + 1 > g => i0 = c.id + g - 1 /\ e0 = "alt" /\ k = g
  <2>1. k + 1 <= g => i0 = c.id + (k + 1) - 1 /\ e0 = "next"
    BY <1>3, <1>10, <1>14, <1>16, <1>17 DEF Guard, Edge
  <2>2. k + 1 > g => i0 = c.id + g - 1 /\ e0 = "alt"
    BY <1>3, <1>10, <1>11, <1>14, <1>16, <1>17 DEF Guard, Edge
  <2> QED
    BY <1>7, <1>11, <1>15, <2>1, <2>2
<1>19. \A i \in Int, e \in Edges :
         Owing(c, i, e) <=> \/ i - c.id \in k .. g - 1 /\ e = "next"
                            \/ i - c.id = g - 1 /\ e = "alt"
  BY <1>1, <1>6, <1>10, <1>13 DEF Owing, Due
<1>20. i0 \in Int /\ e0 \in {"next", "alt"} /\ e0 \in Edges /\ Owing(c, i0, e0) /\ i0 - c.id \in 0 .. g - 1
  <2>1. i0 \in Int /\ e0 \in {"next", "alt"} /\ i0 - c.id \in 0 .. g - 1
    BY <1>7, <1>11, <1>18
  <2>2. (e0 = "next" /\ i0 - c.id \in k .. g - 1) \/ (e0 = "alt" /\ i0 - c.id = g - 1)
    BY <1>7, <1>11, <1>18
  <2> QED
    BY <1>19, <2>1, <2>2 DEF Edges
<1>21. i0 \in 1 .. N /\ Missing(nodes[i0], e0) /\ Owes(c, i0, e0)
  BY <1>5, <1>9, <1>20 DEF Owes
<1>22. PICK ms : ms = nodes'
  OBVIOUS
<1>23. PICK ends : ends = {<<i0, e0>>}
  OBVIOUS
<1>24. Rewires(nodes, ends, x.start, ms)
  <2>1. ms = Wire(nodes, ends, x.start)
    BY <1>4, <1>16, <1>17, <1>22, <1>23 DEF CaseBuilt
  <2>2. ends \subseteq (DOMAIN nodes) \X {"next", "alt"}
    BY <1>9, <1>20, <1>21, <1>23
  <2>3. \A i \in DOMAIN nodes, e \in Edges : <<i, e>> \in ends => Missing(nodes[i], e)
    BY <1>21, <1>23
  <2>4. x.start \in 1 .. Len(nodes)
    BY <1>2, <1>5
  <2> QED
    BY <1>5, <2>1, <2>2, <2>3, <2>4, Rewired
<1>25. /\ GraphOK(ms) /\ Grows(nodes, ms) /\ Len(ms) = N /\ DOMAIN ms = DOMAIN nodes
       /\ \A i \in DOMAIN nodes, e \in Edges : Same(nodes[i], ms[i], e) \/ (i = i0 /\ e = e0)
       /\ e0 = "next" => ms[i0].next = x.start
       /\ e0 = "alt" => ms[i0].alt = x.start
       /\ \A i \in DOMAIN nodes : ms[i].kind = nodes[i].kind
  BY <1>2, <1>9, <1>20, <1>21, <1>23, <1>24 DEF Rewires
<1>26. PICK so : so = c.open \cup x.open
  OBVIOUS
<1>27. OpenSoFar = so
  BY <1>3, <1>4, <1>26 DEF OpenSoFar
<1>28. \E d :
         /\ IsBuilder(d) /\ d.todo \in Seq(Steps) /\ d.join = c.join /\ d.start = c.start
         /\ d.id \in 0 .. N /\ d.starts \in Seq(1 .. N)
         /\ d.open \subseteq so \cup {<<i0, "alt">>}
         /\ \A i \in Int, e \in Edges : ~(<<i, e>> \in d.open /\ Owing(d, i, e))
         /\ \A i \in Int, e \in Edges :
              Owes(d, i, e) <=> (Owes(c, i, e) \/ <<i, e>> \in x.open) /\ ~(i = i0 /\ e = e0)
         /\ \A i \in Int : (Hooked(d, i) => Hooked(c, i)) /\ ~Pending(d, i)
         /\ Rooted(ms, d)
         /\ StackAs(Steps, ms, builders, builders', Height - 1, d)
  <2>1. CASE k + 1 < Len(Asking.cases)
    <3>1. PICK w : w = Waits(c, c.id, built)
      OBVIOUS
    <3>2. PICK d : d = [w EXCEPT !.open = so]
      OBVIOUS
    <3>3. /\ IsBuilder(w) /\ w.todo = c.todo /\ w.join = c.join
          /\ w.id = c.id /\ w.starts = built /\ w.start = c.start
      BY <1>5, <3>1, WaitsWith
    <3>4. /\ IsBuilder(d) /\ d.open = so /\ d.todo = c.todo /\ d.join = c.join
          /\ d.id = c.id /\ d.starts = built /\ d.start = c.start
      <4>1. d = [todo |-> w.todo, join |-> w.join, open |-> so, start |-> w.start, id |-> w.id,
                 starts |-> w.starts]
        BY <3>2, <3>3, SetField
      <4> QED
        BY <3>3, <4>1 DEF IsBuilder
    <3>5. k + 1 <= g /\ Head(d.todo) = Asking
      BY <1>6, <1>11, <2>1, <3>4
    <3>6. \A i \in Int, e \in Edges :
            Owing(d, i, e) <=> \/ i - c.id \in k + 1 .. g - 1 /\ e = "next"
                               \/ i - c.id = g - 1 /\ e = "alt"
      BY <1>1, <1>6, <1>10, <1>14, <3>4, <3>5 DEF Owing, Due
    <3>7. \A i \in Int, e \in Edges : Owing(d, i, e) <=> Owing(c, i, e) /\ ~(i = i0 /\ e = e0)
      <4>1. \A i \in Int : i - c.id \in k .. g - 1 <=> i - c.id \in k + 1 .. g - 1 \/ i = i0
        BY <1>7, <1>11, <1>18, <3>5
      <4>2. ~(i0 - c.id \in k + 1 .. g - 1) /\ e0 = "next"
        BY <1>7, <1>18, <3>5
      <4> QED
        BY <1>19, <3>6, <4>1, <4>2
    <3>8. \A i \in Int, e \in Edges :
            Owes(d, i, e) <=> (Owes(c, i, e) \/ <<i, e>> \in x.open) /\ ~(i = i0 /\ e = e0)
      BY <1>5, <1>8, <1>20, <1>21, <1>26, <3>4, <3>7 DEF Owes
    <3>9. \A i \in Int, e \in Edges : ~(<<i, e>> \in d.open /\ Owing(d, i, e))
      BY <1>5, <1>8, <1>26, <3>4, <3>7 DEF Owes
    <3>10. \A i \in Int : (Hooked(d, i) => Hooked(c, i)) /\ ~Pending(d, i)
      BY <1>1, <1>6, <3>4, <3>5 DEF Hooked, Pending
    <3>11. StackAs(Steps, ms, builders, builders', Height - 1, d)
      <4>1. PICK steps : steps = Asking.cases[Len(Built) + 1].then
        OBVIOUS
      <4>2. steps \in Seq(Steps)
        <5>1. Len(Built) + 1 \in 1 .. Len(Asking.cases)
          BY <1>11, <1>14, <2>1
        <5> QED
          BY <1>11, <4>1, <5>1
      <4>3. Waiting(d, Builder(steps, x.join))
        BY <1>1, <1>5, <1>6, <1>14, <2>1, <3>4, <3>5 DEF Waiting
      <4>4. Higher(Height - 1, d, steps, x.join, builders')
        <5>1. Len(Built) < Len(Asking.cases)
          BY <1>14, <2>1
        <5>2. builders' = Append(Upto(Height - 1, [Waits(c, c.id, built) EXCEPT !.open = so]), Builder(steps, x.join))
          BY <1>3, <1>4, <1>14, <1>27, <4>1, <5>1, Zenon DEF CaseBuilt, Opens
        <5> QED
          BY <3>1, <3>2, <5>2 DEF Higher
      <4>5. x.join \in 0 .. Len(ms)
        BY <1>7, <1>25
      <4> QED
        BY <1>5, <4>2, <4>3, <4>4, <4>5, OneHigher
    <3>12. d.open \subseteq so \cup {<<i0, "alt">>} /\ d.todo \in Seq(Steps) /\ d.id \in 0 .. N /\ d.starts \in Seq(1 .. N)
      BY <1>7, <1>14, <3>4
    <3>13. Rooted(ms, d)
      BY <1>1, <3>5 DEF Rooted
    <3> QED
      BY <3>4, <3>8, <3>9, <3>10, <3>11, <3>12, <3>13
  <2>2. CASE ~(k + 1 < Len(Asking.cases))
    <3>1. k + 1 = Len(Asking.cases)
      BY <1>11, <1>15, <2>2
    <3>2. PICK open : open = IF HasDefault(Asking) THEN so ELSE so \cup {<<i0, "alt">>}
      OBVIOUS
    <3>3. PICK d : d = Done(c, open)
      OBVIOUS
    <3>4. /\ IsBuilder(d) /\ d.open = open /\ d.todo = Tail(c.todo) /\ d.join = c.join
          /\ d.id = 0 /\ d.starts = <<>> /\ d.start = c.start
      BY <1>5, <3>3, DoneWith
    <3>5. \A i, e : (Owes(d, i, e) <=> <<i, e>> \in open) /\ ~Owing(d, i, e) /\ ~Hooked(d, i) /\ ~Pending(d, i)
      BY <3>4 DEF Owes, Owing, Hooked, Pending
    <3>6. ASSUME NEW i \in Int, NEW e \in Edges
          PROVE  <<i, e>> \in open <=> (Owes(c, i, e) \/ <<i, e>> \in x.open) /\ ~(i = i0 /\ e = e0)
      <4>1. ~(<<i0, e0>> \in c.open) /\ ~(<<i0, e0>> \in x.open)
        BY <1>5, <1>8, <1>20, <1>21
      <4>2. Owes(c, i, e) <=> <<i, e>> \in c.open \/ Owing(c, i, e)
        BY DEF Owes
      <4>3. CASE HasDefault(Asking)
        <5>1. k = g /\ i0 = c.id + g - 1 /\ e0 = "alt"
          BY <1>11, <1>18, <3>1, <4>3
        <5>2. Owing(c, i, e) <=> i = i0 /\ e = e0
          BY <1>7, <1>11, <1>19, <5>1
        <5>3. open = c.open \cup x.open
          BY <1>26, <3>2, <4>3
        <5> QED
          BY <4>1, <4>2, <5>2, <5>3
      <4>4. CASE ~HasDefault(Asking)
        <5>1. k + 1 = g /\ i0 = c.id + g - 1 /\ e0 = "next"
          BY <1>7, <1>11, <1>18, <3>1, <4>4
        <5>2. Owing(c, i, e) <=> i = i0 /\ e \in {"next", "alt"}
          <6>1. i - c.id \in k .. g - 1 <=> i = i0
            BY <1>7, <1>11, <5>1
          <6>2. i - c.id = g - 1 <=> i = i0
            BY <1>7, <1>11, <5>1
          <6> QED
            BY <1>19, <6>1, <6>2
        <5>3. open = c.open \cup x.open \cup {<<i0, "alt">>}
          BY <1>26, <3>2, <4>4
        <5>4. <<i, e>> = <<i0, "alt">> <=> i = i0 /\ e = "alt"
          OBVIOUS
        <5> QED
          BY <4>1, <4>2, <5>1, <5>2, <5>3, <5>4
      <4> QED
        BY <4>3, <4>4
    <3>7. \A i \in Int, e \in Edges :
            Owes(d, i, e) <=> (Owes(c, i, e) \/ <<i, e>> \in x.open) /\ ~(i = i0 /\ e = e0)
      BY <3>5, <3>6
    <3>8. open \subseteq so \cup {<<i0, "alt">>} /\ so \subseteq open
      BY <3>2
    <3>9. StackAs(Steps, ms, builders, builders', Height - 1, d)
      <4>1. Lower(Height - 1, d, builders')
        <5>1. ~(Len(Built) < Len(Asking.cases))
          BY <1>14, <2>2
        <5>2. builders' = Upto(Height - 1, Done(c, open))
          BY <1>3, <1>16, <1>27, <3>2, <5>1, Zenon DEF CaseBuilt, Resumes
        <5> QED
          BY <3>3, <5>2 DEF Lower
      <4>2. AtWork(d)
        <5>1. x.open # {}
          BY <1>1, <1>4, Returning
        <5> QED
          BY <1>6, <1>26, <3>4, <3>8, <5>1 DEF AtWork
      <4> QED
        BY <1>5, <4>1, <4>2, BackDown
    <3>10. d.todo \in Seq(Steps) /\ d.id \in 0 .. N /\ d.starts \in Seq(1 .. N)
      BY <1>5, <3>4
    <3>11. Rooted(ms, d)
      BY <3>4 DEF Rooted
    <3> QED
      BY <3>4, <3>5, <3>7, <3>8, <3>9, <3>10, <3>11
  <2> QED
    BY <2>1, <2>2
<1>29. PICK d :
         /\ IsBuilder(d) /\ d.todo \in Seq(Steps) /\ d.join = c.join /\ d.start = c.start
         /\ d.id \in 0 .. N /\ d.starts \in Seq(1 .. N)
         /\ d.open \subseteq so \cup {<<i0, "alt">>}
         /\ \A i \in Int, e \in Edges : ~(<<i, e>> \in d.open /\ Owing(d, i, e))
         /\ \A i \in Int, e \in Edges :
              Owes(d, i, e) <=> (Owes(c, i, e) \/ <<i, e>> \in x.open) /\ ~(i = i0 /\ e = e0)
         /\ \A i \in Int : (Hooked(d, i) => Hooked(c, i)) /\ ~Pending(d, i)
         /\ Rooted(ms, d)
         /\ StackAs(Steps, ms, builders, builders', Height - 1, d)
  BY <1>28
<1>30. ASSUME NEW S, EdgeClosed(ms, S), c.start \in S
       PROVE  /\ x.start \in S
              /\ \A i \in Int : Hooked(c, i) => i \in S
              /\ \A i \in Int, e \in Edges : <<i, e>> \in d.open => i \in S
  <2>1. /\ \A i \in Int : Hooked(c, i) => i \in S
        /\ \A i \in Int, e \in Edges : <<i, e>> \in c.open => i \in S
    BY <1>5, <1>6, <1>25, <1>30, HangsThere
  <2>2. i0 \in S
    <3>1. Hooked(c, i0)
      BY <1>1, <1>6, <1>10, <1>20 DEF Hooked
    <3> QED
      BY <1>20, <2>1, <3>1
  <2>3. x.start \in S
    BY <1>5, <1>9, <1>20, <1>21, <1>25, <1>30, <2>2 DEF EdgeClosed
  <2>4. \A i \in Int, e \in Edges : <<i, e>> \in x.open => i \in S
    BY <1>5, <1>25, <1>30, <2>3, HangsThere
  <2>5. \A i \in Int, e \in Edges : <<i, e>> \in d.open => <<i, e>> \in c.open \/ <<i, e>> \in x.open \/ i = i0
    BY <1>26, <1>29
  <2> QED
    BY <2>1, <2>2, <2>3, <2>4, <2>5
<1>31. LevelOK(Steps, ms, d)
  <2>1. d.open \subseteq (DOMAIN ms) \X {"next", "alt"}
    BY <1>7, <1>9, <1>21, <1>25, <1>26, <1>29
  <2>2. ASSUME NEW i \in Int, NEW e \in Edges, Owes(d, i, e) PROVE i \in DOMAIN ms /\ Missing(ms[i], e)
    <3>1. i \in DOMAIN nodes /\ Missing(nodes[i], e) /\ ~(i = i0 /\ e = e0)
      BY <1>5, <1>29, <2>2
    <3>2. Same(nodes[i], ms[i], e)
      BY <1>25, <3>1
    <3> QED
      BY <1>25, <3>1, <3>2 DEF Same, Missing
  <2>3. \A S : EdgeClosed(ms, S) /\ d.start \in S /\ d.start # 0 =>
          \A i \in Int : Hooked(d, i) \/ (\E e \in Edges : <<i, e>> \in d.open) => i \in S
    BY <1>29, <1>30
  <2> QED
    BY <1>7, <1>25, <1>29, <2>1, <2>2, <2>3 DEF LevelOK
<1>32. TakesOver(nodes, ms, c, x, d)
  <2>1. \A i \in DOMAIN nodes, e \in Edges : Same(nodes[i], ms[i], e) \/ Owes(c, i, e) \/ <<i, e>> \in x.open
    BY <1>21, <1>25
  <2>2. \A i \in Int, e \in Edges :
          Owes(d, i, e) => i \notin DOMAIN nodes \/ Owes(c, i, e) \/ <<i, e>> \in x.open
    BY <1>29
  <2>3. ASSUME NEW i \in DOMAIN ms, NEW e \in Edges, Lacks(ms[i], e), ~Owes(d, i, e)
        PROVE  i \in DOMAIN nodes /\ Lacks(nodes[i], e) /\ ~Owes(c, i, e) /\ <<i, e>> \notin x.open
    <3>1. i \in DOMAIN nodes /\ i \in Int
      BY <1>9, <1>25
    <3>2. ~(i = i0 /\ e = e0)
      BY <1>5, <1>20, <1>25, <2>3 DEF Lacks
    <3>3. Lacks(nodes[i], e)
      BY <1>25, <2>3, <3>1, <3>2 DEF Lacks, Same
    <3> QED
      BY <1>29, <2>3, <3>1, <3>2, <3>3
  <2>4. ASSUME NEW S, EdgeClosed(ms, S), Begun(d, S)
        PROVE  /\ Begun(c, S) /\ x.start \in S
               /\ \A i \in DOMAIN ms : i \in S \/ Pending(d, i) \/ (i \in DOMAIN nodes /\ ~Pending(c, i))
    <3>1. c.start \in S
      BY <1>6, <1>29, <2>4 DEF Begun
    <3>2. Begun(c, S)
      BY <1>1, <1>6, <3>1 DEF Begun
    <3>3. \A i : ~Pending(c, i)
      BY <1>1, <1>6 DEF Pending
    <3> QED
      BY <1>25, <1>30, <2>4, <3>1, <3>2, <3>3
  <2> QED
    BY <2>1, <2>2, <2>3, <2>4 DEF TakesOver
<1> QED
  BY <1>1, <1>3, <1>4, <1>22, <1>25, <1>29, <1>31, <1>32, ReturnsInOrder

(* The last branch of a parallel step keeps the invariant if the step then   *)
(* has its edges and the combine task.                                       *)
LEMMA Gathers ==
  ASSUME NEW Steps, Closed(Steps), Good(Steps, nodes, builders), Height > 1, Top.start # 0,
         Asking.kind \in {"fork", "each"}, NEW N, N = Len(nodes),
         Asking.kind = "fork" => Len(Built) >= 2, Asking.kind = "each" => Len(Built) = 1,
         NEW ms, Gathered(nodes, N, Caller, Top, Asking.kind, Built, ms),
         NEW cs, Lower(Height - 1, Done(Caller, {<<N + 1, "next">>}), cs)
  PROVE  Good(Steps, ms, cs)
<1>1. N \in Nat
  BY AtTop
<1>3. PICK c : c = Caller
  OBVIOUS
<1>4. PICK x : x = Top
  OBVIOUS
<1>5. /\ Height - 1 \in Nat \ {0} /\ GraphOK(nodes)
      /\ LevelOK(Steps, nodes, c) /\ LevelOK(Steps, nodes, x)
      /\ IsBuilder(c) /\ x.open # {} /\ Tail(c.todo) \in Seq(Steps)
      /\ x.start \in 1 .. N /\ x.start # 0
  BY <1>3, <1>4, Returning
<1>6. /\ c.open = {} /\ c.id # 0 /\ c.start # 0
      /\ c.id \in 1 .. N /\ c.start \in 1 .. N /\ c.join \in 0 .. N
      /\ x.join = c.id + 1 /\ x.join \in 1 .. N /\ c.starts \in Seq(1 .. N)
      /\ \A i \in Int, e \in Edges :
           Owes(c, i, e) <=> \/ i = c.id /\ e = "branches"
                             \/ i = c.id /\ e = "next" /\ Asking.kind = "each"
                             \/ i = x.join /\ e = "next"
      /\ x.open \subseteq (DOMAIN nodes) \X {"next", "alt"}
  BY <1>3, <1>4, BranchJoins
<1>7. DOMAIN nodes = 1 .. N
  BY <1>5, GraphDomain
<1>8. PICK built : built = Built
  OBVIOUS
<1>9. /\ GraphOK(ms) /\ Grows(nodes, ms) /\ Len(ms) = N + 1 /\ DOMAIN ms = 1 .. N + 1
      /\ NodeIs(ms[N + 1], "TASK", 0, 0)
      /\ \A i \in 1 .. N : /\ ms[i].kind = nodes[i].kind
                           /\ \A e \in Edges : Same(nodes[i], ms[i], e) \/ Owes(c, i, e) \/ <<i, e>> \in x.open
                           /\ <<i, "next">> \in x.open => ms[i].next = x.join
                           /\ <<i, "alt">> \in x.open => ms[i].alt = x.join
      /\ ms[c.id].branches = built /\ ms[x.join].next = N + 1
      /\ Asking.kind = "each" => ms[c.id].next = x.join
  BY <1>3, <1>4, <1>8, Zenon DEF Gathered
<1>10. /\ built \in Seq(1 .. N) /\ Range(built) = Range(c.starts) \cup {x.start}
       /\ \A j \in DOMAIN built : built[j] \in Range(built)
  <2>1. built = Append(c.starts, x.start)
    BY <1>3, <1>4, <1>8 DEF Built
  <2>2. OneMore(N, c.starts, x.start, built)
    BY <1>1, <1>5, <1>6, <2>1, OneMoreStart
  <2> QED
    BY <2>2 DEF OneMore
<1>11. \A v : v \in Range(built) => \E j \in DOMAIN built : built[j] = v
  BY DEF Range
<1>12. PICK d : d = Done(c, {<<N + 1, "next">>})
  OBVIOUS
<1>13. /\ IsBuilder(d) /\ d.open = {<<N + 1, "next">>} /\ d.todo = Tail(c.todo) /\ d.join = c.join
       /\ d.id = 0 /\ d.starts = <<>> /\ d.start = c.start
  BY <1>5, <1>12, DoneWith
<1>14. StackAs(Steps, ms, builders, cs, Height - 1, d)
  <2>1. Lower(Height - 1, d, cs)
    BY <1>3, <1>12
  <2>2. AtWork(d)
    BY <1>6, <1>13 DEF AtWork
  <2> QED
    BY <1>5, <2>1, <2>2, BackDown
<1>15. \A i, e : /\ Owes(d, i, e) <=> i = N + 1 /\ e = "next"
                 /\ ~Owing(d, i, e) /\ ~Hooked(d, i) /\ ~Pending(d, i)
  BY <1>13 DEF Owes, Owing, Hooked, Pending
<1>16. ASSUME NEW S, EdgeClosed(ms, S), c.start \in S
       PROVE  x.start \in S /\ x.join \in S /\ N + 1 \in S /\ Range(c.starts) \subseteq S
  <2>1. \A i \in Int : Hooked(c, i) => i \in S
    BY <1>5, <1>6, <1>9, <1>16, HangsThere
  <2>2. c.id \in S
    BY <1>6, <2>1 DEF Hooked
  <2>3. Range(built) \subseteq S
    <3>1. c.id \in DOMAIN ms
      BY <1>6, <1>9
    <3>2. \A j \in DOMAIN ms[c.id].branches : ms[c.id].branches[j] \in S
      BY <1>16, <2>2, <3>1, Zenon DEF EdgeClosed
    <3> QED
      BY <1>9, <1>11, <3>2
  <2>4. x.start \in S /\ Range(c.starts) \subseteq S
    BY <1>10, <2>3
  <2>5. \A i \in Int, e \in Edges : <<i, e>> \in x.open => i \in S
    BY <1>5, <1>9, <1>16, <2>4, HangsThere
  <2>a. PICK v : v \in x.open
    BY <1>5
  <2>b. v \in (1 .. N) \X {"next", "alt"}
    BY <1>6, <1>7, <2>a
  <2>6. PICK i \in 1 .. N, e \in {"next", "alt"} : <<i, e>> = v
    BY <2>b
  <2>c. i \in Int /\ e \in Edges /\ <<i, e>> \in x.open
    BY <1>1, <2>a, <2>6 DEF Edges
  <2>7. i \in S /\ i \in DOMAIN ms
    <3>1. i \in S
      BY <2>5, <2>c
    <3>2. i \in 1 .. N + 1
      BY <1>1, <2>6
    <3> QED
      BY <1>9, <3>1, <3>2
  <2>8. x.join # 0 /\ N + 1 # 0 /\ x.join \in DOMAIN ms
    BY <1>1, <1>6, <1>9
  <2>9. ms[i].next = x.join \/ ms[i].alt = x.join
    BY <1>9, <2>6, <2>c
  <2>10. x.join \in S
    BY <1>16, <2>7, <2>8, <2>9 DEF EdgeClosed
  <2>11. N + 1 \in S
    BY <1>9, <1>16, <2>8, <2>10 DEF EdgeClosed
  <2> QED
    BY <2>4, <2>10, <2>11
<1>17. LevelOK(Steps, ms, d)
  <2>1. d.open \subseteq (DOMAIN ms) \X {"next", "alt"}
    BY <1>1, <1>9, <1>13
  <2>2. ASSUME NEW i \in Int, NEW e \in Edges, Owes(d, i, e) PROVE i \in DOMAIN ms /\ Missing(ms[i], e)
    <3>1. i = N + 1 /\ e = "next"
      BY <1>15, <2>2
    <3>2. N + 1 \in DOMAIN ms
      BY <1>1, <1>9
    <3> QED
      BY <1>9, <3>1, <3>2 DEF Missing, NodeIs
  <2>3. \A S : EdgeClosed(ms, S) /\ d.start \in S /\ d.start # 0 =>
          \A i \in Int : Hooked(d, i) \/ (\E e \in Edges : <<i, e>> \in d.open) => i \in S
    BY <1>13, <1>15, <1>16
  <2>4. Rooted(ms, d)
    BY <1>13 DEF Rooted
  <2>5. 0 \in 0 .. N + 1 /\ <<>> \in Seq(1 .. N + 1) /\ c.start \in 0 .. N + 1 /\ c.join \in 0 .. N + 1
    BY <1>1, <1>6
  <2> QED
    BY <1>5, <1>9, <1>13, <1>15, <2>1, <2>2, <2>3, <2>4, <2>5 DEF LevelOK
<1>18. nodes[c.id].kind = (IF Asking.kind = "fork" THEN "FORK" ELSE "DYN_FORK")
  <2>1. Rooted(nodes, c) /\ Head(c.todo) = Asking
    BY <1>3, <1>5 DEF LevelOK, Asking
  <2> QED
    BY <1>6, <2>1 DEF Rooted
<1>19. TakesOver(nodes, ms, c, x, d)
  <2>1. \A i \in DOMAIN nodes, e \in Edges : Same(nodes[i], ms[i], e) \/ Owes(c, i, e) \/ <<i, e>> \in x.open
    BY <1>7, <1>9
  <2>2. \A i \in Int, e \in Edges :
          Owes(d, i, e) => i \notin DOMAIN nodes \/ Owes(c, i, e) \/ <<i, e>> \in x.open
    <3>1. N + 1 \notin DOMAIN nodes
      BY <1>1, <1>7
    <3> QED
      BY <1>15, <3>1
  <2>3. ASSUME NEW i \in DOMAIN ms, NEW e \in Edges, Lacks(ms[i], e), ~Owes(d, i, e)
        PROVE  i \in DOMAIN nodes /\ Lacks(nodes[i], e) /\ ~Owes(c, i, e) /\ <<i, e>> \notin x.open
    <3>0. x.join # 0 /\ N + 1 # 0
      BY <1>1, <1>6
    <3>1. i \in 1 .. N
      <4>1. CASE i = N + 1
        BY <1>9, <1>15, <2>3, <4>1 DEF Lacks, NodeIs
      <4> QED
        BY <1>1, <1>9, <4>1
    <3>2. <<i, e>> \notin x.open
      <4>1. <<i, e>> \in x.open => e \in {"next", "alt"}
        BY <1>6
      <4> QED
        BY <1>9, <2>3, <3>0, <3>1, <4>1 DEF Lacks
    <3>3. ~(i = c.id /\ e = "branches")
      <4>1. ms[c.id].branches = built /\ ms[c.id].kind = nodes[c.id].kind
        BY <1>6, <1>9
      <4>2. Asking.kind = "fork" => Len(built) >= 2
        BY <1>8
      <4>3. Asking.kind = "each" => Len(built) = 1
        BY <1>8
      <4> QED
        BY <1>18, <2>3, <4>1, <4>2, <4>3 DEF Lacks
    <3>4. ~(i = c.id /\ e = "next" /\ Asking.kind = "each")
      BY <1>9, <2>3, <3>0 DEF Lacks
    <3>5. ~(i = x.join /\ e = "next")
      BY <1>9, <2>3, <3>0 DEF Lacks
    <3>6. i \in Int
      BY <3>1
    <3>7. ~Owes(c, i, e)
      BY <1>6, <3>3, <3>4, <3>5, <3>6
    <3>8. Same(nodes[i], ms[i], e) /\ ms[i].kind = nodes[i].kind
      BY <1>9, <3>1, <3>2, <3>7
    <3>9. Lacks(nodes[i], e)
      BY <2>3, <3>8 DEF Lacks, Same
    <3> QED
      BY <1>7, <3>1, <3>2, <3>7, <3>9
  <2>4. ASSUME NEW S, EdgeClosed(ms, S), Begun(d, S)
        PROVE  /\ Begun(c, S) /\ x.start \in S
               /\ \A i \in DOMAIN ms : i \in S \/ Pending(d, i) \/ (i \in DOMAIN nodes /\ ~Pending(c, i))
    <3>1. c.start \in S
      BY <1>6, <1>13, <2>4 DEF Begun
    <3>2. x.start \in S /\ x.join \in S /\ N + 1 \in S /\ Range(c.starts) \subseteq S
      BY <1>16, <2>4, <3>1
    <3>3. Begun(c, S)
      BY <3>1, <3>2 DEF Begun
    <3>4. \A i : Pending(c, i) => i = x.join
      BY <1>6 DEF Pending
    <3>5. \A i \in DOMAIN ms : i \in DOMAIN nodes \/ i = N + 1
      BY <1>1, <1>7, <1>9
    <3> QED
      BY <3>2, <3>3, <3>4, <3>5
  <2> QED
    BY <2>1, <2>2, <2>3, <2>4 DEF TakesOver
<1> QED
  BY <1>3, <1>4, <1>9, <1>13, <1>14, <1>17, <1>19, ReturnsInOrder

(* Setting the branches of a fork and the next node of its join sets these   *)
(* two edges (setBranches, addCombine).                                      *)
LEMMA SetsFork ==
  ASSUME NEW N \in Nat, NEW ns, Size(ns, N), \A i \in 1 .. N : IsNode(ns[i]),
         NEW a \in 1 .. N, NEW j \in 1 .. N, a # j, NEW v, NEW w,
         NEW ps, ps = [ns EXCEPT ![a].branches = v, ![j].next = w]
  PROVE  ForkSet(ns, N, a, j, v, w, ps)
<1>1. DOMAIN ns = 1 .. N /\ ns = [i \in 1 .. N |-> ns[i]]
  BY AnySeq DEF Size
<1>2. PICK x : x = [ns[a] EXCEPT !.branches = v]
  OBVIOUS
<1>3. PICK y : y = [ns[j] EXCEPT !.next = w]
  OBVIOUS
<1>4. /\ IsNode(x) /\ x.branches = v /\ x.kind = ns[a].kind /\ x.next = ns[a].next /\ x.alt = ns[a].alt
      /\ x.name = ns[a].name /\ y.name = ns[j].name
      /\ IsNode(y) /\ y.next = w /\ y.kind = ns[j].kind /\ y.alt = ns[j].alt
      /\ y.branches = ns[j].branches
  <2>1. /\ IsNode(x) /\ x.branches = v /\ x.name = ns[a].name
        /\ x.kind = ns[a].kind /\ x.next = ns[a].next /\ x.alt = ns[a].alt
    BY <1>2, SetBranches
  <2>2. /\ IsNode(y) /\ y.next = w /\ y.name = ns[j].name
        /\ y.kind = ns[j].kind /\ y.alt = ns[j].alt /\ y.branches = ns[j].branches
    BY <1>3, SetNext
  <2> QED
    BY <2>1, <2>2
<1>5. ps = [i \in 1 .. N |-> IF i = a THEN x ELSE IF i = j THEN y ELSE ns[i]]
  <2>1. PICK qs : qs = [ns EXCEPT ![a] = x]
    OBVIOUS
  <2>2. DOMAIN qs = 1 .. N /\ qs[a] = x /\ \A i \in 1 .. N : i # a => qs[i] = ns[i]
    BY <1>1, <2>1
  <2>3. ps = [qs EXCEPT ![j] = y]
    BY <1>1, <1>2, <1>3, <2>1, <2>2
  <2> QED
    BY <1>1, <2>2, <2>3
<1>6. Size(ps, N)
  <2>1. DOMAIN ps = 1 .. N /\ ps = [i \in 1 .. N |-> ps[i]]
    BY <1>5
  <2>2. Len(ps) = N
    BY <2>1
  <2> QED
    BY <2>1, <2>2, AnySeq DEF Size
<1> QED
  BY <1>4, <1>5, <1>6 DEF ForkSet

(* Setting the branches of a dynamic fork, its next node and that of its     *)
(* join sets these three edges.                                              *)
LEMMA SetsDynFork ==
  ASSUME NEW N \in Nat, NEW ns, Size(ns, N), \A i \in 1 .. N : IsNode(ns[i]),
         NEW a \in 1 .. N, NEW j \in 1 .. N, a # j, NEW v, NEW w,
         NEW ps, AsDynFork(ns, a, j, v, w, ps)
  PROVE  ForkSet(ns, N, a, j, v, w, ps) /\ ps[a].next = j
<1>1. DOMAIN ns = 1 .. N /\ ns = [i \in 1 .. N |-> ns[i]]
  BY AnySeq DEF Size
<1>0. ps = [ns EXCEPT ![a].branches = v, ![a].next = j, ![j].next = w]
  BY DEF AsDynFork
<1>2. PICK b : b = [ns[a] EXCEPT !.branches = v]
  OBVIOUS
<1>a. PICK x : x = [b EXCEPT !.next = j]
  OBVIOUS
<1>3. PICK y : y = [ns[j] EXCEPT !.next = w]
  OBVIOUS
<1>b. IsNode(b) /\ b.branches = v /\ b.name = ns[a].name /\ b.kind = ns[a].kind /\ b.alt = ns[a].alt
  BY <1>2, SetBranches
<1>c. IsNode(x) /\ x.branches = v /\ x.name = ns[a].name /\ x.kind = ns[a].kind /\ x.next = j /\ x.alt = ns[a].alt
  BY <1>a, <1>b, SetNext
<1>4. IsNode(y) /\ y.next = w /\ y.name = ns[j].name /\ y.kind = ns[j].kind /\ y.alt = ns[j].alt /\ y.branches = ns[j].branches
  BY <1>3, SetNext
<1>5. ps = [i \in 1 .. N |-> IF i = a THEN x ELSE IF i = j THEN y ELSE ns[i]]
  <2>0. PICK ks : ks = [ns EXCEPT ![a] = b]
    OBVIOUS
  <2>a. DOMAIN ks = 1 .. N /\ ks[a] = b /\ \A i \in 1 .. N : i # a => ks[i] = ns[i]
    BY <1>1, <2>0
  <2>1. PICK qs : qs = [ks EXCEPT ![a] = x]
    OBVIOUS
  <2>2. DOMAIN qs = 1 .. N /\ qs[a] = x /\ \A i \in 1 .. N : i # a => qs[i] = ns[i]
    BY <1>1, <2>1, <2>a
  <2>3. ps = [qs EXCEPT ![j] = y]
    BY <1>0, <1>1, <1>2, <1>3, <1>a, <2>0, <2>a, <2>1, <2>2
  <2> QED
    BY <1>1, <2>2, <2>3
<1>6. Size(ps, N)
  <2>1. DOMAIN ps = 1 .. N /\ ps = [i \in 1 .. N |-> ps[i]]
    BY <1>5
  <2>2. Len(ps) = N
    BY <2>1
  <2> QED
    BY <2>1, <2>2, AnySeq DEF Size
<1> QED
  BY <1>4, <1>5, <1>6, <1>c DEF ForkSet

(* With these edges set and the combine task after them the branches of the  *)
(* builder's step are gathered.                                              *)
LEMMA GathersIn ==
  ASSUME NEW Steps, Good(Steps, nodes, builders), Height > 1, Top.start # 0,
         Asking.kind \in {"fork", "each"}, NEW N, N = Len(nodes),
         NEW ps, ForkSet(Joined, N, Caller.id, Top.join, Built, N + 1, ps),
         Asking.kind = "fork" => ps[Caller.id].next = Joined[Caller.id].next,
         Asking.kind = "each" => ps[Caller.id].next = Top.join,
         NEW z, NodeIs(z, "TASK", 0, 0), NEW ms, Tops(ps, N, z, ms)
  PROVE  Gathered(nodes, N, Caller, Top, Asking.kind, Built, ms)
<1>1. N \in Nat /\ GraphOK(nodes)
  BY AtTop DEF Good
<1>2. DOMAIN nodes = 1 .. N
  BY <1>1, GraphDomain
<1>3. PICK c : c = Caller
  OBVIOUS
<1>4. PICK x : x = Top
  OBVIOUS
<1>5. PICK ks : ks = Joined
  OBVIOUS
<1>6. PICK built : built = Built
  OBVIOUS
<1>7. /\ c.id \in 1 .. N /\ x.join = c.id + 1 /\ x.join \in 1 .. N
      /\ nodes[c.id].branches = <<>> /\ nodes[x.join].next = 0
      /\ Asking.kind = "each" => nodes[c.id].next = 0
      /\ \A i \in Int, e \in Edges :
           Owes(c, i, e) <=> \/ i = c.id /\ e = "branches"
                             \/ i = c.id /\ e = "next" /\ Asking.kind = "each"
                             \/ i = x.join /\ e = "next"
      /\ Rewires(nodes, x.open, x.join, ks)
  BY <1>3, <1>4, <1>5, BranchJoins
<1>8. built \in Seq(1 .. N)
  <2>1. c.starts \in Seq(1 .. N) /\ x.start \in 1 .. N
    BY <1>3, <1>4, BranchJoins, Returning
  <2>2. built = Append(c.starts, x.start)
    BY <1>3, <1>4, <1>6 DEF Built
  <2>3. OneMore(N, c.starts, x.start, built)
    BY <1>1, <2>1, <2>2, OneMoreStart
  <2> QED
    BY <2>3 DEF OneMore
<1>9. /\ GraphOK(ks) /\ Grows(nodes, ks) /\ Len(ks) = N /\ DOMAIN ks = 1 .. N
      /\ \A i \in 1 .. N : /\ \A e \in Edges : Same(nodes[i], ks[i], e) \/ <<i, e>> \in x.open
                           /\ <<i, "next">> \in x.open => ks[i].next = x.join
                           /\ <<i, "alt">> \in x.open => ks[i].alt = x.join
                           /\ ks[i].kind = nodes[i].kind
  BY <1>2, <1>7 DEF Rewires
<1>10. \A i \in 1 .. N : NodeWithin(ks[i], N)
  BY <1>9 DEF GraphOK
<1>11. \A i \in Int, e \in Edges : ~(Owes(c, i, e) /\ <<i, e>> \in x.open)
  BY <1>3, <1>4, Returning
<1>12. /\ Size(ps, N)
       /\ \A i \in 1 .. N :
            /\ IsNode(ps[i]) /\ ps[i].kind = ks[i].kind /\ ps[i].alt = ks[i].alt
            /\ i = c.id => ps[i].branches = built
            /\ i # c.id => ps[i].branches = ks[i].branches
            /\ i = x.join => ps[i].next = N + 1
            /\ i # x.join => ps[i].next = ks[i].next \/ (i = c.id /\ ps[i].next = x.join)
       /\ Asking.kind = "fork" => ps[c.id].next = ks[c.id].next
       /\ Asking.kind = "each" => ps[c.id].next = x.join
  BY <1>3, <1>4, <1>5, <1>6, Zenon DEF ForkSet
<1>13. Size(ms, N + 1) /\ (\A i \in 1 .. N : ms[i] = ps[i]) /\ ms[N + 1] = z
  BY Zenon DEF Tops
<1>14. Len(ms) = N + 1 /\ DOMAIN ms = 1 .. N + 1 /\ ms \in Seq(Range(ms))
  BY <1>13, AnySeq DEF Size
<1>15. ASSUME NEW i \in 1 .. N
       PROVE  NodeWithin(ms[i], N + 1)
  <2>1. ms[i] = ps[i] /\ 1 .. N \subseteq 1 .. N + 1
    BY <1>1, <1>13
  <2>2. ks[i].next \in 0 .. N + 1 /\ ks[i].alt \in 0 .. N + 1 /\ ks[i].branches \in Seq(1 .. N)
    BY <1>1, <1>10 DEF NodeWithin
  <2>3. ps[i].branches \in Seq(1 .. N)
    BY <1>8, <1>12, <2>2
  <2>4. ps[i].branches \in Seq(1 .. N + 1)
    BY <2>1, <2>3, WiderSeq
  <2>5. x.join \in 0 .. N + 1 /\ N + 1 \in 0 .. N + 1
    BY <1>1, <1>7
  <2>6. ps[i].next \in 0 .. N + 1
    BY <1>12, <2>2, <2>5
  <2> QED
    BY <1>12, <2>1, <2>2, <2>4, <2>6 DEF NodeWithin
<1>16. GraphOK(ms)
  <2>1. NodeWithin(ms[N + 1], N + 1)
    <3>1. 0 \in 0 .. N + 1 /\ <<>> \in Seq(1 .. N + 1)
      BY <1>1
    <3> QED
      BY <1>13, <3>1 DEF NodeWithin, NodeIs
  <2>2. \A i \in 1 .. N + 1 : i \in 1 .. N \/ i = N + 1
    BY <1>1
  <2> QED
    BY <1>14, <1>15, <2>1, <2>2 DEF GraphOK
<1>17. ASSUME NEW i \in 1 .. N
       PROVE  /\ ms[i].kind = nodes[i].kind
              /\ \A e \in Edges : Same(nodes[i], ms[i], e) \/ Owes(c, i, e) \/ <<i, e>> \in x.open
              /\ <<i, "next">> \in x.open => ms[i].next = x.join
              /\ <<i, "alt">> \in x.open => ms[i].alt = x.join
  <2>1. ms[i] = ps[i] /\ i \in Int
    BY <1>1, <1>13
  <2>2. "next" \in Edges /\ "alt" \in Edges /\ "branches" \in Edges
    BY DEF Edges
  <2>3. Same(nodes[i], ms[i], "branches") \/ Owes(c, i, "branches") \/ <<i, "branches">> \in x.open
    <3>1. Same(nodes[i], ks[i], "branches") \/ <<i, "branches">> \in x.open
      BY <1>9, <2>2
    <3>2. i = c.id => Owes(c, i, "branches")
      BY <1>7, <2>1, <2>2
    <3>3. i # c.id => ms[i].branches = ks[i].branches
      BY <1>12, <2>1
    <3> QED
      BY <3>1, <3>2, <3>3 DEF Same
  <2>4. Same(nodes[i], ms[i], "alt") \/ <<i, "alt">> \in x.open
    <3>1. Same(nodes[i], ks[i], "alt") \/ <<i, "alt">> \in x.open
      BY <1>9, <2>2
    <3>2. ms[i].alt = ks[i].alt
      BY <1>12, <2>1
    <3> QED
      BY <3>1, <3>2 DEF Same
  <2>5. ms[i].next = ks[i].next \/ Owes(c, i, "next")
    BY <1>7, <1>12, <2>1, <2>2
  <2>6. Same(nodes[i], ms[i], "next") \/ Owes(c, i, "next") \/ <<i, "next">> \in x.open
    <3>1. Same(nodes[i], ks[i], "next") \/ <<i, "next">> \in x.open
      BY <1>9, <2>2
    <3> QED
      BY <2>5, <3>1 DEF Same
  <2>7. <<i, "next">> \in x.open => ms[i].next = x.join
    BY <1>9, <1>11, <2>1, <2>2, <2>5
  <2>8. <<i, "alt">> \in x.open => ms[i].alt = x.join
    BY <1>9, <1>12, <2>1
  <2>9. ms[i].kind = nodes[i].kind
    BY <1>9, <1>12, <2>1
  <2> QED
    BY <2>3, <2>4, <2>6, <2>7, <2>8, <2>9 DEF Edges
<1>18. Grows(nodes, ms)
  <2>1. ASSUME NEW i \in 1 .. N, NEW e \in Edges PROVE Missing(nodes[i], e) \/ Same(nodes[i], ms[i], e)
    <3>1. Owes(c, i, e) => Missing(nodes[i], e)
      <4>1. i \in Int
        BY <1>1
      <4> QED
        BY <1>3, <4>1, Returning
    <3>2. <<i, e>> \in x.open => Missing(nodes[i], e)
      <4>1. i \in Int
        BY <1>1
      <4> QED
        BY <1>4, <4>1, Returning
    <3> QED
      BY <1>17, <3>1, <3>2
  <2>2. Len(nodes) <= Len(ms)
    BY <1>1, <1>14
  <2> QED
    BY <1>2, <1>17, <2>1, <2>2 DEF Grows
<1>19. ms[c.id].branches = built /\ ms[x.join].next = N + 1 /\ (Asking.kind = "each" => ms[c.id].next = x.join)
  BY <1>7, <1>12, <1>13
<1>20. Gathered(nodes, N, c, x, Asking.kind, built, ms)
  BY <1>13, <1>14, <1>16, <1>17, <1>18, <1>19 DEF Gathered
<1> QED
  BY <1>3, <1>4, <1>6, <1>20

(* The last arm of a fork, with the combine task after the join, keeps the   *)
(* invariant.                                                                *)
LEMMA LastArmKeeps ==
  ASSUME NEW Steps, Closed(Steps), Good(Steps, nodes, builders), ArmBuilt,
         ~(Len(Built) < Len(Asking.arms))
  PROVE  Good(Steps, nodes', builders')
<1>1. Height > 1 /\ Asking.kind = "fork" /\ Top.start # 0
  BY DEF ArmBuilt, BackAt
<1>2. PICK N \in Nat : N = Len(nodes)
  BY AtTop
<1>3. Id = N + 1
  BY <1>2 DEF Id
<1>4. PICK ks : ks = Joined
  OBVIOUS
<1>5. PICK ps : ps = [ks EXCEPT ![Caller.id].branches = Built, ![Top.join].next = N + 1]
  OBVIOUS
<1>6. PICK z : z = [Node("TASK", Asking.combine) EXCEPT
                      !.arms = [i \in DOMAIN Asking.arms |-> Last(Asking.arms[i]).name]]
  OBVIOUS
<1>7. NodeIs(z, "TASK", 0, 0)
  BY <1>6, NewNodeWith
<1>8. nodes' = Append(ps, z) /\ Lower(Height - 1, Done(Caller, {<<N + 1, "next">>}), builders')
  BY <1>3, <1>4, <1>5, <1>6, Zenon DEF ArmBuilt, Resumes, Lower
<1>9. /\ Caller.id \in 1 .. N /\ Top.join \in 1 .. N /\ Caller.id # Top.join
      /\ Size(ks, N) /\ \A i \in 1 .. N : IsNode(ks[i])
  <2>1. Rewires(nodes, Top.open, Top.join, ks)
    BY <1>1, <1>2, <1>4, BranchJoins
  <2>2. GraphOK(ks) /\ Len(ks) = N /\ DOMAIN ks = 1 .. N
    BY <1>2, <2>1, AtTop DEF Rewires
  <2>3. Size(ks, N) /\ \A i \in 1 .. N : IsNode(ks[i])
    BY <2>2 DEF GraphOK, NodeWithin, Size
  <2>4. Caller.id \in 1 .. N /\ Top.join \in 1 .. N /\ Top.join = Caller.id + 1
    BY <1>1, <1>2, BranchJoins
  <2> QED
    BY <2>3, <2>4
<1>10. ForkSet(ks, N, Caller.id, Top.join, Built, N + 1, ps)
  BY <1>5, <1>9, SetsFork
<1>11. ps[Caller.id].next = ks[Caller.id].next
  <2>1. PICK a : a = Caller.id
    OBVIOUS
  <2>2. PICK j : j = Top.join
    OBVIOUS
  <2>3. PICK v : v = Built
    OBVIOUS
  <2>4. a \in 1 .. N /\ a # j /\ a \in DOMAIN ks /\ IsNode(ks[a])
    BY <1>9, <2>1, <2>2, AnySeq DEF Size
  <2>5. ps = [ks EXCEPT ![a].branches = v, ![j].next = N + 1]
    BY <1>5, <2>1, <2>2, <2>3
  <2>6. ps[a] = [ks[a] EXCEPT !.branches = v]
    BY <2>4, <2>5
  <2>7. ps[a].next = ks[a].next
    BY <2>4, <2>6, SetBranches
  <2> QED
    BY <2>1, <2>7
<1>12. Size(ps, N)
  BY <1>10 DEF ForkSet
<1>13. Tops(ps, N, z, nodes')
  BY <1>8, <1>12, Appended
<1>14. Gathered(nodes, N, Caller, Top, Asking.kind, Built, nodes')
  BY <1>1, <1>2, <1>4, <1>7, <1>10, <1>11, <1>13, GathersIn
<1>15. Len(Built) >= 2
  <2>1. Asking \in Steps /\ Waiting(Caller, Top) /\ Asking = Head(Caller.todo)
    BY <1>1, Returning DEF Asking
  <2>2. Asking.arms \in Seq(Seq(Steps)) /\ ~Malformed(Asking)
    BY <1>1, <2>1 DEF Closed, Waiting
  <2>3. Len(Asking.arms) \in Nat /\ ~(Len(Asking.arms) < 2)
    BY <1>1, <2>2 DEF Malformed
  <2>4. PICK s \in Seq(1 .. N) : s = Caller.starts
    BY <1>1, <1>2, BranchJoins
  <2>5. PICK x \in 1 .. N : x = Top.start
    BY <1>1, <1>2, Returning
  <2>6. OneMore(N, s, x, Built)
    BY <2>4, <2>5, OneMoreStart DEF Built
  <2> QED
    BY <2>3, <2>6 DEF OneMore
<1> QED
  BY <1>1, <1>2, <1>8, <1>14, <1>15, Gathers

(* The body of a forEach, with the combine task after the join, keeps the    *)
(* invariant.                                                                *)
LEMMA BodyKeeps ==
  ASSUME NEW Steps, Closed(Steps), Good(Steps, nodes, builders), BodyBuilt
  PROVE  Good(Steps, nodes', builders')
<1>1. Height > 1 /\ Asking.kind = "each" /\ Top.start # 0
  BY DEF BodyBuilt, BackAt
<1>2. PICK N \in Nat : N = Len(nodes)
  BY AtTop
<1>3. Id = N + 1
  BY <1>2 DEF Id
<1>4. PICK ks : ks = Joined
  OBVIOUS
<1>5. PICK ps : ps = [ks EXCEPT ![Caller.id].branches = Built, ![Caller.id].next = Top.join,
                                ![Top.join].next = N + 1]
  OBVIOUS
<1>6. PICK z : z = [Node("TASK", Asking.combine) EXCEPT !.collect = <<"forEach", Asking.name>>]
  OBVIOUS
<1>7. NodeIs(z, "TASK", 0, 0)
  BY <1>6, NewNodeWith
<1>8. nodes' = Append(ps, z) /\ Lower(Height - 1, Done(Caller, {<<N + 1, "next">>}), builders')
  BY <1>3, <1>4, <1>5, <1>6, Zenon DEF BodyBuilt, Resumes, Lower
<1>9. /\ Caller.id \in 1 .. N /\ Top.join \in 1 .. N /\ Caller.id # Top.join
      /\ Size(ks, N) /\ \A i \in 1 .. N : IsNode(ks[i])
  <2>1. Rewires(nodes, Top.open, Top.join, ks)
    BY <1>1, <1>2, <1>4, BranchJoins
  <2>2. GraphOK(ks) /\ Len(ks) = N /\ DOMAIN ks = 1 .. N
    BY <1>2, <2>1, AtTop DEF Rewires
  <2>3. Size(ks, N) /\ \A i \in 1 .. N : IsNode(ks[i])
    BY <2>2 DEF GraphOK, NodeWithin, Size
  <2>4. Caller.id \in 1 .. N /\ Top.join \in 1 .. N /\ Top.join = Caller.id + 1
    BY <1>1, <1>2, BranchJoins
  <2> QED
    BY <2>3, <2>4
<1>10. ForkSet(ks, N, Caller.id, Top.join, Built, N + 1, ps) /\ ps[Caller.id].next = Top.join
  <2>1. AsDynFork(ks, Caller.id, Top.join, Built, N + 1, ps)
    BY <1>5, Zenon DEF AsDynFork
  <2> QED
    BY <1>9, <2>1, SetsDynFork
<1>11. Size(ps, N)
  BY <1>10 DEF ForkSet
<1>12. Tops(ps, N, z, nodes')
  BY <1>8, <1>11, Appended
<1>13. Gathered(nodes, N, Caller, Top, Asking.kind, Built, nodes')
  BY <1>1, <1>2, <1>4, <1>7, <1>10, <1>12, GathersIn
<1>14. Len(Built) = 1
  <2>1. PICK s \in Seq(1 .. N) : s = Caller.starts
    BY <1>1, <1>2, BranchJoins
  <2>2. PICK x \in 1 .. N : x = Top.start
    BY <1>1, <1>2, Returning
  <2>3. OneMore(N, s, x, Built)
    BY <2>1, <2>2, OneMoreStart DEF Built
  <2>4. Len(s) = 0
    BY <1>1, <1>2, <2>1, BranchJoins
  <2> QED
    BY <2>3, <2>4 DEF OneMore
<1> QED
  BY <1>1, <1>2, <1>8, <1>13, <1>14, Gathers

(* The body of a loop keeps the invariant: its ends lead to the condition,   *)
(* which leads back to its start.                                            *)
LEMMA WhileKeeps ==
  ASSUME NEW Steps, Closed(Steps), Good(Steps, nodes, builders), LoopBuilt
  PROVE  Good(Steps, nodes', builders')
<1>1. Height > 1 /\ Asking.kind = "loop" /\ Top.start # 0
  BY DEF LoopBuilt, BackAt
<1>2. PICK N \in Nat : N = Len(nodes)
  BY AtTop
<1>3. PICK c : c = Caller
  OBVIOUS
<1>4. PICK x : x = Top
  OBVIOUS
<1>5. /\ Height - 1 \in Nat \ {0} /\ GraphOK(nodes) /\ DOMAIN nodes = 1 .. N /\ Size(nodes, N)
      /\ LevelOK(Steps, nodes, c) /\ LevelOK(Steps, nodes, x)
      /\ IsBuilder(c) /\ Waiting(c, x) /\ x.open # {} /\ Tail(c.todo) \in Seq(Steps)
      /\ x.start \in 1 .. N /\ x.start # 0
      /\ \A i \in Int, e \in Edges : Owes(c, i, e) => i \in DOMAIN nodes /\ Missing(nodes[i], e)
      /\ \A i \in Int, e \in Edges : <<i, e>> \in x.open => i \in DOMAIN nodes /\ Missing(nodes[i], e)
      /\ \A i \in Int, e \in Edges : ~(Owes(c, i, e) /\ <<i, e>> \in x.open)
  BY <1>1, <1>2, <1>3, <1>4, Returning, AtTop
<1>6. AtWork(c)
  BY <1>1, <1>3, <1>5 DEF Waiting, Asking
<1>7. c.id = 0 /\ c.starts = <<>> /\ (c.start = 0 <=> c.open = {})
  BY <1>6 DEF AtWork
<1>8. \A i, e : (Owes(c, i, e) <=> <<i, e>> \in c.open) /\ ~Pending(c, i)
  BY <1>7 DEF Owes, Owing, Pending
<1>9. /\ c.start \in 0 .. N /\ c.join \in 0 .. N
      /\ c.open \subseteq (DOMAIN nodes) \X {"next", "alt"}
      /\ x.open \subseteq (DOMAIN nodes) \X {"next", "alt"}
  BY <1>2, <1>5 DEF LevelOK
<1>10. Id = N + 1
  BY <1>2 DEF Id
<1>11. PICK z : z = [Node("PREDICATE", Asking.while) EXCEPT !.next = x.start]
  OBVIOUS
<1>12. NodeIs(z, "PREDICATE", x.start, 0)
  BY <1>11, NewNodeWith
<1>13. PICK ws : ws = Wire(nodes, x.open, N + 1)
  OBVIOUS
<1>14. PICK vs : vs = Wire(ws, c.open, x.start)
  OBVIOUS
<1>15. PICK ms : ms = nodes'
  OBVIOUS
<1>16. ms = Append(vs, z)
  BY <1>3, <1>4, <1>10, <1>11, <1>13, <1>14, <1>15, Zenon DEF LoopBuilt
<1> HIDE <1>16
<1>17. PICK new : new = <<z>>
  OBVIOUS
<1>18. PICK es : Longer(nodes, x.open, N + 1, new, es)
  BY DEF Longer
<1>19. NewNodes(new, N, 1)
  <2>0. Size(new, 1)
    BY <1>17, Tuples
  <2>1. Size(new, 1) /\ new[1] = z /\ \A j \in 1 .. 1 : j = 1
    BY <1>17, <2>0
  <2>2. 0 \in 0 .. N + 1 /\ x.start \in 0 .. N + 1 /\ <<>> \in Seq(1 .. N + 1)
    BY <1>5
  <2>3. NodeWithin(z, N + 1)
    BY <1>12, <2>2 DEF NodeIs, NodeWithin
  <2> QED
    BY <2>1, <2>3, Zenon DEF NewNodes
<1>20. Extension(nodes, N, new, 1, x.open, N + 1, es)
  <2>1. \A i \in DOMAIN nodes, e \in Edges : <<i, e>> \in x.open => Missing(nodes[i], e)
    BY <1>5
  <2>2. N + 1 \in 1 .. N + 1 /\ 1 \in Nat
    OBVIOUS
  <2> QED
    BY <1>5, <1>9, <1>18, <1>19, <2>1, <2>2, Extends
<1>21. /\ Size(es, N + 1) /\ GraphOK(es) /\ Grows(nodes, es)
       /\ \A i \in 1 .. N : /\ \A e \in Edges : Same(nodes[i], es[i], e) \/ <<i, e>> \in x.open
                            /\ <<i, "next">> \in x.open => es[i].next = N + 1
                            /\ <<i, "alt">> \in x.open => es[i].alt = N + 1
                            /\ es[i].kind = nodes[i].kind
       /\ \A j \in 1 .. 1 : es[N + j] = new[j]
  BY <1>20, Zenon DEF Extension
<1>22. Size(ws, N) /\ (\A i \in 1 .. N : es[i] = ws[i])
  <2>1. Size(ws, N)
    BY <1>2, <1>5, <1>13, WireSets
  <2>2. es = ws \o new
    BY <1>13, <1>18 DEF Longer
  <2>3. Joins(ws, N, new, 1, es)
    <3>1. 1 \in Nat /\ Size(new, 1)
      BY <1>19 DEF NewNodes
    <3> QED
      BY <2>1, <2>2, <3>1, Extended
  <2> QED
    BY <2>1, <2>3, Zenon DEF Joins
<1>23. PICK rs : rs = Wire(es, c.open, x.start)
  OBVIOUS
<1>24. Len(es) = N + 1 /\ DOMAIN es = 1 .. N + 1
  BY <1>21, AnySeq DEF Size
<1>25. Rewires(es, c.open, x.start, rs)
  <2>1. c.open \subseteq (DOMAIN es) \X {"next", "alt"}
    BY <1>5, <1>9, <1>24
  <2>2. ASSUME NEW i \in DOMAIN es, NEW e \in Edges, <<i, e>> \in c.open PROVE Missing(es[i], e)
    <3>1. i \in 1 .. N /\ i \in Int
      BY <1>5, <1>9, <2>2
    <3>2. Missing(nodes[i], e) /\ <<i, e>> \notin x.open
      BY <1>5, <1>8, <2>2, <3>1
    <3>3. Same(nodes[i], es[i], e)
      BY <1>21, <3>1, <3>2
    <3> QED
      BY <3>2, <3>3 DEF Same, Missing
  <2>3. x.start \in 1 .. Len(es)
    BY <1>5, <1>24
  <2> QED
    BY <1>21, <1>23, <2>1, <2>2, <2>3, Rewired
<1>26. /\ GraphOK(rs) /\ Grows(es, rs) /\ Len(rs) = N + 1 /\ DOMAIN rs = 1 .. N + 1
       /\ \A i \in 1 .. N + 1 : /\ \A e \in Edges : Same(es[i], rs[i], e) \/ <<i, e>> \in c.open
                                /\ <<i, "next">> \in c.open => rs[i].next = x.start
                                /\ <<i, "alt">> \in c.open => rs[i].alt = x.start
                                /\ rs[i].kind = es[i].kind
  BY <1>24, <1>25 DEF Rewires
<1>27. Size(ms, N + 1) /\ (\A i \in 1 .. N : ms[i] = rs[i]) /\ ms[N + 1] = z
  <2>1. DOMAIN ws = 1 .. N
    BY <1>22, AnySeq DEF Size
  <2>2. DOMAIN vs = 1 .. N /\ vs = [i \in 1 .. N |-> vs[i]]
    BY <1>14, <2>1 DEF Wire
  <2>3. Len(vs) = N
    BY <2>2
  <2>4. Size(vs, N)
    BY <2>2, <2>3, AnySeq DEF Size
  <2>5. Tops(vs, N, z, ms)
    BY <1>16, <2>4, Appended
  <2>6. Size(ms, N + 1) /\ (\A i \in 1 .. N : ms[i] = vs[i]) /\ ms[N + 1] = z
    BY <2>5, Zenon DEF Tops
  <2>7. ASSUME NEW i \in 1 .. N PROVE vs[i] = rs[i]
    <3>1. i \in DOMAIN ws /\ i \in DOMAIN es /\ ws[i] = es[i]
      BY <1>22, <1>24, <2>1
    <3>2. PICK u : u = IF <<i, "next">> \in c.open THEN x.start ELSE es[i].next
      OBVIOUS
    <3>3. PICK v : v = IF <<i, "alt">> \in c.open THEN x.start ELSE es[i].alt
      OBVIOUS
    <3>4. IsNode(es[i]) /\ IsNode(ws[i])
      BY <1>21, <3>1 DEF GraphOK, NodeWithin
    <3>5. vs[i] = [[ws[i] EXCEPT !.next = u] EXCEPT !.alt = v]
      BY <1>14, <3>1, <3>2, <3>3, <3>4 DEF Wire, IsNode
    <3>6. rs[i] = [[es[i] EXCEPT !.next = u] EXCEPT !.alt = v]
      BY <1>23, <3>1, <3>2, <3>3, <3>4 DEF Wire, IsNode
    <3> QED
      BY <3>1, <3>5, <3>6, Zenon
  <2> QED
    BY <2>6, <2>7
<1>28. Len(ms) = N + 1 /\ DOMAIN ms = 1 .. N + 1 /\ ms \in Seq(Range(ms))
  BY <1>27, AnySeq DEF Size
<1>29. GraphOK(ms)
  <2>1. \A i \in 1 .. N : NodeWithin(ms[i], N + 1)
    BY <1>26, <1>27 DEF GraphOK
  <2>2. NodeWithin(ms[N + 1], N + 1)
    <3>1. 0 \in 0 .. N + 1 /\ x.start \in 0 .. N + 1 /\ <<>> \in Seq(1 .. N + 1)
      BY <1>5
    <3> QED
      BY <1>12, <1>27, <3>1 DEF NodeWithin, NodeIs
  <2>3. \A i \in 1 .. N + 1 : i \in 1 .. N \/ i = N + 1
    OBVIOUS
  <2> QED
    BY <1>28, <2>1, <2>2, <2>3 DEF GraphOK
<1>30. ASSUME NEW i \in 1 .. N
       PROVE  /\ ms[i].kind = nodes[i].kind
              /\ \A e \in Edges : Same(nodes[i], ms[i], e) \/ <<i, e>> \in c.open \/ <<i, e>> \in x.open
              /\ <<i, "next">> \in x.open => ms[i].next = N + 1
              /\ <<i, "alt">> \in x.open => ms[i].alt = N + 1
              /\ <<i, "next">> \in c.open => ms[i].next = x.start
              /\ <<i, "alt">> \in c.open => ms[i].alt = x.start
  <2>1. ms[i] = rs[i] /\ i \in 1 .. N + 1 /\ i \in Int
    BY <1>27
  <2>2. rs[i].kind = nodes[i].kind
    BY <1>21, <1>26, <2>1
  <2>3. ASSUME NEW e \in Edges
        PROVE  Same(nodes[i], rs[i], e) \/ <<i, e>> \in c.open \/ <<i, e>> \in x.open
    <3>1. Same(nodes[i], es[i], e) \/ <<i, e>> \in x.open
      BY <1>21
    <3>2. Same(es[i], rs[i], e) \/ <<i, e>> \in c.open
      BY <1>26, <2>1
    <3> QED
      BY <3>1, <3>2 DEF Same
  <2>4. ASSUME NEW e \in Edges, <<i, e>> \in x.open PROVE Same(es[i], rs[i], e)
    <3>1. <<i, e>> \notin c.open
      BY <1>5, <1>8, <2>1, <2>4
    <3> QED
      BY <1>26, <2>1, <3>1
  <2>5. "next" \in Edges /\ "alt" \in Edges
    BY DEF Edges
  <2>6. <<i, "next">> \in x.open => rs[i].next = N + 1
    BY <1>21, <2>4, <2>5 DEF Same
  <2>7. <<i, "alt">> \in x.open => rs[i].alt = N + 1
    BY <1>21, <2>4, <2>5 DEF Same
  <2>8. /\ <<i, "next">> \in c.open => rs[i].next = x.start
        /\ <<i, "alt">> \in c.open => rs[i].alt = x.start
    BY <1>26, <2>1
  <2> QED
    BY <2>1, <2>2, <2>3, <2>6, <2>7, <2>8
<1>31. Grows(nodes, ms)
  <2>1. ASSUME NEW i \in 1 .. N, NEW e \in Edges PROVE Missing(nodes[i], e) \/ Same(nodes[i], ms[i], e)
    <3>1. i \in Int
      OBVIOUS
    <3>2. <<i, e>> \in c.open => Missing(nodes[i], e)
      BY <1>5, <1>8, <3>1
    <3>3. <<i, e>> \in x.open => Missing(nodes[i], e)
      BY <1>5, <3>1
    <3> QED
      BY <1>30, <3>2, <3>3
  <2>2. Len(nodes) <= Len(ms)
    BY <1>2, <1>28
  <2> QED
    BY <1>5, <1>30, <2>1, <2>2 DEF Grows
<1>32. PICK a : a = Attach(c, x.start)
  OBVIOUS
<1>33. PICK d : d = Done(a, {<<N + 1, "alt">>})
  OBVIOUS
<1>34. /\ IsBuilder(d) /\ d.open = {<<N + 1, "alt">>} /\ d.todo = Tail(c.todo) /\ d.join = c.join
       /\ d.id = 0 /\ d.starts = <<>>
       /\ c.start = 0 => d.start = x.start
       /\ c.start # 0 => d.start = c.start
  <2>1. /\ IsBuilder(a) /\ a.todo = c.todo /\ a.join = c.join
        /\ c.open = {} /\ c.start = 0 => a.start = x.start
        /\ ~(c.open = {} /\ c.start = 0) => a.start = c.start
    BY <1>5, <1>32, Attached
  <2>2. /\ IsBuilder(d) /\ d.open = {<<N + 1, "alt">>} /\ d.todo = Tail(a.todo) /\ d.join = a.join
        /\ d.id = 0 /\ d.starts = <<>> /\ d.start = a.start
    BY <1>33, <2>1, DoneWith
  <2> QED
    BY <1>7, <2>1, <2>2
<1>35. StackAs(Steps, ms, builders, builders', Height - 1, d)
  <2>1. Lower(Height - 1, d, builders')
    BY <1>3, <1>4, <1>10, <1>32, <1>33, Zenon DEF LoopBuilt, Resumes, Lower
  <2>2. AtWork(d)
    BY <1>5, <1>34 DEF AtWork
  <2> QED
    BY <1>5, <2>1, <2>2, BackDown
<1>36. \A i, e : /\ Owes(d, i, e) <=> i = N + 1 /\ e = "alt"
                 /\ ~Owing(d, i, e) /\ ~Hooked(d, i) /\ ~Pending(d, i)
  BY <1>34 DEF Owes, Owing, Hooked, Pending
<1>37. ASSUME NEW S, EdgeClosed(ms, S), d.start \in S
       PROVE  x.start \in S /\ N + 1 \in S
  <2>1. x.start \in S
    <3>1. CASE c.start = 0
      BY <1>34, <1>37, <3>1
    <3>2. CASE c.start # 0
      <4>1. c.start \in S /\ c.open # {}
        BY <1>7, <1>34, <1>37, <3>2
      <4>2. \A i \in Int, e \in Edges : <<i, e>> \in c.open => i \in S
        BY <1>5, <1>29, <1>31, <1>37, <3>2, <4>1, HangsThere
      <4>3. PICK v : v \in c.open
        BY <4>1
      <4>4. v \in (1 .. N) \X {"next", "alt"}
        BY <1>5, <1>9, <4>3
      <4>5. PICK i \in 1 .. N, e \in {"next", "alt"} : <<i, e>> = v
        BY <4>4
      <4>6. i \in Int /\ e \in Edges /\ <<i, e>> \in c.open /\ i \in 1 .. N + 1
        BY <4>3, <4>5 DEF Edges
      <4>7. i \in S
        BY <4>2, <4>6
      <4>8. ms[i].next = x.start \/ ms[i].alt = x.start
        BY <1>30, <4>5, <4>6
      <4> QED
        BY <1>5, <1>28, <1>37, <4>6, <4>7, <4>8 DEF EdgeClosed
    <3> QED
      BY <3>1, <3>2
  <2>2. \A i \in Int, e \in Edges : <<i, e>> \in x.open => i \in S
    BY <1>5, <1>29, <1>31, <1>37, <2>1, HangsThere
  <2>3. PICK v : v \in x.open
    BY <1>5
  <2>4. v \in (1 .. N) \X {"next", "alt"}
    BY <1>5, <1>9, <2>3
  <2>5. PICK i \in 1 .. N, e \in {"next", "alt"} : <<i, e>> = v
    BY <2>4
  <2>6. i \in Int /\ e \in Edges /\ <<i, e>> \in x.open /\ i \in 1 .. N + 1
    BY <2>3, <2>5 DEF Edges
  <2>7. i \in S
    BY <2>2, <2>6
  <2>a. \/ e = "next" /\ <<i, "next">> \in x.open
        \/ e = "alt" /\ <<i, "alt">> \in x.open
    BY <2>5, <2>6
  <2>b. ms[i].next = N + 1 \/ ms[i].alt = N + 1
    BY <1>30, <2>a
  <2>8. (ms[i].next = N + 1 \/ ms[i].alt = N + 1) /\ N + 1 # 0
    BY <2>b
  <2>9. N + 1 \in S
    BY <1>28, <1>37, <2>6, <2>7, <2>8 DEF EdgeClosed
  <2> QED
    BY <2>1, <2>9
<1>38. LevelOK(Steps, ms, d)
  <2>1. d.open \subseteq (DOMAIN ms) \X {"next", "alt"}
    BY <1>28, <1>34
  <2>2. ASSUME NEW i \in Int, NEW e \in Edges, Owes(d, i, e) PROVE i \in DOMAIN ms /\ Missing(ms[i], e)
    <3>1. i = N + 1 /\ e = "alt"
      BY <1>36, <2>2
    <3>2. N + 1 \in DOMAIN ms
      BY <1>28
    <3> QED
      BY <1>12, <1>27, <3>1, <3>2 DEF Missing, NodeIs
  <2>3. \A S : EdgeClosed(ms, S) /\ d.start \in S /\ d.start # 0 =>
          \A i \in Int : Hooked(d, i) \/ (\E e \in Edges : <<i, e>> \in d.open) => i \in S
    BY <1>34, <1>36, <1>37
  <2>4. Rooted(ms, d)
    BY <1>34 DEF Rooted
  <2>5. 0 \in 0 .. N + 1 /\ <<>> \in Seq(1 .. N + 1) /\ d.start \in 0 .. N + 1 /\ d.join \in 0 .. N + 1
    BY <1>5, <1>9, <1>34
  <2> QED
    BY <1>5, <1>28, <1>34, <1>36, <2>1, <2>2, <2>3, <2>4, <2>5 DEF LevelOK
<1>39. TakesOver(nodes, ms, c, x, d)
  <2>1. \A i \in DOMAIN nodes, e \in Edges : Same(nodes[i], ms[i], e) \/ Owes(c, i, e) \/ <<i, e>> \in x.open
    BY <1>5, <1>8, <1>30
  <2>2. \A i \in Int, e \in Edges :
          Owes(d, i, e) => i \notin DOMAIN nodes \/ Owes(c, i, e) \/ <<i, e>> \in x.open
    <3>1. N + 1 \notin DOMAIN nodes
      BY <1>5
    <3> QED
      BY <1>36, <3>1
  <2>3. ASSUME NEW i \in DOMAIN ms, NEW e \in Edges, Lacks(ms[i], e), ~Owes(d, i, e)
        PROVE  i \in DOMAIN nodes /\ Lacks(nodes[i], e) /\ ~Owes(c, i, e) /\ <<i, e>> \notin x.open
    <3>1. i \in 1 .. N
      <4>1. CASE i = N + 1
        BY <1>5, <1>12, <1>27, <1>36, <2>3, <4>1 DEF Lacks, NodeIs
      <4> QED
        BY <1>28, <4>1
    <3>2. <<i, e>> \notin x.open /\ <<i, e>> \notin c.open
      <4>1. <<i, e>> \in x.open \/ <<i, e>> \in c.open => e \in {"next", "alt"}
        BY <1>9
      <4>2. N + 1 # 0
        OBVIOUS
      <4> QED
        BY <1>5, <1>30, <2>3, <3>1, <4>1, <4>2 DEF Lacks
    <3>3. Lacks(nodes[i], e)
      BY <1>30, <2>3, <3>1, <3>2 DEF Lacks, Same
    <3> QED
      BY <1>5, <1>8, <3>1, <3>2, <3>3
  <2>4. ASSUME NEW S, EdgeClosed(ms, S), Begun(d, S)
        PROVE  /\ Begun(c, S) /\ x.start \in S
               /\ \A i \in DOMAIN ms : i \in S \/ Pending(d, i) \/ (i \in DOMAIN nodes /\ ~Pending(c, i))
    <3>1. d.start # 0
      BY <1>5, <1>34
    <3>2. d.start \in S
      BY <2>4, <3>1 DEF Begun
    <3>3. x.start \in S /\ N + 1 \in S
      BY <1>37, <2>4, <3>2
    <3>4. Begun(c, S)
      BY <1>7, <1>34, <3>2 DEF Begun
    <3>5. \A i \in DOMAIN ms : i \in DOMAIN nodes \/ i = N + 1
      BY <1>5, <1>28
    <3> QED
      BY <1>8, <3>3, <3>4, <3>5
  <2> QED
    BY <2>1, <2>2, <2>3, <2>4 DEF TakesOver
<1> QED
  BY <1>1, <1>3, <1>4, <1>15, <1>29, <1>31, <1>34, <1>35, <1>38, <1>39, ReturnsInOrder

----------------------------------------------------------------------------
(* The invariant. *)

(* What the first builder is after a step of the compiler.                   *)
LEMMA FirstOf ==
  ASSUME NEW k \in Nat \ {0}, NEW b, NEW cs,
         Lower(k, b, cs) \/ \E steps, join : Higher(k, b, steps, join, cs)
  PROVE  (k = 1 => cs[1] = b) /\ (k # 1 => cs[1] = builders[1])
<1>1. PICK s : s = Upto(k, b)
  OBVIOUS
<1>2. Size(s, k) /\ s[k] = b /\ \A i \in 1 .. k - 1 : s[i] = builders[i]
  BY <1>1, Stacked
<1>3. cs[1] = s[1]
  <2>1. CASE Lower(k, b, cs)
    BY <1>1, <2>1 DEF Lower
  <2>2. CASE \E steps, join : Higher(k, b, steps, join, cs)
    <3>1. PICK x : cs = Append(s, x)
      BY <1>1, <2>2 DEF Higher
    <3>2. Tops(s, k, x, cs)
      BY <1>2, <3>1, Appended
    <3>3. 1 \in 1 .. k
      OBVIOUS
    <3> QED
      BY <3>2, <3>3 DEF Tops
  <2> QED
    BY <2>1, <2>2
<1>4. k # 1 => 1 \in 1 .. k - 1
  OBVIOUS
<1> QED
  BY <1>2, <1>3, <1>4

(* Whatever a builder appends, it has begun with it.                         *)
LEMMA HasBegun ==
  ASSUME NEW Steps, Good(Steps, nodes, builders), NEW open, NEW d,
         d = Done(Attach(Top, Id), open) \/ d = Waits(Attach(Top, Id), Id, <<>>)
  PROVE  d.start # 0
<1>1. IsBuilder(Top) /\ AtWork(Top) /\ Len(nodes) \in Nat
  BY AtTop
<1>2. PICK a : a = Attach(Top, Id)
  OBVIOUS
<1>3. /\ IsBuilder(a)
      /\ Top.open = {} /\ Top.start = 0 => a.start = Id
      /\ ~(Top.open = {} /\ Top.start = 0) => a.start = Top.start
  BY <1>1, <1>2, Attached
<1>4. a.start # 0
  BY <1>1, <1>3 DEF AtWork, Id
<1>5. d.start = a.start
  BY <1>2, <1>3, DoneWith, WaitsWith
<1> QED
  BY <1>4, <1>5

(* A flow is begun with its first step.                                      *)
LEMMA BeginsFirst ==
  ASSUME NEW Steps, Good(Steps, nodes, builders), Begins(builders), AppendNode
  PROVE  Begins(builders')
<1>1. PICK H \in Nat \ {0} : H = Height
  BY AtTop
<1>2. PICK cs : cs = builders'
  OBVIOUS
<1>3. SUFFICES ASSUME cs[1] # builders[1] PROVE cs[1].start # 0
  <2>1. CASE cs[1] = builders[1]
    BY <1>2, <2>1 DEF Begins
  <2>2. CASE cs[1] # builders[1]
    BY <1>2, <1>3, <2>2 DEF Begins
  <2> QED
    BY <2>1, <2>2
<1>4. ASSUME NEW open, GoesOn(open) PROVE cs[1].start # 0
  <2>1. PICK d : d = Done(Attach(Top, Id), open)
    OBVIOUS
  <2>2. Lower(H, d, cs)
    BY <1>1, <1>2, <1>4, <2>1 DEF GoesOn, Lower
  <2> QED
    BY <1>3, <2>1, <2>2, FirstOf, HasBegun
<1>5. ASSUME NEW steps, NEW join, Opens(Height, Waits(Attach(Top, Id), Id, <<>>), steps, join)
      PROVE  cs[1].start # 0
  <2>1. PICK d : d = Waits(Attach(Top, Id), Id, <<>>)
    OBVIOUS
  <2>2. Higher(H, d, steps, join, cs)
    BY <1>1, <1>2, <1>5, <2>1 DEF Opens, Higher
  <2> QED
    BY <1>3, <2>1, <2>2, FirstOf, HasBegun
<1>6. ASSUME Height > 1, Top.start # 0
      PROVE  /\ H - 1 \in Nat \ {0} /\ Waiting(Caller, Top) /\ IsBuilder(Caller)
             /\ Asking.kind # "loop" => Caller.start # 0
  BY <1>1, <1>6, Returning DEF Waiting, Asking
<1>7. ASSUME Height > 1, NEW d, d.start # 0,
             \/ \E open, b : d = Done(b, open) /\ Resumes(b, open)
             \/ \E steps, join : Opens(Height - 1, d, steps, join)
      PROVE  cs[1].start # 0
  <2>1. H - 1 \in Nat \ {0}
    BY <1>1, <1>7
  <2>2. Lower(H - 1, d, cs) \/ \E steps, join : Higher(H - 1, d, steps, join, cs)
    BY <1>1, <1>2, <1>7 DEF Resumes, Opens, Lower, Higher
  <2>3. (H - 1 = 1 => cs[1] = d) /\ (H - 1 # 1 => cs[1] = builders[1])
    BY <2>1, <2>2, FirstOf
  <2> QED
    BY <1>3, <1>7, <2>3
<1>8. CASE AppendTask
  BY <1>4, <1>8 DEF AppendTask
<1>9. CASE AppendGate
  BY <1>4, <1>9 DEF AppendGate
<1>10. CASE AppendSleep
  BY <1>4, <1>10 DEF AppendSleep
<1>11. CASE AppendSubFlow
  BY <1>4, <1>11 DEF AppendSubFlow
<1>12. CASE AppendSignal
  BY <1>4, <1>5, <1>12 DEF AppendSignal
<1>13. CASE AppendFork
  BY <1>5, <1>13 DEF AppendFork
<1>14. CASE AppendForEach
  BY <1>5, <1>14 DEF AppendForEach
<1>15. CASE AppendChoose
  BY <1>5, <1>15 DEF AppendChoose
<1>16. CASE AppendLoop
  <2>1. Higher(H, Top, Step.body, Top.join, cs)
    BY <1>1, <1>2, <1>16 DEF AppendLoop, Opens, Higher
  <2>2. H = 1 => cs[1] = Top
    BY <2>1, FirstOf
  <2>3. H # 1 => cs[1] = builders[1]
    BY <2>1, FirstOf
  <2> QED
    BY <1>1, <1>3, <2>2, <2>3 DEF Top
<1>17. ASSUME Height > 1, Top.start # 0, Asking.kind # "loop"
       PROVE  /\ \A open : Done(Caller, open).start # 0
              /\ \A id, starts : Waits(Caller, id, starts).start # 0
  <2>1. IsBuilder(Caller) /\ Caller.start # 0
    BY <1>6, <1>17
  <2> QED
    BY <2>1, DoneWith, WaitsWith
<1>18. CASE EscalationBuilt
  <2>1. Height > 1 /\ Top.start # 0 /\ Asking.kind # "loop"
    BY <1>18 DEF EscalationBuilt, BackAt
  <2>2. PICK open : Resumes(Caller, open)
    BY <1>18 DEF EscalationBuilt
  <2> QED
    BY <1>7, <1>17, <2>1, <2>2
<1>19. CASE ArmBuilt
  <2>1. Height > 1 /\ Top.start # 0 /\ Asking.kind # "loop"
    BY <1>19 DEF ArmBuilt, BackAt
  <2>2. \/ Opens(Height - 1, Waits(Caller, Caller.id, Built), Asking.arms[Len(Built) + 1], Top.join)
        \/ Resumes(Caller, {<<Id, "next">>})
    BY <1>19 DEF ArmBuilt
  <2> QED
    BY <1>7, <1>17, <2>1, <2>2
<1>20. CASE BodyBuilt
  <2>1. Height > 1 /\ Top.start # 0 /\ Asking.kind # "loop"
    BY <1>20 DEF BodyBuilt, BackAt
  <2>2. Resumes(Caller, {<<Id, "next">>})
    BY <1>20 DEF BodyBuilt
  <2> QED
    BY <1>7, <1>17, <2>1, <2>2
<1>21. CASE CaseBuilt
  <2>1. Height > 1 /\ Top.start # 0 /\ Asking.kind # "loop"
    BY <1>21 DEF CaseBuilt, BackAt
  <2>2. PICK w : w = Waits(Caller, Caller.id, Built)
    OBVIOUS
  <2>3. PICK d : d = [w EXCEPT !.open = OpenSoFar]
    OBVIOUS
  <2>4. d.start # 0
    <3>1. IsBuilder(w) /\ w.start = Caller.start
      BY <1>6, <2>1, <2>2, WaitsWith
    <3>2. d.start = w.start
      BY <2>3, <3>1, SetField
    <3> QED
      BY <1>6, <2>1, <3>1, <3>2
  <2>5. \/ Opens(Height - 1, d, Asking.cases[Len(Built) + 1].then, Top.join)
        \/ \E open : Resumes(Caller, open)
    BY <1>21, <2>2, <2>3 DEF CaseBuilt
  <2> QED
    BY <1>7, <1>17, <2>1, <2>4, <2>5
<1>22. CASE LoopBuilt
  <2>1. Height > 1 /\ Top.start # 0 /\ Asking.kind = "loop"
    BY <1>22 DEF LoopBuilt, BackAt
  <2>2. PICK a : a = Attach(Caller, Top.start)
    OBVIOUS
  <2>3. PICK d : d = Done(a, {<<Id, "alt">>})
    OBVIOUS
  <2>4. d.start # 0
    <3>1. AtWork(Caller)
      BY <1>6, <2>1 DEF Waiting, Asking
    <3>2. IsBuilder(a) /\ a.start # 0
      BY <1>6, <2>1, <2>2, <3>1, Attached DEF AtWork
    <3> QED
      BY <2>3, <3>2, DoneWith
  <2>5. Resumes(a, {<<Id, "alt">>})
    BY <1>22, <2>2 DEF LoopBuilt
  <2> QED
    BY <1>7, <2>1, <2>3, <2>4, <2>5
<1> QED
  BY <1>8, <1>9, <1>10, <1>11, <1>12, <1>13, <1>14, <1>15, <1>16, <1>18, <1>19, <1>20, <1>21, <1>22 DEF AppendNode

(* The invariant holds of the empty graph and a builder with the whole       *)
(* flow before it (compile).                                                 *)
LEMMA GoodAtFirst ==
  ASSUME NEW Steps, input.of = "flow", input.steps \in Seq(Steps), CompileInit
  PROVE  Good(Steps, nodes, builders) /\ Begins(builders)
<1>1. PICK b : b = Builder(input.steps, 0)
  OBVIOUS
<1>2. nodes = <<>> /\ builders = <<b>>
  BY <1>1 DEF CompileInit
<1>3. /\ IsBuilder(b) /\ b.todo = input.steps /\ b.join = 0 /\ b.open = {}
      /\ b.start = 0 /\ b.id = 0 /\ b.starts = <<>>
  BY <1>1 DEF Builder, IsBuilder
<1>4. \A i, e : ~Owes(b, i, e) /\ ~Owing(b, i, e) /\ ~Hooked(b, i)
  BY <1>3 DEF Owes, Owing, Hooked
<1>5. Len(nodes) = 0 /\ DOMAIN nodes = {} /\ nodes \in Seq(Range(nodes))
  BY <1>2
<1>6. Size(builders, 1) /\ DOMAIN builders = {1} /\ builders[1] = b
  <2>1. Size(builders, 1)
    BY <1>2, Tuples
  <2>2. DOMAIN builders = 1 .. 1
    BY <2>1, AnySeq DEF Size
  <2> QED
    BY <1>2, <2>1, <2>2
<1>7. GraphOK(nodes)
  BY <1>5 DEF GraphOK
<1>8. LevelOK(Steps, nodes, b)
  <2>1. b.starts \in Seq(1 .. 0)
    BY <1>3
  <2> QED
    BY <1>3, <1>4, <1>5, <2>1 DEF LevelOK, Rooted
<1>9. AtWork(b)
  BY <1>3 DEF AtWork
<1>10. Levels(Steps, nodes, builders)
  <2>1. builders \in Seq(Range(builders)) /\ Len(builders) = 1
    BY <1>6 DEF Size
  <2>2. builders # <<>>
    BY <1>2
  <2>3. 1 .. Len(builders) - 1 = {}
    BY <2>1
  <2> QED
    BY <1>6, <1>8, <1>9, <2>1, <2>2, <2>3 DEF Levels
<1>11. Apart(builders)
  BY <1>6 DEF Apart
<1>12. Owed(nodes, builders) /\ Reached(nodes, builders)
  BY <1>5 DEF Owed, Reached
<1>13. Begins(builders)
  BY <1>3, <1>6 DEF Begins
<1> QED
  BY <1>7, <1>10, <1>11, <1>12, <1>13 DEF Good

(* Whatever a builder appends keeps the invariant (appendNodes).             *)
LEMMA AppendKeeps ==
  ASSUME NEW Steps, Closed(Steps), Good(Steps, nodes, builders), AppendNode
  PROVE  Good(Steps, nodes', builders')
<1>1. AppendTask => Good(Steps, nodes', builders')
  BY TaskKeeps
<1>2. AppendGate => Good(Steps, nodes', builders')
  BY GateKeeps
<1>3. AppendSleep => Good(Steps, nodes', builders')
  BY SleepKeeps
<1>4. AppendSubFlow => Good(Steps, nodes', builders')
  BY SubFlowKeeps
<1>5. AppendSignal => Good(Steps, nodes', builders')
  BY SignalKeeps
<1>6. AppendFork => Good(Steps, nodes', builders')
  BY ForkKeeps
<1>7. AppendForEach => Good(Steps, nodes', builders')
  BY ForEachKeeps
<1>8. AppendChoose => Good(Steps, nodes', builders')
  BY ChooseKeeps
<1>9. AppendLoop => Good(Steps, nodes', builders')
  BY LoopKeeps
<1>10. EscalationBuilt => Good(Steps, nodes', builders')
  BY EscalationKeeps
<1>11. ArmBuilt => Good(Steps, nodes', builders')
  BY ArmKeeps, LastArmKeeps
<1>12. BodyBuilt => Good(Steps, nodes', builders')
  BY BodyKeeps
<1>13. CaseBuilt => Good(Steps, nodes', builders')
  BY CaseKeeps
<1>14. LoopBuilt => Good(Steps, nodes', builders')
  BY WhileKeeps
<1> QED
  BY <1>1, <1>2, <1>3, <1>4, <1>5, <1>6, <1>7, <1>8, <1>9, <1>10, <1>11, <1>12, <1>13, <1>14
     DEF AppendNode

----------------------------------------------------------------------------
(* The end of the compiler. *)

(* The graph is whole once the end is appended: its nodes have their         *)
(* edges, and no part of it with the start in it is closed (addEnd).         *)
LEMMA EndsWhole ==
  ASSUME NEW Steps, Good(Steps, nodes, builders), Begins(builders),
         Height = 1, Top.todo = <<>>, input.steps # <<>>,
         NEW ms, ms = Append(Wire(nodes, Top.open, Id), Node("END", NoName))
  PROVE  Whole(ms, Top.start)
<1>1. PICK N \in Nat : N = Len(nodes)
  BY AtTop
<1>2. PICK x : x = Top
  OBVIOUS
<1>3. /\ GraphOK(nodes) /\ DOMAIN nodes = 1 .. N /\ Size(nodes, N)
      /\ LevelOK(Steps, nodes, x) /\ AtWork(x) /\ Size(builders, 1)
  BY <1>1, <1>2, AtTop DEF Good
<1>4. DOMAIN builders = {1} /\ builders[1] = x
  <2>1. DOMAIN builders = 1 .. 1
    BY <1>3, AnySeq DEF Size
  <2> QED
    BY <1>2, <2>1 DEF Top
<1>5. x.start # 0 /\ x.open # {} /\ x.id = 0 /\ x.starts = <<>> /\ x.start \in 1 .. N
  <2>1. x.start # 0
    BY <1>2, <1>4 DEF Begins
  <2>2. x.start \in 0 .. N
    BY <1>1, <1>3 DEF LevelOK
  <2> QED
    BY <1>3, <2>1, <2>2 DEF AtWork
<1>6. /\ x.open \subseteq (DOMAIN nodes) \X {"next", "alt"}
      /\ \A i \in DOMAIN nodes, e \in Edges : <<i, e>> \in x.open => Missing(nodes[i], e)
  BY <1>3 DEF LevelOK, Owes
<1>7. PICK z : z = Node("END", NoName)
  OBVIOUS
<1>8. NodeIs(z, "END", 0, 0)
  BY <1>7, NewNodeWith
<1>9. PICK new : new = <<z>>
  OBVIOUS
<1>10. new[1] = z /\ NewNodes(new, N, 1)
  <2>0. Size(new, 1)
    BY <1>9, Tuples
  <2>1. Size(new, 1) /\ new[1] = z /\ \A j \in 1 .. 1 : j = 1
    BY <1>9, <2>0
  <2>2. 0 \in 0 .. N + 1 /\ <<>> \in Seq(1 .. N + 1)
    OBVIOUS
  <2>3. NodeWithin(z, N + 1)
    BY <1>8, <2>2 DEF NodeIs, NodeWithin
  <2> QED
    BY <2>1, <2>3, Zenon DEF NewNodes
<1>11. Longer(nodes, x.open, N + 1, new, ms)
  <2>1. PICK ws : ws = Wire(nodes, x.open, N + 1)
    OBVIOUS
  <2>2. Size(ws, N)
    BY <1>1, <1>3, <2>1, WireSets
  <2>3. ms = Append(ws, z)
    BY <1>1, <1>2, <1>7, <2>1 DEF Id
  <2>4. Append(ws, z) = ws \o <<z>>
    BY <2>2, AppendIsConcat DEF Size
  <2> QED
    BY <1>9, <2>1, <2>3, <2>4 DEF Longer
<1> HIDE DEF Longer
<1>12. Extension(nodes, N, new, 1, x.open, N + 1, ms)
  <2>1. N + 1 \in 1 .. N + 1 /\ 1 \in Nat
    OBVIOUS
  <2> QED
    BY <1>3, <1>6, <1>10, <1>11, <2>1, Extends
<1>13. /\ Size(ms, N + 1) /\ GraphOK(ms) /\ Grows(nodes, ms)
       /\ \A i \in 1 .. N : /\ \A e \in Edges : Same(nodes[i], ms[i], e) \/ <<i, e>> \in x.open
                            /\ <<i, "next">> \in x.open => ms[i].next = N + 1
                            /\ <<i, "alt">> \in x.open => ms[i].alt = N + 1
                            /\ ms[i].kind = nodes[i].kind
       /\ \A j \in 1 .. 1 : ms[N + j] = new[j]
  BY <1>12, Zenon DEF Extension
<1>14. DOMAIN ms = 1 .. N + 1 /\ Len(ms) = N + 1 /\ ms[N + 1] = z
  <2>1. DOMAIN ms = 1 .. N + 1 /\ Len(ms) = N + 1
    BY <1>13, AnySeq DEF Size
  <2> QED
    BY <1>10, <1>13, <2>1
<1>15. ASSUME NEW i \in 1 .. N, NEW e \in Edges PROVE ~Lacks(ms[i], e)
  <2>1. <<i, e>> \in x.open => e \in {"next", "alt"}
    BY <1>6
  <2>2. N + 1 # 0
    OBVIOUS
  <2>3. <<i, e>> \in x.open => ~Lacks(ms[i], e)
    BY <1>13, <2>1, <2>2 DEF Lacks
  <2>4. ASSUME <<i, e>> \notin x.open, Lacks(ms[i], e) PROVE FALSE
    <3>1. Lacks(nodes[i], e)
      BY <1>13, <2>4 DEF Lacks, Same
    <3>2. Owes(x, i, e)
      BY <1>3, <1>4, <3>1 DEF Good, Owed
    <3> QED
      BY <1>5, <2>4, <3>2 DEF Owes, Owing
  <2> QED
    BY <2>3, <2>4
<1>16. ASSUME NEW i \in DOMAIN ms PROVE Wired(ms[i])
  <2>1. CASE i = N + 1
    BY <1>8, <1>14, <2>1 DEF Wired, NodeIs
  <2>2. CASE i \in 1 .. N
    <3>1. PICK n : n = ms[i]
      OBVIOUS
    <3>2. \A e \in Edges : ~Lacks(n, e)
      BY <1>15, <2>2, <3>1
    <3>3. n.branches \in Seq(1 .. N + 1)
      BY <1>13, <1>14, <3>1 DEF GraphOK, NodeWithin
    <3>4. \A j \in DOMAIN n.branches : n.branches[j] # 0
      BY <3>3
    <3>5. 0 \notin Range(n.branches)
      BY <3>4 DEF Range
    <3>6. Len(n.branches) = 1 => n.branches[1] # 0
      BY <3>3, <3>4
    <3>7. n.kind \notin {"END", "FORK"} => n.next # 0
      BY <3>2 DEF Lacks, Edges
    <3>8. n.kind = "PREDICATE" => n.alt # 0
      BY <3>2 DEF Lacks, Edges
    <3>9. n.kind = "FORK" => Len(n.branches) >= 2
      BY <3>2 DEF Lacks, Edges
    <3>10. n.kind = "DYN_FORK" => Len(n.branches) = 1
      BY <3>2 DEF Lacks, Edges
    <3> QED
      BY <3>1, <3>5, <3>6, <3>7, <3>8, <3>9, <3>10 DEF Wired
  <2> QED
    BY <1>14, <2>1, <2>2
<1>17. ASSUME NEW S, EdgeClosed(ms, S), x.start \in S PROVE DOMAIN ms \subseteq S
  <2>1. EdgeClosed(nodes, S)
    BY <1>3, <1>13, <1>17, ClosedBefore
  <2>2. Begun(x, S)
    BY <1>5, <1>17 DEF Begun
  <2>3. 1 .. N \subseteq S
    <3>1. \A i \in DOMAIN nodes : i \in S \/ \E j \in DOMAIN builders : Pending(builders[j], i)
      BY <1>4, <2>1, <2>2 DEF Good, Reached
    <3>2. \A i : ~Pending(x, i)
      BY <1>5 DEF Pending
    <3> QED
      BY <1>3, <1>4, <3>1, <3>2
  <2>4. PICK v : v \in x.open
    BY <1>5
  <2>5. v \in (1 .. N) \X {"next", "alt"}
    BY <1>3, <1>6, <2>4
  <2>6. PICK i \in 1 .. N, e \in {"next", "alt"} : <<i, e>> = v
    BY <2>5
  <2>7. \/ e = "next" /\ <<i, "next">> \in x.open
        \/ e = "alt" /\ <<i, "alt">> \in x.open
    BY <2>4, <2>6
  <2>8. ms[i].next = N + 1 \/ ms[i].alt = N + 1
    BY <1>13, <2>7
  <2>9. N + 1 # 0 /\ i \in DOMAIN ms /\ i \in S
    BY <1>14, <2>3
  <2>10. N + 1 \in S
    BY <1>17, <2>8, <2>9 DEF EdgeClosed
  <2> QED
    BY <1>14, <2>3, <2>10
<1>18. x.start \in DOMAIN ms
  BY <1>5, <1>14
<1> QED
  BY <1>2, <1>13, <1>16, <1>17, <1>18 DEF Whole

----------------------------------------------------------------------------
(* The nodes that are reached. *)

More(ns, S) == S \cup Successors(ns, S)

(* f has the nodes reached in up to n steps. *)
ReachIs(ns, S, n, f) ==
  f[0] = S /\ \A k \in Nat : k < n => f[k + 1] = More(ns, f[k])

(* The nodes reached in so many steps are the same whatever function has     *)
(* them.                                                                     *)
LEMMA ReachUnique ==
  ASSUME NEW ns, NEW S, NEW n \in Nat, NEW f, ReachIs(ns, S, n, f),
         NEW m \in Nat, NEW g, ReachIs(ns, S, m, g), NEW k \in Nat, k <= n, k <= m
  PROVE  f[k] = g[k]
<1> SUFFICES ASSUME f[k] # g[k] PROVE FALSE
  OBVIOUS
<1> DEFINE T == {x \in Nat : x <= k /\ f[x] # g[x]}
<1>1. T \subseteq Nat /\ T # {}
  OBVIOUS
<1>2. PICK x \in T : \A y \in T : x <= y
  BY <1>1, LeastOf
<1>3. x # 0
  BY <1>2 DEF ReachIs
<1>4. x - 1 \in Nat /\ x - 1 < n /\ x - 1 < m /\ (x - 1) + 1 = x /\ x - 1 \notin T
  BY <1>2, <1>3
<1>5. f[x - 1] = g[x - 1]
  BY <1>2, <1>4
<1>6. f[x] = More(ns, f[x - 1]) /\ g[x] = More(ns, g[x - 1])
  BY <1>4 DEF ReachIs
<1> QED
  BY <1>2, <1>5, <1>6

(* There is a function that has the nodes reached in every number of         *)
(* steps.                                                                    *)
LEMMA ReachExists ==
  ASSUME NEW ns, NEW S
  PROVE  \E f : /\ f = [k \in Nat |-> IF k = 0 THEN S ELSE f[k - 1] \cup Successors(ns, f[k - 1])]
                /\ \A n \in Nat : ReachIs(ns, S, n, f)
<1>1. ASSUME NEW n \in Nat PROVE \E f : ReachIs(ns, S, n, f)
  <2> SUFFICES ASSUME ~\E f : ReachIs(ns, S, n, f) PROVE FALSE
    OBVIOUS
  <2> DEFINE T == {x \in Nat : ~\E f : ReachIs(ns, S, x, f)}
  <2>1. T \subseteq Nat /\ T # {}
    OBVIOUS
  <2>2. PICK x \in T : \A y \in T : x <= y
    BY <2>1, LeastOf
  <2>3. x # 0
    <3>1. PICK f : f = [k \in {0} |-> S]
      OBVIOUS
    <3>2. ReachIs(ns, S, 0, f)
      BY <3>1 DEF ReachIs
    <3> QED
      BY <2>2, <3>2
  <2>4. PICK w \in Nat : w = x - 1
    BY <2>2, <2>3
  <2>5. PICK f : ReachIs(ns, S, w, f)
    BY <2>2, <2>4
  <2>6. PICK g : g = [k \in 0 .. x |-> IF k = x THEN More(ns, f[w]) ELSE f[k]]
    OBVIOUS
  <2>7. ReachIs(ns, S, x, g)
    <3>1. g[0] = S
      BY <2>2, <2>3, <2>5, <2>6 DEF ReachIs
    <3>2. ASSUME NEW k \in Nat, k < x PROVE g[k + 1] = More(ns, g[k])
      <4>1. g[k] = f[k]
        BY <2>2, <2>6, <3>2
      <4>2. CASE k = w
        BY <2>2, <2>4, <2>6, <4>1, <4>2
      <4>3. CASE k # w
        <5>1. k < w
          BY <2>2, <2>4, <3>2, <4>3
        <5>2. f[k + 1] = More(ns, f[k])
          BY <2>5, <5>1 DEF ReachIs
        <5>3. g[k + 1] = f[k + 1]
          BY <2>2, <2>4, <2>6, <5>1
        <5> QED
          BY <4>1, <5>2, <5>3
      <4> QED
        BY <4>2, <4>3
    <3> QED
      BY <3>1, <3>2 DEF ReachIs
  <2> QED
    BY <2>2, <2>7
<1> DEFINE At(n) == CHOOSE f : ReachIs(ns, S, n, f)
<1>2. \A n \in Nat : ReachIs(ns, S, n, At(n))
  BY <1>1
<1> HIDE DEF At
<1>3. PICK g : g = [n \in Nat |-> At(n)[n]]
  OBVIOUS
<1>4. g[0] = S
  BY <1>2, <1>3 DEF ReachIs
<1>5. ASSUME NEW k \in Nat PROVE g[k + 1] = More(ns, g[k])
  <2>0. k + 1 \in Nat /\ k < k + 1 /\ k <= k /\ k <= k + 1
    OBVIOUS
  <2>1. g[k] = At(k)[k] /\ g[k + 1] = At(k + 1)[k + 1]
    BY <1>3, <2>0
  <2>2. ReachIs(ns, S, k, At(k)) /\ ReachIs(ns, S, k + 1, At(k + 1))
    BY <1>2, <2>0
  <2>3. At(k + 1)[k + 1] = More(ns, At(k + 1)[k])
    BY <2>0, <2>2 DEF ReachIs
  <2>4. At(k)[k] = At(k + 1)[k]
    BY <2>0, <2>2, ReachUnique
  <2> QED
    BY <2>1, <2>3, <2>4
<1>6. \A n \in Nat : ReachIs(ns, S, n, g)
  BY <1>4, <1>5 DEF ReachIs
<1>7. g = [k \in Nat |-> IF k = 0 THEN S ELSE g[k - 1] \cup Successors(ns, g[k - 1])]
  <2>1. ASSUME NEW k \in Nat
        PROVE  g[k] = IF k = 0 THEN S ELSE g[k - 1] \cup Successors(ns, g[k - 1])
    <3>1. CASE k = 0
      BY <1>4, <3>1
    <3>2. CASE k # 0
      <4>1. PICK j \in Nat : j = k - 1
        BY <3>2
      <4>2. k = j + 1
        BY <4>1
      <4>3. g[k] = More(ns, g[j])
        BY <1>5, <4>2
      <4> QED
        BY <3>2, <4>1, <4>3 DEF More
    <3> QED
      BY <3>1, <3>2
  <2> QED
    BY <1>3, <2>1
<1> QED
  BY <1>6, <1>7

(* The nodes reached from a set are those of the last of these steps.        *)
LEMMA ReachableAt ==
  ASSUME NEW ns, NEW S, Len(ns) \in Nat
  PROVE  \E f : /\ ReachableFrom(ns, S) = f[Len(ns)]
                /\ \A n \in Nat : ReachIs(ns, S, n, f)
<1> DEFINE reach == CHOOSE f : f = [k \in Nat |-> IF k = 0 THEN S ELSE f[k - 1] \cup Successors(ns, f[k - 1])]
<1>1. PICK f : /\ f = [k \in Nat |-> IF k = 0 THEN S ELSE f[k - 1] \cup Successors(ns, f[k - 1])]
               /\ \A n \in Nat : ReachIs(ns, S, n, f)
  BY ReachExists
<1>2. reach = [k \in Nat |-> IF k = 0 THEN S ELSE reach[k - 1] \cup Successors(ns, reach[k - 1])]
  BY <1>1
<1>3. ReachableFrom(ns, S) = reach[Len(ns)]
  BY DEF ReachableFrom
<1>4. PICK r : r = reach
  OBVIOUS
<1> HIDE DEF reach
<1>5. r = [k \in Nat |-> IF k = 0 THEN S ELSE r[k - 1] \cup Successors(ns, r[k - 1])]
  BY <1>2, <1>4
<1>6. \A k \in Nat : r[k] = IF k = 0 THEN S ELSE r[k - 1] \cup Successors(ns, r[k - 1])
  BY <1>5
<1>7. ASSUME NEW k \in Nat PROVE r[k + 1] = More(ns, r[k])
  <2>1. k + 1 \in Nat /\ k + 1 # 0 /\ (k + 1) - 1 = k
    OBVIOUS
  <2>2. r[k + 1] = r[(k + 1) - 1] \cup Successors(ns, r[(k + 1) - 1])
    BY <1>6, <2>1
  <2> QED
    BY <2>1, <2>2 DEF More
<1>8. r[0] = S
  BY <1>6
<1>9. \A n \in Nat : ReachIs(ns, S, n, r)
  BY <1>7, <1>8 DEF ReachIs
<1> QED
  BY <1>3, <1>4, <1>9

(* The nodes reached in as many steps as there are nodes are all there are.  *)
LEMMA ReachesAll ==
  ASSUME NEW ns, NEW start, Whole(ns, start)
  PROVE  ReachableFrom(ns, {start}) = DOMAIN ns
<1>1. PICK N \in Nat : N = Len(ns)
  BY GraphDomain DEF Whole
<1>2. PICK f : /\ ReachableFrom(ns, {start}) = f[Len(ns)]
               /\ \A n \in Nat : ReachIs(ns, {start}, n, f)
  BY <1>1, ReachableAt
<1>3. DOMAIN ns = 1 .. N /\ start \in 1 .. N /\ GraphOK(ns)
  BY <1>1, GraphDomain DEF Whole
<1>4. f[0] = {start} /\ \A k \in Nat : f[k + 1] = More(ns, f[k])
  <2>1. ASSUME NEW k \in Nat PROVE f[k + 1] = More(ns, f[k])
    <3>1. k + 1 \in Nat /\ k < k + 1
      OBVIOUS
    <3> QED
      BY <1>2, <3>1 DEF ReachIs
  <2> QED
    BY <1>2, <2>1 DEF ReachIs
<1>5. ASSUME NEW S, S \subseteq 1 .. N PROVE More(ns, S) \subseteq 1 .. N
  <2>1. ASSUME NEW i \in S PROVE ({ns[i].next, ns[i].alt} \cup Range(ns[i].branches)) \ {0} \subseteq 1 .. N
    <3>1. NodeWithin(ns[i], N)
      BY <1>1, <1>3, <1>5 DEF GraphOK
    <3>2. ns[i].next \in 0 .. N /\ ns[i].alt \in 0 .. N /\ ns[i].branches \in Seq(1 .. N)
      BY <3>1 DEF NodeWithin
    <3>3. Range(ns[i].branches) \subseteq 1 .. N
      BY <3>2 DEF Range
    <3> QED
      BY <3>2, <3>3
  <2>2. ASSUME NEW v \in Successors(ns, S) PROVE v \in 1 .. N
    <3>1. PICK i \in S : v \in {ns[i].next, ns[i].alt} \cup Range(ns[i].branches)
      BY DEF Successors
    <3>2. v # 0
      BY DEF Successors
    <3> QED
      BY <2>1, <3>1, <3>2
  <2> QED
    BY <1>5, <2>2 DEF More
<1>6. ASSUME NEW S, S \subseteq 1 .. N, start \in S, More(ns, S) = S PROVE S = 1 .. N
  <2>1. ASSUME NEW i \in DOMAIN ns, i \in S
        PROVE  /\ ns[i].next # 0 => ns[i].next \in S
               /\ ns[i].alt # 0 => ns[i].alt \in S
               /\ \A j \in DOMAIN ns[i].branches : ns[i].branches[j] \in S
    <3>0. ASSUME NEW v \in {ns[i].next, ns[i].alt} \cup Range(ns[i].branches), v # 0
          PROVE  v \in Successors(ns, S)
      BY <2>1, <3>0 DEF Successors
    <3>1. ({ns[i].next, ns[i].alt} \cup Range(ns[i].branches)) \ {0} \subseteq S
      BY <1>6, <3>0 DEF More
    <3>2. ns[i].branches \in Seq(1 .. N)
      BY <1>1, <1>3, <2>1 DEF GraphOK, NodeWithin
    <3>3. \A j \in DOMAIN ns[i].branches : ns[i].branches[j] # 0
      BY <3>2
    <3> QED
      BY <3>1, <3>3 DEF Range
  <2>2. EdgeClosed(ns, S)
    BY <2>1 DEF EdgeClosed
  <2> QED
    BY <1>3, <1>6, <2>2 DEF Whole
<1> DEFINE Fine(k) == /\ f[k] \subseteq 1 .. N /\ start \in f[k]
                      /\ f[k] = 1 .. N \/ Cardinality(f[k]) >= k + 1
<1>7. IsFiniteSet(1 .. N) /\ Cardinality(1 .. N) = N
  <2>1. 1 \in Int /\ N \in Int
    OBVIOUS
  <2> QED
    BY <1>3, <2>1, FS_Interval
<1>8. Fine(0)
  <2>1. Cardinality({start}) = 1
    BY FS_Singleton
  <2> QED
    BY <1>3, <1>4, <2>1
<1>9. ASSUME NEW k \in Nat, Fine(k) PROVE Fine(k + 1)
  <2>1. f[k + 1] = More(ns, f[k])
    BY <1>4
  <2>2. f[k + 1] \subseteq 1 .. N /\ start \in f[k + 1] /\ f[k] \subseteq f[k + 1]
    BY <1>5, <1>9, <2>1 DEF More
  <2>3. IsFiniteSet(f[k + 1]) /\ IsFiniteSet(f[k])
    BY <1>7, <1>9, <2>2, FS_Subset
  <2>4. CASE f[k + 1] = f[k]
    BY <1>6, <1>9, <2>1, <2>2, <2>4
  <2>5. CASE f[k + 1] # f[k]
    <3>1. /\ Cardinality(f[k]) <= Cardinality(f[k + 1])
          /\ Cardinality(f[k + 1]) # Cardinality(f[k])
      BY <2>2, <2>3, <2>5, FS_Subset
    <3>2. Cardinality(f[k]) \in Nat /\ Cardinality(f[k + 1]) \in Nat
      BY <2>3, FS_CardinalityType
    <3>3. CASE f[k] = 1 .. N
      BY <2>2, <3>3
    <3>4. CASE Cardinality(f[k]) >= k + 1
      BY <2>2, <3>1, <3>2, <3>4
    <3> QED
      BY <1>9, <3>3, <3>4
  <2> QED
    BY <2>4, <2>5
<1>10. \A k \in Nat : Fine(k)
  <2> SUFFICES ASSUME NEW b \in Nat, ~Fine(b) PROVE FALSE
    OBVIOUS
  <2> DEFINE T == {k \in Nat : ~Fine(k)}
  <2>1. T \subseteq Nat /\ T # {}
    OBVIOUS
  <2>2. PICK k \in T : \A y \in T : k <= y
    BY <2>1, LeastOf
  <2> HIDE DEF Fine
  <2>3. k # 0
    BY <1>8, <2>2
  <2>4. PICK j \in Nat : k = j + 1
    <3>1. k - 1 \in Nat /\ k = (k - 1) + 1
      BY <2>2, <2>3
    <3> QED
      BY <3>1
  <2>5. Fine(j)
    BY <2>2, <2>4
  <2> QED
    BY <1>9, <2>2, <2>4, <2>5
<1>11. f[N] = 1 .. N
  <2>1. Fine(N)
    BY <1>10
  <2>2. CASE Cardinality(f[N]) >= N + 1
    <3>1. Cardinality(f[N]) <= N /\ Cardinality(f[N]) \in Nat
      BY <1>7, <2>1, FS_Subset, FS_CardinalityType
    <3> QED
      BY <2>2, <3>1
  <2> QED
    BY <2>1, <2>2
<1> QED
  BY <1>1, <1>2, <1>3, <1>11

----------------------------------------------------------------------------
(* The theorem. *)

(* While the compiler builds, the graph and the builders are in order; what  *)
(* it ends with is whole.                                                    *)
CompileInv(Steps) ==
  /\ input.of = "flow" /\ input.steps \in Seq(Steps)
  /\ output = Nothing => Good(Steps, nodes, builders) /\ Begins(builders)
  /\ NoLooseEnds

(* A graph the compiler ends with has no loose ends.                         *)
LEMMA EndsWithoutLooseEnds ==
  ASSUME NEW Steps, Good(Steps, nodes, builders), Begins(builders), CompileEnds
  PROVE  NoLooseEnds'
<1>1. PICK ms : ms = Append(Wire(nodes, Top.open, Id), Node("END", NoName))
  OBVIOUS
<1>2. PICK start : start = Top.start
  OBVIOUS
<1>3. Whole(ms, start)
  BY <1>1, <1>2, EndsWhole DEF CompileEnds
<1>4. output' = [of |-> "flow", graph |-> [ok |-> TRUE, start |-> start, nodes |-> ms]]
  BY <1>1, <1>2 DEF CompileEnds, Gives
<1>5. output'.graph.start = start /\ output'.graph.nodes = ms
  BY <1>4
<1>6. ReachableFrom(ms, {start}) = DOMAIN ms
  BY <1>3, ReachesAll
<1>7. \A i \in DOMAIN ms : Wired(ms[i])
  BY <1>3 DEF Whole
<1> QED
  BY <1>5, <1>6, <1>7 DEF NoLooseEnds, Nodes

(* A builder that appends is one of a compiler at work.                      *)
LEMMA Appending ==
  ASSUME AppendNode
  PROVE  output = Nothing /\ UNCHANGED <<input, output>>
BY DEF AppendNode, AppendTask, AppendGate, AppendSleep, AppendSubFlow, AppendSignal,
       AppendFork, AppendForEach, AppendChoose, AppendLoop, EscalationBuilt, ArmBuilt,
       BodyBuilt, CaseBuilt, LoopBuilt, Comes, BackAt, Compiling

(* The compiler begins in order.                                             *)
LEMMA StartsInOrder ==
  ASSUME NEW Steps, input.of = "flow", input.steps \in Seq(Steps), output = Nothing, CompileInit
  PROVE  CompileInv(Steps)
<1>1. NoLooseEnds
  BY DEF NoLooseEnds, Compiled, Nothing
<1> QED
  BY <1>1, GoodAtFirst DEF CompileInv

(* A step of the compiler keeps it in order.                                 *)
LEMMA StaysInOrder ==
  ASSUME NEW Steps, Closed(Steps), CompileInv(Steps), [CompileNext]_compileVars
  PROVE  CompileInv(Steps)'
<1>1. CASE AppendNode
  <2>1. output = Nothing /\ UNCHANGED <<input, output>>
    BY <1>1, Appending
  <2>2. Good(Steps, nodes, builders) /\ Begins(builders)
    BY <2>1 DEF CompileInv
  <2>3. Good(Steps, nodes', builders')
    BY <1>1, <2>2, AppendKeeps
  <2>4. Begins(builders')
    BY <1>1, <2>2, BeginsFirst
  <2>5. Good(Steps, nodes, builders)' /\ Begins(builders)'
    <3>1. Good(Steps, nodes, builders)'
      BY <2>3 DEF Good, GraphOK, Levels, Apart, Owed, Reached
    <3>2. Begins(builders)'
      BY <2>1, <2>4 DEF Begins
    <3> QED
      BY <3>1, <3>2
  <2>6. NoLooseEnds'
    BY <2>1 DEF NoLooseEnds, Compiled, Nothing
  <2> QED
    BY <2>1, <2>5, <2>6 DEF CompileInv
<1>2. CASE CompileEnds
  <2>1. output = Nothing /\ input' = input /\ output'.of = "flow"
    BY <1>2 DEF CompileEnds, Compiling, Gives
  <2>2. NoLooseEnds'
    BY <1>2, <2>1, EndsWithoutLooseEnds DEF CompileInv
  <2> QED
    BY <2>1, <2>2 DEF CompileInv, Nothing
<1>3. CASE CompileFails
  <2>1. input' = input /\ output' = [of |-> "flow", graph |-> Refusal]
    BY <1>3 DEF CompileFails, Gives
  <2>2. NoLooseEnds'
    BY <2>1 DEF NoLooseEnds, Compiled, Refusal
  <2> QED
    BY <2>1, <2>2 DEF CompileInv, Nothing
<1>4. CASE UNCHANGED compileVars
  BY <1>4 DEF CompileInv, compileVars, graphVars, NoLooseEnds, Compiled, Nodes, Begins
<1> QED
  BY <1>1, <1>2, <1>3, <1>4 DEF CompileNext

(* Whatever the flow is made of, every node of the graph it is compiled to   *)
(* is reached from its start, and every edge the server may follow leads     *)
(* somewhere (attach, wireOpenTo, chain, appendNode).                        *)
THEOREM GraphsHaveNoLooseEnds ==
  ASSUME NEW Steps, Closed(Steps)
  PROVE  CompileSpec(Steps) => []NoLooseEnds
<1>1. input.of = "flow" /\ input.steps \in Seq(Steps) /\ output = Nothing /\ CompileInit
        => CompileInv(Steps)
  BY StartsInOrder
<1>2. CompileInv(Steps) /\ [CompileNext]_compileVars => CompileInv(Steps)'
  BY StaysInOrder
<1>3. CompileInv(Steps) => NoLooseEnds
  BY DEF CompileInv
<1> QED
  BY <1>1, <1>2, <1>3, PTL DEF CompileSpec

----------------------------------------------------------------------------
(* The names of the steps. *)

(* The names of a graph's steps are taken, and each is the name of one step.  *)
Distinct(ns, taken) ==
  \A i \in DOMAIN ns :
    ns[i].kind \in Addressed =>
      /\ ns[i].name \in taken /\ ns[i].name # NoName
      /\ \A j \in DOMAIN ns : ns[j].kind \in Addressed /\ ns[j].name = ns[i].name => j = i

(* The nodes ps are those of ns but for their edges. *)
SameNames(ns, N, ps) ==
  Size(ps, N) /\ \A i \in 1 .. N : ps[i].kind = ns[i].kind /\ ps[i].name = ns[i].name

(* The steps among L new nodes have names from t, each another one. *)
Brings(new, L, t) ==
  /\ Size(new, L)
  /\ \A j \in 1 .. L : new[j].kind \in Addressed => new[j].name \in Range(t)
  /\ \A j, k \in 1 .. L :
       new[j].kind \in Addressed /\ new[k].kind \in Addressed /\ new[j].name = new[k].name => j = k

Called(n, kind, name) == n.kind = kind /\ n.name = name

(* A new node has the kind and the name it is made with, whatever is set. *)
LEMMA NodeCalled ==
  ASSUME NEW kind, NEW name, NEW v
  PROVE  /\ Called(Node(kind, name), kind, name)
         /\ Called([Node(kind, name) EXCEPT !.next = v], kind, name)
         /\ Called([Node(kind, name) EXCEPT !.alt = v], kind, name)
         /\ Called([Node(kind, name) EXCEPT !.expected = v], kind, name)
         /\ Called([Node(kind, name) EXCEPT !.arms = v], kind, name)
         /\ Called([Node(kind, name) EXCEPT !.collect = v], kind, name)
         /\ Called([Node(kind, name) EXCEPT !.timeout = v], kind, name)
  BY DEF Node, Called

(* Wiring changes no name. *)
LEMMA WireKeepsNames ==
  ASSUME NEW N \in Nat, NEW ns, Size(ns, N), \A i \in 1 .. N : IsNode(ns[i]),
         NEW ends, NEW target, NEW ms, ms = Wire(ns, ends, target)
  PROVE  SameNames(ns, N, ms) /\ \A i \in 1 .. N : IsNode(ms[i])
<1>1. DOMAIN ns = 1 .. N
  BY SeqSize DEF Size
<1>2. Size(ms, N)
  <2>1. ms = [i \in 1 .. N |-> ms[i]]
    BY <1>1, Zenon DEF Wire
  <2>2. Len(ms) = N
    BY <2>1
  <2> QED
    BY <2>1, <2>2, AnySeq DEF Size
<1>3. ASSUME NEW i \in 1 .. N
      PROVE  ms[i].kind = ns[i].kind /\ ms[i].name = ns[i].name /\ IsNode(ms[i])
  <2>1. PICK x, y : ms[i] = [ns[i] EXCEPT !.next = x, !.alt = y]
    BY <1>1, Zenon DEF Wire
  <2>2. PICK n : n = ns[i]
    OBVIOUS
  <2>3. PICK z : z = [n EXCEPT !.next = x]
    OBVIOUS
  <2>4. IsNode(n)
    BY <2>2
  <2>5. z.kind = n.kind /\ z.name = n.name /\ IsNode(z)
    BY <2>3, <2>4, SetNext
  <2>6. PICK m : m = [z EXCEPT !.alt = y]
    OBVIOUS
  <2>7. m.kind = z.kind /\ m.name = z.name /\ IsNode(m)
    BY <2>5, <2>6, SetAlt
  <2>8. ms[i] = m
    BY <2>1, <2>2, <2>3, <2>6
  <2> QED
    BY <2>2, <2>5, <2>7, <2>8
<1> QED
  BY <1>2, <1>3 DEF SameNames

(* New steps with free names keep the names distinct (reserve). *)
LEMMA NamesStayDistinct ==
  ASSUME NEW N \in Nat, NEW ns, Size(ns, N), NEW taken, Distinct(ns, taken),
         NEW ps, SameNames(ns, N, ps),
         NEW L \in Nat, NEW new, NEW t, Brings(new, L, t),
         \A i \in DOMAIN t : t[i] # NoName /\ t[i] \notin taken,
         NEW ms, Joins(ps, N, new, L, ms)
  PROVE  Distinct(ms, taken \cup Range(t))
<1>1. DOMAIN ns = 1 .. N /\ DOMAIN ms = 1 .. N + L
  BY SeqSize DEF Size, Joins
<1>2. \A i \in 1 .. N : Called(ms[i], ns[i].kind, ns[i].name)
  BY DEF SameNames, Joins, Called
<1>3. \A i \in 1 .. N + L : i \in 1 .. N \/ (i - N \in 1 .. L /\ ms[i] = new[i - N])
  BY DEF Joins
<1>4. \A x \in Range(t) : x # NoName /\ x \notin taken
  BY DEF Range
<1>5. ASSUME NEW i \in 1 .. N, ms[i].kind \in Addressed
      PROVE  ms[i].name \in taken /\ ms[i].name # NoName
  BY <1>1, <1>2, <1>5 DEF Distinct, Called
<1>6. ASSUME NEW i \in 1 .. N + L, i \notin 1 .. N, ms[i].kind \in Addressed
      PROVE  ms[i].name \in Range(t)
  BY <1>3, <1>6 DEF Brings
<1>7. ASSUME NEW i \in 1 .. N + L, NEW j \in 1 .. N + L,
             ms[i].kind \in Addressed, ms[j].kind \in Addressed, ms[i].name = ms[j].name
      PROVE  j = i
  <2>1. i \in 1 .. N <=> j \in 1 .. N
    BY <1>4, <1>5, <1>6, <1>7
  <2>2. CASE i \in 1 .. N
    BY <1>1, <1>2, <1>7, <2>1, <2>2 DEF Distinct, Called
  <2>3. CASE i \notin 1 .. N
    <3>1. i - N \in 1 .. L /\ j - N \in 1 .. L /\ ms[i] = new[i - N] /\ ms[j] = new[j - N]
      BY <1>3, <2>1, <2>3
    <3>2. i - N = j - N
      BY <1>7, <3>1 DEF Brings
    <3> QED
      BY <3>2
  <2> QED
    BY <2>2, <2>3
<1> QED
  BY <1>1, <1>4, <1>5, <1>6, <1>7 DEF Distinct

(* The nodes of the graph under construction. *)
LEMMA NodesAreNodes ==
  ASSUME NEW Steps, Good(Steps, nodes, builders)
  PROVE  \A i \in 1 .. Len(nodes) : IsNode(nodes[i])
  BY AtTop DEF Good, GraphOK, NodeWithin

(* The nodes of a step the builder comes to bring the names that were free. *)
LEMMA AddsNames ==
  ASSUME NEW Steps, Good(Steps, nodes, builders), Distinct(nodes, names),
         NEW kind, Comes(kind), NEW L \in Nat, NEW new, Adds(new),
         Brings(new, L, NamesFirst(Step))
  PROVE  Distinct(nodes', names')
<1>1. PICK t : t = NamesFirst(Step)
  OBVIOUS
<1>2. /\ \A i \in DOMAIN t : t[i] # NoName /\ t[i] \notin names
      /\ names' = names \cup Range(t)
  BY <1>1 DEF Comes, Free
<1>3. PICK N \in Nat : N = Len(nodes) /\ Size(nodes, N)
  BY AtTop
<1>4. PICK ps : ps = Wire(nodes, Top.open, Id)
  OBVIOUS
<1>5. \A i \in 1 .. N : IsNode(nodes[i])
  BY <1>3, NodesAreNodes
<1>6. SameNames(nodes, N, ps)
  BY <1>3, <1>4, <1>5, WireKeepsNames
<1>7. PICK ms : ms = ps \o new
  OBVIOUS
<1>8. Size(ps, N) /\ Size(new, L)
  BY <1>6 DEF SameNames, Brings
<1>9. Joins(ps, N, new, L, ms)
  BY <1>7, <1>8, Extended
<1>10. Distinct(ms, names \cup Range(t))
  <2>1. Brings(new, L, t)
    BY <1>1
  <2> QED
    BY <1>2, <1>3, <1>6, <1>9, <2>1, NamesStayDistinct
<1> QED
  BY <1>2, <1>4, <1>7, <1>10 DEF Adds

(* So does the one node a step gets once its chains are built. *)
LEMMA EndsWithName ==
  ASSUME NEW Steps, Good(Steps, nodes, builders), Distinct(nodes, names),
         NEW ps, SameNames(nodes, Len(nodes), ps), NEW x, NEW ms, ms = Append(ps, x),
         NEW t, x.kind \in Addressed => Range(t) = {x.name},
         \A i \in DOMAIN t : t[i] # NoName /\ t[i] \notin names
  PROVE  Distinct(ms, names \cup Range(t))
<1>1. PICK N \in Nat : N = Len(nodes) /\ Size(nodes, N)
  BY AtTop
<1>2. SameNames(nodes, N, ps)
  BY <1>1
<1>3. Size(ps, N)
  BY <1>2 DEF SameNames
<1>4. Tops(ps, N, x, ms)
  BY <1>3, Appended
<1>5. PICK new : new = <<x>>
  OBVIOUS
<1>6. Size(new, 1) /\ new[1] = x
  BY <1>5, Tuples
<1>7. \A j \in 1 .. 1 : j = 1
  OBVIOUS
<1>8. Joins(ps, N, new, 1, ms)
  BY <1>4, <1>6, <1>7 DEF Tops, Joins
<1>9. Brings(new, 1, t)
  BY <1>6, <1>7 DEF Brings
<1> QED
  BY <1>1, <1>2, <1>8, <1>9, NamesStayDistinct

(* One new step, and nodes after it that are none, bring its name. *)
LEMMA BringsOne ==
  ASSUME NEW L \in Nat \ {0}, NEW new, Size(new, L), NEW t,
         new[1].kind \in Addressed => Range(t) = {new[1].name},
         \A j \in 2 .. L : new[j].kind \notin Addressed
  PROVE  Brings(new, L, t)
<1>1. \A j \in 1 .. L : new[j].kind \in Addressed => j = 1
  OBVIOUS
<1> QED
  BY <1>1 DEF Brings

(* The name of a step that takes its own name only. *)
LEMMA OneName ==
  ASSUME NEW v
  PROVE  Range(<<v>>) = {v}
  BY DEF Range

(* A task, with the combine of its branches if it creates any, brings the    *)
(* names of both (appendTask).                                               *)
LEMMA TaskNames ==
  ASSUME NEW Steps, Good(Steps, nodes, builders), Distinct(nodes, names), AppendTask
  PROVE  Distinct(nodes', names')
<1>1. Comes("task") /\ Step.kind = "task"
  BY DEF AppendTask, Comes
<1>2. CASE Step.combine = NoName
  <2>1. PICK new : new = <<Node("TASK", Step.name)>>
    OBVIOUS
  <2>2. Size(new, 1) /\ Called(new[1], "TASK", Step.name)
    BY <2>1, Tuples, NodeCalled
  <2>3. NamesFirst(Step) = <<Step.name>>
    BY <1>1, <1>2 DEF NamesFirst
  <2>4. Brings(new, 1, NamesFirst(Step))
    BY <2>2, <2>3, OneName, BringsOne DEF Called
  <2>5. Adds(new)
    BY <1>2, <2>1, Zenon DEF AppendTask
  <2> QED
    BY <1>1, <2>4, <2>5, AddsNames
<1>3. CASE Step.combine # NoName
  <2>1. PICK new : new = <<[Node("TASK", Step.name) EXCEPT !.next = Id + 1],
                    [Node("JOIN", NoName) EXCEPT !.next = Id + 2],
                    [Node("TASK", Step.combine) EXCEPT !.collect = <<"spawn", Step.name>>]>>
    OBVIOUS
  <2>2. PICK x, y, z : /\ x = [Node("TASK", Step.name) EXCEPT !.next = Id + 1]
                       /\ y = [Node("JOIN", NoName) EXCEPT !.next = Id + 2]
                       /\ z = [Node("TASK", Step.combine) EXCEPT !.collect = <<"spawn", Step.name>>]
    OBVIOUS
  <2>3. Called(x, "TASK", Step.name) /\ Called(y, "JOIN", NoName) /\ Called(z, "TASK", Step.combine)
    BY <2>2, NodeCalled
  <2>4. new = <<x, y, z>>
    BY <2>1, <2>2, Zenon
  <2>5. Size(new, 3) /\ new[1] = x /\ new[2] = y /\ new[3] = z
    BY <2>4, Tuples
  <2>6. PICK t : t = NamesFirst(Step)
    OBVIOUS
  <2>7. t = <<Step.name, Step.combine>>
    BY <1>1, <1>3, <2>6 DEF NamesFirst
  <2>8. Range(t) = {Step.name, Step.combine} /\ DOMAIN t = {1, 2}
    BY <2>7 DEF Range
  <2>9. Step.name # Step.combine
    <3>1. \A i, j \in DOMAIN t : i # j => t[i] # t[j]
      BY <1>1, <2>6 DEF Comes, Free
    <3> QED
      BY <2>7, <2>8, <3>1
  <2>10. \A j \in 1 .. 3 : j = 1 \/ j = 2 \/ j = 3
    OBVIOUS
  <2>11. Brings(new, 3, t)
    BY <2>3, <2>5, <2>8, <2>9, <2>10 DEF Brings, Called, Addressed
  <2>12. Adds(new)
    BY <1>3, <2>1, Zenon DEF AppendTask
  <2> QED
    BY <1>1, <2>6, <2>11, <2>12, AddsNames
<1> QED
  BY <1>2, <1>3

(* A gate brings its name, which the end it may have does not count for. *)
LEMMA GateNames ==
  ASSUME NEW Steps, Good(Steps, nodes, builders), Distinct(nodes, names), AppendGate
  PROVE  Distinct(nodes', names')
<1>1. Comes("gate") /\ Step.kind = "gate"
  BY DEF AppendGate, Comes
<1>2. NamesFirst(Step) = <<Step.name>>
  BY <1>1 DEF NamesFirst
<1>3. PICK x, y, z : /\ x = [Node("PREDICATE", Step.name) EXCEPT !.alt = Id + 1]
                     /\ y = Node("END", Step.name)
                     /\ z = [Node("PREDICATE", Step.name) EXCEPT !.alt = Top.join]
  OBVIOUS
<1>4. Called(x, "PREDICATE", Step.name) /\ Called(y, "END", Step.name) /\ Called(z, "PREDICATE", Step.name)
  BY <1>3, NodeCalled
<1>5. Adds(<<x, y>>) \/ Adds(<<z>>)
  BY <1>3, Zenon DEF AppendGate
<1>6. Brings(<<z>>, 1, NamesFirst(Step))
  <2>1. Size(<<z>>, 1) /\ <<z>>[1] = z
    BY Tuples
  <2> QED
    BY <1>2, <1>4, <2>1, OneName, BringsOne DEF Called
<1>7. Brings(<<x, y>>, 2, NamesFirst(Step))
  <2>1. Size(<<x, y>>, 2) /\ <<x, y>>[1] = x /\ <<x, y>>[2] = y
    BY Tuples
  <2>2. \A j \in 2 .. 2 : j = 2
    OBVIOUS
  <2>3. y.kind \notin Addressed
    BY <1>4 DEF Called, Addressed
  <2> QED
    BY <1>2, <1>4, <2>1, <2>2, <2>3, OneName, BringsOne DEF Called
<1> QED
  BY <1>1, <1>5, <1>6, <1>7, AddsNames

(* A sleep brings no name, a sub workflow, a signal and a forEach their own, *)
(* a fork none yet.                                                          *)
LEMMA LeafNames ==
  ASSUME NEW Steps, Good(Steps, nodes, builders), Distinct(nodes, names),
         AppendSleep \/ AppendSubFlow \/ AppendSignal \/ AppendFork \/ AppendForEach
  PROVE  Distinct(nodes', names')
<1>1. ASSUME NEW kind, Comes(kind), NEW x, NEW name, Called(x, x.kind, name),
             x.kind \in Addressed => NamesFirst(Step) = <<name>>, Adds(<<x>>)
      PROVE  Distinct(nodes', names')
  <2>1. Size(<<x>>, 1) /\ <<x>>[1] = x
    BY Tuples
  <2>2. Brings(<<x>>, 1, NamesFirst(Step))
    BY <1>1, <2>1, OneName, BringsOne DEF Called
  <2> QED
    BY <1>1, <2>2, AddsNames
<1>2. ASSUME NEW kind, Comes(kind), NEW x, NEW name, Called(x, x.kind, name),
             x.kind \in Addressed => NamesFirst(Step) = <<name>>,
             NEW y, Called(y, "JOIN", NoName), Adds(<<x, y>>)
      PROVE  Distinct(nodes', names')
  <2>1. Size(<<x, y>>, 2) /\ <<x, y>>[1] = x /\ <<x, y>>[2] = y
    BY Tuples
  <2>2. \A j \in 2 .. 2 : j = 2
    OBVIOUS
  <2>3. y.kind \notin Addressed
    BY <1>2 DEF Called, Addressed
  <2>4. Brings(<<x, y>>, 2, NamesFirst(Step))
    BY <1>2, <2>1, <2>2, <2>3, OneName, BringsOne DEF Called
  <2> QED
    BY <1>2, <2>4, AddsNames
<1>3. CASE AppendSleep
  <2>1. PICK x : x = Node("SLEEP", NoName)
    OBVIOUS
  <2>2. Called(x, "SLEEP", NoName) /\ Comes("sleep") /\ Adds(<<x>>)
    BY <1>3, <2>1, NodeCalled DEF AppendSleep
  <2>3. Called(x, x.kind, NoName) /\ x.kind \notin Addressed
    BY <2>2 DEF Called, Addressed
  <2> QED
    BY <1>1, <2>2, <2>3
<1>4. CASE AppendSubFlow
  <2>1. PICK x : x = Node("SUB_WORKFLOW", Step.name)
    OBVIOUS
  <2>2. Called(x, "SUB_WORKFLOW", Step.name) /\ Comes("sub") /\ Adds(<<x>>)
    BY <1>4, <2>1, NodeCalled DEF AppendSubFlow
  <2>3. Called(x, x.kind, Step.name)
    BY <2>2 DEF Called
  <2>4. NamesFirst(Step) = <<Step.name>>
    BY <2>2 DEF Comes, NamesFirst
  <2> QED
    BY <1>1, <2>2, <2>3, <2>4
<1>5. CASE AppendSignal
  <2>1. PICK x : x = [Node("SIGNAL", Step.name) EXCEPT !.timeout = Milliseconds(Step.timeout)]
    OBVIOUS
  <2>2. Called(x, "SIGNAL", Step.name) /\ Comes("signal") /\ Adds(<<x>>)
    BY <1>5, <2>1, NodeCalled DEF AppendSignal
  <2>3. Called(x, x.kind, Step.name)
    BY <2>2 DEF Called
  <2>4. NamesFirst(Step) = <<Step.name>>
    BY <2>2 DEF Comes, NamesFirst
  <2> QED
    BY <1>1, <2>2, <2>3, <2>4
<1>6. CASE AppendFork
  <2>1. PICK x, y : x = Node("FORK", NoName) /\ y = [Node("JOIN", NoName) EXCEPT !.expected = Len(Step.arms)]
    OBVIOUS
  <2>2. Called(x, "FORK", NoName) /\ Called(y, "JOIN", NoName)
    BY <2>1, NodeCalled
  <2>3. Comes("fork") /\ Adds(<<x, y>>)
    BY <1>6, <2>1, Zenon DEF AppendFork
  <2>4. Called(x, x.kind, NoName) /\ x.kind \notin Addressed
    BY <2>2 DEF Called, Addressed
  <2> QED
    BY <1>2, <2>2, <2>3, <2>4
<1>7. CASE AppendForEach
  <2>1. PICK x, y : x = Node("DYN_FORK", Step.name) /\ y = Node("JOIN", NoName)
    OBVIOUS
  <2>2. Called(x, "DYN_FORK", Step.name) /\ Called(y, "JOIN", NoName)
    BY <2>1, NodeCalled
  <2>3. Comes("each") /\ Adds(<<x, y>>)
    BY <1>7, <2>1, Zenon DEF AppendForEach
  <2>4. Called(x, x.kind, Step.name)
    BY <2>2 DEF Called
  <2>5. NamesFirst(Step) = <<Step.name>>
    BY <2>3 DEF Comes, NamesFirst
  <2> QED
    BY <1>2, <2>2, <2>3, <2>4, <2>5
<1> QED
  BY <1>3, <1>4, <1>5, <1>6, <1>7

(* The guards of a choice bring the names of its cases (appendChoose). *)
LEMMA ChooseNames ==
  ASSUME NEW Steps, Closed(Steps), Good(Steps, nodes, builders), Distinct(nodes, names), AppendChoose
  PROVE  Distinct(nodes', names')
<1>1. Comes("choose") /\ Step.kind = "choose" /\ Top.todo # <<>> /\ ~Malformed(Step)
  BY DEF AppendChoose, Comes
<1>2. Step \in Steps
  BY <1>1, AtTop DEF Step
<1>3. PICK L : L = Guards(Step)
  OBVIOUS
<1>4. L # 0
  BY <1>1, <1>3 DEF Malformed
<1>5. L \in Nat
  BY <1>1, <1>2, <1>3, <1>4, GuardsOfCases
<1>6. PICK new : new = [i \in 1 .. Guards(Step) |->
             [Node("PREDICATE", Step.cases[i].when) EXCEPT
                !.alt = IF i < Guards(Step) THEN Id + i ELSE 0]]
  OBVIOUS
<1>7. Adds(new)
  BY <1>6, Zenon DEF AppendChoose
<1>8. PICK t : t = NamesFirst(Step)
  OBVIOUS
<1>9. t = [i \in 1 .. L |-> Step.cases[i].when]
  BY <1>1, <1>3, <1>8 DEF NamesFirst
<1>10. \A i \in 1 .. L : Called(new[i], "PREDICATE", t[i])
  <2> SUFFICES ASSUME NEW i \in 1 .. L PROVE Called(new[i], "PREDICATE", t[i])
    OBVIOUS
  <2>1. PICK v : new[i] = [Node("PREDICATE", Step.cases[i].when) EXCEPT !.alt = v]
    BY <1>3, <1>6, Zenon
  <2>2. PICK w : w = Step.cases[i].when
    OBVIOUS
  <2>3. PICK x : x = [Node("PREDICATE", w) EXCEPT !.alt = v]
    OBVIOUS
  <2>4. Called(x, "PREDICATE", w)
    BY <2>3, NodeCalled
  <2>5. new[i] = x /\ t[i] = w
    BY <1>9, <2>1, <2>2, <2>3
  <2> QED
    BY <2>4, <2>5
<1>11. \A i, j \in 1 .. L : i # j => t[i] # t[j]
  BY <1>1, <1>8, <1>9 DEF Comes, Free
<1>12. \A i \in 1 .. L : t[i] \in Range(t)
  BY <1>9 DEF Range
<1>13. Size(new, L)
  <2>1. new = [i \in 1 .. L |-> new[i]]
    BY <1>3, <1>6, Zenon
  <2>2. Len(new) = L
    BY <1>5, <2>1
  <2> QED
    BY <1>5, <2>1, <2>2, AnySeq DEF Size
<1>14. Brings(new, L, t)
  BY <1>10, <1>11, <1>12, <1>13 DEF Brings, Called
<1> QED
  BY <1>1, <1>5, <1>7, <1>8, <1>14, AddsNames

(* A chain that is built, up to the last one of its step, brings no name. *)
LEMMA ChainNames ==
  ASSUME NEW Steps, Good(Steps, nodes, builders), Distinct(nodes, names),
         NEW ends, NEW target, nodes' = Wire(nodes, ends, target), names' = names
  PROVE  Distinct(nodes', names')
<1>1. PICK N \in Nat : N = Len(nodes) /\ Size(nodes, N) /\ DOMAIN nodes = 1 .. N
  BY AtTop
<1>2. \A i \in 1 .. N : IsNode(nodes[i])
  BY <1>1, NodesAreNodes
<1>3. PICK ms : ms = nodes'
  OBVIOUS
<1>4. SameNames(nodes, N, ms)
  BY <1>1, <1>2, <1>3, WireKeepsNames
<1>5. DOMAIN ms = 1 .. N
  BY <1>1, <1>4, SeqSize DEF SameNames, Size
<1>6. Distinct(ms, names)
  BY <1>1, <1>4, <1>5 DEF SameNames, Distinct
<1> QED
  BY <1>3, <1>6

(* The last chain of a parallel step brings the name of its combine.         *)
LEMMA CombineNames ==
  ASSUME NEW Steps, Good(Steps, nodes, builders), Distinct(nodes, names),
         Height > 1, Top.start # 0, Asking.kind \in {"fork", "each"}, Reserves,
         NEW v, NEW ps,
         \/ ps = [Joined EXCEPT ![Caller.id].branches = v, ![Top.join].next = Id]
         \/ ps = [Joined EXCEPT ![Caller.id].branches = v, ![Caller.id].next = Top.join,
                                ![Top.join].next = Id],
         NEW x, Called(x, "TASK", Asking.combine), nodes' = Append(ps, x)
  PROVE  Distinct(nodes', names')
<1>1. PICK N \in Nat : N = Len(nodes) /\ Size(nodes, N)
  BY AtTop
<1>2. \A i \in 1 .. N : IsNode(nodes[i])
  BY <1>1, NodesAreNodes
<1>3. PICK ks : ks = Joined
  OBVIOUS
<1>4. SameNames(nodes, N, ks) /\ \A i \in 1 .. N : IsNode(ks[i])
  BY <1>1, <1>2, <1>3, WireKeepsNames DEF Joined
<1>5. Size(ks, N)
  BY <1>4 DEF SameNames
<1>6. PICK a \in 1 .. N, j \in 1 .. N : a = Caller.id /\ j = Top.join /\ a # j
  <2>1. Caller.id \in 1 .. N /\ Top.join \in 1 .. N /\ Top.join = Caller.id + 1
    BY <1>1, BranchJoins
  <2> QED
    BY <2>1
<1>7. PICK w : w = Id
  OBVIOUS
<1>8. \/ ps = [ks EXCEPT ![a].branches = v, ![j].next = w]
      \/ AsDynFork(ks, a, j, v, w, ps)
  BY <1>3, <1>6, <1>7, Zenon DEF AsDynFork
<1>9. ForkSet(ks, N, a, j, v, w, ps)
  <2>1. \A i \in 1 .. N : IsNode(ks[i])
    BY <1>4
  <2>2. CASE ps = [ks EXCEPT ![a].branches = v, ![j].next = w]
    BY <1>5, <1>6, <2>1, <2>2, SetsFork
  <2>3. CASE AsDynFork(ks, a, j, v, w, ps)
    BY <1>5, <1>6, <2>1, <2>3, SetsDynFork
  <2> QED
    BY <1>8, <2>2, <2>3
<1>10. SameNames(nodes, N, ps)
  BY <1>4, <1>9 DEF SameNames, ForkSet
<1>11. PICK t : t = NamesLast(Asking)
  OBVIOUS
<1>12. Range(t) = {x.name} /\ names' = names \cup Range(t)
  <2>1. t = <<Asking.combine>>
    BY <1>11 DEF NamesLast
  <2> QED
    BY <1>11, <2>1, OneName DEF Called, Reserves
<1>13. \A i \in DOMAIN t : t[i] # NoName /\ t[i] \notin names
  BY <1>11 DEF Reserves, Free
<1>14. PICK ms : ms = nodes'
  OBVIOUS
<1>15. Distinct(ms, names \cup Range(t))
  BY <1>1, <1>10, <1>12, <1>13, <1>14, EndsWithName
<1> QED
  BY <1>12, <1>14, <1>15

(* The body of a loop brings the name of its condition.                      *)
LEMMA WhileNames ==
  ASSUME NEW Steps, Good(Steps, nodes, builders), Distinct(nodes, names), LoopBuilt
  PROVE  Distinct(nodes', names')
<1>1. PICK N \in Nat : N = Len(nodes) /\ Size(nodes, N)
  BY AtTop
<1>2. \A i \in 1 .. N : IsNode(nodes[i])
  BY <1>1, NodesAreNodes
<1>3. PICK ws : ws = Wire(nodes, Top.open, Id)
  OBVIOUS
<1>4. SameNames(nodes, N, ws) /\ \A i \in 1 .. N : IsNode(ws[i])
  BY <1>1, <1>2, <1>3, WireKeepsNames
<1>5. PICK ps : ps = Wire(ws, Caller.open, Top.start)
  OBVIOUS
<1>6. SameNames(ws, N, ps)
  <2>1. Size(ws, N)
    BY <1>4 DEF SameNames
  <2> QED
    BY <1>4, <1>5, <2>1, WireKeepsNames
<1>7. SameNames(nodes, N, ps)
  BY <1>4, <1>6 DEF SameNames
<1>8. PICK x : x = [Node("PREDICATE", Asking.while) EXCEPT !.next = Top.start]
  OBVIOUS
<1>9. Called(x, "PREDICATE", Asking.while)
  BY <1>8, NodeCalled
<1>10. nodes' = Append(ps, x) /\ Reserves /\ Asking.kind = "loop"
  BY <1>3, <1>5, <1>8, Zenon DEF LoopBuilt, BackAt
<1>11. PICK t : t = NamesLast(Asking)
  OBVIOUS
<1>12. Range(t) = {x.name} /\ names' = names \cup Range(t)
  <2>1. t = <<Asking.while>>
    BY <1>10, <1>11 DEF NamesLast
  <2> QED
    BY <1>9, <1>10, <1>11, <2>1, OneName DEF Called, Reserves
<1>13. \A i \in DOMAIN t : t[i] # NoName /\ t[i] \notin names
  BY <1>10, <1>11 DEF Reserves, Free
<1>14. PICK ms : ms = nodes'
  OBVIOUS
<1>15. Distinct(ms, names \cup Range(t))
  <2>1. ms = Append(ps, x)
    BY <1>10, <1>14
  <2> QED
    BY <1>1, <1>7, <1>12, <1>13, <2>1, EndsWithName
<1> QED
  BY <1>12, <1>14, <1>15

(* Whatever a builder appends, the names of the steps stay distinct.         *)
LEMMA AppendNames ==
  ASSUME NEW Steps, Closed(Steps), Good(Steps, nodes, builders), Distinct(nodes, names), AppendNode
  PROVE  Distinct(nodes', names')
<1>1. CASE AppendTask
  BY <1>1, TaskNames
<1>2. CASE AppendGate
  BY <1>2, GateNames
<1>3. CASE AppendSleep \/ AppendSubFlow \/ AppendSignal \/ AppendFork \/ AppendForEach
  BY <1>3, LeafNames
<1>4. CASE AppendChoose
  BY <1>4, ChooseNames
<1>5. CASE AppendLoop
  <2>1. nodes' = nodes /\ Step.kind = "loop" /\ names' = names \cup Range(NamesFirst(Step))
    BY <1>5 DEF AppendLoop, Comes
  <2>2. NamesFirst(Step) = <<>>
    BY <2>1 DEF NamesFirst
  <2>3. names' = names
    BY <2>1, <2>2 DEF Range
  <2> QED
    BY <2>1, <2>3
<1>6. CASE EscalationBuilt \/ CaseBuilt
  BY <1>6, ChainNames DEF EscalationBuilt, CaseBuilt
<1>7. CASE ArmBuilt
  <2>1. Height > 1 /\ Top.start # 0 /\ Asking.kind = "fork"
    BY <1>7 DEF ArmBuilt, BackAt
  <2>2. CASE Len(Built) < Len(Asking.arms)
    BY <1>7, <2>2, ChainNames DEF ArmBuilt, Joined
  <2>3. CASE ~(Len(Built) < Len(Asking.arms))
    <3>1. PICK ps : ps = [Joined EXCEPT ![Caller.id].branches = Built, ![Top.join].next = Id]
      OBVIOUS
    <3>2. PICK x : x = [Node("TASK", Asking.combine) EXCEPT
                          !.arms = [i \in DOMAIN Asking.arms |-> Last(Asking.arms[i]).name]]
      OBVIOUS
    <3>3. nodes' = Append(ps, x) /\ Reserves
      BY <1>7, <2>3, <3>1, <3>2, Zenon DEF ArmBuilt
    <3>4. Called(x, "TASK", Asking.combine)
      BY <3>2, NodeCalled
    <3> QED
      BY <2>1, <3>1, <3>3, <3>4, CombineNames
  <2> QED
    BY <2>2, <2>3
<1>8. CASE BodyBuilt
  <2>1. Height > 1 /\ Top.start # 0 /\ Asking.kind = "each"
    BY <1>8 DEF BodyBuilt, BackAt
  <2>2. PICK ps : ps = [Joined EXCEPT ![Caller.id].branches = Built, ![Caller.id].next = Top.join,
                                      ![Top.join].next = Id]
    OBVIOUS
  <2>3. PICK x : x = [Node("TASK", Asking.combine) EXCEPT !.collect = <<"forEach", Asking.name>>]
    OBVIOUS
  <2>4. nodes' = Append(ps, x) /\ Reserves
    BY <1>8, <2>2, <2>3, Zenon DEF BodyBuilt
  <2>5. Called(x, "TASK", Asking.combine)
    BY <2>3, NodeCalled
  <2> QED
    BY <2>1, <2>2, <2>4, <2>5, CombineNames
<1>9. CASE LoopBuilt
  BY <1>9, WhileNames
<1> QED
  BY <1>1, <1>2, <1>3, <1>4, <1>5, <1>6, <1>7, <1>8, <1>9 DEF AppendNode

(* The names of the steps are distinct while the compiler builds.            *)
NamesInv(Steps) ==
  /\ CompileInv(Steps)
  /\ output = Nothing => Distinct(nodes, names)
  /\ NamesAreUnique

(* Nothing is named at first.                                                *)
LEMMA NamesAtFirst ==
  ASSUME CompileInit
  PROVE  Distinct(nodes, names)
<1>1. DOMAIN nodes = {}
  BY DEF CompileInit
<1> QED
  BY <1>1 DEF Distinct

(* The end the compiler adds has no name to keep apart.                      *)
LEMMA EndsWithUniqueNames ==
  ASSUME NEW Steps, Good(Steps, nodes, builders), Distinct(nodes, names), CompileEnds
  PROVE  NamesAreUnique'
<1>1. PICK N \in Nat : N = Len(nodes) /\ Size(nodes, N)
  BY AtTop
<1>2. \A i \in 1 .. N : IsNode(nodes[i])
  BY <1>1, NodesAreNodes
<1>3. PICK ps : ps = Wire(nodes, Top.open, Id)
  OBVIOUS
<1>4. SameNames(nodes, N, ps)
  BY <1>1, <1>2, <1>3, WireKeepsNames
<1>5. PICK x : x = Node("END", NoName)
  OBVIOUS
<1>6. x.kind \notin Addressed
  BY <1>5 DEF Node, Addressed
<1>7. PICK t : t = <<>>
  OBVIOUS
<1>8. DOMAIN t = {}
  BY <1>7
<1>9. PICK ms : ms = Append(ps, x)
  OBVIOUS
<1>10. Distinct(ms, names \cup Range(t))
  <2>1. \A i \in DOMAIN t : t[i] # NoName /\ t[i] \notin names
    BY <1>8
  <2>2. x.kind \in Addressed => Range(t) = {x.name}
    BY <1>6
  <2> QED
    BY <1>1, <1>4, <1>9, <2>1, <2>2, EndsWithName
<1>11. output'.graph.nodes = ms
  <2>1. output' = [of |-> "flow", graph |-> [ok |-> TRUE, start |-> Top.start, nodes |-> ms]]
    BY <1>3, <1>5, <1>9 DEF CompileEnds, Gives
  <2> QED
    BY <2>1
<1> QED
  BY <1>10, <1>11 DEF NamesAreUnique, Nodes, Distinct

(* Whatever the flow is made of, every step of the graph it is compiled to   *)
(* has a name, and no two have the same: a handler is bound to one step, and *)
(* a result is staged under one (reserve).                                   *)
THEOREM NamesAreDistinct ==
  ASSUME NEW Steps, Closed(Steps)
  PROVE  CompileSpec(Steps) => []NamesAreUnique
<1>1. input.of = "flow" /\ input.steps \in Seq(Steps) /\ output = Nothing /\ CompileInit
        => NamesInv(Steps)
  <2> SUFFICES ASSUME input.of = "flow", input.steps \in Seq(Steps), output = Nothing, CompileInit
               PROVE  NamesInv(Steps)
    OBVIOUS
  <2>1. NamesAreUnique
    BY DEF NamesAreUnique, Compiled, Nothing
  <2>2. CompileInv(Steps)
    BY StartsInOrder
  <2> QED
    BY <2>1, <2>2, NamesAtFirst DEF NamesInv
<1>2. NamesInv(Steps) /\ [CompileNext]_compileVars => NamesInv(Steps)'
  <2> SUFFICES ASSUME NamesInv(Steps), [CompileNext]_compileVars
               PROVE  NamesInv(Steps)'
    OBVIOUS
  <2>1. CompileInv(Steps) /\ CompileInv(Steps)'
    BY StaysInOrder DEF NamesInv
  <2>2. CASE AppendNode
    <3>1. output = Nothing /\ UNCHANGED output
      BY <2>2, Appending
    <3>2. Good(Steps, nodes, builders) /\ Distinct(nodes, names)
      BY <2>1, <3>1 DEF NamesInv, CompileInv
    <3>3. Distinct(nodes', names')
      BY <2>2, <3>2, AppendNames
    <3>4. Distinct(nodes, names)'
      BY <3>3 DEF Distinct
    <3>5. NamesAreUnique'
      BY <3>1 DEF NamesAreUnique, Compiled, Nothing
    <3> QED
      BY <2>1, <3>4, <3>5 DEF NamesInv
  <2>3. CASE CompileEnds
    <3>1. output = Nothing /\ output'.of = "flow"
      BY <2>3 DEF CompileEnds, Compiling, Gives
    <3>2. Good(Steps, nodes, builders) /\ Distinct(nodes, names)
      BY <2>1, <3>1 DEF NamesInv, CompileInv
    <3>3. NamesAreUnique'
      BY <2>3, <3>2, EndsWithUniqueNames
    <3> QED
      BY <2>1, <3>1, <3>3 DEF NamesInv, Nothing
  <2>4. CASE CompileFails
    <3>1. output' = [of |-> "flow", graph |-> Refusal]
      BY <2>4 DEF CompileFails, Gives
    <3>2. NamesAreUnique'
      BY <3>1 DEF NamesAreUnique, Compiled, Refusal
    <3> QED
      BY <2>1, <3>1, <3>2 DEF NamesInv, Nothing
  <2>5. CASE UNCHANGED compileVars
    BY <2>1, <2>5 DEF NamesInv, compileVars, graphVars, NamesAreUnique, Compiled, Nodes, Distinct
  <2> QED
    BY <2>2, <2>3, <2>4, <2>5 DEF CompileNext
<1>3. NamesInv(Steps) => NamesAreUnique
  BY DEF NamesInv
<1> QED
  BY <1>1, <1>2, <1>3, PTL DEF CompileSpec
=============================================================================
