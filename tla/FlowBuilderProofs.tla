------------------------- MODULE FlowBuilderProofs -------------------------
(***************************************************************************)
(* What a chain of calls records, however long it is: the stage that is    *)
(* pending can still be combined, and where no stage was opened while      *)
(* another one waited, what Define accepts has every stage in its place.   *)
(***************************************************************************)
EXTENDS FlowBuilder, SequenceTheorems, TLAPS

(* A stage is opened after the steps that were there. *)
OpenedAfter == \A i \in DOMAIN stages : stages[i].at \in 0..Len(steps)

(* As long as nothing was refused, each stage is the one that waits, or its  *)
(* step is where it belongs.                                                 *)
Waits(i) ==
  /\ pending # "none"
  /\ \A j \in DOMAIN stages : j > i => ~stages[j].live
  /\ builder = "Flow" => Len(steps) = stages[i].at
InPlace(i) ==
  \E p \in DOMAIN steps :
    /\ steps[p].stage = i /\ p > stages[i].at
    /\ builder = "Flow" => p = stages[i].at + 1
InOrder ==
  /\ ~failed => \A i \in DOMAIN stages : stages[i].live
  /\ ~failed /\ OpenedInTurn /\ CombinedOnce =>
       \A i \in DOMAIN stages : Waits(i) \/ InPlace(i)

(* What is accepted is without a mistake. *)
Accepted ==
  phase = "defined" => ~failed /\ pending = "none" /\ (builder = "Flow" => Compiles)

Inv == PendingStage /\ OpenedAfter /\ InOrder /\ Accepted

-----------------------------------------------------------------------------
(* The effects a call can have on the steps and stages.  *)

(* A step is appended that combines no stage; in a Flow nothing waits. *)
Appends(e) ==
  /\ phase = "building"
  /\ builder = "Flow" => pending = "none"
  /\ e \in Step /\ e.stage = 0 /\ ~e.spawns
  /\ steps' = Append(steps, e)
  /\ UNCHANGED <<builder, failed, pending, stages, phase>>
Refuses ==
  /\ phase = "building" /\ failed'
  /\ UNCHANGED <<builder, steps, pending, stages, phase>>
Spawns(arg) ==
  /\ phase = "building" /\ MayCombine(arg) /\ steps' = Spawning(arg)
  /\ UNCHANGED <<builder, failed, pending, stages, phase>>
Opens(kind, arg) ==
  /\ phase = "building" /\ kind \in StageKind
  /\ stages' = Append(stages, NewStage(kind, arg))
  /\ \/ arg = "bad" /\ failed' /\ UNCHANGED pending
     \/ arg # "bad" /\ pending' = kind /\ UNCHANGED failed
  /\ UNCHANGED <<builder, steps, phase>>
Combines(i, arg) ==
  /\ phase = "building" /\ i \in DOMAIN stages
  /\ \/ ~stages[i].live /\ UNCHANGED <<steps, failed, pending>>
     \/ /\ stages[i].live
        /\ pending' = "none"
        /\ \/ failed' /\ UNCHANGED steps
           \/ steps' = Append(steps, Combined(i, arg)) /\ UNCHANGED failed
  /\ UNCHANGED <<builder, stages, phase>>
Ends ==
  /\ phase = "building"
  /\ \/ phase' = "refused"
     \/ phase' = "defined" /\ ~failed /\ pending = "none" /\ (builder = "Flow" => Compiles)
  /\ UNCHANGED <<builder, steps, failed, pending, stages>>

(* Every step of the specification is one of these. *)
LEMMA Effects ==
  ASSUME TypeOK, Next
  PROVE  \/ \E e \in Step : Appends(e)
         \/ Refuses
         \/ \E arg \in Argument : Spawns(arg)
         \/ \E kind \in StageKind, arg \in Argument : Opens(kind, arg)
         \/ \E i \in DOMAIN stages, arg \in Argument : Combines(i, arg)
         \/ Ends
<1>1. ASSUME NEW kind \in {"task", "plain"}, NEW arg \in Argument
      PROVE  Plain(kind, arg) \in Step /\ Plain(kind, arg).stage = 0 /\ ~Plain(kind, arg).spawns
  BY DEF Plain, Step, Argument
<1>2. ASSUME NEW kind \in {"task", "plain"}, NEW arg \in Argument, FlowThen(kind, arg)
      PROVE  (\E e \in Step : Appends(e)) \/ Refuses
  BY <1>1, <1>2 DEF FlowThen, FlowAdd, Put, Fail, Call, Appends, Refuses
<1>3. ASSUME NEW kind \in {"task", "plain"}, NEW arg \in Argument, BranchThen(kind, arg)
      PROVE  (\E e \in Step : Appends(e)) \/ Refuses
  BY <1>1, <1>3 DEF BranchThen, Put, Fail, Call, Appends, Refuses
<1>4. ASSUME NEW arg \in Argument, FlowSpawn(arg) \/ BranchSpawn(arg)
      PROVE  Spawns(arg) \/ Refuses
  BY <1>4 DEF FlowSpawn, BranchSpawn, Fail, Call, Spawns, Refuses
<1>5. ASSUME NEW kind \in StageKind, NEW arg \in Argument,
             FlowOpens(kind, arg) \/ (kind = "ThenAllOf" /\ BranchAllOf(arg))
      PROVE  Opens(kind, arg)
  BY <1>5 DEF FlowOpens, BranchAllOf, Fail, Call, Opens
<1>6. ASSUME NEW i \in DOMAIN stages, NEW arg \in Argument, NEW b, CombinesStage(b, i, arg)
      PROVE  Combines(i, arg)
  BY <1>6 DEF CombinesStage, Fail, Put, Call, Combines
<1>7. ASSUME Define \/ Drain PROVE Ends
  BY <1>7 DEF Define, Drain, FlowErr, BranchErr, Ends
<1>8. "good" \in Argument /\ StageKind = {"ThenAllOf", "ThenForEach"}
  BY DEF Argument, StageKind
<1>9. CASE FlowSleep
  BY <1>2, <1>8, <1>9 DEF FlowSleep
<1>10. CASE Define \/ Drain
  BY <1>7, <1>10
<1>11. ASSUME NEW arg \in Argument,
              \/ FlowTask(arg) \/ FlowFilter(arg) \/ FlowAwait(arg) \/ FlowSubFlow(arg)
              \/ FlowOneOf(arg) \/ FlowRepeat(arg)
       PROVE  (\E e \in Step : Appends(e)) \/ Refuses
  BY <1>2, <1>11 DEF FlowTask, FlowFilter, FlowAwait, FlowSubFlow, FlowOneOf, FlowRepeat
<1>12. ASSUME NEW arg \in Argument,
              \/ BranchTask(arg) \/ BranchFilter(arg) \/ BranchSleep(arg) \/ BranchAwait(arg)
              \/ BranchSubFlow(arg) \/ BranchOneOf(arg) \/ BranchRepeat(arg)
       PROVE  (\E e \in Step : Appends(e)) \/ Refuses
  BY <1>3, <1>12 DEF BranchTask, BranchFilter, BranchSleep, BranchAwait, BranchSubFlow,
                     BranchOneOf, BranchRepeat
<1>13. ASSUME NEW arg \in Argument, FlowAllOf(arg) \/ FlowForEach(arg) \/ BranchAllOf(arg)
       PROVE  \E kind \in StageKind : Opens(kind, arg)
  BY <1>5, <1>8, <1>13 DEF FlowAllOf, FlowForEach
<1>14. ASSUME NEW i \in DOMAIN stages, NEW arg \in Argument,
              ForkCombine(i, arg) \/ ForEachCombine(i, arg) \/ ArmsCombine(i, arg)
       PROVE  Combines(i, arg)
  BY <1>6, <1>14 DEF ForkCombine, ForEachCombine, ArmsCombine
<1> QED
  BY <1>4, <1>9, <1>10, <1>11, <1>12, <1>13, <1>14 DEF Next
-----------------------------------------------------------------------------
(* A call is counted. *)
LEMMA CallsBounded == ASSUME TypeOK, Next PROVE calls' \in 0..MaxCalls
<1> USE CallsAssumption DEF TypeOK
<1>1. ASSUME NEW b, Call(b) PROVE calls' \in 0..MaxCalls
  BY <1>1 DEF Call
<1>2. ASSUME UNCHANGED calls PROVE calls' \in 0..MaxCalls
  BY <1>2
<1> QED
  BY <1>1, <1>2
     DEF Next, FlowSleep, FlowTask, FlowFilter, FlowAwait, FlowSubFlow, FlowOneOf, FlowRepeat,
         FlowThen, FlowSpawn, FlowAllOf, FlowForEach, FlowOpens, ForkCombine, ForEachCombine,
         CombinesStage, ArmsCombine, Define, Drain, BranchTask, BranchFilter, BranchSleep,
         BranchAwait, BranchSubFlow, BranchOneOf, BranchRepeat, BranchThen, BranchSpawn, BranchAllOf

(* What the new step of a stage, a new stage and a spawning step look like. *)
LEMMA NewParts ==
  ASSUME TypeOK, NEW arg \in Argument
  PROVE  /\ \A kind \in StageKind : NewStage(kind, arg) \in Stage
         /\ \A i \in DOMAIN stages :
              /\ Combined(i, arg) \in Step
              /\ Combined(i, arg).stage = i /\ ~Combined(i, arg).spawns
<1>1. Len(steps) \in Nat /\ \A i \in DOMAIN stages : stages[i] \in Stage /\ i \in Nat \ {0}
  BY DEF TypeOK
<1>2. ASSUME NEW kind \in StageKind PROVE NewStage(kind, arg) \in Stage
  BY <1>1 DEF NewStage, Stage, TypeOK
<1>3. ASSUME NEW i \in DOMAIN stages
      PROVE  /\ Combined(i, arg) \in Step
             /\ Combined(i, arg).stage = i /\ ~Combined(i, arg).spawns
  BY <1>1, <1>3 DEF Combined, Step, Stage
<1> QED
  BY <1>2, <1>3

LEMMA SpawningSteps ==
  ASSUME TypeOK, NEW arg \in Argument, MayCombine(arg)
  PROVE  /\ Spawning(arg) \in Seq(Step)
         /\ Len(Spawning(arg)) = Len(steps)
         /\ \A p \in DOMAIN steps :
              /\ Spawning(arg)[p].stage = steps[p].stage
              /\ Spawning(arg)[p].spawns => steps[p].kind = "task"
              /\ Spawning(arg)[p].kind = steps[p].kind
<1> DEFINE last == Len(steps)
           new == [steps[last] EXCEPT !.spawns = TRUE, !.flawed = @ \/ arg = "flawed"]
<1>1. last \in DOMAIN steps /\ \A p \in DOMAIN steps : steps[p] \in Step
  BY DEF TypeOK, MayCombine
<1>2. new \in Step /\ new.stage = steps[last].stage /\ new.kind = "task"
  BY <1>1 DEF Step, MayCombine
<1>3. Spawning(arg) = [steps EXCEPT ![last] = new]
  BY <1>1 DEF Spawning, Step
<1> QED
  BY <1>1, <1>2, <1>3 DEF TypeOK, MayCombine

-----------------------------------------------------------------------------
(* Appending changes no step that was there, and so no place of one. *)
LEMMA Grown ==
  ASSUME NEW S, NEW seq \in Seq(S), NEW e \in S
  PROVE  /\ Append(seq, e) \in Seq(S)
         /\ DOMAIN Append(seq, e) = DOMAIN seq \cup {Len(seq) + 1}
         /\ Len(Append(seq, e)) = Len(seq) + 1 /\ Len(seq) \in Nat
         /\ DOMAIN seq = 1..Len(seq)
         /\ \A p \in DOMAIN seq : Append(seq, e)[p] = seq[p]
         /\ Append(seq, e)[Len(seq) + 1] = e
  BY AppendProperties

LEMMA TypesKept == ASSUME TypeOK, Next PROVE TypeOK'
<1>1. calls' \in 0..MaxCalls
  BY CallsBounded
<1>2. ASSUME NEW e \in Step, Appends(e) PROVE TypeOK'
  <2>1. /\ steps' \in Seq(Step) /\ DOMAIN steps' = DOMAIN steps \cup {Len(steps) + 1}
        /\ \A p \in DOMAIN steps : steps'[p] = steps[p]
        /\ steps'[Len(steps) + 1] = e
    BY <1>2, Grown DEF Appends, TypeOK
  <2>2. 0 \in 0..Len(stages)
    BY DEF TypeOK
  <2> QED
    BY <1>1, <1>2, <2>1, <2>2 DEF Appends, TypeOK
<1>3. CASE Refuses
  BY <1>1, <1>3 DEF Refuses, TypeOK
<1>4. ASSUME NEW arg \in Argument, Spawns(arg) PROVE TypeOK'
  <2>1. /\ steps' \in Seq(Step) /\ DOMAIN steps' = DOMAIN steps
        /\ \A p \in DOMAIN steps : /\ steps'[p].stage = steps[p].stage
                                   /\ steps'[p].kind = steps[p].kind
                                   /\ steps'[p].spawns => steps[p].kind = "task"
    BY <1>4, SpawningSteps DEF Spawns, TypeOK
  <2> QED
    BY <1>1, <1>4, <2>1 DEF Spawns, TypeOK
<1>5. ASSUME NEW kind \in StageKind, NEW arg \in Argument, Opens(kind, arg) PROVE TypeOK'
  <2>1. stages' \in Seq(Stage) /\ Len(stages') = Len(stages) + 1 /\ Len(stages) \in Nat
    BY <1>5, NewParts, Grown DEF Opens, TypeOK
  <2>2. failed' \in BOOLEAN /\ pending' \in StageKind \cup {"none"}
    BY <1>5 DEF Opens, TypeOK
  <2>3. 0..Len(stages) \subseteq 0..Len(stages')
    BY <2>1
  <2> QED
    BY <1>1, <1>5, <2>1, <2>2, <2>3 DEF Opens, TypeOK
<1>6. ASSUME NEW i \in DOMAIN stages, NEW arg \in Argument, Combines(i, arg) PROVE TypeOK'
  <2>1. CASE steps' = steps
    BY <1>1, <1>6, <2>1 DEF Combines, TypeOK
  <2>2. CASE steps' = Append(steps, Combined(i, arg)) /\ UNCHANGED failed /\ pending' = "none"
    <3>1. /\ steps' \in Seq(Step) /\ DOMAIN steps' = DOMAIN steps \cup {Len(steps) + 1}
          /\ \A p \in DOMAIN steps : steps'[p] = steps[p]
          /\ steps'[Len(steps) + 1] = Combined(i, arg)
      BY <2>2, Grown, NewParts DEF TypeOK
    <3>2. i \in 0..Len(stages)
      BY DEF TypeOK
    <3>3. Combined(i, arg).stage = i /\ ~Combined(i, arg).spawns
      BY NewParts
    <3> QED
      BY <1>1, <1>6, <2>2, <3>1, <3>2, <3>3 DEF Combines, TypeOK
  <2> QED
    BY <1>6, <2>1, <2>2 DEF Combines
<1>7. CASE Ends
  BY <1>1, <1>7 DEF Ends, TypeOK
<1> QED
  BY <1>2, <1>3, <1>4, <1>5, <1>6, <1>7, Effects

(* Every variable of FlowBuilder keeps its type, whatever the calls, and only *)
(* tasks are made spawning steps (flow.go:101-113, branch.go:110-118).        *)
THEOREM TypeCorrect == Spec => []TypeOK
<1>1. Init => TypeOK
  <2>1. <<>> \in Seq(Step) /\ <<>> \in Seq(Stage) /\ DOMAIN <<>> = {}
    BY EmptySeq
  <2>2. 0 \in 0..MaxCalls
    BY CallsAssumption
  <2> QED
    BY <2>1, <2>2 DEF Init, TypeOK
<1>2. TypeOK /\ [Next]_vars => TypeOK'
  <2>1. ASSUME TypeOK, UNCHANGED vars PROVE TypeOK'
    BY <2>1 DEF vars, TypeOK
  <2> QED
    BY <2>1, TypesKept
<1> QED
  BY <1>1, <1>2, PTL DEF Spec

-----------------------------------------------------------------------------
(* A step that is appended leaves every stage's steps where they are. *)
LEMMA PlacesGrow ==
  ASSUME TypeOK, NEW e \in Step, steps' = Append(steps, e), UNCHANGED <<builder, stages>>
  PROVE  /\ Len(steps') = Len(steps) + 1 /\ Len(steps) \in Nat
         /\ \A i \in DOMAIN stages :
              /\ Places(i) \subseteq Places(i)'
              /\ e.stage # i => Places(i)' = Places(i)
              /\ e.stage = i => Len(steps) + 1 \in Places(i)'
              /\ InPlace(i) => InPlace(i)'
         /\ CombinedOnce' => CombinedOnce
         /\ OpenedInTurn' = OpenedInTurn
<1>1. /\ DOMAIN steps' = DOMAIN steps \cup {Len(steps) + 1}
      /\ Len(steps') = Len(steps) + 1 /\ Len(steps) \in Nat
      /\ \A p \in DOMAIN steps : steps'[p] = steps[p]
      /\ steps'[Len(steps) + 1] = e
  BY Grown DEF TypeOK
<1>2. ASSUME NEW i \in DOMAIN stages
      PROVE  /\ Places(i) \subseteq Places(i)'
             /\ e.stage # i => Places(i)' = Places(i)
             /\ e.stage = i => Len(steps) + 1 \in Places(i)'
             /\ InPlace(i) => InPlace(i)'
  BY <1>1 DEF Places, InPlace
<1>3. CombinedOnce' => CombinedOnce
  BY <1>2 DEF CombinedOnce
<1> QED
  BY <1>1, <1>2, <1>3 DEF OpenedInTurn

(* A plain step: in a Flow nothing waits, so nothing moves away from its place. *)
LEMMA AppendsKeeps ==
  ASSUME TypeOK, Inv, NEW e \in Step, Appends(e)
  PROVE  Inv'
<1> USE DEF Inv
<1>1. /\ Len(steps') = Len(steps) + 1 /\ Len(steps) \in Nat
      /\ \A i \in DOMAIN stages : Places(i)' = Places(i) /\ (InPlace(i) => InPlace(i)')
      /\ CombinedOnce' => CombinedOnce
      /\ OpenedInTurn' = OpenedInTurn
  <2>1. \A i \in DOMAIN stages : e.stage # i
    BY DEF Appends, TypeOK
  <2> QED
    BY <2>1, PlacesGrow DEF Appends
<1>2. PendingStage'
  BY <1>1 DEF PendingStage, Appends
<1>3. OpenedAfter'
  BY <1>1 DEF OpenedAfter, Appends
<1>4. ASSUME NEW i \in DOMAIN stages, Waits(i) PROVE Waits(i)'
  BY <1>4 DEF Waits, Appends
<1>5. InOrder'
  BY <1>1, <1>4 DEF InOrder, Appends
<1>6. Accepted'
  BY DEF Accepted, Appends
<1> QED
  BY <1>2, <1>3, <1>5, <1>6

LEMMA RefusesKeeps == ASSUME TypeOK, Inv, Refuses PROVE Inv'
<1>1. PendingStage'
  BY DEF Inv, PendingStage, Places, Refuses
<1>2. OpenedAfter'
  BY DEF Inv, OpenedAfter, Refuses
<1>3. InOrder' /\ Accepted'
  BY DEF InOrder, Accepted, Refuses
<1> QED
  BY <1>1, <1>2, <1>3 DEF Inv

LEMMA SpawnsKeeps == ASSUME TypeOK, Inv, NEW arg \in Argument, Spawns(arg) PROVE Inv'
<1> USE DEF Inv
<1>1. /\ Len(steps') = Len(steps) /\ DOMAIN steps' = DOMAIN steps
      /\ \A p \in DOMAIN steps : steps'[p].stage = steps[p].stage
  BY SpawningSteps DEF Spawns, TypeOK
<1>2. ASSUME NEW i \in DOMAIN stages
      PROVE  Places(i)' = Places(i) /\ InPlace(i)' = InPlace(i) /\ Waits(i)' = Waits(i)
  BY <1>1 DEF Places, InPlace, Waits, Spawns
<1>3. PendingStage'
  BY <1>2 DEF PendingStage, Spawns
<1>4. OpenedAfter'
  BY <1>1 DEF OpenedAfter, Spawns
<1>5. CombinedOnce' = CombinedOnce /\ OpenedInTurn' = OpenedInTurn
  BY <1>2 DEF CombinedOnce, OpenedInTurn, Spawns
<1>6. InOrder'
  BY <1>2, <1>5 DEF InOrder, Spawns
<1>7. Accepted'
  BY DEF Accepted, Spawns
<1> QED
  BY <1>3, <1>4, <1>6, <1>7

(* A stage is opened: it is the one that waits.  In a chain whose stages are  *)
(* opened in turn nothing waited before it.                                   *)
LEMMA OpensKeeps ==
  ASSUME TypeOK, Inv, NEW kind \in StageKind, NEW arg \in Argument, Opens(kind, arg)
  PROVE  Inv'
<1> USE DEF Inv
<1>0. PICK n \in Nat : n = Len(stages) + 1
  BY DEF TypeOK
<1> DEFINE new == NewStage(kind, arg)
<1>1. /\ DOMAIN stages' = DOMAIN stages \cup {n} /\ DOMAIN stages = 1..Len(stages)
      /\ Len(stages) \in Nat /\ Len(steps) \in Nat
      /\ \A i \in DOMAIN stages : stages'[i] = stages[i]
      /\ stages'[n] = new
  BY <1>0, Grown, NewParts DEF Opens, TypeOK
<1>2. /\ new.at = Len(steps) /\ new.onto = pending /\ new.kind = kind
      /\ new.live <=> arg # "bad"
  BY DEF NewStage
<1> HIDE DEF new
<1>3. Places(n)' = {} /\ \A i \in DOMAIN stages : Places(i)' = Places(i)
  <2>1. \A p \in DOMAIN steps : steps[p].stage # n
    BY <1>0, <1>1 DEF TypeOK
  <2> QED
    BY <2>1 DEF Places, Opens
<1>4. PendingStage'
  <2>1. CASE arg # "bad"
    <3>1. n \in DOMAIN stages' /\ stages'[n].live /\ stages'[n].kind = pending'
      BY <1>1, <1>2, <2>1 DEF Opens
    <3>2. \A j \in DOMAIN stages' : ~(j > n)
      BY <1>0, <1>1
    <3> QED
      BY <1>3, <3>1, <3>2 DEF PendingStage
  <2>2. CASE arg = "bad"
    <3>1. ASSUME NEW i \in DOMAIN stages,
                 stages[i].live /\ stages[i].kind = pending /\ Places(i) = {},
                 \A j \in DOMAIN stages : j > i => ~stages[j].live
          PROVE  /\ i \in DOMAIN stages'
                 /\ stages'[i].live /\ stages'[i].kind = pending' /\ Places(i)' = {}
                 /\ \A j \in DOMAIN stages' : j > i => ~stages'[j].live
      BY <1>1, <1>2, <1>3, <2>2, <3>1 DEF Opens
    <3> QED
      BY <2>2, <3>1 DEF PendingStage, Opens
  <2> QED
    BY <2>1, <2>2
<1>5. OpenedAfter'
  BY <1>1, <1>2 DEF OpenedAfter, Opens
<1>6. InOrder'
  <2>1. ASSUME ~failed' PROVE \A i \in DOMAIN stages' : stages'[i].live
    BY <1>1, <1>2, <2>1 DEF InOrder, Opens
  <2>2. ASSUME ~failed', OpenedInTurn', CombinedOnce'
        PROVE  \A i \in DOMAIN stages' : Waits(i)' \/ InPlace(i)'
    <3>1. ~failed /\ arg # "bad" /\ pending' = kind /\ kind # "none"
      BY <2>2 DEF Opens, StageKind
    <3>2. pending = "none" /\ OpenedInTurn /\ CombinedOnce
      BY <1>1, <1>2, <1>3, <2>2 DEF OpenedInTurn, CombinedOnce
    <3>3. \A i \in DOMAIN stages : InPlace(i)
      BY <3>1, <3>2 DEF InOrder, Waits
    <3>4. ASSUME NEW i \in DOMAIN stages PROVE InPlace(i)'
      BY <1>1, <3>3 DEF InPlace, Opens
    <3>5. Waits(n)'
      BY <1>0, <1>1, <1>2, <3>1 DEF Waits, Opens
    <3> QED
      BY <1>1, <3>4, <3>5
  <2> QED
    BY <2>1, <2>2 DEF InOrder
<1>7. Accepted'
  BY DEF Accepted, Opens
<1> QED
  BY <1>4, <1>5, <1>6, <1>7

(* A stage is combined: the one that waited, or one whose step is recorded    *)
(* already, which now has two.                                                *)
LEMMA CombinesKeeps ==
  ASSUME TypeOK, Inv, NEW i \in DOMAIN stages, NEW arg \in Argument, Combines(i, arg)
  PROVE  Inv'
<1> USE DEF Inv
<1>1. CASE UNCHANGED <<steps, failed, pending>>
  <2>1. PendingStage'
    BY <1>1 DEF PendingStage, Places, Combines
  <2>2. OpenedAfter' /\ Accepted'
    BY <1>1 DEF OpenedAfter, Accepted, Combines
  <2>3. InOrder'
    BY <1>1 DEF InOrder, OpenedInTurn, CombinedOnce, Places, Waits, InPlace, Combines
  <2> QED
    BY <2>1, <2>2, <2>3
<1>2. CASE pending' = "none" /\ failed' /\ UNCHANGED steps
  BY <1>2 DEF PendingStage, OpenedAfter, InOrder, Accepted, Combines
<1>3. CASE pending' = "none" /\ steps' = Append(steps, Combined(i, arg)) /\ UNCHANGED failed
  <2> DEFINE e == Combined(i, arg)
  <2>1. e \in Step /\ e.stage = i
    BY NewParts
  <2> HIDE DEF e
  <2>2. /\ Len(steps') = Len(steps) + 1 /\ Len(steps) \in Nat
        /\ Len(steps) + 1 \in Places(i)'
        /\ \A j \in DOMAIN stages : Places(j) \subseteq Places(j)' /\ (InPlace(j) => InPlace(j)')
        /\ CombinedOnce' => CombinedOnce
        /\ OpenedInTurn' = OpenedInTurn
    BY <1>3, <2>1, PlacesGrow DEF Combines, e
  <2>3. PendingStage' /\ OpenedAfter' /\ Accepted'
    BY <1>3, <2>2 DEF PendingStage, OpenedAfter, Accepted, Combines
  <2>4. ASSUME ~failed', OpenedInTurn', CombinedOnce', NEW j \in DOMAIN stages
        PROVE  InPlace(j)'
    <3>1. \A k \in DOMAIN stages : stages[k].live /\ (Waits(k) \/ InPlace(k))
      BY <1>3, <2>2, <2>4 DEF InOrder
    <3>2. ~InPlace(i)
      <4>1. ASSUME NEW p \in Places(i) PROVE FALSE
        <5>1. p \in Places(i)' /\ p \in 1..Len(steps)
          BY <2>2, <4>1 DEF Places, TypeOK
        <5> QED
          BY <2>2, <2>4, <5>1 DEF CombinedOnce, Combines
      <4> QED
        BY <4>1 DEF InPlace, Places
    <3>3. Waits(i)
      BY <3>1, <3>2
    <3>4. stages[i].at \in 0..Len(steps) /\ (builder = "Flow" => Len(steps) = stages[i].at)
      BY <3>3 DEF Waits, OpenedAfter
    <3>5. InPlace(i)'
      BY <2>2, <3>4 DEF InPlace, Places, Combines
    <3>6. CASE j # i
      <4>1. ~Waits(j)
        BY <3>1, <3>3, <3>6 DEF Waits, TypeOK
      <4> QED
        BY <2>2, <3>1, <4>1
    <3> QED
      BY <3>5, <3>6
  <2>5. InOrder'
    BY <1>3, <2>4 DEF InOrder, Combines
  <2> QED
    BY <2>3, <2>5
<1> QED
  BY <1>1, <1>2, <1>3 DEF Combines

LEMMA EndsKeeps == ASSUME TypeOK, Inv, Ends PROVE Inv'
<1> USE DEF Inv
<1>1. PendingStage' /\ OpenedAfter'
  BY DEF PendingStage, OpenedAfter, Places, Ends
<1>2. InOrder'
  BY DEF InOrder, OpenedInTurn, CombinedOnce, Places, Waits, InPlace, Ends
<1>3. Accepted'
  BY DEF Accepted, Compiles, Ends
<1> QED
  BY <1>1, <1>2, <1>3

(* The invariant holds, however many calls are made. *)
THEOREM InvCorrect == Spec => []Inv
<1>1. Init => Inv
  BY DEF Init, Inv, PendingStage, OpenedAfter, InOrder, Accepted
<1>2. TypeOK /\ Inv /\ [Next]_vars => Inv'
  <2>1. ASSUME TypeOK, Inv, Next PROVE Inv'
    BY <2>1, Effects, AppendsKeeps, RefusesKeeps, SpawnsKeeps, OpensKeeps, CombinesKeeps, EndsKeeps
  <2>2. ASSUME Inv, UNCHANGED vars PROVE Inv'
    BY <2>2 DEF Inv, PendingStage, OpenedAfter, InOrder, Accepted, OpenedInTurn, CombinedOnce,
                Places, Waits, InPlace, Compiles, vars
  <2> QED
    BY <2>1, <2>2
<1> QED
  BY <1>1, <1>2, TypeCorrect, PTL DEF Spec

(* "pending names the ThenAllOf or ThenForEach still waiting for its Combine" *)
(* (flow.go:51): a chain that refuses steps because a stage waits always has  *)
(* a stage left whose Combine ends the wait.                                  *)
THEOREM PendingCanBeCombined == Spec => []PendingStage
  BY InvCorrect, PTL DEF Inv

(* What Define accepts has each stage's step once and in its place, when no   *)
(* stage was opened while another one waited (flow.go:187-206, 299-305).      *)
THEOREM StagesInPlace == Spec => []StagesKept
<1>1. TypeOK /\ Inv => StagesKept
  <2> SUFFICES ASSUME TypeOK, Inv, phase = "defined", OpenedInTurn,
                      NEW i \in DOMAIN stages
               PROVE  /\ builder = "Flow" => Places(i) = {stages[i].at + 1}
                      /\ builder = "CreatedBranch" /\ CombinedOnce =>
                           \E p \in Places(i) : p > stages[i].at
    BY DEF StagesKept
  <2>1. ~failed /\ pending = "none" /\ (builder = "Flow" => Compiles)
    BY DEF Inv, Accepted
  <2>2. CombinedOnce => InPlace(i)
    BY <2>1 DEF Inv, InOrder, Waits
  <2>3. builder = "Flow" => CombinedOnce
    <3>1. \A j \in DOMAIN stages : j # 0
      BY DEF TypeOK
    <3> QED
      BY <2>1, <3>1 DEF CombinedOnce, Compiles, Places
  <2>4. CASE builder = "Flow"
    <3>1. stages[i].at + 1 \in Places(i)
      BY <2>2, <2>3, <2>4 DEF InPlace, Places
    <3> QED
      BY <2>3, <2>4, <3>1 DEF CombinedOnce
  <2>5. CASE builder # "Flow"
    BY <2>2, <2>5 DEF InPlace, Places
  <2> QED
    BY <2>4, <2>5
<1> QED
  BY <1>1, TypeCorrect, InvCorrect, PTL
=============================================================================
