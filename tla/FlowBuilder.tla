---------------------------- MODULE FlowBuilder ----------------------------
(***************************************************************************)
(* A chain of steps as a program records it, call by call: a Flow          *)
(* (flow.go), which Define then compiles, or a CreatedBranch (branch.go),  *)
(* which its step's report carries.  ThenAllOf and ThenForEach return a    *)
(* stage, and only the stage's own Combine adds its step; nothing keeps    *)
(* the program from making other calls first, or from calling Combine      *)
(* twice or never.  A call that is refused leaves an error behind, and the *)
(* calls go on.                                                            *)
(*                                                                         *)
(* The arms and bodies that callbacks build are chains of their own, built *)
(* by the same methods; here each comes as what it turned out to be, an    *)
(* argument that is "good", "bad" (the call refuses it) or "flawed" (only  *)
(* compile refuses it: a name that is missing or taken, an empty case, an  *)
(* escalation without a timeout).                                          *)
(***************************************************************************)
EXTENDS Naturals, Sequences

CONSTANT MaxCalls   \* bound: calls that record something

ASSUME CallsAssumption == MaxCalls \in Nat

VARIABLES
  builder,   \* "Flow" or "CreatedBranch"
  steps,     \* Flow.steps, CreatedBranch.steps
  failed,    \* err # nil
  pending,   \* Flow.pending; of a CreatedBranch "ThenAllOf" is allOfPending
  stages,    \* the stages handed out so far: ForkStage, ForEachStage, Arms
  phase,     \* "building", then "defined" or "refused"
  calls      \* what the bound counts

vars == <<builder, steps, failed, pending, stages, phase, calls>>

Argument == {"good", "bad", "flawed"}
StageKind == {"ThenAllOf", "ThenForEach"}

\* A recorded step: the number of the stage it combines (0: none), and whether
\* a Combine made it a spawning step.
Step == [kind : {"task", "plain"} \cup StageKind, stage : Nat,
         flawed : BOOLEAN, spawns : BOOLEAN]
Plain(kind, arg) ==
  [kind |-> kind, stage |-> 0, flawed |-> arg = "flawed", spawns |-> FALSE]

\* A stage: how many steps there were when it was handed out, and what was
\* pending then.  One that is not live holds no arms: its call was refused.
Stage == [kind : StageKind, at : Nat, onto : StageKind \cup {"none"},
          live : BOOLEAN, flawed : BOOLEAN]
NewStage(kind, arg) ==
  [kind |-> kind, at |-> Len(steps), onto |-> pending,
   live |-> arg # "bad", flawed |-> arg = "flawed"]

Init ==
  /\ builder \in {"Flow", "CreatedBranch"}
  /\ steps = <<>>
  /\ failed = FALSE
  /\ pending = "none"
  /\ stages = <<>>
  /\ phase = "building"
  /\ calls = 0

Call(b) ==
  /\ phase = "building"
  /\ builder = b
  /\ calls < MaxCalls
  /\ calls' = calls + 1
  /\ UNCHANGED <<builder, phase>>

Fail == failed' = TRUE /\ UNCHANGED steps
Put(step) == steps' = Append(steps, step) /\ UNCHANGED failed

-----------------------------------------------------------------------------
(* Flow *)

\* Mutant: a step is added although a stage waits.
FlowAdd_Whenever(step) == Put(step)

FlowAdd(step) ==
  \/ pending = "none" /\ Put(step)
  \/ pending # "none" /\ Fail

FlowThen(kind, arg) ==
  /\ Call("Flow")
  /\ \/ arg = "bad" /\ Fail
     \/ arg # "bad" /\ FlowAdd(Plain(kind, arg))
  /\ UNCHANGED <<pending, stages>>

FlowTask(arg) == arg # "bad" /\ FlowThen("task", arg)
FlowFilter(arg) == arg # "bad" /\ FlowThen("plain", arg)
FlowSleep == FlowThen("plain", "good")
FlowAwait(arg) == FlowThen("plain", arg)
FlowSubFlow(arg) == FlowThen("plain", arg)
FlowOneOf(arg) == FlowThen("plain", arg)
FlowRepeat(arg) == FlowThen("plain", arg)

\* Flow.Combine, which looks at the last step and not at `pending`.
MayCombine(arg) ==
  /\ steps # <<>> /\ arg # "bad"
  /\ steps[Len(steps)].kind = "task" /\ ~steps[Len(steps)].spawns
Spawning(arg) ==
  [steps EXCEPT ![Len(steps)].spawns = TRUE,
                ![Len(steps)].flawed = @ \/ arg = "flawed"]

\* Mutant: whatever the last step is, it becomes a spawning step.
FlowSpawn_AnyStep(arg) ==
  /\ Call("Flow")
  /\ steps # <<>> /\ steps' = Spawning(arg)
  /\ UNCHANGED <<failed, pending, stages>>

FlowSpawn(arg) ==
  /\ Call("Flow")
  /\ \/ MayCombine(arg) /\ steps' = Spawning(arg) /\ UNCHANGED failed
     \/ ~MayCombine(arg) /\ Fail
  /\ UNCHANGED <<pending, stages>>

\* Both stages open alike: refused, or pending whatever was pending before.
FlowOpens(kind, arg) ==
  /\ Call("Flow")
  /\ stages' = Append(stages, NewStage(kind, arg))
  /\ \/ arg = "bad" /\ Fail /\ UNCHANGED pending
     \/ arg # "bad" /\ pending' = kind /\ UNCHANGED <<steps, failed>>

\* Mutant: the stage is pending before its arms are looked at.
FlowAllOf_PendingFirst(arg) ==
  /\ Call("Flow")
  /\ stages' = Append(stages, NewStage("ThenAllOf", arg))
  /\ pending' = "ThenAllOf"
  /\ \/ arg = "bad" /\ Fail
     \/ arg # "bad" /\ UNCHANGED <<steps, failed>>

FlowAllOf(arg) == FlowOpens("ThenAllOf", arg)
FlowForEach(arg) == FlowOpens("ThenForEach", arg)

\* The Combine of stage i, with a name, without one ("bad") or with one that is
\* taken.  Nothing is pending any more, whichever stage was.
Combined(i, arg) ==
  [kind |-> stages[i].kind, stage |-> i,
   flawed |-> stages[i].flawed \/ arg = "flawed", spawns |-> FALSE]
CombinesStage(b, i, arg) ==
  /\ Call(b)
  /\ \/ ~stages[i].live /\ UNCHANGED <<steps, failed, pending>>
     \/ /\ stages[i].live
        /\ pending' = "none"
        /\ \/ arg = "bad" /\ Fail
           \/ arg # "bad" /\ Put(Combined(i, arg))
  /\ UNCHANGED stages

ForkCombine(i, arg) == stages[i].kind = "ThenAllOf" /\ CombinesStage("Flow", i, arg)
ForEachCombine(i, arg) == stages[i].kind = "ThenForEach" /\ CombinesStage("Flow", i, arg)

\* Where the step of stage i is.
Places(i) == {p \in DOMAIN steps : steps[p].stage = i}

\* Define: the body is over.  compile refuses an empty flow, a flawed step, a stage
\* that was combined twice, for its arms' names are then taken -- and, whatever the
\* steps, a workflow without a name or with an attribute that is not valid.
FlowErr == failed \/ pending # "none"
Compiles ==
  /\ steps # <<>>
  /\ \A p \in DOMAIN steps : ~steps[p].flawed
  /\ \A p, q \in DOMAIN steps :
       steps[p].stage = steps[q].stage /\ steps[p].stage # 0 => p = q
Define ==
  /\ phase = "building"
  /\ builder = "Flow"
  /\ \/ phase' = "refused"
     \/ ~FlowErr /\ Compiles /\ phase' = "defined"
  /\ UNCHANGED <<builder, steps, failed, pending, stages, calls>>

-----------------------------------------------------------------------------
(* CreatedBranch.  Names and arguments are checked by the call, and a step is *)
(* added whatever is pending.                                                 *)

BranchThen(kind, arg) ==
  /\ Call("CreatedBranch")
  /\ \/ arg = "bad" /\ Fail
     \/ arg = "good" /\ Put(Plain(kind, arg))
  /\ UNCHANGED <<pending, stages>>

BranchTask(arg) == BranchThen("task", arg)
BranchFilter(arg) == BranchThen("plain", arg)
BranchSleep(arg) == BranchThen("plain", arg)
BranchAwait(arg) == BranchThen("plain", arg)
BranchSubFlow(arg) == BranchThen("plain", arg)
BranchOneOf(arg) == BranchThen("plain", arg)
BranchRepeat(arg) == BranchThen("plain", arg)

BranchSpawn(arg) ==
  /\ Call("CreatedBranch")
  /\ arg # "flawed"
  /\ \/ MayCombine(arg) /\ steps' = Spawning(arg) /\ UNCHANGED failed
     \/ ~MayCombine(arg) /\ Fail
  /\ UNCHANGED <<pending, stages>>

BranchAllOf(arg) ==
  /\ Call("CreatedBranch")
  /\ stages' = Append(stages, NewStage("ThenAllOf", arg))
  /\ \/ arg = "bad" /\ Fail /\ UNCHANGED pending
     \/ arg = "good" /\ pending' = "ThenAllOf" /\ UNCHANGED <<steps, failed>>

ArmsCombine(i, arg) == arg # "flawed" /\ CombinesStage("CreatedBranch", i, arg)

\* The handler has returned: drain asks for the first mistake and for nothing else.
BranchErr == failed \/ pending # "none"
Drain ==
  /\ phase = "building"
  /\ builder = "CreatedBranch"
  /\ phase' = IF BranchErr THEN "refused" ELSE "defined"
  /\ UNCHANGED <<builder, steps, failed, pending, stages, calls>>

-----------------------------------------------------------------------------
Next ==
  \/ FlowSleep \/ Define \/ Drain
  \/ \E arg \in Argument :
        \/ FlowTask(arg) \/ FlowFilter(arg) \/ FlowAwait(arg) \/ FlowSubFlow(arg)
        \/ FlowOneOf(arg) \/ FlowRepeat(arg) \/ FlowSpawn(arg)
        \/ FlowAllOf(arg) \/ FlowForEach(arg)
        \/ BranchTask(arg) \/ BranchFilter(arg) \/ BranchSleep(arg) \/ BranchAwait(arg)
        \/ BranchSubFlow(arg) \/ BranchOneOf(arg) \/ BranchRepeat(arg)
        \/ BranchSpawn(arg) \/ BranchAllOf(arg)
        \/ \E i \in DOMAIN stages :
              ForkCombine(i, arg) \/ ForEachCombine(i, arg) \/ ArmsCombine(i, arg)

Spec == Init /\ [][Next]_vars

-----------------------------------------------------------------------------
(* Type invariant: every variable of FlowBuilder holds a value of its kind,   *)
(* and only a task is made a spawning step (flow.go:97-99).                   *)
TypeOK ==
  /\ builder \in {"Flow", "CreatedBranch"}
  /\ steps \in Seq(Step)
  /\ \A p \in DOMAIN steps :
       /\ steps[p].spawns => steps[p].kind = "task"
       /\ steps[p].stage \in 0..Len(stages)
  /\ failed \in BOOLEAN
  /\ pending \in StageKind \cup {"none"}
  /\ stages \in Seq(Stage)
  /\ phase \in {"building", "defined", "refused"}
  /\ calls \in 0..MaxCalls

(* "pending names the ThenAllOf or ThenForEach still waiting for its Combine" *)
(* (flow.go:51): it is the stage handed out last that was not refused, its    *)
(* step is not recorded, and its Combine is there to be called.               *)
PendingStage ==
  pending # "none" =>
    \E i \in DOMAIN stages :
      /\ stages[i].live /\ stages[i].kind = pending /\ Places(i) = {}
      /\ \A j \in DOMAIN stages : j > i => ~stages[j].live

(* "The flow goes on with its return" (flow.go:195-196, 236-237): in what     *)
(* Define accepts, each stage's step stands once, right after the steps       *)
(* chained before the stage was opened -- provided that no stage was opened   *)
(* while another one waited.  A created branch keeps its stages too, if none  *)
(* is combined twice, but steps chained in between come before them.          *)
OpenedInTurn == \A i \in DOMAIN stages : stages[i].onto = "none"
CombinedOnce == \A i \in DOMAIN stages : \A p, q \in Places(i) : p = q
StagesKept ==
  phase = "defined" /\ OpenedInTurn =>
    \A i \in DOMAIN stages : stages[i].live =>
      /\ builder = "Flow" => Places(i) = {stages[i].at + 1}
      /\ builder = "CreatedBranch" /\ CombinedOnce =>
           \E p \in Places(i) : p > stages[i].at

(* "It returns an error for an invalid topology: ... a ThenAllOf or           *)
(* ThenForEach without its Combine" (flow.go:20-21): what Define accepts has  *)
(* the step of every stage that was opened.                                   *)
NoStageForgotten ==
  phase = "defined" /\ builder = "Flow" =>
    \A i \in DOMAIN stages : stages[i].live => Places(i) # {}
=============================================================================
