\* Every sequence of up to five calls on a Flow or a CreatedBranch.
CONSTANT
  MaxCalls = 5
SPECIFICATION Spec
INVARIANTS TypeOK PendingStage StagesKept
CHECK_DEADLOCK FALSE
