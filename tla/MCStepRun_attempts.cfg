\* Two attempts that may overlap, each with two events and a branch of one step.
CONSTANTS
  MaxAttempt = 2
  MaxEmit = 2
  MaxCreate = 1
  MaxChain = 1
SPECIFICATION Spec
INVARIANTS TypeOK CommittedAsSaid BranchesWhole
PROPERTIES KeepsPromise
CHECK_DEADLOCK FALSE
