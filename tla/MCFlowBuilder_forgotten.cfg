\* Is every stage that was opened in what Define accepts?
CONSTANT
  MaxCalls = 4
SPECIFICATION Spec
INVARIANT NoStageForgotten
CHECK_DEADLOCK FALSE
