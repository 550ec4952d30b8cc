\* A Start overlaps a Stop that still waits.
CONSTANTS
  Caller = {c1, c2}
  Concurrency = 1
  MaxStarts = 2
SPECIFICATION Spec
INVARIANT WithinConcurrency
