\* Three goroutines call Start and Stop as they like, in turn or not.
CONSTANTS
  Caller = {c1, c2, c3}
  Concurrency = 1
  MaxStarts = 2
SPECIFICATION FairSpec
INVARIANTS TypeOK WaitGroupCountsLoops StopOutlastsItsLoops TurnsWithinConcurrency
PROPERTIES NilCancelNeedsOverlap StopWaits StopTerminates
