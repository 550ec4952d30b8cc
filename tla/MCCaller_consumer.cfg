\* Two shards; pauses of a tick, calls of up to one, a timeout of one; one failure.
CONSTANTS
  home = home
  other = other
  Shards <- TwoShards
  MaxLog <- FewEvents
  Home = home
  Timeout = 1
  Pause = 1
  MaxCall = 1
  MaxBatch = 2
  MaxFailures = 1
SPECIFICATION Spec
INVARIANTS AwaitTellsTheTruth NothingSkipped
PROPERTIES EventsHandled
CHECK_DEADLOCK FALSE
