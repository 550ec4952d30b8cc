\* A lease of four seconds, heartbeats that take up to three quarters of a second,
\* of which one may fail.
CONSTANTS
  LeaseTime = 16
  Second = 4
  MaxDelay = 3
  MaxBreaks = 1
SPECIFICATION FairSpec
INVARIANTS TypeOK LeaseKept
PROPERTY HeartbeatEnds
CHECK_DEADLOCK FALSE
