\* One worker with room for two steps, three tasks, one fault.
CONSTANTS
  Worker = {w1}
  Task = {t1, t2, t3}
  Concurrency = 2
  MaxLease = 1
  MaxFaults = 1
  NoWorker = NoWorker
SPECIFICATION Spec
SYMMETRY MCSymmetry
INVARIANTS TypeOK WithinConcurrency SemaphoreCountsExecutions StopQuiesces
