\* Two workers with room for one step, one task leased up to twice, one fault:
\* attempts that overlap, requests that come late, and where it all ends.
CONSTANTS
  Worker = {w1, w2}
  Task = {t1}
  Concurrency = 1
  MaxLease = 2
  MaxFaults = 1
  NoWorker = NoWorker
SPECIFICATION FairSpec
INVARIANT WorkerInv
PROPERTIES KeepsPromise StopTerminates TaskProgress
