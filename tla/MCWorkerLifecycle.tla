------------------------- MODULE MCWorkerLifecycle -------------------------
(* Instances of WorkerLifecycle for TLC: the goroutines are model values.  *)
EXTENDS WorkerLifecycle
=============================================================================
