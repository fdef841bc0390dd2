---------------------------- MODULE MCWorkerPool ----------------------------
(* The instance of WorkerPool for TLC; the slots are model values.  There  *)
(* is no symmetry set, because liveness is checked in the same run.        *)
EXTENDS WorkerPool, TLC
=============================================================================
