---------------------------- MODULE MCWorkerPool ----------------------------
(* An instance of WorkerPool for TLC: j1 and j2 are workflow.run actions,   *)
(* j3 and j4 the steps they wait for.                                       *)
EXTENDS WorkerPool

CONSTANTS j1, j2, j3, j4

TwoParents == [j \in Jobs |-> IF j = j1 THEN j3 ELSE IF j = j2 THEN j4 ELSE None]
=============================================================================
