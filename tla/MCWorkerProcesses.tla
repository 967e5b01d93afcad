-------------------------- MODULE MCWorkerProcesses --------------------------
(* Instances of WorkerProcesses for TLC. *)
EXTENDS WorkerProcesses, TLC

CONSTANTS p1, p2

MCDigit == p1 :> 0 @@ p2 :> 1
MCMaxWorkers == p1 :> 2 @@ p2 :> 1
=============================================================================
