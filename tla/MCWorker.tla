------------------------------ MODULE MCWorker ------------------------------
(* Instances of Worker for TLC. *)
EXTENDS Worker

CONSTANTS q1, q2

(* Two tasks for one queue, a process and a broadcast task for one queue,  *)
(* and one task for each of two queues.                                    *)
MCSettings ==
  {[served |-> {q1}, concurrency |-> "shared" :> 2 @@ "own" :> 0],
   [served |-> {q1}, concurrency |-> "shared" :> 1 @@ "own" :> 1],
   [served |-> {q1, q2}, concurrency |-> "shared" :> 1 @@ "own" :> 0]}
=============================================================================
