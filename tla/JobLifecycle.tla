---------------------------- MODULE JobLifecycle ----------------------------
(***************************************************************************)
(* What the task queue promises about a job, as the caller of enqueue sees *)
(* it: an accepted job waits in the queue or for its time, is taken by one *)
(* worker at a time, may be given back for another attempt, and ends once. *)
(***************************************************************************)
CONSTANT Jobs
VARIABLE phase

Phases == {"new", "waiting", "delayed", "running", "ended"}

\* The phases that may follow a phase.  A delayed job has to pass through the
\* queue to be run, and nothing follows the end.
Follows(p) ==
    CASE p = "new"     -> {"waiting", "delayed"}
      [] p = "delayed" -> {"waiting", "ended"}
      [] p = "waiting" -> {"running", "ended"}
      [] p = "running" -> {"waiting", "delayed", "ended"}
      [] p = "ended"   -> {}

Init == phase = [j \in Jobs |-> "new"]

\* One step may move several jobs: the schedule script moves all that are due.
Next ==
    /\ phase' \in [Jobs -> Phases]
    /\ \A j \in Jobs : phase'[j] = phase[j] \/ phase'[j] \in Follows(phase[j])

Spec == Init /\ [][Next]_phase
=============================================================================
