------------------------------- MODULE Worker -------------------------------
(***************************************************************************)
(* The life of one TaskWorker (kvdb/tasks/worker.py): how it starts, keeps *)
(* its process and broadcast tasks going, is told to stop, reschedules the *)
(* jobs it is at and cancels its tasks, and what its event loop leaves     *)
(* behind.  What the queue does with a job is that of TaskQueue, reduced   *)
(* to where the job is: a list counts its occurrences.                     *)
(*                                                                         *)
(* A task runs alone until it awaits, so a step is what happens from one   *)
(* await to the next; a transaction awaited is a step of its own, and a    *)
(* cancellation takes effect at the await.  A result stands for COMPLETE   *)
(* and FAILED alike.                                                       *)
(***************************************************************************)
EXTENDS Integers, Sequences, SequencesExt, FiniteSets

CONSTANTS Queues,      \* queue names
          Jobs,
          None,
          Settings,    \* the settings of workers: see Setting
          MaxTasks,    \* bound on the tasks of the loop
          MaxStarts    \* bound on the starts of the worker's process

(* "shared" is the queue every worker serves, "own" the list of a worker   *)
(* that jobs with a worker_id or worker_name, the broadcasts, go to.       *)
Kinds == {"shared", "own"}
Lists == Queues \X Kinds

ASSUME JobsAssumption == None \notin Jobs
ASSUME BoundsAssumption == MaxTasks \in Nat /\ MaxStarts \in Nat \ {0}

(* The queues a worker serves, and its max_concurrency ("shared") and      *)
(* max_broadcast_concurrency ("own").                                      *)
Setting == [served : SUBSET Queues \ {{}}, concurrency : [Kinds -> Nat]]
(* The calls of process_task and broadcast_process_task at the start of a  *)
(* worker, each with the lists it makes a task for.                        *)
Slots(queues, limits) == UNION {{l} \X (1 .. limits[l[2]]) : l \in queues \X Kinds}

ASSUME SettingsAssumption ==
  /\ IsFiniteSet(Queues)
  /\ Settings \subseteq Setting
  /\ \A s \in Settings : Cardinality(Slots(s.served, s.concurrency)) <= MaxTasks

VARIABLES
    served, concurrency,  \* the worker's setting
    home,      \* the <<queue, kind>> each job is enqueued to
    mainTask,  \* whether start runs as main_task (async_run) or by itself
    phase,     \* where start is
    event,     \* the worker's event: it is to shut down
    polling,   \* the upkeep tasks are running
    task,      \* the process and broadcast tasks, a sequence of them
    resched,   \* where the _reschedule of each job is
    queued,    \* [Jobs -> Nat]: occurrences in the `queued' list
    active,    \* [Jobs -> Nat]: occurrences in `active'
    score,     \* [Jobs -> ...]: the score in `incomplete'
    enqueued,  \* the jobs that were enqueued
    finished,  \* the jobs whose result was published
    starts

loop  == <<phase, event, polling, task>>
redis == <<queued, active, score, enqueued, finished>>
config == <<served, concurrency, home, mainTask>>
vars  == <<config, loop, resched, redis, starts>>

Pcs == {"dequeue", "start", "run", "finish", "retry", "upkeep", "restoring", "done"}
Task == [list : Lists, pc : Pcs, job : Jobs \cup {None}, cancelled : BOOLEAN]

Init ==
  /\ \E s \in Settings : served = s.served /\ concurrency = s.concurrency
  /\ home \in [Jobs -> {l \in served \X Kinds : concurrency[l[2]] > 0}]
  /\ mainTask \in BOOLEAN
  /\ phase = "new" /\ event = FALSE /\ polling = FALSE /\ task = <<>>
  /\ resched = [j \in Jobs |-> "none"]
  /\ queued = [j \in Jobs |-> 0]
  /\ active = [j \in Jobs |-> 0]
  /\ score = [j \in Jobs |-> "none"]
  /\ enqueued = {} /\ finished = {}
  /\ starts = 1

-----------------------------------------------------------------------------

(* What the transactions and scripts of the queue do to a job.             *)
LRem1(list, j) == [list EXCEPT ![j] = IF @ > 0 THEN @ - 1 ELSE 0]
Push(list, j) == [list EXCEPT ![j] = @ + 1]

Enqueue(j) ==
  /\ j \notin enqueued
  /\ queued' = Push(queued, j)
  /\ score' = [score EXCEPT ![j] = "zero"]
  /\ enqueued' = enqueued \cup {j}
  /\ UNCHANGED <<config, loop, resched, active, finished, starts>>

Finish(j) ==
  /\ active' = LRem1(active, j)
  /\ score' = [score EXCEPT ![j] = "none"]
  /\ UNCHANGED <<queued, enqueued>>

\* Mutant of Retry: a delayed retry is not added to the sorted set.
RetryForgets(j) ==
  /\ active' = LRem1(active, j)
  /\ \/ score' = [score EXCEPT ![j] = "none"] /\ queued' = LRem1(queued, j)
     \/ score' = [score EXCEPT ![j] = "zero"] /\ queued' = Push(LRem1(queued, j), j)
  /\ UNCHANGED <<enqueued, finished>>

(* retry, right away or after a delay.                                     *)
Retry(j) ==
  /\ active' = LRem1(active, j)
  /\ \/ score' = [score EXCEPT ![j] = "later"] /\ queued' = LRem1(queued, j)
     \/ score' = [score EXCEPT ![j] = "zero"] /\ queued' = Push(LRem1(queued, j), j)
  /\ UNCHANGED <<enqueued, finished>>

\* Mutant of Due: the scores are not set to 0.
DueKeepsScore(kind) ==
  \E j \in Jobs :
    /\ score[j] = "later" /\ home[j][2] = kind
    /\ queued' = Push(queued, j)
    /\ UNCHANGED score
    /\ queued[j] < 2
    /\ UNCHANGED <<active, enqueued, finished>>

(* A job hands its operations to its queue.                                *)
JobFinish(j) == Finish(j)
JobRetry(j) == Retry(j)

(* The schedule script, for a job of the given kind whose time has come.   *)
Due(kind) ==
  \E j \in Jobs :
    /\ score[j] = "later" /\ home[j][2] = kind
    /\ queued' = Push(queued, j)
    /\ score' = [score EXCEPT ![j] = "zero"]
    /\ UNCHANGED <<active, enqueued, finished>>

-----------------------------------------------------------------------------
(* The tasks that process_task and broadcast_process_task make: one for    *)
(* each <<queue, kind>> and each call, in an order nothing depends on.     *)
TasksFor(slots) ==
  LET order == SetToSeq(slots)
  IN [i \in 1 .. Len(order) |->
        [list |-> order[i][1], pc |-> "dequeue", job |-> None, cancelled |-> FALSE]]
NewTasks(kind) == TasksFor({<<q, kind>> : q \in served} \X {1})

(* start up to its event.wait(): registration, heartbeat and the startup   *)
(* functions, then upkeep and, for each kind, as many calls as its         *)
(* concurrency says.                                                       *)
Start ==
  /\ phase = "new"
  /\ phase' = "running"
  /\ polling' = TRUE
  /\ task' = TasksFor(Slots(served, concurrency))
  /\ UNCHANGED <<config, event, resched, redis, starts>>

(* A startup function raises: start goes to its finally.                   *)
StartRaises ==
  /\ phase = "new"
  /\ phase' = "shutdown" /\ event' = TRUE
  /\ UNCHANGED <<config, polling, task, resched, redis, starts>>

(* A signal.                                                               *)
Signal ==
  /\ phase = "running" /\ ~event
  /\ event' = TRUE
  /\ UNCHANGED <<config, phase, polling, task, resched, redis, starts>>

(* The upkeep polling, of which only schedule leaves a trace in the state of *)
(* this module: a call of it, and the end of the polling, whose loop sees    *)
(* the event or whose sleep is cancelled.  A call that raises is logged.   *)
PollSchedule ==
  /\ polling
  /\ Due("shared")
  /\ UNCHANGED <<config, loop, resched, starts>>

PollEnds ==
  /\ polling /\ event
  /\ polling' = FALSE
  /\ UNCHANGED <<config, phase, event, task, resched, redis, starts>>

-----------------------------------------------------------------------------
(* process_queue.  The task's next step; a cancelled task takes none but   *)
(* the ones below.                                                         *)
At(t, pc) == t \in DOMAIN task /\ task[t].pc = pc /\ ~task[t].cancelled
Go(t, pc) == task' = [task EXCEPT ![t].pc = pc]
(* process_queue is over; a broadcast task goes on to its own upkeep.      *)
Leave(t) == Go(t, IF task[t].list[2] = "own" THEN "upkeep" ELSE "done")
Others == <<config, phase, event, polling, resched, starts>>

Dequeue(t) ==
  /\ At(t, "dequeue")
  /\ \E j \in Jobs :
       /\ home[j] = task[t].list /\ queued[j] > 0
       /\ queued' = LRem1(queued, j) /\ active' = Push(active, j)
       /\ task' = [task EXCEPT ![t].pc = "start", ![t].job = j]
  /\ UNCHANGED <<Others, score, enqueued, finished>>

DequeueTimeout(t) ==
  /\ At(t, "dequeue")
  /\ Leave(t)
  /\ UNCHANGED <<Others, redis>>

(* The job is read and stored as ACTIVE, before_process runs, and the      *)
(* function is started as a task of its own.                               *)
Launch(t) ==
  /\ At(t, "start")
  /\ Go(t, "run")
  /\ UNCHANGED <<Others, redis>>

(* The function returns or fails for good, or raises and is retried.       *)
Returns(t) ==
  /\ At(t, "run")
  /\ \E pc \in {"finish", "retry"} : Go(t, pc)
  /\ UNCHANGED <<Others, redis>>

Publish(t) ==
  /\ At(t, "finish")
  /\ JobFinish(task[t].job)
  /\ finished' = finished \cup {task[t].job}
  /\ Leave(t)
  /\ UNCHANGED Others

(* The retry of a job that raised, or that was cancelled.                  *)
Retries(t) ==
  /\ At(t, "retry")
  /\ JobRetry(task[t].job)
  /\ Leave(t)
  /\ UNCHANGED Others

(* A broadcast task schedules and sweeps the worker's own list; when the   *)
(* connection is lost it waits until a ping is answered.                   *)
OwnUpkeep(t) ==
  /\ At(t, "upkeep")
  /\ \/ Due("own") /\ UNCHANGED task
     \/ (\E pc \in {"done", "restoring"} : Go(t, pc)) /\ UNCHANGED redis
  /\ UNCHANGED Others

Restored(t) ==
  /\ At(t, "restoring")
  /\ Go(t, "done")
  /\ UNCHANGED <<Others, redis>>

\* Mutant of DoneCallback: only a task that had a job is replaced.
DoneCallbackOfJobs(t) ==
  /\ t \in DOMAIN task /\ task[t].pc = "done"
  /\ task' = SubSeq(task, 1, t - 1)
             \o (IF event \/ task[t].job = None THEN <<>> ELSE NewTasks(task[t].list[2]))
             \o SubSeq(task, t + 1, Len(task))
  /\ Len(task') <= MaxTasks
  /\ UNCHANGED <<Others, redis>>

\* Mutant of DoneCallback: the event is not looked at.
DoneCallbackAlways(t) ==
  /\ t \in DOMAIN task /\ task[t].pc = "done"
  /\ task' = SubSeq(task, 1, t - 1)
             \o NewTasks(task[t].list[2])
             \o SubSeq(task, t + 1, Len(task))
  /\ Len(task') <= MaxTasks
  /\ UNCHANGED <<Others, redis>>

(* The done callback: the task is replaced by one for every queue.         *)
DoneCallback(t) ==
  /\ t \in DOMAIN task /\ task[t].pc = "done"
  /\ task' = SubSeq(task, 1, t - 1)
             \o (IF event THEN <<>> ELSE NewTasks(task[t].list[2]))
             \o SubSeq(task, t + 1, Len(task))
  /\ Len(task') <= MaxTasks
  /\ UNCHANGED <<Others, redis>>

(* CancelledError reaches a task at its await.  While the function runs    *)
(* the job is retried, unless the function says otherwise.  Before that    *)
(* `function' is None and the handler itself raises: the job stays in      *)
(* `active'.  Inside a transaction the server may have had it or not.      *)
Cancelled(t) == t \in DOMAIN task /\ task[t].cancelled
End(t, pc) == task' = [task EXCEPT ![t].pc = pc, ![t].cancelled = FALSE]

CancelIdle(t) ==
  /\ Cancelled(t) /\ task[t].pc \in {"dequeue", "start", "upkeep", "restoring"}
  /\ End(t, IF task[t].pc = "dequeue" /\ task[t].list[2] = "own"
            THEN "upkeep" ELSE "done")
  /\ UNCHANGED <<Others, redis>>

CancelRun(t) ==
  /\ Cancelled(t) /\ task[t].pc = "run"
  /\ \/ End(t, "retry")
     \/ End(t, IF task[t].list[2] = "own" THEN "upkeep" ELSE "done")
  /\ UNCHANGED <<Others, redis>>

CancelTransaction(t) ==
  /\ Cancelled(t) /\ task[t].pc \in {"finish", "retry"}
  /\ End(t, IF task[t].pc = "finish" /\ task[t].list[2] = "own" THEN "upkeep" ELSE "done")
  /\ \/ UNCHANGED redis
     \/ task[t].pc = "retry" /\ JobRetry(task[t].job)
     \/ /\ task[t].pc = "finish"
        /\ JobFinish(task[t].job)
        /\ finished' = finished \cup {task[t].job}
  /\ UNCHANGED Others

(* The connections are closed under a retry.                               *)
RetryDisconnected(t) ==
  /\ At(t, "retry") /\ phase = "closed"
  /\ Leave(t)
  /\ UNCHANGED <<Others, redis>>

-----------------------------------------------------------------------------
(* The end of start.  reschedule_jobs starts a task of its own for each    *)
(* job in job_task_contexts and does not wait for it.                      *)
InContexts(j) == \E t \in DOMAIN task :
                    task[t].job = j /\ task[t].pc \in {"run", "finish", "retry"}

RescheduleJobs ==
  /\ phase = "running" /\ event
  /\ resched' = [j \in Jobs |-> IF InContexts(j) THEN "first" ELSE resched[j]]
  /\ phase' = "shutdown"
  /\ UNCHANGED <<config, event, polling, task, redis, starts>>

(* _reschedule: two transactions.                                          *)
RescheduleFinish(j) ==
  /\ resched[j] = "first" /\ phase # "gone"
  /\ Finish(j)
  /\ resched' = [resched EXCEPT ![j] = "second"]
  /\ UNCHANGED <<config, loop, finished, starts>>

RescheduleAdd(j) ==
  /\ resched[j] = "second" /\ phase # "gone"
  /\ active' = LRem1(active, j)
  /\ queued' = LRem1(queued, j)
  /\ score' = [score EXCEPT ![j] = "later"]
  /\ resched' = [resched EXCEPT ![j] = "done"]
  /\ UNCHANGED <<config, loop, enqueued, finished, starts>>

(* The shutdown functions, then stop, which cancels every task; when one   *)
(* of the functions raises, stop is not called.                            *)
Stop ==
  /\ phase = "shutdown"
  /\ phase' = "stop"
  /\ task' = [t \in DOMAIN task |->
                 [task[t] EXCEPT !.cancelled = task[t].pc # "done"]]
  /\ UNCHANGED <<config, event, polling, resched, redis, starts>>

ShutdownRaises ==
  /\ phase = "shutdown"
  /\ phase' = "ended"
  /\ UNCHANGED <<config, event, polling, task, resched, redis, starts>>

(* stop cancels main_task, which is the task that runs it, and is cut off  *)
(* at its next await; else it closes the connections and gathers.          *)
StopCutOff ==
  /\ phase = "stop" /\ mainTask
  /\ phase' = "ended"
  /\ UNCHANGED <<config, event, polling, task, resched, redis, starts>>

CloseConnections ==
  /\ phase = "stop" /\ ~mainTask
  /\ phase' = "closed"
  /\ UNCHANGED <<config, event, polling, task, resched, redis, starts>>

Gather ==
  /\ phase = "closed" /\ ~polling /\ \A t \in DOMAIN task : task[t].pc = "done"
  /\ phase' = "ended"
  /\ UNCHANGED <<config, event, polling, task, resched, redis, starts>>

(* The loop is over, with its tasks: start has returned, or the process    *)
(* was killed or left by exit_worker_loop.                                 *)
LoopEnds ==
  /\ phase \notin {"new", "gone"}
  /\ phase' = "gone" /\ task' = <<>> /\ polling' = FALSE
  /\ resched' = [j \in Jobs |-> CASE resched[j] = "first" -> "dropped"
                                   [] resched[j] = "second" -> "cut"
                                   [] OTHER -> resched[j]]
  /\ UNCHANGED <<config, event, redis, starts>>

Restart ==
  /\ phase = "gone" /\ starts < MaxStarts
  /\ phase' = "new" /\ event' = FALSE
  /\ starts' = starts + 1
  /\ UNCHANGED <<config, polling, task, resched, redis>>

-----------------------------------------------------------------------------
TaskStep(t) ==
  \/ Dequeue(t) \/ DequeueTimeout(t) \/ Launch(t) \/ Returns(t)
  \/ Publish(t) \/ Retries(t) \/ OwnUpkeep(t) \/ Restored(t)
  \/ DoneCallback(t) \/ CancelIdle(t) \/ CancelRun(t) \/ CancelTransaction(t)
  \/ RetryDisconnected(t)

MainStep ==
  \/ Start \/ StartRaises \/ RescheduleJobs \/ Stop \/ ShutdownRaises
  \/ StopCutOff \/ CloseConnections \/ Gather

Next ==
  \/ MainStep \/ Signal \/ PollSchedule \/ PollEnds \/ LoopEnds \/ Restart
  \/ \E t \in 1 .. MaxTasks : TaskStep(t)
  \/ \E j \in Jobs : Enqueue(j) \/ RescheduleFinish(j) \/ RescheduleAdd(j)

(* A loop that is alive goes on with what is ready.                        *)
Fairness ==
  /\ WF_vars(MainStep)
  /\ WF_vars(\E t \in 1 .. MaxTasks : TaskStep(t))
  /\ WF_vars(PollEnds)

Spec == Init /\ [][Next]_vars /\ Fairness

-----------------------------------------------------------------------------
(* The shape of the loop's tasks, and of the jobs in the server.           *)
TypeOK ==
  /\ [served |-> served, concurrency |-> concurrency] \in Setting
  /\ mainTask \in BOOLEAN
  /\ home \in [Jobs -> served \X Kinds]
  /\ phase \in {"new", "running", "shutdown", "stop", "closed", "ended", "gone"}
  /\ event \in BOOLEAN /\ polling \in BOOLEAN
  /\ task \in Seq(Task) /\ Len(task) <= MaxTasks
  /\ resched \in [Jobs -> {"none", "first", "second", "done", "cut", "dropped"}]
  /\ queued \in [Jobs -> Nat] /\ active \in [Jobs -> Nat]
  /\ score \in [Jobs -> {"none", "zero", "later"}]
  /\ enqueued \subseteq Jobs
  /\ finished \subseteq Jobs
  /\ starts \in 1 .. MaxStarts

(* A job without a result is in `queued', `active' or `incomplete',        *)
(* however the worker is stopped, cancelled or killed, but for one window: *)
(* between the two transactions of _reschedule it is nowhere, and lost if  *)
(* the loop ends there.  (The shape of the loop's tasks is part of it.)    *)
KeptUnlessCut ==
  /\ TypeOK
  /\ \A j \in Jobs :
       j \in enqueued \ finished =>
         \/ active[j] > 0 \/ queued[j] > 0 \/ score[j] # "none"
         \/ resched[j] \in {"second", "cut"}

(* Only a reschedule makes a worker do a job twice: two tasks are at the   *)
(* same job, or a job with a published result is to be run again, only     *)
(* after a shutdown rescheduled it while it was still being done.          *)
Working(t, j) == task[t].job = j /\ task[t].pc \in
                   {"start", "run", "finish", "retry"}
OnlyShutdownRepeats ==
  \A j \in Jobs :
    \/ \E t, u \in DOMAIN task : t # u /\ Working(t, j) /\ Working(u, j)
    \/ j \in finished /\ (score[j] # "none" \/ queued[j] > 0)
    => resched[j] # "none"

(* While a worker runs, every queue it serves has at least as many tasks   *)
(* of each kind as its concurrency says; with one queue it has exactly as  *)
(* many, so no more jobs are done at once (with several queues the done    *)
(* callbacks add tasks).                                                   *)
Serving(l) == {t \in DOMAIN task : task[t].list = l}
EveryQueueIsServed ==
  phase = "running" =>
    \A q \in served, k \in Kinds :
      LET n == Cardinality(Serving(<<q, k>>)) IN
        /\ ~event => n >= concurrency[k]
        /\ served = {q} => n <= concurrency[k]

(* A worker that got a signal ends: every task takes its cancellation, and *)
(* nothing starts another one.                                             *)
SignalEndsWorker == event ~> phase \in {"ended", "gone"}
=============================================================================
