----------------------------- MODULE TaskQueue -----------------------------
(***************************************************************************)
(* The task queue of kvdb (kvdb/tasks/queue.py, kvdb/tasks/static.py) and  *)
(* the part of kvdb/tasks/worker.py that drives it.                        *)
(*                                                                         *)
(* The state shared by every process is in the key-value server: the       *)
(* `queued' and `active' lists, the `incomplete' sorted set, one string    *)
(* per job, the abort keys, the `stuck' set and the two rate-limiting lock *)
(* keys.  A Lua script or a MULTI/EXEC pipeline is one atomic step; two    *)
(* commands awaited one after the other are two steps.                     *)
(*                                                                         *)
(* A list is modelled by how often it holds each job: LREM, RPUSH, LPUSH   *)
(* and LRANGE act on occurrences only.  Which occurrence BLMOVE takes is   *)
(* left open here (the order of service is not a matter of this module).   *)
(***************************************************************************)
EXTENDS Integers

CONSTANTS Jobs,          \* job ids (Job.key)
          NoJob,         \* None, where a job is expected
          Scheduled,     \* the jobs enqueued with Job.scheduled > 0
          Workers,       \* workers, each with one process_queue task
          Sweepers,      \* workers whose sweep poll is modelled
          Clients,       \* clients that call Job.abort
          Retries,       \* Job.retries
          RetryDelays,   \* values `next_retry_delay' may have as a Boolean
          ResultTtl,     \* Job.ttl: > 0 "expires", 0 "kept", < 0 "dropped"
          KeyReuse,      \* may a key be enqueued again after its job ended?
          StuckChecker,  \* is there a leader that runs check_stuck_jobs?
          HasCronjobs,   \* does some worker have a cron job?
          Faults,        \* the lost writes that may happen, see FaultKinds
          MaxCrashes,    \* bound on the crashes of workers
          MaxCopies      \* bound on the occurrences of a job in a list

FaultKinds == {"update_lost", "finish_lost", "launch"}

ASSUME ConstantsAssumption ==
    /\ NoJob \notin Jobs
    /\ Scheduled \subseteq Jobs
    /\ Sweepers \subseteq Workers
    /\ Retries \in Nat
    /\ RetryDelays \subseteq BOOLEAN /\ RetryDelays # {}
    /\ ResultTtl \in {"expires", "kept", "dropped"}
    /\ KeyReuse \in BOOLEAN /\ StuckChecker \in BOOLEAN
    /\ HasCronjobs \in BOOLEAN
    /\ Faults \subseteq FaultKinds
    /\ MaxCopies \in Nat \ {0} /\ MaxCrashes \in Nat

VARIABLES
    \* the server's keys
    queued, active,   \* [Jobs -> Nat]: occurrences in the two lists
    incomplete,       \* [Jobs -> Score]
    store,            \* [Jobs -> Record]: the serialized job under its id
    expiring,         \* the job keys that have a time to live
    late,             \* the stored ACTIVE jobs for which Job.stuck holds
    abortKey,         \* the jobs whose abort key exists
    stuck,            \* the `stuck' set
    locks,            \* the existing lock keys, of {"scheduled", "sweep"}
    enqueued,         \* the jobs that were enqueued at least once
    \* the processes
    pc, job, rec,     \* process_queue of each worker, its job and its copy
    sweepPc, sweepIds, sweepSnap,
    clientPc, clientJob,
    checker, checkPc, \* check_stuck_jobs: the job it looks at, and its step
    crashes           \* how often a worker crashed

redis   == <<queued, active, incomplete, store, expiring, late, abortKey,
             stuck, locks, enqueued>>
procs   == <<pc, job, rec>>
sweeps  == <<sweepPc, sweepIds, sweepSnap>>
clients == <<clientPc, clientJob>>
checking == <<checker, checkPc>>
rest    == <<sweeps, clients, checking, crashes>>
vars    == <<redis, procs, rest>>

-----------------------------------------------------------------------------
TERMINAL == {"COMPLETE", "FAILED", "ABORTED"}
JobStatus == {"QUEUED", "ACTIVE"} \cup TERMINAL

\* Scores of the sorted set: 0, a time still to come and a time that is past.
Score == {"none", "zero", "future", "due"}

\* Only attempts > retries is ever asked of attempts: larger values are alike.
MaxAttempts == Retries + 2

\* NoRecord stands for a key that does not exist.
NoRecord == [status |-> "none", attempts |-> 0]
Record == [status : JobStatus \cup {"none"}, attempts : 0 .. MaxAttempts]

WorkerPc == {"idle", "dequeued", "fetched", "started", "running", "raised",
             "aborting", "clearing"}

\* LREM key 1 j, RPUSH (or LPUSH) key j, ZREM incomplete j.
LRem1(list, j) == [list EXCEPT ![j] = IF @ > 0 THEN @ - 1 ELSE 0]
Push(list, j) == [list EXCEPT ![j] = @ + 1]

ZRem(j) == [incomplete EXCEPT ![j] = "none"]

\* Worker w is at work on job j: from the BLMOVE to the end of process_queue.
Holds(w, j) == pc[w] # "idle" /\ job[w] = j

Init ==
    /\ queued = [j \in Jobs |-> 0] /\ active = [j \in Jobs |-> 0]
    /\ incomplete = [j \in Jobs |-> "none"]
    /\ store = [j \in Jobs |-> NoRecord]
    /\ expiring = {} /\ late = {} /\ abortKey = {} /\ stuck = {}
    /\ locks = {} /\ enqueued = {}
    /\ pc = [w \in Workers |-> "idle"]
    /\ job = [w \in Workers |-> NoJob]
    /\ rec = [w \in Workers |-> NoRecord]
    /\ sweepPc = [s \in Sweepers |-> "idle"]
    /\ sweepIds = [s \in Sweepers |-> {}]
    /\ sweepSnap = [s \in Sweepers |-> [j \in Jobs |-> NoRecord]]
    /\ clientPc = [c \in Clients |-> "idle"]
    /\ clientJob = [c \in Clients |-> NoJob]
    /\ checker = NoJob /\ checkPc = "idle" /\ crashes = 0

-----------------------------------------------------------------------------
\* Job.complete and Job.reset: the attempts stay as they are.
Completed(status, attempts) == [status |-> status, attempts |-> attempts]
Reset(r) == [r EXCEPT !.status = "QUEUED"]

\* Mutant of Finish: the ZREM and the time to live are missing.
FinishKeepsScore(j, status, attempts) ==
    /\ active' = LRem1(active, j)
    /\ store' = [store EXCEPT ![j] = [status |-> status, attempts |-> attempts]]
    /\ late' = late \ {j}
    /\ UNCHANGED <<incomplete, expiring>>

(* TaskQueue.finish: one transaction that takes the job out of `active'    *)
(* (one occurrence) and of `incomplete' and stores the completed copy with *)
(* the time to live that Job.ttl asks for.                                 *)
Finish(j, status, attempts) ==
    /\ active' = LRem1(active, j)
    /\ incomplete' = ZRem(j)
    /\ store' = [store EXCEPT ![j] =
                    IF ResultTtl = "dropped" THEN NoRecord
                    ELSE Completed(status, attempts)]
    /\ expiring' = IF ResultTtl = "expires" THEN expiring \cup {j}
                                            ELSE expiring \ {j}
    /\ late' = late \ {j}

(* A plain SET of the job (update, retry, the enqueue script) also clears  *)
(* any time to live the key had.                                           *)
SetJob(j, r) ==
    /\ store' = [store EXCEPT ![j] = r]
    /\ expiring' = expiring \ {j}
    /\ late' = late \ {j}

\* ARGV[2] == '0' in the enqueue script.
RightAway(j) == j \notin Scheduled

(* Job.enqueue / TaskQueue.enqueue: the enqueue script.  A refused enqueue *)
(* changes nothing.                                                        *)
Enqueue(j) ==
    /\ KeyReuse \/ j \notin enqueued
    /\ incomplete[j] = "none"
    /\ j \notin abortKey
    /\ SetJob(j, [status |-> "QUEUED", attempts |-> 0])
    /\ incomplete' = [incomplete EXCEPT ![j] =
                        IF j \in Scheduled THEN "future" ELSE "zero"]
    /\ queued[j] < MaxCopies
    /\ queued' = IF RightAway(j) THEN Push(queued, j) ELSE queued
    /\ enqueued' = enqueued \cup {j}
    /\ UNCHANGED <<active, abortKey, stuck, locks, procs, rest>>

\* Mutant of IsDue: the script's range starts at 0.
IsDueFromZero(j) == incomplete[j] \in {"zero", "due"}

\* ZRANGEBYSCORE incomplete 1 now.
IsDue(j) == incomplete[j] = "due"

(* TaskQueue.schedule: the schedule script moves every job whose score is  *)
(* past to the queue.  TaskWorker.schedule calls it from the loop over its *)
(* cron jobs, and from nowhere else.                                       *)
Schedule ==
    LET jobs == {j \in Jobs : IsDue(j)}
    IN  /\ HasCronjobs
        /\ "scheduled" \notin locks
        /\ \A j \in jobs : queued[j] < MaxCopies
        /\ locks' = locks \cup {"scheduled"}
        /\ incomplete' = [j \in Jobs |->
                            IF j \in jobs THEN "zero" ELSE incomplete[j]]
        /\ queued' = [j \in Jobs |->
                            IF j \in jobs THEN queued[j] + 1 ELSE queued[j]]
        /\ UNCHANGED <<active, store, expiring, late, abortKey, stuck,
                       enqueued, procs, rest>>

-----------------------------------------------------------------------------
(* TaskWorker.process_queue, step by step.                                 *)

Goto(w, l) == pc' = [pc EXCEPT ![w] = l]
Leave(w) ==
    /\ Goto(w, "idle")
    /\ job' = [job EXCEPT ![w] = NoJob]
    /\ rec' = [rec EXCEPT ![w] = NoRecord]

\* BLMOVE queued active.
Dequeue(w, j) ==
    /\ pc[w] = "idle"
    /\ queued[j] > 0
    /\ active[j] < MaxCopies
    /\ queued' = [queued EXCEPT ![j] = @ - 1]
    /\ active' = Push(active, j)
    /\ Goto(w, "dequeued")
    /\ job' = [job EXCEPT ![w] = j]
    /\ UNCHANGED <<incomplete, store, expiring, late, abortKey, stuck, locks,
                   enqueued, rec, rest>>

\* get_job_by_id: if the key is gone the task ends with an exception that
\* has no job to handle, and the id stays in `active'.
Fetch(w) ==
    /\ pc[w] = "dequeued"
    /\ IF store[job[w]] = NoRecord
       THEN Leave(w)
       ELSE /\ rec' = [rec EXCEPT ![w] = store[job[w]]]
            /\ Goto(w, "fetched")
            /\ UNCHANGED job
    /\ UNCHANGED <<redis, rest>>

\* The copy that process_queue makes of a job it starts.
Started(r) ==
    [status |-> "ACTIVE",
     attempts |-> IF r.attempts < MaxAttempts THEN r.attempts + 1
                                              ELSE MaxAttempts]

\* job.update() swallows every exception: the write may not happen.
Start(w) ==
    /\ pc[w] = "fetched"
    /\ rec' = [rec EXCEPT ![w] = Started(rec[w])]
    /\ Goto(w, "started")
    /\ \/ SetJob(job[w], Started(rec[w]))
       \/ "update_lost" \in Faults /\ UNCHANGED <<store, expiring, late>>
    /\ UNCHANGED <<queued, active, incomplete, abortKey, stuck, locks,
                   enqueued, job, rest>>

\* before_process, the function's task is created and registered in
\* job_task_contexts.
Launch(w) ==
    /\ pc[w] = "started"
    /\ Goto(w, "running")
    /\ UNCHANGED <<redis, job, rec, rest>>

\* before_process or the lookup of the function raises while `function' is
\* still None.  Only an exhausted job is finished; the handler of any other
\* raises in its turn at function.should_retry_on_error.
LaunchFails(w) ==
    /\ "launch" \in Faults
    /\ pc[w] = "started"
    /\ IF rec[w].attempts > Retries
       THEN Finish(job[w], "FAILED", rec[w].attempts)
       ELSE UNCHANGED <<active, incomplete, store, expiring, late>>
    /\ Leave(w)
    /\ UNCHANGED <<queued, abortKey, stuck, locks, enqueued, rest>>

\* Mutant of CanRetry: an off-by-one in the comparison with retries.
CanRetryOnceMore(w) == rec[w].attempts <= Retries + 1

CanRetry(w) == rec[w].attempts <= Retries

\* The running function calls job.update(), its heartbeat; and so does the
\* handler of a JobError that is not to be retried, before it fails the job.
Heartbeat(w) ==
    /\ pc[w] = "running" \/ (pc[w] = "raised" /\ CanRetry(w))
    /\ SetJob(job[w], rec[w])
    /\ UNCHANGED <<queued, active, incomplete, abortKey, stuck, locks,
                   enqueued, procs, rest>>

\* The function returns and the job is finished.  When the reply to the
\* transaction is lost the except clause takes over although it was applied.
Complete(w) ==
    /\ pc[w] = "running"
    /\ Finish(job[w], "COMPLETE", rec[w].attempts)
    /\ \/ Leave(w)
       \/ "finish_lost" \in Faults /\ Goto(w, "raised") /\ UNCHANGED <<job, rec>>
    /\ UNCHANGED <<queued, abortKey, stuck, locks, enqueued, rest>>

\* The function raises, or asyncio.wait_for(task, job.timeout) expires.
Raise(w) ==
    /\ pc[w] = "running"
    /\ Goto(w, "raised")
    /\ UNCHANGED <<redis, job, rec, rest>>

\* attempts > retries, or an error that should_retry_on_error excludes.
Fail(w) ==
    /\ pc[w] = "raised"
    /\ Finish(job[w], "FAILED", rec[w].attempts)
    /\ Leave(w)
    /\ UNCHANGED <<queued, abortKey, stuck, locks, enqueued, rest>>

\* Mutant of RetryScore: the score is a future time, delay or not.
RetryScoreLater(j, delayed) == "future"

\* TaskQueue.retry.  Without a delay the score becomes Job.scheduled, which
\* for a job that was scheduled is a time that is past.
RetryScore(j, delayed) ==
    IF delayed THEN "future" ELSE IF j \in Scheduled THEN "due" ELSE "zero"

RetryQueued(j, delayed) ==
    IF delayed THEN LRem1(queued, j) ELSE Push(LRem1(queued, j), j)

Retry(w) ==
    LET j == job[w] IN
    /\ pc[w] = "raised"
    /\ CanRetry(w)
    /\ active' = LRem1(active, j)
    /\ \E delayed \in RetryDelays :
         /\ incomplete' = [incomplete EXCEPT ![j] = RetryScore(j, delayed)]
         /\ queued' = RetryQueued(j, delayed)
    /\ SetJob(j, Reset(rec[w]))
    /\ Leave(w)
    /\ UNCHANGED <<abortKey, stuck, locks, enqueued, rest>>

\* TaskWorker.abort, the abort poll: it sees only jobs in job_task_contexts
\* whose task is not done, those that run; it marks the job as aborted and
\* cancels and awaits the task, which is taken to end by that.  process_queue
\* sees the mark in its CancelledError branch and stores nothing, so all that
\* is written of the two is what the poll writes; the next job that the process
\* task takes in the meantime is one of another member of Workers.  Then it ...
AbortPoll(w) ==
    /\ pc[w] = "running"
    /\ job[w] \in abortKey
    /\ Goto(w, "aborting")
    /\ UNCHANGED <<redis, job, rec, rest>>

\* ... finishes the job ...
AbortFinish(w) ==
    /\ pc[w] = "aborting"
    /\ Finish(job[w], "ABORTED", rec[w].attempts)
    /\ Goto(w, "clearing")
    /\ UNCHANGED <<queued, abortKey, stuck, locks, enqueued, job, rec, rest>>

\* ... and deletes the abort key.
AbortClear(w) ==
    /\ pc[w] = "clearing"
    /\ abortKey' = abortKey \ {job[w]}
    /\ Leave(w)
    /\ UNCHANGED <<queued, active, incomplete, store, expiring, late, stuck,
                   locks, enqueued, rest>>

-----------------------------------------------------------------------------
(* TaskQueue.abort, called by a client on the Job that enqueue returned.   *)

\* Mutant of AbortNext: what LREM returned is ignored.
AbortAlwaysFinishes(j) == "finish"

\* What LREM queued 0 returned decides how an abort goes on.
AbortNext(j) == IF queued[j] > 0 THEN "finish" ELSE "unlist"

AbortJob(c, j) ==
    /\ clientPc[c] = "idle"
    /\ j \in enqueued
    /\ queued' = [queued EXCEPT ![j] = 0]
    /\ incomplete' = ZRem(j)
    /\ expiring' = IF store[j] = NoRecord THEN expiring ELSE expiring \cup {j}
    /\ abortKey' = abortKey \cup {j}
    /\ clientPc' = [clientPc EXCEPT ![c] = AbortNext(j)]
    /\ clientJob' = [clientJob EXCEPT ![c] = j]
    /\ UNCHANGED <<active, store, late, stuck, locks, enqueued, procs,
                   sweeps, checking, crashes>>

\* The job was still queued: the client finishes it itself ...
AbortedFinish(c) ==
    /\ clientPc[c] = "finish"
    /\ Finish(clientJob[c], "ABORTED", 0)
    /\ clientPc' = [clientPc EXCEPT ![c] = "clear"]
    /\ UNCHANGED <<queued, abortKey, stuck, locks, enqueued, procs, sweeps,
                   clientJob, checking, crashes>>

ClientDone(c) ==
    /\ clientPc' = [clientPc EXCEPT ![c] = "idle"]
    /\ clientJob' = [clientJob EXCEPT ![c] = NoJob]

\* ... and deletes the abort key.
AbortedClear(c) ==
    /\ clientPc[c] = "clear"
    /\ abortKey' = abortKey \ {clientJob[c]}
    /\ ClientDone(c)
    /\ UNCHANGED <<queued, active, incomplete, store, expiring, late, stuck,
                   locks, enqueued, procs, sweeps, checking, crashes>>

\* The job was not queued: LREM active 0, and the abort key is left for the
\* worker's poll to find.
AbortUnlist(c) ==
    /\ clientPc[c] = "unlist"
    /\ active' = [active EXCEPT ![clientJob[c]] = 0]
    /\ ClientDone(c)
    /\ UNCHANGED <<queued, incomplete, store, expiring, late, abortKey,
                   stuck, locks, enqueued, procs, sweeps, checking, crashes>>

-----------------------------------------------------------------------------
(* TaskQueue.sweep: the cleanup script lists `active', MGET reads the      *)
(* jobs, then each job is dealt with from the copy that was read.          *)

SweepList(s) ==
    /\ sweepPc[s] = "idle"
    /\ "sweep" \notin locks
    /\ locks' = locks \cup {"sweep"}
    /\ sweepIds' = [sweepIds EXCEPT ![s] = {j \in Jobs : active[j] > 0}]
    /\ sweepPc' = [sweepPc EXCEPT ![s] = "listed"]
    /\ UNCHANGED <<queued, active, incomplete, store, expiring, late,
                   abortKey, stuck, enqueued, procs, sweepSnap, clients,
                   checking, crashes>>

\* Mutant of Sweepable: only missing jobs are swept.
SweepableMissing(j) == store[j] = NoRecord

\* The jobs a sweep does not skip: missing, in a terminal status, or stuck.
Sweepable(j) ==
    \/ store[j] = NoRecord
    \/ store[j].status \in TERMINAL
    \/ j \in late

SweepRead(s) ==
    /\ sweepPc[s] = "listed"
    /\ sweepIds' = [sweepIds EXCEPT ![s] = {j \in sweepIds[s] : Sweepable(j)}]
    /\ sweepSnap' = [sweepSnap EXCEPT ![s] = store]
    /\ sweepPc' = [sweepPc EXCEPT ![s] = "sweeping"]
    /\ UNCHANGED <<redis, procs, clients, checking, crashes>>

\* Mutant of SweepJob: the sweep queues the job again.
SweepRequeues(s, j) ==
    /\ sweepPc[s] = "sweeping"
    /\ j \in sweepIds[s]
    /\ active' = LRem1(active, j)
    /\ queued' = Push(queued, j)
    /\ sweepIds' = [sweepIds EXCEPT ![s] = @ \ {j}]
    /\ UNCHANGED <<incomplete, store, expiring, late, abortKey, stuck, locks,
                   enqueued, procs, sweepPc, sweepSnap, clients, checking,
                   crashes>>

SweepJob(s, j) ==
    /\ sweepPc[s] = "sweeping"
    /\ j \in sweepIds[s]
    /\ IF sweepSnap[s][j] = NoRecord
       THEN /\ active' = [active EXCEPT ![j] = 0]
            /\ incomplete' = ZRem(j)
            /\ UNCHANGED <<store, expiring, late>>
       ELSE Finish(j, "ABORTED", sweepSnap[s][j].attempts)
    /\ sweepIds' = [sweepIds EXCEPT ![s] = @ \ {j}]
    /\ UNCHANGED <<queued, abortKey, stuck, locks, enqueued, procs, sweepPc,
                   sweepSnap, clients, checking, crashes>>

SweepStop(s) ==
    /\ sweepPc' = [sweepPc EXCEPT ![s] = "idle"]
    /\ sweepIds' = [sweepIds EXCEPT ![s] = {}]
    /\ sweepSnap' = [sweepSnap EXCEPT ![s] = [j \in Jobs |-> NoRecord]]

SweepEnd(s) ==
    /\ sweepPc[s] = "sweeping"
    /\ sweepIds[s] = {}
    /\ SweepStop(s)
    /\ UNCHANGED <<redis, procs, clients, checking, crashes>>

\* The process of a worker dies, its sweep with it, and is restarted.  (A
\* BLMOVE whose reply is lost leaves the same state as a crash after it.)
Crash(w) ==
    /\ crashes < MaxCrashes
    /\ crashes' = crashes + 1
    /\ pc[w] # "idle" \/ (w \in Sweepers /\ sweepPc[w] # "idle")
    /\ Leave(w)
    /\ IF w \in Sweepers THEN SweepStop(w) ELSE UNCHANGED sweeps
    /\ UNCHANGED <<redis, clients, checking>>

-----------------------------------------------------------------------------
(* TaskQueue.check_stuck_jobs, for one job id: a job that is not ACTIVE,   *)
(* not scheduled and has no time to live is put into `stuck' when it is    *)
(* met first and requeued when it is met again.  Every command is awaited. *)

\* TYPE and TTL.
CheckTtl(j) ==
    /\ StuckChecker
    /\ checkPc = "idle"
    /\ store[j] # NoRecord
    /\ j \notin expiring
    /\ checker' = j
    /\ checkPc' = "looking"
    /\ UNCHANGED <<redis, procs, sweeps, clients, crashes>>

CheckDone == checker' = NoJob /\ checkPc' = "idle"

LooksStuck(j) ==
    /\ store[j] # NoRecord
    /\ j \notin Scheduled
    /\ store[j].status # "ACTIVE"

\* GET and SADD: `stuck' has no other reader.
CheckStuck ==
    /\ checkPc = "looking"
    /\ IF LooksStuck(checker) /\ checker \in stuck
       THEN checkPc' = "requeue" /\ UNCHANGED checker
       ELSE CheckDone
    /\ stuck' = IF LooksStuck(checker) THEN stuck \cup {checker} ELSE stuck
    /\ UNCHANGED <<queued, active, incomplete, store, expiring, late,
                   abortKey, locks, enqueued, procs, sweeps, clients,
                   crashes>>

Requeue ==
    /\ checkPc = "requeue"
    /\ queued[checker] < MaxCopies
    /\ active' = LRem1(active, checker)
    /\ queued' = Push(queued, checker)
    /\ incomplete' = [incomplete EXCEPT ![checker] = "zero"]
    /\ checkPc' = "unmark"
    /\ UNCHANGED <<store, expiring, late, abortKey, stuck, locks, enqueued,
                   procs, sweeps, clients, checker, crashes>>

\* SREM.
Unmark ==
    /\ checkPc = "unmark"
    /\ stuck' = stuck \ {checker}
    /\ CheckDone
    /\ UNCHANGED <<queued, active, incomplete, store, expiring, late,
                   abortKey, locks, enqueued, procs, sweeps, clients,
                   crashes>>

\* The leader process dies in the middle of a check, and is restarted.
CheckerCrash ==
    /\ crashes < MaxCrashes
    /\ crashes' = crashes + 1
    /\ checkPc # "idle"
    /\ CheckDone
    /\ UNCHANGED <<redis, procs, sweeps, clients>>

-----------------------------------------------------------------------------
(* Time, as the server and the workers see it.                             *)

\* A score that lay ahead is now past.
BecomeDue(j) ==
    /\ incomplete[j] = "future"
    /\ incomplete' = [incomplete EXCEPT ![j] = "due"]
    /\ UNCHANGED <<queued, active, store, expiring, late, abortKey, stuck,
                   locks, enqueued, procs, rest>>

\* Job.stuck: the timeout counted from `started' is over (or the heartbeat
\* is overdue).  The worker's own wait_for starts counting later, so this
\* happens to a job whose worker is alive as well.
BecomeLate(j) ==
    /\ store[j].status = "ACTIVE"
    /\ j \notin late
    /\ late' = late \cup {j}
    /\ UNCHANGED <<queued, active, incomplete, store, expiring, abortKey,
                   stuck, locks, enqueued, procs, rest>>

JobExpires(j) ==
    /\ j \in expiring
    /\ store' = [store EXCEPT ![j] = NoRecord]
    /\ expiring' = expiring \ {j}
    /\ late' = late \ {j}
    /\ UNCHANGED <<queued, active, incomplete, abortKey, stuck, locks,
                   enqueued, procs, rest>>

AbortKeyExpires(j) ==
    /\ j \in abortKey
    /\ abortKey' = abortKey \ {j}
    /\ UNCHANGED <<queued, active, incomplete, store, expiring, late, stuck,
                   locks, enqueued, procs, rest>>

LockExpires(l) ==
    /\ l \in locks
    /\ locks' = locks \ {l}
    /\ UNCHANGED <<queued, active, incomplete, store, expiring, late,
                   abortKey, stuck, enqueued, procs, rest>>

-----------------------------------------------------------------------------
ProcessQueue(w) ==
    \/ \E j \in Jobs : Dequeue(w, j)
    \/ Fetch(w) \/ Start(w) \/ Launch(w)
    \/ Complete(w) \/ Raise(w) \/ Fail(w) \/ Retry(w)
    \/ AbortPoll(w) \/ AbortFinish(w) \/ AbortClear(w)

Sweep(s) ==
    SweepList(s) \/ SweepRead(s) \/ (\E j \in Jobs : SweepJob(s, j)) \/ SweepEnd(s)

Abort(c) == AbortedFinish(c) \/ AbortedClear(c) \/ AbortUnlist(c)

CheckStuckJobs ==
    (\E j \in Jobs : CheckTtl(j)) \/ CheckStuck \/ Requeue \/ Unmark

Time ==
    \/ \E j \in Jobs : \/ BecomeDue(j) \/ BecomeLate(j)
                       \/ JobExpires(j) \/ AbortKeyExpires(j)
    \/ \E l \in {"scheduled", "sweep"} : LockExpires(l)

Next ==
    \/ \E j \in Jobs : Enqueue(j)
    \/ Schedule
    \/ \E w \in Workers : \/ ProcessQueue(w) \/ Heartbeat(w)
                          \/ LaunchFails(w) \/ Crash(w)
    \/ \E c \in Clients : Abort(c) \/ \E j \in Jobs : AbortJob(c, j)
    \/ \E s \in Sweepers : Sweep(s)
    \/ CheckStuckJobs \/ CheckerCrash
    \/ Time

Spec == Init /\ [][Next]_vars

(* The event loop of a worker runs its tasks and its polls again and again  *)
(* (upkeep, process_task), asyncio.wait_for ends every function, and time    *)
(* passes.  Crashes, lost replies, heartbeats, new jobs and the expiry of    *)
(* job records owe nothing.                                                  *)
Fairness ==
    /\ \A w \in Workers : WF_vars(ProcessQueue(w))
    /\ \A c \in Clients : WF_vars(Abort(c))
    /\ \A s \in Sweepers : WF_vars(Sweep(s))
    /\ WF_vars(Schedule)
    /\ \A j \in Jobs : WF_vars(CheckTtl(j))
    /\ WF_vars(CheckStuck) /\ WF_vars(Requeue) /\ WF_vars(Unmark)
    /\ \A j \in Jobs : WF_vars(BecomeDue(j)) /\ WF_vars(BecomeLate(j))
    /\ \A l \in {"scheduled", "sweep"} : WF_vars(LockExpires(l))

FairSpec == Spec /\ Fairness

-----------------------------------------------------------------------------
(* Properties.                                                             *)

RedisTypeOK ==
    /\ queued \in [Jobs -> Nat] /\ active \in [Jobs -> Nat]
    /\ incomplete \in [Jobs -> Score]
    /\ store \in [Jobs -> Record]
    /\ expiring \subseteq Jobs /\ late \subseteq Jobs
    /\ abortKey \subseteq Jobs /\ stuck \subseteq Jobs
    /\ locks \subseteq {"scheduled", "sweep"} /\ enqueued \subseteq Jobs

WorkerTypeOK ==
    /\ pc \in [Workers -> WorkerPc]
    /\ job \in [Workers -> Jobs \cup {NoJob}]
    /\ rec \in [Workers -> Record]
    /\ \A w \in Workers : pc[w] # "idle" => job[w] \in Jobs

SweepTypeOK ==
    /\ sweepPc \in [Sweepers -> {"idle", "listed", "sweeping"}]
    /\ sweepIds \in [Sweepers -> SUBSET Jobs]
    /\ sweepSnap \in [Sweepers -> [Jobs -> Record]]

ClientTypeOK ==
    /\ clientPc \in [Clients -> {"idle", "finish", "clear", "unlist"}]
    /\ clientJob \in [Clients -> Jobs \cup {NoJob}]
    /\ \A c \in Clients : clientPc[c] # "idle" => clientJob[c] \in Jobs

\* Every variable keeps the shape that the commands of queue.py give it.
TypeOK ==
    /\ RedisTypeOK /\ WorkerTypeOK /\ SweepTypeOK /\ ClientTypeOK
    /\ checker \in Jobs \cup {NoJob}
    /\ checkPc \in {"idle", "looking", "requeue", "unmark"}
    /\ checkPc # "idle" => checker \in Jobs
    /\ crashes \in Nat

\* The configurations in which a job cannot be run twice at a time: every
\* job has a key of its own (the default), no stuck checker requeues waiting
\* jobs, and no scheduled job is retried without a delay.
Exclusive ==
    /\ ~KeyReuse
    /\ ~StuckChecker
    /\ Scheduled = {} \/ FALSE \notin RetryDelays

Delayed(j) == incomplete[j] \in {"future", "due"}
Held(j) == \E w \in Workers : Holds(w, j)

\* Job.key "can be passed in to avoid duplicate jobs": no two workers are at
\* work on the same job, and none is while a copy of it waits in the queue.
AtMostOneRun ==
    \A j \in Jobs :
        /\ \A v, w \in Workers : Holds(v, j) /\ Holds(w, j) => v = w
        /\ Held(j) => queued[j] = 0

\* A delay asked for (scheduled, retry_delay) is served: a job that waits for
\* its time is neither in the queue nor in the hands of a worker.
DelayIsServed ==
    \A j \in Jobs : Delayed(j) => queued[j] = 0 /\ ~Held(j)

\* Job.retries is "the maximum number of attempts to retry a job": no worker
\* starts a job for more than the first attempt and Retries others.
AttemptsBounded ==
    \A w \in Workers : rec[w].attempts <= Retries + 1

\* A job whose score is 0 is refused by the enqueue script and is not looked
\* at by the schedule script: it must be where a dequeue or a sweep finds it.
NoLostJob ==
    \A j \in Jobs : incomplete[j] = "zero" => queued[j] > 0 \/ active[j] > 0

\* Nothing is left of a job outside its record.
Gone(j) == j \in enqueued /\ queued[j] = 0 /\ ~Delayed(j) /\ ~Held(j)

\* An abort that took the job out of the queue has the last word: no worker
\* has it, and the client's finish(ABORTED) overwrites no worker's result.
AbortIsExclusive ==
    \A c \in Clients :
        clientPc[c] \in {"finish", "clear"} => Gone(clientJob[c])

\* A job that ended, was aborted or was given up does not come back by itself.
GoneForGood == [][\A j \in Jobs : Gone(j) => Gone(j)']_vars

\* Every accepted job is settled: it leaves `incomplete', completed, failed or
\* aborted, even when workers crash up to MaxCrashes times.
EveryJobSettles ==
    \A j \in Jobs : incomplete[j] # "none" ~> incomplete[j] = "none"

-----------------------------------------------------------------------------
(* The abstract specification: where the keys and the workers have a job.  *)

Phase(j) ==
    IF Held(j) THEN "running"
    ELSE IF queued[j] > 0 THEN "waiting"
    ELSE IF Delayed(j) THEN "delayed"
    ELSE IF j \in enqueued THEN "ended" ELSE "new"

Lifecycle == INSTANCE JobLifecycle WITH phase <- [j \in Jobs |-> Phase(j)]

\* The queue implements the life of a job: enqueue, schedule, dequeue, retry,
\* finish, abort and sweep move every job along JobLifecycle and no other way.
ImplementsLifecycle == Lifecycle!Spec
=============================================================================
