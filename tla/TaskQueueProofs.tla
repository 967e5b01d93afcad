-------------------------- MODULE TaskQueueProofs --------------------------
(***************************************************************************)
(* Theorems about task queues, for every value of the constants.  First    *)
(* TaskQueue: where the jobs are in a queue.  Then Registry: which queues  *)
(* there are in a process, and how they are configured.                    *)
(***************************************************************************)
EXTENDS TaskQueue, Registry, SequenceTheorems, TLAPS

\* The absent record is a record, and so is what each write stores.
LEMMA RecordType ==
    /\ NoRecord \in Record
    /\ \A status \in JobStatus, attempts \in 0 .. MaxAttempts :
         [status |-> status, attempts |-> attempts] \in Record
    /\ \A r \in Record : r.attempts \in 0 .. MaxAttempts /\ Started(r) \in Record
    /\ 0 \in 0 .. MaxAttempts /\ MaxAttempts \in Nat
  BY ConstantsAssumption
  DEF NoRecord, Record, Started, MaxAttempts, JobStatus, TERMINAL

\* finish() keeps the server's keys well formed.
LEMMA FinishType ==
    ASSUME RedisTypeOK, NEW j \in Jobs, NEW status \in TERMINAL,
           NEW attempts \in 0 .. MaxAttempts, Finish(j, status, attempts),
           UNCHANGED <<queued, abortKey, stuck, locks, enqueued>>
    PROVE  RedisTypeOK'
  <1>1. active' \in [Jobs -> Nat]
    BY DEF RedisTypeOK, Finish, LRem1
  <1>2. incomplete' \in [Jobs -> Score]
    BY DEF RedisTypeOK, Finish, ZRem, Score
  <1>3. store' \in [Jobs -> Record]
    BY RecordType DEF RedisTypeOK, Finish, Completed, JobStatus
  <1>4. QED
    BY <1>1, <1>2, <1>3 DEF RedisTypeOK, Finish

\* A plain SET keeps the server's keys well formed.
LEMMA SetJobType ==
    ASSUME RedisTypeOK, NEW j \in Jobs, NEW r \in Record, SetJob(j, r)
    PROVE  /\ store' \in [Jobs -> Record]
           /\ expiring' \subseteq Jobs /\ late' \subseteq Jobs
  BY DEF RedisTypeOK, SetJob

\* A worker that leaves process_queue is idle and well formed.
LEMMA LeaveType ==
    ASSUME WorkerTypeOK, NEW w \in Workers, Leave(w)
    PROVE  WorkerTypeOK'
  BY RecordType DEF WorkerTypeOK, Leave, Goto, WorkerPc

\* A worker that moves to another step with the same job is well formed.
LEMMA GotoType ==
    ASSUME WorkerTypeOK, NEW w \in Workers, NEW l \in WorkerPc, pc[w] # "idle",
           Goto(w, l), UNCHANGED <<job, rec>>
    PROVE  WorkerTypeOK'
  BY DEF WorkerTypeOK, Goto

\* A sweep that stops is idle and well formed.
LEMMA SweepStopType ==
    ASSUME SweepTypeOK, NEW s \in Sweepers, SweepStop(s)
    PROVE  SweepTypeOK'
  <1>1. [j \in Jobs |-> NoRecord] \in [Jobs -> Record]
    BY RecordType
  <1>2. sweepSnap' \in [Sweepers -> [Jobs -> Record]]
    BY <1>1 DEF SweepTypeOK, SweepStop
  <1>3. sweepIds' \in [Sweepers -> SUBSET Jobs]
    BY DEF SweepTypeOK, SweepStop
  <1>4. QED
    BY <1>2, <1>3 DEF SweepTypeOK, SweepStop

\* Every variable keeps the shape that the commands of queue.py give it.
THEOREM TypeCorrect == Spec => []TypeOK
  <1>1. Init => TypeOK
    BY RecordType DEF Init, TypeOK, RedisTypeOK, WorkerTypeOK, SweepTypeOK,
       ClientTypeOK, Score, WorkerPc
  <1>2. TypeOK /\ [Next]_vars => TypeOK'
    <2> SUFFICES ASSUME TypeOK, [Next]_vars PROVE TypeOK'
      OBVIOUS
    <2> USE RecordType DEF TypeOK, checking
    <2>1. ASSUME NEW j \in Jobs, Enqueue(j) PROVE TypeOK'
      <3>1. [status |-> "QUEUED", attempts |-> 0] \in Record
        BY DEF JobStatus
      <3>2. RedisTypeOK'
        BY <2>1, <3>1, SetJobType DEF Enqueue, RedisTypeOK, Push, Score
      <3>3. QED
        BY <2>1, <3>2 DEF Enqueue, procs, rest, sweeps, clients, WorkerTypeOK,
           SweepTypeOK, ClientTypeOK
    <2>2. CASE Schedule
      <3>1. RedisTypeOK'
        BY <2>2 DEF Schedule, IsDue, RedisTypeOK, Score
      <3>2. QED
        BY <2>2, <3>1 DEF Schedule, procs, rest, sweeps, clients, WorkerTypeOK,
           SweepTypeOK, ClientTypeOK
    <2>3. ASSUME NEW w \in Workers, NEW j \in Jobs, Dequeue(w, j) PROVE TypeOK'
      <3>1. RedisTypeOK'
        BY <2>3 DEF Dequeue, RedisTypeOK, Push
      <3>2. WorkerTypeOK'
        BY <2>3 DEF Dequeue, WorkerTypeOK, Goto, WorkerPc
      <3>3. QED
        BY <2>3, <3>1, <3>2 DEF Dequeue, rest, sweeps, clients, SweepTypeOK,
           ClientTypeOK
    <2>4. ASSUME NEW w \in Workers, Fetch(w) PROVE TypeOK'
      <3>1. job[w] \in Jobs
        BY <2>4 DEF Fetch, WorkerTypeOK
      <3>2. WorkerTypeOK'
        <4>1. CASE store[job[w]] = NoRecord
          BY <2>4, <4>1, LeaveType DEF Fetch
        <4>2. CASE store[job[w]] # NoRecord
          BY <2>4, <3>1, <4>2 DEF Fetch, WorkerTypeOK, RedisTypeOK, Goto,
             WorkerPc
        <4>3. QED
          BY <4>1, <4>2
      <3>3. QED
        BY <2>4, <3>2 DEF Fetch, redis, rest, sweeps, clients, RedisTypeOK,
           SweepTypeOK, ClientTypeOK
    <2>5. ASSUME NEW w \in Workers, Start(w) PROVE TypeOK'
      <3>1. job[w] \in Jobs /\ Started(rec[w]) \in Record
        BY <2>5 DEF Start, WorkerTypeOK
      <3>2. WorkerTypeOK'
        BY <2>5, <3>1 DEF Start, WorkerTypeOK, Goto, WorkerPc
      <3>3. RedisTypeOK'
        BY <2>5, <3>1, SetJobType DEF Start, RedisTypeOK
      <3>4. QED
        BY <2>5, <3>2, <3>3 DEF Start, rest, sweeps, clients, SweepTypeOK,
           ClientTypeOK
    <2>6. ASSUME NEW w \in Workers, Launch(w) \/ Raise(w) \/ AbortPoll(w)
          PROVE  TypeOK'
      <3>1. WorkerTypeOK'
        BY <2>6, GotoType DEF Launch, Raise, AbortPoll, WorkerPc
      <3>2. QED
        BY <2>6, <3>1 DEF Launch, Raise, AbortPoll, redis, rest, sweeps,
           clients, RedisTypeOK, SweepTypeOK, ClientTypeOK
    <2>7. ASSUME NEW w \in Workers,
                 LaunchFails(w) \/ Complete(w) \/ Fail(w) \/ AbortFinish(w)
          PROVE  TypeOK'
      <3>1. rec[w].attempts \in 0 .. MaxAttempts /\ job[w] \in Jobs
        BY <2>7 DEF WorkerTypeOK, LaunchFails, Complete, Fail, AbortFinish
      <3>2. RedisTypeOK'
        <4>1. CASE UNCHANGED redis
          BY <4>1 DEF RedisTypeOK, redis
        <4>2. CASE ~UNCHANGED redis
          BY <2>7, <3>1, <4>2, FinishType
          DEF LaunchFails, Complete, Fail, AbortFinish, TERMINAL, redis
        <4>3. QED
          BY <4>1, <4>2
      <3>3. WorkerTypeOK'
        BY <2>7, LeaveType, GotoType
        DEF LaunchFails, Complete, Fail, AbortFinish, WorkerPc
      <3>4. QED
        BY <2>7, <3>2, <3>3 DEF LaunchFails, Complete, Fail, AbortFinish, rest,
           sweeps, clients, SweepTypeOK, ClientTypeOK
    <2>8. ASSUME NEW w \in Workers, Heartbeat(w) PROVE TypeOK'
      <3>1. RedisTypeOK'
        BY <2>8, SetJobType DEF Heartbeat, RedisTypeOK, WorkerTypeOK
      <3>2. QED
        BY <2>8, <3>1 DEF Heartbeat, procs, rest, sweeps, clients, WorkerTypeOK,
           SweepTypeOK, ClientTypeOK
    <2>9. ASSUME NEW w \in Workers, Retry(w) PROVE TypeOK'
      <3>1. /\ job[w] \in Jobs
            /\ Reset(rec[w]) \in Record
        BY <2>9 DEF WorkerTypeOK, JobStatus, Retry, Reset, Record
      <3>2. RedisTypeOK'
        BY <2>9, <3>1, SetJobType DEF RedisTypeOK, Retry, RetryScore,
           RetryQueued, LRem1, Push, Score
      <3>3. WorkerTypeOK'
        BY <2>9, LeaveType DEF Retry
      <3>4. QED
        BY <2>9, <3>2, <3>3 DEF Retry, rest, sweeps, clients, SweepTypeOK,
           ClientTypeOK
    <2>10. ASSUME NEW w \in Workers, AbortClear(w) PROVE TypeOK'
      <3>1. WorkerTypeOK'
        BY <2>10, LeaveType DEF AbortClear
      <3>2. QED
        BY <2>10, <3>1 DEF AbortClear, rest, sweeps, clients, RedisTypeOK,
           SweepTypeOK, ClientTypeOK
    <2>11. ASSUME NEW c \in Clients, NEW j \in Jobs, AbortJob(c, j) PROVE TypeOK'
      <3>1. RedisTypeOK'
        BY <2>11 DEF AbortJob, ZRem, RedisTypeOK, Score
      <3>2. ClientTypeOK'
        BY <2>11 DEF AbortJob, AbortNext, ClientTypeOK
      <3>3. QED
        BY <2>11, <3>1, <3>2 DEF AbortJob, procs, sweeps, WorkerTypeOK,
           SweepTypeOK
    <2>12. ASSUME NEW c \in Clients,
                  AbortedFinish(c) \/ AbortedClear(c) \/ AbortUnlist(c)
           PROVE  TypeOK'
      <3>1. clientJob[c] \in Jobs
        BY <2>12 DEF ClientTypeOK, AbortedFinish, AbortedClear, AbortUnlist
      <3>2. RedisTypeOK'
        <4>1. CASE AbortedFinish(c)
          BY <3>1, <4>1, FinishType DEF AbortedFinish, TERMINAL
        <4>2. CASE AbortedClear(c)
          BY <4>2 DEF AbortedClear, RedisTypeOK
        <4>3. CASE AbortUnlist(c)
          BY <3>1, <4>3 DEF AbortUnlist, RedisTypeOK
        <4>4. QED
          BY <2>12, <4>1, <4>2, <4>3
      <3>3. ClientTypeOK'
        BY <2>12, <3>1 DEF AbortedFinish, AbortedClear, AbortUnlist, ClientDone,
           ClientTypeOK
      <3>4. QED
        BY <2>12, <3>2, <3>3 DEF AbortedFinish, AbortedClear, AbortUnlist, procs,
           sweeps, WorkerTypeOK, SweepTypeOK
    <2>13. ASSUME NEW s \in Sweepers, SweepList(s) \/ SweepRead(s) \/ SweepEnd(s)
           PROVE  TypeOK'
      <3>1. SweepTypeOK'
        <4>1. CASE SweepList(s)
          <5>1. {j \in Jobs : active[j] > 0} \in SUBSET Jobs
            OBVIOUS
          <5>2. QED
            BY <4>1, <5>1 DEF SweepList, SweepTypeOK
        <4>2. CASE SweepRead(s)
          <5>1. {j \in sweepIds[s] : Sweepable(j)} \in SUBSET Jobs
            BY DEF SweepTypeOK
          <5>2. QED
            BY <4>2, <5>1 DEF SweepRead, SweepTypeOK, RedisTypeOK
        <4>3. CASE SweepEnd(s)
          BY <4>3, SweepStopType DEF SweepEnd
        <4>4. QED
          BY <2>13, <4>1, <4>2, <4>3
      <3>2. RedisTypeOK'
        BY <2>13 DEF SweepList, SweepRead, SweepEnd, RedisTypeOK, redis
      <3>3. QED
        BY <2>13, <3>1, <3>2 DEF SweepList, SweepRead, SweepEnd, procs, clients,
           WorkerTypeOK, ClientTypeOK
    <2>14. ASSUME NEW s \in Sweepers, NEW j \in Jobs, SweepJob(s, j)
           PROVE  TypeOK'
      <3>1. sweepSnap[s][j].attempts \in 0 .. MaxAttempts
        BY DEF SweepTypeOK
      <3>2. RedisTypeOK'
        <4>1. CASE sweepSnap[s][j] = NoRecord
          BY <2>14, <4>1 DEF SweepJob, ZRem, RedisTypeOK, Score
        <4>2. CASE sweepSnap[s][j] # NoRecord
          BY <2>14, <3>1, <4>2, FinishType DEF SweepJob, TERMINAL
        <4>3. QED
          BY <4>1, <4>2
      <3>3. SweepTypeOK'
        BY <2>14 DEF SweepJob, SweepTypeOK
      <3>4. QED
        BY <2>14, <3>2, <3>3 DEF SweepJob, procs, clients, WorkerTypeOK,
           ClientTypeOK
    <2>15. ASSUME NEW w \in Workers, Crash(w) PROVE TypeOK'
      <3>1. WorkerTypeOK'
        BY <2>15, LeaveType DEF Crash
      <3>2. SweepTypeOK'
        <4>1. CASE w \in Sweepers
          BY <2>15, <4>1, SweepStopType DEF Crash
        <4>2. CASE w \notin Sweepers
          BY <2>15, <4>2 DEF Crash, sweeps, SweepTypeOK
        <4>3. QED
          BY <4>1, <4>2
      <3>3. QED
        BY <2>15, <3>1, <3>2 DEF Crash, redis, clients, RedisTypeOK,
           ClientTypeOK
    <2>16. CASE CheckStuckJobs \/ CheckerCrash
      <3>1. RedisTypeOK'
        <4>1. CASE CheckStuck \/ Unmark
          BY <4>1 DEF CheckStuck, Unmark, RedisTypeOK
        <4>2. CASE Requeue
          BY <4>2 DEF Requeue, LRem1, Push, Score, RedisTypeOK
        <4>3. CASE (\E j \in Jobs : CheckTtl(j)) \/ CheckerCrash
          BY <4>3 DEF CheckTtl, CheckerCrash, redis, RedisTypeOK
        <4>4. QED
          BY <2>16, <4>1, <4>2, <4>3 DEF CheckStuckJobs
      <3>2. QED
        BY <2>16, <3>1 DEF CheckStuckJobs, CheckTtl, CheckStuck, Requeue, Unmark,
           CheckDone, CheckerCrash, procs, sweeps, clients, WorkerTypeOK,
           SweepTypeOK, ClientTypeOK
    <2>17. CASE Time
      <3>1. RedisTypeOK'
        <4>1. ASSUME NEW j \in Jobs, BecomeDue(j) PROVE RedisTypeOK'
          BY <4>1 DEF BecomeDue, Score, RedisTypeOK
        <4>2. ASSUME NEW j \in Jobs, BecomeLate(j) PROVE RedisTypeOK'
          BY <4>2 DEF BecomeLate, RedisTypeOK
        <4>3. ASSUME NEW j \in Jobs, JobExpires(j) PROVE RedisTypeOK'
          BY <4>3 DEF JobExpires, RedisTypeOK
        <4>4. ASSUME NEW j \in Jobs, AbortKeyExpires(j) PROVE RedisTypeOK'
          BY <4>4 DEF AbortKeyExpires, RedisTypeOK
        <4>5. ASSUME NEW l \in {"scheduled", "sweep"}, LockExpires(l)
              PROVE  RedisTypeOK'
          BY <4>5 DEF LockExpires, RedisTypeOK
        <4>6. QED
          BY <2>17, <4>1, <4>2, <4>3, <4>4, <4>5 DEF Time
      <3>2. QED
        BY <2>17, <3>1 DEF Time, BecomeDue, BecomeLate, JobExpires,
           AbortKeyExpires, LockExpires, procs, rest, sweeps, clients,
           WorkerTypeOK, SweepTypeOK, ClientTypeOK
    <2>18. CASE UNCHANGED vars
      BY <2>18 DEF vars, redis, procs, rest, sweeps, clients, RedisTypeOK,
         WorkerTypeOK, SweepTypeOK, ClientTypeOK
    <2>19. QED
      BY <2>1, <2>2, <2>3, <2>4, <2>5, <2>6, <2>7, <2>8, <2>9, <2>10, <2>11,
         <2>12, <2>13, <2>14, <2>15, <2>16, <2>17, <2>18
      DEF Next, ProcessQueue, Sweep, Abort
  <1>3. QED
    BY <1>1, <1>2, PTL DEF Spec
-----------------------------------------------------------------------------
(***************************************************************************)
(* Exclusion.  A job is at one place at a time: waiting in the queue,      *)
(* waiting for its time in the sorted set, or in the hands of one worker.  *)
(* The lists and the sorted set alone do not say so: finish() and sweep()  *)
(* take a job out of `active' and `incomplete' whoever holds it, so the    *)
(* induction follows the place and not those two keys.                     *)
(***************************************************************************)
OnePlace(j) ==
    /\ queued[j] <= 1
    /\ Delayed(j) => queued[j] = 0
    /\ \A w \in Workers : Holds(w, j) => queued[j] = 0 /\ ~Delayed(j)
    /\ \A v, w \in Workers : Holds(v, j) /\ Holds(w, j) => v = w
    /\ j \notin enqueued =>
         queued[j] = 0 /\ ~Delayed(j) /\ \A w \in Workers : ~Holds(w, j)

ExclusiveInv ==
    /\ \A j \in Jobs : OnePlace(j)
    /\ AbortIsExclusive
    /\ checkPc = "idle"

\* What every step does but Enqueue, Schedule, Dequeue and Retry: no job gets
\* to a place where it was not.
NoNewPlace ==
    /\ \A j \in Jobs : /\ queued[j]' <= queued[j]
                       /\ Delayed(j)' => Delayed(j)
                       /\ \A w \in Workers : Holds(w, j)' => Holds(w, j)
    /\ enqueued' = enqueued

\* Only four operations move a job to a new place.
LEMMA MostStepsMakeNoNewPlace ==
    ASSUME TypeOK, [Next]_vars,
           \A j \in Jobs : ~Enqueue(j),
           ~Schedule, ~Requeue,
           \A w \in Workers : ~Retry(w) /\ \A j \in Jobs : ~Dequeue(w, j)
    PROVE  NoNewPlace
  <1> USE DEF NoNewPlace, Delayed, Holds
  <1>0. \A j \in Jobs : queued[j] \in Nat
    BY DEF TypeOK, RedisTypeOK
  <1>1. ASSUME NEW w \in Workers,
               Fetch(w) \/ Start(w) \/ Launch(w) \/ Raise(w) \/ AbortPoll(w)
                 \/ Heartbeat(w)
        PROVE  NoNewPlace
    BY <1>0, <1>1 DEF TypeOK, WorkerTypeOK, Fetch, Start, Launch, Raise,
       AbortPoll, Heartbeat, Leave, Goto, redis, procs
  <1>2. ASSUME NEW w \in Workers,
               LaunchFails(w) \/ Complete(w) \/ Fail(w) \/ AbortFinish(w)
        PROVE  NoNewPlace
    BY <1>0, <1>2 DEF TypeOK, WorkerTypeOK, RedisTypeOK, LaunchFails, Complete,
       Fail, AbortFinish, Finish, ZRem, Leave, Goto
  <1>3. ASSUME NEW w \in Workers, AbortClear(w) \/ Crash(w) PROVE NoNewPlace
    BY <1>0, <1>3 DEF TypeOK, WorkerTypeOK, AbortClear, Crash, Leave, Goto, redis
  <1>4. ASSUME NEW c \in Clients, NEW j \in Jobs, AbortJob(c, j) PROVE NoNewPlace
    BY <1>0, <1>4 DEF TypeOK, RedisTypeOK, AbortJob, ZRem, procs
  <1>5. ASSUME NEW c \in Clients,
               AbortedFinish(c) \/ AbortedClear(c) \/ AbortUnlist(c)
        PROVE  NoNewPlace
    BY <1>0, <1>5 DEF TypeOK, RedisTypeOK, ClientTypeOK, AbortedFinish,
       AbortedClear, AbortUnlist, Finish, ZRem, procs
  <1>6. ASSUME NEW s \in Sweepers, SweepList(s) \/ SweepRead(s) \/ SweepEnd(s)
        PROVE  NoNewPlace
    BY <1>0, <1>6 DEF SweepList, SweepRead, SweepEnd, redis, procs
  <1>7. ASSUME NEW s \in Sweepers, NEW j \in Jobs, SweepJob(s, j)
        PROVE  NoNewPlace
    BY <1>0, <1>7 DEF TypeOK, RedisTypeOK, SweepJob, Finish, ZRem, procs
  <1>8. CASE \/ \E j \in Jobs : CheckTtl(j)
             \/ CheckStuck \/ Unmark \/ CheckerCrash
    BY <1>0, <1>8 DEF CheckTtl, CheckStuck, Unmark, CheckerCrash, redis, procs
  <1>9. CASE Time
    BY <1>0, <1>9 DEF TypeOK, RedisTypeOK, Time, BecomeDue, BecomeLate,
       JobExpires, AbortKeyExpires, LockExpires, procs
  <1>10. CASE UNCHANGED vars
    BY <1>0, <1>10 DEF vars, redis, procs
  <1>11. QED
    BY <1>1, <1>2, <1>3, <1>4, <1>5, <1>6, <1>7, <1>8, <1>9, <1>10
    DEF Next, ProcessQueue, Sweep, Abort, CheckStuckJobs

\* Such a step keeps a job at one place, and a job that is gone stays gone.
LEMMA NoNewPlaceKeeps ==
    ASSUME TypeOK, TypeOK', NoNewPlace, NEW j \in Jobs
    PROVE  /\ OnePlace(j) => OnePlace(j)'
           /\ Gone(j) => Gone(j)'
  <1>1. queued[j] \in Nat /\ queued[j]' \in Nat
    BY DEF TypeOK, RedisTypeOK
  <1>2. OnePlace(j) => OnePlace(j)'
    BY <1>1 DEF NoNewPlace, OnePlace
  <1>3. Gone(j) => Gone(j)'
    BY <1>1 DEF NoNewPlace, Gone, Held
  <1>4. QED
    BY <1>2, <1>3

\* The four operations that move a job take it from one place to one other,
\* and none of them takes a job that is gone.
LEMMA MovesKeepOnePlace ==
    ASSUME Exclusive, TypeOK, \A k \in Jobs : OnePlace(k), NEW j \in Jobs,
           \/ \E k \in Jobs : Enqueue(k)
           \/ Schedule
           \/ \E w \in Workers : Retry(w) \/ \E k \in Jobs : Dequeue(w, k)
    PROVE  OnePlace(j)' /\ (Gone(j) => Gone(j)')
  <1> USE DEF OnePlace, Gone, Held, Delayed, Holds
  <1>0. \A k \in Jobs : queued[k] \in Nat
    BY DEF TypeOK, RedisTypeOK
  <1>1. ASSUME NEW k \in Jobs, Enqueue(k)
        PROVE  OnePlace(j)' /\ (Gone(j) => Gone(j)')
    BY <1>0, <1>1 DEF TypeOK, RedisTypeOK, Exclusive, Enqueue, RightAway, Push,
       procs
  <1>2. ASSUME Schedule PROVE OnePlace(j)' /\ (Gone(j) => Gone(j)')
    BY <1>0, <1>2 DEF TypeOK, RedisTypeOK, Schedule, IsDue, procs
  <1>3. ASSUME NEW w \in Workers, NEW k \in Jobs, Dequeue(w, k)
        PROVE  OnePlace(j)' /\ (Gone(j) => Gone(j)')
    BY <1>0, <1>3 DEF TypeOK, RedisTypeOK, WorkerTypeOK, Dequeue, Goto
  <1>4. ASSUME NEW w \in Workers, Retry(w)
        PROVE  OnePlace(j)' /\ (Gone(j) => Gone(j)')
    <2>1. job[w] \in Jobs /\ Holds(w, job[w])
      BY <1>4 DEF TypeOK, WorkerTypeOK, Retry
    <2>2. CASE j = job[w]
      <3>1. queued[j] = 0 /\ j \in enqueued
        BY <2>1, <2>2
      <3>2. \A v \in Workers : ~Holds(v, j)'
        BY <1>4, <2>1, <2>2, ConstantsAssumption DEF Retry, Leave, Goto, TypeOK,
           WorkerTypeOK
      <3>3. \/ queued[j]' = 0
            \/ queued[j]' = 1 /\ ~Delayed(j)'
        BY <1>4, <2>2, <3>1 DEF Retry, RetryScore, RetryQueued, LRem1, Push,
           Exclusive, TypeOK, RedisTypeOK
      <3>4. QED
        BY <1>4, <2>1, <2>2, <3>1, <3>2, <3>3 DEF Retry
    <2>3. CASE j # job[w]
      <3>1. queued'[j] = queued[j] /\ incomplete'[j] = incomplete[j]
        BY <1>4, <2>1, <2>3 DEF Retry, RetryQueued, LRem1, Push, TypeOK,
           RedisTypeOK
      <3>2. \A v \in Workers : Holds(v, j)' => Holds(v, j)
        BY <1>4, <2>3 DEF Retry, Leave, Goto, TypeOK, WorkerTypeOK
      <3>3. QED
        BY <1>0, <1>4, <3>1, <3>2 DEF Retry
    <2>4. QED
      BY <2>2, <2>3
  <1>5. QED
    BY <1>1, <1>2, <1>3, <1>4

\* The induction step of the exclusion invariant.
LEMMA ExclusiveStep ==
    ASSUME Exclusive, TypeOK, TypeOK', ExclusiveInv, [Next]_vars
    PROVE  ExclusiveInv' /\ (\A j \in Jobs : Gone(j) => Gone(j)')
  <1>1. ~Requeue
    BY DEF ExclusiveInv, Requeue
  <1>2. \A j \in Jobs : OnePlace(j)' /\ (Gone(j) => Gone(j)')
    <2>1. CASE \/ \E k \in Jobs : Enqueue(k)
               \/ Schedule
               \/ \E w \in Workers : Retry(w) \/ \E k \in Jobs : Dequeue(w, k)
      BY <2>1, MovesKeepOnePlace DEF ExclusiveInv
    <2>2. CASE ~(\/ \E k \in Jobs : Enqueue(k)
                 \/ Schedule
                 \/ \E w \in Workers : Retry(w) \/ \E k \in Jobs : Dequeue(w, k))
      <3>1. NoNewPlace
        BY <1>1, <2>2, MostStepsMakeNoNewPlace
      <3>2. QED
        BY <3>1, NoNewPlaceKeeps DEF ExclusiveInv
    <2>3. QED
      BY <2>1, <2>2
  <1>3. checkPc' = "idle"
    BY <1>1 DEF checking, ExclusiveInv, Exclusive, Next, ProcessQueue, Sweep, Abort, Time,
       CheckStuckJobs, vars, rest, Enqueue, Schedule, Dequeue, Fetch, Start,
       Launch, LaunchFails, Heartbeat, Complete, Raise, Fail, Retry, AbortPoll,
       AbortFinish, AbortClear, Crash, AbortJob, AbortedFinish, AbortedClear,
       AbortUnlist, SweepList, SweepRead, SweepJob, SweepEnd, CheckTtl,
       CheckStuck, Unmark, CheckDone, CheckerCrash, BecomeDue, BecomeLate, JobExpires, AbortKeyExpires, LockExpires
  <1>4. AbortIsExclusive'
    <2> SUFFICES ASSUME NEW c \in Clients, clientPc'[c] \in {"finish", "clear"}
                 PROVE  Gone(clientJob[c])'
      BY DEF AbortIsExclusive
    <2>1. CASE clientPc[c] \in {"finish", "clear"} /\ clientJob'[c] = clientJob[c]
      <3>1. clientJob[c] \in Jobs /\ Gone(clientJob[c])
        BY <2>1 DEF TypeOK, ClientTypeOK, ExclusiveInv, AbortIsExclusive
      <3>2. Gone(clientJob[c])'
        BY <1>2, <2>1, <3>1 DEF Gone, Held, Holds, Delayed
      <3>3. QED
        BY <2>1, <3>2
    <2>2. ASSUME NEW j \in Jobs, AbortJob(c, j) PROVE Gone(clientJob[c])'
      <3>1. clientJob'[c] = j /\ queued[j] > 0
        BY <2>2 DEF AbortJob, AbortNext, TypeOK, ClientTypeOK
      <3>2. OnePlace(j) /\ OnePlace(j)' /\ queued[j] \in Nat
        BY <1>2 DEF ExclusiveInv, TypeOK, RedisTypeOK
      <3>3. queued'[j] = 0 /\ ~Delayed(j)' /\ j \in enqueued'
        BY <2>2 DEF AbortJob, ZRem, TypeOK, RedisTypeOK, Delayed
      <3>4. \A w \in Workers : ~Holds(w, j)'
        BY <2>2, <3>1, <3>2 DEF AbortJob, procs, OnePlace, Holds
      <3>5. QED
        BY <3>1, <3>3, <3>4 DEF Gone, Held, Holds, Delayed
    <2>3. \/ \E j \in Jobs : AbortJob(c, j)
          \/ clientPc[c] \in {"finish", "clear"} /\ clientJob'[c] = clientJob[c]
      <3>1. CASE UNCHANGED clients
        BY <3>1 DEF clients
      <3>2. ASSUME NEW d \in Clients, NEW j \in Jobs, AbortJob(d, j), c # d
            PROVE  UNCHANGED <<clientPc[c], clientJob[c]>>
        BY <3>2 DEF AbortJob, TypeOK, ClientTypeOK
      <3>3. ASSUME NEW d \in Clients,
                   AbortedFinish(d) \/ AbortedClear(d) \/ AbortUnlist(d)
            PROVE  clientPc[c] \in {"finish", "clear"}
                     /\ clientJob'[c] = clientJob[c]
        BY <3>3 DEF AbortedFinish, AbortedClear, AbortUnlist, ClientDone,
           TypeOK, ClientTypeOK
      <3>4. \/ UNCHANGED clients
            \/ \E d \in Clients : Abort(d) \/ \E j \in Jobs : AbortJob(d, j)
        BY DEF Next, ProcessQueue, Sweep, Time, CheckStuckJobs, vars, rest,
           Enqueue, Schedule, Dequeue, Fetch, Start, Launch, LaunchFails,
           Heartbeat, Complete, Raise, Fail, Retry, AbortPoll, AbortFinish,
           AbortClear, Crash, SweepList, SweepRead, SweepJob, SweepEnd,
           CheckTtl, CheckStuck, Requeue, Unmark, CheckerCrash, BecomeDue,
           BecomeLate, JobExpires, AbortKeyExpires, LockExpires
      <3>5. QED
        BY <3>1, <3>2, <3>3, <3>4 DEF Abort
    <2>4. QED
      BY <2>1, <2>2, <2>3
  <1>5. QED
    BY <1>2, <1>3, <1>4 DEF ExclusiveInv

\* The inductive invariant of an exclusive configuration: every job is at one
\* place at a time, and an abort that found it queued is the only one to have it.
LEMMA ExclusiveInvariant == Exclusive => (Spec => []ExclusiveInv)
  <1> SUFFICES ASSUME Exclusive PROVE Spec => []ExclusiveInv
    OBVIOUS
  <1>1. Init => ExclusiveInv
    BY DEF Init, ExclusiveInv, OnePlace, AbortIsExclusive, Delayed, Holds
  <1>2. TypeOK /\ TypeOK' /\ ExclusiveInv /\ [Next]_vars => ExclusiveInv'
    BY ExclusiveStep
  <1>3. QED
    BY <1>1, <1>2, TypeCorrect, PTL DEF Spec

\* In an exclusive configuration no two workers work on one job.
THEOREM Exclusion == Exclusive => (Spec => []AtMostOneRun)
  <1>1. ExclusiveInv => AtMostOneRun
    BY DEF ExclusiveInv, OnePlace, AtMostOneRun, Held
  <1>2. QED
    BY <1>1, ExclusiveInvariant, PTL

\* In an exclusive configuration a job that waits for its time is in no list:
\* nobody can dequeue it before the schedule script does.
THEOREM DelayKept == Exclusive => (Spec => []DelayIsServed)
  <1>1. ExclusiveInv => DelayIsServed
    BY DEF ExclusiveInv, OnePlace, DelayIsServed, Held
  <1>2. QED
    BY <1>1, ExclusiveInvariant, PTL

\* In an exclusive configuration an abort that took the job out of the queue
\* is the last to touch it: no worker has it or gets it.
THEOREM AbortAlone == Exclusive => (Spec => []AbortIsExclusive)
  <1>1. ExclusiveInv => AbortIsExclusive
    BY DEF ExclusiveInv
  <1>2. QED
    BY <1>1, ExclusiveInvariant, PTL

\* In an exclusive configuration a job that ended, was aborted or was given up
\* does not come back by itself: no retry, sweep, schedule or late worker
\* brings it to life again.
THEOREM NoComeback == Exclusive => (Spec => GoneForGood)
  <1> SUFFICES ASSUME Exclusive PROVE Spec => GoneForGood
    OBVIOUS
  <1>1. Init => ExclusiveInv
    BY DEF Init, ExclusiveInv, OnePlace, AbortIsExclusive, Delayed, Holds
  <1>2. TypeOK /\ TypeOK' /\ ExclusiveInv /\ [Next]_vars
          => ExclusiveInv' /\ [\A j \in Jobs : Gone(j) => Gone(j)']_vars
    BY ExclusiveStep
  <1>3. QED
    BY <1>1, <1>2, TypeCorrect, PTL DEF Spec, GoneForGood

-----------------------------------------------------------------------------
\* When no client aborts, a job whose score is 0 is always in one of the two
\* lists: the transactions of enqueue, schedule, retry, finish, sweep and
\* check_stuck_jobs never drop a job that the enqueue script would refuse.
THEOREM NothingLost == Clients = {} => (Spec => []NoLostJob)
  <1> SUFFICES ASSUME Clients = {} PROVE Spec => []NoLostJob
    OBVIOUS
  <1>1. Init => NoLostJob
    BY DEF Init, NoLostJob
  <1>2. TypeOK /\ NoLostJob /\ [Next]_vars => NoLostJob'
    <2> SUFFICES ASSUME TypeOK, NoLostJob, [Next]_vars PROVE NoLostJob'
      OBVIOUS
    <2> USE DEF NoLostJob, TypeOK, RedisTypeOK
    <2>1. ASSUME NEW j \in Jobs, Enqueue(j) PROVE NoLostJob'
      BY <2>1 DEF Enqueue, RightAway, Push
    <2>2. CASE Schedule
      BY <2>2 DEF Schedule, IsDue
    <2>3. ASSUME NEW w \in Workers, NEW j \in Jobs, Dequeue(w, j)
          PROVE  NoLostJob'
      BY <2>3 DEF Dequeue, Push
    <2>4. ASSUME NEW w \in Workers, Retry(w) PROVE NoLostJob'
      BY <2>4 DEF Retry, RetryScore, RetryQueued, LRem1, Push
    <2>5. ASSUME NEW w \in Workers,
                 LaunchFails(w) \/ Complete(w) \/ Fail(w) \/ AbortFinish(w)
          PROVE  NoLostJob'
      BY <2>5 DEF LaunchFails, Complete, Fail, AbortFinish, Finish, LRem1, ZRem
    <2>6. ASSUME NEW w \in Workers,
                 \/ Fetch(w) \/ Start(w) \/ Launch(w) \/ Raise(w)
                 \/ AbortPoll(w) \/ AbortClear(w) \/ Heartbeat(w) \/ Crash(w)
          PROVE  NoLostJob'
      BY <2>6 DEF Fetch, Start, Launch, Raise, AbortPoll, AbortClear, Heartbeat,
         Crash, redis
    <2>7. ASSUME NEW s \in Sweepers, NEW j \in Jobs, SweepJob(s, j)
          PROVE  NoLostJob'
      BY <2>7 DEF SweepJob, Finish, LRem1, ZRem
    <2>8. ASSUME NEW s \in Sweepers, SweepList(s) \/ SweepRead(s) \/ SweepEnd(s)
          PROVE  NoLostJob'
      BY <2>8 DEF SweepList, SweepRead, SweepEnd, redis
    <2>9. CASE CheckStuckJobs \/ CheckerCrash
      BY <2>9 DEF CheckStuckJobs, CheckTtl, CheckStuck, Requeue, Unmark,
         CheckerCrash, LRem1, Push, redis
    <2>10. CASE Time
      BY <2>10 DEF Time, BecomeDue, BecomeLate, JobExpires, AbortKeyExpires,
         LockExpires
    <2>11. CASE UNCHANGED vars
      BY <2>11 DEF vars, redis
    <2>12. QED
      BY <2>1, <2>2, <2>3, <2>4, <2>5, <2>6, <2>7, <2>8, <2>9, <2>10, <2>11
      DEF Next, ProcessQueue, Sweep
  <1>3. QED
    BY <1>1, <1>2, TypeCorrect, PTL DEF Spec

-----------------------------------------------------------------------------
(***************************************************************************)
(* The bound on attempts.  A stale copy of a job (a sweep's snapshot, an   *)
(* update that was lost) may be written back at any time, so the induction *)
(* says of every copy that has used its last attempt that the job cannot   *)
(* be taken again.                                                         *)
(***************************************************************************)
Spent(j) ==
    /\ j \in enqueued /\ queued[j] = 0 /\ ~Delayed(j)
    /\ \A w \in Workers : Holds(w, j) =>
         pc[w] \notin {"dequeued", "fetched"} /\ rec[w].attempts > Retries

AttemptsInv ==
    /\ \A w \in Workers : /\ rec[w].attempts <= Retries + 1
                          /\ pc[w] = "fetched" => rec[w].attempts <= Retries
    /\ \A j \in Jobs : store[j].attempts > Retries => Spent(j)
    /\ \A s \in Sweepers, j \in Jobs :
         sweepSnap[s][j].attempts > Retries => Spent(j)

\* A job that has used its last attempt is never taken again.
LEMMA SpentStays ==
    ASSUME Exclusive, TypeOK, ExclusiveInv, [Next]_vars, NEW j \in Jobs, Spent(j)
    PROVE  Spent(j)'
  <1> USE DEF Spent, Delayed, Holds, TypeOK, RedisTypeOK, WorkerTypeOK
  <1>1. ASSUME NEW w \in Workers,
               \/ Fetch(w) \/ Start(w) \/ Launch(w) \/ Raise(w) \/ AbortPoll(w)
               \/ AbortClear(w) \/ Heartbeat(w) \/ Crash(w)
        PROVE  Spent(j)'
    BY <1>1 DEF Fetch, Start, Launch, Raise, AbortPoll, AbortClear, Heartbeat,
       Crash, Leave, Goto, SetJob, redis, procs
  <1>2. ASSUME NEW w \in Workers,
               LaunchFails(w) \/ Complete(w) \/ Fail(w) \/ AbortFinish(w)
        PROVE  Spent(j)'
    BY <1>2 DEF LaunchFails, Complete, Fail, AbortFinish, Finish, ZRem, Leave,
       Goto
  <1>3. ASSUME NEW w \in Workers, Retry(w) PROVE Spent(j)'
    <2>1. job[w] # j /\ job[w] \in Jobs
      BY <1>3, RecordType, ConstantsAssumption DEF Retry, CanRetry
    <2>2. queued'[j] = queued[j] /\ incomplete'[j] = incomplete[j]
      BY <1>3, <2>1 DEF Retry, RetryQueued, LRem1, Push
    <2>3. QED
      BY <1>3, <2>2 DEF Retry, Leave, Goto
  <1>4. ASSUME NEW w \in Workers, NEW k \in Jobs, Dequeue(w, k) PROVE Spent(j)'
    BY <1>4 DEF Dequeue, Goto
  <1>5. ASSUME NEW k \in Jobs, Enqueue(k) PROVE Spent(j)'
    BY <1>5 DEF Exclusive, Enqueue, Push, procs
  <1>6. CASE Schedule
    BY <1>6 DEF Schedule, IsDue, procs
  <1>7. ASSUME NEW c \in Clients,
               Abort(c) \/ \E k \in Jobs : AbortJob(c, k)
        PROVE  Spent(j)'
    BY <1>7 DEF Abort, AbortJob, AbortedFinish, AbortedClear, AbortUnlist,
       Finish, ZRem, procs
  <1>8. ASSUME NEW s \in Sweepers, Sweep(s) PROVE Spent(j)'
    BY <1>8 DEF Sweep, SweepList, SweepRead, SweepJob, SweepEnd, Finish, ZRem,
       redis, procs
  <1>9. CASE CheckStuckJobs \/ CheckerCrash
    BY <1>9 DEF CheckStuckJobs, CheckTtl, CheckStuck, Requeue, Unmark,
       CheckerCrash, ExclusiveInv, redis, procs
  <1>10. CASE Time
    BY <1>10 DEF Time, BecomeDue, BecomeLate, JobExpires, AbortKeyExpires,
       LockExpires, procs
  <1>11. CASE UNCHANGED vars
    BY <1>11 DEF vars, redis, procs
  <1>12. QED
    BY <1>1, <1>2, <1>3, <1>4, <1>5, <1>6, <1>7, <1>8, <1>9, <1>10, <1>11
    DEF Next, ProcessQueue

\* A worker that has started the last attempt of a job holds the only copy
\* that can still move.
LEMMA LastHolderIsSpent ==
    ASSUME TypeOK, ExclusiveInv, NEW w \in Workers,
           pc[w] \notin {"idle", "dequeued", "fetched"},
           rec[w].attempts > Retries
    PROVE  job[w] \in Jobs /\ Spent(job[w])
  <1>1. job[w] \in Jobs /\ Holds(w, job[w])
    BY DEF TypeOK, WorkerTypeOK, Holds
  <1>2. OnePlace(job[w])
    BY <1>1 DEF ExclusiveInv
  <1>3. QED
    BY <1>1, <1>2 DEF OnePlace, Spent

\* The copies of the job that workers work with.
LEMMA AttemptsOfWorkers ==
    ASSUME TypeOK, AttemptsInv, [Next]_vars, NEW v \in Workers
    PROVE  /\ rec'[v].attempts <= Retries + 1
           /\ pc'[v] = "fetched" => rec'[v].attempts <= Retries
  <1> DEFINE Bounded == /\ rec'[v].attempts <= Retries + 1
                        /\ pc'[v] = "fetched" => rec'[v].attempts <= Retries
  <1>0. /\ NoRecord.attempts = 0 /\ Retries \in Nat
        /\ rec[v].attempts \in Int
        /\ rec[v].attempts <= Retries + 1
        /\ pc[v] = "fetched" => rec[v].attempts <= Retries
    BY RecordType, ConstantsAssumption DEF TypeOK, WorkerTypeOK, AttemptsInv,
       NoRecord
  <1> USE DEF TypeOK, WorkerTypeOK
  <1>1. ASSUME NEW w \in Workers, Fetch(w) PROVE Bounded
    <2>1. job[w] \in Jobs /\ ~Spent(job[w])
      BY <1>1 DEF Fetch, Spent, Holds
    <2>2. store[job[w]].attempts \in Int /\ ~(store[job[w]].attempts > Retries)
      BY <2>1, RecordType DEF AttemptsInv, RedisTypeOK
    <2>3. QED
      BY <1>0, <1>1, <2>2 DEF Fetch, Leave, Goto
  <1>2. ASSUME NEW w \in Workers, Start(w) PROVE Bounded
    BY <1>0, <1>2 DEF Start, Started, Goto, MaxAttempts
  <1>3. ASSUME NEW w \in Workers,
               \/ Launch(w) \/ LaunchFails(w) \/ Heartbeat(w) \/ Complete(w)
               \/ Raise(w) \/ Fail(w) \/ Retry(w) \/ AbortPoll(w)
               \/ AbortFinish(w) \/ AbortClear(w) \/ Crash(w)
               \/ \E j \in Jobs : Dequeue(w, j)
        PROVE  Bounded
    BY <1>0, <1>3 DEF Launch, LaunchFails, Heartbeat, Complete, Raise, Fail,
       Retry, AbortPoll, AbortFinish, AbortClear, Crash, Dequeue, Leave, Goto,
       procs
  <1>4. CASE UNCHANGED procs
    BY <1>0, <1>4 DEF procs
  <1>5. \/ UNCHANGED procs
        \/ \E w \in Workers : \/ ProcessQueue(w) \/ Heartbeat(w)
                              \/ LaunchFails(w) \/ Crash(w)
    BY DEF Next, vars, Enqueue, Schedule, Abort, AbortJob, AbortedFinish,
       AbortedClear, AbortUnlist, Sweep, SweepList, SweepRead, SweepJob,
       SweepEnd, CheckStuckJobs, CheckTtl, CheckStuck, Requeue, Unmark,
       CheckerCrash, Time, BecomeDue,
       BecomeLate, JobExpires, AbortKeyExpires, LockExpires
  <1>6. QED
    BY <1>1, <1>2, <1>3, <1>4, <1>5 DEF ProcessQueue

\* Who stores a copy that has used its last attempt: the worker that holds the
\* job, or a sweep that read such a copy.
LEMMA AttemptsStored ==
    ASSUME Exclusive, TypeOK, ExclusiveInv, AttemptsInv, [Next]_vars,
           NEW j \in Jobs, store'[j].attempts > Retries
    PROVE  Spent(j)'
  <1> USE DEF TypeOK, RedisTypeOK
  <1>0. Retries \in Nat
    BY ConstantsAssumption
  <1>1. CASE Spent(j)
    BY <1>1, SpentStays
  <1>2. CASE ~Spent(j)
    <2>1. ~(store[j].attempts > Retries)
      BY <1>2 DEF AttemptsInv
    <2>2. ASSUME NEW w \in Workers, Start(w) PROVE Spent(j)'
      <3>1. j = job[w] /\ Started(rec[w]).attempts > Retries
        BY <2>1, <2>2 DEF Start, SetJob
      <3>2. OnePlace(j) /\ Holds(w, j)
        BY <2>2, <3>1 DEF ExclusiveInv, Start, Holds
      <3>3. QED
        BY <2>2, <3>1, <3>2 DEF OnePlace, Start, Spent, Holds, Delayed, Goto,
           WorkerTypeOK
    <2>3. ASSUME NEW w \in Workers,
                 \/ LaunchFails(w) \/ Heartbeat(w) \/ Complete(w) \/ Fail(w)
                 \/ AbortFinish(w)
          PROVE  FALSE
      <3>1. j = job[w] /\ rec[w].attempts > Retries
        BY <1>0, <2>1, <2>3 DEF LaunchFails, Heartbeat, Complete, Fail,
           AbortFinish, Completed, Finish, Completed, SetJob, NoRecord
      <3>2. pc[w] \notin {"idle", "dequeued", "fetched"}
        BY <2>3 DEF LaunchFails, Heartbeat, Complete, Fail, AbortFinish
      <3>3. QED
        BY <1>2, <3>1, <3>2, LastHolderIsSpent
    <2>4. ASSUME NEW w \in Workers, Retry(w) PROVE FALSE
      BY <1>0, <2>1, <2>4, RecordType DEF Retry, Reset, CanRetry, SetJob, WorkerTypeOK
    <2>5. ASSUME NEW s \in Sweepers, NEW k \in Jobs, SweepJob(s, k) PROVE FALSE
      BY <1>0, <1>2, <2>1, <2>5 DEF SweepJob, Finish, Completed, AttemptsInv, NoRecord
    <2>6. ASSUME NEW k \in Jobs, Enqueue(k) \/ JobExpires(k) PROVE FALSE
      BY <1>0, <2>1, <2>6 DEF Enqueue, JobExpires, SetJob, NoRecord
    <2>7. ASSUME NEW c \in Clients, AbortedFinish(c) PROVE FALSE
      BY <1>0, <2>1, <2>7 DEF AbortedFinish, Completed, Finish, Completed, NoRecord, ClientTypeOK
    <2>8. ASSUME store' = store PROVE FALSE
      BY <2>1, <2>8
    <2>9. QED
      BY <2>2, <2>3, <2>4, <2>5, <2>6, <2>7, <2>8
      DEF Next, vars, redis, ProcessQueue, Schedule, Dequeue, Fetch, Launch,
          Raise, AbortPoll, AbortClear, Crash, Abort, AbortJob, AbortedClear,
          AbortUnlist, Sweep, SweepList, SweepRead, SweepEnd, CheckStuckJobs,
          CheckTtl, CheckStuck, Requeue, Unmark, CheckerCrash, Time,
          BecomeDue, BecomeLate, AbortKeyExpires,
          LockExpires
  <1>3. QED
    BY <1>1, <1>2

\* What a sweep has read.
LEMMA AttemptsRead ==
    ASSUME Exclusive, TypeOK, ExclusiveInv, AttemptsInv, [Next]_vars,
           NEW s \in Sweepers, NEW j \in Jobs,
           sweepSnap'[s][j].attempts > Retries
    PROVE  Spent(j)'
  <1>1. \/ sweepSnap'[s] = sweepSnap[s]
        \/ sweepSnap'[s] = store
        \/ sweepSnap'[s] = [k \in Jobs |-> NoRecord]
    BY DEF TypeOK, SweepTypeOK, Next, vars, rest, sweeps, ProcessQueue, Enqueue,
       Schedule, Dequeue, Fetch, Start, Launch, LaunchFails, Heartbeat, Complete,
       Raise, Fail, Retry, AbortPoll, AbortFinish, AbortClear, Crash, Abort,
       AbortJob, AbortedFinish, AbortedClear, AbortUnlist, Sweep, SweepList,
       SweepRead, SweepJob, SweepStop, SweepEnd, CheckStuckJobs, CheckStuck,
       CheckTtl, Requeue, Unmark, CheckerCrash, Time, BecomeDue, BecomeLate,
       JobExpires, AbortKeyExpires,
       LockExpires
  <1>2. NoRecord.attempts = 0 /\ Retries \in Nat
    BY ConstantsAssumption DEF NoRecord
  <1>3. Spent(j)
    BY <1>1, <1>2 DEF AttemptsInv
  <1>4. QED
    BY <1>3, SpentStays

\* In an exclusive configuration no job is started more than Retries + 1
\* times, whatever updates and finish replies are lost and whatever stale
\* copies sweeps and crashes write back.
THEOREM AttemptsLimit == Exclusive => (Spec => []AttemptsBounded)
  <1> SUFFICES ASSUME Exclusive PROVE Spec => []AttemptsBounded
    OBVIOUS
  <1>1. Init => ExclusiveInv
    BY DEF Init, ExclusiveInv, OnePlace, AbortIsExclusive, Delayed, Holds
  <1>2. Init => AttemptsInv
    BY ConstantsAssumption DEF Init, AttemptsInv, NoRecord
  <1>3. TypeOK /\ TypeOK' /\ ExclusiveInv /\ [Next]_vars => ExclusiveInv'
    BY ExclusiveStep
  <1>4. TypeOK /\ ExclusiveInv /\ AttemptsInv /\ [Next]_vars => AttemptsInv'
    <2> SUFFICES ASSUME TypeOK, ExclusiveInv, AttemptsInv, [Next]_vars
                 PROVE  AttemptsInv'
      OBVIOUS
    <2>1. \A w \in Workers : /\ rec'[w].attempts <= Retries + 1
                             /\ pc'[w] = "fetched" => rec'[w].attempts <= Retries
      BY AttemptsOfWorkers
    <2>2. \A j \in Jobs : store'[j].attempts > Retries => Spent(j)'
      BY AttemptsStored
    <2>3. \A s \in Sweepers, j \in Jobs :
            sweepSnap'[s][j].attempts > Retries => Spent(j)'
      BY AttemptsRead
    <2>4. QED
      BY <2>1, <2>2, <2>3 DEF AttemptsInv
  <1>5. AttemptsInv => AttemptsBounded
    BY DEF AttemptsInv, AttemptsBounded
  <1>6. QED
    BY <1>1, <1>2, <1>3, <1>4, <1>5, TypeCorrect, PTL DEF Spec

-----------------------------------------------------------------------------
(***************************************************************************)
(* Refinement of JobLifecycle.                                             *)
(***************************************************************************)
Moves(j) == \/ Phase(j)' = Phase(j)
            \/ Phase(j)' \in Lifecycle!Follows(Phase(j))

\* A step that brings no job to a new place leaves its phase or ends it.
LEMMA NoNewPlaceMoves ==
    ASSUME TypeOK, TypeOK', NoNewPlace, NEW j \in Jobs, OnePlace(j)
    PROVE  Moves(j)
  <1>1. queued[j] \in Nat /\ queued[j]' \in Nat
    BY DEF TypeOK, RedisTypeOK
  <1>2. CASE Held(j)
    BY <1>1, <1>2 DEF NoNewPlace, OnePlace, Moves, Phase, Held, Lifecycle!Follows
  <1>3. CASE ~Held(j)
    BY <1>1, <1>3 DEF NoNewPlace, OnePlace, Moves, Phase, Held, Lifecycle!Follows
  <1>4. QED
    BY <1>2, <1>3

\* Each operation that moves a job moves it along the lifecycle.
LEMMA MovesFollow ==
    ASSUME Exclusive, TypeOK, \A k \in Jobs : OnePlace(k), NEW j \in Jobs,
           \/ \E k \in Jobs : Enqueue(k)
           \/ Schedule
           \/ \E w \in Workers : Retry(w) \/ \E k \in Jobs : Dequeue(w, k)
    PROVE  Moves(j)
  <1> USE DEF Moves, Phase, Held, Holds, Delayed, Lifecycle!Follows
  <1>0. OnePlace(j) /\ queued[j] \in Nat
    BY DEF TypeOK, RedisTypeOK
  <1>1. ASSUME NEW k \in Jobs, Enqueue(k) PROVE Moves(j)
    BY <1>0, <1>1 DEF TypeOK, RedisTypeOK, Exclusive, Enqueue, RightAway, Push,
       procs, OnePlace
  <1>2. ASSUME Schedule PROVE Moves(j)
    BY <1>0, <1>2 DEF TypeOK, RedisTypeOK, Schedule, IsDue, procs, OnePlace
  <1>3. ASSUME NEW w \in Workers, NEW k \in Jobs, Dequeue(w, k) PROVE Moves(j)
    <2>1. CASE j = k
      <3>1. Phase(j) = "waiting"
        BY <1>0, <1>3, <2>1 DEF Dequeue, OnePlace
      <3>2. Held(j)'
        BY <1>3, <2>1 DEF Dequeue, Goto, TypeOK, WorkerTypeOK
      <3>3. QED
        BY <3>1, <3>2
    <2>2. CASE j # k
      <3>1. queued'[j] = queued[j] /\ UNCHANGED <<incomplete, enqueued>>
        BY <1>3, <2>2 DEF Dequeue, TypeOK, RedisTypeOK
      <3>2. \A v \in Workers : Holds(v, j)' <=> Holds(v, j)
        BY <1>3, <2>2 DEF Dequeue, Goto, TypeOK, WorkerTypeOK
      <3>3. QED
        BY <3>1, <3>2
    <2>3. QED
      BY <2>1, <2>2
  <1>4. ASSUME NEW w \in Workers, Retry(w) PROVE Moves(j)
    <2>1. job[w] \in Jobs /\ Holds(w, job[w])
      BY <1>4 DEF TypeOK, WorkerTypeOK, Retry
    <2>2. CASE j = job[w]
      <3>1. Phase(j) = "running"
        BY <2>1, <2>2
      <3>2. \A v \in Workers : ~Holds(v, j)'
        BY <1>0, <1>4, <2>1, <2>2, ConstantsAssumption DEF Retry, Leave, Goto,
           OnePlace, TypeOK, WorkerTypeOK
      <3>3. queued'[j] > 0 \/ Delayed(j)'
        BY <1>0, <1>4, <2>2 DEF Retry, RetryScore, RetryQueued, LRem1, Push,
           TypeOK, RedisTypeOK
      <3>4. Phase(j)' \in {"waiting", "delayed"}
        BY <3>2, <3>3
      <3>5. QED
        BY <3>1, <3>4
    <2>3. CASE j # job[w]
      <3>1. queued'[j] = queued[j] /\ incomplete'[j] = incomplete[j]
        BY <1>4, <2>1, <2>3 DEF Retry, RetryQueued, LRem1, Push, TypeOK,
           RedisTypeOK
      <3>2. \A v \in Workers : Holds(v, j)' <=> Holds(v, j)
        BY <1>4, <2>3, ConstantsAssumption DEF Retry, Leave, Goto, TypeOK,
           WorkerTypeOK
      <3>3. QED
        BY <1>4, <3>1, <3>2 DEF Retry
    <2>4. QED
      BY <2>2, <2>3
  <1>5. QED
    BY <1>1, <1>2, <1>3, <1>4

\* In an exclusive configuration the queue implements JobLifecycle: every step
\* of every worker, client, sweep and clock is a step of it or a stutter.
THEOREM Refinement == Exclusive => (Spec => ImplementsLifecycle)
  <1> SUFFICES ASSUME Exclusive PROVE Spec => ImplementsLifecycle
    OBVIOUS
  <1>1. Init => ExclusiveInv
    BY DEF Init, ExclusiveInv, OnePlace, AbortIsExclusive, Delayed, Holds
  <1>2. Init => Lifecycle!Init
    BY DEF Init, Lifecycle!Init, Phase, Held, Holds, Delayed
  <1>3. TypeOK /\ TypeOK' /\ ExclusiveInv /\ [Next]_vars => ExclusiveInv'
    BY ExclusiveStep
  <1>4. TypeOK /\ TypeOK' /\ ExclusiveInv /\ [Next]_vars => Lifecycle!Next
    <2> SUFFICES ASSUME TypeOK, TypeOK', ExclusiveInv, [Next]_vars
                 PROVE  Lifecycle!Next
      OBVIOUS
    <2>1. \A j \in Jobs : Phase(j)' \in Lifecycle!Phases
      BY DEF Phase, Lifecycle!Phases
    <2>2. ASSUME NEW j \in Jobs PROVE Moves(j)
      <3>1. CASE \/ \E k \in Jobs : Enqueue(k)
                 \/ Schedule
                 \/ \E w \in Workers : Retry(w) \/ \E k \in Jobs : Dequeue(w, k)
        BY <3>1, MovesFollow DEF ExclusiveInv
      <3>2. CASE ~(\/ \E k \in Jobs : Enqueue(k)
                   \/ Schedule
                   \/ \E w \in Workers :
                        Retry(w) \/ \E k \in Jobs : Dequeue(w, k))
        <4>1. ~Requeue
          BY DEF ExclusiveInv, Requeue
        <4>2. NoNewPlace
          BY <3>2, <4>1, MostStepsMakeNoNewPlace
        <4>3. QED
          BY <4>2, NoNewPlaceMoves DEF ExclusiveInv
      <3>3. QED
        BY <3>1, <3>2
    <2>3. QED
      BY <2>1, <2>2 DEF Lifecycle!Next, Moves
  <1>5. QED
    BY <1>1, <1>2, <1>3, <1>4, TypeCorrect, PTL
    DEF Spec, ImplementsLifecycle, Lifecycle!Spec

(***************************************************************************)
(* Registry: the queues of a process                                       *)
(***************************************************************************)
\* The names and tables a call refers to are there.
CallOf(t) == LET c == call[t] IN
  /\ c.pc # "idle" => c.q \in Queues
  /\ c.spawn \/ c.pc \in {"worker", "enter", "make"} => c.w # None
  /\ c.pc \in {"configure", "apply", "hash"} => taskQueues[c.q] # 0

\* Every queue has an object of its own, which is the one that registered last.
TablesInv ==
  /\ latest = taskQueues
  /\ \A q, r \in Queues : taskQueues[q] = taskQueues[r] /\ taskQueues[q] # 0 => q = r

\* Between the shared config and the hash a thread is alone, or both their
\* queues are unsafe.
Configures(t) == Asks(t, {"build", "apply", "hash"})
AloneOf(t) == \A u \in Threads \ {t} : Configures(t) /\ Configures(u) => call[t].q \in unsafe

\* What was asked for is in the shared config, and then in the object.
ConfigOf(t) == LET c == call[t] IN
  c.config # None /\ c.q \notin unsafe =>
    /\ c.pc \in {"build", "apply"} => config = c.config
    /\ c.pc = "hash" => limit[taskQueues[c.q]] = c.config

\* Who makes an object is the only one to make it, or the queue was raced for.
Makes(t) == Asks(t, {"create", "build"})
MakingOf(t) ==
  Makes(t) /\ call[t].q \notin raced =>
    /\ taskQueues[call[t].q] = 0
    /\ \A u \in Threads \ {t} : Makes(u) => call[u].q # call[t].q

\* An object somebody was given is the one its queue has.
Current(h) ==
  h[2] # 0 => h[1] \in Queues /\ (h[1] \notin raced => h[2] = taskQueues[h[1]])

ManagerInv ==
  /\ ObjectTypes /\ TablesInv /\ QueueIsConfigured
  /\ \A t \in Threads :
       CallOf(t) /\ AloneOf(t) /\ ConfigOf(t) /\ MakingOf(t) /\ Current(held[t])
  /\ \A w \in WorkerNames : Current(workers[w])

\* The records that CallOf speaks of; one thread's record is replaced.
CallRecords == [pc : Steps, q : Queues \cup {None}, w : WorkerNames \cup {None},
                config : Settings, wconfig : Settings, locked : BOOLEAN, spawn : BOOLEAN]
Calling(t, c) == call' = [call EXCEPT ![t] = c]

LEMMA CallTypes ==
  ASSUME ObjectTypes, NEW t \in Threads
  PROVE  /\ call \in [Threads -> CallRecords] /\ call[t] \in CallRecords
         /\ \A c \in CallRecords : Calling(t, c) =>
              /\ call' \in [Threads -> CallRecords] /\ call'[t] = c
              /\ \A u \in Threads \ {t} : call'[u] = call[u]
  BY DEF ObjectTypes, CallRecords, Calling

LEMMA IdleType == Idle \in CallRecords /\ Idle.pc = "idle" /\ Idle.q = None
                  /\ Idle.config = None /\ Idle.w = None /\ ~Idle.spawn
  BY DEF Idle, CallRecords, Steps, Settings

\* A step that makes or configures no object, before or after others do.
LEMMA QuietStep ==
  ASSUME ManagerInv, NEW t \in Threads, NEW c \in CallRecords, Calling(t, c),
         ~Configures(t), c.pc \notin {"build", "apply", "hash"},
         UNCHANGED <<limit, taskQueues, latest, hashes>>,
         unsafe \subseteq unsafe', raced \subseteq raced',
         config' = config \/ Disturbed(t) \subseteq unsafe',
         ObjectTypes', CallOf(t)', MakingOf(t)',
         \A u \in Threads \ {t} : Makes(u) /\ call[u].q = c.q /\ c.pc = "create" => c.q \in raced',
         \A u \in Threads : Current(held[u])', \A w \in WorkerNames : Current(workers[w])'
  PROVE  ManagerInv'
  <1>1. /\ call'[t] = c /\ \A u \in Threads \ {t} : call'[u] = call[u]
        /\ \A u \in Threads : call[u] \in CallRecords
    BY CallTypes DEF ManagerInv
  <1>2. TablesInv'
    BY DEF ManagerInv, TablesInv
  <1>3. QueueIsConfigured'
    <2> SUFFICES ASSUME NEW q \in Queues, taskQueues[q] # 0, q \notin unsafe',
                        \A u \in Threads : call'[u].q = q => ~Configures(u)'
                 PROVE  latest[q] = taskQueues[q] /\ (hashes[q] # None => limit[taskQueues[q]] = hashes[q])
      BY DEF QueueIsConfigured, Configures
    <2>1. \A u \in Threads : call[u].q = q => ~Configures(u)
      BY <1>1 DEF Configures, Asks
    <2>2. QED
      BY <2>1 DEF ManagerInv, QueueIsConfigured, Configures
  <1>4. ASSUME NEW u \in Threads PROVE CallOf(u)'
    <2>1. CASE u = t
      BY <2>1
    <2>2. CASE u # t
      BY <1>1, <2>2 DEF ManagerInv, CallOf
    <2>3. QED
      BY <2>1, <2>2
  <1>5. ASSUME NEW u \in Threads PROVE AloneOf(u)'
    BY <1>1 DEF ManagerInv, AloneOf, Configures, Asks
  <1>6. ASSUME NEW u \in Threads PROVE ConfigOf(u)'
    <2>1. CASE u = t
      BY <1>1, <2>1 DEF ConfigOf
    <2>2. CASE u # t
      <3>1. Configures(u) /\ call[u].q \notin unsafe' => config' = config
        BY <2>2 DEF Disturbed, Configures
      <3>2. QED
        BY <1>1, <2>2, <3>1 DEF ManagerInv, ConfigOf, Configures, Asks
    <2>3. QED
      BY <2>1, <2>2
  <1>7. ASSUME NEW u \in Threads PROVE MakingOf(u)'
    <2>1. CASE u = t
      BY <2>1
    <2>2. CASE u # t
      BY <1>1, <2>2 DEF ManagerInv, MakingOf, Makes, Asks
    <2>3. QED
      BY <2>1, <2>2
  <1>8. QED
    BY <1>2, <1>3, <1>4, <1>5, <1>6, <1>7 DEF ManagerInv

\* A call begins with one of two checks.
LEMMA BeginStep ==
  ASSUME ManagerInv, NEW t \in Threads, NEW c \in CallRecords, Begin(t, c),
         c.pc \in {"check", "worker"}, c.q \in Queues,
         c.spawn \/ c.pc = "worker" => c.w # None, UNCHANGED <<objects, held, raced, unsafe>>
  PROVE  ManagerInv'
  <1>1. Calling(t, c) /\ call[t] = Idle /\ calls < MaxCalls /\ calls' = calls + 1
    BY DEF Begin, Calling
  <1>2. ObjectTypes'
    <2>1. calls' \in 0 .. MaxCalls
      BY <1>1, BoundAssumption DEF ManagerInv, ObjectTypes
    <2>2. QED
      BY <1>1, <2>1, CallTypes DEF ManagerInv, ObjectTypes, CallRecords, objects
  <1>3. /\ call'[t] = c /\ \A u \in Threads \ {t} : call'[u] = call[u]
        /\ ~Configures(t)
    BY <1>1, CallTypes, IdleType DEF ManagerInv, Configures, Asks
  <1>4. CallOf(t)' /\ MakingOf(t)'
    BY <1>3 DEF CallOf, MakingOf, Makes, Asks
  <1>5. (\A u \in Threads : Current(held[u])') /\ \A w \in WorkerNames : Current(workers[w])'
    BY DEF ManagerInv, Current, objects
  <1>6. QED
    BY <1>1, <1>2, <1>3, <1>4, <1>5, QuietStep DEF objects

\* Calls that reach a queue without the manager get the object it has.
LEMMA UsesStep ==
  ASSUME ManagerInv, NEW t \in Threads, NEW h, Uses(t, h),
         h \in (Queues \cup {None}) \X (0..Len(limit)), Current(h)
  PROVE  ManagerInv'
  <1>1. held' = [held EXCEPT ![t] = h] /\ UNCHANGED <<objects, call, raced, unsafe, calls>>
    BY DEF Uses
  <1>2. held' \in [Threads -> (Queues \cup {None}) \X (0..Len(limit))]
        /\ \A u \in Threads : held'[u] = h \/ held'[u] = held[u]
    BY <1>1 DEF ManagerInv, ObjectTypes
  <1>3. ObjectTypes'
    BY <1>1, <1>2 DEF ManagerInv, ObjectTypes, objects
  <1>4. \A u \in Threads : Current(held[u])'
    BY <1>1, <1>2 DEF ManagerInv, Current, objects
  <1>5. (\A w \in WorkerNames : Current(workers[w])') /\ TablesInv' /\ QueueIsConfigured'
    BY <1>1 DEF ManagerInv, Current, TablesInv, QueueIsConfigured, Asks, objects
  <1>6. ASSUME NEW u \in Threads
        PROVE  CallOf(u)' /\ AloneOf(u)' /\ ConfigOf(u)' /\ MakingOf(u)'
    BY <1>1 DEF ManagerInv, CallOf, AloneOf, ConfigOf, MakingOf, Makes, Configures, Asks, objects
  <1>7. QED
    BY <1>3, <1>4, <1>5, <1>6 DEF ManagerInv

\* A thread is given the object of its queue at the end of get_task_queue.
LEMMA ReturnTypes ==
  ASSUME ManagerInv, NEW t \in Threads, Asks(t, {"check", "hash"}), taskQueues[call[t].q] # 0,
         Return(t, taskQueues[call[t].q]), UNCHANGED taskQueues, raced \subseteq raced',
         UNCHANGED workers
  PROVE  /\ \E c \in CallRecords :
              /\ Calling(t, c) /\ c.pc \in {"idle", "worker", "make"}
              /\ c.pc # "idle" => c.q = call[t].q /\ c.w # None
              /\ c.spawn => c.w # None
         /\ held' \in [Threads -> (Queues \cup {None}) \X (0..Len(limit))]
         /\ \A u \in Threads : Current(held[u])'
         /\ \A w \in WorkerNames : Current(workers[w])'
  <1> DEFINE c == call[t]
             o == taskQueues[c.q]
             d == IF c.spawn THEN [c EXCEPT !.pc = "worker", !.spawn = FALSE, !.config = None]
                  ELSE IF c.w # None THEN [c EXCEPT !.pc = "make"] ELSE Idle
  <1>1. c \in CallRecords /\ CallOf(t) /\ c.q \in Queues /\ o \in 0 .. Len(limit)
    BY CallTypes DEF ManagerInv, ObjectTypes, CallOf, Asks
  <1>2. Calling(t, d) /\ held' = [held EXCEPT ![t] = <<c.q, o>>]
    BY DEF Return, Calling
  <1>3. /\ d \in CallRecords /\ d.pc \in {"idle", "worker", "make"}
        /\ d.pc # "idle" => d.q = c.q /\ d.w # None
        /\ d.spawn => d.w # None
    <2>1. CASE c.spawn
      BY <1>1, <2>1 DEF CallRecords, Steps, Settings, CallOf
    <2>2. CASE ~c.spawn /\ c.w # None
      BY <1>1, <2>2 DEF CallRecords, Steps, Settings
    <2>3. CASE ~c.spawn /\ c.w = None
      BY <2>3, IdleType
    <2>4. QED
      BY <2>1, <2>2, <2>3
  <1>4. /\ held' \in [Threads -> (Queues \cup {None}) \X (0..Len(limit))]
        /\ \A u \in Threads : held'[u] = <<c.q, o>> \/ held'[u] = held[u]
    BY <1>1, <1>2 DEF ManagerInv, ObjectTypes
  <1>5. \A u \in Threads : Current(held[u])'
    BY <1>1, <1>4 DEF ManagerInv, Current
  <1>6. \A w \in WorkerNames : Current(workers[w])'
    BY DEF ManagerInv, Current
  <1>7. QED
    BY <1>2, <1>3, <1>4, <1>5, <1>6

\* A thread goes on from one place to another.
LEMMA ProceedTypes ==
  ASSUME ManagerInv, NEW t \in Threads, NEW l \in Steps, Proceed(t, l)
  PROVE  \E c \in CallRecords :
           /\ Calling(t, c) /\ c = [call[t] EXCEPT !.pc = l]
           /\ c.pc = l /\ c.q = call[t].q /\ c.w = call[t].w
           /\ c.spawn = call[t].spawn /\ c.config = call[t].config
  <1> DEFINE c == [call[t] EXCEPT !.pc = l]
  <1>1. call[t] \in CallRecords
    BY CallTypes DEF ManagerInv
  <1>2. c \in CallRecords /\ Calling(t, c)
    BY <1>1 DEF Proceed, Calling, CallRecords
  <1>3. c.pc = l /\ c.q = call[t].q /\ c.w = call[t].w
        /\ c.spawn = call[t].spawn /\ c.config = call[t].config
    BY <1>1 DEF CallRecords
  <1>4. QED
    BY <1>2, <1>3

\* The look-up: the queue is there, is to be configured, or is missing, and
\* then another thread that is making it is noticed.
LEMMA CheckStep ==
  ASSUME ManagerInv, NEW t \in Threads, Check(t) PROVE ManagerInv'
  <1> DEFINE q == call[t].q
  <1>1. /\ Asks(t, {"check"}) /\ q \in Queues /\ ~Configures(t) /\ CallOf(t)
        /\ call[t] \in CallRecords
    BY CallTypes DEF Check, ManagerInv, CallOf, Asks, Configures
  <1>2. raced \subseteq raced' /\ UNCHANGED <<objects, unsafe, calls>>
        /\ (taskQueues[q] = 0 => \A u \in Threads \ {t} : call[u].q = q /\ Makes(u) => q \in raced')
    BY DEF Check, Makes
  <1>3. raced' \subseteq Queues
    BY <1>1 DEF Check, ManagerInv, ObjectTypes
  <1>4. ASSUME UNCHANGED held
        PROVE  /\ \A u \in Threads : Current(held[u])'
               /\ \A w \in WorkerNames : Current(workers[w])'
    BY <1>2, <1>4 DEF ManagerInv, Current, objects
  <1>5. ASSUME NEW c \in CallRecords, Calling(t, c),
               held' \in [Threads -> (Queues \cup {None}) \X (0..Len(limit))]
        PROVE  ObjectTypes'
    BY <1>2, <1>3, <1>5, CallTypes DEF ManagerInv, ObjectTypes, CallRecords, objects
  <1>6. held \in [Threads -> (Queues \cup {None}) \X (0..Len(limit))]
    BY DEF ManagerInv, ObjectTypes
  <1>7. CASE taskQueues[q] = 0
    <2>1. Proceed(t, "create") /\ UNCHANGED held
      BY <1>7 DEF Check
    <2>2. PICK c \in CallRecords : /\ Calling(t, c) /\ c.pc = "create" /\ c.q = q
                                   /\ c.w = call[t].w /\ c.spawn = call[t].spawn
      BY <2>1, ProceedTypes DEF Steps
    <2>3. call'[t] = c /\ \A u \in Threads \ {t} : call'[u] = call[u]
      BY <2>2, CallTypes DEF ManagerInv
    <2>4. CallOf(t)'
      BY <1>1, <2>2, <2>3 DEF CallOf
    <2>5. MakingOf(t)'
      BY <1>2, <1>7, <2>2, <2>3 DEF MakingOf, Makes, Asks, objects
    <2>6. QED
      BY <1>1, <1>2, <1>4, <1>5, <1>6, <1>7, <2>1, <2>2, <2>4, <2>5, QuietStep DEF objects
  <1>8. CASE taskQueues[q] # 0 /\ hashes[q] # call[t].config
    <2>1. Proceed(t, "configure") /\ UNCHANGED held
      BY <1>8 DEF Check
    <2>2. PICK c \in CallRecords : /\ Calling(t, c) /\ c.pc = "configure" /\ c.q = q
                                   /\ c.w = call[t].w /\ c.spawn = call[t].spawn
      BY <2>1, ProceedTypes DEF Steps
    <2>3. call'[t] = c
      BY <2>2, CallTypes DEF ManagerInv
    <2>4. CallOf(t)' /\ MakingOf(t)'
      BY <1>1, <1>2, <1>8, <2>2, <2>3 DEF CallOf, MakingOf, Makes, Asks, objects
    <2>5. QED
      BY <1>1, <1>2, <1>4, <1>5, <1>6, <2>1, <2>2, <2>4, QuietStep DEF objects
  <1>9. CASE taskQueues[q] # 0 /\ hashes[q] = call[t].config
    <2>1. Return(t, taskQueues[q])
      BY <1>9 DEF Check
    <2>2. /\ \E c \in CallRecords : /\ Calling(t, c) /\ c.pc \in {"idle", "worker", "make"}
                                    /\ c.pc # "idle" => c.q = q /\ c.w # None
                                    /\ c.spawn => c.w # None
          /\ held' \in [Threads -> (Queues \cup {None}) \X (0..Len(limit))]
          /\ \A u \in Threads : Current(held[u])'
          /\ \A w \in WorkerNames : Current(workers[w])'
      <3>1. Asks(t, {"check", "hash"}) /\ UNCHANGED <<taskQueues, workers>>
        BY <1>1, <1>2 DEF Asks, objects
      <3>2. QED
        BY <1>2, <1>9, <2>1, <3>1, ReturnTypes
    <2>3. PICK c \in CallRecords : /\ Calling(t, c) /\ c.pc \in {"idle", "worker", "make"}
                                   /\ c.pc # "idle" => c.q = q /\ c.w # None
                                   /\ c.spawn => c.w # None
      BY <2>2
    <2>4. call'[t] = c
      BY <2>3, CallTypes DEF ManagerInv
    <2>5. CallOf(t)' /\ MakingOf(t)'
      BY <1>1, <2>3, <2>4 DEF CallOf, MakingOf, Makes, Asks
    <2>6. QED
      BY <1>1, <1>2, <1>5, <2>2, <2>3, <2>5, QuietStep DEF objects
  <1>10. QED
    BY <1>7, <1>8, <1>9

\* The look-up of a worker, and the lock before its queues.
LEMMA WorkerCheckStep ==
  ASSUME ManagerInv, NEW t \in Threads, CheckWorker(t) \/ EnterWorker(t) PROVE ManagerInv'
  <1>1. /\ Asks(t, {"worker", "enter"}) /\ ~Configures(t) /\ CallOf(t) /\ call[t] \in CallRecords
        /\ UNCHANGED <<config, limit, taskQueues, hashes, latest, workers, workerHashes,
                       held, raced, unsafe, calls>>
    BY CallTypes DEF CheckWorker, EnterWorker, ManagerInv, CallOf, Asks, Configures, objects
  <1>2. PICK c \in CallRecords :
          Calling(t, c) /\ (c = Idle \/ (/\ c.pc \in {"enter", "check"} /\ c.q = call[t].q
                                         /\ c.w = call[t].w /\ c.spawn = call[t].spawn))
    <2>1. CASE Proceed(t, "enter")
      BY <2>1, ProceedTypes DEF Steps
    <2>2. CASE Proceed(t, "check")
      BY <2>2, ProceedTypes DEF Steps
    <2>3. CASE call' = [call EXCEPT ![t] = Idle]
      BY <2>3, IdleType DEF Calling
    <2>4. QED
      BY <2>1, <2>2, <2>3 DEF CheckWorker, EnterWorker
  <1>3. call'[t] = c /\ call' \in [Threads -> CallRecords]
    BY <1>2, CallTypes DEF ManagerInv
  <1>4. lock' \in Threads \cup {None}
    BY DEF CheckWorker, EnterWorker, Taken, ManagerInv, ObjectTypes, objects
  <1>5. ObjectTypes'
    BY <1>1, <1>3, <1>4 DEF ManagerInv, ObjectTypes, CallRecords
  <1>6. CallOf(t)' /\ MakingOf(t)'
    BY <1>1, <1>2, <1>3, IdleType DEF CallOf, MakingOf, Makes, Asks
  <1>7. (\A u \in Threads : Current(held[u])') /\ \A w \in WorkerNames : Current(workers[w])'
    BY <1>1 DEF ManagerInv, Current
  <1>8. QED
    BY <1>1, <1>2, <1>5, <1>6, <1>7, IdleType, QuietStep

\* A worker takes over the object its thread was given, and changes the shared
\* config under whoever is making or configuring a queue.
LEMMA MakeWorkerStep ==
  ASSUME ManagerInv, NEW t \in Threads, MakeWorker(t) PROVE ManagerInv'
  <1>1. /\ Asks(t, {"make"}) /\ ~Configures(t) /\ CallOf(t) /\ call[t] \in CallRecords
        /\ UNCHANGED <<limit, taskQueues, hashes, latest, held, raced, calls>>
        /\ Calling(t, Idle) /\ unsafe' = unsafe \cup Disturbed(t)
    BY CallTypes DEF MakeWorker, ManagerInv, CallOf, Asks, Configures, Calling
  <1>2. call'[t] = Idle /\ call' \in [Threads -> CallRecords]
    BY <1>1, CallTypes, IdleType DEF ManagerInv
  <1>3. lock' \in Threads \cup {None} /\ config' \in Configs \cup {Default}
    BY <1>1 DEF MakeWorker, Released, ManagerInv, ObjectTypes, CallRecords, Settings
  <1>4. unsafe' \subseteq Queues
    <2>1. Disturbed(t) \subseteq Queues
      BY DEF Disturbed, Asks, ManagerInv, CallOf
    <2>2. QED
      BY <1>1, <2>1 DEF ManagerInv, ObjectTypes
  <1>5. /\ workers' \in [WorkerNames -> (Queues \cup {None}) \X (0..Len(limit))]
        /\ workerHashes' \in [WorkerNames -> Settings]
        /\ \A w \in WorkerNames : workers'[w] = workers[w] \/ workers'[w] = held[t]
    <2>1. held[t] \in (Queues \cup {None}) \X (0..Len(limit)) /\ call[t].wconfig \in Settings
      BY <1>1 DEF ManagerInv, ObjectTypes, CallRecords
    <2>2. CASE UNCHANGED <<workers, workerHashes>>
      BY <2>2 DEF ManagerInv, ObjectTypes
    <2>3. CASE /\ workers' = [workers EXCEPT ![call[t].w] = held[t]]
               /\ workerHashes' = [workerHashes EXCEPT ![call[t].w] = call[t].wconfig]
      BY <2>1, <2>3 DEF ManagerInv, ObjectTypes
    <2>4. QED
      BY <2>2, <2>3 DEF MakeWorker
  <1>6. ObjectTypes'
    BY <1>1, <1>2, <1>3, <1>4, <1>5 DEF ManagerInv, ObjectTypes, CallRecords
  <1>7. CallOf(t)' /\ MakingOf(t)'
    BY <1>2, IdleType DEF CallOf, MakingOf, Makes, Asks
  <1>8. (\A u \in Threads : Current(held[u])') /\ \A w \in WorkerNames : Current(workers[w])'
    BY <1>1, <1>5 DEF ManagerInv, Current
  <1>9. QED
    BY <1>1, <1>6, <1>7, <1>8, IdleType, QuietStep

\* The lock is taken, and the shared config changed: whoever was between config
\* and hash already, and this thread, are no longer alone.
LEMMA EnterStep ==
  ASSUME ManagerInv, NEW t \in Threads, Enter(t) PROVE ManagerInv'
  <1> DEFINE q == call[t].q
             l == IF call[t].pc = "create" THEN "build" ELSE "apply"
  <1>1. /\ Asks(t, {"create", "configure"}) /\ ~Configures(t) /\ CallOf(t) /\ call[t] \in CallRecords
        /\ q \in Queues
        /\ UNCHANGED <<limit, taskQueues, hashes, latest, workers, workerHashes, held, raced, calls>>
        /\ config' = IF call[t].config = None THEN config ELSE call[t].config
        /\ unsafe' = unsafe \cup Disturbed(t) \cup {r \in {q} : Disturbed(t) # {}}
    BY CallTypes DEF Enter, ManagerInv, CallOf, Asks, Configures
  <1>2. PICK c \in CallRecords : /\ Calling(t, c) /\ c.pc = l /\ c.q = q /\ c.w = call[t].w
                                 /\ c.spawn = call[t].spawn /\ c.config = call[t].config
    BY ProceedTypes DEF Enter, Steps
  <1>3. /\ call'[t] = c /\ call' \in [Threads -> CallRecords]
        /\ \A u \in Threads \ {t} : call'[u] = call[u]
    BY <1>2, CallTypes DEF ManagerInv
  <1>4. lock' \in Threads \cup {None} /\ config' \in Configs \cup {Default}
    BY <1>1 DEF Enter, Taken, ManagerInv, ObjectTypes, CallRecords, Settings
  <1>5. /\ unsafe' \subseteq Queues
        /\ \A u \in Threads \ {t} : Configures(u) => call[u].q \in unsafe' /\ q \in unsafe'
    <2>1. Disturbed(t) \subseteq Queues
      BY DEF Disturbed, Asks, ManagerInv, CallOf
    <2>2. \A u \in Threads \ {t} : Configures(u) => call[u].q \in Disturbed(t)
      BY DEF Disturbed, Configures
    <2>3. QED
      BY <1>1, <2>1, <2>2 DEF ManagerInv, ObjectTypes
  <1>6. ObjectTypes'
    BY <1>1, <1>3, <1>4, <1>5 DEF ManagerInv, ObjectTypes, CallRecords
  <1>7. TablesInv'
    BY <1>1 DEF ManagerInv, TablesInv
  <1>8. QueueIsConfigured'
    <2> SUFFICES ASSUME NEW r \in Queues, taskQueues[r] # 0, r \notin unsafe',
                        \A u \in Threads : call'[u].q = r => ~Configures(u)'
                 PROVE  latest[r] = taskQueues[r] /\ (hashes[r] # None => limit[taskQueues[r]] = hashes[r])
      BY <1>1 DEF QueueIsConfigured, Configures
    <2>1. \A u \in Threads : call[u].q = r => ~Configures(u)
      BY <1>1, <1>3 DEF Configures, Asks
    <2>2. QED
      BY <1>1, <2>1 DEF ManagerInv, QueueIsConfigured, Configures
  <1>9. ASSUME NEW u \in Threads
        PROVE  CallOf(u)' /\ AloneOf(u)' /\ ConfigOf(u)' /\ MakingOf(u)'
    <2>1. CallOf(u)'
      <3>1. CASE u = t
        BY <1>1, <1>2, <1>3, <3>1 DEF CallOf, Asks
      <3>2. CASE u # t
        BY <1>1, <1>3, <3>2 DEF ManagerInv, CallOf
      <3>3. QED
        BY <3>1, <3>2
    <2>2. AloneOf(u)'
      <3>1. ASSUME NEW v \in Threads \ {u}, Configures(u)', Configures(v)' PROVE call'[u].q \in unsafe'
        <4>1. CASE u = t
          BY <1>2, <1>3, <1>5, <3>1, <4>1 DEF Configures, Asks
        <4>2. CASE u # t
          <5>1. CASE v = t
            BY <1>3, <1>5, <3>1, <4>2, <5>1 DEF Configures, Asks
          <5>2. CASE v # t
            BY <1>1, <1>3, <3>1, <4>2, <5>2 DEF ManagerInv, AloneOf, Configures, Asks
          <5>3. QED
            BY <5>1, <5>2
        <4>3. QED
          BY <4>1, <4>2
      <3>2. QED
        BY <3>1 DEF AloneOf
    <2>3. ConfigOf(u)'
      <3>1. CASE u = t
        BY <1>1, <1>2, <1>3, <3>1 DEF ConfigOf
      <3>2. CASE u # t
        BY <1>1, <1>3, <1>5, <3>2 DEF ManagerInv, ConfigOf, Configures, Asks
      <3>3. QED
        BY <3>1, <3>2
    <2>4. MakingOf(u)'
      <3>1. \A v \in Threads : call'[v].q = call[v].q /\ (Makes(v)' => Makes(v))
        BY <1>1, <1>2, <1>3 DEF Makes, Asks
      <3>2. QED
        BY <1>1, <3>1 DEF ManagerInv, MakingOf
    <2>5. QED
      BY <2>1, <2>2, <2>3, <2>4
  <1>10. (\A u \in Threads : Current(held[u])') /\ \A w \in WorkerNames : Current(workers[w])'
    BY <1>1 DEF ManagerInv, Current
  <1>11. QED
    BY <1>6, <1>7, <1>8, <1>9, <1>10 DEF ManagerInv

\* A TaskQueue object is made from the shared config and stored.
LEMMA BuildStep ==
  ASSUME ManagerInv, NEW t \in Threads, Build(t) PROVE ManagerInv'
  <1> DEFINE q == call[t].q
             n == Len(limit) + 1
  <1>1. /\ Asks(t, {"build"}) /\ Makes(t) /\ Configures(t) /\ q \in Queues /\ call[t] \in CallRecords
        /\ CallOf(t) /\ AloneOf(t) /\ ConfigOf(t) /\ MakingOf(t)
        /\ UNCHANGED <<lock, config, hashes, workers, workerHashes, held, raced, unsafe, calls>>
    BY CallTypes DEF Build, ManagerInv, CallOf, Asks, Makes, Configures
  <1>2. PICK c \in CallRecords : /\ Calling(t, c) /\ c.pc = "hash" /\ c.q = q /\ c.w = call[t].w
                                 /\ c.spawn = call[t].spawn /\ c.config = call[t].config
    BY ProceedTypes DEF Build, Steps
  <1>3. /\ call'[t] = c /\ call' \in [Threads -> CallRecords]
        /\ \A u \in Threads \ {t} : call'[u] = call[u]
    BY <1>2, CallTypes DEF ManagerInv
  <1>4. /\ Len(limit) \in Nat /\ limit' \in Seq(Configs \cup {Default}) /\ Len(limit') = n
        /\ limit'[n] = config /\ \A i \in 1 .. Len(limit) : limit'[i] = limit[i]
    <2>1. limit \in Seq(Configs \cup {Default}) /\ config \in Configs \cup {Default}
          /\ limit' = Append(limit, config)
      BY DEF Build, ManagerInv, ObjectTypes
    <2>2. QED
      BY <2>1, AppendProperties, LenProperties
  <1>5. /\ taskQueues' = [taskQueues EXCEPT ![q] = n] /\ latest' = [latest EXCEPT ![q] = n]
        /\ taskQueues \in [Queues -> 0..Len(limit)] /\ latest = taskQueues
    BY <1>4 DEF Build, RegisterTaskQueue, ManagerInv, ObjectTypes, TablesInv
  <1>6. /\ taskQueues' \in [Queues -> 0..n] /\ taskQueues'[q] = n /\ latest' = taskQueues'
        /\ \A r \in Queues \ {q} : taskQueues'[r] = taskQueues[r]
    BY <1>1, <1>4, <1>5
  <1>7. ObjectTypes'
    <2>1. 0 .. Len(limit) \subseteq 0 .. Len(limit')
      BY <1>4
    <2>2. /\ workers \in [WorkerNames -> (Queues \cup {None}) \X (0..Len(limit'))]
          /\ held \in [Threads -> (Queues \cup {None}) \X (0..Len(limit'))]
      BY <2>1 DEF ManagerInv, ObjectTypes
    <2>3. QED
      BY <1>1, <1>3, <1>4, <1>6, <2>2 DEF ManagerInv, ObjectTypes, CallRecords
  <1>8. TablesInv'
    BY <1>4, <1>5, <1>6 DEF ManagerInv, TablesInv
  <1>9. ASSUME NEW r \in Queues \ {q}, taskQueues[r] # 0
        PROVE  limit'[taskQueues'[r]] = limit[taskQueues[r]]
    BY <1>4, <1>5, <1>6, <1>9
  <1>10. QueueIsConfigured'
    <2> SUFFICES ASSUME NEW r \in Queues, taskQueues'[r] # 0, r \notin unsafe',
                        \A u \in Threads : call'[u].q = r => ~Configures(u)'
                 PROVE  /\ latest'[r] = taskQueues'[r]
                        /\ hashes'[r] # None => limit'[taskQueues'[r]] = hashes'[r]
      BY DEF QueueIsConfigured, Configures
    <2>1. r # q
      BY <1>2, <1>3 DEF Configures, Asks
    <2>2. \A u \in Threads : call[u].q = r => ~Configures(u)
      BY <1>3, <2>1 DEF Configures, Asks
    <2>3. taskQueues[r] # 0 /\ hashes'[r] = hashes[r] /\ r \notin unsafe
      BY <1>1, <1>6, <2>1
    <2>4. hashes[r] # None => limit[taskQueues[r]] = hashes[r]
      BY <2>2, <2>3 DEF ManagerInv, QueueIsConfigured, Configures
    <2>5. QED
      BY <1>6, <1>9, <2>1, <2>3, <2>4
  <1>11. ASSUME NEW u \in Threads PROVE CallOf(u)'
    <2>1. CASE u = t
      BY <1>1, <1>2, <1>3, <1>4, <1>6, <2>1 DEF CallOf, Asks
    <2>2. CASE u # t
      BY <1>3, <1>4, <1>6, <2>2 DEF ManagerInv, CallOf
    <2>3. QED
      BY <2>1, <2>2
  <1>12. ASSUME NEW u \in Threads PROVE AloneOf(u)'
    <2>1. \A v \in Threads : (Configures(v)' <=> Configures(v)) /\ call'[v].q = call[v].q
      BY <1>1, <1>2, <1>3 DEF Configures, Asks
    <2>2. QED
      BY <1>1, <2>1 DEF ManagerInv, AloneOf
  <1>13. ASSUME NEW u \in Threads PROVE ConfigOf(u)'
    <2>1. CASE u = t
      BY <1>1, <1>2, <1>3, <1>4, <1>6, <2>1 DEF ConfigOf, Asks
    <2>2. CASE u # t
      <3>1. Configures(u) /\ call[u].q \notin unsafe => call[u].q # q
        BY <1>1, <2>2 DEF ManagerInv, AloneOf
      <3>2. CASE call[u].pc = "hash" /\ call[u].q \notin unsafe
        <4>1. call[u].q \in Queues \ {q} /\ taskQueues[call[u].q] # 0
          BY <3>1, <3>2 DEF ManagerInv, CallOf, Configures, Asks
        <4>2. limit'[taskQueues'[call[u].q]] = limit[taskQueues[call[u].q]]
          BY <1>9, <4>1
        <4>3. QED
          BY <1>1, <1>3, <2>2, <3>2, <4>2 DEF ManagerInv, ConfigOf
      <3>3. CASE ~(call[u].pc = "hash" /\ call[u].q \notin unsafe)
        BY <1>1, <1>3, <2>2, <3>3 DEF ManagerInv, ConfigOf
      <3>4. QED
        BY <3>2, <3>3
    <2>3. QED
      BY <2>1, <2>2
  <1>14. ASSUME NEW u \in Threads PROVE MakingOf(u)'
    <2>1. CASE u = t
      BY <1>2, <1>3, <2>1 DEF MakingOf, Makes, Asks
    <2>2. CASE u # t
      <3>1. (Makes(u)' => Makes(u)) /\ call'[u].q = call[u].q
            /\ \A v \in Threads \ {t} : (Makes(v)' <=> Makes(v)) /\ call'[v].q = call[v].q
        BY <1>3, <2>2 DEF Makes, Asks
      <3>2. ~Makes(t)'
        BY <1>2, <1>3 DEF Makes, Asks
      <3>3. Makes(u) /\ call[u].q \notin raced => call[u].q \in Queues \ {q}
        BY <1>1, <2>2 DEF ManagerInv, MakingOf, CallOf, Makes, Asks
      <3>4. QED
        BY <1>1, <1>6, <2>2, <3>1, <3>2, <3>3 DEF ManagerInv, MakingOf
    <2>3. QED
      BY <2>1, <2>2
  <1>15. ASSUME NEW h, Current(h) PROVE Current(h)'
    <2>1. q \notin raced => taskQueues[q] = 0
      BY <1>1 DEF MakingOf
    <2>2. QED
      BY <1>1, <1>6, <1>15, <2>1 DEF Current
  <1>16. (\A u \in Threads : Current(held[u])') /\ \A w \in WorkerNames : Current(workers[w])'
    BY <1>1, <1>15 DEF ManagerInv, Current
  <1>17. QED
    BY <1>7, <1>8, <1>10, <1>11, <1>12, <1>13, <1>14, <1>16 DEF ManagerInv

\* The object of the queue is configured, and no other.
LEMMA ApplyStep ==
  ASSUME ManagerInv, NEW t \in Threads, Apply(t) PROVE ManagerInv'
  <1> DEFINE q == call[t].q
             o == taskQueues[q]
  <1>1. /\ Asks(t, {"apply"}) /\ Configures(t) /\ q \in Queues /\ call[t] \in CallRecords
        /\ CallOf(t) /\ AloneOf(t) /\ ConfigOf(t) /\ o # 0
        /\ UNCHANGED <<lock, config, taskQueues, hashes, latest, workers, workerHashes,
                       held, raced, unsafe, calls>>
    BY CallTypes DEF Apply, ManagerInv, CallOf, Asks, Configures
  <1>2. PICK c \in CallRecords : /\ Calling(t, c) /\ c.pc = "hash" /\ c.q = q /\ c.w = call[t].w
                                 /\ c.spawn = call[t].spawn /\ c.config = call[t].config
    BY ProceedTypes DEF Apply, Steps
  <1>3. /\ call'[t] = c /\ call' \in [Threads -> CallRecords]
        /\ \A u \in Threads \ {t} : call'[u] = call[u]
    BY <1>2, CallTypes DEF ManagerInv
  <1>4. /\ limit' \in Seq(Configs \cup {Default}) /\ Len(limit') = Len(limit) /\ limit'[o] = config
        /\ \A i \in 1 .. Len(limit) : i # o => limit'[i] = limit[i]
    <2>1. /\ limit \in Seq(Configs \cup {Default}) /\ config \in Configs \cup {Default}
          /\ taskQueues \in [Queues -> 0..Len(limit)]
          /\ limit' = [limit EXCEPT ![o] = config]
      BY DEF Apply, ManagerInv, ObjectTypes
    <2>2. Len(limit) \in Nat
      BY <2>1, LenProperties
    <2>3. o \in 1 .. Len(limit)
      BY <1>1, <2>1, <2>2
    <2>4. QED
      BY <2>1, <2>3, ExceptSeq
  <1>5. ObjectTypes'
    BY <1>1, <1>3, <1>4 DEF ManagerInv, ObjectTypes, CallRecords
  <1>6. TablesInv'
    BY <1>1 DEF ManagerInv, TablesInv
  <1>7. ASSUME NEW r \in Queues \ {q}, taskQueues[r] # 0
        PROVE  limit'[taskQueues[r]] = limit[taskQueues[r]]
    <2>1. taskQueues[r] # o
      BY <1>1, <1>7 DEF ManagerInv, TablesInv
    <2>2. Len(limit) \in Nat /\ taskQueues[r] \in 0 .. Len(limit)
      BY LenProperties DEF ManagerInv, ObjectTypes
    <2>3. taskQueues[r] \in 1 .. Len(limit)
      BY <1>7, <2>2
    <2>4. QED
      BY <1>4, <2>1, <2>3
  <1>8. QueueIsConfigured'
    <2> SUFFICES ASSUME NEW r \in Queues, taskQueues'[r] # 0, r \notin unsafe',
                        \A u \in Threads : call'[u].q = r => ~Configures(u)'
                 PROVE  /\ latest'[r] = taskQueues'[r]
                        /\ hashes'[r] # None => limit'[taskQueues'[r]] = hashes'[r]
      BY DEF QueueIsConfigured, Configures
    <2>1. r # q
      BY <1>2, <1>3 DEF Configures, Asks
    <2>2. \A u \in Threads : call[u].q = r => ~Configures(u)
      BY <1>3, <2>1 DEF Configures, Asks
    <2>3. latest[r] = taskQueues[r] /\ (hashes[r] # None => limit[taskQueues[r]] = hashes[r])
      BY <1>1, <2>2 DEF ManagerInv, QueueIsConfigured, Configures
    <2>4. QED
      BY <1>1, <1>7, <2>1, <2>3
  <1>9. ASSUME NEW u \in Threads
        PROVE  CallOf(u)' /\ AloneOf(u)' /\ MakingOf(u)'
    <2>1. \A v \in Threads : /\ Configures(v)' <=> Configures(v)
                             /\ Makes(v)' <=> Makes(v)
                             /\ call'[v].q = call[v].q
      BY <1>1, <1>2, <1>3 DEF Configures, Makes, Asks
    <2>2. CallOf(u)'
      <3>1. CASE u = t
        BY <1>1, <1>2, <1>3, <3>1 DEF CallOf, Asks
      <3>2. CASE u # t
        BY <1>1, <1>3, <3>2 DEF ManagerInv, CallOf
      <3>3. QED
        BY <3>1, <3>2
    <2>3. QED
      BY <1>1, <2>1, <2>2 DEF ManagerInv, AloneOf, MakingOf
  <1>10. ASSUME NEW u \in Threads PROVE ConfigOf(u)'
    <2>1. CASE u = t
      BY <1>1, <1>2, <1>3, <1>4, <2>1 DEF ConfigOf, Asks
    <2>2. CASE u # t
      <3>1. Configures(u) /\ call[u].q \notin unsafe => call[u].q # q
        BY <1>1, <2>2 DEF ManagerInv, AloneOf
      <3>2. CASE call[u].pc = "hash" /\ call[u].q \notin unsafe
        <4>1. call[u].q \in Queues \ {q} /\ taskQueues[call[u].q] # 0
          BY <3>1, <3>2 DEF ManagerInv, CallOf, Configures, Asks
        <4>2. limit'[taskQueues[call[u].q]] = limit[taskQueues[call[u].q]]
          BY <1>7, <4>1
        <4>3. QED
          BY <1>1, <1>3, <2>2, <3>2, <4>2 DEF ManagerInv, ConfigOf
      <3>3. CASE ~(call[u].pc = "hash" /\ call[u].q \notin unsafe)
        BY <1>1, <1>3, <2>2, <3>3 DEF ManagerInv, ConfigOf
      <3>4. QED
        BY <3>2, <3>3
    <2>3. QED
      BY <2>1, <2>2
  <1>11. (\A u \in Threads : Current(held[u])') /\ \A w \in WorkerNames : Current(workers[w])'
    BY <1>1 DEF ManagerInv, Current
  <1>12. QED
    BY <1>5, <1>6, <1>8, <1>9, <1>10, <1>11 DEF ManagerInv

\* The kwargs are remembered, the lock is released, the object handed out.
LEMMA StoreHashStep ==
  ASSUME ManagerInv, NEW t \in Threads, StoreHash(t) PROVE ManagerInv'
  <1> DEFINE q == call[t].q
  <1>1. /\ Asks(t, {"hash"}) /\ Configures(t) /\ q \in Queues /\ call[t] \in CallRecords
        /\ CallOf(t) /\ AloneOf(t) /\ ConfigOf(t) /\ taskQueues[q] # 0
        /\ UNCHANGED <<config, limit, taskQueues, latest, workers, workerHashes, raced, unsafe, calls>>
        /\ hashes' = [hashes EXCEPT ![q] = call[t].config] /\ Return(t, taskQueues[q])
    BY CallTypes DEF StoreHash, ManagerInv, CallOf, Asks, Configures, classes
  <1>2. /\ \E c \in CallRecords : /\ Calling(t, c) /\ c.pc \in {"idle", "worker", "make"}
                                  /\ c.pc # "idle" => c.q = q /\ c.w # None
                                  /\ c.spawn => c.w # None
        /\ held' \in [Threads -> (Queues \cup {None}) \X (0..Len(limit))]
        /\ \A u \in Threads : Current(held[u])'
        /\ \A w \in WorkerNames : Current(workers[w])'
    <2>1. Asks(t, {"check", "hash"}) /\ raced \subseteq raced'
      BY <1>1 DEF Asks
    <2>2. QED
      BY <1>1, <2>1, ReturnTypes
  <1>3. PICK c \in CallRecords : /\ Calling(t, c) /\ c.pc \in {"idle", "worker", "make"}
                                 /\ c.pc # "idle" => c.q = q /\ c.w # None
                                 /\ c.spawn => c.w # None
    BY <1>2
  <1>4. /\ call'[t] = c /\ call' \in [Threads -> CallRecords]
        /\ \A u \in Threads \ {t} : call'[u] = call[u]
    BY <1>3, CallTypes DEF ManagerInv
  <1>5. /\ hashes' \in [Queues -> Settings] /\ hashes'[q] = call[t].config
        /\ \A r \in Queues \ {q} : hashes'[r] = hashes[r]
    BY <1>1 DEF ManagerInv, ObjectTypes, CallRecords
  <1>6. lock' \in Threads \cup {None}
    BY DEF StoreHash, Released, ManagerInv, ObjectTypes
  <1>7. ObjectTypes'
    BY <1>1, <1>2, <1>4, <1>5, <1>6 DEF ManagerInv, ObjectTypes, CallRecords
  <1>8. TablesInv'
    BY <1>1 DEF ManagerInv, TablesInv
  <1>9. QueueIsConfigured'
    <2> SUFFICES ASSUME NEW r \in Queues, taskQueues'[r] # 0, r \notin unsafe',
                        \A u \in Threads : call'[u].q = r => ~Configures(u)'
                 PROVE  /\ latest'[r] = taskQueues'[r]
                        /\ hashes'[r] # None => limit'[taskQueues'[r]] = hashes'[r]
      BY DEF QueueIsConfigured, Configures
    <2>1. CASE r = q
      <3>1. call[t].config # None => limit[taskQueues[q]] = call[t].config
        BY <1>1, <2>1 DEF ConfigOf, Asks
      <3>2. latest = taskQueues
        BY DEF ManagerInv, TablesInv
      <3>3. QED
        BY <1>1, <1>5, <2>1, <3>1, <3>2
    <2>2. CASE r # q
      <3>1. \A u \in Threads : call[u].q = r => ~Configures(u)
        BY <1>4, <2>2 DEF Configures, Asks
      <3>2. latest[r] = taskQueues[r] /\ (hashes[r] # None => limit[taskQueues[r]] = hashes[r])
        BY <1>1, <3>1 DEF ManagerInv, QueueIsConfigured, Configures
      <3>3. QED
        BY <1>1, <1>5, <2>2, <3>2
    <2>3. QED
      BY <2>1, <2>2
  <1>10. ASSUME NEW u \in Threads
         PROVE  CallOf(u)' /\ AloneOf(u)' /\ ConfigOf(u)' /\ MakingOf(u)'
    <2>1. ~Configures(t)' /\ ~Makes(t)'
      BY <1>3, <1>4 DEF Configures, Makes, Asks
    <2>2. \A v \in Threads \ {t} : /\ Configures(v)' <=> Configures(v)
                                   /\ Makes(v)' <=> Makes(v)
      BY <1>4 DEF Configures, Makes, Asks
    <2>3. CASE u = t
      <3>1. CallOf(t)'
        BY <1>1, <1>3, <1>4 DEF CallOf
      <3>2. ConfigOf(t)'
        BY <1>3, <1>4 DEF ConfigOf
      <3>3. QED
        BY <2>1, <2>3, <3>1, <3>2 DEF AloneOf, MakingOf
    <2>4. CASE u # t
      <3>1. CallOf(u)' /\ ConfigOf(u)'
        BY <1>1, <1>4, <2>4 DEF ManagerInv, CallOf, ConfigOf
      <3>2. AloneOf(u)' /\ MakingOf(u)'
        BY <1>1, <1>4, <2>1, <2>2, <2>4 DEF ManagerInv, AloneOf, MakingOf
      <3>3. QED
        BY <3>1, <3>2
    <2>5. QED
      BY <2>3, <2>4
  <1>11. QED
    BY <1>2, <1>7, <1>8, <1>9, <1>10 DEF ManagerInv

\* Nothing that ManagerInv speaks of changes.
LEMMA TablesStay ==
  ASSUME ManagerInv, UNCHANGED <<objects, call, held, raced, unsafe, calls>>
  PROVE  ManagerInv'
  <1>1. ObjectTypes' /\ TablesInv' /\ QueueIsConfigured'
    BY DEF ManagerInv, ObjectTypes, TablesInv, QueueIsConfigured, Asks, objects
  <1>2. (\A u \in Threads : Current(held[u])') /\ \A w \in WorkerNames : Current(workers[w])'
    BY DEF ManagerInv, Current, objects
  <1>3. ASSUME NEW u \in Threads
        PROVE  CallOf(u)' /\ AloneOf(u)' /\ ConfigOf(u)' /\ MakingOf(u)'
    BY DEF ManagerInv, CallOf, AloneOf, ConfigOf, MakingOf, Makes, Configures, Asks, objects
  <1>4. QED
    BY <1>1, <1>2, <1>3 DEF ManagerInv

\* The calls of the manager.
LEMMA StartCallStep ==
  ASSUME ManagerInv, NEW t \in Threads, NEW c \in CallRecords, StartCall(t, c),
         c.pc \in {"check", "worker"}, c.q \in Queues,
         c.spawn \/ c.pc = "worker" => c.w # None
  PROVE  ManagerInv'
  BY BeginStep DEF StartCall

LEMMA QueueCallStep ==
  ASSUME ManagerInv, NEW t \in Threads, NEW q \in Queues, NEW cfg \in Settings,
         GetTaskQueue(t, q, cfg) \/ AGetTaskQueue(t, q, cfg)
  PROVE  ManagerInv'
  <1>1. PICK c : /\ StartCall(t, c)
                 /\ \/ c = [Idle EXCEPT !.pc = "check", !.q = q, !.config = cfg, !.locked = TRUE]
                    \/ c = [Idle EXCEPT !.pc = "check", !.q = q, !.config = cfg]
    BY DEF GetTaskQueue, AGetTaskQueue
  <1>2. c \in CallRecords /\ c.pc = "check" /\ c.q = q /\ ~c.spawn
    BY <1>1 DEF Idle, CallRecords, Steps, Settings
  <1>3. QED
    BY <1>1, <1>2, StartCallStep

LEMMA WorkerCallStep ==
  ASSUME ManagerInv, NEW t \in Threads, NEW q \in Queues, NEW w \in WorkerNames,
         NEW cfg \in Settings, NEW wcfg \in Settings,
         \/ AGetTaskWorker(t, w, q, wcfg) \/ GetTaskWorker(t, w, q, cfg, wcfg)
         \/ Spawn(t, w, q, cfg, wcfg)
  PROVE  ManagerInv'
  <1>1. PICK c : /\ StartCall(t, c)
                 /\ \/ c = [Idle EXCEPT !.pc = "worker", !.q = q, !.config = wcfg, !.w = w,
                                        !.wconfig = wcfg]
                    \/ c = [Idle EXCEPT !.pc = "worker", !.q = q, !.config = cfg, !.w = w,
                                        !.wconfig = wcfg, !.locked = TRUE]
                    \/ c = [Idle EXCEPT !.pc = "check", !.q = q, !.config = cfg, !.w = w,
                                        !.wconfig = wcfg, !.spawn = TRUE]
    BY DEF AGetTaskWorker, GetTaskWorker, Spawn
  <1>2. c \in CallRecords /\ c.pc \in {"check", "worker"} /\ c.q = q /\ c.w = w
    BY <1>1 DEF Idle, CallRecords, Steps, Settings
  <1>3. w # None
    BY NoneAssumption
  <1>4. QED
    BY <1>1, <1>2, <1>3, StartCallStep

\* A new instance registers its functions and then gets its queue.
LEMMA NewInstanceStep ==
  ASSUME ManagerInv, NEW t \in Threads, NEW k \in Classes, NEW q \in Queues,
         NewInstance(t, k, q)
  PROVE  ManagerInv'
  <1> DEFINE c == [Idle EXCEPT !.pc = "check", !.q = q, !.locked = TRUE]
  <1>1. UNCHANGED <<objects, held, raced, unsafe>>
    BY DEF NewInstance
  <1>2. UNCHANGED <<call, calls>> \/ Begin(t, c)
    BY Zenon DEF NewInstance, RegisterMethods
  <1>3. c \in CallRecords /\ c.pc = "check" /\ c.q = q /\ ~c.spawn
    BY DEF Idle, CallRecords, Steps, Settings
  <1>4. CASE UNCHANGED <<call, calls>>
    BY <1>1, <1>4, TablesStay
  <1>5. CASE Begin(t, c)
    <2> HIDE DEF c
    <2>1. QED
      BY <1>1, <1>3, <1>5, BeginStep
  <1>6. QED
    BY <1>2, <1>4, <1>5

LEMMA ManagerInvariant == RegistrySpec => []ManagerInv
  <1>1. RegistryInit => ManagerInv
    <2> SUFFICES ASSUME RegistryInit PROVE ManagerInv
      OBVIOUS
    <2>1. /\ call = [t \in Threads |-> Idle] /\ held = [t \in Threads |-> <<None, 0>>]
          /\ workers = [w \in WorkerNames |-> <<None, 0>>]
          /\ taskQueues = [q \in Queues |-> 0] /\ latest = [q \in Queues |-> 0]
          /\ limit = <<>> /\ lock = None /\ config = Default /\ calls = 0
          /\ hashes = [q \in Queues |-> None] /\ workerHashes = [w \in WorkerNames |-> None]
          /\ raced = {} /\ unsafe = {}
      BY DEF RegistryInit
    <2>2. ObjectTypes
      <3>1. limit \in Seq(Configs \cup {Default}) /\ Len(limit) = 0
        BY <2>1, EmptySeq
      <3>2. calls \in 0 .. MaxCalls
        BY <2>1, BoundAssumption
      <3>3. Idle \in CallRecords
        BY IdleType
      <3>4. QED
        BY <2>1, <3>1, <3>2, <3>3 DEF ObjectTypes, CallRecords, Settings
    <2>3. TablesInv /\ QueueIsConfigured
      BY <2>1 DEF TablesInv, QueueIsConfigured
    <2>4. \A t \in Threads : CallOf(t) /\ AloneOf(t) /\ ConfigOf(t) /\ MakingOf(t)
      BY <2>1, IdleType DEF CallOf, AloneOf, ConfigOf, MakingOf, Makes, Configures, Asks
    <2>5. (\A t \in Threads : Current(held[t])) /\ \A w \in WorkerNames : Current(workers[w])
      BY <2>1 DEF Current
    <2>6. QED
      BY <2>2, <2>3, <2>4, <2>5 DEF ManagerInv
  <1>2. ManagerInv /\ [RegistryNext]_registryVars => ManagerInv'
    <2> SUFFICES ASSUME ManagerInv, [RegistryNext]_registryVars PROVE ManagerInv'
      OBVIOUS
    <2>1. ASSUME NEW t \in Threads, Step(t) PROVE ManagerInv'
      BY <2>1, CheckStep, EnterStep, BuildStep, ApplyStep, StoreHashStep, WorkerCheckStep,
         MakeWorkerStep DEF Step
    <2>2. ASSUME NEW t \in Threads, NEW c \in Classes, NEW q \in Queues, NewInstance(t, c, q)
          PROVE  ManagerInv'
      BY <2>2, NewInstanceStep
    <2>3. ASSUME NEW c \in Classes, NEW q \in Queues,
                 DeclareObject(c, q) \/ NewObject(c, q)
          PROVE  ManagerInv'
      BY <2>3, TablesStay DEF DeclareObject, NewObject
    <2>4. ASSUME NEW c \in Classes, Declare(c) PROVE ManagerInv'
      BY <2>4, TablesStay DEF Declare
    <2>5. ASSUME NEW t \in Threads, NEW q \in Queues,
                 \/ PatchedFunction(t, q) \/ QueueTasksCall(t, q) \/ QueueTasksWait(t, q)
          PROVE  ManagerInv'
      <3>1. Uses(t, <<q, latest[q]>>)
        BY <2>5 DEF PatchedFunction, QueueTasksCall, QueueTasksWait
      <3>2. <<q, latest[q]>> \in (Queues \cup {None}) \X (0..Len(limit))
            /\ Current(<<q, latest[q]>>)
        BY DEF ManagerInv, ObjectTypes, TablesInv, Current
      <3>3. QED
        BY <3>1, <3>2, UsesStep
    <2>6. ASSUME NEW t \in Threads, NEW w \in WorkerNames,
                 WorkerCall(t, w) \/ \E q \in Queues : WorkerWait(t, w, q)
          PROVE  ManagerInv'
      <3>1. Uses(t, workers[w])
        BY <2>6 DEF WorkerCall, WorkerWait
      <3>2. workers[w] \in (Queues \cup {None}) \X (0..Len(limit)) /\ Current(workers[w])
        BY DEF ManagerInv, ObjectTypes
      <3>3. QED
        BY <3>1, <3>2, UsesStep
    <2>7. ASSUME NEW t \in Threads, NEW q \in Queues, NEW cfg \in Settings,
                 GetTaskQueue(t, q, cfg) \/ AGetTaskQueue(t, q, cfg)
          PROVE  ManagerInv'
      BY <2>7, QueueCallStep
    <2>8. ASSUME NEW t \in Threads, NEW q \in Queues,
                 \/ Passthrough(t, q) \/ PassthroughWait(t, q) \/ ModuleCall(t, q) \/ ModuleWait(t, q)
          PROVE  ManagerInv'
      BY <2>7, <2>8 DEF Passthrough, PassthroughWait, ModuleCall, ModuleWait, Settings
    <2>9. ASSUME NEW t \in Threads, NEW q \in Queues, NEW w \in WorkerNames,
                 NEW cfg \in Settings, NEW wcfg \in Settings,
                 \/ AGetTaskWorker(t, w, q, wcfg) \/ GetTaskWorker(t, w, q, cfg, wcfg)
                 \/ Spawn(t, w, q, cfg, wcfg)
          PROVE  ManagerInv'
      BY <2>9, WorkerCallStep
    <2>10. CASE UNCHANGED registryVars
      BY <2>10, TablesStay DEF registryVars
    <2>11. None \in Settings /\ Configs \subseteq Settings
      BY DEF Settings
    <2>12. QED
      BY <2>1, <2>2, <2>3, <2>4, <2>5, <2>6, <2>7, <2>8, <2>9, <2>10, <2>11 DEF RegistryNext
  <1>3. QED
    BY <1>1, <1>2, PTL DEF RegistrySpec

\* The queues of a process agree with what the threads asked for: once nobody
\* is at it, a queue is configured as it was asked for last, and all callers
\* of one name share one object, unless two threads were in the manager at once.
THEOREM QueuesShared == RegistrySpec => []QueuesAgree
  <1>1. ManagerInv => QueuesAgree
    BY DEF ManagerInv, QueuesAgree, OneTaskQueue, Current
  <1>2. QED
    BY <1>1, ManagerInvariant, PTL
=============================================================================
