# TLA+ models of kvdb-py

Specifications, model-checking runs and machine-checked proofs for kvdb-py: the task
queue and its workers, the task registry, worker processes, connection pools, locks,
persistent dictionaries, the function cache and sessions.  Paths below are those of the
repository (`src/` stands for its root); the lines each definition stands for are in
`PROJECT.json` under `map`.

* [1. Inventory](#1-inventory)
* [2. Modules and how they correspond to the code](#2-modules-and-how-they-correspond-to-the-code)
* [3. Runs](#3-runs)
* [4. Theorems](#4-theorems)
* [5. What does not hold](#5-what-does-not-hold)
* [6. What is not modelled](#6-what-is-not-modelled)
* [7. Plan](#7-plan)

## 1. Inventory

kvdb-py is a client library over redis-py: sessions and connection pools for sync and
async code, pipelines and scripts, locks, dictionaries and function caches kept in the
server, and a task queue with workers, retries and cron jobs.

| component | state | operations | interacts with | module |
|---|---|---|---|---|
| task queue (`tasks/queue.py`, `static.py`) | in the server: lists `queued` and `active`, sorted set `incomplete`, one string per job, abort keys, set `stuck`, lock keys | `enqueue`, `schedule`, `dequeue`, `update`, `finish`, `retry`, `abort`, `sweep`, `check_stuck_jobs` | workers and clients of every process, through the server | `TaskQueue` |
| operation semaphore (`queue.py`) | `_op_sem`, one per process | `enqueue`, `abort`, `get_job_by_id` enter and leave | the tasks of one event loop | `OpSemaphore` |
| worker (`tasks/worker.py`) | the tasks of its loop, `job_task_contexts`, its event | start, process and broadcast tasks, polls, signal, reschedule, stop | task queue | `Worker`, `TaskQueue` |
| listeners and waiting callers (`queue.py`, `types/jobs.py`) | subscriptions, copies of jobs | `map`, `apply`, `broadcast`, `listen`, `wait_for_job(s)`, `as_jobs_complete` | what workers store and publish | `JobListen` |
| job (`types/jobs.py`) | `status`, `attempts`, `scheduled`, `ttl`, `timeout` | `stuck`, `refresh`, `reset`, `complete` | copied by value between server, worker, sweep, client | in the three above |
| task functions and registration (`tasks/main.py`, `tasks.py`, `abstract.py`, `wraps.py`) | classes, settings of functions, tables of queues and workers, a lock | declare, compile, instantiate, `get_task_queue`, `get_task_worker` | threads of one process | `Registry` |
| worker processes (`tasks/spawn.py`) | process and task of every name | start, register, signal, `exit_task_workers` | workers, multiprocessing | `WorkerProcesses` |
| connection pools (`components/connection_pool*.py`) | available and in-use connections, a count, a lock | get, ensure, release, reset, disconnect, warm | threads or tasks of one process | `ConnectionPool` |
| locks (`components/lock.py`, `session.py`, `persistence.py`) | a key with a token, places for tokens | acquire, release, forced release, close | server | `KVLock` |
| persistent dictionaries (`components/persistence.py`) | a hash and a hash of expirations, or plain keys | get, set, pop, set operations, counters, check, clear, dump, load, migrate | server; used by the cache and the queue | `PersistentDict` |
| function cache (`io/cachify/base.py`) | values; hits, key hits, timestamps, expirations as four values | look-up, store, policies, invalidate, clear | persistent dictionary, background tasks | `Cachify` |
| sessions, encoder (`client.py`, `types/contexts.py`, `io/encoder.py`) | sessions by name, pools by URL key, the context, encoders | `session`, `get_session`, `set_session`, write, read, switch serialization | threads of one process | `Session` |
| push queue, pipelines, pubsub, connections, serializers, configuration, cluster clients | - | delegation and conversion | redis-py | section 6 |

What is hard about them:

* **Interleaving.**  The server executes a Lua script or a MULTI/EXEC pipeline as one
  step, but an operation is often several: `abort` is three awaited steps, `sweep` lists,
  then reads, then acts from what it read, the cache reads, changes and writes back four
  records, `disconnect` awaits with the pool in its hands.
* **Copies.**  A worker, a sweep and a client each hold their own copy of a job and write
  it back whole; settings dicts are shared by reference between classes and methods; the
  URL object is shared by all sessions.
* **Failure.**  Workers die between any two steps, `Job.update` suppresses every exception,
  replies are lost, connecting fails, tasks are cancelled at any await.
* **Time.**  Abort keys, lock timeouts, results and dictionary fields expire; `stuck` and the
  worker's own `wait_for` count the same timeout from different instants.
* **Waiting.**  Slots, connections, the manager's lock, processes and published messages
  are waited for, sometimes by somebody who holds what the other needs.

What makes each component correct is stated by the properties in section 3.
`PROJECT.json` lists under `hazards` the lines at which they are most at risk.

## 2. Modules and how they correspond to the code

Every module has one action per step that is atomic in the code: a script, a transaction
or a command of the server; what a task of an event loop does from one `await` to the
next; what a thread does under a lock.  `MC*` modules give TLC the values of constants
that a `.cfg` cannot write; definitions marked "Mutant of" are plausible errors that the
properties are tested against and are not part of any specification.

### TaskQueue, JobLifecycle

*State.*  `queued` and `active` are the two lists, as the number of occurrences of each
job: `LREM`, `RPUSH`, `LPUSH` and the listing of `active` depend on occurrences only.
`incomplete` is the sorted set with its score reduced to what the scripts tell apart:
none, 0, a future time, a past time.  `store` is the serialized job, reduced to its status
and its attempts; `expiring` are the keys with a time to live; `late` the ACTIVE jobs for
which `Job.stuck` holds.  `pc`, `job` and `rec` are one `process_queue` task of a worker
with its own copy of the job; a worker with `concurrency = n` is n elements of `Workers`.
`sweepPc`, `sweepIds`, `sweepSnap` are a sweep under way and what it read; `clientPc`,
`clientJob` an abort under way; `checker`, `checkPc` the leader's `check_stuck_jobs`.

| code | actions |
|---|---|
| `TaskQueue.enqueue` and its script | `Enqueue` (a refused call changes nothing) |
| `TaskQueue.schedule` and its script, called from the loop over cron jobs in `TaskWorker.schedule` | `Schedule` |
| `dequeue`: BLMOVE, then GET | `Dequeue`, `Fetch` |
| `process_queue` | `Start`, `Launch`, `LaunchFails`, `Heartbeat`, `Complete`, `Raise`, `Fail`, `Retry` |
| `TaskWorker.abort` | `AbortPoll`, `AbortFinish`, `AbortClear` |
| `TaskQueue.abort` | `AbortJob`, then `AbortedFinish` and `AbortedClear`, or `AbortUnlist` |
| `TaskQueue.sweep` | `SweepList`, `SweepRead`, `SweepJob`, `SweepEnd` |
| `check_stuck_jobs` | `CheckTtl`, `CheckStuck`, `Requeue`, `Unmark` |
| time in the server and in `Job.stuck` | `BecomeDue`, `BecomeLate`, `JobExpires`, `AbortKeyExpires`, `LockExpires` |
| the death of a process | `Crash`, `CheckerCrash` |

*Faults* are switched on by the constant `Faults`: `update_lost` (the suppressed exception
of `Job.update`), `finish_lost` (`finish` was applied but its reply was lost, so the `except`
clause runs), `launch` (`before_process` raises while `function` is still `None`).

*Bounds.*  `MaxCrashes` limits crashes and `MaxCopies` the occurrences of one job in a list;
the guards that use them are bounds of the model.  In the configurations called exclusive
below no list ever holds a job twice in `queued` (`OnePlace`, proved), so `MaxCopies = 2`
cuts nothing off.  `attempts` saturates at `Retries + 2`: the code only asks whether it
exceeds `Retries`.

`JobLifecycle` is the abstract specification: `new -> waiting | delayed`, `delayed ->
waiting`, `waiting -> running`, `running -> waiting | delayed`, everything but `new`
`-> ended`, and nothing after `ended`.  The refinement mapping `Phase` reads the phase of a
job off the keys and the workers: a worker has it; else it is in `queued`; else its score
is a time; else it was enqueued and has ended.  It deliberately ignores `active` and a
score of 0, which `finish` and `sweep` remove whoever works on the job.

The abort poll is a task of its own, beside the `process_queue` task whose job it cancels.
The two are one sequence in the model (`AbortPoll`, `AbortFinish`, `AbortClear`): the poll marks
the job, cancels its task and awaits it before it writes anything, and the `CancelledError`
branch of `process_queue` sees the mark and writes nothing.  That the process task may be
at its next job before the poll has finished the old one is what another element of
`Workers` does.  A function is taken to end when it is cancelled; one that swallows the
cancellation and returns would have its job finished by both.

### OpSemaphore

`configure` gives a live queue a new `_op_sem` (`queue.py:162`), while tasks hold slots of the old
one or wait for it.  Semaphores are therefore numbered: `current` is the one `_op_sem` refers to,
`size` the limit each was made with, `awaited` the one a task read before it waited.  `outer` is
the semaphore of which a task has a slot for its `enqueue` or `abort`, `inner` that of its
`get_job_by_id`; the two draw on the same slots, or on those of two semaphores if `configure`
came in between.  `Returning` are the tasks that pass `return_existing_job`, `Bypassing` those
whose jobs have `bypass_lock`.
`known` says whether the enqueue script would refuse the key; other processes change it
at any time (`KeyChanges`).

### Worker

One worker from `start` to the end of its event loop, and its next start.  `task` is the
sequence of process and broadcast tasks, each with its list, its program counter, its job
and whether it was cancelled; `resched` is where the `_reschedule` of each job is; the
server's keys are those of `TaskQueue`, reduced to where a job is.  `MainStep` is `start`,
`stop` and the shutdown, `TaskStep` a task from one await to the next, `Signal` the event,
`DoneCallback` the replacement of a finished task (one for every queue, as in the code; `Slots` and
`TasksFor` say which tasks a call makes, in an order that does not matter),
`RescheduleFinish` and `RescheduleAdd` the two transactions of `_reschedule`, which nobody
awaits, and `LoopEnds` what cuts them off.  A cancellation takes effect at the await where
the task is, a transaction in flight having been applied or not.

### JobListen

`status` is the stored record of each key and `note` what has still to be published of it: a
transaction and its `notify` are two steps, and a process may die in between (`NotifyLost`).
`incomplete`, `queued` and `running` are whether a key is in the sorted set, how often it is in
the list and how many workers have its job at hand.  They are independent of the record, since
no write looks at the record it replaces: `Sweep` and `Abort` end a job that a worker still runs,
and `Settle`, the `finish` or `retry` of that worker, overwrites what they published.  `ended`,
`again` and `expired` are history: the keys that had a result, those whose record was written
again after it (enqueued, or retried or finished after a sweep), those whose record was gone.
`call` is a call of `map`, `apply` or `broadcast` with the listener it
started; `inbox` what reached its subscription; `wait` a call of `wait_for_jobs` and its like
with the list it shortens while it walks over it.  Workers, heartbeat keys and broadcast
jobs decide which jobs may be done at all: `own`, chosen in the initial state from `Owns`, says
of each key whether its job is in the shared list (`None`) or in that of one worker; a worker
without such jobs (`Broadcast`) makes no difference to the others, and its registration is
left out.

### Registry

`declared`, `partials`, `own`, `functions`, `taskObjects` are the tables of the task manager,
of the classes and of the queues.  The settings of a function are represented by the set
of decorators they come from, so that `dict.update` is a union and a leak shows as an
origin that should not be there.  `taskQueues`, `hashes`, `limit`, `config` and `lock` are what
`get_task_queue`, `aget_task_queue` and `get_task_worker` look at and change; a call is split
at the check without the lock, the waiting for it, the construction, the configuration and
the store of the hash.  A program (`Program`) is which classes it declares, what they define,
mark and decorate, and its threads.

### WorkerProcesses

`workers` are all workers started, by program, name, kind and state; `registry` is
`_WorkerProcesses`, `handler` the worker whose event the signal handler sets, `pass` an
`exit_task_workers` under way: `join`, `terminate` and `close`, the failing `pthread_kill`, the
kill.  `lost` remembers processes whose entry was overwritten or is not looked at.  What a
worker does when told to stop is `Worker`; here it takes any time, or forever.

### ConnectionPool

The five pools in one module, chosen by `kind` in the initial state, since they share
`ensure_connection` and most of their state.  `at` and `conn` are where each user is and
what it has; a thread's `get_connection` is one step under the lock, a task's is split at
its awaits.  `Pop`, `MakeConnection`, `Exhausted` are the parts of it; `GetFast`, `Claim`,
`GetSlow`, `GetBlock` the optimized pool; `Connect`, `CheckRead`, `Reconnect`, `Reestablish`,
`HealthCheck`, `EnsureFails` are `ensure_connection` and its retries.  `Release` and the queue of
the blocking thread pool are those of redis-py, from how the code uses them.  The timeout of a blocking
pool covers the whole wait, so `TimedOut` and a cancellation also reach a task that was
notified and has not got the lock yet; `missed` counts the wake-ups lost that way.  `closed`,
`closing` and `cut` are kept for `UsersAreConnected`.

### KVLock

`store` is the key, a user standing for its token; `token` the places where tokens are kept: a
thread has its own, the tasks of a loop share the one of the session's `AsyncLock`, and so
do the users of a dictionary's context lock.  `Release` takes the token from the place,
`LuaRelease` is the script, `ForceDelete` the unconditional delete after it.

### PersistentDict

`data` and `exp` are the two hashes (or the keys and their own expirations in string mode),
`ttl` the time to live that `load_data_raw` sets on the whole hash, `now` the clock, `pc` each
client with its local variables.  The Lua scripts `HGetExpires`, `HSetScript` and their kin are
single steps; checks, set operations, clears, contains, migrations and clones are split at
their commands.  So is a `get` whose value does not decode: the deletion (`DropUndecodable`) takes
whatever is there by then.  A migration writes back what it read, expired or not, and a clone
of the expirations replaces those of the target only if told to (`overwrite`).  `due`, `early` and
`torn` are history for the properties; `early` records how a value was lost before its time, by an
expiration check or after a failed decode.

### Cachify

`cache` is the hash of results, a result being the version of what the function would return;
`hits`, `keyhits`, `timestamps`, `expirations` the four records, each read whole and written back.
`pc` is a caller or a background task with the method it is in and the copies it read.
`style` says whether everything happens in one call (sync), over awaits, or partly in
background tasks; `policy` is the size policy.  A look-up that finds a value
counts the hit and runs the policies before it decodes (`base.py:1123`); `Hit` then returns the value
or, if it does not decode or gives None, goes on to call the function.  `calls`, `found`,
`floor`, `swept`, `timedout` are history: `found` counts the look-ups that found a value, for a
single caller from the last `clear` on, which resets what `invalidate_after` compares; `floor` is the oldest version an
invalidation has left; `swept` the time of the last removal of what has expired.

### Session

`key` is the key attribute of the shared `settings.url`, `pools` the manager's pools by key,
`sessions` and `opened` the sessions by name and all that were made, `ctx` and `queueCtx` the
contexts.  `create_session` is split where another thread can come between: the key, the
look-up of the pool, the pool, the session, the table.  A value is what its encoders can do to
it (`object`, `text`, the text `null`, `none`).

## 3. Runs

All bounds are the constants of the `.cfg` files; states are distinct states.

| run | instance | checks | states |
|---|---|---|---|
| `exclusive` | one job, two workers, one of them sweeping, an aborting client, two crashes, all faults, delayed and immediate retries | `AtMostOneRun`, `DelayIsServed`, `AttemptsBounded`, `AbortIsExclusive`, `GoneForGood`, `ImplementsLifecycle` | 171,628 |
| `crash_live` | one job, one worker with its sweep and the stuck checker, a crash of worker or checker at any step | `NoLostJob`, `EveryJobSettles` | 334,172 |
| `semaphore` | three tasks, two or three slots; one returns existing jobs, one does so and bypasses, one neither; one `configure` at any time | `SlotsOfCalls`, `NeverStuck`, `EveryCallReturns`, `ExcessPasses` | 22,920 |
| `worker` | one job; two tasks for one queue, one process and one broadcast task, or two queues; two starts | `KeptUnlessCut`, `OnlyShutdownRepeats`, `EveryQueueIsServed`, `SignalEndsWorker` | 260,814 |
| `listen` | a caller or a waiter, two shared jobs or a shared and a broadcast one, a worker that may die; one fault: a lost update, an expired record, a sweep or an abort beside a running worker, another enqueue | `MapReturnsResults`, `WaitCountsOnce`, `CallersReturn` | 575,756 |
| `registry` | six programs: four with a base class and two subclasses, one with `register_object`, one with two threads asking for a queue and a worker three times | `SettingsAreOwn`, `QueuesAgree`, `CallsReturn` | 412,594 |
| `processes` | two programs on hosts 0 and 1 with one or two workers per call, at most two and one | `NamesTellApart`, `ExitStopsAll`, `ProgramsEnd` | 185,867 |
| `pool` | each of the five pools, four users, two connections; a failure, a reset and a lost wake-up | `OneHolder`, `LeaksNeedFailures`, `PoolIsBounded`, `WaitersAreServed`, `UsersAreConnected` | 1,215,268 |
| `lock` | three flavours, three users in two loops, with and without timeout | `Exclusive`, `NotStolen`, `FreedWhileAlive` | 22,740 |
| `dict` | one field, a thread and a coroutine, clock 0..2, lives none and 1, two dumps | `ExpirationIsKept`, `NeverEarly` | 1,346,966 |
| `cache` | two callers, a background task, two keys and room for one, clock 0..1, LFU, four calls of one caller or three of two, values that decode and that do not | `NeverOvercounts`, `ExactAlone` | 1,550,379 |
| `session` | two threads, two names, two serializers, three calls of the manager, two commands | `PoolOfItsKind`, `ReadsBack`, `NamesAgree` | 2,099,800 |

Three properties have named parts: `QueuesAgree` is `QueueIsConfigured` (a queue has the
configuration last asked for) and `OneTaskQueue`; `NamesAgree` is `ContextIsCurrent` and
`OneSession`; `ExactAlone`, of a cache with one caller, is `InvalidationHolds`, `EntriesExpire` and
`NotServedAfter`.  The type invariant `TypeOK` of a module is a theorem for `TaskQueue`,
`KVLock` (`LockTypeOK`) and `ConnectionPool`, and part of the inductive invariant of
`OpSemaphore` (`SemaphoreTypeOK`; section 4); in the other modules it is the first conjunct of
`NamesAgree`, `NeverOvercounts`, `KeptUnlessCut`, `WaitCountsOnce`, `ExitStopsAll` and
`ExpirationIsKept`, and is proved with them.  `Registry` has one for its queues, workers and calls
(`ObjectTypes`, in `QueuesAgree`, proved) and one for its classes and functions (`ClassTypes`, in
`SettingsAreOwn`, checked).

Every property is paired in `PROJECT.json` with a mutant of a modelled definition (an
off-by-one in the schedule script's range, a release that keeps its connection among
those in use, a subclass compiled into its parent's dict, ...) under which TLC finds it
violated.

*What they show, and where the promise ends.*  Many properties name the event after which
the code promises nothing, and say everything else: a job is lost only between the
two transactions of `_reschedule` (`KeptUnlessCut`); a job is repeated only by a shutdown
(`OnlyShutdownRepeats`); a connection is lost only by a failure, one each (`LeaksNeedFailures`);
the lock has two owners only after an expiry, a force or a close (`Exclusive`); a stored
value loses its expiration only in three windows (`ExpirationIsKept`); a value set, read and
deleted by single fields is lost early only by the deletion after a failed decode
(`NeverEarly`); somebody waits beside an idle connection only for a wake-up that a timeout or a
cancellation swallowed (`WaitersAreServed`); two queues of one
name exist only if two threads raced past the check (`OneTaskQueue`); `get_task_worker`
hangs only on the lock it holds itself (`CallsReturn`).  `MapReturnsResults` says of every job that it
has ended before `map` returns, and of what is returned that it is a result unless the record
was written again.  `ExcessPasses` says what is left of the limit when `configure` replaces the semaphore
under those who hold it: the excess passes.  The events happen in the runs.

*Why the bounds are enough.*  The hazards are races over one job, one field, one name or one
connection between two or three actors, the clock and a fault; each instance has those, and
a second one of each kind where one step deals with several (two queues in `Worker`, two
keys of the cache for an eviction, two jobs of one `map`, the first of which fails, two
subclasses for a leak).  `Retries = 1` gives a first,
a repeated and a refused attempt; two crashes let a second one hit the recovery from the
first.  Four users of a pool of two make two wait, one of whom
may lose the wake-up the other needs.  In `listen` a worker takes each job once: its retry, or its
result after a sweep, is the second write that a caller may read.  Several jobs, scheduled jobs and any
number of workers, users or connections are covered by the theorems of section 4.

*Fairness.*  `TaskQueue`: weak fairness of the steps of `process_queue` (the event loop runs
its tasks, `asyncio.wait_for` ends every function), of aborts, sweeps, `Schedule` and the
stuck check (`upkeep` polls for ever and catches exceptions), and of the passing of time;
nothing is owed by crashes, lost replies, heartbeats, new jobs and new aborts.
`OpSemaphore`: strong fairness of each task's step: the server answers, and
`asyncio.Semaphore` wakes its waiters in turn.  `Worker`: weak fairness of the main step, of
the tasks together and of the polls' end: a loop that is alive goes on with what is ready; a
signal, a restart and an end of the loop are not owed.  `JobListen`: the loop goes on with the
caller's tasks, and of workers and of messages nothing is asked; `map` has the timeout of its `wait_for`, which
is `config.job_timeout` (15 minutes) unless the caller passes `timeout = None`, in which
case it may wait for ever.  `Registry`: a thread that can go on does; acquiring the lock is
such a step, so that nobody is starved only as far as the few bounded calls
allow.  `KVLock`: sections end and answers come; neither a crash nor
an expiry is owed, and a crashed owner owes nothing.  `WorkerProcesses`: a program goes on with its exit, whose joins have timeouts; a
worker need never end.

*Deadlock* is checked for `TaskQueue` and `OpSemaphore`, which never stop.  The other runs say
`CHECK_DEADLOCK FALSE`: their clocks, calls or resets are bounded, or the program ends.
That nobody hangs is stated by `WaitersAreServed`, `CallsReturn`, `CallersReturn`,
`SignalEndsWorker`, `ProgramsEnd` and `FreedWhileAlive` instead.

*Symmetry* of users, callers, keys or threads is used in `pool`, `cache` and `session`, which
check invariants only.

## 4. Theorems

Checked by TLAPS for every value of the constants that satisfies the named assumptions
of the modules: `ConstantsAssumption` (`TaskQueue`), `SemaphoreAssumption` (`OpSemaphore`: at least
one slot in every size, finitely many tasks), `NoneAssumption` and `LoopAssumption` (`KVLock`), `KindAssumption`,
`MaxAssumption`, `NoneAssumption`, `CloserAssumption` (`ConnectionPool`), `TimeAssumption`,
`ExpirationAssumption`, `LivesAssumption`, `NoneAssumption`, `ImportAssumption` (`PersistentDict`),
`NamesAssumption`, `NoneAssumption`, `ValuesAssumption`, `AskedAssumption`, `BoundAssumption`
(`Session`), `CountAssumption`, `DigitAssumption` (`WorkerProcesses`), `JobsAssumption`,
`BoundsAssumption`, `SettingsAssumption` (`Worker`), `ListenAssumption` (`JobListen`: finitely many
keys, each shared or of one worker), `SizeAssumption`, `BoundAssumption`, `NoneAssumption`,
`AfterAssumption`, `ProcsAssumption` (`Cachify`: finitely many callers), `NoneAssumption`,
`ClsAssumption`, `BoundAssumption`, `ParentAssumption`, `ProgramsAssumption` (`Registry`; the proof
uses the first and the third).  They give types to the constants, keep
`None` and the program that disconnects a pool (`Closer`) apart from the rest, and, in
`Worker`, say that a worker has finitely many queues and that the bound on the number of
tasks leaves room for those it starts with.

Three proof modules are about two modules each, which they both extend: `TaskQueueProofs` about
`TaskQueue` and the `Registry` whose queues those are, `ProcessesProofs` about what processes
share, `WorkerProcesses` and `KVLock`, and `CallersProofs` about the tasks that call a queue,
`JobListen` and `OpSemaphore`.  `Registry`, `KVLock` and `OpSemaphore` therefore name their
specifications after themselves: `RegistrySpec`, `LockSpec`, `SemaphoreSpec`.

`Exclusive` of `TaskQueue` names the configurations in which a job cannot be run twice at
once: keys are not reused, no stuck checker runs, and scheduled jobs are retried with a
delay only.  Section 5 says what happens without each of the three.

| module | theorem | states | argument |
|---|---|---|---|
| `TaskQueueProofs` | `TypeCorrect` | `Spec => []TypeOK` | inductive; one step per action |
| | `Exclusion`, `DelayKept`, `AbortAlone` | `Exclusive => (Spec => []AtMostOneRun)`, and so for `DelayIsServed`, `AbortIsExclusive` | `ExclusiveInv`, by the lemma `ExclusiveInvariant` |
| | `NoComeback` | `Exclusive => (Spec => GoneForGood)` | `ExclusiveInv`, as an action property |
| | `AttemptsLimit` | `Exclusive => (Spec => []AttemptsBounded)` | `ExclusiveInv` and `AttemptsInv` |
| | `NothingLost` | `Clients = {} => (Spec => []NoLostJob)` | inductive with `TypeOK`, in every configuration |
| | `Refinement` | `Exclusive => (Spec => ImplementsLifecycle)` | `ExclusiveInv`; every step maps to a step of `JobLifecycle` or a stutter |
| | `QueuesShared` | `RegistrySpec => []QueuesAgree` | `ManagerInv` |
| `ConnectionPoolProofs` | `TypeCorrect` | `Spec => []TypeOK` | `HolderInv` |
| | `OneUserEach` | `Spec => []OneHolder` | `HolderInv` |
| | `LeaksOnlyByFailure`, `Bounded` | `Spec => []LeaksNeedFailures`, `Spec => []PoolIsBounded` | `PoolInv`: `CountInv`, cardinalities |
| | `Served` | `Spec => []WaitersAreServed` | `PoolInv`: `WaitInv` |
| | `Connected` | `Spec => []UsersAreConnected` | `PoolInv`: `OpenInv` |
| `PersistentDictProofs` | `ExpirationKept` | `Spec => []ExpirationIsKept` | `DictInv`: `KeptInv` |
| | `NeverRemovedEarly` | `Spec => []NeverEarly` | `DictInv`: `PlainInv`, `SingleInv` |
| `SessionProofs` | `PoolsOfTheirKind` | `Spec => []PoolOfItsKind` | `SessionInv`: `KindInv` |
| | `Readable` | `Spec => []ReadsBack` | `SessionInv`: `EncoderInv`, `StoreInv` |
| | `NamesLead` | `Spec => []NamesAgree` | `SessionInv`: `NameInv`, `ContextInv` |
| `ProcessesProofs` | `NamesDiffer` | `Spec => []NamesTellApart` | `NumberInv`, and arithmetic on `StartIndex` |
| | `ExitStops` | `Spec => []ExitStopsAll` | `ProcessesInv`: `KnownInv`, `PassInv`, `ExitInv` |
| | `LockTypes` | `LockSpec => []LockTypeOK` | inductive |
| | `MutualExclusion` | `LockSpec => []Exclusive` | `OwnersToken` |
| | `LockIsNotStolen` | `LockSpec => NotStolen` | a thread's place holds its own token or none |
| `WorkerProofs` | `JobsKept` | `Spec => []KeptUnlessCut` | `WorkerInv`: `KeptOf`, `RunningOf` |
| | `RepeatsOnlyAtShutdown` | `Spec => []OnlyShutdownRepeats` | `WorkerInv`: `OnceOf` |
| | `QueuesServed` | `Spec => []EveryQueueIsServed` | `WorkerInv`: `ServeInv`, bijections |
| `CachifyProofs` | `HitsWereFound` | `Spec => []NeverOvercounts` | `CacheInv`: `CountInv`, cardinalities; `AloneInv` |
| | `CacheIsExact` | `Spec => []ExactAlone` | `CacheInv`: `VersionInv`, `AloneInv` |
| `CallersProofs` | `ResultsReturned` | `Spec => []MapReturnsResults` | `ListenInv`: `MapInv` |
| | `CountedOnce` | `Spec => []WaitCountsOnce` | `ListenInv`: `WaitInv`, lemmas on sequences |
| | `SlotsKept` | `SemaphoreSpec => []SlotsOfCalls` | `SlotsInv` |
| | `NoDeadlock` | `Roomy => (SemaphoreSpec => []NeverStuck)` | `SlotsInv`: who holds a slot and waits is in `Returning \ Bypassing` |

*Why `ExclusiveInv`.*  `AtMostOneRun` is not inductive: a job held by a worker could be in the
sorted set with a due score, and the next `Schedule` would queue it.  Nor do `active` and a
score of 0 say who has a job, because `finish`, `sweep` and `abort` remove them whoever works
on it.  `OnePlace` therefore says that a job is in at most one of three places, once: in
`queued`, delayed in `incomplete`, or held by one worker; and that a job never enqueued is in
none.  All actions but `Enqueue`, `Schedule`, `Dequeue` and `Retry` put a job nowhere it was not
(`NoNewPlace`), which settles most of the proof with one lemma; those four move it from one
place to one other.

*Why `AttemptsInv`.*  The record is written back from stale copies: a sweep's snapshot, a worker
whose `update` was lost.  The counter in the store may therefore go down.  The invariant says
of every copy that has used the last attempt, wherever it is, that its job is `Spent`: no
longer queued, delayed or about to be fetched.

*Why `OwnersToken`.*  That two users are never owners does not survive a release: what is
released is the token found in the place, which tasks share.  While nothing disturbed the
lock, the owner's token is in Redis, in its place, and then in the variable of its release;
so the release deletes the releasing user's own lock and nobody else's.

*Why `HolderInv`.*  `OneHolder` says nothing of a user who is about to use a connection it does
not have.  `HolderInv` adds that whoever is at a place after the pop has a connection; with
the types this is inductive, since `inUse` plays no part: a connection is handed out from
`available`, from which it is taken, or is new, that is, in no user's hands.  Three lemmas
(`Taken`, `LetGo`, `GoesOn`) cover the actions.

*Why `PoolInv`.*  The counts of a pool say nothing of who is where.  `PlaceInv` says who may hold
the lock over an await; `UseInv` that a user past the lock has a connection in `inUse`, so
that what is in use and in nobody's hands was lost by a failure; `CountInv` relates the
connections known to the number counted, kind by kind: exactly but for the failures in the
four simple pools, and twice in the optimized one, which is one behind while it warms up.
`WaitInv` then shows that a full pool without failures has a user to wait for.  `OpenInv`
follows a connection from the check that found it open: whoever is past it has one that is
neither closed nor in the list of a `disconnect` under way.

*Why `DictInv`.*  `ExpirationIsKept` has two windows, between two commands on the two hashes.
`KeptInv` says of every field that it has the expiration it was given, is in the first window
(a client is deleting its expiration), or was in the second (`torn`).  For `NeverEarly` one needs
in addition that plain keys keep value and expiration together (`PlainInv`), and that
programs which use single fields only never set a time to live on the whole hash nor leave a
field without an entry (`SingleInv`).  `LegalLocal` says which step a method can be at in
each mode.

*Why `SessionInv`.*  Each property says "unless", and the history variables say when:
`mixed`, `twice`, `replaced`, `toggled`, `bare`.  `KindInv` says that until two calls shared the URL
object its key is that of every thread about to read it; `EncoderInv` that an encoder nobody
switched is as made, so that what it does to a value is a function of the serializer
(`StoreInv`); `NameInv` that a call which goes on to make a session of a name that exists
has been recorded as one of two; `ContextInv` that a context gone stale was replaced, or is
about to be corrected by the call that made it so.

*Why `ProcessesInv`.*  `ExitStopsAll` speaks of the end of a program.  Until then a process in sight
is the only entry of its name (`KnownOf`), and a pass of `exit_task_workers` leaves alive
none whose name it is through with, but for the process it is joining or killing at the
moment (`PassOf`).  Processes out of sight are those the code has lost: overwritten by a second
start, or entries whose process it does not look at.

*Why `WorkerInv`.*  `KeptUnlessCut` is not inductive: a job cut at the end of one loop may be
rescheduled at the end of the next, and is then excused by nothing.  `RunningOf` says that what
a task works at while `start` runs is kept whatever happened to the job before, and
`PhaseInv` that no `_reschedule` survives its loop.  `OnceOf` gives a job that was never
rescheduled exactly one place.  `ServeInv` is about lengths: `start` makes one task per slot
(`TasksForSlots`), and a done callback takes one task out of the sequence and puts one per
queue in, which bijections between the old and the new indices turn into a count.

*Why `CacheInv`.*  The counters of a cache are read, changed in a copy and written back, and
between the two anybody may write what they were before.  `NeverOvercounts` compares the
records with `found` and says nothing of the copies.  `CountInv` gives each hit that was
found and not yet added its place: the record, *and every copy on its way back to it*, is
at most `found` minus the number of processes that have still to add theirs (`Uncounted`,
`KeyUncounted`), but for the process that holds the copy.  A write of a stale copy can then
lose hits and never invent one.  A `clear` of a lone caller restarts the count, which is sound
because nobody else is on the way.  For one caller `VersionInv` follows a result from its
computation to the cache, and `AloneInv` says for each step of the call which of its copies
add up, which entry has no expiration yet and how many hits are left before
`invalidate_after`; its three parts are proved apart (`HitsAddUp`, `ExpirationsAddUp`,
`ServedAddUp`), since each step disturbs one of them.

*Why `ListenInv`.*  What `map` returns is read some time after it was told that the job is done,
and what told it was published some time after the job was.  `MapInv` carries the same fact
along that way: what a worker has to publish (`NotesTrue`), what is in an inbox (`InboxTrue`) and
what the listener has ticked off (`CallInv`) is the result of a job that ended and, unless
its record was written again (`Ended`), still has it or has expired.  The four ways
to write a record have a lemma each (`StoreKeeps`, `AcceptKeeps`, `AbortKeeps`, `ExpireKeeps`): a
record that changes after a result has its key in `again` or in `expired`.  `FailureOf` names the failure that made a
listener stop before it had heard of all.  `WaitInv` says that the list and the results of
`wait_for_jobs` have no element twice nor one in common, and that whatever left the list
without a result had failed or expired; the removal from the list while it is walked over is
what needs the lemmas on sequences (`Removed`, `Shifted`, `Appended`).

*Why `ManagerInv`.*  `QueuesAgree` speaks of a queue nobody is at, and says nothing of the calls
under way, each of which may carry a config looked at before another call changed it.
`AloneOf` says that of two threads between the shared config and the hash both have their
queue in `unsafe`, so that for a queue not in it the one thread there is alone; `ConfigOf`
follows what that thread asked for from the config all constructions share to the object made
from it.  `MakingOf` says that who is making the object of a queue that was not raced for is the
only one to, and that there is none yet; `TablesInv` that no two queues have one object; hence
`Current`, that whatever a caller or a worker was handed is the object in the table.  The program
plays no part in it: classes are compiled by the same steps, and reach the queues only by
asking for them.

*Only model-checked*: all liveness (`EveryJobSettles`, `EveryCallReturns`, `SignalEndsWorker`,
`ExcessPasses`, `CallersReturn`, `CallsReturn`, `ProgramsEnd`, `FreedWhileAlive`), which is out of the prover's reach,
and one invariant, `SettingsAreOwn` of `Registry`: the compilation of a class walks over its bases
and methods with folds, and what a fold computes for every sequence needs an induction that
the prover cannot instantiate.

## 5. What does not hold

Met while modelling; each is what the modelled code does, and the reason for a condition in a
property or for the hypothesis of a theorem.  `PROJECT.json` gives the lines, under `hazards`
and in the `map` entries of the definitions concerned.

* *Task queue.*  `check_stuck_jobs` requeues a job that simply waits or was just dequeued, and
  two workers run it (`StuckChecker`).  `retry` without a delay gives a scheduled job its old, past
  score *and* queues it.  The key of a job aborted while running is free at once; if the abort
  key expires before the poll sees it, both run (`KeyReuse`).  A job that completes between the
  sweep's listing and its read is finished again as ABORTED.  Without a cron job nobody calls
  `schedule`.  A worker that dies between taking a scheduled job and marking it ACTIVE leaves a key
  that nobody frees.  `LREM active 0` of an abort may remove the occurrence of a later attempt.
  Refused enqueues that fetch the existing job from inside their slot block one another
  when there are as many as slots (`Roomy`).  `op_sephamore` says "Allow certain operations to be run
  concurrently without exceeding the max_concurrency", but after `configure` the calls inside the
  old semaphore come on top of those inside the new one (`ExcessPasses`).
* *Worker.*  `reschedule` is not awaited, and a loop that ends between its transactions loses
  the job; the cancelled task may retry the job as well.  With several queues each finished
  task is replaced by one per queue.
* *Listeners.*  `queue.py:830` says "Start listening before we enqueue the jobs. This ensures we
  don't miss any updates.", but the listener is only a task when the jobs are enqueued.  A sweep publishes ABORTED for a job
  that a worker still runs, and the worker then retries or completes it, so that `map`, which
  counts the job as done, reads a QUEUED or ACTIVE record or a result that nobody told it of.  Without
  `return_exceptions` the listener ends with the first failure; if the record of that job is written again, by whomever, before
  it is read, `map` raises nothing and returns the records of jobs still QUEUED.  Hence
  the condition of `MapReturnsResults` on records written again, of *any* job of the call; two jobs in
  the run `listen` show it.  The
  docstring of `map` says of a timeout of 0 "wait forever"; `asyncio.wait_for` gives up at once.
* *Registry.*  `get_task_worker` locks the manager against itself when it has to make or
  configure a queue; settings leak from methods that have class-level settings, and between
  subclasses whose base has settings for the method; classes declared after the first look-up
  are not registered.
* *Processes.*  `close()` after `terminate()` always fails while the child runs, so there is no time
  between SIGTERM and SIGKILL; a name started twice loses its first process.
* *Pools.*  The optimized pool is full at half its size; a failed connect keeps its place; a
  reset wakes nobody; a task that times out or is cancelled after it was notified takes the
  wake-up with it, and another one waits on beside an idle connection; disconnecting without the lock closes connections just handed out.
* *Locks.*  A forced release deletes whoever's lock it finds.  When two tasks of a loop own an
  expiring lock one after the other, the second overwrites the token of the first, and a release takes
  whichever is there: a lock whose token was taken that way is freed by its timeout only.
* *Dictionaries.*  A value set without expiration inherits that of its predecessor; `sadd` stores
  only its arguments.  A `get` that cannot decode what it read deletes what another client has set
  since.  A migration writes back values that expired while it had them.
* *Cache.*  A hit is counted before the value is decoded, and counts also if the function has to be
  called after all.  The hits that `invalidate_after` compares are reset by a clear only; FIFO evicts the newest
  (`types/common.py:144` says "Discards the oldest items first by timestamp") and LRU, async, the
  most recently used; an empty list of victims clears the whole cache.
* *Sessions.*  `add_session` compares with the string `'KVDBSession'` and so always raises
  (`client.py:749`).  Two threads may get each other's pool through the shared URL's key; switching
  serialization reaches all sessions of the pool on the sync side and none on the async one.

## 6. What is not modelled

* Of the task queue: the order of service, rejection of a job meant for another worker,
  `sweep_job` (called by nobody; it would remove a healthy running job), the push queue
  (disabled by default), statistics, callbacks and logs, the `workers` record.
* Of the worker: `tasks_idx` (decremented for jobs that never incremented it) and counters, leadership, the worker's own statistics.
* Of the job: timestamps (only whether a time is past), the growth of the retry delay,
  progress, cron expressions, serialization.
* Of the registry: cron jobs among functions, filters by worker, import by string.
* Of worker processes: tasks on a new event loop, which the code creates and never runs.
* Of dictionaries: iteration and views; of the cache: the registration of functions in
  `cache.py` and `main.py`; of sessions: the delegated commands, database ids, closing.
* Connections (socket I/O), pipelines and retries (faults of `TaskQueue`), pubsub, serializers
  and compression (bytes), configuration, cluster and multi-db clients (thin subclasses):
  pure I/O, delegation or conversion, without state of their own to go wrong.

## 7. Plan

Done: the modules above.  Left, in order:

1. An abstract map with expiring keys, and the conditions under which `PersistentDict`
   implements it; a lease that `KVLock` implements while undisturbed.
2. `TaskQueue` with lists as sequences, for the order of service.
3. `Backoff`: `next_retry_delay` as a function over bounded inputs; the push queue.
