---------------------------- MODULE OpSemaphore ----------------------------
(***************************************************************************)
(* The semaphore that TaskQueue holds around its calls to the server       *)
(* (TaskQueue._op_sem, op_sephamore): the asyncio tasks of one process     *)
(* that enqueue, abort and fetch jobs.  An enqueue that is refused and is  *)
(* asked for the existing job fetches it before it leaves the semaphore.   *)
(*                                                                         *)
(* get_task_queue with new arguments configures a live queue: a semaphore  *)
(* of the new size takes the place of the old one, which stays with those  *)
(* who hold it or wait for it.                                             *)
(***************************************************************************)
EXTENDS Integers, FiniteSets

CONSTANTS Tasks,          \* asyncio tasks that call the queue
          Sizes,          \* the values of config.max_concurrency
          MaxConfigures,  \* how often a live queue is configured (bound)
          Returning,      \* the tasks that pass return_existing_job
          Bypassing       \* the tasks whose jobs have bypass_lock

ASSUME SemaphoreAssumption ==
    /\ IsFiniteSet(Tasks)
    /\ Sizes \subseteq Nat \ {0}
    /\ MaxConfigures \in Nat
    /\ Returning \subseteq Tasks /\ Bypassing \subseteq Tasks

VARIABLES pc,       \* where each task is in its call
          current,  \* the number of configure calls: _op_sem is that semaphore
          size,     \* max_concurrency when each semaphore was made
          awaited,  \* the semaphore each task waits for, if any
          outer,    \* whose slot a task has for its enqueue or abort
          inner,    \* whose slot a task has for its get_job_by_id
          known     \* is the key the tasks enqueue taken (in `incomplete')?

semaphoreVars == <<pc, current, size, awaited, outer, inner, known>>

Pc == {"idle", "enqueue", "script", "fetch", "get", "abort", "pipeline"}

Semaphores == 0 .. MaxConfigures
NoSlot == -1

\* The slots of s that are taken, for a whole call and for a fetch.
Outer(s) == {t \in Tasks : outer[t] = s}
Inner(s) == {t \in Tasks : inner[t] = s}

\* asyncio.Semaphore: acquire returns while its counter is positive.
SemaphoreFree(s) == Cardinality(Outer(s)) + Cardinality(Inner(s)) < size[s]

Goto(t, l) == pc' = [pc EXCEPT ![t] = l]

SemaphoreInit ==
    /\ pc = [t \in Tasks |-> "idle"]
    /\ current = 0
    /\ \E n \in Sizes : size = [s \in Semaphores |-> n]
    /\ awaited = [t \in Tasks |-> NoSlot]
    /\ outer = [t \in Tasks |-> NoSlot]
    /\ inner = [t \in Tasks |-> NoSlot]
    /\ known = FALSE

\* Mutant of ReadSemaphore: the semaphore the queue was made with.
ReadSemaphoreOnce(t) == awaited' = [awaited EXCEPT ![t] = 0]

\* async with self._op_sem: the attribute is read before the wait.
ReadSemaphore(t) == awaited' = [awaited EXCEPT ![t] = current]

DoneWaiting(t) == awaited' = [awaited EXCEPT ![t] = NoSlot]

\* A call starts: enqueue, abort, or a fetch of its own (dequeue, refresh).
Call(t) ==
    /\ pc[t] = "idle"
    /\ \E l \in {"enqueue", "abort", "fetch"} : Goto(t, l)
    /\ ReadSemaphore(t)
    /\ UNCHANGED <<current, size, outer, inner, known>>

\* async with self.op_sephamore(job.bypass_lock)
EnterOuter(t, from, to) ==
    /\ pc[t] = from
    /\ t \in Bypassing \/ SemaphoreFree(awaited[t])
    /\ outer' = IF t \in Bypassing THEN outer
                ELSE [outer EXCEPT ![t] = awaited[t]]
    /\ Goto(t, to)
    /\ DoneWaiting(t)
    /\ UNCHANGED <<current, size, inner, known>>

EnterEnqueue(t) == EnterOuter(t, "enqueue", "script")
EnterAbort(t) == EnterOuter(t, "abort", "pipeline")

\* The enqueue script: an accepted job leaves the semaphore; a refused one
\* fetches the existing job first if it was asked to.
EnqueueScript(t) ==
    /\ pc[t] = "script"
    /\ known' = TRUE
    /\ \/ /\ known /\ t \in Returning
          /\ Goto(t, "fetch")
          /\ ReadSemaphore(t)
          /\ UNCHANGED outer
       \/ /\ ~(known /\ t \in Returning)
          /\ Goto(t, "idle")
          /\ outer' = [outer EXCEPT ![t] = NoSlot]
          /\ UNCHANGED awaited
    /\ UNCHANGED <<current, size, inner>>

\* Mutant of AbortPipeline: abort does not give its slot back.
AbortKeepsSlot(t) ==
    /\ pc[t] = "pipeline"
    /\ known' = FALSE
    /\ Goto(t, "idle")
    /\ UNCHANGED <<current, size, awaited, outer, inner>>

\* The transaction of abort and what follows it; the key is free again.
AbortPipeline(t) ==
    /\ pc[t] = "pipeline"
    /\ known' = FALSE
    /\ outer' = [outer EXCEPT ![t] = NoSlot]
    /\ Goto(t, "idle")
    /\ UNCHANGED <<current, size, awaited, inner>>

\* Mutant of EnterFetch: a lock in place of the semaphore.
EnterFetchAlone(t) ==
    /\ pc[t] = "fetch"
    /\ Outer(awaited[t]) \cup Inner(awaited[t]) = {}
    /\ inner' = [inner EXCEPT ![t] = awaited[t]]
    /\ Goto(t, "get")
    /\ DoneWaiting(t)
    /\ UNCHANGED <<current, size, outer, known>>

\* get_job_by_id never bypasses the semaphore.
EnterFetch(t) ==
    /\ pc[t] = "fetch"
    /\ SemaphoreFree(awaited[t])
    /\ inner' = [inner EXCEPT ![t] = awaited[t]]
    /\ Goto(t, "get")
    /\ DoneWaiting(t)
    /\ UNCHANGED <<current, size, outer, known>>

\* Mutant of LeaveFetch: the slot of the enqueue is kept.
LeaveFetchHoldingOuter(t) ==
    /\ pc[t] = "get"
    /\ inner' = [inner EXCEPT ![t] = NoSlot]
    /\ Goto(t, "idle")
    /\ UNCHANGED <<current, size, awaited, outer, known>>

\* GET returns; the fetch, and the enqueue around it if any, is over.
LeaveFetch(t) ==
    /\ pc[t] = "get"
    /\ inner' = [inner EXCEPT ![t] = NoSlot]
    /\ outer' = [outer EXCEPT ![t] = NoSlot]
    /\ Goto(t, "idle")
    /\ UNCHANGED <<current, size, awaited, known>>

Step(t) ==
    \/ EnterEnqueue(t) \/ EnterAbort(t) \/ EnqueueScript(t)
    \/ AbortPipeline(t) \/ EnterFetch(t) \/ LeaveFetch(t)

\* configure of a live queue: a new semaphore, nothing is said to the old one.
Configure ==
    /\ current < MaxConfigures
    /\ current' = current + 1
    /\ \E n \in Sizes : size' = [size EXCEPT ![current + 1] = n]
    /\ UNCHANGED <<pc, awaited, outer, inner, known>>

\* Other processes enqueue the same key, and workers finish its job.
KeyChanges ==
    /\ known' = ~known
    /\ UNCHANGED <<pc, current, size, awaited, outer, inner>>

SemaphoreNext ==
    \/ Configure
    \/ KeyChanges
    \/ \E t \in Tasks : Call(t) \/ Step(t)

SemaphoreSpec == SemaphoreInit /\ [][SemaphoreNext]_semaphoreVars

\* The server answers, and asyncio.Semaphore serves its waiters in turn: who
\* waits is let in if slots become free again and again.
SemaphoreFairSpec == SemaphoreSpec /\ \A t \in Tasks : SF_semaphoreVars(Step(t))

-----------------------------------------------------------------------------
\* Every call is at a known step, and a slot is a slot of some semaphore.
SemaphoreTypeOK ==
    /\ pc \in [Tasks -> Pc]
    /\ current \in Semaphores
    /\ size \in [Semaphores -> Sizes]
    /\ awaited \in [Tasks -> Semaphores \cup {NoSlot}]
    /\ outer \in [Tasks -> Semaphores \cup {NoSlot}]
    /\ inner \in [Tasks -> Semaphores \cup {NoSlot}]
    /\ known \in BOOLEAN

\* The slots in use are those of the calls under way: no path out of a call
\* (accepted, refused, existing job returned, aborted) leaks a slot, and none
\* is given back twice, whichever semaphores the call was let in by.
SlotsOfCalls ==
    /\ \A t \in Tasks : inner[t] # NoSlot <=> pc[t] = "get"
    /\ \A t \in Tasks :
         outer[t] # NoSlot => /\ pc[t] \in {"script", "pipeline", "fetch", "get"}
                              /\ t \notin Bypassing

\* Fewer tasks than slots may wait for a second slot while they hold one.
Roomy == \A n \in Sizes : Cardinality(Returning \ Bypassing) < n

\* Every semaphore, the current one and those that configure replaced, has a
\* slot free or one of its slots is held by a call that is past every wait:
\* enqueue, abort and get_job_by_id do not all wait for one another.
NeverStuck ==
    \A s \in Semaphores :
       \/ SemaphoreFree(s)
       \/ \E t \in Outer(s) \cup Inner(s) : pc[t] \in {"script", "pipeline", "get"}

\* op_sephamore: "Allow certain operations to be run concurrently": every call
\* to enqueue, abort or job() returns.
EveryCallReturns == \A t \in Tasks : pc[t] # "idle" ~> pc[t] = "idle"

\* op_sephamore: "without exceeding the max_concurrency".  The calls that the
\* semaphores before configure let in come on top of those of the new one; the
\* excess passes, and from then on the limit holds for all the slots there are.
ExcessPasses ==
    <>[](Cardinality({t \in Tasks : outer[t] # NoSlot})
           + Cardinality({t \in Tasks : inner[t] # NoSlot}) <= size[current])
=============================================================================
