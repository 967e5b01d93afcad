----------------------------- MODULE JobListen -----------------------------
(***************************************************************************)
(* How a caller gets the results of jobs (kvdb/tasks/queue.py): map, apply *)
(* and broadcast enqueue the jobs and wait for what notify publishes;      *)
(* wait_for_job, wait_for_jobs and as_jobs_complete read the records again *)
(* and again.  Publishing reaches only those who have subscribed.          *)
(*                                                                         *)
(* What is kept of a job is its record, whether it is in `incomplete' and  *)
(* how often in the list of queued jobs, and how many workers run it.  A   *)
(* transaction stores the status and then, as a step of its own, notify    *)
(* publishes it.  No write looks at the record it replaces: a sweep ends a *)
(* job that a worker still runs, and the worker retries or finishes it.    *)
(***************************************************************************)
EXTENDS Integers, Sequences, SequencesExt, FiniteSets

CONSTANTS Callers,   \* calls of map, apply and broadcast
          Waiters,   \* calls of wait_for_jobs and its like
          Keys,      \* job keys
          Owns,      \* the ways the keys may be those of broadcasts, each a
                     \* [Keys -> Workers or None]: the worker a job is for
          Workers,
          None,
          MaxCalls,  \* bound on the callers and waiters of a behaviour
          MaxRuns,   \* bound on how often a key is taken by a worker
          MaxFaults  \* bound on the records that expire, the updates lost, and
                     \* the jobs that a sweep or another process aborts, or
                     \* another process enqueues once more

ASSUME ListenAssumption == /\ IsFiniteSet(Keys) /\ None \notin Keys \cup Workers
                           /\ Owns \subseteq [Keys -> Workers \cup {None}]
                           /\ {MaxCalls, MaxRuns, MaxFaults} \subseteq Nat

VARIABLES
    own,        \* the one of Owns that holds: a key names its worker
    status,     \* [Keys -> the stored record's status, or "none"]
    note,       \* [Keys -> the statuses that notify has still to publish]
    incomplete, \* the keys that are in the sorted set of this name
    queued,     \* [Keys -> how often the key is in the list of queued jobs]
    running,    \* [Keys -> how many workers have the job at hand]
    beating,    \* the workers with a heartbeat key
    alive,      \* the workers that run
    call,       \* [Callers -> the state of the call]
    inbox,      \* [Callers -> the published messages of its subscription]
    wait,       \* [Waiters -> the state of the wait]
    ended,      \* the keys that have had a result
    again,      \* those whose record was written again after that
    expired,    \* the keys whose record was gone at some time
    runs, faults

lists == <<incomplete, queued, running>>
jobVars == <<status, note, lists, ended, again, expired, runs, faults>>
workerVars == <<own, beating, alive>>
vars == <<jobVars, workerVars, call, inbox, wait>>

TERMINAL == {"COMPLETE", "FAILED"}        \* FAILED stands for ABORTED as well
Statuses == {"none", "QUEUED", "ACTIVE"} \cup TERMINAL
Updates == {"ACTIVE"} \cup TERMINAL      \* ACTIVE stands for all that end nothing

(* keys: the jobs of the call, of which it has still to enqueue `todo' and *)
(* to hear of `pending'; got: the records it read in the end.              *)
NewCall == [pc |-> "idle", keys |-> {}, todo |-> {}, pending |-> {},
            listener |-> "none", exceptions |-> FALSE, got |-> <<>>]
NewWait == [pc |-> "idle", jobs |-> <<>>, at |-> 0, seen |-> <<>>,
            results |-> <<>>, raises |-> FALSE]

Init ==
  /\ own \in Owns
  /\ status = [k \in Keys |-> "none"] /\ note = [k \in Keys |-> {}]
  /\ incomplete = {} /\ queued = [k \in Keys |-> 0] /\ running = [k \in Keys |-> 0]
  /\ beating = {} /\ alive = {}
  /\ call = [c \in Callers |-> NewCall]
  /\ inbox = [c \in Callers |-> <<>>]
  /\ wait = [w \in Waiters |-> NewWait]
  /\ ended = {} /\ again = {} /\ expired = {}
  /\ runs = [k \in Keys |-> 0] /\ faults = 0

-----------------------------------------------------------------------------
(* aregister_worker and add_heartbeat; the end of a worker with and        *)
(* without deregister_worker_on_exit.                                      *)
Register(w) ==
  /\ w \notin alive
  /\ alive' = alive \cup {w} /\ beating' = beating \cup {w}
  /\ UNCHANGED <<jobVars, own, call, inbox, wait>>

Exit(w) ==
  /\ w \in alive
  /\ alive' = alive \ {w}
  /\ \/ beating' = beating \ {w}
     \/ UNCHANGED beating
  /\ UNCHANGED <<jobVars, own, call, inbox, wait>>

HeartbeatExpires(w) ==
  /\ w \in beating \ alive
  /\ beating' = beating \ {w}
  /\ UNCHANGED <<jobVars, own, alive, call, inbox, wait>>

(* A process stores a record and then notifies; one that dies in between   *)
(* does not.                                                               *)
Store(k, s) ==
  /\ status' = [status EXCEPT ![k] = s]
  /\ note' = [note EXCEPT ![k] = @ \cup ({s} \cap Updates)]
  /\ ended' = IF s \in TERMINAL THEN ended \cup {k} ELSE ended
  /\ again' = again \cup ({k} \cap ended)

(* A worker takes the job off the list and makes its record an active one; *)
(* of a record that is gone it makes nothing.                              *)
Take(k) ==
  /\ queued[k] > 0 /\ runs[k] < MaxRuns
  /\ own[k] # None => own[k] \in alive
  /\ queued' = [queued EXCEPT ![k] = @ - 1]
  /\ IF status[k] = "none" THEN UNCHANGED <<status, note, ended, again, running, runs>>
     ELSE /\ Store(k, "ACTIVE")
          /\ running' = [running EXCEPT ![k] = @ + 1]
          /\ runs' = [runs EXCEPT ![k] = @ + 1]
  /\ UNCHANGED <<incomplete, expired, faults, workerVars, call, inbox, wait>>

(* finish and retry, by the worker that has the job at hand.               *)
Settle(k) ==
  /\ running[k] > 0 /\ "ACTIVE" \notin note[k]
  /\ running' = [running EXCEPT ![k] = @ - 1]
  /\ \/ /\ \E s \in TERMINAL : Store(k, s)
        /\ incomplete' = incomplete \ {k}
        /\ UNCHANGED queued
     \/ /\ Store(k, "QUEUED")
        /\ incomplete' = incomplete \cup {k}
        /\ queued' = [queued EXCEPT ![k] = IF @ = 0 THEN 1 ELSE @]
  /\ UNCHANGED <<expired, runs, faults, workerVars, call, inbox, wait>>

MayFail == faults < MaxFaults /\ faults' = faults + 1

(* A sweep found the job active for too long, some time ago.               *)
Sweep(k) ==
  /\ runs[k] > 0 /\ MayFail
  /\ Store(k, "FAILED")
  /\ incomplete' = incomplete \ {k}
  /\ UNCHANGED <<queued, running, expired, runs, workerVars, call, inbox, wait>>

(* abort, of a job that is queued, its transaction and finish in one step: *)
(* the abort key refuses an enqueue in between.  An active one is left to  *)
(* its worker to finish, which is among the results of Settle.             *)
Dequeue(K) ==
  /\ status' = [k \in Keys |-> IF k \in K THEN "FAILED" ELSE status[k]]
  /\ note' = [k \in Keys |-> IF k \in K THEN note[k] \cup {"FAILED"} ELSE note[k]]
  /\ ended' = ended \cup K
  /\ again' = again \cup (K \cap ended)
  /\ incomplete' = incomplete \ K
  /\ queued' = [k \in Keys |-> IF k \in K THEN 0 ELSE queued[k]]
  /\ UNCHANGED <<running, expired, runs>>

Abort(k) ==
  /\ queued[k] > 0 /\ MayFail
  /\ Dequeue({k})
  /\ UNCHANGED <<workerVars, call, inbox, wait>>

Subscribed(c, k) == call[c].listener = "subscribed" /\ k \in call[c].keys
Notify(k) ==
  /\ \E s \in note[k] :
       /\ inbox' = [c \in Callers |-> IF Subscribed(c, k) THEN Append(inbox[c], <<k, s>>)
                                      ELSE inbox[c]]
       /\ note' = [note EXCEPT ![k] = @ \ {s}]
  /\ UNCHANGED <<status, lists, ended, again, expired, runs, faults, workerVars, call, wait>>

NotifyLost(k) ==
  /\ MayFail
  /\ \E s \in note[k] : note' = [note EXCEPT ![k] = @ \ {s}]
  /\ UNCHANGED <<status, lists, ended, again, expired, runs, workerVars, call, inbox, wait>>

(* A record with a result lives for Job.ttl, and that of an active job for *)
(* a moment only once someone asked for its abort.                         *)
Expire(k) ==
  /\ status[k] \in TERMINAL \cup {"ACTIVE"} /\ MayFail
  /\ status' = [status EXCEPT ![k] = "none"]
  /\ expired' = expired \cup {k}
  /\ UNCHANGED <<note, lists, ended, again, runs, workerVars, call, inbox, wait>>

-----------------------------------------------------------------------------
(* map.  prepare_job_kws gives the call its keys: those it was asked for,  *)
(* or for a broadcast one for each worker with a heartbeat.  The listener  *)
(* becomes a task, and the jobs are enqueued without waiting for it.       *)
MayCall == Cardinality({c \in Callers : call[c].pc # "idle"})
             + Cardinality({w \in Waiters : wait[w].pc # "idle"}) < MaxCalls
Set(c, r) == call' = [call EXCEPT ![c] = r]

(* get_worker_names: the workers whose heartbeat key has not expired.      *)
GetWorkerNames == beating

PrepareJobKws == {K \in SUBSET Keys : \A k \in K : own[k] = None}
                 \cup {{k \in Keys : own[k] \in GetWorkerNames}}

Map(c) ==
  /\ call[c].pc = "idle" /\ MayCall
  /\ \E K \in PrepareJobKws \ {{}}, e \in BOOLEAN :
       Set(c, [call[c] EXCEPT !.pc = "enqueue", !.keys = K, !.todo = K, !.pending = K,
                              !.listener = "started", !.exceptions = e])
  /\ UNCHANGED <<jobVars, workerVars, inbox, wait>>

(* The enqueue script refuses a key that is in `incomplete'.               *)
Accept(k) ==
  /\ k \notin incomplete
  /\ status' = [status EXCEPT ![k] = "QUEUED"]
  /\ incomplete' = incomplete \cup {k}
  /\ queued' = [queued EXCEPT ![k] = @ + 1]
  /\ again' = again \cup ({k} \cap ended)

Enqueue(c, k) ==
  /\ call[c].pc = "enqueue" /\ k \in call[c].todo
  /\ Set(c, [call[c] EXCEPT !.todo = @ \ {k}])
  /\ \/ Accept(k)
     \/ k \in incomplete /\ UNCHANGED <<status, incomplete, queued, again>>
  /\ UNCHANGED <<note, running, ended, expired, runs, faults, workerVars, inbox, wait>>

(* Another process enqueues a job with the same key, or a deferred one is. *)
EnqueueElsewhere(k) ==
  /\ Accept(k)
  /\ (k \notin ended \cup expired /\ UNCHANGED faults) \/ MayFail
  /\ UNCHANGED <<note, running, ended, expired, runs, workerVars, call, inbox, wait>>

(* An enqueue raises: the listener is cancelled, and map raises.           *)
EnqueueRaises(c) ==
  /\ call[c].pc = "enqueue" /\ call[c].todo # {}
  /\ Set(c, [call[c] EXCEPT !.pc = "raised", !.listener = "done"])
  /\ inbox' = [inbox EXCEPT ![c] = <<>>]
  /\ UNCHANGED <<jobVars, workerVars, wait>>

(* listen: subscribe, then one message after the other until the callback  *)
(* returns true.                                                           *)
Subscribe(c) ==
  /\ call[c].listener = "started"
  /\ Set(c, [call[c] EXCEPT !.listener = "subscribed"])
  /\ UNCHANGED <<jobVars, workerVars, inbox, wait>>

\* Mutant of Callback: any update counts as the end of a job.
CallbackAnyStatus(c) ==
  /\ inbox[c] # <<>>
  /\ LET k == Head(inbox[c])[1]
         s == Head(inbox[c])[2]
         pending == IF s # "none" THEN call[c].pending \ {k} ELSE call[c].pending
         stop == pending = {} \/ (s = "FAILED" /\ ~call[c].exceptions)
     IN /\ Set(c, [call[c] EXCEPT !.pending = pending,
                                  !.listener = IF stop THEN "done" ELSE @])
        /\ inbox' = [inbox EXCEPT ![c] = IF stop THEN <<>> ELSE Tail(@)]
  /\ UNCHANGED <<jobVars, workerVars, wait>>

Callback(c) ==
  /\ inbox[c] # <<>>
  /\ LET k == Head(inbox[c])[1]
         s == Head(inbox[c])[2]
         pending == IF s \in TERMINAL THEN call[c].pending \ {k} ELSE call[c].pending
         stop == pending = {} \/ (s = "FAILED" /\ ~call[c].exceptions)
     IN /\ Set(c, [call[c] EXCEPT !.pending = pending,
                                  !.listener = IF stop THEN "done" ELSE @])
        /\ inbox' = [inbox EXCEPT ![c] = IF stop THEN <<>> ELSE Tail(@)]
  /\ UNCHANGED <<jobVars, workerVars, wait>>

(* All are enqueued and the listener has ended: the records are read.      *)
Collect(c) ==
  /\ call[c].pc = "enqueue" /\ call[c].todo = {} /\ call[c].listener = "done"
  /\ Set(c, [call[c] EXCEPT !.pc = "collect", !.todo = call[c].keys,
                            !.got = [k \in call[c].keys |-> "none"]])
  /\ UNCHANGED <<jobVars, workerVars, inbox, wait>>

(* deserialize raises for a record that is gone.                           *)
ReadRecord(c, k) ==
  /\ call[c].pc = "collect" /\ k \in call[c].todo
  /\ Set(c, IF status[k] = "none" THEN [call[c] EXCEPT !.pc = "raised"]
            ELSE [call[c] EXCEPT !.todo = @ \ {k}, !.got[k] = status[k]])
  /\ UNCHANGED <<jobVars, workerVars, inbox, wait>>

Return(c) ==
  /\ call[c].pc = "collect" /\ call[c].todo = {}
  /\ LET failed == \E k \in call[c].keys : call[c].got[k] = "FAILED"
     IN Set(c, [call[c] EXCEPT !.pc =
                  IF failed /\ ~call[c].exceptions THEN "raised" ELSE "returned"])
  /\ UNCHANGED <<jobVars, workerVars, inbox, wait>>

\* Mutant of Timeout: the timeout covers the subscription only.
TimeoutOfSubscribe(c) ==
  /\ call[c].pc = "enqueue" /\ call[c].todo = {} /\ call[c].listener = "started"
  /\ Set(c, [call[c] EXCEPT !.pc = "timeout", !.listener = "done"])
  /\ inbox' = [inbox EXCEPT ![c] = <<>>]
  /\ UNCHANGED <<jobVars, workerVars, wait>>

(* asyncio.wait_for gives up after job_timeout.                            *)
Timeout(c) ==
  /\ call[c].pc = "enqueue" /\ call[c].todo = {} /\ call[c].listener # "done"
  /\ Set(c, [call[c] EXCEPT !.pc = "timeout", !.listener = "done"])
  /\ inbox' = [inbox EXCEPT ![c] = <<>>]
  /\ UNCHANGED <<jobVars, workerVars, wait>>

-----------------------------------------------------------------------------
(* wait_for_jobs and as_jobs_complete; with one job, wait_for_job.  The    *)
(* list is shortened while the for loop walks over it, so the job after a  *)
(* removed one is left for the next round.                                 *)
SetWait(w, r) == wait' = [wait EXCEPT ![w] = r]

WaitForJobs(w) ==
  /\ wait[w].pc = "idle" /\ MayCall
  /\ \E K \in SUBSET Keys \ {{}}, r \in BOOLEAN :
       /\ \A k \in K : status[k] # "none"
       /\ SetWait(w, [wait[w] EXCEPT !.pc = "round", !.jobs = SetToSeq(K), !.at = 1,
                        !.seen = [k \in K |-> status[k]], !.raises = r])
  /\ UNCHANGED <<jobVars, workerVars, call, inbox>>

\* Mutant of Refresh: a completed job stays in the list.
RefreshKeeps(w) ==
  /\ wait[w].pc = "round" /\ wait[w].at <= Len(wait[w].jobs)
  /\ LET r == wait[w]
         k == r.jobs[r.at]
         gone == status[k] = "none"
         s == IF gone THEN r.seen[k] ELSE status[k]
         failed == r.raises /\ (gone \/ s = "FAILED")
         next == [r EXCEPT !.at = @ + 1, !.seen[k] = s]
         removed == [next EXCEPT !.jobs = RemoveAt(@, r.at)]
         done == [next EXCEPT !.results = IF s = "COMPLETE" THEN Append(@, k) ELSE @]
     IN SetWait(w,
          CASE failed -> [next EXCEPT !.pc = "raised"]
            [] ~failed /\ gone /\ s \in TERMINAL -> [done EXCEPT !.pc = "raised"]
            [] ~failed /\ gone /\ s \notin TERMINAL -> removed
            [] ~failed /\ ~gone /\ s \in TERMINAL -> done
            [] OTHER -> next)
  /\ UNCHANGED <<jobVars, workerVars, call, inbox>>

(* One turn of the for loop.  A record that is gone makes refresh raise an *)
(* AttributeError and the job is dropped; its stale status is then looked  *)
(* at, and if that was a result list.remove raises.                        *)
Refresh(w) ==
  /\ wait[w].pc = "round" /\ wait[w].at <= Len(wait[w].jobs)
  /\ LET r == wait[w]
         k == r.jobs[r.at]
         gone == status[k] = "none"
         s == IF gone THEN r.seen[k] ELSE status[k]
         failed == r.raises /\ (gone \/ s = "FAILED")
         next == [r EXCEPT !.at = @ + 1, !.seen[k] = s]
         removed == [next EXCEPT !.jobs = RemoveAt(@, r.at)]
         done == [removed EXCEPT !.results = IF s = "COMPLETE" THEN Append(@, k) ELSE @]
     IN SetWait(w,
          CASE failed -> [next EXCEPT !.pc = "raised"]
            [] ~failed /\ gone /\ s \in TERMINAL -> [done EXCEPT !.pc = "raised"]
            [] ~failed /\ gone /\ s \notin TERMINAL -> removed
            [] ~failed /\ ~gone /\ s \in TERMINAL -> done
            [] OTHER -> next)
  /\ UNCHANGED <<jobVars, workerVars, call, inbox>>

(* The end of a round: sleep and start over, or return.                    *)
NextRound(w) ==
  /\ wait[w].pc = "round" /\ wait[w].at > Len(wait[w].jobs)
  /\ SetWait(w, IF wait[w].jobs = <<>> THEN [wait[w] EXCEPT !.pc = "returned"]
                ELSE [wait[w] EXCEPT !.at = 1])
  /\ UNCHANGED <<jobVars, workerVars, call, inbox>>

(* as_jobs_complete is cancelled or has waited long enough: it aborts what *)
(* is left, or leaves it be.                                               *)
GiveUp(w) ==
  /\ wait[w].pc = "round" /\ wait[w].at > Len(wait[w].jobs) /\ wait[w].jobs # <<>>
  /\ SetWait(w, [wait[w] EXCEPT !.pc = "gave up"])
  /\ \/ UNCHANGED jobVars
     \/ Dequeue({k \in ToSet(wait[w].jobs) : queued[k] > 0}) /\ UNCHANGED faults
  /\ UNCHANGED <<workerVars, call, inbox>>

-----------------------------------------------------------------------------
CallStep(c) ==
  \/ EnqueueRaises(c) \/ Subscribe(c) \/ Callback(c) \/ Collect(c)
  \/ Return(c) \/ Timeout(c)
  \/ \E k \in Keys : Enqueue(c, k) \/ ReadRecord(c, k)

JobStep(k) == Take(k) \/ Settle(k) \/ Sweep(k) \/ Abort(k) \/ Notify(k)

(* Whether a worker is there matters to the jobs of its own list alone; of *)
(* a worker without such jobs it is left out.                              *)
Broadcast(w) == \E k \in Keys : own[k] = w

Next ==
  \/ \E c \in Callers : Map(c) \/ CallStep(c)
  \/ \E w \in Waiters : WaitForJobs(w) \/ Refresh(w) \/ NextRound(w) \/ GiveUp(w)
  \/ \E w \in Workers : Broadcast(w) /\ (Register(w) \/ Exit(w) \/ HeartbeatExpires(w))
  \/ \E k \in Keys : JobStep(k) \/ EnqueueElsewhere(k) \/ NotifyLost(k) \/ Expire(k)

(* The event loop goes on with its tasks; of the workers nothing is asked. *)
Fairness ==
  /\ \A c \in Callers : WF_vars(CallStep(c))
  /\ \A w \in Waiters : WF_vars(Refresh(w)) /\ WF_vars(NextRound(w))

Spec == Init /\ [][Next]_vars /\ Fairness

-----------------------------------------------------------------------------
(* The shape of the records, the calls and the subscriptions.              *)
TypeOK ==
  /\ own \in Owns
  /\ status \in [Keys -> Statuses] /\ note \in [Keys -> SUBSET Updates]
  /\ incomplete \subseteq Keys /\ {queued, running} \subseteq [Keys -> Nat]
  /\ beating \subseteq Workers /\ alive \subseteq Workers
  /\ \A c \in Callers :
       /\ call[c].pc \in {"idle", "enqueue", "collect", "returned", "raised", "timeout"}
       /\ call[c].todo \cup call[c].pending \subseteq call[c].keys
       /\ call[c].keys \subseteq Keys
       /\ call[c].listener \in {"none", "started", "subscribed", "done"}
       /\ inbox[c] \in Seq(call[c].keys \X Statuses)
  /\ \A w \in Waiters :
       /\ wait[w].pc \in {"idle", "round", "returned", "raised", "gave up"}
       /\ wait[w].jobs \in Seq(Keys) /\ wait[w].results \in Seq(Keys)
  /\ ended \subseteq Keys /\ again \subseteq Keys /\ expired \subseteq Keys
  /\ runs \in [Keys -> 0 .. MaxRuns] /\ faults \in 0 .. MaxFaults

(* With return_exceptions map returns only when each of its jobs has had a *)
(* result, whatever was published in which order; and what it returns are  *)
(* results, although it reads the records some time after it was notified, *)
(* unless one was written again in the meantime: enqueued, or retried or   *)
(* finished by a worker although a sweep had ended the job.  Without, the  *)
(* listener ends with the first failure, and what is returned are          *)
(* successes, all of them, if none of the records was written again.       *)
MapReturnsResults ==
  \A c \in Callers : LET r == call[c] IN
    r.pc = "returned" =>
      IF r.exceptions THEN /\ r.keys \subseteq ended
                           /\ \A k \in r.keys \ again : r.got[k] \in TERMINAL
      ELSE r.keys \cap again = {} => \A k \in r.keys : r.got[k] = "COMPLETE"

(* The calls keep their shape; wait_for_jobs counts no job twice, and       *)
(* returns only when every one of its jobs had a result or lost its record. *)
WaitCountsOnce ==
  TypeOK /\ \A w \in Waiters :
    LET r == wait[w] IN
      /\ r.pc # "raised" => IsInjective(r.results)
      /\ ToSet(r.results) \cap ToSet(r.jobs) = {}
      /\ r.pc = "returned" =>
           \A k \in DOMAIN r.seen \ ToSet(r.results) : r.seen[k] = "FAILED" \/ k \in expired

(* Whoever reads the records again and again returns once the jobs are and *)
(* stay over, whatever was published or lost, and map returns at the       *)
(* latest when its timeout is over.                                        *)
CallersReturn ==
  /\ \A c \in Callers : call[c].pc \in {"enqueue", "collect"}
                          ~> call[c].pc \in {"returned", "raised", "timeout"}
  /\ \A w \in Waiters :
       wait[w].pc = "round" /\ (\A k \in Keys : status[k] \in TERMINAL)
       ~> wait[w].pc # "round" \/ (\E k \in Keys : status[k] \notin TERMINAL)
=============================================================================
