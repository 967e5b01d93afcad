-------------------------- MODULE WorkerProcesses --------------------------
(***************************************************************************)
(* How workers are started in processes or tasks of their own and stopped  *)
(* again when the program that started them ends (kvdb/tasks/spawn.py).    *)
(* A program keeps its workers by name; a name is a prefix, left out here, *)
(* and a number, which in Kubernetes begins at the last digit of the host  *)
(* times the number of workers.  A process object is joined for a while,   *)
(* terminated, closed, and killed if it could not be closed.  What a       *)
(* worker does when it is told to stop is the subject of Worker: here it   *)
(* may take any time, or forever.                                          *)
(***************************************************************************)
EXTENDS Naturals, Sequences, FiniteSets, Functions

CONSTANTS Programs,   \* the programs that start workers, each on its host
          Digit,      \* the last digit of the host of each; 0 if it has none
          Counts,     \* the values of num_workers
          MaxWorkers  \* bound on the workers each of them starts

ASSUME CountAssumption == Counts \subseteq Nat \ {0} /\ MaxWorkers \in [Programs -> Nat]
ASSUME DigitAssumption == Digit \in [Programs -> 0 .. 9]

VARIABLES workers,   \* the workers started, a sequence of Worker
          registry,  \* _WorkerProcesses: [process, task] of a name, 0 for none
          handler,   \* the worker whose event the program's signal handler sets
          phase,     \* what each program is at
          pass,      \* exit_task_workers: the names it is called for, those it
                     \* has still to see, the process it is at, and where
          lost       \* processes of which the registry says nothing any more,
                     \* or nothing that exit_task_workers looks at

vars == <<workers, registry, handler, phase, pass, lost>>

(* create_worker_names, with get_worker_start_index.                       *)

\* Mutant of StartIndex: every host begins with 0.
StartIndexZero(p, count) == 0

StartIndex(p, count) == Digit[p] * count
WorkerNames(p, count) == [i \in 1 .. count |-> StartIndex(p, count) + i - 1]
Names == UNION {Range(WorkerNames(p, c)) : p \in Programs, c \in Counts}

NoEntry == [process |-> 0, task |-> 0]
NoPass == [names |-> {}, todo |-> {}, process |-> 0, at |-> "next"]
Of(p) == {w \in DOMAIN workers : workers[w].program = p}
Processes(p) == {w \in Of(p) : workers[w].kind = "process"}
Alive(w) == workers[w].state # "ended"
Registered(p) == {n \in Names : registry[p][n] # NoEntry}

Init ==
  /\ workers = <<>> /\ lost = {}
  /\ registry = [p \in Programs |-> [n \in Names |-> NoEntry]]
  /\ handler = [p \in Programs |-> 0]
  /\ phase = [p \in Programs |-> "up"]
  /\ pass = [p \in Programs |-> NoPass]

(***************************************************************************)
(* Starting workers                                                        *)
(***************************************************************************)

\* Mutant of Register: the first worker of a name is kept.
RegisterOnce(entry, kind, w) ==
  IF entry # NoEntry THEN entry
  ELSE IF kind = "process" THEN [entry EXCEPT !.process = w] ELSE [entry EXCEPT !.task = w]

(* register_worker_process: a task joins the process of its name, another  *)
(* process takes the place of the one before it.                           *)
Register(entry, kind, w) ==
  IF kind = "process" THEN [entry EXCEPT !.process = w] ELSE [entry EXCEPT !.task = w]

(* The worker of that name among those started now.                        *)
NewId(p, count, n) == Len(workers) + 1 + n - StartIndex(p, count)

Start(p, count, kind) ==
  LET name == WorkerNames(p, count)
      old(n) == registry[p][n]
      Id(n) == NewId(p, count, n)
  IN /\ phase[p] = "up" /\ Cardinality(Of(p)) + count <= MaxWorkers[p]
     /\ workers' = workers \o [i \in 1 .. count |->
          [program |-> p, name |-> name[i], count |-> count, kind |-> kind, state |-> "starting"]]
     /\ registry' = [registry EXCEPT ![p] =
          [n \in Names |-> IF n \in Range(name) THEN Register(old(n), kind, Id(n)) ELSE old(n)]]
     /\ lost' = lost \cup ({old(n).process : n \in Range(name)} \ {0})
                     \cup {Id(n) : n \in {m \in Range(name) : kind = "process" /\ old(m).task # 0}}
     /\ UNCHANGED <<handler, phase, pass>>

StartTaskWorkersWithMp(p, count) == Start(p, count, "process")
AStartTaskWorkersWithTasks(p, count) == Start(p, count, "task")
(* Without a running loop they are processes after all.                    *)
StartTaskWorkersWithTasks(p, count) ==
  AStartTaskWorkersWithTasks(p, count) \/ StartTaskWorkersWithMp(p, count)
StartTaskWorkers(p, count) ==
  StartTaskWorkersWithMp(p, count) \/ StartTaskWorkersWithTasks(p, count)

SetState(w, s) == workers' = [workers EXCEPT ![w].state = s]
(* start() installs its signal handlers: in a loop of several workers the  *)
(* handler of the last one remains.                                        *)
WorkerStarts(w) ==
  /\ workers[w].state = "starting"
  /\ SetState(w, "serving")
  /\ handler' = IF workers[w].kind = "task" THEN [handler EXCEPT ![workers[w].program] = w] ELSE handler
  /\ UNCHANGED <<registry, phase, pass, lost>>
(* A worker ends once it was told to, if it does, or its process dies;     *)
(* none is started again.                                                  *)
WorkerEnds(w) ==
  /\ workers[w].state \in {"serving", "stopping"}
  /\ workers[w].kind = "task" => workers[w].state = "stopping"
  /\ SetState(w, "ended")
  /\ UNCHANGED <<registry, handler, phase, pass, lost>>

(* SIGTERM and SIGINT: a worker that serves handles them, one that is      *)
(* still starting dies of them.                                            *)
Told(s) == IF s = "serving" THEN "stopping" ELSE IF s = "starting" THEN "ended" ELSE s
Tell(ws) == workers' = [w \in DOMAIN workers |->
                          IF w \in ws THEN [workers[w] EXCEPT !.state = Told(@)] ELSE workers[w]]

(***************************************************************************)
(* The end of a program                                                    *)
(***************************************************************************)
(* A program dies, and what it knew with it.                               *)
Dies(p) == /\ phase' = [phase EXCEPT ![p] = "dead"]
           /\ registry' = [registry EXCEPT ![p] = [n \in Names |-> NoEntry]]
           /\ pass' = [pass EXCEPT ![p] = NoPass]

(* A signal to the program alone: one of its workers handles it, or it     *)
(* dies of it, with its tasks and without stopping its processes.          *)
Signal(p) ==
  /\ phase[p] = "up"
  /\ \/ /\ handler[p] # 0 /\ Tell({handler[p]})
        /\ UNCHANGED <<phase, registry, pass>>
     \/ /\ handler[p] = 0
        /\ Dies(p)
        /\ workers' = [w \in DOMAIN workers |-> IF w \in Of(p) \ Processes(p)
                          THEN [workers[w] EXCEPT !.state = "ended"] ELSE workers[w]]
  /\ UNCHANGED <<handler, lost>>

(* exit_task_workers, called for some names while the program goes on, or  *)
(* for all of them when it ends, its loop and the tasks in it being over.  *)
ExitTaskWorkers(p, names) ==
  /\ phase[p] = "up" /\ names # {}
  /\ phase' = [phase EXCEPT ![p] = "stopping"]
  /\ pass' = [pass EXCEPT ![p] = [NoPass EXCEPT !.names = names, !.todo = names]]
  /\ UNCHANGED <<workers, registry, handler, lost>>
AtExit(p) ==
  /\ phase[p] = "up"
  /\ phase' = [phase EXCEPT ![p] = "exiting"]
  /\ pass' = [pass EXCEPT ![p] = [NoPass EXCEPT !.names = Registered(p), !.todo = Registered(p)]]
  /\ workers' = [w \in DOMAIN workers |-> IF w \in Of(p) \ Processes(p)
                    THEN [workers[w] EXCEPT !.state = "ended"] ELSE workers[w]]
  /\ UNCHANGED <<registry, handler, lost>>

At(p, l) == phase[p] \in {"stopping", "exiting"} /\ pass[p].at = l
Process(p) == pass[p].process
Goto(p, l) == pass' = [pass EXCEPT ![p].at = l]
Done(p) == pass' = [pass EXCEPT ![p].at = "next", ![p].process = 0]

(* A name with a task: the task is cancelled, the process not looked at.   *)
NextName(p) ==
  /\ At(p, "next")
  /\ \E n \in pass[p].todo :
       LET e == registry[p][n] IN
       IF e.task # 0 \/ e.process = 0
       THEN /\ pass' = [pass EXCEPT ![p].todo = @ \ {n}]
            /\ Tell({e.task} \ {0})
       ELSE /\ pass' = [pass EXCEPT ![p].todo = @ \ {n}, ![p].process = e.process, ![p].at = "join"]
            /\ UNCHANGED workers
  /\ UNCHANGED <<registry, handler, phase, lost>>
(* join(timeout) has returned, whether the process has ended or not.       *)
Terminate(p) ==
  /\ At(p, "join")
  /\ Tell({Process(p)})
  /\ Goto(p, "close")
  /\ UNCHANGED <<registry, handler, phase, lost>>

\* Mutant of Close: a process is closed at once.
CloseAnyway(p) ==
  /\ At(p, "close")
  /\ Done(p)
  /\ UNCHANGED <<workers, registry, handler, phase, lost>>

(* close() right after terminate() raises ValueError if it still runs.     *)
Close(p) ==
  /\ At(p, "close")
  /\ IF Alive(Process(p)) THEN Goto(p, "pthread") ELSE Done(p)
  /\ UNCHANGED <<workers, registry, handler, phase, lost>>
(* pthread_kill is given a process for a thread: it fails, or the program  *)
(* itself crashes.                                                         *)
PthreadKill(p) ==
  /\ At(p, "pthread")
  /\ \/ Goto(p, "kill") /\ UNCHANGED <<phase, registry>>
     \/ Dies(p)
  /\ UNCHANGED <<workers, handler, lost>>
Kill(p) ==
  /\ At(p, "kill")
  /\ SetState(Process(p), "ended")
  /\ Done(p)
  /\ UNCHANGED <<registry, handler, phase, lost>>
Unregister(p) ==
  /\ At(p, "next") /\ pass[p].todo = {}
  /\ registry' = [registry EXCEPT ![p] =
       [n \in Names |-> IF n \in pass[p].names THEN NoEntry ELSE @[n]]]
  /\ phase' = [phase EXCEPT ![p] = IF @ = "stopping" THEN "up" ELSE "joining"]
  /\ pass' = [pass EXCEPT ![p] = NoPass]
  /\ UNCHANGED <<workers, handler, lost>>
(* multiprocessing's own exit function waits for every process.            *)
JoinAll(p) ==
  /\ phase[p] = "joining"
  /\ \A w \in Processes(p) : ~Alive(w)
  /\ phase' = [phase EXCEPT ![p] = "gone"]
  /\ UNCHANGED <<workers, registry, handler, pass, lost>>

ProgramStep(p) == NextName(p) \/ Terminate(p) \/ Close(p) \/ PthreadKill(p)
                  \/ Kill(p) \/ Unregister(p) \/ JoinAll(p)
Next ==
  \/ \E p \in Programs :
       \/ \E count \in Counts : StartTaskWorkers(p, count)
       \/ \E names \in SUBSET Registered(p) : ExitTaskWorkers(p, names)
       \/ Signal(p) \/ AtExit(p) \/ ProgramStep(p)
  \/ \E w \in DOMAIN workers : WorkerStarts(w) \/ WorkerEnds(w)

(* A program goes on with its exit; a worker need not end.                 *)
Spec == Init /\ [][Next]_vars /\ \A p \in Programs : WF_vars(ProgramStep(p))

(***************************************************************************)
(* Properties                                                              *)
(***************************************************************************)
Ids == 0 .. Len(workers)
(* The shape of the state: the registry refers to workers of its program.  *)
TypeOK ==
  /\ workers \in Seq([program : Programs, name : Names, count : Counts, kind : {"process", "task"},
                      state : {"starting", "serving", "stopping", "ended"}])
  /\ registry \in [Programs -> [Names -> [process : Ids, task : Ids]]]
  /\ \A p \in Programs : {registry[p][n].process : n \in Names} \subseteq Processes(p) \cup {0}
  /\ handler \in [Programs -> Ids]
  /\ phase \in [Programs -> {"up", "stopping", "exiting", "joining", "gone", "dead"}]
  /\ pass \in [Programs -> [names : SUBSET Names, todo : SUBSET Names, process : Ids,
                            at : {"next", "join", "close", "pthread", "kill"}]]
  /\ lost \subseteq Ids

(* The names of workers on different hosts differ where the hosts differ   *)
(* in their last digit and as many workers are started on each; with the   *)
(* same digit, or other numbers of workers, they may be the same.          *)
NamesTellApart ==
  \A v, w \in DOMAIN workers :
    LET a == workers[v]  b == workers[w] IN
    a.name = b.name /\ a.program # b.program
      => Digit[a.program] = Digit[b.program] \/ a.count # b.count

(* When exit_task_workers has come to its end, no process that it knew is  *)
(* left; those that lost their entry to another worker of the name are.    *)
(* The registry refers to workers of its program all the while.            *)
ExitStopsAll ==
  TypeOK /\ \A p \in Programs : phase[p] \in {"joining", "gone"} =>
    \A w \in Processes(p) : Alive(w) => w \in lost

(* A program that ends is gone at last, however its workers take it,       *)
(* unless it has lost sight of one, which it then waits for.               *)
ProgramsEnd ==
  \A p \in Programs :
    phase[p] = "exiting" ~> phase[p] \in {"gone", "dead"} \/ \E w \in lost : Alive(w)
=============================================================================
