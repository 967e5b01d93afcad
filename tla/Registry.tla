------------------------------ MODULE Registry ------------------------------
(***************************************************************************)
(* The task manager of a process (kvdb/tasks/main.py): the TaskABC classes *)
(* it compiles, the functions their instances register with the settings   *)
(* the decorators gave, and the TaskQueue and TaskWorker objects it makes, *)
(* hands out and configures for the threads that ask for them.             *)
(*                                                                         *)
(* The settings of a function are the set of decorators they come from:    *)
(* <<c, f>> is the decorator of method f in class c, <<c, "cls">> that of  *)
(* class c.  A dict of settings that is updated gains the other's origins. *)
(* A config is the kwargs of a call: None for no kwargs, else the          *)
(* max_concurrency asked for.                                              *)
(***************************************************************************)
EXTENDS Integers, Sequences, SequencesExt, FiniteSets

CONSTANTS Classes, Funcs, None,
          Parent,        \* the parent class; None for TaskABC
          Programs,      \* the programs: see Program
          Queues, WorkerNames,  \* names of queues and of workers
          Threads,
          Configs,       \* the values of max_concurrency asked for
          Default,       \* the max_concurrency of the settings
          MaxCalls       \* bound on the calls of the manager

(* A program: its threads, its TaskABC classes and those that are          *)
(* decorated with register_object instead, the methods a class defines,    *)
(* those it marks, and the decorators that pass settings.                  *)
Program == [threads : SUBSET Threads, classes : SUBSET Classes, objects : SUBSET Classes,
            methods : [Classes -> SUBSET Funcs],
            marked : [Classes -> SUBSET Funcs],
            given : SUBSET (Classes \X (Funcs \cup {"cls"}))]

ASSUME NoneAssumption == None \notin Classes \cup Queues \cup WorkerNames \cup Threads \cup Configs
ASSUME ClsAssumption == "cls" \notin Funcs
ASSUME BoundAssumption == MaxCalls \in Nat
(* Classes are at most two deep, and a subclass of a class that marks      *)
(* nothing marks something: _compile_abcs raises KeyError otherwise.       *)
ASSUME ParentAssumption ==
  /\ Parent \in [Classes -> Classes \cup {None}]
  /\ \A c \in Classes : Parent[c] # None => Parent[Parent[c]] = None
ASSUME ProgramsAssumption ==
  /\ Programs \subseteq Program
  /\ \A p \in Programs : \A c \in p.classes :
       /\ p.marked[c] \subseteq p.methods[c]
       /\ Parent[c] # None => /\ Parent[c] \in p.classes
                              /\ p.marked[c] \cup p.marked[Parent[c]] # {}
  /\ \A p \in Programs : p.objects \cap p.classes = {}

VARIABLES
    program,      \* the program that runs
    declared,     \* the classes that exist, in order: _task_registered_abcs
    compiledAt,   \* the classes there were when they were compiled; -1 before
    registered,   \* _task_registered_abc_functions
    partials,     \* _task_unregistered_abc_partials, by class
    own,          \* __task_function_partials__, by class
    initialized,  \* _task_initialized_abcs: <<queue, class>>
    taskObjects,  \* registered_task_object: <<queue, class>> to settings by method
    functions,    \* QueueTasks.functions by queue: <<class, func>> to settings
    lock,         \* the thread that holds the manager's lock
    config,       \* settings.tasks, which all queues and workers share
    limit,        \* max_concurrency of every TaskQueue object, as made
    taskQueues,   \* the object of each queue; 0 for none
    hashes,       \* task_queue_hashes
    latest,       \* QueueTasks.queue: the object that registered last
    workers,      \* the queue and object each worker serves; 0 for no worker
    workerHashes, \* task_worker_hashes
    call,         \* the call each thread is in
    held,         \* the object each thread was given last, with its queue
    raced,        \* queues two threads found missing at the same time
    unsafe,       \* queues made or configured while another thread did so
    calls

classes == <<program, declared, compiledAt, registered, partials, own, initialized, taskObjects, functions>>
objects == <<lock, config, limit, taskQueues, hashes, latest, workers, workerHashes>>
registryVars == <<classes, objects, call, held, raced, unsafe, calls>>

Keys == Funcs \cup {"cls"}
Origins == Classes \X Keys
Idle == [pc |-> "idle", q |-> None, config |-> None, w |-> None,
         wconfig |-> None, locked |-> FALSE, spawn |-> FALSE]

RegistryInit ==
  /\ program \in Programs
  /\ declared = <<>> /\ compiledAt = -1
  /\ registered = [c \in Classes |-> {}]
  /\ partials = [c \in Classes |-> [k \in Keys |-> {}]]
  /\ own = [c \in Classes |-> [k \in Keys |-> {}]]
  /\ initialized = {} /\ taskObjects = <<>>
  /\ functions = [q \in Queues |-> <<>>]
  /\ lock = None /\ config = Default /\ limit = <<>>
  /\ taskQueues = [q \in Queues |-> 0]
  /\ hashes = [q \in Queues |-> None]
  /\ latest = [q \in Queues |-> 0]
  /\ workers = [w \in WorkerNames |-> <<None, 0>>]
  /\ workerHashes = [w \in WorkerNames |-> None]
  /\ call = [t \in Threads |-> Idle]
  /\ held = [t \in Threads |-> <<None, 0>>]
  /\ raced = {} /\ unsafe = {} /\ calls = 0

-----------------------------------------------------------------------------
(* The class statement: register_abc marks the methods, __init_subclass__  *)
(* registers the class, and register_abc on the class adds its settings.   *)
Declare(c) ==
  /\ c \in program.classes \ Range(declared)
  /\ Parent[c] # None => Parent[c] \in Range(declared)
  /\ declared' = Append(declared, c)
  /\ registered' = [registered EXCEPT ![c] = program.marked[c]]
  /\ partials' = [partials EXCEPT ![c] =
       [k \in Keys |-> IF k \in program.marked[c] \cup {"cls"}
                       THEN {<<c, k>>} \cap program.given ELSE {}]]
  /\ UNCHANGED <<program, compiledAt, own, initialized, taskObjects, functions, objects, call, held, raced, unsafe, calls>>

HasAttr(c) ==
  program.methods[c] \cup (IF Parent[c] = None THEN {} ELSE program.methods[Parent[c]])

\* Mutant of CompileSub: settings of a subclass are kept in the parent in any case.
CompileSubShared(s, c, d, k) ==
  LET plain == program.marked[d] = {}
      merged == [x \in Keys |-> s.partials[c][x] \cup IF plain THEN {} ELSE s.partials[d][x]]
      others == UNION {s.registered[o] : o \in Range(declared) \ {c}}
      todo == (program.marked[d] \cup program.marked[c] \cup others) \cap HasAttr(d)
      kept == [x \in Keys |-> IF x \in todo
                              THEN merged[x] ELSE s.partials[c][x]]
      added == [x \in Keys |-> IF x = "cls" THEN k \cup merged[x]
                               ELSE IF x \in todo THEN merged[x] ELSE {}]
      found == s.registered[IF plain THEN c ELSE d]
  IN [registered |-> (d :> (todo \cup found)) @@ s.registered,
      partials |-> (c :> kept) @@ (d :> [x \in Keys |-> IF x = "cls" THEN {} ELSE merged[x]])
                     @@ s.partials,
      own |-> (d :> [x \in Keys |-> s.own[d][x] \cup added[x]]) @@ s.own]

(* One subclass d of class c in _compile_abcs, k the settings of c itself. *)
(* Settings of a method in c are a dict that the subclass updates: they    *)
(* keep what d adds.  A subclass that marks nothing takes over a copy of   *)
(* the partials of c, and its own class settings are dropped.  The methods *)
(* of every other class are compiled where d has one of the same name.     *)
CompileSub(s, c, d, k) ==
  LET plain == program.marked[d] = {}
      merged == [x \in Keys |-> s.partials[c][x] \cup IF plain THEN {} ELSE s.partials[d][x]]
      others == UNION {s.registered[o] : o \in Range(declared) \ {c}}
      todo == (program.marked[d] \cup program.marked[c] \cup others) \cap HasAttr(d)
      kept == [x \in Keys |-> IF x \in todo /\ s.partials[c][x] # {}
                              THEN merged[x] ELSE s.partials[c][x]]
      added == [x \in Keys |-> IF x = "cls" THEN k \cup merged[x]
                               ELSE IF x \in todo THEN merged[x] ELSE {}]
      found == s.registered[IF plain THEN c ELSE d]
  IN [registered |-> (d :> (todo \cup found)) @@ s.registered,
      partials |-> (c :> kept) @@ (d :> [x \in Keys |-> IF x = "cls" THEN {} ELSE merged[x]])
                     @@ s.partials,
      own |-> (d :> [x \in Keys |-> s.own[d][x] \cup added[x]]) @@ s.own]

(* One class: its own settings go to it and to its subclasses.             *)
CompileClass(s, c) ==
  LET k == s.partials[c]["cls"]
      popped == [registered |-> s.registered,
                 partials |-> (c :> [x \in Keys |-> IF x = "cls" THEN {} ELSE s.partials[c][x]])
                                @@ s.partials,
                 own |-> (c :> [x \in Keys |-> s.own[c][x] \cup IF x = "cls" THEN k ELSE {}])
                           @@ s.own]
  IN FoldLeft(LAMBDA r, d : CompileSub(r, c, d, k), popped,
              SelectSeq(declared, LAMBDA d : Parent[d] = c))

(* compile_tasks: once, for the classes there are.                         *)
Compiled ==
  LET s == [registered |-> registered, partials |-> partials, own |-> own]
  IN IF compiledAt >= 0 THEN s ELSE FoldLeft(CompileClass, s, declared)

Compile(s) ==
  /\ compiledAt' = IF compiledAt >= 0 THEN compiledAt ELSE Len(declared)
  /\ registered' = s.registered
  /\ partials' = s.partials

-----------------------------------------------------------------------------
(* What a call of get_task_queue, get_task_worker or spawn begins with.    *)
Begin(t, c) ==
  /\ t \in program.threads /\ call[t] = Idle /\ calls < MaxCalls
  /\ call' = [call EXCEPT ![t] = c]
  /\ calls' = calls + 1

StartCall(t, c) ==
  /\ Begin(t, c)
  /\ LET s == Compiled IN Compile(s) /\ own' = s.own
  /\ UNCHANGED <<program, declared, initialized, taskObjects, functions, objects, held, raced, unsafe>>

GetTaskQueue(t, q, cfg) ==
  StartCall(t, [Idle EXCEPT !.pc = "check", !.q = q, !.config = cfg, !.locked = TRUE])

(* enqueue, apply and the other passthroughs of the manager ask for the    *)
(* queue by its name alone.                                                *)
Passthrough(t, q) == GetTaskQueue(t, q, None)

(* So do wait_for_job, wait_for_jobs and as_jobs_complete: the queue of the *)
(* job they wait for is not looked at.                                     *)
PassthroughWait(t, q) == GetTaskQueue(t, q, None)

(* The functions of the package pass the call to the manager.              *)
ModuleCall(t, q) == Passthrough(t, q)
ModuleWait(t, q) == PassthroughWait(t, q)

(* aget_task_queue takes a lock that get_task_queue does not look at.      *)
AGetTaskQueue(t, q, cfg) ==
  StartCall(t, [Idle EXCEPT !.pc = "check", !.q = q, !.config = cfg])

GetTaskWorker(t, w, q, cfg, wcfg) ==
  StartCall(t, [Idle EXCEPT !.pc = "worker", !.q = q, !.config = cfg, !.w = w,
                        !.wconfig = wcfg, !.locked = TRUE])

(* aget_task_worker passes the worker's kwargs to the queue as well.       *)
AGetTaskWorker(t, w, q, wcfg) ==
  StartCall(t, [Idle EXCEPT !.pc = "worker", !.q = q, !.config = wcfg, !.w = w, !.wconfig = wcfg])

(* spawn_new_task_worker: the queue with its config and then the worker,   *)
(* to which the queue's config is not passed, both without the lock.       *)
Spawn(t, w, q, cfg, wcfg) ==
  StartCall(t, [Idle EXCEPT !.pc = "check", !.q = q, !.config = cfg, !.w = w,
                        !.wconfig = wcfg, !.spawn = TRUE])

(* The settings a method is registered with: __get_task_function_partials__ *)
(* updates and returns the dict of the class's settings where it has some, *)
(* so they pass on to the methods that come later.                         *)
FunctionPartials(o, order, i) ==
  IF o["cls"] = {} THEN o[order[i]]
  ELSE o["cls"] \cup UNION {o[order[j]] : j \in 1..i}

(* QueueTasks.add_function: the first of a name is kept.                   *)
AddFunctions(known, new) == known @@ new

(* The methods are registered in any order, each with the settings at the  *)
(* time.  Then the instance gets its queue, without kwargs:                *)
(* get_queue_config is None.                                               *)
RegisterMethods(t, c, q, o, methods) ==
  /\ Begin(t, [Idle EXCEPT !.pc = "check", !.q = q, !.locked = TRUE])
  /\ \E order \in SetToSeqs(methods) :
       LET new == [n \in {c} \X methods |->
                     FunctionPartials(o, order, CHOOSE i \in DOMAIN order : order[i] = n[2])]
           left == IF o["cls"] = {} THEN {} ELSE FunctionPartials(o, order, Len(order))
       IN /\ functions' = [functions EXCEPT ![q] = AddFunctions(@, new)]
          /\ own' = [Compiled.own EXCEPT ![c] = [o EXCEPT !["cls"] = left]]
  /\ initialized' = initialized \cup {<<q, c>>}

(* __register_abc_task_init__, run by every new instance.  A class without *)
(* methods of its own takes those of its parent.                           *)
NewInstance(t, c, q) ==
  LET s == Compiled
      inherits == s.registered[c] = {} /\ Parent[c] # None
      methods == IF inherits THEN s.registered[Parent[c]] ELSE s.registered[c]
      o == IF ~inherits THEN s.own[c]
           ELSE [k \in Keys |-> IF k \in methods /\ s.own[c][k] = {}
                                THEN s.partials[Parent[c]][k] ELSE s.own[c][k]]
  IN /\ c \in Range(declared)
     /\ Compile(s)
     /\ \/ /\ <<q, c>> \in initialized \/ methods = {}
           /\ own' = s.own
           /\ UNCHANGED <<initialized, functions, call, calls>>
        \/ /\ <<q, c>> \notin initialized /\ methods # {}
           /\ RegisterMethods(t, c, q, o, methods)
     /\ UNCHANGED <<program, declared, taskObjects, objects, held, raced, unsafe>>

-----------------------------------------------------------------------------
(* A class with register_object, whose methods register_object_method      *)
(* marked: their settings are kept by the class that defines them.         *)
DeclareObject(c, q) ==
  /\ c \in program.objects /\ c \notin {o[2] : o \in DOMAIN taskObjects}
  /\ Parent[c] # None => Parent[c] \in {o[2] : o \in DOMAIN taskObjects}
  /\ taskObjects' = taskObjects @@ (<<q, c>> :> [f \in program.marked[c] |-> {<<c, f>>} \cap program.given])
  /\ UNCHANGED <<program, declared, compiledAt, registered, partials, own, initialized, functions,
                 objects, call, held, raced, unsafe, calls>>

Root(c) == IF Parent[c] = None THEN c ELSE Parent[c]

(* __kvdb_task_init__ of a new instance of c.  A subclass has the          *)
(* initializer, the queue and the id of its parent, and its own methods    *)
(* are added to the parent's where that has none of the name, also for the *)
(* instances of the parent: one that lacks a method raises at it.  A       *)
(* method without any settings is not registered.                          *)
NewObject(c, q) ==
  LET root == <<q, Root(c)>>
      mine == IF <<q, c>> \in DOMAIN taskObjects THEN taskObjects[<<q, c>>] ELSE <<>>
      merged == taskObjects[root] @@ mine
      kws(f) == ({<<Root(c), "cls">>} \cap program.given) \cup merged[f]
      known == {f \in DOMAIN merged \cap HasAttr(c) : kws(f) # {}}
  IN /\ root \in DOMAIN taskObjects
     /\ \E p \in Queues : <<p, c>> \in DOMAIN taskObjects
     /\ taskObjects' = (root :> merged) @@ (<<q, c>> :> mine) @@ taskObjects
     /\ functions' = [functions EXCEPT ![q] = AddFunctions(@, [n \in {c} \X known |-> kws(n[2])])]
     /\ UNCHANGED <<program, declared, compiledAt, registered, partials, own, initialized,
                    objects, call, held, raced, unsafe, calls>>

-----------------------------------------------------------------------------
(* Calls that go to a TaskQueue object without asking the manager.         *)
Uses(t, h) ==
  /\ t \in program.threads /\ call[t] = Idle /\ h[2] # 0
  /\ held' = [held EXCEPT ![t] = h]
  /\ UNCHANGED <<classes, objects, call, raced, unsafe, calls>>

(* A registered function is patched: it enqueues to the object that        *)
(* registered last, and raises when there is none.                         *)
PatchedFunction(t, q) == DOMAIN functions[q] # {} /\ Uses(t, <<q, latest[q]>>)

(* enqueue, apply and the other passthroughs of QueueTasks.                *)
QueueTasksCall(t, q) == Uses(t, <<q, latest[q]>>)
QueueTasksWait(t, q) == Uses(t, <<q, latest[q]>>)

(* Those of TaskWorker, which has the object it was made with: enqueue and *)
(* the like go to its only queue, a wait to the queue the job is of, and   *)
(* raises where the worker does not serve that.                            *)
WorkerCall(t, w) == Uses(t, workers[w])
WorkerWait(t, w, q) == workers[w][1] = q /\ Uses(t, workers[w])

-----------------------------------------------------------------------------
Asks(t, pcs) == call[t].pc \in pcs
Proceed(t, pc) == call' = [call EXCEPT ![t].pc = pc]

(* The queues another thread is about, between the shared config and the   *)
(* hash.                                                                   *)
Disturbed(t) == {call[u].q : u \in {v \in Threads \ {t} : Asks(v, {"build", "apply", "hash"})}}

(* The end of get_task_queue: back to get_task_worker, on to the worker    *)
(* that is spawned, or to the caller.                                      *)
Return(t, o) ==
  LET c == call[t]
  IN /\ call' = [call EXCEPT ![t] =
           IF c.spawn THEN [c EXCEPT !.pc = "worker", !.spawn = FALSE, !.config = None]
           ELSE IF c.w # None THEN [c EXCEPT !.pc = "make"] ELSE Idle]
     /\ held' = [held EXCEPT ![t] = <<c.q, o>>]

Free(t) == ~call[t].locked \/ lock = None
Taken(t) == IF call[t].locked THEN t ELSE lock
Released(t) == IF lock = t THEN None ELSE lock

\* Mutant of Check: a queue of another config is made anew.
CheckRecreates(t) ==
  LET q == call[t].q
  IN /\ Asks(t, {"check"})
     /\ IF taskQueues[q] = 0 THEN Proceed(t, "create") /\ UNCHANGED held
        ELSE IF hashes[q] # call[t].config THEN Proceed(t, "create") /\ UNCHANGED held
        ELSE Return(t, taskQueues[q])
     /\ raced' = raced \cup {r \in {q} : taskQueues[q] = 0 /\ \E u \in Threads \ {t} :
                               call[u].q = q /\ Asks(u, {"create", "build"})}
     /\ UNCHANGED <<classes, objects, unsafe, calls>>

(* get_task_queue looks for the queue and compares the hash before it      *)
(* takes the lock.                                                         *)
Check(t) ==
  LET q == call[t].q
  IN /\ Asks(t, {"check"})
     /\ IF taskQueues[q] = 0 THEN Proceed(t, "create") /\ UNCHANGED held
        ELSE IF hashes[q] # call[t].config THEN Proceed(t, "configure") /\ UNCHANGED held
        ELSE Return(t, taskQueues[q])
     /\ raced' = raced \cup {r \in {q} : taskQueues[q] = 0 /\ \E u \in Threads \ {t} :
                               call[u].q = q /\ Asks(u, {"create", "build"})}
     /\ UNCHANGED <<classes, objects, unsafe, calls>>

(* The lock is taken and the call's config goes into the shared one.  In   *)
(* get_task_worker the thread may hold the lock itself: it waits forever.  *)
Enter(t) ==
  LET c == call[t]
  IN /\ Asks(t, {"create", "configure"}) /\ Free(t)
     /\ lock' = Taken(t)
     /\ config' = IF c.config = None THEN config ELSE c.config
     /\ Proceed(t, IF c.pc = "create" THEN "build" ELSE "apply")
     /\ unsafe' = unsafe \cup Disturbed(t) \cup {q \in {c.q} : Disturbed(t) # {}}
     /\ UNCHANGED <<classes, limit, taskQueues, hashes, latest, workers, workerHashes, held, raced, calls>>
(* The object itself tells the manager of its queue's tasks that it exists. *)
RegisterTaskQueue(q, o) == latest' = [latest EXCEPT ![q] = o]

(* TaskQueue.__init__ reads the shared config and registers the object;    *)
(* the manager stores it.                                                  *)
Build(t) ==
  LET q == call[t].q
  IN /\ Asks(t, {"build"})
     /\ limit' = Append(limit, config)
     /\ RegisterTaskQueue(q, Len(limit) + 1)
     /\ taskQueues' = [taskQueues EXCEPT ![q] = Len(limit')]
     /\ Proceed(t, "hash")
     /\ UNCHANGED <<classes, lock, config, hashes, workers, workerHashes, held, raced, unsafe, calls>>

(* TaskQueue.configure.                                                    *)
Apply(t) ==
  /\ Asks(t, {"apply"})
  /\ limit' = [limit EXCEPT ![taskQueues[call[t].q]] = config]
  /\ Proceed(t, "hash")
  /\ UNCHANGED <<classes, lock, config, taskQueues, hashes, latest, workers, workerHashes,
                 held, raced, unsafe, calls>>

\* Mutant of StoreHash: the lock is not released.
StoreHashKeepsLock(t) ==
  LET q == call[t].q
  IN /\ Asks(t, {"hash"})
     /\ hashes' = [hashes EXCEPT ![q] = call[t].config]
     /\ UNCHANGED lock
     /\ Return(t, taskQueues[q])
     /\ UNCHANGED <<classes, config, limit, taskQueues, latest, workers, workerHashes,
                    raced, unsafe, calls>>

StoreHash(t) ==
  LET q == call[t].q
  IN /\ Asks(t, {"hash"})
     /\ hashes' = [hashes EXCEPT ![q] = call[t].config]
     /\ lock' = Released(t)
     /\ Return(t, taskQueues[q])
     /\ UNCHANGED <<classes, config, limit, taskQueues, latest, workers, workerHashes,
                    raced, unsafe, calls>>

-----------------------------------------------------------------------------
(* get_task_worker: a worker that exists and was asked for with the same   *)
(* kwargs is returned whatever its queues; else the lock is held over      *)
(* get_worker_queues.                                                      *)
CheckWorker(t) ==
  LET c == call[t]
  IN /\ Asks(t, {"worker"})
     /\ IF workers[c.w][2] # 0 /\ workerHashes[c.w] = c.wconfig
        THEN call' = [call EXCEPT ![t] = Idle] ELSE Proceed(t, "enter")
     /\ UNCHANGED <<classes, objects, held, raced, unsafe, calls>>

EnterWorker(t) ==
  /\ Asks(t, {"enter"}) /\ Free(t)
  /\ lock' = Taken(t)
  /\ Proceed(t, "check")
  /\ UNCHANGED <<classes, config, limit, taskQueues, hashes, latest, workers, workerHashes,
                 held, raced, unsafe, calls>>

(* TaskWorker.__init__ takes over the queue; TaskWorker.configure passes   *)
(* its queues twice and raises, after it changed the shared config.        *)
MakeWorker(t) ==
  LET c == call[t]
  IN /\ Asks(t, {"make"})
     /\ config' = IF c.wconfig = None THEN config ELSE c.wconfig
     /\ IF workers[c.w][2] = 0
        THEN /\ workers' = [workers EXCEPT ![c.w] = held[t]]
             /\ workerHashes' = [workerHashes EXCEPT ![c.w] = c.wconfig]
        ELSE UNCHANGED <<workers, workerHashes>>
     /\ lock' = Released(t)
     /\ call' = [call EXCEPT ![t] = Idle]
     /\ unsafe' = unsafe \cup Disturbed(t)
     /\ UNCHANGED <<classes, limit, taskQueues, hashes, latest, held, raced, calls>>

Step(t) ==
  \/ Check(t) \/ Enter(t) \/ Build(t) \/ Apply(t) \/ StoreHash(t)
  \/ CheckWorker(t) \/ EnterWorker(t) \/ MakeWorker(t)

Settings == Configs \cup {None}

RegistryNext ==
  \/ \E c \in Classes : Declare(c)
  \/ \E t \in Threads : Step(t)
  \/ \E t \in Threads, c \in Classes, q \in Queues : NewInstance(t, c, q)
  \/ \E c \in Classes, q \in Queues : DeclareObject(c, q) \/ NewObject(c, q)
  \/ \E t \in Threads, q \in Queues :
       \/ Passthrough(t, q) \/ PassthroughWait(t, q) \/ ModuleCall(t, q) \/ ModuleWait(t, q)
       \/ PatchedFunction(t, q) \/ QueueTasksCall(t, q) \/ QueueTasksWait(t, q)
  \/ \E t \in Threads, w \in WorkerNames :
       WorkerCall(t, w) \/ \E q \in Queues : WorkerWait(t, w, q)
  \/ \E t \in Threads, q \in Queues, cfg \in Configs : GetTaskQueue(t, q, cfg)
  \/ \E t \in Threads, q \in Queues, cfg \in Settings : AGetTaskQueue(t, q, cfg)
  \/ \E t \in Threads, q \in Queues, w \in WorkerNames, wcfg \in Settings :
       \/ AGetTaskWorker(t, w, q, wcfg)
       \/ \E cfg \in Settings : GetTaskWorker(t, w, q, cfg, wcfg) \/ Spawn(t, w, q, cfg, wcfg)

(* Threads are scheduled; the calls are bounded, so that a thread that     *)
(* waits for the lock gets it once it is free.                             *)
RegistrySpec == RegistryInit /\ [][RegistryNext]_registryVars /\ \A t \in Threads : WF_registryVars(Step(t))

-----------------------------------------------------------------------------
(* The shape of the tables of classes and functions.                       *)
ClassTypes ==
  /\ program \in Programs
  /\ Range(declared) \subseteq Classes /\ compiledAt \in -1..Len(declared)
  /\ registered \in [Classes -> SUBSET Funcs]
  /\ partials \in [Classes -> [Keys -> SUBSET Origins]]
  /\ own \in [Classes -> [Keys -> SUBSET Origins]]
  /\ initialized \subseteq Queues \X Classes
  /\ DOMAIN taskObjects \subseteq Queues \X program.objects
  /\ \A q \in Queues : DOMAIN functions[q] \subseteq Classes \X Funcs

(* The shape of the tables of queues and workers, and of the calls: they   *)
(* refer to objects that were made.                                        *)
Steps == {"idle", "check", "create", "configure", "build", "apply", "hash",
          "worker", "enter", "make"}
ObjectTypes ==
  /\ lock \in Threads \cup {None}
  /\ limit \in Seq(Configs \cup {Default})
  /\ config \in Configs \cup {Default}
  /\ taskQueues \in [Queues -> 0..Len(limit)] /\ latest \in [Queues -> 0..Len(limit)]
  /\ hashes \in [Queues -> Settings]
  /\ workers \in [WorkerNames -> (Queues \cup {None}) \X (0..Len(limit))]
  /\ workerHashes \in [WorkerNames -> Settings]
  /\ call \in [Threads -> [pc : Steps, q : Queues \cup {None}, w : WorkerNames \cup {None},
                           config : Settings, wconfig : Settings,
                           locked : BOOLEAN, spawn : BOOLEAN]]
  /\ held \in [Threads -> (Queues \cup {None}) \X (0..Len(limit))]
  /\ raced \subseteq Queues /\ unsafe \subseteq Queues
  /\ calls \in 0..MaxCalls

Family(c) == {c, Parent[c]} \ {None}
(* The classes whose decorators of f reach class c: with settings in the   *)
(* parent's decorator, those of the sibling classes too.                   *)
Reaching(c, f) ==
  IF <<Parent[c], f>> \in program.given THEN {d \in Classes : Parent[d] = Parent[c]} \cup Family(c)
  ELSE Family(c)

(* Of a decorated class its own decorators, those of its root, and, where  *)
(* the root has no such method, those of the class that came first.        *)
SaidOfObject(c, f) ==
  {<<Root(c), "cls">>} \cup {<<d, f>> : d \in {d \in Classes : Root(d) = Root(c)}}

(* A function runs with the settings that were given for it: what          *)
(* decorators of its class and its parent say, and nothing that was said   *)
(* of another method, unless its class has settings of its own, or of a    *)
(* sibling class, unless the parent gave settings for the method.  And     *)
(* what they say arrives, when the class was there in time to be compiled. *)
SettingsAreOwn ==
  ClassTypes /\ \A q \in Queues : \A n \in DOMAIN functions[q] :
    IF n[1] \in program.objects
    THEN /\ functions[q][n] \subseteq SaidOfObject(n[1], n[2]) \cap program.given
         /\ n[2] \in program.marked[Root(n[1])] =>
              {Root(n[1])} \X {"cls", n[2]} \cap program.given \subseteq functions[q][n]
    ELSE
    LET c == n[1]
        f == n[2]
        p == Parent[c]
        classLevel == own[c]["cls"] # {}
        said == {<<d, "cls">> : d \in Family(c)} \cup
                UNION {Reaching(c, g) \X {g} : g \in IF classLevel THEN Funcs ELSE {f}}
        inTime == p # None /\ c \in Range(SubSeq(declared, 1, compiledAt))
        due == {<<d, f>> : d \in {d \in Family(c) : f \in program.marked[d]}} \cup {<<p, "cls">>}
                 \cup {<<d, "cls">> : d \in {d \in {c} : program.marked[d] # {}}}
    IN /\ functions[q][n] \subseteq said \cap program.given
       /\ inTime => due \cap program.given \subseteq functions[q][n]

(* Once no thread is at it, a queue has the max_concurrency that the last  *)
(* call with kwargs asked for, when that was the last call of all, and is  *)
(* the queue its functions enqueue to; unless another thread was in the    *)
(* manager without the lock.                                               *)
QueueIsConfigured ==
  \A q \in Queues :
    (/\ taskQueues[q] # 0 /\ q \notin unsafe
     /\ \A t \in Threads : call[t].q = q => ~Asks(t, {"build", "apply", "hash"}))
    => /\ latest[q] = taskQueues[q]
       /\ hashes[q] # None => limit[taskQueues[q]] = hashes[q]

(* All callers that ask for a queue share one TaskQueue, whatever the      *)
(* kwargs, unless two of them found it missing at the same time: the       *)
(* check is made before the lock is taken and not again.                   *)
OneTaskQueue ==
  \A t \in Threads :
    (held[t][2] # 0 /\ held[t][1] \notin raced) => held[t][2] = taskQueues[held[t][1]]

(* The tables of the manager agree with what was made and asked for.       *)
QueuesAgree == ObjectTypes /\ QueueIsConfigured /\ OneTaskQueue

SelfLocked(t) == lock = t /\ call[t].locked /\ Asks(t, {"create", "configure"})

(* A call of the manager returns, unless a get_task_worker that holds the  *)
(* lock needs it again for a queue that is new or of another config.       *)
CallsReturn ==
  \A t \in Threads : (call[t] # Idle) ~> (call[t] = Idle \/ \E u \in Threads : SelfLocked(u))
=============================================================================
