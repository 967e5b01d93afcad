-------------------------- MODULE ProcessesProofs --------------------------
(***************************************************************************)
(* Theorems about what happens between processes.  WorkerProcesses, for    *)
(* any programs, hosts and numbers of workers: names tell the workers      *)
(* apart, and a program that ends leaves none behind.  KVLock, for any     *)
(* users, processes and kinds of lock: its owners exclude one another.     *)
(***************************************************************************)
EXTENDS WorkerProcesses, KVLock, SequenceTheorems, TLAPS

States == {"starting", "serving", "stopping", "ended"}
WorkerMade == [program : Programs, name : Names, count : Counts, kind : {"process", "task"},
               state : States]

(* The number in a name is one of those its program counts from.           *)
NumberInv ==
  \A w \in DOMAIN workers :
    LET first == StartIndex(workers[w].program, workers[w].count)
    IN first <= workers[w].name /\ workers[w].name < first + workers[w].count

(* A process that lives and is not lost is the only entry of its name.      *)
InSight(p, w) == w \in Processes(p) /\ Alive(w) /\ w \notin lost

KnownOf(p) ==
  phase[p] \in {"up", "stopping", "exiting"} =>
    \A w \in DOMAIN workers :
      InSight(p, w) => registry[p][workers[w].name] = [process |-> w, task |-> 0]

(* exit_task_workers leaves none of those alive whose names it is through   *)
(* with, but for the process it is at; at the end of a program it is called *)
(* for all names that have an entry.                                        *)
PassOf(p) ==
  /\ phase[p] \in {"stopping", "exiting"} =>
       \A w \in DOMAIN workers :
         InSight(p, w) /\ workers[w].name \in pass[p].names \ pass[p].todo =>
           pass[p].at # "next" /\ pass[p].process = w
  /\ phase[p] = "exiting" => \A n \in Names : registry[p][n] # NoEntry => n \in pass[p].names

ExitOf(p) == phase[p] \in {"joining", "gone"} => \A w \in Processes(p) : Alive(w) => w \in lost

KnownInv == \A p \in Programs : KnownOf(p)
PassInv == \A p \in Programs : PassOf(p)
ExitInv == \A p \in Programs : ExitOf(p)

ProcessesInv == TypeOK /\ NumberInv /\ KnownInv /\ PassInv /\ ExitInv


(***************************************************************************)
(* The table of workers                                                    *)
(***************************************************************************)
(* A function on 1 .. n is a sequence of length n.                          *)
LEMMA FunctionSeq ==
  ASSUME NEW S, NEW n \in Nat, NEW f \in [1..n -> S]
  PROVE  f \in Seq(S) /\ Len(f) = n
  <1>1. f \in Seq(S)
    BY SeqDef
  <1>2. Len(f) \in Nat /\ DOMAIN f = 1..Len(f) /\ DOMAIN f = 1..n
    BY <1>1, LenProperties
  <1>3. QED
    BY <1>1, <1>2

LEMMA Table ==
  ASSUME TypeOK
  PROVE  /\ workers \in Seq(WorkerMade) /\ Len(workers) \in Nat
         /\ DOMAIN workers = 1..Len(workers)
         /\ \A w \in 1..Len(workers) : workers[w] \in WorkerMade
  <1>1. workers \in Seq(WorkerMade)
    BY DEF TypeOK, WorkerMade, States
  <1>2. QED
    BY <1>1, LenProperties, ElementOfSeq

(* What every step but Start does to workers: states change, and the ended  *)
(* stay so.                                                                 *)
Ages ==
  /\ workers' \in Seq(WorkerMade) /\ Len(workers') = Len(workers) /\ DOMAIN workers' = DOMAIN workers
  /\ \A w \in DOMAIN workers :
       /\ workers'[w].program = workers[w].program /\ workers'[w].name = workers[w].name
       /\ workers'[w].count = workers[w].count /\ workers'[w].kind = workers[w].kind
       /\ workers[w].state = "ended" => workers'[w].state = "ended"

LEMMA Ageing ==
  ASSUME TypeOK, workers' = [w \in DOMAIN workers |-> workers'[w]],
         \A w \in DOMAIN workers : \E s \in States :
           /\ workers'[w] = [workers[w] EXCEPT !.state = s]
           /\ workers[w].state = "ended" => s = "ended"
  PROVE  Ages
  <1>1. /\ Len(workers) \in Nat /\ DOMAIN workers = 1..Len(workers)
        /\ \A w \in 1..Len(workers) : workers[w] \in WorkerMade
    BY Table
  <1>2. ASSUME NEW w \in 1..Len(workers)
        PROVE  /\ workers'[w] \in WorkerMade
               /\ workers'[w].program = workers[w].program /\ workers'[w].name = workers[w].name
               /\ workers'[w].count = workers[w].count /\ workers'[w].kind = workers[w].kind
               /\ workers[w].state = "ended" => workers'[w].state = "ended"
    BY <1>1 DEF WorkerMade
  <1>3. workers' \in [1..Len(workers) -> WorkerMade]
    BY <1>1, <1>2
  <1>4. QED
    BY <1>1, <1>2, <1>3, FunctionSeq DEF Ages

LEMMA SetStateAges ==
  ASSUME TypeOK, NEW w, NEW s \in States, SetState(w, s), w \in DOMAIN workers => Alive(w) \/ s = "ended"
  PROVE  Ages
  <1>1. /\ DOMAIN workers = 1..Len(workers) /\ \A v \in 1..Len(workers) : workers[v] \in WorkerMade
        /\ workers = [v \in DOMAIN workers |-> workers[v]]
    BY Table, LenProperties
  <1>2. workers' = [v \in DOMAIN workers |-> workers'[v]]
    BY <1>1 DEF SetState
  <1>3. \A v \in DOMAIN workers : workers'[v] = IF v = w THEN [workers[v] EXCEPT !.state = s] ELSE workers[v]
    BY <1>1 DEF SetState
  <1>4. ASSUME NEW v \in DOMAIN workers
        PROVE  \E r \in States : /\ workers'[v] = [workers[v] EXCEPT !.state = r]
                                 /\ workers[v].state = "ended" => r = "ended"
    <2>1. CASE v = w
      BY <2>1, <1>3 DEF Alive
    <2>2. CASE v # w
      <3>1. workers[v].state \in States /\ workers'[v] = [workers[v] EXCEPT !.state = workers[v].state]
        BY <2>2, <1>1, <1>3 DEF WorkerMade
      <3>2. QED
        BY <3>1
    <2>3. QED
      BY <2>1, <2>2
  <1>5. QED
    BY <1>2, <1>4, Ageing

(* Those that are told to stop, and the tasks that end with their program.  *)
LEMMA TellAges ==
  ASSUME TypeOK, NEW ws,
         \/ Tell(ws)
         \/ workers' = [w \in DOMAIN workers |->
                          IF w \in ws THEN [workers[w] EXCEPT !.state = "ended"] ELSE workers[w]]
  PROVE  Ages
  <1>1. \A v \in DOMAIN workers : workers[v] \in WorkerMade
    BY Table
  <1>2. workers' = [v \in DOMAIN workers |-> workers'[v]]
    BY DEF Tell
  <1>3. ASSUME NEW v \in DOMAIN workers
        PROVE  \E r \in States : /\ workers'[v] = [workers[v] EXCEPT !.state = r]
                                 /\ workers[v].state = "ended" => r = "ended"
    <2>1. /\ workers[v].state \in States /\ Told(workers[v].state) \in States
          /\ workers[v].state = "ended" => Told(workers[v].state) = "ended"
          /\ workers[v] = [workers[v] EXCEPT !.state = workers[v].state]
      BY <1>1 DEF WorkerMade, States, Told
    <2>2. \E r \in {workers[v].state, Told(workers[v].state), "ended"} :
            /\ workers'[v] = [workers[v] EXCEPT !.state = r]
            /\ workers[v].state = "ended" => r = "ended"
      BY <2>1 DEF Tell
    <2>3. "ended" \in States
      BY DEF States
    <2>4. QED
      BY <2>1, <2>2, <2>3
  <1>4. QED
    BY <1>2, <1>3, Ageing

LEMMA SameAges ==
  ASSUME TypeOK, UNCHANGED workers
  PROVE  Ages
  BY Table DEF Ages


(* What ageing leaves of the sets that the invariants speak of.             *)
LEMMA Aged ==
  ASSUME TypeOK, Ages
  PROVE  /\ Ids' = Ids /\ workers' \in Seq(WorkerMade)
         /\ \A p \in Programs : Processes(p)' = Processes(p)
         /\ \A p \in Programs : \A w \in Processes(p) : w \in DOMAIN workers /\ (Alive(w)' => Alive(w))
         /\ \A w \in DOMAIN workers : workers'[w].name = workers[w].name
         /\ UNCHANGED lost => \A p \in Programs, w \in DOMAIN workers : InSight(p, w)' => InSight(p, w)
  <1>1. Ids' = Ids /\ workers' \in Seq(WorkerMade)
    BY DEF Ages, Ids
  <1>2. \A p \in Programs : Processes(p)' = Processes(p)
    BY DEF Ages, Processes, Of
  <1>3. \A p \in Programs : \A w \in Processes(p) : w \in DOMAIN workers /\ (Alive(w)' => Alive(w))
    BY DEF Ages, Processes, Of, Alive
  <1>4. UNCHANGED lost => \A p \in Programs, w \in DOMAIN workers : InSight(p, w)' => InSight(p, w)
    BY <1>2, <1>3 DEF InSight
  <1>5. QED
    BY <1>1, <1>2, <1>3, <1>4 DEF Ages

(* The other variables after a step that only ages the workers.             *)
LEMMA AgedTypes ==
  ASSUME TypeOK, Ages, UNCHANGED lost,
         registry' \in [Programs -> [Names -> [process : Ids, task : Ids]]],
         \A p \in Programs, n \in Names : registry'[p][n] \in {registry[p][n], NoEntry},
         handler' \in [Programs -> Ids],
         phase' \in [Programs -> {"up", "stopping", "exiting", "joining", "gone", "dead"}],
         pass' \in [Programs -> [names : SUBSET Names, todo : SUBSET Names, process : Ids,
                                 at : {"next", "join", "close", "pthread", "kill"}]]
  PROVE  TypeOK'
  <1>1. \A p \in Programs : {registry'[p][n].process : n \in Names} \subseteq Processes(p) \cup {0}
    <2>1. ASSUME NEW p \in Programs, NEW n \in Names
          PROVE  registry[p][n].process \in Processes(p) \cup {0}
      <3>1. {registry[p][m].process : m \in Names} \subseteq Processes(p) \cup {0}
        BY DEF TypeOK
      <3>2. QED
        BY <3>1
    <2>2. NoEntry.process = 0
      BY DEF NoEntry
    <2>3. \A p \in Programs, n \in Names : registry'[p][n].process \in Processes(p) \cup {0}
      BY <2>1, <2>2
    <2>4. QED
      BY <2>3
  <1>2. lost \subseteq Ids
    BY DEF TypeOK
  <1>3. QED
    BY <1>1, <1>2, Aged DEF TypeOK, WorkerMade, States

(* Numbers do not change once a worker has one.                             *)
LEMMA AgedNumbers ==
  ASSUME TypeOK, NumberInv, Ages
  PROVE  NumberInv'
  BY DEF NumberInv, Ages, StartIndex

(***************************************************************************)
(* Starting workers                                                        *)
(***************************************************************************)
LEMMA NamesNumbers ==
  ASSUME NEW p \in Programs, NEW count \in Counts
  PROVE  /\ count \in Nat \ {0} /\ StartIndex(p, count) \in Nat
         /\ Range(WorkerNames(p, count)) \subseteq Names
         /\ \A n \in Range(WorkerNames(p, count)) :
              /\ n \in Nat /\ n - StartIndex(p, count) + 1 \in 1..count
              /\ n = WorkerNames(p, count)[n - StartIndex(p, count) + 1]
         /\ \A i \in 1..count : /\ WorkerNames(p, count)[i] = StartIndex(p, count) + i - 1
                                /\ WorkerNames(p, count)[i] \in Range(WorkerNames(p, count))
  <1>1. count \in Nat \ {0} /\ Digit[p] \in Nat
    BY CountAssumption, DigitAssumption
  <1>2. StartIndex(p, count) \in Nat
    BY <1>1 DEF StartIndex
  <1>3. \A i \in 1..count : /\ WorkerNames(p, count)[i] = StartIndex(p, count) + i - 1
                            /\ WorkerNames(p, count)[i] \in Range(WorkerNames(p, count))
    BY DEF WorkerNames, Range
  <1>4. Range(WorkerNames(p, count)) = {StartIndex(p, count) + i - 1 : i \in 1..count}
    BY DEF WorkerNames, Range
  <1>5. \A n \in Range(WorkerNames(p, count)) :
          /\ n \in Nat /\ n - StartIndex(p, count) + 1 \in 1..count
          /\ n = WorkerNames(p, count)[n - StartIndex(p, count) + 1]
    BY <1>1, <1>2, <1>3, <1>4
  <1>6. Range(WorkerNames(p, count)) \subseteq Names
    BY DEF Names
  <1>7. QED
    BY <1>1, <1>2, <1>3, <1>5, <1>6

(* The workers of a program: those it had, and one for each new name.       *)
LEMMA Started ==
  ASSUME TypeOK, NEW p \in Programs, NEW count \in Counts, NEW kind \in {"process", "task"},
         Start(p, count, kind)
  PROVE  /\ workers' \in Seq(WorkerMade) /\ Len(workers') = Len(workers) + count
         /\ DOMAIN workers' = 1..(Len(workers) + count)
         /\ \A w \in 1..Len(workers) : workers'[w] = workers[w]
         /\ \A i \in 1..count : workers'[Len(workers) + i] =
              [program |-> p, name |-> WorkerNames(p, count)[i], count |-> count, kind |-> kind,
               state |-> "starting"]
  <1> DEFINE new == [i \in 1..count |-> [program |-> p, name |-> WorkerNames(p, count)[i], count |-> count,
                                         kind |-> kind, state |-> "starting"]]
  <1>1. new \in [1..count -> WorkerMade]
    BY NamesNumbers DEF WorkerMade, States
  <1>2. new \in Seq(WorkerMade) /\ Len(new) = count /\ count \in Nat
    BY <1>1, FunctionSeq, NamesNumbers
  <1>3. workers \in Seq(WorkerMade) /\ Len(workers) \in Nat
    BY Table
  <1>4. workers' = workers \o new
    BY DEF Start
  <1>5. \A i \in 1..count : new[i] = [program |-> p, name |-> WorkerNames(p, count)[i], count |-> count,
                                      kind |-> kind, state |-> "starting"]
    OBVIOUS
  <1> HIDE DEF new
  <1>6. /\ workers' \in Seq(WorkerMade) /\ Len(workers') = Len(workers) + count
        /\ \A i \in 1..(Len(workers) + count) :
             workers'[i] = IF i <= Len(workers) THEN workers[i] ELSE new[i - Len(workers)]
    BY <1>2, <1>3, <1>4, ConcatProperties
  <1>7. DOMAIN workers' = 1..(Len(workers) + count)
    BY <1>6, LenProperties
  <1>8. ASSUME NEW w \in 1..Len(workers) PROVE workers'[w] = workers[w]
    <2>1. w \in 1..(Len(workers) + count) /\ w <= Len(workers)
      BY <1>2, <1>3
    <2>2. QED
      BY <2>1, <1>6
  <1>9. ASSUME NEW i \in 1..count PROVE workers'[Len(workers) + i] = new[i]
    <2>1. /\ Len(workers) + i \in 1..(Len(workers) + count) /\ ~(Len(workers) + i <= Len(workers))
          /\ Len(workers) + i - Len(workers) = i
      BY <1>2, <1>3
    <2>2. QED
      BY <2>1, <1>6
  <1>10. QED
    BY <1>5, <1>6, <1>7, <1>8, <1>9


(* The new worker of a name, and the entries and losses that come with it.  *)
LEMMA StartedNames ==
  ASSUME TypeOK, NEW p \in Programs, NEW count \in Counts, NEW kind \in {"process", "task"},
         Start(p, count, kind)
  PROVE  /\ \A n \in Range(WorkerNames(p, count)) :
              LET w == NewId(p, count, n) IN
              /\ w \in Len(workers) + 1 .. Len(workers) + count
              /\ workers'[w].program = p /\ workers'[w].name = n /\ workers'[w].kind = kind
         /\ \A w \in Len(workers) + 1 .. Len(workers) + count :
              /\ workers'[w].program = p /\ workers'[w].kind = kind
              /\ workers'[w].name \in Range(WorkerNames(p, count))
              /\ NewId(p, count, workers'[w].name) = w
         /\ \A q \in Programs : Processes(q) \subseteq Processes(q)' /\ Processes(q) \subseteq DOMAIN workers
         /\ Ids \subseteq Ids'
  <1> DEFINE start == StartIndex(p, count)
  <1>1. Len(workers) \in Nat /\ count \in Nat \ {0} /\ start \in Nat /\ DOMAIN workers = 1..Len(workers)
    BY Table, NamesNumbers
  <1>2. /\ \A n \in Range(WorkerNames(p, count)) :
              /\ n \in Nat /\ n - start + 1 \in 1..count
              /\ n = WorkerNames(p, count)[n - start + 1]
        /\ \A i \in 1..count : /\ WorkerNames(p, count)[i] = start + i - 1
                               /\ WorkerNames(p, count)[i] \in Range(WorkerNames(p, count))
    BY NamesNumbers
  <1>3. /\ Len(workers') = Len(workers) + count /\ DOMAIN workers' = 1..(Len(workers) + count)
        /\ \A w \in 1..Len(workers) : workers'[w] = workers[w]
        /\ \A i \in 1..count :
             /\ workers'[Len(workers) + i].program = p /\ workers'[Len(workers) + i].kind = kind
             /\ workers'[Len(workers) + i].name = WorkerNames(p, count)[i]
    <2>1. ASSUME NEW i \in 1..count
          PROVE  /\ workers'[Len(workers) + i].program = p /\ workers'[Len(workers) + i].kind = kind
                 /\ workers'[Len(workers) + i].name = WorkerNames(p, count)[i]
      <3>1. workers'[Len(workers) + i] = [program |-> p, name |-> WorkerNames(p, count)[i],
                                          count |-> count, kind |-> kind, state |-> "starting"]
        BY Started
      <3>2. QED
        BY <3>1
    <2>2. QED
      BY <2>1, Started
  <1>4. \A n : NewId(p, count, n) = Len(workers) + 1 + n - start
    BY DEF NewId
  <1> HIDE DEF start
  <1>5. ASSUME NEW n \in Range(WorkerNames(p, count))
        PROVE  LET w == NewId(p, count, n) IN
               /\ w \in Len(workers) + 1 .. Len(workers) + count
               /\ workers'[w].program = p /\ workers'[w].name = n /\ workers'[w].kind = kind
    <2>1. NewId(p, count, n) = Len(workers) + (n - start + 1)
      BY <1>1, <1>2, <1>4
    <2>2. PICK i \in 1..count : i = n - start + 1 /\ n = WorkerNames(p, count)[i]
      BY <1>2
    <2>3. NewId(p, count, n) = Len(workers) + i
      BY <2>1, <2>2
    <2>4. /\ workers'[Len(workers) + i].program = p /\ workers'[Len(workers) + i].kind = kind
          /\ workers'[Len(workers) + i].name = n
      BY <2>2, <1>3
    <2>5. Len(workers) + i \in Len(workers) + 1 .. Len(workers) + count
      BY <1>1
    <2>6. QED
      BY <2>3, <2>4, <2>5
  <1>6. ASSUME NEW w \in Len(workers) + 1 .. Len(workers) + count
        PROVE  /\ workers'[w].program = p /\ workers'[w].kind = kind
               /\ workers'[w].name \in Range(WorkerNames(p, count))
               /\ NewId(p, count, workers'[w].name) = w
    <2>1. w - Len(workers) \in 1..count /\ w = Len(workers) + (w - Len(workers))
      BY <1>1
    <2>2. /\ workers'[w].program = p /\ workers'[w].kind = kind
          /\ workers'[w].name = WorkerNames(p, count)[w - Len(workers)]
      BY <2>1, <1>3
    <2>3. workers'[w].name = start + (w - Len(workers)) - 1
      BY <2>1, <2>2, <1>2
    <2>4. workers'[w].name \in Range(WorkerNames(p, count))
      BY <2>1, <2>2, <1>2
    <2>5. NewId(p, count, workers'[w].name) = Len(workers) + 1 + (start + (w - Len(workers)) - 1) - start
      BY <2>3, <1>4
    <2>6. Len(workers) + 1 + (start + (w - Len(workers)) - 1) - start = w
      BY <1>1
    <2>7. QED
      BY <2>2, <2>4, <2>5, <2>6
  <1>7. \A q \in Programs : Processes(q) \subseteq Processes(q)' /\ Processes(q) \subseteq DOMAIN workers
    BY <1>1, <1>3 DEF Processes, Of
  <1>8. Ids \subseteq Ids'
    BY <1>1, <1>3 DEF Ids
  <1>9. QED
    BY <1>5, <1>6, <1>7, <1>8

LEMMA StartEntries ==
  ASSUME TypeOK, NEW p \in Programs, NEW count \in Counts, NEW kind \in {"process", "task"},
         Start(p, count, kind)
  PROVE  /\ registry' \in [Programs -> [Names -> [process : Ids', task : Ids']]]
         /\ \A q \in Programs \ {p} : registry'[q] = registry[q]
         /\ \A n \in Names \ Range(WorkerNames(p, count)) : registry'[p][n] = registry[p][n]
         /\ \A n \in Range(WorkerNames(p, count)) :
              /\ registry'[p][n] = Register(registry[p][n], kind, NewId(p, count, n))
              /\ registry[p][n].process # 0 => registry[p][n].process \in lost'
              /\ kind = "process" /\ registry[p][n].task # 0 => NewId(p, count, n) \in lost'
         /\ lost \subseteq lost' /\ lost' \subseteq Ids'
  <1> DEFINE R == Range(WorkerNames(p, count))
             Id(n) == NewId(p, count, n)
             new == [n \in Names |-> IF n \in R THEN Register(registry[p][n], kind, Id(n)) ELSE registry[p][n]]
  <1>1. R \subseteq Names
    BY NamesNumbers
  <1>2. registry \in [Programs -> [Names -> [process : Ids, task : Ids]]] /\ lost \subseteq Ids
    BY DEF TypeOK
  <1>3. Ids \subseteq Ids' /\ \A n \in R : Id(n) \in Ids'
    <2>1. Len(workers) \in Nat /\ count \in Nat /\ Len(workers') = Len(workers) + count
      BY Table, NamesNumbers, Started
    <2>2. \A n \in R : Id(n) \in Len(workers) + 1 .. Len(workers) + count
      BY StartedNames
    <2>3. QED
      BY <2>1, <2>2, StartedNames DEF Ids
  <1>4. registry' = [registry EXCEPT ![p] = new]
    BY DEF Start
  <1>5. /\ lost' = lost \cup ({registry[p][n].process : n \in R} \ {0})
                        \cup {Id(n) : n \in {m \in R : kind = "process" /\ registry[p][m].task # 0}}
    BY DEF Start
  <1> HIDE DEF R, Id
  <1>6. \A n \in R : Register(registry[p][n], kind, Id(n)) \in [process : Ids', task : Ids']
    <2>1. ASSUME NEW n \in R PROVE Register(registry[p][n], kind, Id(n)) \in [process : Ids', task : Ids']
      <3>1. registry[p][n] \in [process : Ids, task : Ids] /\ Id(n) \in Ids'
        BY <1>1, <1>2, <1>3
      <3>2. QED
        BY <3>1, <1>3 DEF Register
    <2>2. QED
      BY <2>1
  <1>7. new \in [Names -> [process : Ids', task : Ids']]
    BY <1>2, <1>3, <1>6
  <1>8. /\ \A q \in Programs \ {p} : registry'[q] = registry[q]
        /\ registry'[p] = new
    BY <1>2, <1>4
  <1>9. \A n \in R : /\ registry'[p][n] = Register(registry[p][n], kind, Id(n))
                     /\ registry[p][n].process # 0 => registry[p][n].process \in lost'
                     /\ kind = "process" /\ registry[p][n].task # 0 => Id(n) \in lost'
    BY <1>1, <1>5, <1>8
  <1>10. \A n \in Names \ R : registry'[p][n] = registry[p][n]
    BY <1>8
  <1>11. lost \subseteq lost' /\ lost' \subseteq Ids'
    <2>1. \A n \in R : registry[p][n].process \in Ids
      BY <1>1, <1>2
    <2>2. QED
      BY <2>1, <1>2, <1>3, <1>5
  <1>12. registry' \in [Programs -> [Names -> [process : Ids', task : Ids']]]
    <2>1. \A q \in Programs : registry'[q] \in [Names -> [process : Ids', task : Ids']]
      <3>1. \A q \in Programs \ {p} : registry[q] \in [Names -> [process : Ids', task : Ids']]
        BY <1>2, <1>3
      <3>2. QED
        BY <3>1, <1>7, <1>8
    <2>2. QED
      BY <2>1, <1>2, <1>4
  <1>13. QED
    BY <1>8, <1>9, <1>10, <1>11, <1>12 DEF R, Id


LEMMA StartInv ==
  ASSUME ProcessesInv, NEW p \in Programs, NEW count \in Counts, NEW kind \in {"process", "task"},
         Start(p, count, kind)
  PROVE  ProcessesInv'
  <1> DEFINE R == Range(WorkerNames(p, count))
             Id(n) == NewId(p, count, n)
  <1>1. TypeOK /\ NumberInv /\ KnownInv /\ PassInv /\ ExitInv
    BY DEF ProcessesInv
  <1>2. UNCHANGED <<handler, phase, pass>> /\ phase[p] = "up"
    BY DEF Start
  <1>3. /\ Len(workers) \in Nat /\ count \in Nat \ {0} /\ DOMAIN workers = 1..Len(workers)
        /\ R \subseteq Names
    BY <1>1, Table, NamesNumbers
  <1>4. /\ workers' \in Seq(WorkerMade) /\ Len(workers') = Len(workers) + count
        /\ DOMAIN workers' = 1..(Len(workers) + count)
        /\ \A w \in 1..Len(workers) : workers'[w] = workers[w]
    BY <1>1, Started
  <1>5. /\ \A n \in R : /\ Id(n) \in Len(workers) + 1 .. Len(workers) + count
                        /\ workers'[Id(n)].program = p /\ workers'[Id(n)].name = n /\ workers'[Id(n)].kind = kind
        /\ \A w \in Len(workers) + 1 .. Len(workers) + count :
             /\ workers'[w].program = p /\ workers'[w].kind = kind
             /\ workers'[w].name \in R /\ Id(workers'[w].name) = w
        /\ \A q \in Programs : Processes(q) \subseteq Processes(q)' /\ Processes(q) \subseteq DOMAIN workers
        /\ Ids \subseteq Ids'
    BY <1>1, StartedNames
  <1>6. /\ registry' \in [Programs -> [Names -> [process : Ids', task : Ids']]]
        /\ \A q \in Programs \ {p} : registry'[q] = registry[q]
        /\ \A n \in Names \ R : registry'[p][n] = registry[p][n]
        /\ \A n \in R : /\ registry'[p][n] = Register(registry[p][n], kind, Id(n))
                        /\ registry[p][n].process # 0 => registry[p][n].process \in lost'
                        /\ kind = "process" /\ registry[p][n].task # 0 => Id(n) \in lost'
        /\ lost \subseteq lost' /\ lost' \subseteq Ids'
    BY <1>1, StartEntries
  <1> HIDE DEF R, Id
  <1>7. /\ \A w \in DOMAIN workers' : w \in DOMAIN workers \/ w \in Len(workers) + 1 .. Len(workers) + count
        /\ \A w \in DOMAIN workers : w \in 1..Len(workers) /\ workers'[w] = workers[w]
    BY <1>3, <1>4
  <1>8. TypeOK'
    <2>1. ASSUME NEW q \in Programs, NEW n \in Names PROVE registry'[q][n].process \in Processes(q)' \cup {0}
      <3>1. registry[q][n].process \in Processes(q) \cup {0} /\ registry[q][n] \in [process : Ids, task : Ids]
        <4>1. {registry[q][m].process : m \in Names} \subseteq Processes(q) \cup {0}
          BY <1>1 DEF TypeOK
        <4>2. QED
          BY <4>1, <1>1 DEF TypeOK
      <3>2. CASE registry'[q][n] = registry[q][n]
        BY <3>1, <3>2, <1>5
      <3>3. CASE q = p /\ n \in R
        <4>1. kind = "process" => Id(n) \in Processes(p)'
          BY <3>3, <1>3, <1>4, <1>5 DEF Processes, Of
        <4>2. registry'[q][n].process = IF kind = "process" THEN Id(n) ELSE registry[q][n].process
          BY <3>1, <3>3, <1>6 DEF Register
        <4>3. QED
          BY <3>1, <3>3, <4>1, <4>2, <1>5
      <3>4. QED
        BY <3>2, <3>3, <1>6
    <2>2. \A q \in Programs : {registry'[q][n].process : n \in Names} \subseteq Processes(q)' \cup {0}
      BY <2>1
    <2>3. handler' \in [Programs -> Ids']
      BY <1>1, <1>2, <1>5 DEF TypeOK
    <2>4. pass' \in [Programs -> [names : SUBSET Names, todo : SUBSET Names, process : Ids',
                                  at : {"next", "join", "close", "pthread", "kill"}]]
      <3>1. [names : SUBSET Names, todo : SUBSET Names, process : Ids,
             at : {"next", "join", "close", "pthread", "kill"}]
            \subseteq [names : SUBSET Names, todo : SUBSET Names, process : Ids',
                       at : {"next", "join", "close", "pthread", "kill"}]
        BY <1>5
      <3>2. QED
        BY <3>1, <1>1, <1>2 DEF TypeOK
    <2>5. phase' \in [Programs -> {"up", "stopping", "exiting", "joining", "gone", "dead"}]
      BY <1>1, <1>2 DEF TypeOK
    <2>6. QED
      BY <2>2, <2>3, <2>4, <2>5, <1>4, <1>6 DEF TypeOK, WorkerMade, States
  <1>9. NumberInv'
    <2>1. ASSUME NEW w \in DOMAIN workers'
          PROVE  LET first == StartIndex(workers'[w].program, workers'[w].count)
                 IN first <= workers'[w].name /\ workers'[w].name < first + workers'[w].count
      <3>1. CASE w \in DOMAIN workers
        BY <3>1, <1>1, <1>7 DEF NumberInv
      <3>2. CASE w \in Len(workers) + 1 .. Len(workers) + count
        <4>1. PICK i \in 1..count : w = Len(workers) + i
          <5>1. w - Len(workers) \in 1..count /\ w = Len(workers) + (w - Len(workers))
            BY <3>2, <1>3
          <5>2. QED
            BY <5>1
        <4>2. workers'[w] = [program |-> p, name |-> WorkerNames(p, count)[i], count |-> count,
                             kind |-> kind, state |-> "starting"]
          BY <4>1, <1>1, Started
        <4>3. WorkerNames(p, count)[i] = StartIndex(p, count) + i - 1 /\ StartIndex(p, count) \in Nat
          BY NamesNumbers
        <4>4. /\ workers'[w].program = p /\ workers'[w].count = count
              /\ workers'[w].name = StartIndex(p, count) + i - 1
          BY <4>2, <4>3
        <4>5. QED
          BY <4>3, <4>4, <1>3
      <3>3. QED
        BY <3>1, <3>2, <1>7
    <2>2. QED
      BY <2>1 DEF NumberInv, StartIndex
  <1>10. \A q \in Programs, w \in DOMAIN workers : InSight(q, w)' => InSight(q, w)
    BY <1>6, <1>7 DEF InSight, Processes, Of, Alive
  <1>11. KnownInv'
    <2>1. SUFFICES ASSUME NEW q \in Programs, phase[q] \in {"up", "stopping", "exiting"},
                          NEW w \in DOMAIN workers', InSight(q, w)'
                   PROVE  registry'[q][workers'[w].name] = [process |-> w, task |-> 0]
      BY <1>2 DEF KnownInv, KnownOf
    <2>2. CASE w \in DOMAIN workers
      <3>1. InSight(q, w) /\ workers'[w] = workers[w] /\ workers[w].name \in Names
        BY <2>1, <2>2, <1>1, <1>7, <1>10, Table DEF WorkerMade
      <3>2. registry[q][workers[w].name] = [process |-> w, task |-> 0]
        BY <2>1, <2>2, <3>1, <1>1 DEF KnownInv, KnownOf
      <3>3. w # 0 /\ w \notin lost'
        BY <2>1, <2>2, <1>3 DEF InSight
      <3>4. ~(q = p /\ workers[w].name \in R)
        BY <3>2, <3>3, <1>6
      <3>5. QED
        BY <3>1, <3>2, <3>4, <1>6
    <2>3. CASE w \in Len(workers) + 1 .. Len(workers) + count
      <3>1. q = p /\ kind = "process" /\ w \notin lost'
        BY <2>1, <2>3, <1>5 DEF InSight, Processes, Of
      <3>2. /\ workers'[w].name \in R /\ Id(workers'[w].name) = w
        BY <2>3, <1>5
      <3>3. /\ registry[p][workers'[w].name] \in [process : Ids, task : Ids]
            /\ registry[p][workers'[w].name].task = 0
        BY <3>1, <3>2, <1>1, <1>3, <1>6 DEF TypeOK
      <3>4. registry'[p][workers'[w].name] = Register(registry[p][workers'[w].name], kind, w)
        BY <3>2, <1>6
      <3>5. QED
        BY <3>1, <3>3, <3>4 DEF Register
    <2>4. QED
      BY <2>2, <2>3, <1>7
  <1>12. \A q \in Programs \ {p}, w \in DOMAIN workers' : w \in Processes(q)' => w \in DOMAIN workers
    BY <1>5, <1>7 DEF Processes, Of
  <1>13. PassInv'
    <2>1. SUFFICES ASSUME NEW q \in Programs \ {p}
                   PROVE  /\ phase[q] \in {"stopping", "exiting"} =>
                               \A w \in DOMAIN workers' :
                                 InSight(q, w)' /\ workers'[w].name \in pass[q].names \ pass[q].todo =>
                                   pass[q].at # "next" /\ pass[q].process = w
                          /\ phase[q] = "exiting" => \A n \in Names : registry'[q][n] # NoEntry => n \in pass[q].names
      BY <1>2 DEF PassInv, PassOf
    <2>2. \A w \in DOMAIN workers' : InSight(q, w)' => w \in DOMAIN workers
      BY <1>12 DEF InSight
    <2>3. QED
      BY <2>2, <1>1, <1>6, <1>7, <1>10 DEF PassInv, PassOf
  <1>14. ExitInv'
    <2>1. SUFFICES ASSUME NEW q \in Programs, phase[q] \in {"joining", "gone"},
                          NEW w \in Processes(q)', Alive(w)'
                   PROVE  w \in lost'
      BY <1>2 DEF ExitInv, ExitOf
    <2>2. q # p /\ w \in DOMAIN workers' /\ w \in DOMAIN workers
      BY <2>1, <1>2, <1>12 DEF Processes, Of
    <2>3. w \in Processes(q) /\ Alive(w)
      BY <2>1, <2>2, <1>7 DEF Processes, Of, Alive
    <2>4. QED
      BY <2>1, <2>3, <1>1, <1>6 DEF ExitInv, ExitOf
  <1>15. QED
    BY <1>8, <1>9, <1>11, <1>13, <1>14 DEF ProcessesInv


(***************************************************************************)
(* Workers on their own                                                    *)
(***************************************************************************)
(* A program of which a step changes nothing, while workers age.            *)
LEMMA OthersKeep ==
  ASSUME ProcessesInv, Ages, UNCHANGED lost, NEW q \in Programs,
         registry'[q] = registry[q], phase'[q] = phase[q], pass'[q] = pass[q]
  PROVE  KnownOf(q)' /\ PassOf(q)' /\ ExitOf(q)'
  <1>1. TypeOK /\ KnownOf(q) /\ PassOf(q) /\ ExitOf(q)
    BY DEF ProcessesInv, KnownInv, PassInv, ExitInv
  <1>2. /\ DOMAIN workers' = DOMAIN workers /\ Processes(q)' = Processes(q)
        /\ \A w \in DOMAIN workers : workers'[w].name = workers[w].name
        /\ \A w \in Processes(q) : w \in DOMAIN workers /\ (Alive(w)' => Alive(w))
        /\ \A w \in DOMAIN workers : InSight(q, w)' => InSight(q, w)
    BY <1>1, Aged DEF Ages
  <1>3. KnownOf(q)'
    BY <1>1, <1>2 DEF KnownOf
  <1>4. PassOf(q)'
    BY <1>1, <1>2 DEF PassOf
  <1>5. ExitOf(q)'
    BY <1>1, <1>2 DEF ExitOf
  <1>6. QED
    BY <1>3, <1>4, <1>5

Phases == {"up", "stopping", "exiting", "joining", "gone", "dead"}
Passes == [names : SUBSET Names, todo : SUBSET Names, process : Ids,
           at : {"next", "join", "close", "pthread", "kill"}]

(* A step of one program: what it has to show for itself.                   *)
LEMMA ProgramInv ==
  ASSUME ProcessesInv, Ages, UNCHANGED <<handler, lost>>, NEW p \in Programs,
         registry' \in [Programs -> [Names -> [process : Ids, task : Ids]]],
         \A q \in Programs, n \in Names : registry'[q][n] \in {registry[q][n], NoEntry},
         phase' \in [Programs -> Phases], pass' \in [Programs -> Passes],
         \A q \in Programs \ {p} : registry'[q] = registry[q] /\ phase'[q] = phase[q] /\ pass'[q] = pass[q],
         KnownOf(p)', PassOf(p)', ExitOf(p)'
  PROVE  ProcessesInv'
  <1>1. TypeOK /\ NumberInv
    BY DEF ProcessesInv
  <1>2. TypeOK'
    <2>1. handler' \in [Programs -> Ids]
      BY <1>1 DEF TypeOK
    <2>2. QED
      BY <2>1, <1>1, AgedTypes DEF Phases, Passes
  <1>3. NumberInv'
    BY <1>1, AgedNumbers
  <1>4. ASSUME NEW q \in Programs PROVE KnownOf(q)' /\ PassOf(q)' /\ ExitOf(q)'
    <2>1. CASE q = p
      BY <2>1
    <2>2. CASE q # p
      BY <2>2, OthersKeep
    <2>3. QED
      BY <2>1, <2>2
  <1>5. QED
    BY <1>2, <1>3, <1>4 DEF ProcessesInv, KnownInv, PassInv, ExitInv

(* A step of a worker, or of a program's signal handler.                    *)
LEMMA KeepsInv ==
  ASSUME ProcessesInv, Ages, UNCHANGED <<registry, phase, pass, lost>>, handler' \in [Programs -> Ids]
  PROVE  ProcessesInv'
  <1>1. TypeOK /\ NumberInv
    BY DEF ProcessesInv
  <1>2. TypeOK'
    <2>1. /\ registry' \in [Programs -> [Names -> [process : Ids, task : Ids]]]
          /\ phase' \in [Programs -> {"up", "stopping", "exiting", "joining", "gone", "dead"}]
          /\ pass' \in [Programs -> [names : SUBSET Names, todo : SUBSET Names, process : Ids,
                                     at : {"next", "join", "close", "pthread", "kill"}]]
      BY <1>1 DEF TypeOK
    <2>2. QED
      BY <2>1, <1>1, AgedTypes
  <1>3. NumberInv'
    BY <1>1, AgedNumbers
  <1>4. \A q \in Programs : KnownOf(q)' /\ PassOf(q)' /\ ExitOf(q)'
    BY OthersKeep
  <1>5. QED
    BY <1>2, <1>3, <1>4 DEF ProcessesInv, KnownInv, PassInv, ExitInv

LEMMA WorkerInv ==
  ASSUME ProcessesInv, NEW w \in DOMAIN workers, WorkerStarts(w) \/ WorkerEnds(w)
  PROVE  ProcessesInv'
  <1>1. TypeOK /\ DOMAIN workers = 1..Len(workers) /\ Len(workers) \in Nat
    BY Table DEF ProcessesInv
  <1>2. CASE WorkerStarts(w)
    <2>1. Alive(w) /\ SetState(w, "serving") /\ UNCHANGED <<registry, phase, pass, lost>>
      BY <1>2 DEF WorkerStarts, Alive
    <2>2. Ages
      BY <2>1, <1>1, SetStateAges DEF States
    <2>3. handler' \in [Programs -> Ids]
      <3>1. handler' \in {handler, [handler EXCEPT ![workers[w].program] = w]}
        BY <1>2 DEF WorkerStarts
      <3>2. handler \in [Programs -> Ids]
        BY <1>1 DEF TypeOK
      <3>3. w \in Ids
        BY <1>1 DEF Ids
      <3>4. QED
        BY <3>1, <3>2, <3>3
    <2>4. QED
      BY <2>1, <2>2, <2>3, KeepsInv
  <1>3. CASE WorkerEnds(w)
    <2>1. SetState(w, "ended") /\ UNCHANGED <<registry, handler, phase, pass, lost>>
      BY <1>3 DEF WorkerEnds
    <2>2. Ages
      BY <2>1, <1>1, SetStateAges DEF States
    <2>3. handler' \in [Programs -> Ids]
      BY <2>1, <1>1 DEF TypeOK
    <2>4. QED
      BY <2>1, <2>2, <2>3, KeepsInv
  <1>4. QED
    BY <1>2, <1>3


(***************************************************************************)
(* Programs                                                                *)
(***************************************************************************)
(* The variables of a program after a step of it.                           *)
LEMMA Own ==
  ASSUME TypeOK, NEW p \in Programs
  PROVE  /\ phase \in [Programs -> Phases] /\ pass \in [Programs -> Passes]
         /\ registry \in [Programs -> [Names -> [process : Ids, task : Ids]]]
         /\ NoEntry \in [process : Ids, task : Ids] /\ NoPass \in Passes
         /\ Len(workers) \in Nat /\ 0 \in Ids /\ DOMAIN workers = 1..Len(workers)
         /\ \A w \in DOMAIN workers : workers[w].name \in Names
         /\ \A n \in Names : registry[p][n].process \in Processes(p) \cup {0}
  <1>1. Len(workers) \in Nat /\ DOMAIN workers = 1..Len(workers) /\ \A w \in DOMAIN workers : workers[w].name \in Names
    BY Table DEF WorkerMade
  <1>2. 0 \in Ids
    BY <1>1 DEF Ids
  <1>3. NoEntry \in [process : Ids, task : Ids] /\ NoPass \in Passes
    BY <1>2 DEF NoEntry, NoPass, Passes
  <1>4. /\ phase \in [Programs -> Phases] /\ pass \in [Programs -> Passes]
        /\ registry \in [Programs -> [Names -> [process : Ids, task : Ids]]]
    BY DEF TypeOK, Phases, Passes
  <1>5. \A n \in Names : registry[p][n].process \in Processes(p) \cup {0}
    <2>1. {registry[p][n].process : n \in Names} \subseteq Processes(p) \cup {0}
      BY DEF TypeOK
    <2>2. QED
      BY <2>1
  <1>6. QED
    BY <1>1, <1>2, <1>3, <1>4, <1>5

(* What a dying program forgets is not asked for any more.                  *)
LEMMA DiesInv ==
  ASSUME ProcessesInv, Ages, UNCHANGED <<handler, lost>>, NEW p \in Programs, Dies(p)
  PROVE  ProcessesInv'
  <1>1. TypeOK
    BY DEF ProcessesInv
  <1>2. /\ phase' = [phase EXCEPT ![p] = "dead"]
        /\ registry' = [registry EXCEPT ![p] = [n \in Names |-> NoEntry]]
        /\ pass' = [pass EXCEPT ![p] = NoPass]
    BY DEF Dies
  <1>3. /\ phase \in [Programs -> Phases] /\ pass \in [Programs -> Passes] /\ "dead" \in Phases
        /\ registry \in [Programs -> [Names -> [process : Ids, task : Ids]]]
        /\ NoEntry \in [process : Ids, task : Ids] /\ NoPass \in Passes
    BY <1>1, Own DEF Phases
  <1>4. phase' \in [Programs -> Phases] /\ pass' \in [Programs -> Passes] /\ phase'[p] = "dead"
    BY <1>2, <1>3
  <1>5. /\ registry' \in [Programs -> [Names -> [process : Ids, task : Ids]]]
        /\ \A q \in Programs, n \in Names : registry'[q][n] \in {registry[q][n], NoEntry}
    BY <1>2, <1>3
  <1>6. \A q \in Programs \ {p} : registry'[q] = registry[q] /\ phase'[q] = phase[q] /\ pass'[q] = pass[q]
    BY <1>2, <1>3
  <1>7. KnownOf(p)' /\ PassOf(p)' /\ ExitOf(p)'
    BY <1>4 DEF KnownOf, PassOf, ExitOf
  <1>8. QED
    BY <1>4, <1>5, <1>6, <1>7, ProgramInv

LEMMA SignalInv ==
  ASSUME ProcessesInv, NEW p \in Programs, Signal(p)
  PROVE  ProcessesInv'
  <1>1. TypeOK /\ UNCHANGED <<handler, lost>>
    BY DEF Signal, ProcessesInv
  <1>2. CASE Tell({handler[p]}) /\ UNCHANGED <<phase, registry, pass>>
    BY <1>1, <1>2, TellAges, KeepsInv DEF TypeOK
  <1>3. CASE /\ Dies(p)
             /\ workers' = [w \in DOMAIN workers |-> IF w \in Of(p) \ Processes(p)
                               THEN [workers[w] EXCEPT !.state = "ended"] ELSE workers[w]]
    <2>1. Ages
      BY <1>1, <1>3, TellAges
    <2>2. QED
      BY <2>1, <1>1, <1>3, DiesInv
  <1>4. QED
    BY <1>2, <1>3 DEF Signal

(* exit_task_workers begins, for some names or, at the end, for all.        *)
LEMMA ExitInvs ==
  ASSUME ProcessesInv, NEW p \in Programs,
         (\E names \in SUBSET Registered(p) : ExitTaskWorkers(p, names)) \/ AtExit(p)
  PROVE  ProcessesInv'
  <1>1. TypeOK /\ KnownOf(p) /\ phase[p] = "up"
    BY DEF ProcessesInv, KnownInv, ExitTaskWorkers, AtExit
  <1>2. UNCHANGED <<registry, handler, lost>>
    BY DEF ExitTaskWorkers, AtExit
  <1>3. Ages
    <2>1. CASE AtExit(p)
      BY <2>1, <1>1, TellAges DEF AtExit
    <2>2. CASE \E names \in SUBSET Registered(p) : ExitTaskWorkers(p, names)
      BY <2>2, <1>1, SameAges DEF ExitTaskWorkers
    <2>3. QED
      BY <2>1, <2>2
  <1>4. PICK names \in SUBSET Names, ph \in {"stopping", "exiting"} :
          /\ phase' = [phase EXCEPT ![p] = ph]
          /\ pass' = [pass EXCEPT ![p] = [NoPass EXCEPT !.names = names, !.todo = names]]
          /\ ph = "exiting" => names = Registered(p)
    BY DEF ExitTaskWorkers, AtExit, Registered
  <1>5. /\ phase \in [Programs -> Phases] /\ pass \in [Programs -> Passes] /\ ph \in Phases
        /\ registry \in [Programs -> [Names -> [process : Ids, task : Ids]]]
        /\ NoPass \in Passes
    BY <1>1, Own DEF Phases
  <1>6. /\ [NoPass EXCEPT !.names = names, !.todo = names] \in Passes
        /\ [NoPass EXCEPT !.names = names, !.todo = names].names = names
        /\ [NoPass EXCEPT !.names = names, !.todo = names].todo = names
    BY <1>5 DEF Passes
  <1>7. /\ phase' \in [Programs -> Phases] /\ pass' \in [Programs -> Passes]
        /\ phase'[p] = ph /\ pass'[p].names = names /\ pass'[p].todo = names
        /\ \A q \in Programs \ {p} : phase'[q] = phase[q] /\ pass'[q] = pass[q]
    BY <1>4, <1>5, <1>6
  <1>8. KnownOf(p)'
    BY <1>1, <1>2, <1>3, Aged DEF KnownOf, Ages
  <1>9. PassOf(p)'
    BY <1>2, <1>4, <1>7 DEF PassOf, Registered
  <1>10. ExitOf(p)'
    BY <1>7 DEF ExitOf
  <1>11. QED
    BY <1>2, <1>3, <1>5, <1>7, <1>8, <1>9, <1>10, ProgramInv


(* exit_task_workers goes on to another place.                              *)
LEMMA PassMoves ==
  ASSUME ProcessesInv, Ages, UNCHANGED <<registry, handler, phase, lost>>,
         NEW p \in Programs, phase[p] \in {"stopping", "exiting"},
         NEW r \in Passes, r.names = pass[p].names, pass' = [pass EXCEPT ![p] = r],
         \A w \in DOMAIN workers :
           InSight(p, w)' /\ workers[w].name \in r.names \ r.todo => r.at # "next" /\ r.process = w
  PROVE  ProcessesInv'
  <1>1. TypeOK /\ KnownOf(p) /\ PassOf(p)
    BY DEF ProcessesInv, KnownInv, PassInv
  <1>2. /\ phase \in [Programs -> Phases] /\ pass \in [Programs -> Passes]
        /\ registry \in [Programs -> [Names -> [process : Ids, task : Ids]]]
    BY <1>1, Own
  <1>3. /\ pass' \in [Programs -> Passes] /\ pass'[p] = r
        /\ \A q \in Programs \ {p} : pass'[q] = pass[q]
    BY <1>2
  <1>4. KnownOf(p)'
    BY <1>1, Aged DEF KnownOf, Ages
  <1>5. PassOf(p)'
    BY <1>1, <1>3 DEF PassOf, Ages
  <1>6. ExitOf(p)'
    BY DEF ExitOf
  <1>7. QED
    BY <1>2, <1>3, <1>4, <1>5, <1>6, ProgramInv

LEMMA NextNameInv ==
  ASSUME ProcessesInv, NEW p \in Programs, NextName(p)
  PROVE  ProcessesInv'
  <1>1. TypeOK /\ KnownOf(p) /\ PassOf(p)
    BY DEF ProcessesInv, KnownInv, PassInv
  <1>2. /\ phase[p] \in {"stopping", "exiting"} /\ pass[p].at = "next"
        /\ UNCHANGED <<registry, handler, phase, lost>>
    BY DEF NextName, At
  <1>3. /\ pass \in [Programs -> Passes] /\ pass[p] \in Passes
        /\ registry \in [Programs -> [Names -> [process : Ids, task : Ids]]]
        /\ DOMAIN workers = 1..Len(workers) /\ Len(workers) \in Nat
    BY <1>1, Own
  <1>4. PICK n \in pass[p].todo :
          LET e == registry[p][n] IN
          \/ /\ e.task # 0 \/ e.process = 0
             /\ pass' = [pass EXCEPT ![p].todo = @ \ {n}]
             /\ Tell({e.task} \ {0})
          \/ /\ ~(e.task # 0 \/ e.process = 0)
             /\ pass' = [pass EXCEPT ![p].todo = @ \ {n}, ![p].process = e.process, ![p].at = "join"]
             /\ UNCHANGED workers
    BY DEF NextName
  <1>5. Ages
    BY <1>1, <1>4, TellAges, SameAges
  <1>6. n \in Names /\ registry[p][n].process \in Ids
    BY <1>3 DEF Passes
  <1>7. \A w \in DOMAIN workers : InSight(p, w)' => InSight(p, w)
    BY <1>1, <1>2, <1>5, Aged
  (* A process in sight of that name is the one its entry has.              *)
  <1>8. ASSUME NEW w \in DOMAIN workers, InSight(p, w), workers[w].name = n
        PROVE  registry[p][n].task = 0 /\ registry[p][n].process = w /\ w # 0
    <2>1. registry[p][n] = [process |-> w, task |-> 0]
      BY <1>1, <1>2, <1>8 DEF KnownOf
    <2>2. w # 0
      BY <1>3
    <2>3. QED
      BY <2>1, <2>2
  <1>9. ASSUME NEW w \in DOMAIN workers, InSight(p, w), workers[w].name \in pass[p].names \ pass[p].todo
        PROVE  FALSE
    BY <1>1, <1>2, <1>9 DEF PassOf
  <1>10. CASE registry[p][n].task # 0 \/ registry[p][n].process = 0
    <2> DEFINE r == [pass[p] EXCEPT !.todo = @ \ {n}]
    <2>1. /\ r \in Passes /\ r.names = pass[p].names /\ r.todo = pass[p].todo \ {n}
      BY <1>3 DEF Passes
    <2>2. pass' = [pass EXCEPT ![p] = r]
      BY <1>4, <1>10
    <2> HIDE DEF r
    <2>3. \A w \in DOMAIN workers : ~(InSight(p, w)' /\ workers[w].name \in r.names \ r.todo)
      BY <2>1, <1>7, <1>8, <1>9, <1>10
    <2>4. QED
      BY <2>1, <2>2, <2>3, <1>2, <1>5, PassMoves
  <1>11. CASE ~(registry[p][n].task # 0 \/ registry[p][n].process = 0)
    <2> DEFINE r == [pass[p] EXCEPT !.todo = @ \ {n}, !.process = registry[p][n].process, !.at = "join"]
    <2>1. /\ r \in Passes /\ r.names = pass[p].names /\ r.todo = pass[p].todo \ {n}
          /\ r.at = "join" /\ r.process = registry[p][n].process
      BY <1>3, <1>6 DEF Passes
    <2>2. pass' = [pass EXCEPT ![p] = r]
      BY <1>4, <1>11
    <2> HIDE DEF r
    <2>3. \A w \in DOMAIN workers :
            InSight(p, w)' /\ workers[w].name \in r.names \ r.todo => r.at # "next" /\ r.process = w
      BY <2>1, <1>7, <1>8, <1>9
    <2>4. QED
      BY <2>1, <2>2, <2>3, <1>2, <1>5, PassMoves
  <1>12. QED
    BY <1>10, <1>11

(* Where it is at a process, that one may be left for the next name only     *)
(* when it has ended.                                                       *)
LEMMA AtProcessInv ==
  ASSUME ProcessesInv, NEW p \in Programs, Terminate(p) \/ Close(p) \/ Kill(p) \/ PthreadKill(p)
  PROVE  ProcessesInv'
  <1>1. TypeOK /\ KnownOf(p) /\ PassOf(p)
    BY DEF ProcessesInv, KnownInv, PassInv
  <1>2. phase[p] \in {"stopping", "exiting"} /\ UNCHANGED <<handler, lost>>
    BY DEF Terminate, Close, Kill, PthreadKill, At
  <1>3. pass \in [Programs -> Passes] /\ pass[p] \in Passes /\ 0 \in Ids
    BY <1>1, Own
  <1>4. Ages
    <2>1. CASE Terminate(p)
      BY <2>1, <1>1, TellAges DEF Terminate
    <2>2. CASE Close(p)
      BY <2>2, <1>1, SameAges DEF Close
    <2>3. CASE Kill(p)
      <3>1. SetState(Process(p), "ended")
        BY <2>3 DEF Kill
      <3>2. QED
        BY <3>1, <1>1, SetStateAges DEF States
    <2>4. CASE PthreadKill(p)
      BY <2>4, <1>1, SameAges DEF PthreadKill
    <2>5. QED
      BY <2>1, <2>2, <2>3, <2>4
  <1>5. \A w \in DOMAIN workers : InSight(p, w)' => InSight(p, w)
    BY <1>1, <1>2, <1>4, Aged
  <1>6. \A w \in DOMAIN workers :
          InSight(p, w) /\ workers[w].name \in pass[p].names \ pass[p].todo => pass[p].process = w
    BY <1>1, <1>2 DEF PassOf
  <1>7. CASE Dies(p)
    BY <1>2, <1>4, <1>7, DiesInv
  <1>8. ASSUME NEW l \in {"close", "pthread", "kill"}, Goto(p, l), UNCHANGED <<registry, phase>>
        PROVE  ProcessesInv'
    <2> DEFINE r == [pass[p] EXCEPT !.at = l]
    <2>1. /\ r \in Passes /\ r.names = pass[p].names /\ r.todo = pass[p].todo
          /\ r.at = l /\ r.process = pass[p].process
      BY <1>3 DEF Passes
    <2>2. pass' = [pass EXCEPT ![p] = r]
      BY <1>8 DEF Goto
    <2> HIDE DEF r
    <2>3. \A w \in DOMAIN workers :
            InSight(p, w)' /\ workers[w].name \in r.names \ r.todo => r.at # "next" /\ r.process = w
      BY <2>1, <1>5, <1>6
    <2>4. QED
      BY <2>1, <2>2, <2>3, <1>2, <1>4, <1>8, PassMoves
  <1>9. ASSUME Done(p), \A w \in DOMAIN workers : w = Process(p) => workers'[w].state = "ended",
               UNCHANGED <<registry, phase>>
        PROVE  ProcessesInv'
    <2> DEFINE r == [pass[p] EXCEPT !.at = "next", !.process = 0]
    <2>1. r \in Passes /\ r.names = pass[p].names /\ r.todo = pass[p].todo
      BY <1>3 DEF Passes
    <2>2. pass' = [pass EXCEPT ![p] = r]
      BY <1>9 DEF Done
    <2> HIDE DEF r
    <2>3. \A w \in DOMAIN workers : InSight(p, w)' => workers'[w].state # "ended"
      BY DEF InSight, Alive
    <2>4. \A w \in DOMAIN workers : ~(InSight(p, w)' /\ workers[w].name \in r.names \ r.todo)
      BY <2>1, <2>3, <1>5, <1>6, <1>9 DEF Process
    <2>5. QED
      BY <2>1, <2>2, <2>4, <1>2, <1>4, <1>9, PassMoves
  <1>10. QED
    <2>1. CASE Terminate(p)
      BY <2>1, <1>8 DEF Terminate
    <2>2. CASE Close(p)
      BY <2>2, <1>8, <1>9 DEF Close, Alive
    <2>3. CASE Kill(p)
      <3>1. \A w \in DOMAIN workers : w = Process(p) => workers'[w].state = "ended"
        <4>1. workers' = [workers EXCEPT ![Process(p)].state = "ended"]
          BY <2>3 DEF Kill, SetState
        <4>2. \A w \in DOMAIN workers : workers[w] \in WorkerMade
          BY <1>1, Table
        <4>3. QED
          BY <4>1, <4>2 DEF WorkerMade
      <3>2. QED
        BY <2>3, <3>1, <1>9 DEF Kill
    <2>4. CASE PthreadKill(p)
      BY <2>4, <1>7, <1>8 DEF PthreadKill
    <2>5. QED
      BY <2>1, <2>2, <2>3, <2>4


(* The end of exit_task_workers.                                            *)
LEMMA UnregisterInv ==
  ASSUME ProcessesInv, NEW p \in Programs, Unregister(p)
  PROVE  ProcessesInv'
  <1>1. TypeOK /\ KnownOf(p) /\ PassOf(p)
    BY DEF ProcessesInv, KnownInv, PassInv
  <1>2. /\ phase[p] \in {"stopping", "exiting"} /\ pass[p].at = "next" /\ pass[p].todo = {}
        /\ UNCHANGED <<workers, handler, lost>>
    BY DEF Unregister, At
  <1>3. /\ phase \in [Programs -> Phases] /\ pass \in [Programs -> Passes] /\ NoPass \in Passes
        /\ registry \in [Programs -> [Names -> [process : Ids, task : Ids]]]
        /\ NoEntry \in [process : Ids, task : Ids]
        /\ Len(workers) \in Nat /\ DOMAIN workers = 1..Len(workers)
        /\ \A w \in DOMAIN workers : workers[w].name \in Names
    BY <1>1, Own
  <1> DEFINE ph == IF phase[p] = "stopping" THEN "up" ELSE "joining"
             reg == [n \in Names |-> IF n \in pass[p].names THEN NoEntry ELSE registry[p][n]]
  <1>4. /\ phase' = [phase EXCEPT ![p] = ph] /\ registry' = [registry EXCEPT ![p] = reg]
        /\ pass' = [pass EXCEPT ![p] = NoPass]
    BY DEF Unregister
  <1>5. ph \in Phases /\ reg \in [Names -> [process : Ids, task : Ids]]
    BY <1>3 DEF Phases
  <1>6. \A n \in Names : reg[n] = IF n \in pass[p].names THEN NoEntry ELSE registry[p][n]
    OBVIOUS
  <1>7. Ages
    BY <1>1, <1>2, SameAges
  (* The process in sight of a name it was called for would be left.        *)
  <1>8. \A w \in DOMAIN workers : InSight(p, w) => workers[w].name \notin pass[p].names
    BY <1>1, <1>2 DEF PassOf
  <1>9. ph = "up" \/ (ph = "joining" /\ phase[p] = "exiting")
    BY <1>2
  <1> HIDE DEF reg, ph
  <1>10. /\ phase' \in [Programs -> Phases] /\ pass' \in [Programs -> Passes] /\ phase'[p] = ph
         /\ registry' \in [Programs -> [Names -> [process : Ids, task : Ids]]] /\ registry'[p] = reg
         /\ \A q \in Programs \ {p} : registry'[q] = registry[q] /\ phase'[q] = phase[q] /\ pass'[q] = pass[q]
    BY <1>3, <1>4, <1>5
  <1>11. \A q \in Programs, n \in Names : registry'[q][n] \in {registry[q][n], NoEntry}
    BY <1>6, <1>10
  <1>12. \A w \in DOMAIN workers : InSight(p, w)' => InSight(p, w)
    BY <1>1, <1>2, <1>7, Aged
  <1>13. KnownOf(p)'
    BY <1>1, <1>2, <1>3, <1>6, <1>8, <1>10, <1>12 DEF KnownOf
  <1>14. PassOf(p)'
    BY <1>9, <1>10 DEF PassOf
  <1>15. ExitOf(p)'
    <2>1. SUFFICES ASSUME ph = "joining", NEW w \in Processes(p), Alive(w), w \notin lost PROVE FALSE
      BY <1>2, <1>9, <1>10 DEF ExitOf, Processes, Of, Alive
    <2>2. w \in DOMAIN workers /\ InSight(p, w) /\ workers[w].name \in Names
      BY <2>1, <1>3 DEF InSight, Processes, Of
    <2>3. registry[p][workers[w].name] = [process |-> w, task |-> 0] /\ w # 0
      BY <2>2, <1>1, <1>2, <1>3 DEF KnownOf
    <2>4. registry[p][workers[w].name] # NoEntry
      BY <2>3 DEF NoEntry
    <2>5. workers[w].name \in pass[p].names
      BY <2>1, <2>2, <2>4, <1>1, <1>9 DEF PassOf
    <2>6. QED
      BY <2>2, <2>5, <1>8
  <1>16. QED
    BY <1>2, <1>7, <1>10, <1>11, <1>13, <1>14, <1>15, ProgramInv

LEMMA JoinAllInv ==
  ASSUME ProcessesInv, NEW p \in Programs, JoinAll(p)
  PROVE  ProcessesInv'
  <1>1. TypeOK /\ ExitOf(p)
    BY DEF ProcessesInv, ExitInv
  <1>2. /\ phase[p] = "joining" /\ phase' = [phase EXCEPT ![p] = "gone"]
        /\ UNCHANGED <<workers, registry, handler, pass, lost>>
    BY DEF JoinAll
  <1>3. /\ phase \in [Programs -> Phases] /\ pass \in [Programs -> Passes]
        /\ registry \in [Programs -> [Names -> [process : Ids, task : Ids]]]
    BY <1>1, Own
  <1>4. phase' \in [Programs -> Phases] /\ phase'[p] = "gone" /\ \A q \in Programs \ {p} : phase'[q] = phase[q]
    BY <1>2, <1>3 DEF Phases
  <1>5. Ages
    BY <1>1, <1>2, SameAges
  <1>6. KnownOf(p)' /\ PassOf(p)'
    BY <1>4 DEF KnownOf, PassOf
  <1>7. ExitOf(p)'
    BY <1>1, <1>2 DEF ExitOf, Processes, Of, Alive
  <1>8. QED
    BY <1>2, <1>3, <1>4, <1>5, <1>6, <1>7, ProgramInv

(***************************************************************************)
(* The invariant                                                           *)
(***************************************************************************)
LEMMA InitInv == Init => ProcessesInv
  <1> SUFFICES ASSUME Init PROVE ProcessesInv
    OBVIOUS
  <1>1. workers = <<>> /\ DOMAIN workers = {} /\ Len(workers) = 0 /\ workers \in Seq(WorkerMade)
    BY EmptySeq DEF Init
  <1>2. 0 \in Ids
    BY <1>1 DEF Ids
  <1>3. NoEntry \in [process : Ids, task : Ids] /\ NoPass \in Passes
    BY <1>2 DEF NoEntry, NoPass, Passes
  <1>4. TypeOK
    <2>1. registry \in [Programs -> [Names -> [process : Ids, task : Ids]]]
      BY <1>3 DEF Init
    <2>2. \A p \in Programs : {registry[p][n].process : n \in Names} \subseteq Processes(p) \cup {0}
      BY DEF Init, NoEntry
    <2>3. handler \in [Programs -> Ids] /\ lost \subseteq Ids
      BY <1>2 DEF Init
    <2>4. phase \in [Programs -> {"up", "stopping", "exiting", "joining", "gone", "dead"}]
      BY DEF Init
    <2>5. pass \in [Programs -> [names : SUBSET Names, todo : SUBSET Names, process : Ids,
                                 at : {"next", "join", "close", "pthread", "kill"}]]
      BY <1>3 DEF Init, Passes
    <2>6. QED
      BY <1>1, <2>1, <2>2, <2>3, <2>4, <2>5 DEF TypeOK, WorkerMade, States
  <1>5. NumberInv /\ KnownInv
    BY <1>1 DEF NumberInv, KnownInv, KnownOf
  <1>6. PassInv /\ ExitInv
    BY DEF Init, PassInv, PassOf, ExitInv, ExitOf
  <1>7. QED
    BY <1>4, <1>5, <1>6 DEF ProcessesInv

LEMMA NextInv ==
  ASSUME ProcessesInv, [Next]_vars
  PROVE  ProcessesInv'
  <1>1. ASSUME NEW p \in Programs, NEW count \in Counts, StartTaskWorkers(p, count) PROVE ProcessesInv'
    BY <1>1, StartInv DEF StartTaskWorkers, StartTaskWorkersWithTasks, AStartTaskWorkersWithTasks,
                          StartTaskWorkersWithMp
  <1>2. ASSUME NEW p \in Programs, ProgramStep(p) PROVE ProcessesInv'
    BY <1>2, NextNameInv, AtProcessInv, UnregisterInv, JoinAllInv DEF ProgramStep
  <1>3. CASE UNCHANGED vars
    <2>1. TypeOK /\ handler' \in [Programs -> Ids] /\ UNCHANGED <<workers, registry, phase, pass, lost>>
      BY <1>3 DEF ProcessesInv, TypeOK, vars
    <2>2. QED
      BY <2>1, SameAges, KeepsInv
  <1>4. QED
    BY <1>1, <1>2, <1>3, SignalInv, ExitInvs, WorkerInv DEF Next

LEMMA ProcessesInvariant == Spec => []ProcessesInv
  <1>1. ProcessesInv /\ [Next]_vars => ProcessesInv'
    BY NextInv
  <1>2. QED
    BY InitInv, <1>1, PTL DEF Spec

(* Two numbers counted from multiples of c are equal only in the same        *)
(* block of c.                                                              *)
LEMMA Blocks ==
  ASSUME NEW d \in Nat, NEW e \in Nat, NEW c \in Nat \ {0}, NEW n \in Nat,
         d * c <= n, n < d * c + c, e * c <= n, n < e * c + c
  PROVE  d = e
  <1>1. ASSUME NEW i \in Nat, NEW j \in Nat, i < j PROVE i * c + c <= j * c
    <2>1. PICK k \in Nat : j = i + 1 + k
      <3>1. j - i - 1 \in Nat /\ j = i + 1 + (j - i - 1)
        BY <1>1
      <3>2. QED
        BY <3>1
    <2>2. k * c \in Nat /\ j * c = i * c + c + k * c /\ i * c \in Nat
      BY <2>1
    <2>3. QED
      BY <2>2
  <1>2. d * c \in Nat /\ e * c \in Nat
    OBVIOUS
  <1>3. ~(d < e) /\ ~(e < d)
    BY <1>1, <1>2
  <1>4. QED
    BY <1>3

(* Workers of programs on hosts with different last digits have different    *)
(* names when each program starts as many of them: get_worker_start_index   *)
(* and create_worker_names.                                                 *)
THEOREM NamesDiffer == Spec => []NamesTellApart
  <1>1. ProcessesInv => NamesTellApart
    <2>1. SUFFICES ASSUME ProcessesInv, NEW v \in DOMAIN workers, NEW w \in DOMAIN workers,
                          workers[v].name = workers[w].name, workers[v].count = workers[w].count
                   PROVE  Digit[workers[v].program] = Digit[workers[w].program]
      BY DEF NamesTellApart
    <2>2. workers[v] \in WorkerMade /\ workers[w] \in WorkerMade
      BY <2>1, Table DEF ProcessesInv
    <2> DEFINE d == Digit[workers[v].program]
               e == Digit[workers[w].program]
               c == workers[v].count
               n == workers[v].name
    <2>3. d \in Nat /\ e \in Nat /\ c \in Nat \ {0}
      <3>1. /\ workers[v].program \in Programs /\ workers[w].program \in Programs
            /\ workers[v].count \in Counts
        BY <2>2 DEF WorkerMade
      <3>2. \A p \in Programs : Digit[p] \in Nat
        BY DigitAssumption
      <3>3. QED
        BY <3>1, <3>2, CountAssumption
    <2>4. n \in Nat
      <3>1. \A m \in Names : m \in Nat
        BY NamesNumbers DEF Names
      <3>2. QED
        BY <2>2, <3>1 DEF WorkerMade
    <2>5. d * c <= n /\ n < d * c + c /\ e * c <= n /\ n < e * c + c
      BY <2>1 DEF ProcessesInv, NumberInv, StartIndex
    <2> HIDE DEF d, e, c, n
    <2>6. d = e
      BY <2>3, <2>4, <2>5, Blocks
    <2>7. QED
      BY <2>6 DEF d, e
  <1>2. QED
    BY <1>1, ProcessesInvariant, PTL

(* exit_task_workers leaves no process alive that the registry still had,    *)
(* whatever was started and stopped before and however the processes take   *)
(* the signals.                                                             *)
THEOREM ExitStops == Spec => []ExitStopsAll
  <1>1. ProcessesInv => ExitStopsAll
    BY DEF ProcessesInv, ExitInv, ExitOf, ExitStopsAll
  <1>2. QED
    BY <1>1, ProcessesInvariant, PTL

(***************************************************************************)
(* The locks by which processes exclude one another                        *)
(***************************************************************************)
LEMMA PlaceType == \A u \in Users : Place(u) \in Places
  BY DEF Place, Places

\* The state of a lock keeps its shape, whatever expires, is forced or dies.
THEOREM LockTypes == LockSpec => []LockTypeOK
  <1>1. LockInit => LockTypeOK
    BY DEF LockInit, LockTypeOK
  <1>2. LockTypeOK /\ [LockNext]_lockVars => LockTypeOK'
    <2> SUFFICES ASSUME LockTypeOK, [LockNext]_lockVars PROVE LockTypeOK'
      OBVIOUS
    <2> USE DEF LockTypeOK
    <2>1. ASSUME NEW u \in Users, Acquire(u) PROVE LockTypeOK'
      BY <2>1 DEF Acquire, Go, config, history
    <2>2. ASSUME NEW u \in Users, Enter(u) PROVE LockTypeOK'
      BY <2>2, PlaceType DEF Enter, Go, config, history
    <2>3. CASE Expire
      BY <2>3 DEF Expire, config
    <2>4. ASSUME NEW u \in Users, NEW f \in BOOLEAN, TakeToken(u, f),
                 UNCHANGED <<config, store>>, {expired, overridden, closed}' \subseteq BOOLEAN
          PROVE  LockTypeOK'
      <3>1. token[Place(u)] \in Users \cup {None} /\ Forced(f) \in BOOLEAN
        BY PlaceType DEF Forced
      <3>2. QED
        BY <2>4, <3>1, PlaceType DEF TakeToken, Return, Go, config
    <2>5. ASSUME NEW u \in Users, NEW f \in BOOLEAN, Release(u, f) PROVE LockTypeOK'
      BY <2>4, <2>5 DEF Release, history
    <2>6. ASSUME NEW u \in Users, LuaRelease(u) PROVE LockTypeOK'
      BY <2>6 DEF LuaRelease, Return, Go, config, history
    <2>7. ASSUME NEW u \in Users, ForceDelete(u) PROVE LockTypeOK'
      BY <2>7 DEF ForceDelete, Go, config
    <2>8. ASSUME NEW u \in Users, NEW f \in BOOLEAN, CloseLocks(u, f) PROVE LockTypeOK'
      BY <2>4, <2>8 DEF CloseLocks
    <2>9. ASSUME NEW u \in Users, Crash(u) PROVE LockTypeOK'
      BY <2>9 DEF Crash, Return, Go, config, history
    <2>10. CASE UNCHANGED lockVars
      BY <2>10 DEF lockVars, config
    <2>11. QED
      BY <2>1, <2>2, <2>3, <2>5, <2>6, <2>7, <2>8, <2>9, <2>10 DEF LockNext
  <1>3. QED
    BY <1>1, <1>2, PTL DEF LockSpec

(* A lock to which nothing happened but acquire and release: its owner's   *)
(* token is in Redis, in the owner's place and then in its release.        *)
Undisturbed == ~expired /\ ~overridden /\ ~closed
OwnersToken ==
  /\ \A u \in Owners : store = u
  /\ \A u \in Users : at[u] = "in" => token[Place(u)] = u
  /\ \A u \in Users : at[u] = "release" => mine[u] = u

LEMMA OwnersTokenInvariant == LockSpec => [](Undisturbed => OwnersToken)
  <1>1. LockInit => OwnersToken
    BY DEF LockInit, OwnersToken, Owners
  <1>2. LockTypeOK /\ (Undisturbed => OwnersToken) /\ [LockNext]_lockVars
          => (Undisturbed => OwnersToken)'
    <2> SUFFICES ASSUME LockTypeOK, Undisturbed => OwnersToken, [LockNext]_lockVars, Undisturbed'
                 PROVE  OwnersToken'
      BY DEF Undisturbed
    <2> USE DEF OwnersToken, Owners, LockTypeOK
    <2>0. OwnersToken
      BY DEF Undisturbed, LockNext, Expire, Acquire, Enter, Release, LuaRelease, ForceDelete,
         CloseLocks, Crash, lockVars, history
    <2>1. ASSUME NEW u \in Users, Acquire(u) PROVE OwnersToken'
      BY <2>0, <2>1, NoneAssumption DEF Acquire, Go, config, Place, SharesPlace
    <2>2. ASSUME NEW u \in Users, Enter(u) PROVE OwnersToken'
      <3>1. Place(u)' = Place(u) /\ \A v \in Users : Place(v)' = Place(v)
        BY <2>2 DEF Enter, config, Place, SharesPlace
      <3>2. \A v \in Users : at'[v] \in {"granted", "in"} => store' = v
        BY <2>0, <2>2 DEF Enter, Go
      <3>3. token'[Place(u)] = u
        BY <2>2, PlaceType DEF Enter
      <3>4. \A v \in Users : at'[v] = "in" => v = u
        BY <2>0, <2>2 DEF Enter, Go
      <3>5. QED
        BY <2>0, <2>2, <3>1, <3>2, <3>3, <3>4 DEF Enter, Go
    <2>3. ASSUME NEW u \in Users, NEW f \in BOOLEAN, Release(u, f) PROVE OwnersToken'
      <3>1. \A v \in Users : Place(v)' = Place(v)
        BY <2>3 DEF Release, config, Place, SharesPlace
      <3>2. token[Place(u)] = u /\ \A v \in Users : at[v] \in {"granted", "in"} => v = u
        BY <2>0, <2>3 DEF Release
      <3>3. /\ mine' = [mine EXCEPT ![u] = u]
            /\ at' = [at EXCEPT ![u] = "release"]
        BY <2>3, <3>2, NoneAssumption DEF Release, TakeToken, Go
      <3>4. QED
        BY <2>0, <2>3, <3>2, <3>3 DEF Release
    <2>4. ASSUME NEW u \in Users, LuaRelease(u) PROVE OwnersToken'
      <3>1. \A v \in Users : Place(v)' = Place(v)
        BY <2>4 DEF LuaRelease, config, Place, SharesPlace
      <3>2. mine[u] = u /\ at'[u] \in {"idle", "delete"}
        BY <2>0, <2>4 DEF LuaRelease, Return, Go
      <3>3. \A v \in Users \ {u} : at'[v] = at[v] /\ mine'[v] = mine[v]
        BY <2>4 DEF LuaRelease, Return, Go
      <3>4. store' = store \/ store = u
        BY <2>4, <3>2 DEF LuaRelease
      <3>5. QED
        BY <2>0, <2>4, <3>1, <3>2, <3>3, <3>4 DEF LuaRelease
    <2>5. ASSUME NEW u \in Users, Crash(u) PROVE OwnersToken'
      <3>1. \A v \in Users : Place(v)' = Place(v)
        BY <2>5 DEF Crash, config, Place, SharesPlace
      <3>2. QED
        BY <2>0, <2>5, <3>1 DEF Crash, Return, Go
    <2>6. CASE UNCHANGED lockVars
      BY <2>0, <2>6 DEF lockVars, config, Place, SharesPlace
    <2>7. ~Expire /\ \A u \in Users : ~ForceDelete(u) /\ \A f \in BOOLEAN : ~CloseLocks(u, f)
      BY DEF Undisturbed, Expire, ForceDelete, CloseLocks
    <2>8. QED
      BY <2>1, <2>2, <2>3, <2>4, <2>5, <2>6, <2>7 DEF LockNext
  <1>3. QED
    BY <1>1, <1>2, LockTypes, PTL DEF LockSpec

\* Lock and AsyncLock: as long as no timeout, no forced release and no closing
\* session came between, at most one user has the lock, also where the tasks
\* of a loop keep their tokens in one place.
THEOREM MutualExclusion == LockSpec => []Exclusive
  <1>1. (Undisturbed => OwnersToken) => Exclusive
    BY DEF Undisturbed, OwnersToken, Exclusive
  <1>2. QED
    BY <1>1, OwnersTokenInvariant, PTL

(* A thread keeps its own token only.                                      *)
OwnPlaces ==
  flavour = "thread" =>
    \A u \in Users : token[u] \in {u, None} /\ mine[u] \in {u, None}

LEMMA OwnPlacesInvariant == LockSpec => []OwnPlaces
  <1>1. LockInit => OwnPlaces
    BY DEF LockInit, OwnPlaces, Places
  <1>2. LockTypeOK /\ OwnPlaces /\ [LockNext]_lockVars => OwnPlaces'
    <2> SUFFICES ASSUME LockTypeOK, OwnPlaces, [LockNext]_lockVars, flavour' = "thread"
                 PROVE  OwnPlaces'
      BY DEF OwnPlaces
    <2>0. /\ flavour = "thread"
          /\ \A u \in Users : Place(u) = u
          /\ Users \subseteq Places
      BY DEF LockNext, Expire, Acquire, Enter, Release, LuaRelease, ForceDelete,
         CloseLocks, Crash, lockVars, config, Place, SharesPlace, Places
    <2> USE DEF OwnPlaces, LockTypeOK
    <2>1. ASSUME NEW u \in Users, Acquire(u) \/ ForceDelete(u) PROVE OwnPlaces'
      BY <2>0, <2>1 DEF Acquire, ForceDelete
    <2>2. ASSUME NEW u \in Users, Enter(u) PROVE OwnPlaces'
      BY <2>0, <2>2 DEF Enter
    <2>3. ASSUME NEW u \in Users, NEW f \in BOOLEAN, TakeToken(u, f) PROVE OwnPlaces'
      BY <2>0, <2>3 DEF TakeToken, Return
    <2>4. ASSUME NEW u \in Users, LuaRelease(u) \/ Crash(u) PROVE OwnPlaces'
      BY <2>0, <2>4 DEF LuaRelease, Crash, Return
    <2>5. CASE Expire \/ UNCHANGED lockVars
      BY <2>0, <2>5 DEF Expire, lockVars
    <2>6. QED
      BY <2>1, <2>2, <2>3, <2>4, <2>5 DEF LockNext, Release, CloseLocks
  <1>3. QED
    BY <1>1, <1>2, LockTypes, PTL DEF LockSpec

\* The lock of threads: no release of another thread, no acquire and no
\* closing of a session ends the lock of its owner; only the owner's release,
\* the timeout and a forced release do.
THEOREM LockIsNotStolen == LockSpec => NotStolen
  <1>1. LockTypeOK /\ OwnPlaces /\ [LockNext]_lockVars =>
          [\A u \in Users :
             flavour = "thread" /\ store = u /\ store' # u
               => LuaRelease(u) \/ Expire \/ \E v \in Users : ForceDelete(v)]_lockVars
    <2> SUFFICES ASSUME LockTypeOK, OwnPlaces, [LockNext]_lockVars,
                        NEW u \in Users, flavour = "thread", store = u, store' # u
                 PROVE  LuaRelease(u) \/ Expire \/ \E v \in Users : ForceDelete(v)
      OBVIOUS
    <2>1. ASSUME NEW v \in Users, LuaRelease(v) PROVE v = u
      BY <2>1, NoneAssumption DEF LuaRelease, OwnPlaces
    <2>2. ASSUME NEW v \in Users PROVE ~Acquire(v)
      BY <2>2, NoneAssumption DEF Acquire
    <2>3. QED
      BY <2>1, <2>2 DEF LockNext, Enter, Release, CloseLocks, Crash, lockVars
  <1>2. QED
    BY <1>1, LockTypes, OwnPlacesInvariant, PTL DEF LockSpec, NotStolen
=============================================================================
