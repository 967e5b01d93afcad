---------------------------- MODULE WorkerProofs ----------------------------
(***************************************************************************)
(* Proofs about Worker, for any queues, jobs and settings: no job is lost  *)
(* but between the two transactions of _reschedule, none is done twice     *)
(* but after one, and every queue has the tasks the settings ask for.      *)
(***************************************************************************)
EXTENDS Worker, SequenceTheorems, FiniteSetTheorems, TLAPS

Phases == {"new", "running", "shutdown", "stop", "closed", "ended", "gone"}
Stages == {"none", "first", "second", "done", "cut", "dropped"}

(* A task serves one of the worker's lists, and where it works, at a job.  *)
Busy == {"start", "run", "finish", "retry"}
TaskInv == \A t \in DOMAIN task : /\ task[t].list \in served \X Kinds
                                  /\ task[t].pc \in Busy => task[t].job \in Jobs

(* The worker keeps the setting it was made with.                          *)
SettingInv == \E s \in Settings : served = s.served /\ concurrency = s.concurrency

(* No _reschedule is left from the loop before when a loop starts.         *)
PhaseInv ==
  phase \in {"new", "running", "gone"} => \A j \in Jobs : resched[j] \notin {"first", "second"}

(* The queue still has the job, or its result.                             *)
Kept(j) == active[j] > 0 \/ queued[j] > 0 \/ score[j] # "none" \/ j \in finished

KeptOf(j) == j \in enqueued => Kept(j) \/ resched[j] \in {"second", "cut"}

(* While start runs nothing but the tasks is at a job, and it is kept      *)
(* whatever an earlier _reschedule did to it.                              *)
RunningOf(j) ==
  phase = "running" /\ (\E t \in DOMAIN task : Working(t, j)) => Kept(j)

(* A job that was not rescheduled at a shutdown is in one place: it waits  *)
(* in `queued' or for its time, one task works at it, or it is finished.   *)
OnceOf(j) ==
  resched[j] = "none" =>
    /\ \A t, u \in DOMAIN task : Working(t, j) /\ Working(u, j) => t = u
    /\ \A t \in DOMAIN task : Working(t, j) =>
         queued[j] = 0 /\ score[j] = "zero" /\ j \notin finished /\ j \in enqueued
    /\ queued[j] > 0 => queued[j] = 1 /\ score[j] = "zero"
    /\ j \in finished \/ j \notin enqueued => queued[j] = 0 /\ score[j] = "none"
    /\ j \in finished => j \in enqueued

JobInv == \A j \in Jobs : KeptOf(j) /\ RunningOf(j) /\ OnceOf(j)

ServeInv == phase = "running" =>
  \A q \in served, k \in Kinds :
    LET n == Cardinality(Serving(<<q, k>>)) IN
      /\ ~event => n >= concurrency[k]
      /\ served = {q} => n <= concurrency[k]

WorkerInv == TypeOK /\ SettingInv /\ TaskInv /\ PhaseInv /\ JobInv /\ ServeInv


(***************************************************************************)
(* Sequences of tasks                                                      *)
(***************************************************************************)
(* A function on 1 .. n is a sequence of length n.                         *)
LEMMA FunctionSeq ==
  ASSUME NEW S, NEW n \in Nat, NEW f \in [1..n -> S]
  PROVE  f \in Seq(S) /\ Len(f) = n
  <1>1. f \in Seq(S)
    BY SeqDef
  <1>2. Len(f) \in Nat /\ DOMAIN f = 1..Len(f) /\ DOMAIN f = 1..n
    BY <1>1, LenProperties
  <1>3. QED
    BY <1>1, <1>2

(* SetToSeq lists every element of a finite set once.                      *)
LEMMA SetToSeqOrder ==
  ASSUME NEW S, IsFiniteSet(S)
  PROVE  /\ Cardinality(S) \in Nat
         /\ SetToSeq(S) \in [1..Cardinality(S) -> S]
         /\ Len(SetToSeq(S)) = Cardinality(S)
         /\ \A i, j \in 1..Cardinality(S) : SetToSeq(S)[i] = SetToSeq(S)[j] => i = j
         /\ \A x \in S : \E i \in 1..Cardinality(S) : SetToSeq(S)[i] = x
  <1> DEFINE n == Cardinality(S)
             s == SetToSeq(S)
  <1>1. n \in Nat /\ ExistsBijection(1..n, S)
    BY FS_CardinalityType
  <1>2. \E f \in [1..n -> S] : IsInjective(f)
    BY <1>1 DEF ExistsBijection, Bijection, Injection
  <1>3. s \in [1..n -> S] /\ IsInjective(s)
    BY <1>2 DEF SetToSeq
  <1>4. s \in Injection(1..n, S) /\ Cardinality(1..n) = n
    BY <1>1, <1>3, FS_Interval DEF Injection
  <1>5. s \in Surjection(1..n, S)
    BY <1>4, FS_Injection
  <1>6. Len(s) = n
    BY <1>1, <1>3, FunctionSeq
  <1>7. QED
    BY <1>1, <1>3, <1>5, <1>6 DEF IsInjective, Surjection

(* The indices with a property, counted through a bijection.               *)
LEMMA SameCount ==
  ASSUME NEW A, NEW B, IsFiniteSet(A), NEW f \in [A -> B],
         \A x, y \in A : f[x] = f[y] => x = y, \A y \in B : \E x \in A : f[x] = y
  PROVE  IsFiniteSet(B) /\ Cardinality(B) = Cardinality(A)
  <1>1. f \in Bijection(A, B)
    BY DEF Bijection, Injection, Surjection, IsInjective
  <1>2. QED
    BY <1>1, FS_Bijection DEF ExistsBijection

LEMMA Tasks ==
  ASSUME task \in Seq(Task)
  PROVE  /\ Len(task) \in Nat /\ DOMAIN task = 1..Len(task)
         /\ \A t \in DOMAIN task : task[t] \in Task
  BY LenProperties, ElementOfSeq

(* The tasks of a sequence that serve a list.                              *)
ServingIn(s, l) == {i \in 1..Len(s) : s[i].list = l}

LEMMA ServingFinite ==
  ASSUME NEW s \in Seq(Task), NEW l
  PROVE  IsFiniteSet(ServingIn(s, l)) /\ Cardinality(ServingIn(s, l)) \in Nat
  <1>1. Len(s) \in Nat /\ ServingIn(s, l) \subseteq 1..Len(s)
    BY LenProperties DEF ServingIn
  <1>2. IsFiniteSet(1..Len(s))
    BY <1>1, FS_Interval
  <1>3. QED
    BY <1>1, <1>2, FS_Subset, FS_CardinalityType

(* TasksFor makes one task for each slot.                                  *)
LEMMA TasksForSlots ==
  ASSUME NEW slots \in SUBSET (Lists \X Nat), IsFiniteSet(slots)
  PROVE  /\ TasksFor(slots) \in Seq(Task)
         /\ Len(TasksFor(slots)) = Cardinality(slots) /\ Cardinality(slots) \in Nat
         /\ \A i \in 1..Cardinality(slots) :
              /\ TasksFor(slots)[i].pc = "dequeue"
              /\ \E x \in slots : TasksFor(slots)[i].list = x[1]
         /\ \A l : Cardinality(ServingIn(TasksFor(slots), l)) = Cardinality({x \in slots : x[1] = l})
  <1> DEFINE n == Cardinality(slots)
             order == SetToSeq(slots)
             s == TasksFor(slots)
  <1>1. /\ n \in Nat /\ order \in [1..n -> slots] /\ Len(order) = n
        /\ \A i, j \in 1..n : order[i] = order[j] => i = j
        /\ \A x \in slots : \E i \in 1..n : order[i] = x
    BY SetToSeqOrder
  <1>2. s = [i \in 1..n |-> [list |-> order[i][1], pc |-> "dequeue", job |-> None, cancelled |-> FALSE]]
    BY <1>1 DEF TasksFor
  <1> HIDE DEF n, order, s
  <1>3. \A i \in 1..n : order[i] \in slots /\ order[i][1] \in Lists
    BY <1>1
  <1>4. ASSUME NEW i \in 1..n
        PROVE  s[i] \in Task /\ s[i].pc = "dequeue" /\ s[i].list = order[i][1]
    BY <1>2, <1>3 DEF Task, Pcs
  <1>5. s \in [1..n -> Task]
    BY <1>2, <1>4
  <1>6. s \in Seq(Task) /\ Len(s) = n
    BY <1>1, <1>5, FunctionSeq
  <1>7. ASSUME NEW l
        PROVE  Cardinality(ServingIn(s, l)) = Cardinality({x \in slots : x[1] = l})
    <2> DEFINE A == ServingIn(s, l)
               B == {x \in slots : x[1] = l}
               f == [i \in A |-> order[i]]
    <2>1. A = {i \in 1..n : order[i][1] = l}
      BY <1>4, <1>6 DEF ServingIn
    <2>2. IsFiniteSet(A)
      BY <1>6, ServingFinite
    <2> HIDE DEF A
    <2>3. f \in [A -> B]
      BY <1>3, <2>1
    <2>4. \A x, y \in A : f[x] = f[y] => x = y
      BY <1>1, <2>1
    <2>5. \A y \in B : \E x \in A : f[x] = y
      BY <1>1, <2>1
    <2> HIDE DEF f, B
    <2>6. Cardinality(B) = Cardinality(A)
      BY <2>2, <2>3, <2>4, <2>5, SameCount
    <2>7. QED
      BY <2>6 DEF A, B
  <1>8. QED
    BY <1>1, <1>3, <1>4, <1>6, <1>7 DEF n, order, s


(* A task of a sequence is replaced by those of another sequence.          *)
Splice(s, t, new) == SubSeq(s, 1, t - 1) \o new \o SubSeq(s, t + 1, Len(s))

LEMMA Spliced ==
  ASSUME NEW s \in Seq(Task), NEW t \in 1..Len(s), NEW new \in Seq(Task)
  PROVE  /\ Splice(s, t, new) \in Seq(Task) /\ Len(Splice(s, t, new)) = Len(s) - 1 + Len(new)
         /\ Len(s) \in Nat /\ Len(new) \in Nat
         /\ \A i \in 1..Len(Splice(s, t, new)) :
              Splice(s, t, new)[i] = IF i < t THEN s[i]
                     ELSE IF i < t + Len(new) THEN new[i - t + 1] ELSE s[i - Len(new) + 1]
  <1> DEFINE before == SubSeq(s, 1, t - 1)
             rest == SubSeq(s, t + 1, Len(s))
             r == Splice(s, t, new)
             m == Len(new)
             n == Len(s)
  <1>1. n \in Nat /\ m \in Nat /\ t \in Int /\ 1 <= t /\ t <= n /\ \A i \in 1..n : s[i] \in Task
    BY LenProperties, ElementOfSeq
  <1>2. /\ before \in Seq(Task) /\ Len(before) = t - 1
        /\ \A i \in 1..(t - 1) : before[i] = s[i]
    <2>1. \A i \in 1..(t - 1) : s[i] \in Task
      BY <1>1
    <2>2. /\ before \in Seq(Task) /\ Len(before) = IF 1 <= t - 1 THEN (t - 1) - 1 + 1 ELSE 0
          /\ \A i \in 1..((t - 1) - 1 + 1) : before[i] = s[1 + i - 1]
      BY <1>1, <2>1, SubSeqProperties
    <2>3. QED
      BY <1>1, <2>2
  <1>3. /\ rest \in Seq(Task) /\ Len(rest) = n - t
        /\ \A i \in 1..(n - t) : rest[i] = s[t + i]
    <2>1. \A i \in (t + 1)..n : s[i] \in Task
      BY <1>1
    <2>2. /\ rest \in Seq(Task) /\ Len(rest) = IF t + 1 <= n THEN n - (t + 1) + 1 ELSE 0
          /\ \A i \in 1..(n - (t + 1) + 1) : rest[i] = s[(t + 1) + i - 1]
      BY <1>1, <2>1, SubSeqProperties
    <2>3. Len(rest) = n - t /\ n - (t + 1) + 1 = n - t
      BY <1>1, <2>2
    <2>4. ASSUME NEW i \in 1..(n - t) PROVE rest[i] = s[t + i]
      <3>1. i \in Int
        BY <1>1
      <3>2. (t + 1) + i - 1 = t + i
        BY <1>1, <3>1
      <3>3. rest[i] = s[(t + 1) + i - 1]
        BY <2>2, <2>3
      <3>4. QED
        BY <3>2, <3>3
    <2>5. QED
      BY <2>2, <2>3, <2>4
  <1> DEFINE front == before \o new
  <1>4. /\ front \in Seq(Task) /\ Len(front) = Len(before) + Len(new)
        /\ \A i \in 1..(Len(before) + Len(new)) :
             front[i] = IF i <= Len(before) THEN before[i] ELSE new[i - Len(before)]
    BY <1>2, ConcatProperties
  <1>5. r = front \o rest
    BY DEF Splice
  <1> HIDE DEF before, rest, front, m, n, r
  <1>6. /\ r \in Seq(Task) /\ Len(r) = Len(front) + Len(rest)
        /\ \A i \in 1..(Len(front) + Len(rest)) :
             r[i] = IF i <= Len(front) THEN front[i] ELSE rest[i - Len(front)]
    <2>0. front \in Seq(Task) /\ rest \in Seq(Task)
      BY <1>3, <1>4
    <2>1. /\ front \o rest \in Seq(Task) /\ Len(front \o rest) = Len(front) + Len(rest)
          /\ \A i \in 1..(Len(front) + Len(rest)) :
               (front \o rest)[i] = IF i <= Len(front) THEN front[i] ELSE rest[i - Len(front)]
      BY <2>0, ConcatProperties
    <2>2. QED
      BY <2>1, <1>5
  <1>7. Len(before) = t - 1 /\ Len(new) = m /\ Len(front) = t - 1 + m /\ Len(r) = n - 1 + m
    BY <1>1, <1>2, <1>3, <1>4, <1>6 DEF m
  <1>8. ASSUME NEW i \in 1..Len(r)
        PROVE  r[i] = IF i < t THEN s[i] ELSE IF i < t + m THEN new[i - t + 1] ELSE s[i - m + 1]
    <2>0. i \in 1..(Len(front) + Len(rest)) /\ i \in Int
      BY <1>6
    <2>1. CASE i < t
      <3>1. i \in 1..(t - 1) /\ i <= Len(before) /\ i <= Len(front) /\ i \in 1..(Len(before) + Len(new))
        BY <1>1, <1>7, <2>0, <2>1
      <3>2. r[i] = front[i] /\ front[i] = before[i] /\ before[i] = s[i]
        BY <2>0, <3>1, <1>6, <1>4, <1>2
      <3>3. QED
        BY <2>1, <3>2
    <2>2. CASE ~(i < t) /\ i < t + m
      <3>1. /\ ~(i <= Len(before)) /\ i <= Len(front) /\ i \in 1..(Len(before) + Len(new))
            /\ i - Len(before) = i - t + 1
        BY <1>1, <1>7, <2>0, <2>2
      <3>2. r[i] = front[i] /\ front[i] = new[i - Len(before)]
        BY <2>0, <3>1, <1>6, <1>4
      <3>3. QED
        BY <2>2, <3>1, <3>2
    <2>3. CASE ~(i < t) /\ ~(i < t + m)
      <3>1. /\ ~(i <= Len(front)) /\ i - Len(front) \in 1..(n - t)
            /\ t + (i - Len(front)) = i - m + 1
        BY <1>1, <1>3, <1>7, <2>0, <2>3
      <3>2. r[i] = rest[i - Len(front)] /\ rest[i - Len(front)] = s[t + (i - Len(front))]
        BY <2>0, <3>1, <1>6, <1>3
      <3>3. QED
        BY <2>3, <3>1, <3>2
    <2>4. QED
      BY <2>1, <2>2, <2>3
  <1>9. QED
    BY <1>1, <1>6, <1>7, <1>8 DEF m, n, r

(* What serves a list then: what did, but for the replaced, and the new.   *)
LEMMA SplicedServing ==
  ASSUME NEW s \in Seq(Task), NEW t \in 1..Len(s), NEW new \in Seq(Task), NEW l,
         NEW r, r = Splice(s, t, new)
  PROVE  Cardinality(ServingIn(r, l)) =
           Cardinality(ServingIn(s, l)) - (IF s[t].list = l THEN 1 ELSE 0)
             + Cardinality(ServingIn(new, l))
  <1>0. /\ Len(r) = Len(s) - 1 + Len(new) /\ Len(s) \in Nat /\ Len(new) \in Nat
        /\ \A i \in 1..Len(r) :
             r[i] = IF i < t THEN s[i]
                    ELSE IF i < t + Len(new) THEN new[i - t + 1] ELSE s[i - Len(new) + 1]
    BY Spliced
  <1> DEFINE n == Len(s)
             m == Len(new)
             Old == ServingIn(s, l) \ {t}
             New == ServingIn(new, l)
             OldAt == {i \in 1..(n - 1 + m) : ~(t <= i /\ i < t + m) /\ r[i].list = l}
             NewAt == {i \in 1..(n - 1 + m) : t <= i /\ i < t + m /\ r[i].list = l}
  <1>1. /\ n \in Nat /\ m \in Nat /\ t \in Int /\ 1 <= t /\ t <= n /\ Len(r) = n - 1 + m
        /\ \A i \in 1..(n - 1 + m) :
             r[i] = IF i < t THEN s[i] ELSE IF i < t + m THEN new[i - t + 1] ELSE s[i - m + 1]
    <2>1. t \in 1..n /\ n \in Nat /\ m \in Nat /\ Len(r) = n - 1 + m
      BY <1>0
    <2>2. t \in Int /\ 1 <= t /\ t <= n
      BY <2>1
    <2>3. \A i \in 1..Len(r) :
            r[i] = IF i < t THEN s[i] ELSE IF i < t + m THEN new[i - t + 1] ELSE s[i - m + 1]
      BY <1>0
    <2> HIDE DEF n, m
    <2>4. QED
      BY <2>1, <2>2, <2>3
  <1>2. /\ IsFiniteSet(Old)
        /\ Cardinality(Old) = Cardinality(ServingIn(s, l)) - (IF s[t].list = l THEN 1 ELSE 0)
    <2>1. IsFiniteSet(ServingIn(s, l)) /\ Cardinality(ServingIn(s, l)) \in Nat
      BY ServingFinite
    <2>2. s[t].list = l <=> t \in ServingIn(s, l)
      BY DEF ServingIn
    <2>3. QED
      BY <2>1, <2>2, FS_RemoveElement
  <1>3. IsFiniteSet(New) /\ Cardinality(New) \in Nat /\ Cardinality(Old) \in Nat
    BY <1>2, ServingFinite, FS_CardinalityType
  <1>4. IsFiniteSet(OldAt) /\ Cardinality(OldAt) = Cardinality(Old)
    <2> DEFINE f == [i \in Old |-> IF i < t THEN i ELSE i + m - 1]
    <2>1. Old = {i \in 1..n : i # t /\ s[i].list = l}
      BY DEF ServingIn
    <2> HIDE DEF Old
    <2>2. ASSUME NEW i \in Old PROVE f[i] \in OldAt
      <3>1. CASE i < t
        <4>0. i \in 1..(n - 1 + m) /\ i \in 1..n
          BY <1>1, <2>1, <3>1
        <4>1. r[i] = s[i] /\ f[i] = i
          BY <1>1, <3>1, <4>0
        <4>2. QED
          BY <1>1, <2>1, <3>1, <4>1
      <3>2. CASE ~(i < t)
        <4> DEFINE j == i + m - 1
        <4>1. j \in 1..(n - 1 + m) /\ ~(j < t) /\ ~(j < t + m) /\ j - m + 1 = i
          BY <1>1, <2>1, <3>2
        <4> HIDE DEF j
        <4>2. r[j] = s[i]
          BY <1>1, <4>1
        <4>3. QED
          BY <1>1, <2>1, <3>2, <4>1, <4>2 DEF j
      <3>3. QED
        BY <3>1, <3>2
    <2>3. f \in [Old -> OldAt]
      BY <2>2
    <2>4. \A x, y \in Old : f[x] = f[y] => x = y
      BY <1>1, <2>1
    <2>5. ASSUME NEW y \in OldAt PROVE \E x \in Old : f[x] = y
      <3>1. CASE y < t
        <4>0. y \in 1..(n - 1 + m) /\ y \in 1..n /\ r[y].list = l
          BY <1>1, <3>1
        <4>1. r[y] = s[y]
          BY <1>1, <3>1, <4>0
        <4>2. y \in Old
          BY <1>1, <2>1, <3>1, <4>0, <4>1
        <4>3. f[y] = y
          BY <3>1, <4>2
        <4>4. QED
          BY <4>2, <4>3
      <3>2. CASE ~(y < t)
        <4> DEFINE x == y - m + 1
        <4>1. ~(y < t + m) /\ x \in 1..n /\ x > t /\ x + m - 1 = y /\ y \in 1..(n - 1 + m)
          BY <1>1, <3>2
        <4>2. r[y] = s[x]
          BY <1>1, <3>2, <4>1
        <4> HIDE DEF x
        <4>3. x \in Old
          BY <1>1, <2>1, <4>1, <4>2
        <4>4. f[x] = y
          BY <1>1, <4>1, <4>3
        <4>5. QED
          BY <4>3, <4>4
      <3>3. QED
        BY <3>1, <3>2
    <2> HIDE DEF f, OldAt
    <2>6. QED
      BY <1>2, <2>3, <2>4, <2>5, SameCount DEF Old
  <1>5. IsFiniteSet(NewAt) /\ Cardinality(NewAt) = Cardinality(New)
    <2> DEFINE f == [i \in New |-> i + t - 1]
    <2>1. New = {i \in 1..m : new[i].list = l}
      BY DEF ServingIn
    <2> HIDE DEF New
    <2>2. ASSUME NEW i \in New PROVE f[i] \in NewAt
      <3> DEFINE j == i + t - 1
      <3>1. j \in 1..(n - 1 + m) /\ ~(j < t) /\ j < t + m /\ j - t + 1 = i /\ f[i] = j
        BY <1>1, <2>1
      <3> HIDE DEF j, f
      <3>2. r[j] = new[i]
        BY <1>1, <3>1
      <3>3. QED
        BY <1>1, <2>1, <3>1, <3>2
    <2>3. f \in [New -> NewAt]
      BY <2>2
    <2>4. \A x, y \in New : f[x] = f[y] => x = y
      BY <1>1, <2>1
    <2>5. ASSUME NEW y \in NewAt PROVE \E x \in New : f[x] = y
      <3> DEFINE x == y - t + 1
      <3>1. x \in 1..m /\ x + t - 1 = y /\ r[y] = new[x]
        BY <1>1
      <3> HIDE DEF x
      <3>2. x \in New /\ f[x] = y
        BY <1>1, <2>1, <3>1
      <3>3. QED
        BY <3>2
    <2> HIDE DEF f, NewAt
    <2>6. QED
      BY <1>3, <2>3, <2>4, <2>5, SameCount DEF New
  <1>6. ServingIn(r, l) = OldAt \cup NewAt /\ OldAt \cap NewAt = {}
    BY <1>1 DEF ServingIn
  <1> HIDE DEF Old, New, OldAt, NewAt
  <1>7. Cardinality(OldAt \cap NewAt) = 0
    BY <1>6, FS_EmptySet
  <1>8. Cardinality(ServingIn(r, l)) = Cardinality(OldAt) + Cardinality(NewAt) - Cardinality(OldAt \cap NewAt)
    BY <1>4, <1>5, <1>6, FS_Union
  <1>9. Cardinality(ServingIn(r, l)) = Cardinality(Old) + Cardinality(New)
    BY <1>3, <1>4, <1>5, <1>7, <1>8
  <1>10. QED
    BY <1>2, <1>9 DEF New


(***************************************************************************)
(* Steps of one task                                                       *)
(***************************************************************************)
(* A task moves on: the others stay, and all serve the lists they did.     *)
Moves(t, r) ==
  /\ t \in DOMAIN task /\ r \in Task /\ r.list = task[t].list
  /\ r.pc \in Busy => r.job \in Jobs
  /\ task' = [task EXCEPT ![t] = r]

LEMMA Moved ==
  ASSUME TypeOK, TaskInv, NEW t, NEW r, Moves(t, r), served' = served
  PROVE  /\ task' \in Seq(Task) /\ Len(task') = Len(task) /\ DOMAIN task' = DOMAIN task
         /\ task'[t] = r
         /\ \A u \in DOMAIN task : u # t => task'[u] = task[u]
         /\ TaskInv'
         /\ \A l : Serving(l)' = Serving(l)
  <1>1. task \in Seq(Task) /\ t \in 1..Len(task) /\ DOMAIN task = 1..Len(task)
    BY Tasks DEF TypeOK, Moves
  <1>2. /\ task' \in Seq(Task) /\ Len(task') = Len(task)
        /\ \A u \in 1..Len(task) : task'[u] = IF u = t THEN r ELSE task[u]
    BY <1>1, ExceptSeq DEF Moves
  <1>3. DOMAIN task' = DOMAIN task
    BY <1>1, <1>2, LenProperties
  <1>4. TaskInv'
    BY <1>1, <1>2, <1>3 DEF TaskInv, Moves
  <1>5. \A l : Serving(l)' = Serving(l)
    BY <1>1, <1>2, <1>3 DEF Serving, Moves
  <1>6. QED
    BY <1>1, <1>2, <1>3, <1>4, <1>5

(* Where nothing but tasks changes, and each of those at work is one that  *)
(* was at the same job, the jobs are where they were.                      *)
LEMMA QuietJobs ==
  ASSUME JobInv, UNCHANGED <<redis, resched>>, phase' = "running" => phase = "running", NEW f,
         \A t \in DOMAIN task' : task'[t].pc \in Busy =>
           f[t] \in DOMAIN task /\ task[f[t]].pc \in Busy /\ task[f[t]].job = task'[t].job,
         \A t, u \in DOMAIN task' :
           task'[t].pc \in Busy /\ task'[u].pc \in Busy /\ f[t] = f[u] => t = u
  PROVE  JobInv'
  <1> SUFFICES ASSUME NEW j \in Jobs PROVE (KeptOf(j) /\ RunningOf(j) /\ OnceOf(j))'
    BY DEF JobInv
  <1>1. KeptOf(j) /\ RunningOf(j) /\ OnceOf(j)
    BY DEF JobInv
  <1>2. \A t \in DOMAIN task' : Working(t, j)' => f[t] \in DOMAIN task /\ Working(f[t], j)
    BY DEF Working, Busy
  <1>3. UNCHANGED <<queued, active, score, enqueued, finished, resched>>
    BY DEF redis
  <1>4. KeptOf(j)'
    BY <1>1, <1>3 DEF KeptOf, Kept
  <1>5. RunningOf(j)'
    BY <1>1, <1>2, <1>3 DEF RunningOf, Kept
  <1>6. \A t, u \in DOMAIN task' : Working(t, j)' /\ Working(u, j)' /\ f[t] = f[u] => t = u
    BY DEF Working, Busy
  <1>7. OnceOf(j)'
    BY <1>1, <1>2, <1>3, <1>6 DEF OnceOf
  <1>8. QED
    BY <1>4, <1>5, <1>7

(* The types of the jobs' places.                                          *)
LEMMA Places ==
  ASSUME TypeOK
  PROVE  /\ queued \in [Jobs -> Nat] /\ active \in [Jobs -> Nat]
         /\ score \in [Jobs -> {"none", "zero", "later"}]
         /\ resched \in [Jobs -> Stages]
         /\ enqueued \subseteq Jobs /\ finished \subseteq Jobs
  BY DEF TypeOK, Stages

(* Finish, by a task whose job now has a result.                           *)
FinishesJob(j) == JobFinish(j) /\ finished' = finished \cup {j}

LEMMA FinishJobs ==
  ASSUME TypeOK, TaskInv, JobInv, NEW t, NEW r, Moves(t, r), task[t].pc \in Busy, r.pc \notin Busy,
         FinishesJob(task[t].job), UNCHANGED <<served, phase, resched>>
  PROVE  /\ JobInv'
         /\ queued' \in [Jobs -> Nat] /\ active' \in [Jobs -> Nat]
         /\ score' \in [Jobs -> {"none", "zero", "later"}]
         /\ enqueued' \subseteq Jobs /\ finished' \subseteq Jobs
  <1> DEFINE k == task[t].job
  <1>1. k \in Jobs /\ t \in DOMAIN task
    BY DEF TaskInv, Moves
  <1>2. /\ DOMAIN task' = DOMAIN task /\ task'[t] = r
        /\ \A u \in DOMAIN task : u # t => task'[u] = task[u]
    BY Moved
  <1>3. /\ queued \in [Jobs -> Nat] /\ active \in [Jobs -> Nat]
        /\ score \in [Jobs -> {"none", "zero", "later"}]
        /\ enqueued \subseteq Jobs /\ finished \subseteq Jobs
    BY Places
  <1>4. /\ active' = [active EXCEPT ![k] = IF @ > 0 THEN @ - 1 ELSE 0]
        /\ score' = [score EXCEPT ![k] = "none"]
        /\ queued' = queued /\ enqueued' = enqueued /\ finished' = finished \cup {k}
    BY DEF FinishesJob, JobFinish, Finish, LRem1
  <1>5. Working(t, k)
    BY DEF Working, Busy
  <1>6. \A j \in Jobs, u \in DOMAIN task : Working(u, j)' => Working(u, j) /\ u # t
    BY <1>2 DEF Working, Busy
  <1> HIDE DEF k
  <1>7. ASSUME NEW j \in Jobs PROVE (KeptOf(j) /\ RunningOf(j) /\ OnceOf(j))'
    <2>1. KeptOf(j) /\ RunningOf(j) /\ OnceOf(j)
      BY DEF JobInv
    <2>2. CASE j = k
      <3>1. OnceOf(j)'
        BY <1>1, <1>2, <1>3, <1>4, <1>5, <1>6, <2>1, <2>2 DEF OnceOf
      <3>2. KeptOf(j)' /\ RunningOf(j)'
        BY <1>4, <2>2 DEF KeptOf, RunningOf, Kept
      <3>3. QED
        BY <3>1, <3>2
    <2>3. CASE j # k
      <3>1. active'[j] = active[j] /\ queued'[j] = queued[j] /\ score'[j] = score[j]
            /\ resched'[j] = resched[j] /\ (j \in finished' <=> j \in finished) /\ enqueued' = enqueued
        BY <1>3, <1>4, <2>3
      <3>2. KeptOf(j)' /\ RunningOf(j)'
        BY <1>2, <1>6, <2>1, <3>1 DEF KeptOf, RunningOf, Kept
      <3>3. OnceOf(j)'
        BY <1>2, <1>6, <2>1, <3>1 DEF OnceOf
      <3>4. QED
        BY <3>2, <3>3
    <2>4. QED
      BY <2>2, <2>3
  <1>8. QED
    BY <1>1, <1>3, <1>4, <1>7 DEF JobInv

(* Retry, right away or after a delay.                                     *)
LEMMA RetryJobs ==
  ASSUME TypeOK, TaskInv, JobInv, NEW t, NEW r, Moves(t, r), task[t].pc \in Busy, r.pc \notin Busy,
         JobRetry(task[t].job), UNCHANGED <<served, phase, resched>>
  PROVE  /\ JobInv'
         /\ queued' \in [Jobs -> Nat] /\ active' \in [Jobs -> Nat]
         /\ score' \in [Jobs -> {"none", "zero", "later"}]
         /\ enqueued' \subseteq Jobs /\ finished' \subseteq Jobs
  <1> DEFINE k == task[t].job
  <1>1. k \in Jobs /\ t \in DOMAIN task
    BY DEF TaskInv, Moves
  <1>2. /\ DOMAIN task' = DOMAIN task /\ task'[t] = r
        /\ \A u \in DOMAIN task : u # t => task'[u] = task[u]
    BY Moved
  <1>3. /\ queued \in [Jobs -> Nat] /\ active \in [Jobs -> Nat]
        /\ score \in [Jobs -> {"none", "zero", "later"}]
        /\ enqueued \subseteq Jobs /\ finished \subseteq Jobs
    BY Places
  <1>4. /\ active' = LRem1(active, k) /\ enqueued' = enqueued /\ finished' = finished
        /\ \/ score' = [score EXCEPT ![k] = "later"] /\ queued' = LRem1(queued, k)
           \/ score' = [score EXCEPT ![k] = "zero"] /\ queued' = Push(LRem1(queued, k), k)
    BY DEF JobRetry, Retry
  <1>5. Working(t, k)
    BY DEF Working, Busy
  <1>6. \A j \in Jobs, u \in DOMAIN task : Working(u, j)' => Working(u, j) /\ u # t
    BY <1>2 DEF Working, Busy
  <1> HIDE DEF k
  <1>7. /\ queued' \in [Jobs -> Nat] /\ active' \in [Jobs -> Nat]
        /\ score' \in [Jobs -> {"none", "zero", "later"}]
    BY <1>1, <1>3, <1>4 DEF LRem1, Push
  <1>8. ASSUME NEW j \in Jobs PROVE (KeptOf(j) /\ RunningOf(j) /\ OnceOf(j))'
    <2>1. KeptOf(j) /\ RunningOf(j) /\ OnceOf(j)
      BY DEF JobInv
    <2>2. CASE j = k
      <3>1. score'[j] # "none"
        BY <1>3, <1>4, <2>2
      <3>2. queued[j] = 0 => \/ queued'[j] = 0 /\ score'[j] = "later"
                             \/ queued'[j] = 1 /\ score'[j] = "zero"
        BY <1>3, <1>4, <2>2 DEF LRem1, Push
      <3>3. OnceOf(j)'
        BY <1>1, <1>2, <1>4, <1>5, <1>6, <2>1, <2>2, <3>2 DEF OnceOf
      <3>4. KeptOf(j)' /\ RunningOf(j)'
        BY <3>1 DEF KeptOf, RunningOf, Kept
      <3>5. QED
        BY <3>3, <3>4
    <2>3. CASE j # k
      <3>1. active'[j] = active[j] /\ queued'[j] = queued[j] /\ score'[j] = score[j]
            /\ resched'[j] = resched[j]
        BY <1>3, <1>4, <2>3 DEF LRem1, Push
      <3>2. KeptOf(j)' /\ RunningOf(j)'
        BY <1>2, <1>4, <1>6, <2>1, <3>1 DEF KeptOf, RunningOf, Kept
      <3>3. OnceOf(j)'
        BY <1>2, <1>4, <1>6, <2>1, <3>1 DEF OnceOf
      <3>4. QED
        BY <3>2, <3>3
    <2>4. QED
      BY <2>2, <2>3
  <1>9. QED
    BY <1>3, <1>4, <1>7, <1>8 DEF JobInv


(* A job whose time has come.                                              *)
LEMMA DueJobs ==
  ASSUME TypeOK, JobInv, NEW kind, Due(kind), UNCHANGED <<task, phase, resched>>
  PROVE  /\ JobInv'
         /\ queued' \in [Jobs -> Nat] /\ active' \in [Jobs -> Nat]
         /\ score' \in [Jobs -> {"none", "zero", "later"}]
         /\ enqueued' \subseteq Jobs /\ finished' \subseteq Jobs
  <1>1. PICK k \in Jobs : /\ score[k] = "later"
                          /\ queued' = Push(queued, k) /\ score' = [score EXCEPT ![k] = "zero"]
                          /\ UNCHANGED <<active, enqueued, finished>>
    BY DEF Due
  <1>2. /\ queued \in [Jobs -> Nat] /\ active \in [Jobs -> Nat]
        /\ score \in [Jobs -> {"none", "zero", "later"}]
        /\ enqueued \subseteq Jobs /\ finished \subseteq Jobs
    BY Places
  <1>3. /\ queued' \in [Jobs -> Nat] /\ active' \in [Jobs -> Nat]
        /\ score' \in [Jobs -> {"none", "zero", "later"}]
    BY <1>1, <1>2 DEF Push
  <1>4. \A j \in Jobs, u \in DOMAIN task : Working(u, j)' <=> Working(u, j)
    BY DEF Working
  <1>5. ASSUME NEW j \in Jobs PROVE (KeptOf(j) /\ RunningOf(j) /\ OnceOf(j))'
    <2>1. KeptOf(j) /\ RunningOf(j) /\ OnceOf(j)
      BY DEF JobInv
    <2>2. /\ active'[j] = active[j] /\ resched'[j] = resched[j] /\ enqueued' = enqueued
          /\ finished' = finished
      BY <1>1
    <2>3. CASE j = k
      <3>1. queued'[j] = queued[j] + 1 /\ score'[j] = "zero" /\ score[j] = "later"
        BY <1>1, <1>2, <2>3 DEF Push
      <3>2. KeptOf(j)' /\ RunningOf(j)'
        BY <3>1 DEF KeptOf, RunningOf, Kept
      <3>3. OnceOf(j)'
        BY <1>2, <1>4, <2>1, <2>2, <3>1 DEF OnceOf
      <3>4. QED
        BY <3>2, <3>3
    <2>4. CASE j # k
      <3>1. queued'[j] = queued[j] /\ score'[j] = score[j]
        BY <1>1, <1>2, <2>4 DEF Push
      <3>2. KeptOf(j)' /\ RunningOf(j)'
        BY <1>4, <2>1, <2>2, <3>1 DEF KeptOf, RunningOf, Kept
      <3>3. OnceOf(j)'
        BY <1>4, <2>1, <2>2, <3>1 DEF OnceOf
      <3>4. QED
        BY <3>2, <3>3
    <2>5. QED
      BY <2>3, <2>4
  <1>6. QED
    BY <1>1, <1>2, <1>3, <1>5 DEF JobInv

(* A task takes a job from `queued'.                                       *)
LEMMA DequeueJobs ==
  ASSUME TypeOK, TaskInv, JobInv, NEW t, NEW r, Moves(t, r), task[t].pc = "dequeue",
         r.pc = "start", r.job \in Jobs, queued[r.job] > 0,
         queued' = LRem1(queued, r.job), active' = Push(active, r.job),
         UNCHANGED <<served, score, enqueued, finished, phase, resched>>
  PROVE  JobInv' /\ queued' \in [Jobs -> Nat] /\ active' \in [Jobs -> Nat]
  <1> DEFINE k == r.job
  <1>1. k \in Jobs /\ t \in DOMAIN task
    BY DEF Moves
  <1>2. /\ DOMAIN task' = DOMAIN task /\ task'[t] = r
        /\ \A u \in DOMAIN task : u # t => task'[u] = task[u]
    BY Moved
  <1>3. queued \in [Jobs -> Nat] /\ active \in [Jobs -> Nat]
    BY Places
  <1>4. queued' \in [Jobs -> Nat] /\ active' \in [Jobs -> Nat]
    BY <1>3 DEF LRem1, Push
  <1>5. \A j \in Jobs, u \in DOMAIN task : Working(u, j)' <=> Working(u, j) \/ (u = t /\ j = k)
    BY <1>2 DEF Working
  <1> HIDE DEF k
  <1>6. ASSUME NEW j \in Jobs PROVE (KeptOf(j) /\ RunningOf(j) /\ OnceOf(j))'
    <2>1. KeptOf(j) /\ RunningOf(j) /\ OnceOf(j)
      BY DEF JobInv
    <2>2. CASE j = k
      <3>1. /\ active'[j] > 0 /\ queued'[j] = queued[j] - 1 /\ queued[j] > 0 /\ queued[j] \in Nat
            /\ score'[j] = score[j]
        BY <1>3, <2>2 DEF LRem1, Push, k
      <3>2. KeptOf(j)' /\ RunningOf(j)'
        BY <3>1 DEF KeptOf, RunningOf, Kept
      <3>3. OnceOf(j)'
        BY <1>1, <1>2, <1>5, <2>1, <2>2, <3>1 DEF OnceOf
      <3>4. QED
        BY <3>2, <3>3
    <2>3. CASE j # k
      <3>1. active'[j] = active[j] /\ queued'[j] = queued[j] /\ score'[j] = score[j]
        BY <1>3, <2>3 DEF LRem1, Push, k
      <3>2. KeptOf(j)' /\ RunningOf(j)'
        BY <1>2, <1>5, <2>1, <2>3, <3>1 DEF KeptOf, RunningOf, Kept
      <3>3. OnceOf(j)'
        BY <1>2, <1>5, <2>1, <2>3, <3>1 DEF OnceOf
      <3>4. QED
        BY <3>2, <3>3
    <2>4. QED
      BY <2>2, <2>3
  <1>7. QED
    BY <1>4, <1>6 DEF JobInv

-----------------------------------------------------------------------------
(***************************************************************************)
(* What is left of the invariant, and the steps of process_queue           *)
(***************************************************************************)
(* The tasks serve what they did.                                          *)
LEMMA SameServing ==
  ASSUME ServeInv, UNCHANGED <<served, concurrency>>, event => event',
         phase' = "running" => phase = "running",
         \A l : Serving(l)' = Serving(l)
  PROVE  ServeInv'
  BY DEF ServeInv

(* A task moves on, and the invariant holds again when the jobs are right. *)
LEMMA MovedInv ==
  ASSUME WorkerInv, NEW t, NEW r, Moves(t, r), JobInv', UNCHANGED Others,
         queued' \in [Jobs -> Nat], active' \in [Jobs -> Nat],
         score' \in [Jobs -> {"none", "zero", "later"}],
         enqueued' \subseteq Jobs, finished' \subseteq Jobs
  PROVE  WorkerInv'
  <1>1. UNCHANGED <<served, concurrency, home, mainTask, phase, event, polling, resched, starts>>
    BY DEF Others, config
  <1>2. /\ task' \in Seq(Task) /\ Len(task') = Len(task) /\ TaskInv'
        /\ \A l : Serving(l)' = Serving(l)
    BY <1>1, Moved DEF WorkerInv
  <1>3. TypeOK'
    BY <1>1, <1>2 DEF WorkerInv, TypeOK
  <1>4. PhaseInv'
    BY <1>1 DEF WorkerInv, PhaseInv
  <1>5. ServeInv'
    BY <1>1, <1>2, SameServing DEF WorkerInv
  <1>6. SettingInv'
    BY <1>1 DEF WorkerInv, SettingInv
  <1>7. QED
    BY <1>2, <1>3, <1>4, <1>5, <1>6 DEF WorkerInv

(* Nothing but the state of a task changes.                                *)
LEMMA QuietInv ==
  ASSUME WorkerInv, NEW t, NEW r, Moves(t, r), UNCHANGED <<Others, redis>>,
         r.pc \in Busy => task[t].pc \in Busy /\ r.job = task[t].job
  PROVE  WorkerInv'
  <1>1. UNCHANGED <<served, phase, resched, queued, active, score, enqueued, finished>>
    BY DEF Others, config, redis
  <1>2. /\ DOMAIN task' = DOMAIN task /\ task'[t] = r /\ t \in DOMAIN task
        /\ \A u \in DOMAIN task : u # t => task'[u] = task[u]
    BY <1>1, Moved DEF WorkerInv, Moves
  <1> DEFINE f == [u \in DOMAIN task |-> u]
  <1>3. JobInv'
    <2>1. \A u \in DOMAIN task' : task'[u].pc \in Busy =>
            f[u] \in DOMAIN task /\ task[f[u]].pc \in Busy /\ task[f[u]].job = task'[u].job
      BY <1>2
    <2>2. \A u, v \in DOMAIN task' :
            task'[u].pc \in Busy /\ task'[v].pc \in Busy /\ f[u] = f[v] => u = v
      BY <1>2
    <2> HIDE DEF f
    <2>3. QED
      BY <1>1, <2>1, <2>2, QuietJobs DEF WorkerInv, redis
  <1>4. /\ queued' \in [Jobs -> Nat] /\ active' \in [Jobs -> Nat]
        /\ score' \in [Jobs -> {"none", "zero", "later"}]
        /\ enqueued' \subseteq Jobs /\ finished' \subseteq Jobs
    BY <1>1, Places DEF WorkerInv
  <1>5. QED
    BY <1>3, <1>4, MovedInv DEF Others

(* The states a task can move to.                                          *)
LEMMA Goes ==
  ASSUME TypeOK, TaskInv, NEW t \in DOMAIN task, NEW pc \in Pcs,
         pc \in Busy => task[t].pc \in Busy
  PROVE  /\ task[t] \in Task /\ task[t].list \in Lists /\ task[t].pc \in Pcs
         /\ LET r == [task[t] EXCEPT !.pc = pc] IN
            /\ Go(t, pc) => Moves(t, r)
            /\ r.pc = pc /\ r.job = task[t].job
         /\ LET r == [task[t] EXCEPT !.pc = pc, !.cancelled = FALSE] IN
            /\ End(t, pc) => Moves(t, r)
            /\ r.pc = pc /\ r.job = task[t].job
  <1>1. task[t] \in Task
    BY Tasks DEF TypeOK
  <1>2. task[t].pc \in Busy => task[t].job \in Jobs
    BY DEF TaskInv
  <1>3. ASSUME Go(t, pc)
        PROVE  task' = [task EXCEPT ![t] = [task[t] EXCEPT !.pc = pc]]
    BY <1>3 DEF Go
  <1>4. ASSUME End(t, pc)
        PROVE  task' = [task EXCEPT ![t] = [task[t] EXCEPT !.pc = pc, !.cancelled = FALSE]]
    BY <1>4 DEF End
  <1>5. /\ [task[t] EXCEPT !.pc = pc] \in Task
        /\ [task[t] EXCEPT !.pc = pc].list = task[t].list
        /\ [task[t] EXCEPT !.pc = pc].job = task[t].job
        /\ [task[t] EXCEPT !.pc = pc].pc = pc
    BY <1>1 DEF Task
  <1>6. /\ [task[t] EXCEPT !.pc = pc, !.cancelled = FALSE] \in Task
        /\ [task[t] EXCEPT !.pc = pc, !.cancelled = FALSE].list = task[t].list
        /\ [task[t] EXCEPT !.pc = pc, !.cancelled = FALSE].job = task[t].job
        /\ [task[t] EXCEPT !.pc = pc, !.cancelled = FALSE].pc = pc
    BY <1>1 DEF Task
  <1>7. QED
    BY <1>1, <1>2, <1>3, <1>4, <1>5, <1>6 DEF Moves, Task


LEMMA GoInv ==
  ASSUME WorkerInv, NEW t \in DOMAIN task, NEW pc \in Pcs, pc \in Busy => task[t].pc \in Busy,
         Go(t, pc) \/ End(t, pc), UNCHANGED <<Others, redis>>
  PROVE  WorkerInv'
  <1>1. TypeOK /\ TaskInv
    BY DEF WorkerInv
  <1>2. CASE Go(t, pc)
    <2> DEFINE r == [task[t] EXCEPT !.pc = pc]
    <2>1. Moves(t, r) /\ r.pc = pc /\ r.job = task[t].job
      BY <1>1, <1>2, Goes
    <2> HIDE DEF r
    <2>2. QED
      BY <2>1, QuietInv
  <1>3. CASE End(t, pc)
    <2> DEFINE r == [task[t] EXCEPT !.pc = pc, !.cancelled = FALSE]
    <2>1. Moves(t, r) /\ r.pc = pc /\ r.job = task[t].job
      BY <1>1, <1>3, Goes
    <2> HIDE DEF r
    <2>2. QED
      BY <2>1, QuietInv
  <1>4. QED
    BY <1>2, <1>3

LEMMA FinishInv ==
  ASSUME WorkerInv, NEW t \in DOMAIN task, NEW pc \in Pcs \ Busy, task[t].pc \in Busy,
         Go(t, pc) \/ End(t, pc), UNCHANGED Others,
         FinishesJob(task[t].job) \/ (JobRetry(task[t].job) /\ UNCHANGED finished)
  PROVE  WorkerInv'
  <1>1. TypeOK /\ TaskInv /\ JobInv /\ UNCHANGED <<served, phase, resched>>
    BY DEF WorkerInv, Others, config
  <1>2. \E r : Moves(t, r) /\ r.pc = pc
    <2>0. pc \in Pcs /\ (pc \in Busy => task[t].pc \in Busy)
      OBVIOUS
    <2>1. CASE Go(t, pc)
      <3>1. LET r == [task[t] EXCEPT !.pc = pc] IN Moves(t, r) /\ r.pc = pc
        BY <1>1, <2>0, <2>1, Goes
      <3>2. QED
        BY <3>1
    <2>2. CASE End(t, pc)
      <3>1. LET r == [task[t] EXCEPT !.pc = pc, !.cancelled = FALSE] IN Moves(t, r) /\ r.pc = pc
        BY <1>1, <2>0, <2>2, Goes
      <3>2. QED
        BY <3>1
    <2>3. QED
      BY <2>1, <2>2
  <1>3. PICK r : Moves(t, r) /\ r.pc = pc
    BY <1>2
  <1>4. /\ JobInv'
        /\ queued' \in [Jobs -> Nat] /\ active' \in [Jobs -> Nat]
        /\ score' \in [Jobs -> {"none", "zero", "later"}]
        /\ enqueued' \subseteq Jobs /\ finished' \subseteq Jobs
    <2>1. CASE FinishesJob(task[t].job)
      BY <1>1, <1>3, <2>1, FinishJobs
    <2>2. CASE JobRetry(task[t].job)
      BY <1>1, <1>3, <2>2, RetryJobs
    <2>3. QED
      BY <2>1, <2>2
  <1>5. QED
    BY <1>3, <1>4, MovedInv

LEMMA DequeueInv ==
  ASSUME WorkerInv, NEW t, Dequeue(t)
  PROVE  WorkerInv'
  <1>1. /\ t \in DOMAIN task /\ task[t].pc = "dequeue" /\ task[t] \in Task
        /\ TypeOK /\ TaskInv /\ JobInv
    BY Tasks DEF Dequeue, At, WorkerInv, TypeOK
  <1>2. PICK j \in Jobs : /\ queued[j] > 0 /\ queued' = LRem1(queued, j) /\ active' = Push(active, j)
                          /\ task' = [task EXCEPT ![t].pc = "start", ![t].job = j]
    BY DEF Dequeue
  <1> DEFINE r == [task[t] EXCEPT !.pc = "start", !.job = j]
  <1>3. /\ r \in Task /\ r.list = task[t].list /\ r.pc = "start" /\ r.job = j
    BY <1>1 DEF Task, Pcs
  <1>4. task' = [task EXCEPT ![t] = r]
    BY <1>1, <1>2
  <1> HIDE DEF r
  <1>5. Moves(t, r)
    BY <1>1, <1>3, <1>4 DEF Moves
  <1>6. UNCHANGED <<Others, served, score, enqueued, finished, phase, resched>>
    BY DEF Dequeue, Others, config
  <1>7. JobInv' /\ queued' \in [Jobs -> Nat] /\ active' \in [Jobs -> Nat]
    BY <1>1, <1>2, <1>3, <1>5, <1>6, DequeueJobs
  <1>8. /\ score' \in [Jobs -> {"none", "zero", "later"}]
        /\ enqueued' \subseteq Jobs /\ finished' \subseteq Jobs
    BY <1>1, <1>6, Places
  <1>9. QED
    BY <1>5, <1>6, <1>7, <1>8, MovedInv DEF Others

(* An upkeep, of the worker or of a broadcast task, finds a job due.       *)
LEMMA DueInv ==
  ASSUME WorkerInv, NEW kind, Due(kind), UNCHANGED <<config, loop, resched, starts>>
  PROVE  WorkerInv'
  <1>1. UNCHANGED <<served, concurrency, home, mainTask, phase, event, polling, task, resched, starts>>
    BY DEF config, loop
  <1>2. /\ JobInv'
        /\ queued' \in [Jobs -> Nat] /\ active' \in [Jobs -> Nat]
        /\ score' \in [Jobs -> {"none", "zero", "later"}]
        /\ enqueued' \subseteq Jobs /\ finished' \subseteq Jobs
    BY <1>1, DueJobs DEF WorkerInv
  <1>3. TypeOK' /\ SettingInv' /\ PhaseInv'
    BY <1>1, <1>2 DEF WorkerInv, TypeOK, SettingInv, PhaseInv
  <1>4. TaskInv'
    BY <1>1 DEF WorkerInv, TaskInv
  <1>5. ServeInv'
    BY <1>1, SameServing DEF WorkerInv, Serving
  <1>6. QED
    BY <1>2, <1>3, <1>4, <1>5 DEF WorkerInv

(* The tasks a done callback makes: one for each queue, where the worker   *)
(* is not told to stop.                                                    *)
LEMMA Replacements ==
  ASSUME WorkerInv, NEW kind \in Kinds
  PROVE  /\ NewTasks(kind) \in Seq(Task)
         /\ \A i \in 1..Len(NewTasks(kind)) :
              NewTasks(kind)[i].pc = "dequeue" /\ NewTasks(kind)[i].list \in served \X Kinds
         /\ \A q \in served, k \in Kinds :
              Cardinality(ServingIn(NewTasks(kind), <<q, k>>)) = IF k = kind THEN 1 ELSE 0
  <1> DEFINE lists == {<<q, kind>> : q \in served}
             slots == lists \X {1}
  <1>1. served \subseteq Queues /\ IsFiniteSet(served)
    BY SettingsAssumption, FS_Subset DEF WorkerInv, TypeOK, Setting
  <1>2. IsFiniteSet(lists)
    <2> DEFINE f == [q \in served |-> <<q, kind>>]
    <2>1. f \in Surjection(served, lists)
      BY DEF Surjection
    <2>2. QED
      BY <1>1, <2>1, FS_Surjection
  <1>3. slots \in SUBSET (Lists \X Nat) /\ IsFiniteSet(slots)
    <2>1. lists \subseteq Lists
      BY <1>1 DEF Lists
    <2>2. IsFiniteSet(slots)
      BY <1>2, FS_Singleton, FS_Product
    <2>3. QED
      BY <2>1, <2>2
  <1>4. \A x \in slots : x[1] \in served \X Kinds
    OBVIOUS
  <1>5. ASSUME NEW q \in served, NEW k \in Kinds
        PROVE  Cardinality({x \in slots : x[1] = <<q, k>>}) = IF k = kind THEN 1 ELSE 0
    <2>1. CASE k = kind
      <3>1. {x \in slots : x[1] = <<q, k>>} = {<<<<q, k>>, 1>>}
        BY <2>1
      <3>2. QED
        BY <2>1, <3>1, FS_Singleton
    <2>2. CASE k # kind
      <3>1. {x \in slots : x[1] = <<q, k>>} = {}
        BY <2>2
      <3>2. QED
        BY <2>2, <3>1, FS_EmptySet
    <2>3. QED
      BY <2>1, <2>2
  <1>6. NewTasks(kind) = TasksFor(slots)
    BY DEF NewTasks
  <1> HIDE DEF slots
  <1>7. /\ TasksFor(slots) \in Seq(Task) /\ Len(TasksFor(slots)) = Cardinality(slots)
        /\ \A i \in 1..Cardinality(slots) :
              /\ TasksFor(slots)[i].pc = "dequeue"
              /\ \E x \in slots : TasksFor(slots)[i].list = x[1]
        /\ \A l : Cardinality(ServingIn(TasksFor(slots), l)) = Cardinality({x \in slots : x[1] = l})
    BY <1>3, TasksForSlots
  <1>8. QED
    BY <1>4, <1>5, <1>6, <1>7


LEMMA DoneCallbackInv ==
  ASSUME WorkerInv, NEW t, DoneCallback(t)
  PROVE  WorkerInv'
  <1> DEFINE kind == task[t].list[2]
             new == IF event THEN <<>> ELSE NewTasks(kind)
             m == Len(new)
             n == Len(task)
  <1>1. /\ task \in Seq(Task) /\ t \in 1..n /\ DOMAIN task = 1..n /\ n \in Nat
        /\ task[t].list \in served \X Kinds /\ task[t].pc = "done"
    BY Tasks DEF WorkerInv, TypeOK, TaskInv, DoneCallback
  <1>2. /\ kind \in Kinds /\ task[t].list = <<task[t].list[1], kind>> /\ task[t].list[1] \in served
    BY <1>1
  <1>3. UNCHANGED <<served, concurrency, home, mainTask, phase, event, polling, resched, starts,
                    queued, active, score, enqueued, finished>>
    BY DEF DoneCallback, Others, config, redis
  <1>4. task' = Splice(task, t, new) /\ Len(task') <= MaxTasks
    BY DEF DoneCallback, Splice
  <1> HIDE DEF kind
  <1>5. /\ new \in Seq(Task)
        /\ \A i \in 1..m : new[i].pc = "dequeue" /\ new[i].list \in served \X Kinds
        /\ \A q \in served, k \in Kinds :
             Cardinality(ServingIn(new, <<q, k>>)) = IF k = kind /\ ~event THEN 1 ELSE 0
    <2>1. CASE event
      <3>1. new = <<>> /\ m = 0
        BY <2>1
      <3>2. \A l : ServingIn(new, l) = {}
        BY <3>1 DEF ServingIn
      <3>3. QED
        BY <2>1, <3>1, <3>2, FS_EmptySet, EmptySeq
    <2>2. CASE ~event
      <3>1. new = NewTasks(kind)
        BY <2>2
      <3>2. QED
        BY <1>2, <2>2, <3>1, Replacements
    <2>3. QED
      BY <2>1, <2>2
  <1> HIDE DEF new
  <1>6. /\ task' \in Seq(Task) /\ Len(task') = n - 1 + m /\ m \in Nat
        /\ \A i \in 1..Len(task') :
             task'[i] = IF i < t THEN task[i]
                        ELSE IF i < t + m THEN new[i - t + 1] ELSE task[i - m + 1]
    BY <1>1, <1>4, <1>5, Spliced
  <1>7. DOMAIN task' = 1..(n - 1 + m)
    BY <1>6, LenProperties
  <1> HIDE DEF m, n
  <1> DEFINE f == [i \in 1..(n - 1 + m) |-> IF i < t THEN i ELSE i - m + 1]
  <1>8. ASSUME NEW i \in DOMAIN task'
        PROVE  \/ task'[i].pc = "dequeue" /\ task'[i].list \in served \X Kinds /\ t <= i /\ i < t + m
               \/ /\ f[i] \in DOMAIN task /\ task'[i] = task[f[i]]
                  /\ ~(t <= i /\ i < t + m)
    <2>0. i \in 1..Len(task') /\ i \in 1..(n - 1 + m)
      BY <1>6, <1>7
    <2>1. CASE i < t
      <3>1. f[i] = i /\ i \in 1..n
        BY <1>1, <1>6, <2>0, <2>1
      <3>2. QED
        BY <1>1, <1>6, <2>0, <2>1, <3>1
    <2>2. CASE ~(i < t) /\ i < t + m
      <3>1. i - t + 1 \in 1..m
        BY <1>1, <1>6, <2>0, <2>2
      <3>2. task'[i] = new[i - t + 1]
        BY <1>6, <2>0, <2>2
      <3>3. task'[i].pc = "dequeue" /\ task'[i].list \in served \X Kinds
        BY <1>5, <3>1, <3>2
      <3>4. t <= i
        BY <1>1, <1>6, <2>0, <2>2
      <3>5. QED
        BY <2>2, <3>3, <3>4
    <2>3. CASE ~(i < t) /\ ~(i < t + m)
      <3>1. f[i] = i - m + 1 /\ i - m + 1 \in 1..n
        BY <1>1, <1>6, <2>0, <2>3
      <3>2. task'[i] = task[i - m + 1]
        BY <1>6, <2>0, <2>3
      <3>3. QED
        BY <1>1, <2>3, <3>1, <3>2
    <2>4. QED
      BY <2>1, <2>2, <2>3
  <1>9. \A i, k \in DOMAIN task' :
          ~(t <= i /\ i < t + m) /\ ~(t <= k /\ k < t + m) /\ f[i] = f[k] => i = k
    <2>1. t \in Int /\ m \in Nat /\ n \in Nat
      BY <1>1, <1>6
    <2>2. ASSUME NEW i \in 1..(n - 1 + m)
          PROVE  i \in Int /\ f[i] = IF i < t THEN i ELSE i - m + 1
      BY <2>1
    <2> HIDE DEF f
    <2>3. ASSUME NEW i \in 1..(n - 1 + m), NEW k \in 1..(n - 1 + m),
                 ~(t <= i /\ i < t + m), ~(t <= k /\ k < t + m), f[i] = f[k]
          PROVE  i = k
      <3>1. /\ i \in Int /\ k \in Int
            /\ f[i] = IF i < t THEN i ELSE i - m + 1
            /\ f[k] = IF k < t THEN k ELSE k - m + 1
        BY <2>2
      <3>2. /\ i < t \/ i >= t + m
            /\ k < t \/ k >= t + m
            /\ (IF i < t THEN i ELSE i - m + 1) = (IF k < t THEN k ELSE k - m + 1)
        <4>1. t \in Int /\ m \in Int /\ i \in Int /\ k \in Int
          BY <2>1, <3>1
        <4>2. ~(t <= i /\ i < t + m) /\ ~(t <= k /\ k < t + m)
          BY <2>3
        <4>3. (IF i < t THEN i ELSE i - m + 1) = (IF k < t THEN k ELSE k - m + 1)
          BY <2>3, <3>1, Zenon
        <4>4. (i < t \/ i >= t + m) /\ (k < t \/ k >= t + m)
          BY ONLY <4>1, <4>2
        <4>5. QED
          BY <4>3, <4>4
      <3>3. i = k
        <4>1. t \in Int /\ m \in Int /\ i \in Int /\ k \in Int
          BY <2>1, <3>1
        <4>2. CASE i < t /\ k < t
          BY ONLY <3>2, <4>1, <4>2
        <4>3. CASE i < t /\ k >= t + m
          BY ONLY <2>1, <3>2, <4>1, <4>3
        <4>4. CASE i >= t + m /\ k < t
          BY ONLY <2>1, <3>2, <4>1, <4>4
        <4>5. CASE i >= t + m /\ k >= t + m
          BY ONLY <2>1, <3>2, <4>1, <4>5
        <4>6. QED
          BY <3>2, <4>2, <4>3, <4>4, <4>5
      <3>4. QED
        BY <3>3
    <2>4. QED
      BY <1>7, <2>3
  <1> HIDE DEF f
  <1>10. TaskInv'
    <2> SUFFICES ASSUME NEW i \in DOMAIN task'
                 PROVE  /\ task'[i].list \in served \X Kinds
                        /\ task'[i].pc \in Busy => task'[i].job \in Jobs
      BY <1>3 DEF TaskInv
    <2>1. CASE task'[i].pc = "dequeue" /\ task'[i].list \in served \X Kinds
      BY <2>1 DEF Busy
    <2>2. CASE f[i] \in DOMAIN task /\ task'[i] = task[f[i]]
      BY <2>2 DEF WorkerInv, TaskInv
    <2>3. QED
      BY <1>8, <2>1, <2>2
  <1>11. JobInv'
    <2>1. \A i \in DOMAIN task' : task'[i].pc \in Busy =>
            /\ ~(t <= i /\ i < t + m)
            /\ f[i] \in DOMAIN task /\ task[f[i]].pc \in Busy /\ task[f[i]].job = task'[i].job
      BY <1>8 DEF Busy
    <2>2. \A i, k \in DOMAIN task' :
            task'[i].pc \in Busy /\ task'[k].pc \in Busy /\ f[i] = f[k] => i = k
      BY <1>9, <2>1
    <2>3. JobInv /\ UNCHANGED <<redis, resched>> /\ (phase' = "running" => phase = "running")
      BY <1>3 DEF WorkerInv, redis
    <2>4. QED
      BY <2>1, <2>2, <2>3, QuietJobs
  <1>12. ServeInv'
    <2> SUFFICES ASSUME phase = "running", NEW q \in served, NEW k \in Kinds
                 PROVE  LET c == Cardinality(Serving(<<q, k>>)') IN
                        /\ ~event => c >= concurrency[k]
                        /\ served = {q} => c <= concurrency[k]
      BY <1>3 DEF ServeInv
    <2> DEFINE l == <<q, k>>
               old == Cardinality(ServingIn(task, l))
    <2>1. /\ Serving(l) = ServingIn(task, l) /\ Serving(l)' = ServingIn(task', l)
          /\ old \in Nat
      BY <1>1, <1>6, <1>7, ServingFinite DEF Serving, ServingIn, n
    <2>2. Cardinality(Serving(l)') =
            old - (IF task[t].list = l THEN 1 ELSE 0) + (IF k = kind /\ ~event THEN 1 ELSE 0)
      <3>1. Cardinality(ServingIn(task', l)) =
              old - (IF task[t].list = l THEN 1 ELSE 0) + Cardinality(ServingIn(new, l))
        BY <1>1, <1>4, <1>5, SplicedServing DEF n
      <3>2. QED
        BY <1>5, <2>1, <3>1
    <2>3. /\ ~event => old >= concurrency[k]
          /\ served = {q} => old <= concurrency[k]
      BY <2>1 DEF WorkerInv, ServeInv
    <2>4. concurrency[k] \in Nat
      BY DEF WorkerInv, TypeOK, Setting
    <2>5. /\ task[t].list = l => k = kind
          /\ served = {q} /\ k = kind => task[t].list = l
      BY <1>2
    <2> HIDE DEF l, old
    <2>6. QED
      BY <2>1, <2>2, <2>3, <2>4, <2>5 DEF l
  <1>13. TypeOK'
    BY <1>3, <1>4, <1>6 DEF WorkerInv, TypeOK
  <1>14. SettingInv' /\ PhaseInv'
    BY <1>3 DEF WorkerInv, SettingInv, PhaseInv
  <1>15. QED
    BY <1>10, <1>11, <1>12, <1>13, <1>14 DEF WorkerInv

LEMMA TaskStepInv ==
  ASSUME WorkerInv, NEW t, TaskStep(t)
  PROVE  WorkerInv'
  <1>1. t \in DOMAIN task
    BY DEF TaskStep, Dequeue, DequeueTimeout, Launch, Returns, Publish, Retries, OwnUpkeep, Restored,
           DoneCallback, CancelIdle, CancelRun, CancelTransaction, RetryDisconnected, At, Cancelled
  <1>2. {"upkeep", "done", "restoring"} \subseteq Pcs \ Busy
    BY DEF Pcs, Busy
  <1>3. {"run", "finish", "retry", "start"} \subseteq Pcs \cap Busy
    BY DEF Pcs, Busy
  <1>4. CASE Dequeue(t)
    BY <1>4, DequeueInv
  <1>5. CASE DequeueTimeout(t)
    BY <1>1, <1>2, <1>5, GoInv DEF DequeueTimeout, Leave
  <1>6. CASE Launch(t)
    BY <1>1, <1>3, <1>6, GoInv DEF Launch, At, Busy
  <1>7. CASE Returns(t)
    <2>1. PICK pc \in {"finish", "retry"} : Go(t, pc)
      BY <1>7 DEF Returns
    <2>2. QED
      BY <1>1, <1>3, <1>7, <2>1, GoInv DEF Returns, At, Busy
  <1>8. CASE Publish(t)
    <2>1. task[t].pc \in Busy /\ FinishesJob(task[t].job) /\ UNCHANGED Others
      BY <1>8 DEF Publish, At, Busy, FinishesJob
    <2>2. QED
      BY <1>1, <1>2, <1>8, <2>1, FinishInv DEF Publish, Leave
  <1>9. CASE Retries(t)
    <2>1. task[t].pc \in Busy /\ JobRetry(task[t].job) /\ UNCHANGED <<Others, finished>>
      BY <1>9 DEF Retries, At, Busy, JobRetry, Retry
    <2>2. QED
      BY <1>1, <1>2, <1>9, <2>1, FinishInv DEF Retries, Leave
  <1>10. CASE OwnUpkeep(t)
    <2>1. CASE Due("own") /\ UNCHANGED task
      BY <1>10, <2>1, DueInv DEF OwnUpkeep, Others, loop
    <2>2. CASE (\E pc \in {"done", "restoring"} : Go(t, pc)) /\ UNCHANGED redis
      <3>1. PICK pc \in {"done", "restoring"} : Go(t, pc)
        BY <2>2
      <3>2. QED
        BY <1>1, <1>2, <1>10, <2>2, <3>1, GoInv DEF OwnUpkeep
    <2>3. QED
      BY <1>10, <2>1, <2>2 DEF OwnUpkeep
  <1>11. CASE Restored(t)
    BY <1>1, <1>2, <1>11, GoInv DEF Restored
  <1>12. CASE DoneCallback(t)
    BY <1>12, DoneCallbackInv
  <1>13. CASE CancelIdle(t)
    BY <1>1, <1>2, <1>13, GoInv DEF CancelIdle
  <1>14. CASE CancelRun(t)
    <2>1. task[t].pc \in Busy /\ UNCHANGED <<Others, redis>>
      BY <1>14 DEF CancelRun, Busy
    <2>2. QED
      BY <1>1, <1>2, <1>3, <1>14, <2>1, GoInv DEF CancelRun
  <1>15. CASE CancelTransaction(t)
    <2>1. task[t].pc \in Busy /\ UNCHANGED Others
      BY <1>15 DEF CancelTransaction, Busy
    <2>2. PICK pc \in {"upkeep", "done"} : End(t, pc)
      BY <1>15 DEF CancelTransaction
    <2>3. CASE UNCHANGED redis
      BY <1>1, <1>2, <2>1, <2>2, <2>3, GoInv
    <2>4. CASE JobRetry(task[t].job)
      BY <1>1, <1>2, <2>1, <2>2, <2>4, FinishInv DEF JobRetry, Retry
    <2>5. CASE FinishesJob(task[t].job)
      BY <1>1, <1>2, <2>1, <2>2, <2>5, FinishInv
    <2>6. QED
      BY <1>15, <2>3, <2>4, <2>5 DEF CancelTransaction, FinishesJob
  <1>16. CASE RetryDisconnected(t)
    BY <1>1, <1>2, <1>16, GoInv DEF RetryDisconnected, Leave
  <1>17. QED
    BY <1>4, <1>5, <1>6, <1>7, <1>8, <1>9, <1>10, <1>11, <1>12, <1>13, <1>14, <1>15, <1>16 DEF TaskStep


-----------------------------------------------------------------------------
(***************************************************************************)
(* The steps of start, stop and the loop                                   *)
(***************************************************************************)
(* The slots of a worker's start: as many for a list as the concurrency    *)
(* of its kind says.                                                       *)
LEMMA SlotsCount ==
  ASSUME NEW queues \in SUBSET Queues, NEW limits \in [Kinds -> Nat]
  PROVE  /\ Slots(queues, limits) \in SUBSET (Lists \X Nat)
         /\ IsFiniteSet(Slots(queues, limits))
         /\ \A x \in Slots(queues, limits) : x[1] \in queues \X Kinds
         /\ \A q \in queues, k \in Kinds :
              Cardinality({x \in Slots(queues, limits) : x[1] = <<q, k>>}) = limits[k]
  <1> DEFINE lists == queues \X Kinds
             f == [l \in lists |-> {l} \X (1 .. limits[l[2]])]
             groups == {{l} \X (1 .. limits[l[2]]) : l \in lists}
  <1>1. IsFiniteSet(lists)
    <2>1. IsFiniteSet(queues)
      BY SettingsAssumption, FS_Subset
    <2>2. IsFiniteSet({"shared"}) /\ IsFiniteSet({"own"}) /\ Kinds = {"shared"} \cup {"own"}
      BY FS_Singleton DEF Kinds
    <2>3. IsFiniteSet(Kinds)
      BY <2>2, FS_Union
    <2>4. QED
      BY <2>1, <2>3, FS_Product
  <1>2. \A l \in lists : limits[l[2]] \in Nat
    OBVIOUS
  <1>3. IsFiniteSet(groups)
    <2>1. f \in Surjection(lists, groups)
      BY DEF Surjection
    <2>2. QED
      BY <1>1, <2>1, FS_Surjection
  <1>4. ASSUME NEW l \in lists
        PROVE  /\ IsFiniteSet({l} \X (1 .. limits[l[2]]))
               /\ Cardinality({l} \X (1 .. limits[l[2]])) = limits[l[2]]
    <2>1. IsFiniteSet(1 .. limits[l[2]]) /\ Cardinality(1 .. limits[l[2]]) = limits[l[2]]
      BY <1>2, FS_Interval
    <2>2. IsFiniteSet({l}) /\ Cardinality({l}) = 1
      BY FS_Singleton
    <2>3. /\ IsFiniteSet({l} \X (1 .. limits[l[2]]))
          /\ Cardinality({l} \X (1 .. limits[l[2]])) = Cardinality({l}) * Cardinality(1 .. limits[l[2]])
      BY <2>1, <2>2, FS_Product
    <2>4. QED
      BY <1>2, <2>1, <2>2, <2>3
  <1>5. Slots(queues, limits) = UNION groups
    BY DEF Slots
  <1>6. IsFiniteSet(UNION groups)
    BY <1>3, <1>4, FS_UNION
  <1>7. \A x \in UNION groups : x[1] \in lists /\ x[2] \in Nat /\ x = <<x[1], x[2]>>
    BY <1>2
  <1>8. lists \subseteq Lists
    BY DEF Lists
  <1>9. ASSUME NEW q \in queues, NEW k \in Kinds
        PROVE  {x \in UNION groups : x[1] = <<q, k>>} = {<<q, k>>} \X (1 .. limits[k])
    OBVIOUS
  <1>10. ASSUME NEW q \in queues, NEW k \in Kinds
         PROVE  Cardinality({x \in UNION groups : x[1] = <<q, k>>}) = limits[k]
    <2>1. <<q, k>> \in lists /\ <<q, k>>[2] = k
      OBVIOUS
    <2>2. QED
      BY <1>4, <1>9, <2>1
  <1> HIDE DEF groups, f
  <1>11. QED
    BY <1>5, <1>6, <1>7, <1>8, <1>10

LEMMA StartInv ==
  ASSUME WorkerInv, Start
  PROVE  WorkerInv'
  <1> DEFINE slots == Slots(served, concurrency)
  <1>1. /\ phase = "new" /\ phase' = "running" /\ polling' = TRUE /\ task' = TasksFor(slots)
        /\ UNCHANGED <<served, concurrency, home, mainTask, event, resched, queued, active, score,
                       enqueued, finished, starts>>
    BY DEF Start, config, redis
  <1>2. served \in SUBSET Queues /\ concurrency \in [Kinds -> Nat]
    BY DEF WorkerInv, TypeOK, Setting
  <1>3. /\ slots \in SUBSET (Lists \X Nat) /\ IsFiniteSet(slots)
        /\ \A x \in slots : x[1] \in served \X Kinds
        /\ \A q \in served, k \in Kinds : Cardinality({x \in slots : x[1] = <<q, k>>}) = concurrency[k]
    BY <1>2, SlotsCount
  <1>4. Cardinality(slots) <= MaxTasks
    BY SettingsAssumption DEF WorkerInv, SettingInv
  <1> HIDE DEF slots
  <1>5. /\ task' \in Seq(Task) /\ Len(task') = Cardinality(slots) /\ Cardinality(slots) \in Nat
        /\ \A i \in 1..Len(task') : task'[i].pc = "dequeue" /\ task'[i].list \in served \X Kinds
        /\ \A l : Cardinality(ServingIn(task', l)) = Cardinality({x \in slots : x[1] = l})
    <2>1. /\ TasksFor(slots) \in Seq(Task)
          /\ Len(TasksFor(slots)) = Cardinality(slots) /\ Cardinality(slots) \in Nat
          /\ \A i \in 1..Cardinality(slots) :
               /\ TasksFor(slots)[i].pc = "dequeue"
               /\ \E x \in slots : TasksFor(slots)[i].list = x[1]
          /\ \A l : Cardinality(ServingIn(TasksFor(slots), l)) = Cardinality({x \in slots : x[1] = l})
      BY <1>3, TasksForSlots
    <2>2. QED
      BY <1>1, <1>3, <2>1
  <1>6. DOMAIN task' = 1..Len(task')
    BY <1>5, LenProperties
  <1>7. TypeOK' /\ SettingInv'
    BY <1>1, <1>4, <1>5 DEF WorkerInv, TypeOK, SettingInv
  <1>8. TaskInv' /\ PhaseInv'
    BY <1>1, <1>5, <1>6 DEF WorkerInv, TaskInv, PhaseInv, Busy
  <1>9. ServeInv'
    <2>1. \A q \in served, k \in Kinds :
            Cardinality(Serving(<<q, k>>)') = concurrency[k] /\ concurrency[k] \in Nat
      <3>1. \A l : Serving(l)' = ServingIn(task', l)
        BY <1>6 DEF Serving, ServingIn
      <3>2. \A q \in served, k \in Kinds :
              Cardinality(ServingIn(task', <<q, k>>)) = concurrency[k] /\ concurrency[k] \in Nat
        BY <1>2, <1>3, <1>5
      <3>3. QED
        BY <3>1, <3>2
    <2>2. ASSUME NEW q \in served', NEW k \in Kinds
          PROVE  LET n == Cardinality(Serving(<<q, k>>)') IN n >= concurrency'[k] /\ n <= concurrency'[k]
      BY <1>1, <2>1
    <2>3. QED
      BY <2>2 DEF ServeInv
  <1>10. JobInv'
    <2> SUFFICES ASSUME NEW j \in Jobs PROVE (KeptOf(j) /\ RunningOf(j) /\ OnceOf(j))'
      BY DEF JobInv
    <2>1. KeptOf(j) /\ OnceOf(j)
      BY DEF WorkerInv, JobInv
    <2>2. \A i \in DOMAIN task' : ~Working(i, j)'
      BY <1>5, <1>6 DEF Working
    <2>3. QED
      BY <1>1, <2>1, <2>2 DEF KeptOf, Kept, RunningOf, OnceOf
  <1>11. QED
    BY <1>7, <1>8, <1>9, <1>10 DEF WorkerInv

(* Only start moves on, or the upkeep ends.                                *)
LEMMA MainMoves ==
  ASSUME WorkerInv, UNCHANGED <<config, task, resched, redis, starts>>,
         phase' \in Phases, event' \in BOOLEAN, polling' \in BOOLEAN,
         event => event', phase' \in {"new", "running", "gone"} => phase = phase'
  PROVE  WorkerInv'
  <1>1. UNCHANGED <<served, concurrency, home, mainTask, task, resched, queued, active, score,
                    enqueued, finished, starts>>
    BY DEF config, redis
  <1>2. TypeOK' /\ SettingInv' /\ PhaseInv'
    BY <1>1 DEF WorkerInv, TypeOK, SettingInv, PhaseInv, Phases
  <1>3. TaskInv'
    BY <1>1 DEF WorkerInv, TaskInv
  <1>4. JobInv'
    <2> DEFINE f == [t \in DOMAIN task |-> t]
    <2>1. /\ \A t \in DOMAIN task' : task'[t].pc \in Busy =>
               f[t] \in DOMAIN task /\ task[f[t]].pc \in Busy /\ task[f[t]].job = task'[t].job
          /\ \A t, u \in DOMAIN task' : task'[t].pc \in Busy /\ task'[u].pc \in Busy /\ f[t] = f[u] => t = u
      BY <1>1
    <2> HIDE DEF f
    <2>2. QED
      BY <1>1, <2>1, QuietJobs DEF WorkerInv
  <1>5. ServeInv'
    BY <1>1, SameServing DEF WorkerInv, Serving
  <1>6. QED
    BY <1>2, <1>3, <1>4, <1>5 DEF WorkerInv

(* What a step leaves alone that changes neither the settings nor, while   *)
(* the worker runs, its tasks.                                             *)
LEMMA JobsMove ==
  ASSUME WorkerInv, UNCHANGED <<served, concurrency, home, mainTask, phase, event, polling, task, starts>>,
         queued' \in [Jobs -> Nat], active' \in [Jobs -> Nat],
         score' \in [Jobs -> {"none", "zero", "later"}],
         enqueued' \subseteq Jobs, finished' = finished, resched' \in [Jobs -> Stages],
         phase \in {"new", "running", "gone"} => resched' = resched,
         \A j \in Jobs : (KeptOf(j) /\ RunningOf(j) /\ OnceOf(j))'
  PROVE  WorkerInv'
  <1>1. TypeOK' /\ SettingInv' /\ PhaseInv' /\ JobInv'
    BY DEF WorkerInv, TypeOK, SettingInv, PhaseInv, JobInv, Stages
  <1>2. TaskInv'
    BY DEF WorkerInv, TaskInv
  <1>3. ServeInv'
    BY SameServing DEF WorkerInv, Serving
  <1>4. QED
    BY <1>1, <1>2, <1>3 DEF WorkerInv

LEMMA EnqueueInv ==
  ASSUME WorkerInv, NEW k \in Jobs, Enqueue(k)
  PROVE  WorkerInv'
  <1>1. /\ k \notin enqueued /\ queued' = Push(queued, k) /\ score' = [score EXCEPT ![k] = "zero"]
        /\ enqueued' = enqueued \cup {k}
        /\ UNCHANGED <<served, concurrency, home, mainTask, phase, event, polling, task, starts,
                       resched, active, finished>>
    BY DEF Enqueue, config, loop
  <1>2. /\ queued \in [Jobs -> Nat] /\ active \in [Jobs -> Nat]
        /\ score \in [Jobs -> {"none", "zero", "later"}]
        /\ resched \in [Jobs -> Stages] /\ enqueued \subseteq Jobs
    BY Places DEF WorkerInv
  <1>3. /\ queued' \in [Jobs -> Nat] /\ active' \in [Jobs -> Nat] /\ resched' \in [Jobs -> Stages]
        /\ score' \in [Jobs -> {"none", "zero", "later"}] /\ enqueued' \subseteq Jobs
    BY <1>1, <1>2 DEF Push
  <1>4. ASSUME NEW j \in Jobs PROVE (KeptOf(j) /\ RunningOf(j) /\ OnceOf(j))'
    <2>1. KeptOf(j) /\ RunningOf(j) /\ OnceOf(j)
      BY DEF WorkerInv, JobInv
    <2>2. \A u \in DOMAIN task : Working(u, j)' <=> Working(u, j)
      BY <1>1 DEF Working
    <2>3. CASE j = k
      <3>1. queued'[j] = queued[j] + 1 /\ queued[j] \in Nat /\ score'[j] = "zero"
        BY <1>1, <1>2, <2>3 DEF Push
      <3>2. KeptOf(j)' /\ RunningOf(j)'
        BY <3>1 DEF KeptOf, RunningOf, Kept
      <3>3. OnceOf(j)'
        BY <1>1, <2>1, <2>2, <2>3, <3>1 DEF OnceOf
      <3>4. QED
        BY <3>2, <3>3
    <2>4. CASE j # k
      <3>1. queued'[j] = queued[j] /\ score'[j] = score[j] /\ (j \in enqueued' <=> j \in enqueued)
        BY <1>1, <1>2, <2>4 DEF Push
      <3>2. KeptOf(j)' /\ RunningOf(j)'
        BY <1>1, <2>1, <2>2, <3>1 DEF KeptOf, RunningOf, Kept
      <3>3. OnceOf(j)'
        BY <1>1, <2>1, <2>2, <3>1 DEF OnceOf
      <3>4. QED
        BY <3>2, <3>3
    <2>5. QED
      BY <2>3, <2>4
  <1>5. QED
    BY <1>1, <1>3, <1>4, JobsMove


(* The first transaction of _reschedule, and the second.                   *)
LEMMA RescheduleInv ==
  ASSUME WorkerInv, NEW k \in Jobs, RescheduleFinish(k) \/ RescheduleAdd(k)
  PROVE  WorkerInv'
  <1>1. /\ phase \notin {"new", "running", "gone"}
        /\ UNCHANGED <<served, concurrency, home, mainTask, phase, event, polling, task, starts,
                       enqueued, finished>>
    BY DEF WorkerInv, PhaseInv, RescheduleFinish, RescheduleAdd, Finish, config, loop
  <1>2. /\ queued \in [Jobs -> Nat] /\ active \in [Jobs -> Nat]
        /\ score \in [Jobs -> {"none", "zero", "later"}]
        /\ resched \in [Jobs -> Stages] /\ enqueued \subseteq Jobs
    BY Places DEF WorkerInv
  <1>3. /\ active' = LRem1(active, k)
        /\ \/ /\ queued' = queued /\ score' = [score EXCEPT ![k] = "none"]
              /\ resched' = [resched EXCEPT ![k] = "second"]
           \/ /\ queued' = LRem1(queued, k) /\ score' = [score EXCEPT ![k] = "later"]
              /\ resched' = [resched EXCEPT ![k] = "done"]
    BY DEF RescheduleFinish, RescheduleAdd, Finish
  <1>4. /\ queued' \in [Jobs -> Nat] /\ active' \in [Jobs -> Nat] /\ resched' \in [Jobs -> Stages]
        /\ score' \in [Jobs -> {"none", "zero", "later"}] /\ enqueued' \subseteq Jobs
    BY <1>1, <1>2, <1>3 DEF LRem1, Stages
  <1>5. ASSUME NEW j \in Jobs PROVE (KeptOf(j) /\ RunningOf(j) /\ OnceOf(j))'
    <2>1. KeptOf(j) /\ RunningOf(j) /\ OnceOf(j)
      BY DEF WorkerInv, JobInv
    <2>2. RunningOf(j)'
      BY <1>1 DEF RunningOf
    <2>3. CASE j = k
      <3>1. resched'[j] = "second" \/ (resched'[j] = "done" /\ score'[j] = "later")
        BY <1>2, <1>3, <2>3
      <3>2. QED
        BY <2>2, <3>1 DEF KeptOf, Kept, OnceOf
    <2>4. CASE j # k
      <3>1. /\ queued'[j] = queued[j] /\ score'[j] = score[j] /\ active'[j] = active[j]
            /\ resched'[j] = resched[j]
        BY <1>2, <1>3, <2>4 DEF LRem1
      <3>2. \A u \in DOMAIN task : Working(u, j)' <=> Working(u, j)
        BY <1>1 DEF Working
      <3>3. KeptOf(j)'
        BY <1>1, <2>1, <3>1 DEF KeptOf, Kept
      <3>4. OnceOf(j)'
        BY <1>1, <2>1, <3>1, <3>2 DEF OnceOf
      <3>5. QED
        BY <2>2, <3>3, <3>4
    <2>5. QED
      BY <2>3, <2>4
  <1>6. QED
    BY <1>1, <1>4, <1>5, JobsMove

(* reschedule_jobs starts a _reschedule for the jobs at work; each of them *)
(* is kept at this moment.                                                 *)
LEMMA RescheduleJobsInv ==
  ASSUME WorkerInv, RescheduleJobs
  PROVE  WorkerInv'
  <1>1. /\ phase = "running" /\ phase' = "shutdown"
        /\ resched' = [j \in Jobs |-> IF InContexts(j) THEN "first" ELSE resched[j]]
        /\ UNCHANGED <<served, concurrency, home, mainTask, event, polling, task, starts,
                       queued, active, score, enqueued, finished>>
    BY DEF RescheduleJobs, config, redis
  <1>2. resched' \in [Jobs -> Stages] /\ \A j \in Jobs : resched[j] \notin {"first", "second"}
    BY <1>1, Places DEF WorkerInv, PhaseInv, Stages
  <1>3. TypeOK' /\ SettingInv' /\ PhaseInv' /\ ServeInv'
    BY <1>1, <1>2 DEF WorkerInv, TypeOK, SettingInv, PhaseInv, ServeInv, Stages
  <1>4. TaskInv'
    BY <1>1 DEF WorkerInv, TaskInv
  <1>5. ASSUME NEW j \in Jobs PROVE (KeptOf(j) /\ RunningOf(j) /\ OnceOf(j))'
    <2>1. KeptOf(j) /\ RunningOf(j) /\ OnceOf(j)
      BY DEF WorkerInv, JobInv
    <2>2. RunningOf(j)'
      BY <1>1 DEF RunningOf
    <2>3. Kept(j)' <=> Kept(j)
      BY <1>1 DEF Kept
    <2>4. CASE InContexts(j)
      <3>1. Kept(j)
        BY <1>1, <2>1, <2>4 DEF InContexts, RunningOf, Working
      <3>2. resched'[j] = "first"
        BY <1>1, <2>4
      <3>3. QED
        BY <2>2, <2>3, <3>1, <3>2 DEF KeptOf, OnceOf
    <2>5. CASE ~InContexts(j)
      <3>1. resched'[j] = resched[j]
        BY <1>1, <2>5
      <3>2. \A u \in DOMAIN task : Working(u, j)' <=> Working(u, j)
        BY <1>1 DEF Working
      <3>3. KeptOf(j)'
        BY <1>1, <2>1, <2>3, <3>1 DEF KeptOf
      <3>4. OnceOf(j)'
        BY <1>1, <2>1, <3>1, <3>2 DEF OnceOf
      <3>5. QED
        BY <2>2, <3>3, <3>4
    <2>6. QED
      BY <2>4, <2>5
  <1>6. QED
    BY <1>3, <1>4, <1>5 DEF WorkerInv, JobInv

LEMMA StopInv ==
  ASSUME WorkerInv, Stop
  PROVE  WorkerInv'
  <1>1. /\ phase' = "stop"
        /\ task' = [t \in DOMAIN task |-> [task[t] EXCEPT !.cancelled = task[t].pc # "done"]]
        /\ UNCHANGED <<served, concurrency, home, mainTask, event, polling, starts, resched,
                       queued, active, score, enqueued, finished>>
    BY DEF Stop, config, redis
  <1>2. /\ DOMAIN task = 1..Len(task) /\ Len(task) \in Nat /\ Len(task) <= MaxTasks
        /\ \A t \in DOMAIN task : task[t] \in Task
    BY Tasks DEF WorkerInv, TypeOK
  <1>3. ASSUME NEW t \in DOMAIN task
        PROVE  /\ task'[t] \in Task /\ task'[t].list = task[t].list
               /\ task'[t].pc = task[t].pc /\ task'[t].job = task[t].job
    BY <1>1, <1>2 DEF Task
  <1>4. task' \in [1..Len(task) -> Task] /\ DOMAIN task' = DOMAIN task
    BY <1>1, <1>2, <1>3
  <1>5. task' \in Seq(Task) /\ Len(task') = Len(task)
    BY <1>2, <1>4, FunctionSeq
  <1>6. TypeOK' /\ SettingInv' /\ PhaseInv' /\ ServeInv'
    BY <1>1, <1>2, <1>5 DEF WorkerInv, TypeOK, SettingInv, PhaseInv, ServeInv
  <1>7. TaskInv'
    BY <1>1, <1>3, <1>4 DEF WorkerInv, TaskInv
  <1>8. JobInv'
    <2> DEFINE f == [t \in DOMAIN task |-> t]
    <2>1. /\ \A t \in DOMAIN task' : task'[t].pc \in Busy =>
               f[t] \in DOMAIN task /\ task[f[t]].pc \in Busy /\ task[f[t]].job = task'[t].job
          /\ \A t, u \in DOMAIN task' : task'[t].pc \in Busy /\ task'[u].pc \in Busy /\ f[t] = f[u] => t = u
      BY <1>3, <1>4
    <2>2. JobInv /\ UNCHANGED <<redis, resched>> /\ phase' # "running"
      BY <1>1 DEF WorkerInv, redis
    <2> HIDE DEF f
    <2>3. QED
      BY <2>1, <2>2, QuietJobs
  <1>9. QED
    BY <1>6, <1>7, <1>8 DEF WorkerInv

(* With the loop every _reschedule ends, in the window or before it.       *)
LEMMA LoopEndsInv ==
  ASSUME WorkerInv, LoopEnds
  PROVE  WorkerInv'
  <1>1. /\ phase' = "gone" /\ task' = <<>> /\ polling' = FALSE
        /\ resched' = [j \in Jobs |-> CASE resched[j] = "first" -> "dropped"
                                        [] resched[j] = "second" -> "cut"
                                        [] OTHER -> resched[j]]
        /\ UNCHANGED <<served, concurrency, home, mainTask, event, starts,
                       queued, active, score, enqueued, finished>>
    BY DEF LoopEnds, config, redis
  <1>2. resched \in [Jobs -> Stages]
    BY Places DEF WorkerInv
  <1>3. ASSUME NEW j \in Jobs
        PROVE  /\ resched'[j] \in Stages /\ resched'[j] \notin {"first", "second"}
               /\ resched[j] \in {"second", "cut"} => resched'[j] = "cut"
               /\ resched[j] # "none" => resched'[j] # "none"
    BY <1>1, <1>2 DEF Stages
  <1>4. task' \in Seq(Task) /\ Len(task') = 0 /\ DOMAIN task' = {}
    BY <1>1, EmptySeq
  <1>5. resched' \in [Jobs -> Stages]
    BY <1>1, <1>3
  <1>6. TypeOK'
    <2>1. Len(task') <= MaxTasks
      BY <1>4, BoundsAssumption
    <2>2. QED
      BY <1>1, <1>4, <1>5, <2>1 DEF WorkerInv, TypeOK, Stages
  <1>7. SettingInv' /\ PhaseInv' /\ ServeInv' /\ TaskInv'
    BY <1>1, <1>3, <1>4 DEF WorkerInv, SettingInv, PhaseInv, ServeInv, TaskInv
  <1>8. ASSUME NEW j \in Jobs PROVE (KeptOf(j) /\ RunningOf(j) /\ OnceOf(j))'
    <2>1. KeptOf(j) /\ OnceOf(j)
      BY DEF WorkerInv, JobInv
    <2>2. RunningOf(j)'
      BY <1>1 DEF RunningOf
    <2>3. KeptOf(j)'
      BY <1>1, <1>3, <2>1 DEF KeptOf, Kept
    <2>4. OnceOf(j)'
      BY <1>1, <1>3, <1>4, <2>1 DEF OnceOf
    <2>5. QED
      BY <2>2, <2>3, <2>4
  <1>9. QED
    BY <1>6, <1>7, <1>8 DEF WorkerInv, JobInv

LEMMA RestartInv ==
  ASSUME WorkerInv, Restart
  PROVE  WorkerInv'
  <1>1. /\ phase = "gone" /\ phase' = "new" /\ event' = FALSE /\ starts < MaxStarts
        /\ starts' = starts + 1
        /\ UNCHANGED <<served, concurrency, home, mainTask, polling, task, resched,
                       queued, active, score, enqueued, finished>>
    BY DEF Restart, config, redis
  <1>2. TypeOK' /\ SettingInv' /\ PhaseInv' /\ ServeInv'
    <2>1. starts \in 1 .. MaxStarts
      BY DEF WorkerInv, TypeOK
    <2>2. starts' \in 1 .. MaxStarts
      BY <1>1, <2>1, BoundsAssumption
    <2>3. QED
      BY <1>1, <2>2 DEF WorkerInv, TypeOK, SettingInv, PhaseInv, ServeInv
  <1>3. TaskInv'
    BY <1>1 DEF WorkerInv, TaskInv
  <1>4. JobInv'
    <2> DEFINE f == [t \in DOMAIN task |-> t]
    <2>1. /\ \A t \in DOMAIN task' : task'[t].pc \in Busy =>
               f[t] \in DOMAIN task /\ task[f[t]].pc \in Busy /\ task[f[t]].job = task'[t].job
          /\ \A t, u \in DOMAIN task' : task'[t].pc \in Busy /\ task'[u].pc \in Busy /\ f[t] = f[u] => t = u
      BY <1>1
    <2>2. JobInv /\ UNCHANGED <<redis, resched>> /\ phase' # "running"
      BY <1>1 DEF WorkerInv, redis
    <2> HIDE DEF f
    <2>3. QED
      BY <2>1, <2>2, QuietJobs
  <1>5. QED
    BY <1>2, <1>3, <1>4 DEF WorkerInv

-----------------------------------------------------------------------------
(***************************************************************************)
(* The invariant                                                           *)
(***************************************************************************)
LEMMA InitInv == Init => WorkerInv
  <1> SUFFICES ASSUME Init PROVE WorkerInv
    OBVIOUS
  <1>1. PICK s \in Settings : served = s.served /\ concurrency = s.concurrency
    BY DEF Init
  <1>2. s \in Setting /\ served \in SUBSET Queues \ {{}} /\ concurrency \in [Kinds -> Nat]
    BY <1>1, SettingsAssumption DEF Setting
  <1>3. task = <<>> /\ task \in Seq(Task) /\ Len(task) = 0 /\ DOMAIN task = {}
    BY EmptySeq DEF Init
  <1>4. home \in [Jobs -> served \X Kinds]
    BY DEF Init
  <1>5. TypeOK
    <2>1. [served |-> served, concurrency |-> concurrency] \in Setting
      BY <1>2 DEF Setting
    <2>2. Len(task) <= MaxTasks /\ starts \in 1 .. MaxStarts
      BY <1>3, BoundsAssumption DEF Init
    <2>3. QED
      BY <1>3, <1>4, <2>1, <2>2 DEF Init, TypeOK
  <1>6. SettingInv /\ TaskInv /\ PhaseInv /\ ServeInv
    BY <1>1, <1>3 DEF Init, SettingInv, TaskInv, PhaseInv, ServeInv
  <1>7. JobInv
    BY <1>3 DEF Init, JobInv, KeptOf, RunningOf, OnceOf
  <1>8. QED
    BY <1>5, <1>6, <1>7 DEF WorkerInv

LEMMA NextInv ==
  ASSUME WorkerInv, [Next]_vars
  PROVE  WorkerInv'
  <1>0. phase \in Phases /\ event \in BOOLEAN /\ polling \in BOOLEAN
    BY DEF WorkerInv, TypeOK, Phases
  <1>1. CASE MainStep
    <2>1. CASE Start
      BY <2>1, StartInv
    <2>2. CASE RescheduleJobs
      BY <2>2, RescheduleJobsInv
    <2>3. CASE Stop
      BY <2>3, StopInv
    <2>4. CASE StartRaises
      BY <1>0, <2>4, MainMoves DEF StartRaises, Phases
    <2>5. CASE ShutdownRaises \/ StopCutOff \/ CloseConnections \/ Gather
      <3>1. /\ phase' \in {"ended", "closed"}
            /\ UNCHANGED <<config, event, polling, task, resched, redis, starts>>
        BY <2>5 DEF ShutdownRaises, StopCutOff, CloseConnections, Gather
      <3>2. QED
        BY <1>0, <3>1, MainMoves DEF Phases
    <2>6. QED
      BY <1>1, <2>1, <2>2, <2>3, <2>4, <2>5 DEF MainStep
  <1>2. CASE Signal
    BY <1>0, <1>2, MainMoves DEF Signal
  <1>3. CASE PollSchedule
    BY <1>3, DueInv DEF PollSchedule
  <1>4. CASE PollEnds
    BY <1>0, <1>4, MainMoves DEF PollEnds
  <1>5. CASE LoopEnds
    BY <1>5, LoopEndsInv
  <1>6. CASE Restart
    BY <1>6, RestartInv
  <1>7. CASE \E t \in 1 .. MaxTasks : TaskStep(t)
    BY <1>7, TaskStepInv
  <1>8. CASE \E j \in Jobs : Enqueue(j) \/ RescheduleFinish(j) \/ RescheduleAdd(j)
    BY <1>8, EnqueueInv, RescheduleInv
  <1>9. CASE UNCHANGED vars
    <2>1. UNCHANGED <<config, loop, resched, redis, starts>>
      BY <1>9 DEF vars
    <2>2. UNCHANGED <<phase, event, polling, task>>
      BY <2>1 DEF loop
    <2>3. QED
      BY <1>0, <2>1, <2>2, MainMoves
  <1>10. QED
    BY <1>1, <1>2, <1>3, <1>4, <1>5, <1>6, <1>7, <1>8, <1>9 DEF Next

LEMMA WorkerInvariant == Spec => []WorkerInv
  <1>1. Init => WorkerInv
    BY InitInv
  <1>2. WorkerInv /\ [Next]_vars => WorkerInv'
    BY NextInv
  <1>3. QED
    BY <1>1, <1>2, PTL DEF Spec

(* However the worker is stopped, cancelled or killed, a job without a     *)
(* result is in the queue but for the window between the two transactions  *)
(* of _reschedule.                                                         *)
THEOREM JobsKept == Spec => []KeptUnlessCut
  <1>1. WorkerInv => KeptUnlessCut
    BY DEF WorkerInv, JobInv, KeptOf, Kept, KeptUnlessCut
  <1>2. QED
    BY <1>1, WorkerInvariant, PTL

(* Two tasks are at one job, or a job with a result is to be run again,    *)
(* only after a shutdown rescheduled it.                                   *)
THEOREM RepeatsOnlyAtShutdown == Spec => []OnlyShutdownRepeats
  <1>1. WorkerInv => OnlyShutdownRepeats
    BY DEF WorkerInv, JobInv, OnceOf, OnlyShutdownRepeats
  <1>2. QED
    BY <1>1, WorkerInvariant, PTL

(* The done callbacks keep as many tasks for every queue as the settings   *)
(* ask for, and no more where the worker has one queue.                    *)
THEOREM QueuesServed == Spec => []EveryQueueIsServed
  <1>1. WorkerInv => EveryQueueIsServed
    BY DEF WorkerInv, ServeInv, EveryQueueIsServed
  <1>2. QED
    BY <1>1, WorkerInvariant, PTL
=============================================================================
