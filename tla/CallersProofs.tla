--------------------------- MODULE CallersProofs ---------------------------
(***************************************************************************)
(* Theorems about those who call a task queue, for any calls, waits, tasks *)
(* and keys.  JobListen: map returns after a result of each of its jobs,   *)
(* and wait_for_jobs counts no job twice.  OpSemaphore: no slot of a call  *)
(* leaks, and the calls do not block one another for ever.                 *)
(***************************************************************************)
EXTENDS JobListen, OpSemaphore, FiniteSetTheorems, SequenceTheorems, TLAPS

(***************************************************************************)
(* The invariant of the callers of map.                                    *)
(***************************************************************************)
Got == {<<>>} \cup UNION {[K -> Statuses] : K \in SUBSET Keys}

Calls == [pc : {"idle", "enqueue", "collect", "returned", "raised", "timeout"},
          keys : SUBSET Keys, todo : SUBSET Keys, pending : SUBSET Keys,
          listener : {"none", "started", "subscribed", "done"},
          exceptions : BOOLEAN, got : Got]

Waits == [pc : {"idle", "round", "returned", "raised", "gave up"},
          jobs : Seq(Keys), at : Nat, seen : Got, results : Seq(Keys), raises : BOOLEAN]

JobTypes ==
  /\ status \in [Keys -> Statuses] /\ note \in [Keys -> SUBSET Updates]
  /\ incomplete \subseteq Keys /\ queued \in [Keys -> Nat] /\ running \in [Keys -> Nat]
  /\ ended \subseteq Keys /\ again \subseteq Keys /\ expired \subseteq Keys
  /\ runs \in [Keys -> 0 .. MaxRuns] /\ faults \in 0 .. MaxFaults

WorkerTypes == own \in Owns /\ beating \subseteq Workers /\ alive \subseteq Workers

CallTypes ==
  /\ call \in [Callers -> Calls] /\ inbox \in [Callers -> Seq(Keys \X Statuses)]
  /\ \A c \in Callers : /\ call[c].todo \cup call[c].pending \subseteq call[c].keys
                        /\ inbox[c] \in Seq(call[c].keys \X Statuses)
                        /\ inbox[c] # <<>> => call[c].listener = "subscribed"

Types == JobTypes /\ WorkerTypes /\ CallTypes /\ wait \in [Waiters -> Waits]

(* The job of k has ended, with s, unless its record was written again or  *)
(* is gone since.                                                          *)
Ended(k, s) == /\ k \in ended
               /\ k \in again \/ status[k] = s \/ (status[k] = "none" /\ k \in expired)
HasResult(k) == \E s \in TERMINAL : Ended(k, s)

(* What notify publishes, or has published, of a result is true.           *)
NotesTrue == \A k \in Keys, s \in TERMINAL : s \in note[k] => Ended(k, s)
InboxTrue(c) == \A i \in 1 .. Len(inbox[c]) :
  inbox[c][i][2] \in TERMINAL => Ended(inbox[c][i][1], inbox[c][i][2])

(* A failure that ended the listener: its record says so, or what the call *)
(* read of it does.                                                        *)
FailureOf(r, k) == \/ k \in again
                   \/ IF r.pc = "enqueue" \/ k \in r.todo THEN Ended(k, "FAILED")
                                                          ELSE r.got[k] = "FAILED"

CallInv(c) == LET r == call[c] IN
  /\ r.pc = "idle" => r.keys = {}
  /\ \A k \in r.keys \ r.pending : HasResult(k)
  /\ r.pc \in {"enqueue", "collect", "returned"} /\ r.listener = "done"
       => r.pending = {} \/ (~r.exceptions /\ \E k \in r.keys : FailureOf(r, k))
  /\ r.pc \in {"collect", "returned"} =>
       /\ r.listener = "done" /\ r.got \in [r.keys -> Statuses]
       /\ r.pending = {} => \A k \in r.keys \ (r.todo \cup again) : r.got[k] \in TERMINAL
  /\ r.pc = "returned" =>
       r.todo = {} /\ (~r.exceptions => \A k \in r.keys : r.got[k] # "FAILED")

MapInv == NotesTrue /\ \A c \in Callers : InboxTrue(c) /\ CallInv(c)

(***************************************************************************)
(* The invariant of those who wait.                                        *)
(***************************************************************************)
Distinct(s) == \A i, j \in 1 .. Len(s) : s[i] = s[j] => i = j

(* Each job waited for is in the list, among the results or done with.     *)
WaitInv(w) == LET r == wait[w] IN
  /\ Distinct(r.jobs) /\ Distinct(r.results)
  /\ ToSet(r.jobs) \cap ToSet(r.results) = {}
  /\ r.pc = "round" => r.at > 0 /\ r.seen \in [DOMAIN r.seen -> Statuses]
                       /\ ToSet(r.jobs) \subseteq DOMAIN r.seen
  /\ r.pc = "idle" => r.results = <<>>
  /\ r.pc = "returned" => r.jobs = <<>>
  /\ r.pc \in {"round", "returned"} =>
       \A k \in DOMAIN r.seen :
         /\ status[k] = "none" => k \in expired
         /\ k \notin ToSet(r.jobs) \cup ToSet(r.results) => r.seen[k] = "FAILED" \/ k \in expired

ListenInv == Types /\ MapInv /\ \A w \in Waiters : WaitInv(w)

(***************************************************************************)
(* Sequences                                                               *)
(***************************************************************************)
\* A function on 1 .. n is a sequence of length n.
LEMMA FunctionSeq ==
  ASSUME NEW S, NEW n \in Nat, NEW f \in [1..n -> S]
  PROVE  f \in Seq(S) /\ Len(f) = n
  <1>1. f \in Seq(S)
    BY SeqDef
  <1>2. Len(f) \in Nat /\ DOMAIN f = 1..Len(f) /\ DOMAIN f = 1..n
    BY <1>1, LenProperties
  <1>3. QED
    BY <1>1, <1>2

\* SetToSeq lists the elements of a finite set, each of them once.
LEMMA SetToSeqOrder ==
  ASSUME NEW S, IsFiniteSet(S)
  PROVE  SetToSeq(S) \in Seq(S) /\ Distinct(SetToSeq(S)) /\ ToSet(SetToSeq(S)) = S
  <1> DEFINE n == Cardinality(S)
             s == SetToSeq(S)
  <1>1. n \in Nat /\ ExistsBijection(1..n, S)
    BY FS_CardinalityType
  <1>2. \E f \in [1..n -> S] : IsInjective(f)
    BY <1>1 DEF ExistsBijection, Bijection, Injection
  <1>3. s \in [1..n -> S] /\ IsInjective(s)
    BY <1>2 DEF SetToSeq
  <1>4. s \in Injection(1..n, S) /\ Cardinality(1..n) = n
    BY <1>1, <1>3, FS_Interval DEF Injection
  <1>5. s \in Surjection(1..n, S)
    BY <1>4, FS_Injection
  <1>6. s \in Seq(S) /\ Len(s) = n
    BY <1>1, <1>3, FunctionSeq
  <1>7. QED
    BY <1>1, <1>3, <1>5, <1>6 DEF IsInjective, Surjection, Distinct, ToSet

\* The elements of a sequence, by their positions.
LEMMA Elements ==
  ASSUME NEW S, NEW s \in Seq(S)
  PROVE  /\ Len(s) \in Nat /\ DOMAIN s = 1 .. Len(s)
         /\ ToSet(s) = {s[i] : i \in 1 .. Len(s)} /\ ToSet(s) \subseteq S
         /\ s = <<>> <=> Len(s) = 0
         /\ s = <<>> <=> ToSet(s) = {}
  <1>1. Len(s) \in Nat /\ DOMAIN s = 1 .. Len(s) /\ \A i \in 1 .. Len(s) : s[i] \in S
    BY LenProperties, ElementOfSeq
  <1>2. s = <<>> <=> Len(s) = 0
    BY EmptySeq
  <1>3. Len(s) # 0 => 1 \in 1 .. Len(s)
    BY <1>1
  <1>4. ToSet(s) = {s[i] : i \in 1 .. Len(s)}
    BY <1>1 DEF ToSet
  <1>5. ToSet(s) \subseteq S
    BY <1>1, <1>4
  <1>6. CASE Len(s) = 0
    BY <1>1, <1>2, <1>4, <1>6
  <1>7. CASE Len(s) # 0
    <2>1. s[1] \in ToSet(s)
      BY <1>3, <1>4, <1>7
    <2>2. QED
      BY <1>1, <1>2, <1>4, <1>5, <1>7, <2>1
  <1>8. QED
    BY <1>6, <1>7

\* RemoveAt takes one element out of a list without repetitions.
LEMMA Removed ==
  ASSUME NEW S, NEW s \in Seq(S), NEW i \in 1 .. Len(s), Distinct(s)
  PROVE  LET t == RemoveAt(s, i) IN
         /\ t \in Seq(S) /\ Distinct(t)
         /\ ToSet(t) = ToSet(s) \ {s[i]}
  <1> DEFINE a == SubSeq(s, 1, i - 1)
             b == SubSeq(s, i + 1, Len(s))
             t == RemoveAt(s, i)
  <1>1. Len(s) \in Nat /\ i \in Nat /\ 1 <= i /\ i <= Len(s)
    BY Elements
  <1>2. \A j \in 1 .. Len(s) : s[j] \in S
    BY ElementOfSeq
  <1>3. /\ a \in Seq(S) /\ Len(a) = i - 1
        /\ \A j \in 1 .. i - 1 : a[j] = s[j]
    <2>1. \A j \in 1 .. i - 1 : s[j] \in S
      BY <1>1, <1>2
    <2>2. /\ a \in Seq(S) /\ Len(a) = IF 1 <= i - 1 THEN i - 1 - 1 + 1 ELSE 0
          /\ \A j \in 1 .. (i - 1) - 1 + 1 : a[j] = s[1 + j - 1]
      BY <1>1, <2>1, SubSeqProperties
    <2>3. QED
      BY <1>1, <2>2
  <1>4. /\ b \in Seq(S) /\ Len(b) = Len(s) - i
        /\ \A j \in 1 .. Len(s) - i : b[j] = s[i + j]
    <2>1. \A j \in i + 1 .. Len(s) : s[j] \in S
      BY <1>1, <1>2
    <2>2. /\ b \in Seq(S) /\ Len(b) = IF i + 1 <= Len(s) THEN Len(s) - (i + 1) + 1 ELSE 0
          /\ \A j \in 1 .. Len(s) - (i + 1) + 1 : b[j] = s[i + 1 + j - 1]
      BY <1>1, <2>1, SubSeqProperties
    <2>3. QED
      BY <1>1, <2>2
  <1>5. /\ t \in Seq(S) /\ Len(t) = Len(s) - 1
        /\ \A j \in 1 .. Len(s) - 1 : t[j] = IF j < i THEN s[j] ELSE s[j + 1]
    <2>1. /\ t \in Seq(S) /\ Len(t) = Len(a) + Len(b)
          /\ \A j \in 1 .. Len(a) + Len(b) : t[j] = IF j <= Len(a) THEN a[j] ELSE b[j - Len(a)]
      BY <1>3, <1>4, ConcatProperties DEF RemoveAt
    <2>2. Len(a) + Len(b) = Len(s) - 1
      <3>1. ASSUME NEW m, NEW n, m = i - 1, n = Len(s) - i PROVE m + n = Len(s) - 1
        BY <1>1, <3>1
      <3>2. QED
        BY <1>3, <1>4, <3>1, Zenon
    <2>3. ASSUME NEW j \in 1 .. Len(s) - 1
          PROVE  t[j] = IF j < i THEN s[j] ELSE s[j + 1]
      <3>1. t[j] = IF j <= Len(a) THEN a[j] ELSE b[j - Len(a)]
        BY <2>1, <2>2
      <3>2. CASE j < i
        <4>1. j \in 1 .. i - 1 /\ j <= Len(a)
          BY <1>1, <1>3, <3>2
        <4>2. QED
          BY <1>3, <3>1, <3>2, <4>1
      <3>3. CASE ~(j < i)
        <4>1. /\ j - (i - 1) \in 1 .. Len(s) - i /\ ~(j <= Len(a))
              /\ i + (j - (i - 1)) = j + 1 /\ j - Len(a) = j - (i - 1)
          BY <1>1, <1>3, <3>3
        <4>2. b[j - (i - 1)] = s[j + 1]
          BY <1>4, <4>1
        <4>3. QED
          BY <3>1, <3>3, <4>1, <4>2
      <3>4. QED
        BY <3>2, <3>3
    <2>4. QED
      BY <2>1, <2>2, <2>3
  <1>6. Distinct(t)
    BY <1>1, <1>5 DEF Distinct
  <1>7. ToSet(t) = {t[j] : j \in 1 .. Len(s) - 1} /\ ToSet(s) = {s[j] : j \in 1 .. Len(s)}
    BY <1>5, Elements
  <1>8. \A j \in 1 .. Len(s) - 1 : t[j] \in ToSet(s) \ {s[i]}
    BY <1>1, <1>5, <1>7 DEF Distinct
  <1>9. ASSUME NEW j \in 1 .. Len(s), s[j] # s[i] PROVE s[j] \in ToSet(t)
    <2>1. j # i
      BY <1>9
    <2>2. CASE j < i
      BY <1>1, <1>5, <1>7, <2>2
    <2>3. CASE j > i
      <3>1. j - 1 \in 1 .. Len(s) - 1 /\ t[j - 1] = s[j]
        BY <1>1, <1>5, <2>3
      <3>2. QED
        BY <1>7, <3>1
    <2>4. QED
      BY <1>1, <2>1, <2>2, <2>3
  <1>10. QED
    BY <1>5, <1>6, <1>7, <1>8, <1>9

\* A new element at the end of a list.
LEMMA Appended ==
  ASSUME NEW S, NEW s \in Seq(S), NEW x \in S
  PROVE  LET t == Append(s, x) IN
         /\ t \in Seq(S) /\ ToSet(t) = ToSet(s) \cup {x}
         /\ Len(t) = Len(s) + 1
         /\ \A i \in 1 .. Len(s) : t[i] = s[i]
         /\ t[Len(s) + 1] = x
         /\ Distinct(s) /\ x \notin ToSet(s) => Distinct(t)
  <1> DEFINE t == Append(s, x)
  <1>1. /\ t \in Seq(S) /\ Len(t) = Len(s) + 1 /\ t[Len(s) + 1] = x
        /\ \A i \in 1 .. Len(s) : t[i] = s[i]
    BY AppendProperties
  <1>2. /\ ToSet(t) = {t[i] : i \in 1 .. Len(t)} /\ ToSet(s) = {s[i] : i \in 1 .. Len(s)}
        /\ Len(s) \in Nat
    BY <1>1, Elements
  <1>3. \A i \in 1 .. Len(s) + 1 : i \in 1 .. Len(s) \/ i = Len(s) + 1
    BY <1>2
  <1>4. Len(s) + 1 \in 1 .. Len(s) + 1 /\ \A i \in 1 .. Len(s) : i \in 1 .. Len(s) + 1
    BY <1>2
  <1>5. ToSet(t) = ToSet(s) \cup {x}
    BY <1>1, <1>2, <1>3, <1>4
  <1>6. Distinct(s) /\ x \notin ToSet(s) => Distinct(t)
    BY <1>1, <1>2, <1>3 DEF Distinct
  <1>7. QED
    BY <1>1, <1>5, <1>6

\* The tail of a list holds what the list holds.
LEMMA Shifted ==
  ASSUME NEW S, NEW s \in Seq(S), s # <<>>
  PROVE  /\ Head(s) = s[1] /\ Head(s) \in S /\ 1 \in 1 .. Len(s)
         /\ Tail(s) \in Seq(S) /\ Len(Tail(s)) = Len(s) - 1
         /\ \A i \in 1 .. Len(s) - 1 : i + 1 \in 1 .. Len(s) /\ Tail(s)[i] = s[i + 1]
  <1>1. Len(s) \in Nat \ {0}
    BY EmptySeq
  <1>2. QED
    BY <1>1, HeadTailProperties

(***************************************************************************)
(* What happens to the jobs                                                *)
(***************************************************************************)
\* That a job has ended stays true.
Stable ==
  /\ again \subseteq again'
  /\ \A k \in Keys, s \in TERMINAL : Ended(k, s) => Ended(k, s)'

\* A record disappears by expiry only.
Remains ==
  /\ expired \subseteq expired'
  /\ \A k \in Keys : status'[k] = "none" /\ status[k] # "none" => k \in expired'

JobInv == JobTypes /\ NotesTrue
Keeps == JobInv' /\ Stable /\ Remains

LEMMA ShapeOK == Types => TypeOK
  BY DEF Types, JobTypes, WorkerTypes, CallTypes, TypeOK, Calls, Waits

LEMMA JobsStay ==
  ASSUME JobInv, UNCHANGED jobVars PROVE Keeps
  BY DEF JobInv, JobTypes, NotesTrue, Keeps, Stable, Remains, Ended, jobVars, lists

\* A transaction stores a status, whatever the record says.
LEMMA StoreKeeps ==
  ASSUME JobInv, JobTypes', NEW k \in Keys, NEW s \in Statuses \ {"none"}, Store(k, s),
         UNCHANGED expired
  PROVE  Keeps
  <1>1. /\ status' = [status EXCEPT ![k] = s] /\ expired' = expired
        /\ note' = [note EXCEPT ![k] = @ \cup ({s} \cap Updates)]
        /\ ended \subseteq ended' /\ again' = again \cup ({k} \cap ended)
        /\ s \in TERMINAL => k \in ended'
    BY DEF Store
  <1>2. ASSUME NEW x \in Keys, NEW t \in TERMINAL, Ended(x, t) PROVE Ended(x, t)'
    BY <1>1, <1>2 DEF Ended, JobInv, JobTypes
  <1>3. ASSUME NEW x \in Keys, NEW t \in TERMINAL, t \in note'[x] PROVE Ended(x, t)'
    <2>1. CASE t \in note[x]
      BY <1>2, <2>1 DEF JobInv, NotesTrue
    <2>2. CASE t \notin note[x]
      <3>1. x = k /\ t = s
        BY <1>1, <1>3, <2>2 DEF JobInv, JobTypes
      <3>2. status'[k] = s /\ k \in ended'
        BY <1>1, <3>1 DEF JobInv, JobTypes
      <3>3. QED
        BY <3>1, <3>2 DEF Ended
    <2>3. QED
      BY <2>1, <2>2
  <1>4. Stable
    BY <1>1, <1>2 DEF Stable
  <1>5. Remains
    BY <1>1 DEF Remains, JobInv, JobTypes
  <1>6. QED
    BY <1>3, <1>4, <1>5 DEF Keeps, JobInv, NotesTrue

\* The lists and the bounds move, the records do not.
LEMMA ListsKeep ==
  ASSUME JobInv, JobTypes', UNCHANGED <<status, note, ended, again, expired>> PROVE Keeps
  BY DEF JobInv, NotesTrue, Keeps, Stable, Remains, Ended

LEMMA FaultCounted ==
  ASSUME JobInv, MayFail PROVE faults' \in 0 .. MaxFaults
  BY ListenAssumption DEF MayFail, JobInv, JobTypes

LEMMA TakeKeeps ==
  ASSUME JobInv, NEW k \in Keys, Take(k) PROVE Keeps
  <1>1. /\ queued' = [queued EXCEPT ![k] = @ - 1] /\ queued[k] > 0 /\ runs[k] < MaxRuns
        /\ UNCHANGED <<incomplete, expired, faults>>
    BY DEF Take
  <1>2. queued' \in [Keys -> Nat]
    BY <1>1 DEF JobInv, JobTypes
  <1>3. CASE UNCHANGED <<status, note, ended, again, running, runs>>
    BY <1>1, <1>2, <1>3, ListsKeep DEF JobInv, JobTypes
  <1>4. CASE /\ Store(k, "ACTIVE")
             /\ running' = [running EXCEPT ![k] = @ + 1] /\ runs' = [runs EXCEPT ![k] = @ + 1]
    <2>1. running' \in [Keys -> Nat] /\ runs' \in [Keys -> 0 .. MaxRuns]
      BY <1>1, <1>4, ListenAssumption DEF JobInv, JobTypes
    <2>2. JobTypes'
      BY <1>1, <1>2, <1>4, <2>1 DEF Store, JobInv, JobTypes, Statuses, TERMINAL
    <2>3. QED
      BY <1>1, <1>4, <2>2, StoreKeeps DEF Statuses
  <1>5. QED
    BY <1>3, <1>4 DEF Take

LEMMA SettleKeeps ==
  ASSUME JobInv, NEW k \in Keys, Settle(k) PROVE Keeps
  <1>1. PICK s \in Statuses \ {"none"} : Store(k, s)
    BY DEF Settle, Statuses, TERMINAL
  <1>2. /\ running' = [running EXCEPT ![k] = @ - 1] /\ running[k] > 0
        /\ UNCHANGED <<expired, runs, faults>>
        /\ incomplete' \subseteq incomplete \cup {k}
        /\ queued' = queued \/ queued' = [queued EXCEPT ![k] = IF @ = 0 THEN 1 ELSE @]
    BY DEF Settle
  <1>3. running' \in [Keys -> Nat] /\ queued' \in [Keys -> Nat]
    BY <1>2 DEF JobInv, JobTypes
  <1>4. JobTypes'
    BY <1>1, <1>2, <1>3 DEF Store, JobInv, JobTypes
  <1>5. QED
    BY <1>1, <1>2, <1>4, StoreKeeps

LEMMA SweepKeeps ==
  ASSUME JobInv, NEW k \in Keys, Sweep(k) PROVE Keeps
  <1>1. Store(k, "FAILED") /\ "FAILED" \in Statuses \ {"none"} /\ MayFail
        /\ incomplete' = incomplete \ {k} /\ UNCHANGED <<queued, running, expired, runs>>
    BY DEF Sweep, Statuses, TERMINAL
  <1>2. JobTypes'
    BY <1>1, FaultCounted DEF Store, JobInv, JobTypes
  <1>3. QED
    BY <1>1, <1>2, StoreKeeps

\* notify, and an update that is lost: the note is taken.
LEMMA NoteKeeps ==
  ASSUME JobInv, NEW k \in Keys, NEW s, note' = [note EXCEPT ![k] = @ \ {s}],
         UNCHANGED <<status, lists, ended, again, expired, runs>>, faults' \in 0 .. MaxFaults
  PROVE  Keeps
  <1>1. UNCHANGED <<incomplete, queued, running>> /\ \A x \in Keys : note'[x] \subseteq note[x]
    BY DEF lists, JobInv, JobTypes
  <1>2. JobTypes'
    BY <1>1 DEF JobInv, JobTypes
  <1>3. QED
    BY <1>1, <1>2 DEF JobInv, NotesTrue, Keeps, Stable, Remains, Ended

LEMMA ExpireKeeps ==
  ASSUME JobInv, NEW k \in Keys, Expire(k) PROVE Keeps
  <1>1. /\ status' = [status EXCEPT ![k] = "none"] /\ expired' = expired \cup {k}
        /\ UNCHANGED <<note, lists, ended, again, runs>> /\ MayFail
    BY DEF Expire
  <1>2. JobTypes'
    BY <1>1, FaultCounted DEF lists, JobInv, JobTypes, Statuses
  <1>3. \A x \in Keys, t \in TERMINAL : Ended(x, t) => Ended(x, t)'
    BY <1>1 DEF Ended, JobInv, JobTypes
  <1>4. QED
    BY <1>1, <1>2, <1>3 DEF JobInv, JobTypes, NotesTrue, Keeps, Stable, Remains

\* A key that had a result is in `again' when it is accepted.
LEMMA AcceptKeeps ==
  ASSUME JobInv, NEW k \in Keys, Accept(k), UNCHANGED <<note, running, ended, expired, runs>>,
         faults' \in 0 .. MaxFaults
  PROVE  Keeps
  <1>1. /\ status' = [status EXCEPT ![k] = "QUEUED"] /\ again' = again \cup ({k} \cap ended)
        /\ incomplete' = incomplete \cup {k} /\ queued' = [queued EXCEPT ![k] = @ + 1]
    BY DEF Accept
  <1>2. JobTypes'
    BY <1>1 DEF JobInv, JobTypes, Statuses
  <1>3. \A x \in Keys, t \in TERMINAL : Ended(x, t) => Ended(x, t)'
    BY <1>1 DEF Ended, JobInv, JobTypes
  <1>4. QED
    BY <1>1, <1>2, <1>3 DEF JobInv, JobTypes, NotesTrue, Keeps, Stable, Remains

\* abort, of one job or of what as_jobs_complete leaves.
LEMMA AbortKeeps ==
  ASSUME JobInv, NEW K \in SUBSET Keys, Dequeue(K), faults' \in 0 .. MaxFaults
  PROVE  Keeps
  <1>1. /\ status' = [k \in Keys |-> IF k \in K THEN "FAILED" ELSE status[k]]
        /\ note' = [k \in Keys |-> IF k \in K THEN note[k] \cup {"FAILED"} ELSE note[k]]
        /\ ended' = ended \cup K /\ again' = again \cup (K \cap ended)
        /\ incomplete' = incomplete \ K
        /\ queued' = [k \in Keys |-> IF k \in K THEN 0 ELSE queued[k]]
        /\ UNCHANGED <<running, expired, runs>>
    BY DEF Dequeue
  <1>2. JobTypes'
    BY <1>1 DEF JobInv, JobTypes, Statuses, Updates, TERMINAL
  <1>3. \A x \in Keys, t \in TERMINAL : Ended(x, t) => Ended(x, t)'
    BY <1>1 DEF Ended, JobInv, JobTypes
  <1>4. ASSUME NEW x \in Keys, NEW t \in TERMINAL, t \in note'[x] PROVE Ended(x, t)'
    BY <1>1, <1>3, <1>4 DEF JobInv, JobTypes, NotesTrue, Ended
  <1>5. QED
    BY <1>1, <1>2, <1>3, <1>4 DEF JobInv, JobTypes, NotesTrue, Keeps, Stable, Remains

(***************************************************************************)
(* The other parts of the invariant, when the jobs move on                 *)
(***************************************************************************)
LEMMA CallKept ==
  ASSUME Types, Keeps, NEW c \in Callers, CallInv(c), call'[c] = call[c]
  PROVE  CallInv(c)'
  <1> DEFINE r == call[c]
  <1>1. r.keys \subseteq Keys /\ again \subseteq again'
    BY DEF Types, CallTypes, Calls, Keeps, Stable
  <1>2. \A k \in r.keys : HasResult(k) => HasResult(k)'
    BY <1>1 DEF Keeps, Stable, HasResult
  <1>3. \A k \in r.keys : FailureOf(r, k) => FailureOf(r, k)'
    BY <1>1 DEF Keeps, Stable, FailureOf, TERMINAL
  <1>4. QED
    BY <1>1, <1>2, <1>3 DEF CallInv

LEMMA InboxKept ==
  ASSUME Types, Keeps, NEW c \in Callers, InboxTrue(c), inbox'[c] = inbox[c]
  PROVE  InboxTrue(c)'
  <1>1. \A i \in 1 .. Len(inbox[c]) : inbox[c][i] \in Keys \X Statuses
    BY ElementOfSeq DEF Types, CallTypes
  <1>2. QED
    BY <1>1 DEF InboxTrue, Keeps, Stable

LEMMA SeenKeys ==
  ASSUME NEW f \in Got
  PROVE  DOMAIN f \subseteq Keys /\ f \in [DOMAIN f -> Statuses]
  <1>1. CASE f = <<>>
    BY <1>1
  <1>2. CASE f # <<>>
    <2>1. PICK K \in SUBSET Keys : f \in [K -> Statuses]
      BY <1>2 DEF Got
    <2>2. QED
      BY <2>1
  <1>3. QED
    BY <1>1, <1>2

LEMMA WaitKept ==
  ASSUME Types, Keeps, NEW w \in Waiters, WaitInv(w), wait'[w] = wait[w]
  PROVE  WaitInv(w)'
  <1>1. DOMAIN wait[w].seen \subseteq Keys
    BY SeenKeys DEF Types, Waits
  <1>2. /\ \A k \in DOMAIN wait[w].seen :
             (status[k] = "none" => k \in expired) => (status'[k] = "none" => k \in expired')
        /\ expired \subseteq expired'
    BY <1>1 DEF Keeps, Remains
  <1>3. QED
    BY <1>2 DEF WaitInv

(* A step that leaves the calls and the waits alone.                       *)
LEMMA JobStepInv ==
  ASSUME ListenInv, Keeps, WorkerTypes', UNCHANGED <<call, wait>>, CallTypes',
         \A c \in Callers : InboxTrue(c)'
  PROVE  ListenInv'
  <1>1. Types'
    BY DEF ListenInv, Types, Keeps, JobInv
  <1>2. \A c \in Callers : CallInv(c)'
    BY CallKept DEF ListenInv, MapInv
  <1>3. \A w \in Waiters : WaitInv(w)'
    BY WaitKept DEF ListenInv
  <1>4. QED
    BY <1>1, <1>2, <1>3 DEF ListenInv, MapInv, Keeps, JobInv

(* A step of one call, which becomes r.                                    *)
LEMMA CallStepInv ==
  ASSUME ListenInv, Keeps, WorkerTypes', UNCHANGED wait,
         NEW c \in Callers, NEW r \in Calls, Set(c, r), r.todo \cup r.pending \subseteq r.keys,
         NEW q \in Seq(r.keys \X Statuses), inbox' = [inbox EXCEPT ![c] = q],
         q # <<>> => r.listener = "subscribed",
         InboxTrue(c)', CallInv(c)'
  PROVE  ListenInv'
  <1>1. /\ call' \in [Callers -> Calls] /\ call'[c] = r
        /\ \A d \in Callers \ {c} : call'[d] = call[d]
    BY DEF ListenInv, Types, CallTypes, Set
  <1>2. q \in Seq(Keys \X Statuses)
    <2>1. r.keys \X Statuses \subseteq Keys \X Statuses
      BY DEF Calls
    <2>2. QED
      BY <2>1, SeqMonotonic
  <1>3. /\ inbox' \in [Callers -> Seq(Keys \X Statuses)] /\ inbox'[c] = q
        /\ \A d \in Callers \ {c} : inbox'[d] = inbox[d]
    BY <1>2 DEF ListenInv, Types, CallTypes
  <1>4. CallTypes'
    BY <1>1, <1>3 DEF ListenInv, Types, CallTypes
  <1>5. Types'
    BY <1>4 DEF ListenInv, Types, Keeps, JobInv
  <1>6. ASSUME NEW d \in Callers PROVE CallInv(d)' /\ InboxTrue(d)'
    <2>1. CASE d = c
      BY <2>1
    <2>2. CASE d # c
      BY <1>1, <1>3, <2>2, CallKept, InboxKept DEF ListenInv, MapInv
    <2>3. QED
      BY <2>1, <2>2
  <1>7. \A w \in Waiters : WaitInv(w)'
    BY WaitKept DEF ListenInv
  <1>8. QED
    BY <1>5, <1>6, <1>7 DEF ListenInv, MapInv, Keeps, JobInv

(* A step of one wait, which becomes r.                                    *)
LEMMA WaitStepInv ==
  ASSUME ListenInv, Keeps, UNCHANGED <<workerVars, call, inbox>>,
         NEW w \in Waiters, NEW r \in Waits, SetWait(w, r), WaitInv(w)'
  PROVE  ListenInv'
  <1>1. /\ wait' \in [Waiters -> Waits] /\ wait'[w] = r
        /\ \A v \in Waiters \ {w} : wait'[v] = wait[v]
    BY DEF ListenInv, Types, SetWait
  <1>2. Types'
    BY <1>1 DEF ListenInv, Types, CallTypes, WorkerTypes, workerVars, Keeps, JobInv
  <1>3. \A c \in Callers : CallInv(c)' /\ InboxTrue(c)'
    BY CallKept, InboxKept DEF ListenInv, MapInv
  <1>4. ASSUME NEW v \in Waiters PROVE WaitInv(v)'
    BY <1>1, WaitKept DEF ListenInv
  <1>5. QED
    BY <1>2, <1>3, <1>4 DEF ListenInv, MapInv, Keeps, JobInv

(***************************************************************************)
(* The steps of workers and of the server                                  *)
(***************************************************************************)
LEMMA JobOnly ==
  ASSUME ListenInv, Keeps, WorkerTypes', UNCHANGED <<call, inbox, wait>>
  PROVE  ListenInv'
  <1>1. CallTypes'
    BY DEF ListenInv, Types, CallTypes
  <1>2. \A c \in Callers : InboxTrue(c)'
    BY InboxKept DEF ListenInv, MapInv
  <1>3. QED
    BY <1>1, <1>2, JobStepInv

LEMMA WorkerStepInv ==
  ASSUME ListenInv, NEW w \in Workers, Register(w) \/ Exit(w) \/ HeartbeatExpires(w)
  PROVE  ListenInv'
  <1>1. UNCHANGED <<jobVars, call, inbox, wait>>
    BY DEF Register, Exit, HeartbeatExpires
  <1>2. WorkerTypes'
    BY DEF Register, Exit, HeartbeatExpires, ListenInv, Types, WorkerTypes
  <1>3. QED
    BY <1>1, <1>2, JobsStay, JobOnly DEF ListenInv, Types, MapInv, JobInv

(* notify sends what is true to the subscriptions it reaches.              *)
LEMMA NotifyInv ==
  ASSUME ListenInv, NEW k \in Keys, Notify(k) PROVE ListenInv'
  <1> PICK u \in note[k] :
          /\ inbox' = [c \in Callers |-> IF Subscribed(c, k) THEN Append(inbox[c], <<k, u>>)
                                         ELSE inbox[c]]
          /\ note' = [note EXCEPT ![k] = @ \ {u}]
    BY DEF Notify
  <1>1. Keeps
    BY NoteKeeps DEF ListenInv, Types, MapInv, JobInv, JobTypes, Notify
  <1>2. UNCHANGED <<workerVars, call, wait>> /\ u \in Statuses
    BY DEF Notify, ListenInv, Types, JobTypes, Statuses, Updates
  <1>3. ASSUME NEW c \in Callers
        PROVE  /\ inbox'[c] \in Seq(call[c].keys \X Statuses)
               /\ inbox'[c] \in Seq(Keys \X Statuses)
               /\ inbox'[c] # <<>> => call[c].listener = "subscribed"
               /\ InboxTrue(c)'
    <2> DEFINE s == inbox[c]
               m == <<k, u>>
    <2>1. s \in Seq(call[c].keys \X Statuses) /\ s \in Seq(Keys \X Statuses)
      BY DEF ListenInv, Types, CallTypes
    <2>2. CASE ~Subscribed(c, k)
      <3>1. inbox'[c] = s
        BY <1>2, <2>2
      <3>2. s # <<>> => call[c].listener = "subscribed"
        BY DEF ListenInv, Types, CallTypes
      <3>3. InboxTrue(c)'
        BY <1>1, <3>1, InboxKept DEF ListenInv, MapInv
      <3>4. QED
        BY <2>1, <3>1, <3>2, <3>3
    <2>3. CASE Subscribed(c, k)
      <3>1. inbox'[c] = Append(s, m)
        BY <1>2, <2>3
      <3>2. m \in call[c].keys \X Statuses /\ m \in Keys \X Statuses
        BY <1>2, <2>3 DEF Subscribed
      <3>3. /\ Append(s, m) \in Seq(call[c].keys \X Statuses)
            /\ Append(s, m) \in Seq(Keys \X Statuses)
            /\ Len(s) \in Nat /\ Len(Append(s, m)) = Len(s) + 1
            /\ \A i \in 1 .. Len(s) : Append(s, m)[i] = s[i]
            /\ Append(s, m)[Len(s) + 1] = m
        BY <2>1, <3>2, Appended, Elements
      <3>4. ASSUME NEW i \in 1 .. Len(s) + 1, NEW x, NEW y \in TERMINAL,
                   Append(s, m)[i][1] = x, Append(s, m)[i][2] = y
            PROVE  Ended(x, y)'
        <4>1. x \in Keys
          <5>1. Append(s, m)[i] \in Keys \X Statuses
            BY <3>3, ElementOfSeq
          <5>2. QED
            BY <3>4, <5>1
        <4>2. Ended(x, y)
          <5>1. CASE i = Len(s) + 1
            BY <3>3, <3>4, <4>1, <5>1 DEF ListenInv, MapInv, NotesTrue
          <5>2. CASE i \in 1 .. Len(s)
            BY <3>3, <3>4, <5>2 DEF ListenInv, MapInv, InboxTrue
          <5>3. QED
            BY <3>3, <5>1, <5>2
        <4>3. QED
          BY <1>1, <3>4, <4>1, <4>2 DEF Keeps, Stable
      <3>5. InboxTrue(c)'
        BY <3>1, <3>3, <3>4 DEF InboxTrue, Ended
      <3>6. QED
        BY <2>3, <3>1, <3>3, <3>5 DEF Subscribed
    <2>4. QED
      BY <2>2, <2>3
  <1>4. CallTypes' /\ WorkerTypes'
    BY <1>2, <1>3 DEF ListenInv, Types, CallTypes, WorkerTypes, workerVars
  <1>5. QED
    BY <1>1, <1>2, <1>3, <1>4, JobStepInv

LEMMA JobMovesInv ==
  ASSUME ListenInv, NEW k \in Keys,
         JobStep(k) \/ EnqueueElsewhere(k) \/ NotifyLost(k) \/ Expire(k)
  PROVE  ListenInv'
  <1>1. CASE Notify(k)
    BY <1>1, NotifyInv
  <1>2. JobInv
    BY DEF ListenInv, Types, MapInv, JobInv
  <1>3. CASE \/ Take(k) \/ Settle(k) \/ Sweep(k) \/ Abort(k)
             \/ EnqueueElsewhere(k) \/ NotifyLost(k) \/ Expire(k)
    <2>1. Keeps
      <3>1. CASE EnqueueElsewhere(k)
        <4>1. faults' \in 0 .. MaxFaults
          BY <1>2, <3>1, FaultCounted DEF EnqueueElsewhere, JobInv, JobTypes
        <4>2. QED
          BY <1>2, <3>1, <4>1, AcceptKeeps DEF EnqueueElsewhere
      <3>2. CASE NotifyLost(k)
        <4>1. faults' \in 0 .. MaxFaults
          BY <1>2, <3>2, FaultCounted DEF NotifyLost
        <4>2. QED
          BY <1>2, <3>2, <4>1, NoteKeeps DEF NotifyLost
      <3>3. CASE Abort(k)
        <4>1. faults' \in 0 .. MaxFaults
          BY <1>2, <3>3, FaultCounted DEF Abort
        <4>2. QED
          BY <1>2, <3>3, <4>1, AbortKeeps DEF Abort
      <3>4. QED
        BY <1>2, <1>3, <3>1, <3>2, <3>3, TakeKeeps, SettleKeeps, SweepKeeps, ExpireKeeps
    <2>2. UNCHANGED <<workerVars, call, inbox, wait>>
      BY <1>3 DEF Take, Settle, Sweep, Abort, EnqueueElsewhere, NotifyLost, Expire
    <2>3. WorkerTypes'
      BY <2>2 DEF ListenInv, Types, WorkerTypes, workerVars
    <2>4. QED
      BY <2>1, <2>2, <2>3, JobOnly
  <1>4. QED
    BY <1>1, <1>3 DEF JobStep

(***************************************************************************)
(* The steps of the calls                                                  *)
(***************************************************************************)
LEMMA CallFacts ==
  ASSUME ListenInv, NEW c \in Callers
  PROVE  /\ call[c] \in Calls /\ JobInv /\ CallInv(c) /\ InboxTrue(c)
         /\ call[c].todo \cup call[c].pending \subseteq call[c].keys
         /\ inbox[c] \in Seq(call[c].keys \X Statuses)
         /\ inbox[c] # <<>> => call[c].listener = "subscribed"
         /\ inbox = [inbox EXCEPT ![c] = inbox[c]]
         /\ WorkerTypes
  BY DEF ListenInv, Types, CallTypes, MapInv, JobInv

\* A step that leaves the jobs and the subscription alone.
LEMMA OwnStep ==
  ASSUME ListenInv, NEW c \in Callers, UNCHANGED <<jobVars, workerVars, inbox, wait>>,
         NEW r \in Calls, Set(c, r), r.keys = call[c].keys,
         r.listener \in {call[c].listener, "subscribed"},
         r.todo \cup r.pending \subseteq r.keys, CallInv(c)'
  PROVE  ListenInv'
  <1>1. Keeps /\ WorkerTypes'
    BY JobsStay, CallFacts DEF WorkerTypes, workerVars
  <1>2. InboxTrue(c)'
    BY <1>1, CallFacts, InboxKept DEF ListenInv
  <1>3. QED
    BY <1>1, <1>2, CallFacts, CallStepInv

\* A step that ends the subscription.
LEMMA EndStep ==
  ASSUME ListenInv, NEW c \in Callers, UNCHANGED <<jobVars, workerVars, wait>>,
         inbox' = [inbox EXCEPT ![c] = <<>>],
         NEW r \in Calls, Set(c, r), r.keys = call[c].keys,
         r.todo \cup r.pending \subseteq r.keys, CallInv(c)'
  PROVE  ListenInv'
  <1>1. Keeps /\ WorkerTypes'
    BY JobsStay, CallFacts DEF WorkerTypes, workerVars
  <1>2. <<>> \in Seq(r.keys \X Statuses) /\ Len(<<>>) = 0
    BY EmptySeq
  <1>3. InboxTrue(c)'
    <2>1. inbox'[c] = <<>>
      BY DEF ListenInv, Types, CallTypes
    <2>2. QED
      BY <1>2, <2>1 DEF InboxTrue
  <1>4. QED
    BY <1>1, <1>2, <1>3, CallStepInv

LEMMA ResultsKept ==
  ASSUME ListenInv, Keeps, NEW c \in Callers
  PROVE  /\ again \subseteq again'
         /\ \A k \in call[c].keys \ call[c].pending : HasResult(k)'
  <1>1. call[c].keys \subseteq Keys
    BY CallFacts DEF Calls
  <1>2. \A k \in call[c].keys : HasResult(k) => HasResult(k)'
    BY <1>1 DEF Keeps, Stable, HasResult
  <1>3. QED
    BY <1>2, CallFacts DEF CallInv, Keeps, Stable

\* The same while the jobs stay as they are.
LEMMA ResultsStay ==
  ASSUME ListenInv, UNCHANGED jobVars, NEW c \in Callers
  PROVE  /\ again' = again
         /\ \A k \in call[c].keys \ call[c].pending : HasResult(k)'
  BY ResultsKept, JobsStay, CallFacts DEF jobVars

LEMMA MapStepInv ==
  ASSUME ListenInv, NEW c \in Callers, Map(c) PROVE ListenInv'
  <1>1. UNCHANGED <<jobVars, workerVars, inbox, wait>>
    BY DEF Map
  <1>2. PICK K \in SUBSET Keys, e \in BOOLEAN :
          Set(c, [call[c] EXCEPT !.pc = "enqueue", !.keys = K, !.todo = K, !.pending = K,
                                 !.listener = "started", !.exceptions = e])
    BY DEF Map, PrepareJobKws
  <1> DEFINE r == [call[c] EXCEPT !.pc = "enqueue", !.keys = K, !.todo = K, !.pending = K,
                                  !.listener = "started", !.exceptions = e]
  <1>3. r \in Calls /\ r.todo \cup r.pending \subseteq r.keys /\ r.keys = K /\ r.pending = K
        /\ r.pc = "enqueue" /\ r.listener = "started"
    BY CallFacts DEF Calls
  <1>4. call'[c] = r
    BY <1>2 DEF Set, ListenInv, Types, CallTypes
  <1>5. CallInv(c)'
    BY <1>3, <1>4 DEF CallInv
  <1>6. inbox[c] = <<>>
    <2>1. call[c].keys = {}
      BY CallFacts DEF Map, CallInv
    <2>2. inbox[c] # <<>> => Head(inbox[c]) \in {} \X Statuses
      BY <2>1, CallFacts, Shifted
    <2>3. QED
      BY <2>2
  <1>7. /\ inbox[c] \in Seq(r.keys \X Statuses) /\ InboxTrue(c)'
        /\ Keeps /\ WorkerTypes'
    <2>1. <<>> \in Seq(r.keys \X Statuses) /\ Len(<<>>) = 0 /\ inbox'[c] = <<>>
      BY <1>1, <1>6, EmptySeq
    <2>2. InboxTrue(c)'
      BY <2>1 DEF InboxTrue
    <2>3. Keeps /\ WorkerTypes'
      BY <1>1, JobsStay, CallFacts DEF WorkerTypes, workerVars
    <2>4. QED
      BY <1>6, <2>1, <2>2, <2>3
  <1>8. inbox' = [inbox EXCEPT ![c] = inbox[c]]
    BY <1>1, CallFacts
  <1>9. QED
    BY <1>1, <1>2, <1>3, <1>5, <1>6, <1>7, <1>8, CallStepInv

LEMMA EnqueueInv ==
  ASSUME ListenInv, NEW c \in Callers, NEW k \in Keys, Enqueue(c, k) PROVE ListenInv'
  <1> DEFINE r == [call[c] EXCEPT !.todo = @ \ {k}]
  <1>1. Keeps
    <2>1. CASE Accept(k)
      BY <2>1, AcceptKeeps, CallFacts DEF Enqueue, JobInv, JobTypes
    <2>2. CASE UNCHANGED <<status, incomplete, queued, again>>
      BY <2>2, JobsStay, CallFacts DEF Enqueue, jobVars, lists
    <2>3. QED
      BY <2>1, <2>2 DEF Enqueue
  <1>2. /\ call[c].pc = "enqueue" /\ Set(c, r) /\ UNCHANGED <<workerVars, inbox, wait>>
    BY DEF Enqueue
  <1>3. r \in Calls /\ r.todo \cup r.pending \subseteq r.keys /\ r.keys = call[c].keys
        /\ r.pc = "enqueue" /\ r.pending = call[c].pending /\ r.listener = call[c].listener
        /\ r.exceptions = call[c].exceptions
    BY <1>2, CallFacts DEF Calls
  <1>4. call'[c] = r
    BY <1>2 DEF Set, ListenInv, Types, CallTypes
  <1>5. CallInv(c)'
    <2>1. call[c].keys \subseteq Keys /\ again \subseteq again'
      BY <1>1, CallFacts DEF Calls, Keeps, Stable
    <2>2. \A x \in call[c].keys : FailureOf(call[c], x) => FailureOf(call[c], x)'
      BY <1>1, <1>2, <1>3, <1>4, <2>1 DEF Keeps, Stable, FailureOf, TERMINAL
    <2>3. QED
      BY <1>1, <1>2, <1>3, <1>4, <2>2, ResultsKept, CallFacts DEF CallInv
  <1>6. InboxTrue(c)'
    BY <1>1, <1>2, CallFacts, InboxKept DEF ListenInv
  <1>7. WorkerTypes'
    BY <1>2, CallFacts DEF WorkerTypes, workerVars
  <1>8. /\ inbox[c] \in Seq(r.keys \X Statuses) /\ inbox' = [inbox EXCEPT ![c] = inbox[c]]
        /\ inbox[c] # <<>> => r.listener = "subscribed"
    BY <1>2, <1>3, CallFacts
  <1>9. QED
    BY <1>1, <1>2, <1>3, <1>5, <1>6, <1>7, <1>8, CallStepInv

LEMMA EnqueueRaisesInv ==
  ASSUME ListenInv, NEW c \in Callers, EnqueueRaises(c) PROVE ListenInv'
  <1> DEFINE r == [call[c] EXCEPT !.pc = "raised", !.listener = "done"]
  <1>1. Set(c, r) /\ UNCHANGED <<jobVars, workerVars, wait>>
        /\ inbox' = [inbox EXCEPT ![c] = <<>>]
    BY DEF EnqueueRaises
  <1>2. r \in Calls /\ r.todo \cup r.pending \subseteq r.keys /\ r.keys = call[c].keys
        /\ r.pc = "raised" /\ r.pending = call[c].pending
    BY CallFacts DEF Calls
  <1>3. call'[c] = r
    BY <1>1 DEF Set, ListenInv, Types, CallTypes
  <1>4. CallInv(c)'
    BY <1>1, <1>2, <1>3, ResultsStay DEF CallInv
  <1>5. QED
    BY <1>1, <1>2, <1>4, EndStep

LEMMA SubscribeInv ==
  ASSUME ListenInv, NEW c \in Callers, Subscribe(c) PROVE ListenInv'
  <1> DEFINE r == [call[c] EXCEPT !.listener = "subscribed"]
  <1>1. Set(c, r) /\ UNCHANGED <<jobVars, workerVars, inbox, wait>>
        /\ call[c].listener = "started"
    BY DEF Subscribe
  <1>2. r \in Calls /\ r.todo \cup r.pending \subseteq r.keys /\ r.keys = call[c].keys
        /\ r.pc = call[c].pc /\ r.pending = call[c].pending /\ r.listener = "subscribed"
        /\ r.todo = call[c].todo
    BY CallFacts DEF Calls
  <1>3. call'[c] = r
    BY <1>1 DEF Set, ListenInv, Types, CallTypes
  <1>4. CallInv(c)'
    <2>1. call[c].pc \notin {"collect", "returned"}
      BY <1>1, CallFacts DEF CallInv
    <2>2. QED
      BY <1>1, <1>2, <1>3, <2>1, CallFacts, ResultsStay DEF CallInv
  <1>5. QED
    BY <1>1, <1>2, <1>4, OwnStep

LEMMA TimeoutInv ==
  ASSUME ListenInv, NEW c \in Callers, Timeout(c) PROVE ListenInv'
  <1> DEFINE r == [call[c] EXCEPT !.pc = "timeout", !.listener = "done"]
  <1>1. Set(c, r) /\ UNCHANGED <<jobVars, workerVars, wait>>
        /\ inbox' = [inbox EXCEPT ![c] = <<>>]
    BY DEF Timeout
  <1>2. r \in Calls /\ r.todo \cup r.pending \subseteq r.keys /\ r.keys = call[c].keys
        /\ r.pc = "timeout" /\ r.pending = call[c].pending
    BY CallFacts DEF Calls
  <1>3. call'[c] = r
    BY <1>1 DEF Set, ListenInv, Types, CallTypes
  <1>4. CallInv(c)'
    BY <1>1, <1>2, <1>3, ResultsStay DEF CallInv
  <1>5. QED
    BY <1>1, <1>2, <1>4, EndStep

\* The callback hears of one job, and ends the listener when all are over or
\* one failed.
LEMMA CallbackInv ==
  ASSUME ListenInv, NEW c \in Callers, Callback(c) PROVE ListenInv'
  <1>1. inbox[c] # <<>> /\ UNCHANGED <<jobVars, workerVars, wait>>
    BY DEF Callback
  <1>2. /\ inbox[c][1] \in call[c].keys \X Statuses /\ Head(inbox[c]) = inbox[c][1]
        /\ 1 \in 1 .. Len(inbox[c])
    <2>1. inbox[c] \in Seq(call[c].keys \X Statuses)
      BY CallFacts
    <2>2. QED
      BY <1>1, <2>1, Shifted
  <1>3. PICK k \in call[c].keys, s \in Statuses : inbox[c][1] = <<k, s>>
    BY <1>2
  <1>4. PICK pending : pending = IF s \in TERMINAL THEN call[c].pending \ {k} ELSE call[c].pending
    OBVIOUS
  <1>5. PICK stop : stop = (pending = {} \/ (s = "FAILED" /\ ~call[c].exceptions))
    OBVIOUS
  <1> DEFINE r == [call[c] EXCEPT !.pending = pending,
                                  !.listener = IF stop THEN "done" ELSE @]
             q == IF stop THEN <<>> ELSE Tail(inbox[c])
  <1>6. Set(c, r) /\ inbox' = [inbox EXCEPT ![c] = q]
    <2>1. Head(inbox[c])[1] = k /\ Head(inbox[c])[2] = s
      BY <1>2, <1>3
    <2>2. inbox' = [inbox EXCEPT ![c] = IF stop THEN <<>> ELSE Tail(@)] /\ Set(c, r)
      BY <1>4, <1>5, <2>1 DEF Callback
    <2>3. QED
      BY <2>2
  <1>7. pending \subseteq call[c].pending /\ call[c].pc \notin {"collect", "returned"}
        /\ call[c].listener = "subscribed"
    BY <1>1, <1>4, CallFacts DEF CallInv
  <1>8. /\ r \in Calls /\ r.keys = call[c].keys /\ r.pending = pending /\ r.pc = call[c].pc
        /\ r.todo = call[c].todo /\ r.exceptions = call[c].exceptions
        /\ r.listener = IF stop THEN "done" ELSE call[c].listener
        /\ r.todo \cup r.pending \subseteq r.keys
    BY <1>7, CallFacts DEF Calls
  <1>9. call'[c] = r
    BY <1>6 DEF Set, ListenInv, Types, CallTypes
  <1>10. s \in TERMINAL => Ended(k, s)
    <2>1. InboxTrue(c)
      BY CallFacts
    <2>2. inbox[c][1][1] = k /\ inbox[c][1][2] = s
      BY <1>3
    <2>3. QED
      BY <1>2, <2>1, <2>2 DEF InboxTrue
  <1>11. CallInv(c)'
    <2>1. \A x \in call[c].keys \ pending : HasResult(x)'
      <3>1. ASSUME NEW x \in call[c].keys \ pending PROVE HasResult(x)
        <4>1. CASE x \in call[c].pending
          BY <1>4, <1>10, <3>1, <4>1 DEF HasResult
        <4>2. CASE x \notin call[c].pending
          BY <3>1, <4>2, CallFacts DEF CallInv
        <4>3. QED
          BY <4>1, <4>2
      <3>2. QED
        BY <1>1, <3>1 DEF HasResult, Ended, jobVars
    <2>2. again' = again
      BY <1>1 DEF jobVars
    <2>3. ASSUME stop, pending # {}, call[c].pc = "enqueue"
          PROVE  ~call[c].exceptions /\ FailureOf(call[c], k)'
      BY <1>1, <1>5, <1>8, <1>9, <1>10, <2>2, <2>3 DEF FailureOf, Ended, TERMINAL, jobVars
    <2>4. QED
      BY <1>7, <1>8, <1>9, <2>1, <2>2, <2>3, CallFacts DEF CallInv
  <1>12. q \in Seq(r.keys \X Statuses) /\ InboxTrue(c)'
    <2>1. CASE stop
      <3>1. q = <<>> /\ inbox'[c] = <<>>
        BY <1>6, <2>1 DEF ListenInv, Types, CallTypes
      <3>2. <<>> \in Seq(r.keys \X Statuses) /\ Len(<<>>) = 0
        BY EmptySeq
      <3>3. InboxTrue(c)'
        BY <3>1, <3>2 DEF InboxTrue
      <3>4. QED
        BY <3>1, <3>2, <3>3
    <2>2. CASE ~stop
      <3>1. inbox'[c] = Tail(inbox[c]) /\ q = Tail(inbox[c])
        BY <1>6, <2>2 DEF ListenInv, Types, CallTypes
      <3>2. /\ Tail(inbox[c]) \in Seq(call[c].keys \X Statuses)
            /\ \A i \in 1 .. Len(Tail(inbox[c])) :
                 i + 1 \in 1 .. Len(inbox[c]) /\ Tail(inbox[c])[i] = inbox[c][i + 1]
        BY <1>1, CallFacts, Shifted
      <3>3. InboxTrue(c)
        BY CallFacts
      <3>4. UNCHANGED <<status, ended, again, expired>>
        BY <1>1 DEF jobVars
      <3>5. InboxTrue(c)'
        BY <3>1, <3>2, <3>3, <3>4 DEF InboxTrue, Ended
      <3>6. QED
        BY <1>8, <3>1, <3>2, <3>5
    <2>3. QED
      BY <2>1, <2>2
  <1>13. Keeps /\ WorkerTypes'
    BY <1>1, JobsStay, CallFacts DEF WorkerTypes, workerVars
  <1>14. q # <<>> => r.listener = "subscribed"
    BY <1>7, <1>8
  <1>15. QED
    BY <1>1, <1>6, <1>8, <1>11, <1>12, <1>13, <1>14, CallStepInv

LEMMA CollectInv ==
  ASSUME ListenInv, NEW c \in Callers, Collect(c) PROVE ListenInv'
  <1> DEFINE r == [call[c] EXCEPT !.pc = "collect", !.todo = call[c].keys,
                                  !.got = [k \in call[c].keys |-> "none"]]
  <1>1. Set(c, r) /\ UNCHANGED <<jobVars, workerVars, inbox, wait>>
        /\ call[c].listener = "done" /\ call[c].pc = "enqueue"
    BY DEF Collect
  <1>2. [k \in call[c].keys |-> "none"] \in [call[c].keys -> Statuses]
        /\ call[c].keys \in SUBSET Keys
    BY CallFacts DEF Calls, Statuses
  <1>3. [k \in call[c].keys |-> "none"] \in Got
    BY <1>2 DEF Got
  <1>4. r \in Calls /\ r.todo \cup r.pending \subseteq r.keys /\ r.keys = call[c].keys
        /\ r.pc = "collect" /\ r.pending = call[c].pending /\ r.listener = "done"
        /\ r.todo = call[c].keys /\ r.got \in [r.keys -> Statuses]
        /\ r.exceptions = call[c].exceptions
    BY <1>1, <1>2, <1>3, CallFacts DEF Calls
  <1>5. call'[c] = r
    BY <1>1 DEF Set, ListenInv, Types, CallTypes
  <1>6. \A k \in call[c].keys : FailureOf(call[c], k) => FailureOf(call[c], k)'
    BY <1>1, <1>4, <1>5 DEF FailureOf, Ended, jobVars
  <1>7. CallInv(c)'
    BY <1>1, <1>4, <1>5, <1>6, ResultsStay, CallFacts DEF CallInv
  <1>8. QED
    BY <1>1, <1>4, <1>7, OwnStep

\* A record that is read is the result, unless it is gone or enqueued again.
LEMMA ReadRecordInv ==
  ASSUME ListenInv, NEW c \in Callers, NEW k \in Keys, ReadRecord(c, k) PROVE ListenInv'
  <1>1. UNCHANGED <<jobVars, workerVars, inbox, wait>>
        /\ call[c].pc = "collect" /\ k \in call[c].todo
    BY DEF ReadRecord
  <1>2. CASE status[k] = "none"
    <2> DEFINE r == [call[c] EXCEPT !.pc = "raised"]
    <2>1. r \in Calls /\ r.todo \cup r.pending \subseteq r.keys /\ r.keys = call[c].keys
          /\ r.pc = "raised" /\ r.pending = call[c].pending /\ r.listener = call[c].listener
      BY CallFacts DEF Calls
    <2>2. Set(c, r) /\ call'[c] = r
      BY <1>2 DEF ReadRecord, Set, ListenInv, Types, CallTypes
    <2>3. CallInv(c)'
      BY <1>1, <2>1, <2>2, ResultsStay DEF CallInv
    <2>4. QED
      BY <1>1, <2>1, <2>2, <2>3, OwnStep
  <1>3. CASE status[k] # "none"
    <2> DEFINE r == [call[c] EXCEPT !.todo = @ \ {k}, !.got[k] = status[k]]
    <2>1. /\ call[c].got \in [call[c].keys -> Statuses] /\ k \in call[c].keys
          /\ status[k] \in Statuses /\ call[c].listener = "done"
      BY <1>1, CallFacts DEF CallInv, JobInv, JobTypes
    <2>2. [call[c].got EXCEPT ![k] = status[k]] \in [call[c].keys -> Statuses]
          /\ call[c].keys \in SUBSET Keys
      BY <2>1, CallFacts DEF Calls
    <2>3. [call[c].got EXCEPT ![k] = status[k]] \in Got
      BY <2>2 DEF Got
    <2>4. r \in Calls /\ r.todo \cup r.pending \subseteq r.keys /\ r.keys = call[c].keys
          /\ r.pc = "collect" /\ r.pending = call[c].pending /\ r.listener = "done"
          /\ r.todo = call[c].todo \ {k} /\ r.got = [call[c].got EXCEPT ![k] = status[k]]
          /\ r.exceptions = call[c].exceptions
      BY <1>1, <2>1, <2>3, CallFacts DEF Calls
    <2>5. Set(c, r) /\ call'[c] = r
      BY <1>3 DEF ReadRecord, Set, ListenInv, Types, CallTypes
    <2>6. again' = again
      BY <1>1 DEF jobVars
    <2>7. \A x \in call[c].keys : FailureOf(call[c], x) => FailureOf(call[c], x)'
      BY <1>1, <1>3, <2>1, <2>4, <2>5 DEF FailureOf, Ended, jobVars
    <2>8. ASSUME call[c].pending = {}, NEW x \in call[c].keys \ ((call[c].todo \ {k}) \cup again)
          PROVE  [call[c].got EXCEPT ![k] = status[k]][x] \in TERMINAL
      <3>1. CASE x = k
        <4>1. HasResult(k)
          BY <2>1, <2>8, <3>1, CallFacts DEF CallInv
        <4>2. QED
          BY <1>3, <2>1, <3>1, <4>1 DEF HasResult, Ended
      <3>2. CASE x # k
        BY <1>1, <2>1, <2>8, <3>2, CallFacts DEF CallInv
      <3>3. QED
        BY <3>1, <3>2
    <2>9. CallInv(c)'
      BY <1>1, <2>1, <2>2, <2>4, <2>5, <2>6, <2>7, <2>8, ResultsStay, CallFacts DEF CallInv
    <2>10. QED
      BY <1>1, <2>1, <2>4, <2>5, <2>9, OwnStep
  <1>4. QED
    BY <1>2, <1>3

LEMMA ReturnInv ==
  ASSUME ListenInv, NEW c \in Callers, Return(c) PROVE ListenInv'
  <1>1. UNCHANGED <<jobVars, workerVars, inbox, wait>>
        /\ call[c].pc = "collect" /\ call[c].todo = {}
    BY DEF Return
  <1>2. PICK end : end = IF (\E k \in call[c].keys : call[c].got[k] = "FAILED") /\ ~call[c].exceptions
                       THEN "raised" ELSE "returned"
    OBVIOUS
  <1> DEFINE r == [call[c] EXCEPT !.pc = end]
  <1>3. r \in Calls /\ r.todo \cup r.pending \subseteq r.keys /\ r.keys = call[c].keys
        /\ r.pc = end /\ r.pending = call[c].pending /\ r.listener = call[c].listener
        /\ r.todo = call[c].todo /\ r.got = call[c].got /\ r.exceptions = call[c].exceptions
    BY <1>2, CallFacts DEF Calls
  <1>4. Set(c, r) /\ call'[c] = r
    BY <1>2 DEF Return, Set, ListenInv, Types, CallTypes
  <1>5. \A k \in call[c].keys : FailureOf(call[c], k) => FailureOf(call[c], k)'
    BY <1>1, <1>2, <1>3, <1>4 DEF FailureOf, Ended, jobVars
  <1>6. again' = again
    BY <1>1 DEF jobVars
  <1>7. CallInv(c)'
    <2>1. CASE end = "raised"
      BY <1>1, <1>3, <1>4, <2>1, ResultsStay DEF CallInv
    <2>2. CASE end = "returned"
      <3>1. ~call[c].exceptions => \A k \in call[c].keys : call[c].got[k] # "FAILED"
        BY <1>2, <2>2
      <3>2. /\ call[c].listener = "done" /\ call[c].got \in [call[c].keys -> Statuses]
            /\ call[c].pending = {}
                 => \A k \in call[c].keys \ (call[c].todo \cup again) : call[c].got[k] \in TERMINAL
            /\ call[c].pending = {}
                 \/ (~call[c].exceptions /\ \E k \in call[c].keys : FailureOf(call[c], k))
        BY <1>1, CallFacts DEF CallInv
      <3>3. call[c].pending = {}
              \/ (~call[c].exceptions /\ \E k \in call[c].keys : FailureOf(call[c], k)')
        BY <1>5, <3>2
      <3>4. \A k \in call[c].keys \ call[c].pending : HasResult(k)'
        BY <1>1, ResultsStay
      <3>5. QED
        BY <1>1, <1>3, <1>4, <1>6, <2>2, <3>1, <3>2, <3>3, <3>4 DEF CallInv
    <2>3. QED
      BY <1>2, <2>1, <2>2
  <1>8. QED
    BY <1>1, <1>3, <1>4, <1>7, OwnStep

LEMMA CallMovesInv ==
  ASSUME ListenInv, NEW c \in Callers, Map(c) \/ CallStep(c) PROVE ListenInv'
  BY MapStepInv, EnqueueInv, EnqueueRaisesInv, SubscribeInv, CallbackInv, CollectInv,
     ReadRecordInv, ReturnInv, TimeoutInv DEF CallStep

(***************************************************************************)
(* The steps of those who wait                                             *)
(***************************************************************************)
LEMMA WaitFacts ==
  ASSUME ListenInv, NEW w \in Waiters
  PROVE  /\ wait[w] \in Waits /\ WaitInv(w) /\ JobInv
         /\ DOMAIN wait[w].seen \subseteq Keys
         /\ wait[w].seen \in [DOMAIN wait[w].seen -> Statuses]
  <1>1. wait[w] \in Waits /\ WaitInv(w) /\ JobInv
    BY DEF ListenInv, Types, MapInv, JobInv
  <1>2. QED
    BY <1>1, SeenKeys DEF Waits

\* A step of a wait that leaves the jobs alone.
LEMMA LookStep ==
  ASSUME ListenInv, NEW w \in Waiters, UNCHANGED <<jobVars, workerVars, call, inbox>>,
         NEW r \in Waits, SetWait(w, r), WaitInv(w)'
  PROVE  ListenInv'
  BY JobsStay, WaitFacts, WaitStepInv

LEMMA WaitForJobsInv ==
  ASSUME ListenInv, NEW w \in Waiters, WaitForJobs(w) PROVE ListenInv'
  <1>1. UNCHANGED <<jobVars, workerVars, call, inbox>> /\ wait[w].pc = "idle"
    BY DEF WaitForJobs
  <1>2. PICK K \in SUBSET Keys, e \in BOOLEAN :
          /\ \A k \in K : status[k] # "none"
          /\ SetWait(w, [wait[w] EXCEPT !.pc = "round", !.jobs = SetToSeq(K), !.at = 1,
                           !.seen = [k \in K |-> status[k]], !.raises = e])
    BY DEF WaitForJobs
  <1> DEFINE r == [wait[w] EXCEPT !.pc = "round", !.jobs = SetToSeq(K), !.at = 1,
                                  !.seen = [k \in K |-> status[k]], !.raises = e]
  <1>3. /\ SetToSeq(K) \in Seq(Keys) /\ Distinct(SetToSeq(K)) /\ ToSet(SetToSeq(K)) = K
    <2>1. IsFiniteSet(K)
      BY ListenAssumption, FS_Subset
    <2>2. QED
      BY <2>1, SetToSeqOrder, SeqMonotonic
  <1>4. [k \in K |-> status[k]] \in [K -> Statuses]
    BY WaitFacts DEF JobInv, JobTypes
  <1>5. [k \in K |-> status[k]] \in Got
    BY <1>4 DEF Got
  <1>6. /\ r \in Waits /\ r.pc = "round" /\ r.jobs = SetToSeq(K) /\ r.at = 1
        /\ r.seen = [k \in K |-> status[k]] /\ r.results = wait[w].results
    BY <1>3, <1>5, WaitFacts DEF Waits
  <1>7. wait'[w] = r /\ SetWait(w, r)
    BY <1>2 DEF SetWait, ListenInv, Types
  <1>8. /\ wait[w].results = <<>> /\ Distinct(wait[w].results)
        /\ ToSet(wait[w].results) = {}
    <2>1. wait[w].results = <<>> /\ Distinct(wait[w].results) /\ wait[w].results \in Seq(Keys)
      BY <1>1, WaitFacts DEF WaitInv, Waits
    <2>2. QED
      BY <2>1, Elements
  <1>9. UNCHANGED <<status, expired>>
    BY <1>1 DEF jobVars
  <1>10. WaitInv(w)'
    BY <1>2, <1>3, <1>4, <1>6, <1>7, <1>8, <1>9 DEF WaitInv
  <1>11. QED
    BY <1>1, <1>6, <1>7, <1>10, LookStep

\* One turn of the loop over the list.
LEMMA RefreshInv ==
  ASSUME ListenInv, NEW w \in Waiters, Refresh(w) PROVE ListenInv'
  <1>1. /\ UNCHANGED <<jobVars, workerVars, call, inbox>>
        /\ wait[w].pc = "round" /\ wait[w].at <= Len(wait[w].jobs)
    BY DEF Refresh
  <1>2. PICK r : r = wait[w]
    OBVIOUS
  <1>3. PICK k : k = r.jobs[r.at]
    OBVIOUS
  <1>4. PICK s : s = IF status[k] = "none" THEN r.seen[k] ELSE status[k]
    OBVIOUS
  <1> DEFINE gone == status[k] = "none"
             failed == r.raises /\ (gone \/ s = "FAILED")
             next == [r EXCEPT !.at = @ + 1, !.seen[k] = s]
             removed == [next EXCEPT !.jobs = RemoveAt(@, r.at)]
             done == [removed EXCEPT !.results = IF s = "COMPLETE" THEN Append(@, k) ELSE @]
             n == CASE failed -> [next EXCEPT !.pc = "raised"]
                    [] ~failed /\ gone /\ s \in TERMINAL -> [done EXCEPT !.pc = "raised"]
                    [] ~failed /\ gone /\ s \notin TERMINAL -> removed
                    [] ~failed /\ ~gone /\ s \in TERMINAL -> done
                    [] OTHER -> next
  <1>5. SetWait(w, n)
    BY <1>2, <1>3, <1>4 DEF Refresh
  <1>6. /\ r \in Waits /\ r.jobs \in Seq(Keys) /\ r.results \in Seq(Keys) /\ r.at \in Nat
        /\ Distinct(r.jobs) /\ Distinct(r.results) /\ ToSet(r.jobs) \cap ToSet(r.results) = {}
        /\ r.at > 0 /\ r.seen \in [DOMAIN r.seen -> Statuses] /\ ToSet(r.jobs) \subseteq DOMAIN r.seen
        /\ DOMAIN r.seen \subseteq Keys /\ r.pc = "round"
        /\ \A x \in DOMAIN r.seen :
             /\ status[x] = "none" => x \in expired
             /\ x \notin ToSet(r.jobs) \cup ToSet(r.results) => r.seen[x] = "FAILED" \/ x \in expired
    BY <1>1, <1>2, WaitFacts DEF WaitInv, Waits
  <1>7. r.at \in 1 .. Len(r.jobs) /\ k \in ToSet(r.jobs) /\ k \in DOMAIN r.seen /\ k \in Keys
    <2>1. r.at \in 1 .. Len(r.jobs)
      BY <1>1, <1>2, <1>6, Elements
    <2>2. k \in ToSet(r.jobs)
      BY <1>3, <1>6, <2>1, Elements
    <2>3. QED
      BY <1>6, <2>1, <2>2
  <1>8. s \in Statuses
    BY <1>4, <1>6, <1>7, WaitFacts DEF JobInv, JobTypes
  <1>9. PICK seen : seen = [r.seen EXCEPT ![k] = s]
    OBVIOUS
  <1>10. /\ seen \in [DOMAIN r.seen -> Statuses] /\ seen \in Got /\ DOMAIN seen = DOMAIN r.seen
         /\ seen[k] = s /\ \A x \in DOMAIN r.seen \ {k} : seen[x] = r.seen[x]
    <2>1. seen \in [DOMAIN r.seen -> Statuses] /\ DOMAIN r.seen \in SUBSET Keys
      BY <1>6, <1>7, <1>8, <1>9
    <2>2. QED
      BY <1>7, <1>9, <2>1 DEF Got
  <1>11. PICK jobs : jobs = RemoveAt(r.jobs, r.at)
    OBVIOUS
  <1>12. jobs \in Seq(Keys) /\ Distinct(jobs) /\ ToSet(jobs) = ToSet(r.jobs) \ {k}
    BY <1>3, <1>6, <1>7, <1>11, Removed
  <1>13. PICK results : results = IF s = "COMPLETE" THEN Append(r.results, k) ELSE r.results
    OBVIOUS
  <1>14. /\ results \in Seq(Keys) /\ Distinct(results)
         /\ ToSet(results) = IF s = "COMPLETE" THEN ToSet(r.results) \cup {k} ELSE ToSet(r.results)
    <2>1. k \notin ToSet(r.results)
      BY <1>6, <1>7
    <2>2. CASE s = "COMPLETE"
      <3>1. /\ Append(r.results, k) \in Seq(Keys) /\ Distinct(Append(r.results, k))
            /\ ToSet(Append(r.results, k)) = ToSet(r.results) \cup {k}
        BY <1>6, <1>7, <2>1, Appended
      <3>2. QED
        BY <1>13, <2>2, <3>1
    <2>3. CASE s # "COMPLETE"
      BY <1>6, <1>13, <2>3
    <2>4. QED
      BY <2>2, <2>3
  <1>15. /\ next \in Waits /\ next.pc = "round" /\ next.jobs = r.jobs /\ next.results = r.results
         /\ next.seen = seen /\ next.at = r.at + 1
    <2>1. next = [r EXCEPT !.at = r.at + 1, !.seen = seen]
      BY <1>9
    <2>2. r.at + 1 \in Nat /\ r \in Waits /\ seen \in Got /\ r.pc = "round"
      BY <1>6, <1>10
    <2> HIDE DEF next
    <2>3. QED
      BY <2>1, <2>2 DEF Waits
  <1>16. /\ removed \in Waits /\ removed.pc = "round" /\ removed.jobs = jobs
         /\ removed.results = r.results /\ removed.seen = seen /\ removed.at = r.at + 1
    BY <1>11, <1>12, <1>15 DEF Waits
  <1>17. /\ done \in Waits /\ done.pc = "round" /\ done.jobs = jobs
         /\ done.results = results /\ done.seen = seen /\ done.at = r.at + 1
    BY <1>13, <1>14, <1>16 DEF Waits
  <1>18. /\ UNCHANGED <<status, expired>>
         /\ ToSet(jobs) \cap ToSet(results) = {} /\ ToSet(jobs) \cap ToSet(r.results) = {}
         /\ ToSet(jobs) \subseteq DOMAIN seen /\ r.at + 1 > 0
    BY <1>1, <1>6, <1>10, <1>12, <1>14 DEF jobVars
  <1>19. n \in Waits /\ wait'[w] = n
    <2>1. n \in Waits
      BY <1>15, <1>16, <1>17 DEF Waits
    <2>2. QED
      BY <1>5, <2>1 DEF SetWait, ListenInv, Types
  <1>20. CASE failed
    <2>1. n.pc = "raised" /\ n.jobs = r.jobs /\ n.results = r.results
      BY <1>15, <1>20 DEF Waits
    <2>2. WaitInv(w)'
      BY <1>6, <1>19, <2>1 DEF WaitInv
    <2>3. QED
      BY <1>1, <1>5, <1>19, <2>2, LookStep
  <1>21. CASE ~failed /\ gone /\ s \in TERMINAL
    <2>1. n.pc = "raised" /\ n.jobs = jobs /\ n.results = results
      BY <1>17, <1>21 DEF Waits
    <2>2. WaitInv(w)'
      BY <1>12, <1>14, <1>18, <1>19, <2>1 DEF WaitInv
    <2>3. QED
      BY <1>1, <1>5, <1>19, <2>2, LookStep
  <1>22. CASE ~failed /\ gone /\ s \notin TERMINAL
    <2>1. /\ n.pc = "round" /\ n.jobs = jobs /\ n.results = r.results
          /\ n.seen = seen /\ n.at = r.at + 1
      BY <1>16, <1>22
    <2>2. k \in expired
      BY <1>6, <1>7, <1>22
    <2>3. \A x \in DOMAIN seen : status[x] = "none" => x \in expired
      BY <1>6, <1>10
    <2> HIDE DEF n
    <2>4. WaitInv(w)'
      BY <1>6, <1>10, <1>12, <1>18, <1>19, <2>1, <2>2, <2>3 DEF WaitInv
    <2>5. QED
      BY <1>1, <1>5, <1>19, <2>4, LookStep
  <1>23. CASE ~failed /\ ~gone /\ s \in TERMINAL
    <2>1. /\ n.pc = "round" /\ n.jobs = jobs /\ n.results = results
          /\ n.seen = seen /\ n.at = r.at + 1
      BY <1>17, <1>23
    <2>2. s = "COMPLETE" \/ s = "FAILED"
      BY <1>23 DEF TERMINAL
    <2>3. \A x \in DOMAIN seen :
            /\ status[x] = "none" => x \in expired
            /\ x \notin ToSet(jobs) \cup ToSet(results) => seen[x] = "FAILED" \/ x \in expired
      BY <1>6, <1>10, <1>12, <1>14, <2>2
    <2> HIDE DEF n
    <2>4. WaitInv(w)'
      BY <1>10, <1>12, <1>14, <1>18, <1>19, <2>1, <2>3 DEF WaitInv
    <2>5. QED
      BY <1>1, <1>5, <1>19, <2>4, LookStep
  <1>24. CASE ~failed /\ ~gone /\ s \notin TERMINAL
    <2>1. /\ n.pc = "round" /\ n.jobs = r.jobs /\ n.results = r.results
          /\ n.seen = seen /\ n.at = r.at + 1
      BY <1>15, <1>24
    <2> HIDE DEF n
    <2>2. WaitInv(w)'
      BY <1>6, <1>7, <1>10, <1>18, <1>19, <2>1 DEF WaitInv
    <2>3. QED
      BY <1>1, <1>5, <1>19, <2>2, LookStep
  <1>25. QED
    BY <1>20, <1>21, <1>22, <1>23, <1>24

LEMMA NextRoundInv ==
  ASSUME ListenInv, NEW w \in Waiters, NextRound(w) PROVE ListenInv'
  <1>1. UNCHANGED <<jobVars, workerVars, call, inbox>> /\ wait[w].pc = "round"
    BY DEF NextRound
  <1>2. UNCHANGED <<status, expired>>
    BY <1>1 DEF jobVars
  <1>3. CASE wait[w].jobs = <<>>
    <2> DEFINE r == [wait[w] EXCEPT !.pc = "returned"]
    <2>1. /\ r \in Waits /\ r.pc = "returned" /\ r.jobs = wait[w].jobs
          /\ r.results = wait[w].results /\ r.seen = wait[w].seen
      BY WaitFacts DEF Waits
    <2>2. SetWait(w, r) /\ wait'[w] = r
      BY <1>3 DEF NextRound, SetWait, ListenInv, Types
    <2> HIDE DEF r
    <2>3. WaitInv(w)'
      <3>1. PICK v : v = wait[w]
        OBVIOUS
      <3>2. /\ Distinct(v.jobs) /\ Distinct(v.results) /\ ToSet(v.jobs) \cap ToSet(v.results) = {}
            /\ \A k \in DOMAIN v.seen :
                 /\ status[k] = "none" => k \in expired
                 /\ k \notin ToSet(v.jobs) \cup ToSet(v.results) => v.seen[k] = "FAILED" \/ k \in expired
        BY <1>1, <3>1, WaitFacts DEF WaitInv
      <3>3. r.pc = "returned" /\ r.jobs = v.jobs /\ r.results = v.results /\ r.seen = v.seen
            /\ v.jobs = <<>> /\ wait'[w] = r
        BY <1>3, <2>1, <2>2, <3>1
      <3>4. QED
        BY <1>2, <3>2, <3>3 DEF WaitInv
    <2>4. QED
      BY <1>1, <2>1, <2>2, <2>3, LookStep
  <1>4. CASE wait[w].jobs # <<>>
    <2> DEFINE r == [wait[w] EXCEPT !.at = 1]
    <2>1. /\ r \in Waits /\ r.pc = "round" /\ r.jobs = wait[w].jobs /\ r.at = 1
          /\ r.results = wait[w].results /\ r.seen = wait[w].seen
      BY <1>1, WaitFacts DEF Waits
    <2>2. SetWait(w, r) /\ wait'[w] = r
      BY <1>4 DEF NextRound, SetWait, ListenInv, Types
    <2>3. WaitInv(w)'
      BY <1>1, <1>2, <2>1, <2>2, WaitFacts DEF WaitInv
    <2>4. QED
      BY <1>1, <2>1, <2>2, <2>3, LookStep
  <1>5. QED
    BY <1>3, <1>4

LEMMA GiveUpInv ==
  ASSUME ListenInv, NEW w \in Waiters, GiveUp(w) PROVE ListenInv'
  <1> DEFINE r == [wait[w] EXCEPT !.pc = "gave up"]
  <1>1. SetWait(w, r) /\ UNCHANGED <<workerVars, call, inbox>>
    BY DEF GiveUp
  <1>2. r \in Waits /\ r.pc = "gave up" /\ r.jobs = wait[w].jobs /\ r.results = wait[w].results
    BY WaitFacts DEF Waits
  <1>3. wait'[w] = r
    BY <1>1 DEF SetWait, ListenInv, Types
  <1>4. Keeps
    <2>1. CASE UNCHANGED jobVars
      BY <2>1, WaitFacts, JobsStay
    <2>2. CASE ~UNCHANGED jobVars
      <3>1. PICK K : K = {k \in ToSet(wait[w].jobs) : queued[k] > 0}
        OBVIOUS
      <3>2. Dequeue(K) /\ UNCHANGED faults
        BY <2>2, <3>1 DEF GiveUp
      <3>3. K \in SUBSET Keys
        <4>1. wait[w].jobs \in Seq(Keys)
          BY WaitFacts DEF Waits
        <4>2. QED
          BY <3>1, <4>1, Elements
      <3>4. faults' \in 0 .. MaxFaults
        BY <3>2, WaitFacts DEF JobInv, JobTypes
      <3>5. QED
        BY <3>2, <3>3, <3>4, WaitFacts, AbortKeeps
    <2>3. QED
      BY <2>1, <2>2
  <1>5. WaitInv(w)'
    BY <1>2, <1>3, WaitFacts DEF WaitInv
  <1>6. QED
    BY <1>1, <1>2, <1>4, <1>5, WaitStepInv

(***************************************************************************)
(* The invariant and what it says                                          *)
(***************************************************************************)
LEMMA InitInv == Init => ListenInv
  <1> SUFFICES ASSUME Init PROVE ListenInv
    OBVIOUS
  <1>1. /\ \A S : <<>> \in Seq(S) /\ Len(<<>>) = 0
        /\ <<>> \in Got
    BY EmptySeq DEF Got
  <1>2. ToSet(<<>>) = {}
    BY Elements, <1>1
  <1>3. JobTypes /\ WorkerTypes
    BY ListenAssumption DEF Init, JobTypes, WorkerTypes, Statuses
  <1>4. NewCall \in Calls /\ NewCall.keys = {} /\ NewCall.todo = {} /\ NewCall.pending = {}
        /\ NewCall.pc = "idle"
    BY <1>1 DEF NewCall, Calls
  <1>5. CallTypes
    BY <1>1, <1>4 DEF Init, CallTypes
  <1>6. \A c \in Callers : InboxTrue(c) /\ CallInv(c)
    BY <1>1, <1>4 DEF Init, InboxTrue, CallInv
  <1>7. NewWait \in Waits /\ NewWait.jobs = <<>> /\ NewWait.results = <<>> /\ NewWait.pc = "idle"
    BY <1>1 DEF NewWait, Waits
  <1>8. wait \in [Waiters -> Waits] /\ \A w \in Waiters : wait[w] = NewWait
    BY <1>7 DEF Init
  <1>9. Distinct(<<>>)
    BY <1>1 DEF Distinct
  <1>10. \A w \in Waiters : WaitInv(w)
    BY <1>2, <1>7, <1>8, <1>9 DEF WaitInv
  <1>11. NotesTrue
    BY DEF Init, NotesTrue, TERMINAL
  <1>12. QED
    BY <1>3, <1>5, <1>6, <1>8, <1>10, <1>11 DEF ListenInv, Types, MapInv

LEMMA StutterInv == ASSUME ListenInv, UNCHANGED vars PROVE ListenInv'
  <1>1. UNCHANGED <<jobVars, workerVars, call, inbox, wait>>
    BY DEF vars
  <1>2. Keeps /\ WorkerTypes'
    BY <1>1, JobsStay DEF ListenInv, Types, MapInv, JobInv, WorkerTypes, workerVars
  <1>3. QED
    BY <1>1, <1>2, JobOnly

\* ListenInv is inductive: every step of workers, of the server, of calls and
\* of waits keeps it.
LEMMA ListenInvariant == Spec => []ListenInv
  <1>1. ListenInv /\ [Next]_vars => ListenInv'
    BY CallMovesInv, WaitForJobsInv, RefreshInv, NextRoundInv, GiveUpInv, WorkerStepInv,
       JobMovesInv, StutterInv DEF Next
  <1>2. QED
    BY <1>1, InitInv, PTL DEF Spec

\* map returns after a result of each of its jobs, and with results unless a
\* record was written again after its first one, for any number of calls, of
\* keys, and of jobs that others enqueue, sweep or abort, however many updates
\* are lost and records expire.
THEOREM ResultsReturned == Spec => []MapReturnsResults
  <1>1. ListenInv => MapReturnsResults
    <2> SUFFICES ASSUME ListenInv, NEW c \in Callers, call[c].pc = "returned"
                 PROVE  IF call[c].exceptions
                        THEN /\ call[c].keys \subseteq ended
                             /\ \A k \in call[c].keys \ again : call[c].got[k] \in TERMINAL
                        ELSE call[c].keys \cap again = {}
                               => \A k \in call[c].keys : call[c].got[k] = "COMPLETE"
      BY DEF MapReturnsResults
    <2>1. CallInv(c) /\ call[c].todo = {}
      BY CallFacts DEF CallInv
    <2>2. CASE call[c].exceptions
      BY <2>1, <2>2 DEF CallInv, HasResult, Ended
    <2>3. CASE ~call[c].exceptions
      <3> SUFFICES ASSUME call[c].keys \cap again = {}
                   PROVE  \A k \in call[c].keys : call[c].got[k] = "COMPLETE"
        BY <2>3
      <3>1. \A k \in call[c].keys : call[c].got[k] # "FAILED"
        BY <2>1, <2>3 DEF CallInv
      <3>2. \A k \in call[c].keys : ~FailureOf(call[c], k)
        BY <2>1, <3>1 DEF FailureOf
      <3>3. call[c].pending = {}
        BY <2>1, <3>2 DEF CallInv
      <3>4. \A k \in call[c].keys : call[c].got[k] \in TERMINAL
        BY <2>1, <3>3 DEF CallInv
      <3>5. QED
        BY <3>1, <3>4 DEF TERMINAL
    <2>4. QED
      BY <2>2, <2>3
  <1>2. QED
    BY <1>1, ListenInvariant, PTL

\* wait_for_jobs counts no job twice and forgets none, for any list of jobs,
\* although the list is shortened while the loop walks over it and a record that
\* was read may change after that.
THEOREM CountedOnce == Spec => []WaitCountsOnce
  <1>1. ListenInv => WaitCountsOnce
    <2> SUFFICES ASSUME ListenInv, NEW w \in Waiters
                 PROVE  LET r == wait[w] IN
                        /\ r.pc # "raised" => IsInjective(r.results)
                        /\ ToSet(r.results) \cap ToSet(r.jobs) = {}
                        /\ r.pc = "returned" =>
                             \A k \in DOMAIN r.seen \ ToSet(r.results) :
                               r.seen[k] = "FAILED" \/ k \in expired
      BY ShapeOK DEF WaitCountsOnce, ListenInv
    <2>1. WaitInv(w) /\ wait[w].results \in Seq(Keys) /\ wait[w].jobs \in Seq(Keys)
      BY WaitFacts DEF Waits
    <2>2. IsInjective(wait[w].results)
      BY <2>1, Elements DEF WaitInv, Distinct, IsInjective
    <2>3. wait[w].jobs = <<>> => ToSet(wait[w].jobs) = {}
      BY <2>1, Elements
    <2>4. QED
      BY <2>1, <2>2, <2>3 DEF WaitInv
  <1>2. QED
    BY <1>1, ListenInvariant, PTL

(***************************************************************************)
(* The semaphore of the calls                                              *)
(***************************************************************************)
\* A slot of an enqueue is kept over a fetch only to return an existing job, and
\* a task that waits knows for which semaphore.
HoldAndWait ==
    /\ \A t \in Tasks :
         outer[t] # NoSlot /\ pc[t] \in {"fetch", "get"} => t \in Returning
    /\ \A t \in Tasks :
         pc[t] \in {"enqueue", "abort", "fetch"} => awaited[t] # NoSlot

SlotsInv == SemaphoreTypeOK /\ SlotsOfCalls /\ HoldAndWait

\* SlotsInv is inductive: every step of enqueue, abort and get_job_by_id that
\* enters or leaves a semaphore keeps it, and so does configure.
LEMMA SlotsInvariant == SemaphoreSpec => []SlotsInv
  <1> USE DEF SlotsInv, SemaphoreTypeOK, SlotsOfCalls, HoldAndWait, Pc,
              Semaphores, NoSlot
  <1>1. SemaphoreInit => SlotsInv
    <2> SUFFICES ASSUME SemaphoreInit PROVE SlotsInv
      OBVIOUS
    <2>1. PICK n \in Sizes : size = [s \in Semaphores |-> n]
      BY DEF SemaphoreInit
    <2>2. size \in [Semaphores -> Sizes] /\ current \in Semaphores
      BY <2>1, SemaphoreAssumption DEF SemaphoreInit
    <2>3. QED
      BY <2>2 DEF SemaphoreInit
  <1>2. SlotsInv /\ [SemaphoreNext]_semaphoreVars => SlotsInv'
    <2> SUFFICES ASSUME SlotsInv, [SemaphoreNext]_semaphoreVars PROVE SlotsInv'
      OBVIOUS
    <2> USE DEF Goto, ReadSemaphore, DoneWaiting
    <2>1. ASSUME NEW t \in Tasks, Call(t) PROVE SlotsInv'
      BY <2>1 DEF Call
    <2>2. ASSUME NEW t \in Tasks, EnterEnqueue(t) PROVE SlotsInv'
      BY <2>2 DEF EnterEnqueue, EnterOuter
    <2>3. ASSUME NEW t \in Tasks, EnterAbort(t) PROVE SlotsInv'
      BY <2>3 DEF EnterAbort, EnterOuter
    <2>4. ASSUME NEW t \in Tasks, EnqueueScript(t) PROVE SlotsInv'
      <3>1. \/ /\ t \in Returning
               /\ pc' = [pc EXCEPT ![t] = "fetch"]
               /\ awaited' = [awaited EXCEPT ![t] = current]
               /\ outer' = outer
            \/ /\ pc' = [pc EXCEPT ![t] = "idle"]
               /\ outer' = [outer EXCEPT ![t] = NoSlot]
               /\ awaited' = awaited
        BY <2>4 DEF EnqueueScript
      <3>2. /\ pc[t] = "script" /\ known' = TRUE
            /\ UNCHANGED <<current, size, inner>>
        BY <2>4 DEF EnqueueScript
      <3>3. CASE /\ t \in Returning /\ outer' = outer
                 /\ pc' = [pc EXCEPT ![t] = "fetch"]
                 /\ awaited' = [awaited EXCEPT ![t] = current]
        <4>1. SemaphoreTypeOK' /\ SlotsOfCalls'
          BY <3>2, <3>3
        <4>2. HoldAndWait'
          BY <3>2, <3>3
        <4>3. QED
          BY <4>1, <4>2
      <3>4. CASE /\ outer' = [outer EXCEPT ![t] = NoSlot]
                 /\ pc' = [pc EXCEPT ![t] = "idle"]
                 /\ awaited' = awaited
        <4>1. SemaphoreTypeOK' /\ SlotsOfCalls'
          BY <3>2, <3>4
        <4>2. HoldAndWait'
          BY <3>2, <3>4
        <4>3. QED
          BY <4>1, <4>2
      <3>5. QED
        BY <3>1, <3>3, <3>4
    <2>5. ASSUME NEW t \in Tasks, AbortPipeline(t) PROVE SlotsInv'
      BY <2>5 DEF AbortPipeline
    <2>6. ASSUME NEW t \in Tasks, EnterFetch(t) PROVE SlotsInv'
      BY <2>6 DEF EnterFetch
    <2>7. ASSUME NEW t \in Tasks, LeaveFetch(t) PROVE SlotsInv'
      BY <2>7 DEF LeaveFetch
    <2>8. ASSUME Configure PROVE SlotsInv'
      BY <2>8, SemaphoreAssumption DEF Configure
    <2>9. CASE KeyChanges \/ UNCHANGED semaphoreVars
      BY <2>9 DEF KeyChanges, semaphoreVars
    <2>10. QED
      BY <2>1, <2>2, <2>3, <2>4, <2>5, <2>6, <2>7, <2>8, <2>9
      DEF SemaphoreNext, Step
  <1>3. QED
    BY <1>1, <1>2, PTL DEF SemaphoreSpec

\* The slots in use are those of the calls under way, on every path through
\* enqueue, abort and get_job_by_id, however often the queue is configured.
THEOREM SlotsKept == SemaphoreSpec => []SlotsOfCalls
  <1>1. SlotsInv => SlotsOfCalls
    BY DEF SlotsInv
  <1>2. QED
    BY <1>1, SlotsInvariant, PTL

\* When fewer tasks than slots may fetch an existing job from inside a slot
\* (the others do not ask for it, or bypass the lock), the callers never all
\* wait for one another, however many there are and however often configure
\* puts a semaphore of another size between the two slots of a call.
THEOREM NoDeadlock == Roomy => (SemaphoreSpec => []NeverStuck)
  <1> SUFFICES ASSUME Roomy PROVE SemaphoreSpec => []NeverStuck
    OBVIOUS
  <1>1. SlotsInv => NeverStuck
    <2> SUFFICES ASSUME SlotsInv, NEW s \in Semaphores,
                        \A t \in Outer(s) \cup Inner(s) :
                           pc[t] \notin {"script", "pipeline", "get"}
                 PROVE  SemaphoreFree(s)
      BY DEF NeverStuck
    <2> USE DEF SlotsInv, SemaphoreTypeOK, SlotsOfCalls, HoldAndWait, Pc,
                Semaphores, NoSlot
    <2>1. Inner(s) = {} /\ \A t \in Outer(s) : pc[t] = "fetch"
      BY DEF Outer, Inner
    <2>2. Cardinality(Inner(s)) = 0
      BY <2>1, FS_EmptySet
    <2>3. Outer(s) \subseteq Returning \ Bypassing
      BY <2>1 DEF Outer
    <2>4. IsFiniteSet(Returning \ Bypassing)
      BY SemaphoreAssumption, FS_Subset
    <2>5. /\ Cardinality(Outer(s)) \in Nat
          /\ Cardinality(Returning \ Bypassing) \in Nat
          /\ Cardinality(Outer(s)) <= Cardinality(Returning \ Bypassing)
      BY <2>3, <2>4, FS_Subset, FS_CardinalityType
    <2>6. size[s] \in Nat /\ Cardinality(Returning \ Bypassing) < size[s]
      BY SemaphoreAssumption DEF Roomy
    <2>7. QED
      BY <2>2, <2>5, <2>6 DEF SemaphoreFree
  <1>2. QED
    BY <1>1, SlotsInvariant, PTL
=============================================================================
