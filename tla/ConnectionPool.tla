--------------------------- MODULE ConnectionPool ---------------------------
(***************************************************************************)
(* The connection pools: ConnectionPool and BlockingConnectionPool, shared *)
(* by threads, and AsyncConnectionPool, AsyncBlockingConnectionPool and    *)
(* OptimizedAsyncConnectionPool, shared by the tasks of an event loop.  A  *)
(* user takes a connection, which ensure_connection then connects, uses it *)
(* and releases it.  release and reset are those of redis-py, and so is    *)
(* the queue of the blocking pool of threads: it holds one None for every  *)
(* connection that may still be made.                                      *)
(***************************************************************************)
EXTENDS Integers, FiniteSets

CONSTANTS Users,           \* threads or tasks that use the pool
          Conns,           \* connection objects, used again once forgotten
          Kinds,           \* which of the five pools
          MaxConnections,  \* max_connections
          MaxTrouble,      \* bound on the failures, resets and missed calls
          None

AllKinds == {"threads", "threadsBlocking", "async", "asyncBlocking", "optimized"}

ASSUME KindAssumption == Kinds \subseteq AllKinds
ASSUME MaxAssumption == MaxConnections \in Nat \ {0} /\ MaxTrouble \in Nat
ASSUME NoneAssumption == None \notin Conns /\ None \notin Users
ASSUME UsersAssumption == IsFiniteSet(Users)

VARIABLES kind,              \* which pool
          autoReset, autoPause,  \* auto_reset_enabled, auto_pause_enabled
          available, inUse,  \* _available_connections, _in_use_connections
          created,           \* _created_connections
          lock,              \* who holds _lock over an await
          at, conn,          \* where each user is, and its connection
          failures, resets,  \* what went wrong so far, reset_pool so far
          missed,            \* wake-ups of tasks that did not wait any more
          cut,               \* connections in use were to be disconnected, or
                             \* idle ones without the lock
          closed, closing    \* the connections disconnected, or just being so,
                             \* by a task (kept until cut)

config == <<kind, autoReset, autoPause>>
sockets == <<closed, closing, cut>>
vars == <<config, available, inUse, created, lock, at, conn, failures, resets, missed, sockets>>

Closer == "disconnect"  \* holds the lock for disconnect()
ASSUME CloserAssumption == Closer \notin Users /\ Closer # None

Free == lock = None
Blocking == kind \in {"threadsBlocking", "asyncBlocking"}
Async == kind \in {"async", "asyncBlocking", "optimized"}
(* The pools whose release takes the lock and notifies a waiting task.     *)
HasCondition == kind \in {"asyncBlocking", "optimized"}

Waiting == {u \in Users : at[u] = "wait"}
Woken == {u \in Users : at[u] = "woken"}
Held == {conn[u] : u \in Users} \ {None}
Known == available \cup inUse \cup Held \cup closing

(* A new connection object.                                                *)
Fresh(c) == c = CHOOSE d \in Conns : d \notin Known

Cut == cut' = TRUE /\ closed' = {} /\ closing' = {}

Go(u, l) == at' = [at EXCEPT ![u] = l]
Take(u, c, l) == Go(u, l) /\ conn' = [conn EXCEPT ![u] = c]
Drop(u) == Take(u, None, "idle")

Init ==
  /\ kind \in Kinds
  /\ autoReset \in BOOLEAN /\ autoPause \in BOOLEAN
  /\ available = {} /\ inUse = {} /\ created = 0
  /\ lock = None
  /\ at = [u \in Users |-> "idle"]
  /\ conn = [u \in Users |-> None]
  /\ failures = 0 /\ resets = 0 /\ missed = 0
  /\ closed = {} /\ closing = {} /\ cut = FALSE

(***************************************************************************)
(* get_connection                                                          *)
(***************************************************************************)
Pop(u) ==
  /\ \E c \in available :
       /\ available' = available \ {c}
       /\ inUse' = inUse \cup {c}
       /\ Take(u, c, "ensure")
  /\ UNCHANGED created

\* Mutant of MakeConnection: the limit is off by one.
MakeOneMore(u, counted) ==
  /\ available = {}
  /\ created <= MaxConnections
  /\ created' = created + counted
  /\ \E c \in Conns \ Known :
       /\ Fresh(c)
       /\ inUse' = inUse \cup {c}
       /\ Take(u, c, "ensure")
  /\ UNCHANGED available

(* make_connection refuses when created has reached the maximum.           *)
MakeConnection(u, counted) ==
  /\ available = {}
  /\ created < MaxConnections
  /\ created' = created + counted
  /\ \E c \in Conns \ Known :
       /\ Fresh(c)
       /\ inUse' = inUse \cup {c}
       /\ Take(u, c, "ensure")
  /\ UNCHANGED available

Exhausted == available = {} /\ created >= MaxConnections

(* A pool that does not block: when there are too many connections the     *)
(* pool is reset or the caller gets the error.  A thread does all of it    *)
(* under the lock; a task keeps the lock while the old connections are     *)
(* disconnected, which a release does not wait for.                        *)
Get(u) ==
  /\ kind \in {"threads", "async"} /\ at[u] = "idle" /\ Free
  /\ \/ (Pop(u) \/ MakeConnection(u, 1)) /\ UNCHANGED <<lock, resets>>
     \/ /\ Exhausted /\ autoReset /\ resets < MaxTrouble
        /\ lock' = u
        /\ Go(u, "reset")
        /\ resets' = resets + 1
        /\ UNCHANGED <<available, inUse, created, conn>>
  /\ UNCHANGED <<config, missed, failures, sockets>>
ResetAndMake(u) ==
  /\ at[u] = "reset" /\ lock = u
  /\ Cut
  /\ available' = {}
  /\ \E c \in Conns \ Known :
       /\ Fresh(c)
       /\ inUse' = {c}
       /\ Take(u, c, "ensure")
  /\ created' = 1
  /\ lock' = None
  /\ UNCHANGED <<config, missed, failures, resets>>

(* A blocking pool of threads: the queue, and the None entries below the   *)
(* connections; one of tasks: can_get_connection looks at those in use.    *)
CanGet == IF kind = "threadsBlocking" THEN available # {} \/ created < MaxConnections
          ELSE available # {} \/ Cardinality(inUse) < MaxConnections
GetBlocking(u) ==
  /\ Blocking /\ at[u] \in {"idle", "woken"} /\ Free
  /\ IF CanGet THEN Pop(u) \/ MakeConnection(u, 1)
     ELSE Go(u, "wait") /\ UNCHANGED <<available, inUse, created, conn>>
  /\ UNCHANGED <<config, missed, lock, failures, resets, sockets>>
(* A thread in Queue.get waits on the queue itself.                        *)
GetQueued(u) ==
  /\ kind = "threadsBlocking" /\ at[u] = "wait"
  /\ Pop(u) \/ MakeConnection(u, 1)
  /\ UNCHANGED <<config, missed, lock, failures, resets, sockets>>

\* Mutant of GetFast: the connection is looked at, not popped.
GetFastPeek(u) ==
  /\ kind = "optimized" /\ at[u] = "idle"
  /\ \/ /\ available = {}
        /\ Go(u, "slow")
        /\ UNCHANGED <<available, conn>>
     \/ \E c \in available :
          /\ UNCHANGED available
          /\ Take(u, c, "popped")
  /\ UNCHANGED <<config, missed, inUse, created, lock, failures, resets, sockets>>

(* The optimized pool pops without the lock, and then waits for it.        *)
GetFast(u) ==
  /\ kind = "optimized" /\ at[u] = "idle"
  /\ \/ /\ available = {}
        /\ Go(u, "slow")
        /\ UNCHANGED <<available, conn>>
     \/ \E c \in available :
          /\ available' = available \ {c}
          /\ Take(u, c, "popped")
  /\ UNCHANGED <<config, missed, inUse, created, lock, failures, resets, sockets>>
Claim(u) ==
  /\ at[u] = "popped" /\ Free
  /\ IF conn[u] \notin inUse
     THEN inUse' = inUse \cup {conn[u]} /\ Go(u, "ensure") /\ UNCHANGED <<available, conn>>
     ELSE available' = available \cup {conn[u]} /\ Take(u, None, "slow") /\ UNCHANGED inUse
  /\ UNCHANGED <<config, missed, created, lock, failures, resets, sockets>>
(* make_connection counts the connection, and the caller counts it again.  *)
GetSlow(u) ==
  /\ at[u] = "slow" /\ Free
  /\ \/ Pop(u)
     \/ MakeConnection(u, 2)
     \/ Exhausted /\ Go(u, "block") /\ UNCHANGED <<available, inUse, created, conn>>
  /\ UNCHANGED <<config, missed, lock, failures, resets, sockets>>
GetBlock(u) ==
  /\ kind = "optimized" /\ at[u] \in {"block", "woken"} /\ Free
  /\ \/ Pop(u)
     \/ MakeConnection(u, 2)
     \/ Exhausted /\ Go(u, "wait") /\ UNCHANGED <<available, inUse, created, conn>>
  /\ UNCHANGED <<config, missed, lock, failures, resets, sockets>>

(* A task that was called leaves before it has the lock again.             *)
Missed(u) == missed' = IF at[u] = "woken" THEN missed + 1 ELSE missed

(* The timeout of a blocking pool.  That of a task spans its whole wait,   *)
(* also the part after it was called; the call is lost then (asyncio       *)
(* passes it on from Python 3.13 on).                                      *)
TimedOut(u) ==
  /\ Blocking
  /\ \/ at[u] = "wait"
     \/ at[u] = "woken" /\ missed < MaxTrouble
  /\ Go(u, "idle")
  /\ Missed(u)
  /\ UNCHANGED <<config, available, inUse, created, lock, conn, failures, resets, sockets>>

(***************************************************************************)
(* ensure_connection: connect, check, reconnect, reestablish               *)
(***************************************************************************)
(* The socket is open: connect() opens it unless it is already.            *)
Opened(u) == closed' = closed \ {conn[u]} /\ UNCHANGED <<closing, cut>>
Connect(u) ==
  /\ at[u] = "ensure"
  /\ \/ Go(u, "check") /\ Opened(u)
     \/ autoPause /\ Go(u, "pause") /\ UNCHANGED sockets  \* a timeout: the host may come back
  /\ UNCHANGED <<config, missed, available, inUse, created, lock, conn, failures, resets>>
(* A closed socket, or for a thread unread data, is worth a new attempt.   *)
CheckRead(u) ==
  /\ at[u] = "check"
  /\ Go(u, "use") \/ Go(u, "reconnect")
  /\ UNCHANGED <<config, missed, available, inUse, created, lock, conn, failures, resets, sockets>>
Reconnect(u) ==
  /\ at[u] = "reconnect"
  /\ \/ Go(u, "use") /\ Opened(u)
     \/ Go(u, "pauseAgain") /\ UNCHANGED sockets
  /\ UNCHANGED <<config, missed, available, inUse, created, lock, conn, failures, resets>>
(* The host is asked again and again for a while.                          *)
Reestablish(u) ==
  /\ \/ at[u] = "pause" /\ Go(u, "check")
     \/ at[u] = "pauseAgain" /\ Go(u, "use")
  /\ Opened(u)
  /\ UNCHANGED <<config, missed, available, inUse, created, lock, conn, failures, resets>>
(* The optimized pool looks at the health of the connection first, which   *)
(* is cached for a while: one that is not healthy is opened anew.          *)
HealthCheck(u) ==
  /\ kind = "optimized" /\ at[u] = "ensure"
  /\ Opened(u)
  /\ UNCHANGED <<config, missed, available, inUse, created, lock, at, conn, failures, resets>>
Connecting == {"ensure", "pause", "reconnect", "pauseAgain"}
(* Where connecting fails the error is raised and the connection stays     *)
(* among those in use.                                                     *)
EnsureFails(u) ==
  /\ at[u] \in Connecting /\ failures < MaxTrouble
  /\ failures' = failures + 1
  /\ Drop(u)
  /\ UNCHANGED <<config, missed, available, inUse, created, lock, resets, sockets>>

\* Mutant of Notified: nobody is called.
NotNotified(l) == at' = l

Notified(l) ==
  IF HasCondition /\ \E w \in Users : l[w] = "wait"
  THEN \E w \in Users : l[w] = "wait" /\ at' = [l EXCEPT ![w] = "woken"]
  ELSE at' = l

\* Mutant of Release: the connection stays among those in use.
ReleaseKeeps(u) ==
  /\ at[u] \in {"use", "check"}  \* check: can_read was interrupted
  /\ HasCondition => Free
  /\ LET c == conn[u]
         l == [at EXCEPT ![u] = "idle"]
         room == created - Cardinality(available) > 0
     IN IF c \in inUse \/ (kind = "threadsBlocking" /\ room)
        THEN available' = available \cup {c} /\ inUse' = inUse /\ Notified(l)
        ELSE at' = l /\ UNCHANGED <<available, inUse>>
  /\ conn' = [conn EXCEPT ![u] = None]
  /\ UNCHANGED <<config, missed, created, lock, failures, resets, sockets>>

(* release.  A connection the pool does not know any more is ignored by    *)
(* the pool of threads and fits in the queue of its blocking kind if there *)
(* is room; an async pool raises KeyError before it notifies anybody.      *)
Release(u) ==
  /\ at[u] \in {"use", "check"}  \* check: can_read was interrupted
  /\ HasCondition => Free
  /\ LET c == conn[u]
         l == [at EXCEPT ![u] = "idle"]
         room == created - Cardinality(available) > 0
     IN IF c \in inUse \/ (kind = "threadsBlocking" /\ room)
        THEN available' = available \cup {c} /\ inUse' = inUse \ {c} /\ Notified(l)
        ELSE at' = l /\ UNCHANGED <<available, inUse>>
  /\ conn' = [conn EXCEPT ![u] = None]
  /\ UNCHANGED <<config, missed, created, lock, failures, resets, sockets>>

(* A task is cancelled: while it waits for the lock with a connection it   *)
(* has popped, while it connects, or while it waits for its turn.          *)
Cancel(u) ==
  /\ Async /\ at[u] \in Connecting \cup {"popped", "wait", "woken"}
  /\ failures < MaxTrouble
  /\ failures' = failures + 1
  /\ Drop(u)
  /\ Missed(u)
  /\ UNCHANGED <<config, available, inUse, created, lock, resets, sockets>>

(***************************************************************************)
(* reset_pool, and the warming of the optimized pool                       *)
(***************************************************************************)
(* reset_pool takes no lock, so that it may also come in while the lock is *)
(* held; nobody is notified.                                               *)
ResetPool ==
  /\ resets < MaxTrouble
  /\ resets' = resets + 1
  /\ Cut
  /\ available' = {} /\ inUse' = {} /\ created' = 0
  /\ UNCHANGED <<config, missed, lock, at, conn, failures>>

\* Mutant of Disconnect: the lock is free again before the tasks are done.
DisconnectUnlocked(inuse, locked) ==
  /\ locked => Free
  /\ IF kind = "threadsBlocking" \/ inuse \/ ~locked THEN Cut
     ELSE /\ UNCHANGED cut
          /\ IF Async THEN closing' = available /\ UNCHANGED closed
             ELSE closed' = closed \cup available /\ UNCHANGED closing
  /\ UNCHANGED lock
  /\ UNCHANGED <<config, missed, available, inUse, created, at, conn, failures, resets>>

(* disconnect(inuse_connections, with_lock): the blocking pool of threads  *)
(* looks at neither and disconnects all of them; tasks disconnect together *)
(* while the lock is held.                                                 *)
Disconnect(inuse, locked) ==
  /\ locked => Free
  /\ IF kind = "threadsBlocking" \/ inuse \/ ~locked THEN Cut
     ELSE /\ UNCHANGED cut
          /\ IF Async THEN closing' = available /\ UNCHANGED closed
             ELSE closed' = closed \cup available /\ UNCHANGED closing
  /\ lock' = IF Async /\ locked THEN Closer ELSE lock
  /\ UNCHANGED <<config, missed, available, inUse, created, at, conn, failures, resets>>
(* recreate disconnects as well, and its caller goes on with a new pool.   *)
Recreate == \E inuse, locked \in BOOLEAN : Disconnect(inuse, locked)
Disconnected ==
  /\ lock = Closer \/ closing # {}
  /\ closed' = closed \cup closing /\ closing' = {}
  /\ lock' = IF lock = Closer THEN None ELSE lock
  /\ UNCHANGED <<config, missed, available, inUse, created, at, conn, failures, resets, cut>>

(* warm_pool makes connections under the lock and counts each one twice;   *)
(* connect is awaited in between.                                          *)
WarmPool(u) ==
  /\ kind = "optimized" /\ at[u] = "idle" /\ Free
  /\ created < MaxConnections
  /\ lock' = u
  /\ created' = created + 1
  /\ \E c \in Conns \ Known : Fresh(c) /\ Take(u, c, "warm")
  /\ UNCHANGED <<config, missed, available, inUse, failures, resets, sockets>>
WarmConnected(u) ==
  /\ at[u] = "warm"
  /\ Opened(u)
  /\ available' = available \cup {conn[u]}
  /\ \/ /\ created + 1 < MaxConnections
        /\ created' = created + 2
        /\ \E c \in Conns \ Known : Fresh(c) /\ Take(u, c, "warm")
        /\ UNCHANGED lock
     \/ created' = created + 1 /\ lock' = None /\ Drop(u)
  /\ UNCHANGED <<config, missed, inUse, failures, resets>>
WarmFails(u) ==
  /\ at[u] = "warm" /\ failures < MaxTrouble
  /\ failures' = failures + 1
  /\ lock' = None
  /\ Drop(u)
  /\ UNCHANGED <<config, missed, available, inUse, created, resets, sockets>>

Next ==
  \/ ResetPool
  \/ \E inuse, locked \in BOOLEAN : Disconnect(inuse, locked)
  \/ Recreate
  \/ Disconnected
  \/ \E u \in Users :
       \/ Get(u) \/ ResetAndMake(u) \/ GetBlocking(u) \/ GetQueued(u) \/ TimedOut(u)
       \/ GetFast(u) \/ Claim(u) \/ GetSlow(u) \/ GetBlock(u)
       \/ HealthCheck(u) \/ Connect(u) \/ CheckRead(u) \/ Reconnect(u) \/ Reestablish(u) \/ EnsureFails(u)
       \/ Release(u) \/ Cancel(u)
       \/ WarmPool(u) \/ WarmConnected(u) \/ WarmFails(u)

Spec == Init /\ [][Next]_vars

(***************************************************************************)
(* Properties                                                              *)
(***************************************************************************)
Labels == {"idle", "reset", "wait", "woken", "popped", "slow", "block", "use", "check", "warm"} \cup Connecting

(* The shape of the pool's state.                                          *)
TypeOK ==
  /\ kind \in Kinds /\ autoReset \in BOOLEAN /\ autoPause \in BOOLEAN
  /\ available \subseteq Conns /\ inUse \subseteq Conns
  /\ created \in Nat
  /\ lock \in Users \cup {None, Closer}
  /\ at \in [Users -> Labels]
  /\ conn \in [Users -> Conns \cup {None}]
  /\ failures \in Nat /\ resets \in Nat /\ missed \in Nat
  /\ closed \subseteq Conns /\ closing \subseteq Conns /\ cut \in BOOLEAN

(* A connection carries one conversation: no two users ever have the same  *)
(* one, and none that a user has can be handed out, whatever was reset,    *)
(* cancelled or lost in between.                                           *)
OneHolder ==
  /\ \A u, v \in Users : u # v /\ conn[u] # None => conn[u] # conn[v]
  /\ \A u \in Users : conn[u] \notin available

(* A connection is lost to the pool, in use by nobody, only by a failure   *)
(* or a cancellation, and each costs at most one.                          *)
LeaksNeedFailures ==
  /\ Cardinality(inUse \ Held) <= failures
  /\ kind # "optimized" /\ resets = 0 =>
       created <= Cardinality(Known) + failures

(* Unless the pool was reset, the connections it knows fit in the maximum, *)
(* which the optimized pool, counting twice, reaches with half of them.    *)
PoolIsBounded ==
  resets = 0 =>
    /\ Cardinality(Known) <= MaxConnections
    /\ kind = "optimized" => 2 * Cardinality(available \cup inUse) <= created + 1

(* Until a reset, somebody waits only while the pool is at its maximum,    *)
(* and not over a connection that nobody was told of: for every idle one a *)
(* task was called, and is on its way or left before it had the lock (a    *)
(* thread waits on the queue itself).  Until a failure, some connection is *)
(* idle or with a user who will release it.                                *)
WaitersAreServed ==
  resets = 0 /\ Waiting # {} =>
    /\ created >= MaxConnections
    /\ HasCondition => Cardinality(available) <= Cardinality(Woken) + missed
    /\ failures = 0 => available \cup Held # {}

(* Disconnecting the connections that are idle, under the lock, cuts off   *)
(* nobody: whoever was given a connection to use has an open one, also if  *)
(* it was idle when the disconnecting began.                               *)
UsersAreConnected ==
  ~cut => \A u \in Users : at[u] = "use" => conn[u] \notin closed
=============================================================================
