------------------------ MODULE ConnectionPoolProofs ------------------------
(* Proofs about ConnectionPool, for any users, connections and limits. *)
EXTENDS ConnectionPool, FiniteSetTheorems, TLAPS

(* The places in get_connection and after it where a user has a connection. *)
Having == {"popped", "use", "check", "warm"} \cup Connecting

(* A user who is at such a place has one, and nobody else has it.           *)
HolderInv ==
  /\ TypeOK
  /\ \A u \in Users : at[u] \in Having => conn[u] \in Conns
  /\ OneHolder

(* Taking a connection that nobody has.                                     *)
LEMMA Taken ==
  ASSUME HolderInv, NEW u \in Users, NEW c \in Conns, NEW l \in Labels,
         \A v \in Users : conn[v] # c,
         Take(u, c, l), available' \subseteq available \ {c}
  PROVE  /\ at' \in [Users -> Labels] /\ conn' \in [Users -> Conns \cup {None}]
         /\ \A v \in Users : at'[v] \in Having => conn'[v] \in Conns
         /\ OneHolder'
  BY NoneAssumption DEF HolderInv, TypeOK, OneHolder, Take, Go

(* Letting go of a connection, which may go back to those available.        *)
LEMMA LetGo ==
  ASSUME HolderInv, NEW u \in Users,
         conn' = [conn EXCEPT ![u] = None],
         at' \in [Users -> Labels], at'[u] \notin Having,
         \A v \in Users \ {u} : at'[v] = at[v] \/ at'[v] \notin Having,
         available' \subseteq available \cup ({conn[u]} \ {None})
  PROVE  /\ at' \in [Users -> Labels] /\ conn' \in [Users -> Conns \cup {None}]
         /\ \A v \in Users : at'[v] \in Having => conn'[v] \in Conns
         /\ OneHolder'
  BY NoneAssumption DEF HolderInv, TypeOK, OneHolder

(* Going on with what one has.                                              *)
LEMMA GoesOn ==
  ASSUME HolderInv, NEW u \in Users, NEW l \in Labels,
         Go(u, l), conn' = conn, available' \subseteq available,
         l \in Having => at[u] \in Having
  PROVE  /\ at' \in [Users -> Labels] /\ conn' \in [Users -> Conns \cup {None}]
         /\ \A v \in Users : at'[v] \in Having => conn'[v] \in Conns
         /\ OneHolder'
  BY NoneAssumption DEF HolderInv, TypeOK, OneHolder, Go

LEMMA PopHolds ==
  ASSUME HolderInv, NEW u \in Users, Pop(u)
  PROVE  /\ at' \in [Users -> Labels] /\ conn' \in [Users -> Conns \cup {None}]
         /\ \A v \in Users : at'[v] \in Having => conn'[v] \in Conns
         /\ OneHolder'
         /\ available' \subseteq Conns /\ inUse' \subseteq Conns /\ created' \in Nat
  <1>1. PICK c \in available : /\ available' = available \ {c}
                               /\ inUse' = inUse \cup {c}
                               /\ Take(u, c, "ensure")
    BY DEF Pop
  <1>2. c \in Conns /\ \A v \in Users : conn[v] # c
    BY DEF HolderInv, TypeOK, OneHolder
  <1>3. "ensure" \in Labels
    BY DEF Labels, Connecting
  <1>4. QED
    BY <1>1, <1>2, <1>3, Taken DEF HolderInv, TypeOK, Pop

LEMMA MadeHolds ==
  ASSUME HolderInv, NEW u \in Users, NEW n \in Nat, MakeConnection(u, n)
  PROVE  /\ at' \in [Users -> Labels] /\ conn' \in [Users -> Conns \cup {None}]
         /\ \A v \in Users : at'[v] \in Having => conn'[v] \in Conns
         /\ OneHolder'
         /\ available' \subseteq Conns /\ inUse' \subseteq Conns /\ created' \in Nat
  <1>1. PICK c \in Conns \ Known : inUse' = inUse \cup {c} /\ Take(u, c, "ensure")
    BY DEF MakeConnection
  <1>2. available' = {}
    BY DEF MakeConnection
  <1>3. \A v \in Users : conn[v] # c
    BY <1>1, NoneAssumption DEF Known, Held
  <1>4. "ensure" \in Labels
    BY DEF Labels, Connecting
  <1>5. at' \in [Users -> Labels] /\ conn' \in [Users -> Conns \cup {None}]
         /\ (\A v \in Users : at'[v] \in Having => conn'[v] \in Conns)
         /\ OneHolder'
    BY <1>1, <1>2, <1>3, <1>4, Taken
  <1>6. QED
    BY <1>1, <1>2, <1>5 DEF HolderInv, TypeOK, MakeConnection

LEMMA HolderInvariant == Spec => []HolderInv
  <1>1. Init => HolderInv
    <2> SUFFICES ASSUME Init PROVE HolderInv
      OBVIOUS
    <2>1. "idle" \in Labels \ Having
      BY DEF Labels, Having, Connecting
    <2>2. TypeOK
      BY <2>1 DEF Init, TypeOK
    <2>3. OneHolder
      BY DEF Init, OneHolder
    <2>4. QED
      BY <2>1, <2>2, <2>3 DEF Init, HolderInv
  <1>2. HolderInv /\ [Next]_vars => HolderInv'
    <2> SUFFICES ASSUME HolderInv, [Next]_vars PROVE HolderInv'
      OBVIOUS
    <2> DEFINE Kept == /\ at' \in [Users -> Labels] /\ conn' \in [Users -> Conns \cup {None}]
                       /\ \A v \in Users : at'[v] \in Having => conn'[v] \in Conns
                       /\ OneHolder'
               Counted == available' \subseteq Conns /\ inUse' \subseteq Conns /\ created' \in Nat
    <2>1. TypeOK
      BY DEF HolderInv
    <2>2. ASSUME NEW u \in Users, Get(u) PROVE HolderInv'
      <3>1. CASE Pop(u)
        BY <2>1, <2>2, <3>1, PopHolds DEF Get, HolderInv, TypeOK, config, sockets
      <3>2. CASE MakeConnection(u, 1)
        BY <2>1, <2>2, <3>2, MadeHolds DEF Get, HolderInv, TypeOK, config, sockets
      <3>3. CASE ~Pop(u) /\ ~MakeConnection(u, 1)
        <4>1. Go(u, "reset") /\ UNCHANGED <<available, inUse, created, conn, config, sockets>>
          BY <2>2, <3>3 DEF Get
        <4>2. "reset" \in Labels \ Having
          BY DEF Labels, Having, Connecting
        <4>3. Kept
          BY <4>1, <4>2, GoesOn
        <4>4. resets' \in Nat /\ lock' = u /\ failures' = failures /\ missed' = missed
          BY <2>1, <2>2, <3>3 DEF Get, TypeOK
        <4>5. QED
          BY <2>1, <4>1, <4>3, <4>4 DEF HolderInv, TypeOK, config, sockets
      <3>4. QED
        BY <3>1, <3>2, <3>3
    <2>3. ASSUME NEW u \in Users, ResetAndMake(u) PROVE HolderInv'
      <3>1. PICK c \in Conns \ Known : inUse' = {c} /\ Take(u, c, "ensure")
        BY <2>3 DEF ResetAndMake
      <3>2. \A v \in Users : conn[v] # c
        BY <3>1, NoneAssumption DEF Known, Held
      <3>3. "ensure" \in Labels
        BY DEF Labels, Connecting
      <3>4. available' = {}
        BY <2>3 DEF ResetAndMake
      <3>5. Kept
        BY <3>1, <3>2, <3>3, <3>4, Taken
      <3>6. QED
        BY <2>1, <2>3, <3>1, <3>5 DEF ResetAndMake, HolderInv, TypeOK, config, Cut
    <2>4. ASSUME NEW u \in Users, GetBlocking(u) PROVE HolderInv'
      <3>1. CASE Pop(u)
        BY <2>1, <2>4, <3>1, PopHolds DEF GetBlocking, HolderInv, TypeOK, config, sockets
      <3>2. CASE MakeConnection(u, 1)
        BY <2>1, <2>4, <3>2, MadeHolds DEF GetBlocking, HolderInv, TypeOK, config, sockets
      <3>3. CASE ~Pop(u) /\ ~MakeConnection(u, 1)
        <4>1. Go(u, "wait") /\ UNCHANGED <<available, inUse, created, conn>>
          BY <2>4, <3>3 DEF GetBlocking
        <4>2. "wait" \in Labels \ Having
          BY DEF Labels, Having, Connecting
        <4>3. Kept
          BY <4>1, <4>2, GoesOn
        <4>4. QED
          BY <2>1, <2>4, <4>1, <4>3 DEF GetBlocking, HolderInv, TypeOK, config, sockets
      <3>4. QED
        BY <3>1, <3>2, <3>3
    <2>5. ASSUME NEW u \in Users, GetQueued(u) PROVE HolderInv'
      <3>1. Kept /\ Counted
        BY <2>5, PopHolds, MadeHolds DEF GetQueued
      <3>2. QED
        BY <2>1, <2>5, <3>1 DEF GetQueued, HolderInv, TypeOK, config, sockets
    <2>6. ASSUME NEW u \in Users, GetFast(u) PROVE HolderInv'
      <3>1. {"slow", "popped"} \subseteq Labels /\ "slow" \notin Having
        BY DEF Labels, Having, Connecting
      <3>2. CASE Go(u, "slow") /\ UNCHANGED <<available, conn>>
        <4>1. Kept
          BY <3>1, <3>2, GoesOn
        <4>2. QED
          BY <2>1, <2>6, <3>2, <4>1 DEF GetFast, HolderInv, TypeOK, config, sockets
      <3>3. ASSUME NEW c \in available, available' = available \ {c}, Take(u, c, "popped")
            PROVE  HolderInv'
        <4>1. c \in Conns /\ \A v \in Users : conn[v] # c
          BY DEF HolderInv, TypeOK, OneHolder
        <4>2. Kept
          BY <3>1, <3>3, <4>1, Taken
        <4>3. QED
          BY <2>1, <2>6, <3>3, <4>2 DEF GetFast, HolderInv, TypeOK, config, sockets
      <3>4. QED
        BY <2>6, <3>2, <3>3 DEF GetFast
    <2>7. ASSUME NEW u \in Users, Claim(u) PROVE HolderInv'
      <3>1. {"slow", "ensure"} \subseteq Labels /\ "slow" \notin Having /\ "popped" \in Having
        BY DEF Labels, Having, Connecting
      <3>2. conn[u] \in Conns
        BY <2>7, <3>1 DEF Claim, HolderInv
      <3>3. CASE conn[u] \notin inUse
        <4>1. Go(u, "ensure") /\ UNCHANGED <<available, conn>> /\ inUse' = inUse \cup {conn[u]}
          BY <2>7, <3>3 DEF Claim
        <4>2. at[u] \in Having
          BY <2>7, <3>1 DEF Claim
        <4>3. Kept
          BY <3>1, <4>1, <4>2, GoesOn
        <4>4. QED
          BY <2>1, <2>7, <3>2, <4>1, <4>3 DEF Claim, HolderInv, TypeOK, config, sockets
      <3>4. CASE conn[u] \in inUse
        <4>1. available' = available \cup {conn[u]} /\ Take(u, None, "slow") /\ inUse' = inUse
          BY <2>7, <3>4 DEF Claim
        <4>2. Kept
          BY <2>1, <3>1, <3>2, <4>1, NoneAssumption, LetGo DEF Take, Go, TypeOK
        <4>3. QED
          BY <2>1, <2>7, <3>2, <4>1, <4>2 DEF Claim, HolderInv, TypeOK, config, sockets
      <3>5. QED
        BY <3>3, <3>4
    <2>8. ASSUME NEW u \in Users, GetSlow(u) \/ GetBlock(u) PROVE HolderInv'
      <3>1. {"block", "wait"} \subseteq Labels \ Having
        BY DEF Labels, Having, Connecting
      <3>2. CASE Pop(u) \/ MakeConnection(u, 2)
        <4>1. Kept /\ Counted
          BY <3>2, PopHolds, MadeHolds
        <4>2. QED
          BY <2>1, <2>8, <4>1 DEF GetSlow, GetBlock, HolderInv, TypeOK, config, sockets
      <3>3. CASE ~Pop(u) /\ ~MakeConnection(u, 2)
        <4>1. PICK l \in {"block", "wait"} : Go(u, l)
          BY <2>8, <3>3 DEF GetSlow, GetBlock
        <4>2. UNCHANGED <<available, inUse, created, conn>>
          BY <2>8, <3>3 DEF GetSlow, GetBlock
        <4>3. Kept
          BY <3>1, <4>1, <4>2, GoesOn
        <4>4. QED
          BY <2>1, <2>8, <4>2, <4>3 DEF GetSlow, GetBlock, HolderInv, TypeOK, config, sockets
      <3>4. QED
        BY <3>2, <3>3
    <2>9. ASSUME NEW u \in Users, TimedOut(u) PROVE HolderInv'
      <3>1. "idle" \in Labels \ Having
        BY DEF Labels, Having, Connecting
      <3>2. Kept
        BY <2>9, <3>1, GoesOn DEF TimedOut
      <3>3. QED
        BY <2>1, <2>9, <3>2 DEF TimedOut, Missed, HolderInv, TypeOK, config, sockets
    <2>10. ASSUME NEW u \in Users,
                  HealthCheck(u) \/ Connect(u) \/ CheckRead(u) \/ Reconnect(u) \/ Reestablish(u)
           PROVE  HolderInv'
      <3>1. Having \subseteq Labels
        BY DEF Labels, Having
      <3>2. at[u] \in Having
        BY <2>10 DEF HealthCheck, Connect, CheckRead, Reconnect, Reestablish, Having, Connecting
      <3>3. PICK l \in Having : Go(u, l)
        BY <2>1, <2>10 DEF HealthCheck, Connect, CheckRead, Reconnect, Reestablish, Having,
           Connecting, Go, TypeOK
      <3>4. UNCHANGED <<config, missed, available, inUse, created, lock, conn, failures, resets>>
        BY <2>10 DEF HealthCheck, Connect, CheckRead, Reconnect, Reestablish
      <3>5. Kept
        BY <3>1, <3>2, <3>3, <3>4, GoesOn
      <3>6. closed' \subseteq Conns /\ closing' \subseteq Conns /\ cut' \in BOOLEAN
        BY <2>1, <2>10 DEF HealthCheck, Connect, CheckRead, Reconnect, Reestablish, Opened,
           sockets, TypeOK
      <3>7. QED
        BY <2>1, <3>4, <3>5, <3>6 DEF HolderInv, TypeOK, config
    <2>11. ASSUME NEW u \in Users, EnsureFails(u) \/ Cancel(u) \/ WarmFails(u) PROVE HolderInv'
      <3>1. "idle" \in Labels \ Having
        BY DEF Labels, Having, Connecting
      <3>2. Drop(u) /\ UNCHANGED available
        BY <2>11 DEF EnsureFails, Cancel, WarmFails
      <3>3. Kept
        BY <2>1, <3>1, <3>2, LetGo DEF Drop, Take, Go, TypeOK
      <3>4. QED
        BY <2>1, <2>11, <3>3 DEF EnsureFails, Cancel, WarmFails, Missed, HolderInv, TypeOK, config, sockets
    <2>12. ASSUME NEW u \in Users, Release(u) PROVE HolderInv'
      <3>1. {"idle", "woken"} \subseteq Labels \ Having /\ {"use", "check"} \subseteq Having
        BY DEF Labels, Having, Connecting
      <3>2. conn[u] \in Conns
        BY <2>12, <3>1 DEF Release, HolderInv
      <3>3. DEFINE l == [at EXCEPT ![u] = "idle"]
      <3>4. at' = l \/ \E w \in Users : l[w] = "wait" /\ at' = [l EXCEPT ![w] = "woken"]
        BY <2>12 DEF Release, Notified
      <3>5. /\ at' \in [Users -> Labels] /\ at'[u] \notin Having
            /\ \A v \in Users \ {u} : at'[v] = at[v] \/ at'[v] \notin Having
        BY <2>1, <3>1, <3>4 DEF TypeOK
      <3>6. /\ conn' = [conn EXCEPT ![u] = None]
            /\ available' = available \cup {conn[u]} \/ available' = available
            /\ inUse' \subseteq inUse
        BY <2>12 DEF Release
      <3>7. Kept
        BY <3>2, <3>5, <3>6, NoneAssumption, LetGo
      <3>8. QED
        BY <2>1, <2>12, <3>2, <3>6, <3>7 DEF Release, HolderInv, TypeOK, config, sockets
    <2>13. ASSUME ResetPool \/ Disconnected \/ \E i, l \in BOOLEAN : Disconnect(i, l)
           PROVE  HolderInv'
      <3>1. UNCHANGED <<at, conn, config, failures, missed>>
        BY <2>13 DEF ResetPool, Disconnected, Disconnect
      <3>2. available' \subseteq available /\ inUse' \subseteq inUse
        BY <2>13 DEF ResetPool, Disconnected, Disconnect
      <3>3. /\ created' \in Nat /\ resets' \in Nat
            /\ lock' \in {lock, None, Closer}
            /\ closed' \subseteq Conns /\ closing' \subseteq Conns /\ cut' \in BOOLEAN
        <4>1. CASE ResetPool
          BY <2>1, <4>1 DEF ResetPool, Cut, TypeOK
        <4>2. CASE Disconnected
          BY <2>1, <4>2 DEF Disconnected, TypeOK
        <4>3. ASSUME NEW i \in BOOLEAN, NEW l \in BOOLEAN, Disconnect(i, l)
              PROVE  /\ created' \in Nat /\ resets' \in Nat
                     /\ lock' \in {lock, None, Closer}
                     /\ closed' \subseteq Conns /\ closing' \subseteq Conns /\ cut' \in BOOLEAN
          <5>1. created' = created /\ resets' = resets
            BY <4>3 DEF Disconnect
          <5>2. lock' = IF Async /\ l THEN Closer ELSE lock
            BY <4>3, Zenon DEF Disconnect
          <5>3. lock' \in {lock, Closer}
            BY <5>2, Zenon
          <5>4. Cut \/ (UNCHANGED cut /\ closing' \in {closing, available}
                         /\ closed' \in {closed, closed \cup available})
            <6>1. CASE kind = "threadsBlocking" \/ i \/ ~l
              BY <4>3, <6>1, Zenon DEF Disconnect
            <6>2. CASE ~(kind = "threadsBlocking" \/ i \/ ~l)
              <7>1. /\ UNCHANGED cut
                    /\ IF Async THEN closing' = available /\ UNCHANGED closed
                       ELSE closed' = closed \cup available /\ UNCHANGED closing
                BY <4>3, <6>2, Zenon DEF Disconnect
              <7>2. QED
                BY <7>1, Zenon
            <6>3. QED
              BY <6>1, <6>2
          <5>5. QED
            BY <2>1, <5>1, <5>3, <5>4 DEF Cut, TypeOK
        <4>4. QED
          BY <2>13, <4>1, <4>2, <4>3, Zenon
      <3>4. QED
        BY <2>1, <3>1, <3>2, <3>3 DEF HolderInv, TypeOK, OneHolder, config
    <2>14. ASSUME NEW u \in Users, WarmPool(u) PROVE HolderInv'
      <3>1. PICK c \in Conns \ Known : Take(u, c, "warm")
        BY <2>14 DEF WarmPool
      <3>2. \A v \in Users : conn[v] # c
        BY <3>1, NoneAssumption DEF Known, Held
      <3>3. c \notin available
        BY <3>1 DEF Known
      <3>4. "warm" \in Labels
        BY DEF Labels
      <3>5. Kept
        BY <2>14, <3>1, <3>2, <3>3, <3>4, Taken DEF WarmPool
      <3>6. QED
        BY <2>1, <2>14, <3>5 DEF WarmPool, HolderInv, TypeOK, config, sockets
    <2>15. ASSUME NEW u \in Users, WarmConnected(u) PROVE HolderInv'
      <3>1. {"idle", "warm"} \subseteq Labels /\ "idle" \notin Having /\ "warm" \in Having
        BY DEF Labels, Having, Connecting
      <3>2. conn[u] \in Conns
        BY <2>15, <3>1 DEF WarmConnected, HolderInv
      <3>3. available' = available \cup {conn[u]}
        BY <2>15 DEF WarmConnected
      <3>4. CASE Drop(u)
        <4>1. Kept
          BY <2>1, <3>1, <3>2, <3>3, <3>4, NoneAssumption, LetGo DEF Drop, Take, Go, TypeOK
        <4>2. QED
          BY <2>1, <2>15, <3>2, <3>3, <4>1 DEF WarmConnected, Opened, HolderInv, TypeOK, config
      <3>5. ASSUME NEW c \in Conns \ Known, Take(u, c, "warm") PROVE HolderInv'
        <4>1. c \notin available /\ \A v \in Users : conn[v] # c
          BY <3>5, NoneAssumption DEF Known, Held
        <4>2. Kept
          BY <2>1, <3>1, <3>2, <3>3, <3>5, <4>1, NoneAssumption
          DEF Take, Go, HolderInv, TypeOK, OneHolder
        <4>3. lock' \in Users \cup {None, Closer}
          BY <2>1, <2>15 DEF WarmConnected, TypeOK
        <4>4. created' \in Nat
          BY <2>1, <2>15 DEF WarmConnected, TypeOK
        <4>5. QED
          BY <2>1, <2>15, <3>2, <3>3, <4>2, <4>3, <4>4
          DEF WarmConnected, Opened, HolderInv, TypeOK, config
      <3>6. QED
        BY <2>15, <3>4, <3>5 DEF WarmConnected
    <2>16. CASE UNCHANGED vars
      BY <2>1, <2>16 DEF vars, config, sockets, HolderInv, TypeOK, OneHolder
    <2>17. QED
      BY <2>2, <2>3, <2>4, <2>5, <2>6, <2>7, <2>8, <2>9, <2>10, <2>11, <2>12, <2>13,
         <2>14, <2>15, <2>16 DEF Next, Recreate
  <1>3. QED
    BY <1>1, <1>2, PTL DEF Spec

\* The state of a pool keeps its shape, of whatever kind it is.
THEOREM TypeCorrect == Spec => []TypeOK
  <1>1. HolderInv => TypeOK
    BY DEF HolderInv
  <1>2. QED
    BY <1>1, HolderInvariant, PTL

\* get_connection, release, reset_pool and the rest never give a connection to
\* two users, nor keep one available that somebody has.
THEOREM OneUserEach == Spec => []OneHolder
  <1>1. HolderInv => OneHolder
    BY DEF HolderInv
  <1>2. QED
    BY <1>1, HolderInvariant, PTL

(***************************************************************************)
(* Where everybody is                                                      *)
(***************************************************************************)
(* Who holds the lock over an await, what only some kinds of pool do, and   *)
(* that nobody has a connection outside get_connection and its use.         *)
PlaceInv ==
  /\ closing # {} => lock = Closer /\ kind # "threadsBlocking"
  /\ \A u \in Users :
       /\ at[u] \notin Having => conn[u] = None
       /\ at[u] \in {"warm", "reset"} => lock = u
       /\ at[u] = "reset" => resets > 0
       /\ at[u] \in {"popped", "warm", "slow", "block"} => kind = "optimized"
       /\ at[u] \in {"wait", "woken"} => HasCondition \/ kind = "threadsBlocking"

(* The connections in use are those taken under the lock: not the idle      *)
(* ones, nor those only just popped or warmed.                              *)
UseInv ==
  /\ available \cap inUse = {}
  /\ kind # "optimized" => closing \subseteq available
  /\ \A u \in Users :
       /\ at[u] \in {"popped", "warm"} => conn[u] \notin inUse
       /\ resets = 0 /\ at[u] \in Having \ {"popped", "warm"} => conn[u] \in inUse

(* Whoever has looked at its connection has an open one, and what is being  *)
(* disconnected is at most popped.                                          *)
OpenInv ==
  ~cut => \A u \in Users :
            /\ at[u] \in Having \ {"popped"} => conn[u] \notin closing
            /\ at[u] \in {"use", "check"} => conn[u] \notin closed

Warming == \E u \in Users : at[u] = "warm"

(* How many connections there are, and how many the pool has counted.       *)
CountInv ==
  /\ IsFiniteSet(Known)
  /\ Cardinality(inUse \ Held) <= failures
  /\ resets = 0 =>
       /\ kind # "optimized" => /\ Cardinality(Known) <= created
                                /\ created <= MaxConnections
                                /\ created <= Cardinality(Known) + failures
       /\ kind = "optimized" => /\ 2 * Cardinality(Known) <= created + IF Warming THEN 1 ELSE 0
                                /\ created <= MaxConnections + IF Warming THEN 0 ELSE 1

(* The idle connections are no more than the tasks that were called, those  *)
(* counted that left before they had the lock.                              *)
Told == Cardinality(available) <= Cardinality(Woken) + missed

(* Whoever waits does so in a full pool in which all is told, and not while *)
(* it is warmed; without failures a connection is idle or with somebody.    *)
WaitInv ==
  resets = 0 =>
    /\ Warming => Waiting = {}
    /\ Waiting # {} => created >= MaxConnections /\ (HasCondition => Told)
    /\ failures = 0 /\ created > 0 => available # {} \/ Held # {}

(* The kinds of pool are different.                                         *)
LEMMA KindsDiffer ==
  ASSUME HolderInv
  PROVE  /\ HasCondition => kind # "threadsBlocking"
         /\ Blocking => HasCondition \/ kind = "threadsBlocking"
         /\ Async => kind # "threadsBlocking"
         /\ kind = "optimized" => HasCondition
  BY DEF HasCondition, Blocking, Async

LEMMA PlaceStep ==
  ASSUME HolderInv, HolderInv', PlaceInv, [Next]_vars
  PROVE  PlaceInv'
  <1> USE NoneAssumption, CloserAssumption, KindsDiffer
      DEF PlaceInv, Having, Connecting, Free, HasCondition, Blocking
  <1>1. TypeOK
    BY DEF HolderInv
  <1> USE <1>1 DEF TypeOK
  <1>2. ASSUME NEW u \in Users, Get(u) PROVE PlaceInv'
    BY <1>2 DEF Get, Pop, MakeConnection, Take, Go, config, sockets
  <1>3. ASSUME NEW u \in Users, ResetAndMake(u) PROVE PlaceInv'
    BY <1>3 DEF ResetAndMake, Cut, Take, Go, config, sockets
  <1>4. ASSUME NEW u \in Users, GetBlocking(u) \/ GetQueued(u) \/ TimedOut(u) PROVE PlaceInv'
    BY <1>4 DEF GetBlocking, GetQueued, TimedOut, Pop, MakeConnection, Take, Go, config, sockets
  <1>5. ASSUME NEW u \in Users, GetFast(u) \/ Claim(u) PROVE PlaceInv'
    BY <1>5 DEF GetFast, Claim, Take, Go, config, sockets
  <1>6. ASSUME NEW u \in Users, GetSlow(u) \/ GetBlock(u) PROVE PlaceInv'
    BY <1>6 DEF GetSlow, GetBlock, Pop, MakeConnection, Take, Go, config, sockets
  <1>7. ASSUME NEW u \in Users,
               HealthCheck(u) \/ Connect(u) \/ CheckRead(u) \/ Reconnect(u) \/ Reestablish(u)
        PROVE  PlaceInv'
    BY <1>7 DEF HealthCheck, Connect, CheckRead, Reconnect, Reestablish, Opened, Go, config, sockets
  <1>8. ASSUME NEW u \in Users, EnsureFails(u) \/ Cancel(u) \/ WarmFails(u) PROVE PlaceInv'
    BY <1>8 DEF EnsureFails, Cancel, WarmFails, Drop, Take, Go, config, sockets
  <1>9. ASSUME NEW u \in Users, Release(u) PROVE PlaceInv'
    BY <1>9 DEF Release, Notified, config, sockets
  <1>10. ASSUME NEW u \in Users, WarmPool(u) \/ WarmConnected(u) PROVE PlaceInv'
    BY <1>10 DEF WarmPool, WarmConnected, Opened, Drop, Take, Go, config, sockets
  <1>11. CASE ResetPool \/ Disconnected
    BY <1>11 DEF ResetPool, Disconnected, Cut, config, sockets
  <1>12. ASSUME NEW i \in BOOLEAN, NEW l \in BOOLEAN, Disconnect(i, l) PROVE PlaceInv'
    BY <1>12 DEF Disconnect, Cut, config, sockets
  <1>13. CASE UNCHANGED vars
    BY <1>13 DEF vars, config, sockets
  <1>14. QED
    BY <1>2, <1>3, <1>4, <1>5, <1>6, <1>7, <1>8, <1>9, <1>10, <1>11, <1>12, <1>13 DEF Next, Recreate

LEMMA UseStep ==
  ASSUME HolderInv, HolderInv', PlaceInv, PlaceInv', UseInv, [Next]_vars
  PROVE  UseInv'
  <1> USE NoneAssumption, CloserAssumption DEF PlaceInv, UseInv, Having, Connecting
  <1>1. TypeOK /\ OneHolder /\ \A u \in Users : at[u] \in Having => conn[u] \in Conns
    BY DEF HolderInv
  <1> USE <1>1 DEF TypeOK, OneHolder
  <1>2. ASSUME NEW u \in Users, Get(u) PROVE UseInv'
    BY <1>2 DEF Get, Pop, MakeConnection, Free, Known, Held, Take, Go, config, sockets
  <1>3. ASSUME NEW u \in Users, ResetAndMake(u) PROVE UseInv'
    BY <1>3 DEF ResetAndMake, Cut, Known, Held, Take, Go, config, sockets
  <1>4. ASSUME NEW u \in Users, GetBlocking(u) \/ GetQueued(u) \/ TimedOut(u) PROVE UseInv'
    BY <1>4 DEF GetBlocking, GetQueued, TimedOut, Pop, MakeConnection, Free, Known, Held, Take, Go, config, sockets
  <1>5. ASSUME NEW u \in Users, GetFast(u) \/ Claim(u) PROVE UseInv'
    BY <1>5 DEF GetFast, Claim, Take, Go, config, sockets
  <1>6. ASSUME NEW u \in Users, GetSlow(u) \/ GetBlock(u) PROVE UseInv'
    BY <1>6 DEF GetSlow, GetBlock, Pop, MakeConnection, Free, Known, Held, Take, Go, config, sockets
  <1>7. ASSUME NEW u \in Users,
               HealthCheck(u) \/ Connect(u) \/ CheckRead(u) \/ Reconnect(u) \/ Reestablish(u)
        PROVE  UseInv'
    BY <1>7 DEF HealthCheck, Connect, CheckRead, Reconnect, Reestablish, Opened, Go, config, sockets
  <1>8. ASSUME NEW u \in Users, EnsureFails(u) \/ Cancel(u) \/ WarmFails(u) PROVE UseInv'
    BY <1>8 DEF EnsureFails, Cancel, WarmFails, Drop, Take, Go, config, sockets
  <1>9. ASSUME NEW u \in Users, Release(u) PROVE UseInv'
    BY <1>9 DEF Release, Notified, config, sockets
  <1>10. ASSUME NEW u \in Users, WarmPool(u) \/ WarmConnected(u) PROVE UseInv'
    BY <1>10 DEF WarmPool, WarmConnected, Known, Held, Opened, Drop, Take, Go, config, sockets
  <1>11. CASE ResetPool \/ Disconnected
    BY <1>11 DEF ResetPool, Disconnected, Cut, config, sockets
  <1>12. ASSUME NEW i \in BOOLEAN, NEW l \in BOOLEAN, Disconnect(i, l) PROVE UseInv'
    BY <1>12 DEF Disconnect, Cut, config, sockets
  <1>13. CASE UNCHANGED vars
    BY <1>13 DEF vars, config, sockets
  <1>14. QED
    BY <1>2, <1>3, <1>4, <1>5, <1>6, <1>7, <1>8, <1>9, <1>10, <1>11, <1>12, <1>13 DEF Next, Recreate

LEMMA OpenStep ==
  ASSUME HolderInv, HolderInv', PlaceInv, PlaceInv', OpenInv, [Next]_vars
  PROVE  OpenInv'
  <1> USE NoneAssumption, CloserAssumption DEF PlaceInv, OpenInv, Having, Connecting
  <1>1. TypeOK /\ OneHolder /\ \A u \in Users : at[u] \in Having => conn[u] \in Conns
    BY DEF HolderInv
  <1> USE <1>1 DEF TypeOK, OneHolder
  <1>2. ASSUME NEW u \in Users, Get(u) PROVE OpenInv'
    BY <1>2 DEF Get, Pop, MakeConnection, Free, Known, Held, Take, Go, config, sockets
  <1>3. ASSUME NEW u \in Users, ResetAndMake(u) PROVE OpenInv'
    BY <1>3 DEF ResetAndMake, Cut, Known, Held, Take, Go, config, sockets
  <1>4. ASSUME NEW u \in Users, GetBlocking(u) \/ GetQueued(u) \/ TimedOut(u) PROVE OpenInv'
    BY <1>4 DEF GetBlocking, GetQueued, TimedOut, Pop, MakeConnection, Free, Known, Held, Take, Go, config, sockets
  <1>5. ASSUME NEW u \in Users, GetFast(u) \/ Claim(u) PROVE OpenInv'
    BY <1>5 DEF GetFast, Claim, Free, Take, Go, config, sockets
  <1>6. ASSUME NEW u \in Users, GetSlow(u) \/ GetBlock(u) PROVE OpenInv'
    BY <1>6 DEF GetSlow, GetBlock, Pop, MakeConnection, Free, Known, Held, Take, Go, config, sockets
  <1>7. ASSUME NEW u \in Users,
               HealthCheck(u) \/ Connect(u) \/ CheckRead(u) \/ Reconnect(u) \/ Reestablish(u)
        PROVE  OpenInv'
    BY <1>7 DEF HealthCheck, Connect, CheckRead, Reconnect, Reestablish, Opened, Go, config, sockets
  <1>8. ASSUME NEW u \in Users, EnsureFails(u) \/ Cancel(u) \/ WarmFails(u) PROVE OpenInv'
    BY <1>8 DEF EnsureFails, Cancel, WarmFails, Drop, Take, Go, config, sockets
  <1>9. ASSUME NEW u \in Users, Release(u) PROVE OpenInv'
    BY <1>9 DEF Release, Notified, config, sockets
  <1>10. ASSUME NEW u \in Users, WarmPool(u) \/ WarmConnected(u) PROVE OpenInv'
    BY <1>10 DEF WarmPool, WarmConnected, Known, Held, Opened, Drop, Take, Go, config, sockets
  <1>11. CASE ResetPool \/ Disconnected
    BY <1>11 DEF ResetPool, Disconnected, Cut, config, sockets
  <1>12. ASSUME NEW i \in BOOLEAN, NEW l \in BOOLEAN, Disconnect(i, l) PROVE OpenInv'
    BY <1>12 DEF Disconnect, Cut, Free, config, sockets
  <1>13. CASE UNCHANGED vars
    BY <1>13 DEF vars, config, sockets
  <1>14. QED
    BY <1>2, <1>3, <1>4, <1>5, <1>6, <1>7, <1>8, <1>9, <1>10, <1>11, <1>12, <1>13 DEF Next, Recreate

(***************************************************************************)
(* Counting                                                                *)
(***************************************************************************)
(* A set that grows or shrinks by at most one element.                      *)
LEMMA OneMore ==
  ASSUME NEW S, NEW T, NEW x, IsFiniteSet(S), T \subseteq S \cup {x}
  PROVE  IsFiniteSet(T) /\ Cardinality(T) \in Nat /\ Cardinality(T) <= Cardinality(S) + 1
  <1>1. /\ IsFiniteSet(S \cup {x}) /\ Cardinality(S) \in Nat
        /\ Cardinality(S \cup {x}) <= Cardinality(S) + 1
    <2>1. Cardinality(S) \in Nat
      BY FS_CardinalityType
    <2>2. /\ IsFiniteSet(S \cup {x})
          /\ Cardinality(S \cup {x}) = IF x \in S THEN Cardinality(S) ELSE Cardinality(S) + 1
      BY FS_AddElement
    <2>3. QED
      BY <2>1, <2>2
  <1>2. IsFiniteSet(T) /\ Cardinality(T) <= Cardinality(S \cup {x})
    BY <1>1, FS_Subset
  <1>3. Cardinality(T) \in Nat /\ Cardinality(S \cup {x}) \in Nat
    BY <1>1, <1>2, FS_CardinalityType
  <1>4. QED
    BY <1>1, <1>2, <1>3

(* What becomes of the connections that users have.                         *)
LEMMA HeldTake ==
  ASSUME HolderInv, NEW u \in Users, NEW c \in Conns, conn[u] = None,
         conn' = [conn EXCEPT ![u] = c]
  PROVE  Held' = Held \cup {c}
  BY NoneAssumption DEF HolderInv, TypeOK, Held

LEMMA HeldDrop ==
  ASSUME HolderInv, NEW u \in Users, conn' = [conn EXCEPT ![u] = None]
  PROVE  Held' = Held \ {conn[u]}
  BY NoneAssumption DEF HolderInv, TypeOK, OneHolder, Held

(* Only the task that holds the lock warms the pool.                        *)
LEMMA WarmingLocks ==
  ASSUME PlaceInv
  PROVE  /\ Free => ~Warming
         /\ kind # "optimized" => ~Warming
         /\ \A u \in Users : at[u] = "warm" => \A v \in Users \ {u} : at[v] # "warm"
  BY NoneAssumption DEF PlaceInv, Warming, Free

(* A step that makes no connection and loses none.                          *)
LEMMA CountKeeps ==
  ASSUME CountInv, Known' \subseteq Known, (inUse \ Held)' \subseteq inUse \ Held,
         UNCHANGED <<created, failures, resets, kind>>, Warming' = Warming,
         kind # "optimized" /\ resets = 0 => Known \subseteq Known',
         created \in Nat, failures \in Nat
  PROVE  CountInv'
  <1>1. /\ IsFiniteSet(Known') /\ Cardinality(Known') <= Cardinality(Known)
        /\ Cardinality(Known') \in Nat /\ Cardinality(Known) \in Nat
    BY FS_Subset, FS_CardinalityType DEF CountInv
  <1>2. IsFiniteSet(inUse \ Held)
    BY FS_Subset DEF CountInv, Known
  <1>3. /\ Cardinality((inUse \ Held)') <= Cardinality(inUse \ Held)
        /\ Cardinality((inUse \ Held)') \in Nat /\ Cardinality(inUse \ Held) \in Nat
    BY <1>2, FS_Subset, FS_CardinalityType
  <1>4. kind # "optimized" /\ resets = 0 => Known' = Known
    OBVIOUS
  <1>5. QED
    BY <1>1, <1>3, <1>4, MaxAssumption DEF CountInv

(* make_connection, which counts the new connection once or twice.          *)
LEMMA CountMade ==
  ASSUME HolderInv, PlaceInv, CountInv, NEW u \in Users, at[u] \notin Having,
         NEW n \in {1, 2}, n = 1 <=> kind # "optimized", MakeConnection(u, n), ~Warming,
         UNCHANGED <<kind, closing, failures, resets>>
  PROVE  CountInv'
  <1>1. PICK c \in Conns \ Known : inUse' = inUse \cup {c} /\ Take(u, c, "ensure")
    BY DEF MakeConnection
  <1>2. Held' = Held \cup {c}
    BY <1>1, HeldTake DEF PlaceInv, Take
  <1>3. Known' = Known \cup {c}
    BY <1>1, <1>2 DEF MakeConnection, Known
  <1>4. (inUse \ Held)' \subseteq inUse \ Held
    BY <1>1, <1>2
  <1>5. /\ IsFiniteSet(Known') /\ Cardinality(Known') = Cardinality(Known) + 1
        /\ Cardinality(Known') \in Nat /\ Cardinality(Known) \in Nat
    BY <1>1, <1>3, FS_AddElement, FS_CardinalityType DEF CountInv
  <1>6. IsFiniteSet(inUse \ Held)
    BY FS_Subset DEF CountInv, Known
  <1>7. /\ Cardinality((inUse \ Held)') <= Cardinality(inUse \ Held)
        /\ Cardinality((inUse \ Held)') \in Nat /\ Cardinality(inUse \ Held) \in Nat
    BY <1>4, <1>6, FS_Subset, FS_CardinalityType
  <1>8. ~Warming'
    BY <1>1 DEF Warming, Take, Go, HolderInv, TypeOK
  <1>9. created \in Nat /\ failures \in Nat /\ created < MaxConnections /\ created' = created + n
    BY DEF HolderInv, TypeOK, MakeConnection
  <1>10. QED
    BY <1>5, <1>7, <1>8, <1>9, MaxAssumption DEF CountInv

(* A failure or a cancellation loses the connection its user had.           *)
LEMMA CountFails ==
  ASSUME HolderInv, CountInv, NEW u \in Users, Drop(u), at[u] # "warm",
         failures' = failures + 1, UNCHANGED <<kind, available, inUse, closing, created, resets>>
  PROVE  CountInv'
  <1>1. Held' = Held \ {conn[u]}
    BY HeldDrop DEF Drop, Take
  <1>2. Known' \subseteq Known /\ Known \subseteq Known' \cup {conn[u]}
    BY <1>1 DEF Known
  <1>3. (inUse \ Held)' \subseteq (inUse \ Held) \cup {conn[u]}
    BY <1>1
  <1>4. /\ IsFiniteSet(Known') /\ Cardinality(Known') <= Cardinality(Known)
        /\ Cardinality(Known') \in Nat /\ Cardinality(Known) \in Nat
    BY <1>2, FS_Subset, FS_CardinalityType DEF CountInv
  <1>5. Cardinality(Known) <= Cardinality(Known') + 1
    BY <1>2, <1>4, OneMore
  <1>6. IsFiniteSet(inUse \ Held) /\ Cardinality(inUse \ Held) \in Nat
    BY FS_Subset, FS_CardinalityType DEF CountInv, Known
  <1>7. /\ Cardinality((inUse \ Held)') <= Cardinality(inUse \ Held) + 1
        /\ Cardinality((inUse \ Held)') \in Nat
    BY <1>3, <1>6, OneMore
  <1>8. Warming' = Warming
    BY DEF Warming, Drop, Take, Go, HolderInv, TypeOK
  <1>9. created \in Nat /\ failures \in Nat
    BY DEF HolderInv, TypeOK
  <1>10. QED
    BY <1>4, <1>5, <1>6, <1>7, <1>8, <1>9, MaxAssumption DEF CountInv

(* A reset keeps at most the connection that is made next.                  *)
LEMMA CountReset ==
  ASSUME CountInv, NEW c, Known' \subseteq Known \cup {c}, (inUse \ Held)' = {},
         failures' = failures, failures \in Nat, resets' # 0
  PROVE  CountInv'
  <1>1. IsFiniteSet(Known')
    BY OneMore DEF CountInv
  <1>2. Cardinality((inUse \ Held)') = 0
    BY FS_EmptySet
  <1>3. QED
    BY <1>1, <1>2 DEF CountInv

(* An idle connection that is taken stays known.                            *)
LEMMA CountPop ==
  ASSUME HolderInv, PlaceInv, CountInv, NEW u \in Users, at[u] \notin Having, Pop(u),
         UNCHANGED <<kind, closing, failures, resets>>
  PROVE  CountInv'
  <1>1. PICK c \in available : /\ available' = available \ {c} /\ inUse' = inUse \cup {c}
                               /\ Take(u, c, "ensure")
    BY DEF Pop
  <1>2. c \in Conns
    BY DEF HolderInv, TypeOK
  <1>3. Held' = Held \cup {c}
    BY <1>1, <1>2, HeldTake DEF PlaceInv, Take
  <1>4. Known' = Known
    BY <1>1, <1>3 DEF Known
  <1>5. (inUse \ Held)' \subseteq inUse \ Held
    BY <1>1, <1>3
  <1>6. Warming' = Warming
    BY <1>1 DEF Warming, Take, Go, HolderInv, TypeOK, Having
  <1>7. created \in Nat /\ failures \in Nat /\ created' = created
    BY DEF HolderInv, TypeOK, Pop
  <1>8. QED
    BY <1>4, <1>5, <1>6, <1>7, CountKeeps

(* Steps that change nobody's connection and neither of the two sets.       *)
LEMMA CountStays ==
  ASSUME HolderInv, PlaceInv, UseInv, CountInv, closing' \subseteq closing \cup available,
         UNCHANGED <<kind, available, inUse, conn, created, failures, resets>>, Warming' = Warming
  PROVE  CountInv'
  <1>1. Held' = Held
    BY DEF Held
  <1>2. Known' \subseteq Known /\ (inUse \ Held)' = inUse \ Held
    BY <1>1 DEF Known
  <1>3. kind # "optimized" => Known \subseteq Known'
    BY <1>1 DEF Known, UseInv
  <1>4. created \in Nat /\ failures \in Nat
    BY DEF HolderInv, TypeOK
  <1>5. QED
    BY <1>2, <1>3, <1>4, CountKeeps

(* The pool of tasks that warms itself is between two counts.               *)
LEMMA CountWarms ==
  ASSUME HolderInv, PlaceInv, UseInv, CountInv, NEW u \in Users,
         WarmPool(u) \/ WarmConnected(u) \/ WarmFails(u)
  PROVE  CountInv'
  <1>1. created \in Nat /\ failures \in Nat /\ kind = "optimized" /\ kind' = kind
    BY DEF HolderInv, TypeOK, PlaceInv, WarmPool, WarmConnected, WarmFails, config
  <1>2. IsFiniteSet(inUse \ Held) /\ IsFiniteSet(Known) /\ Cardinality(Known) \in Nat
    BY FS_Subset, FS_CardinalityType DEF CountInv, Known
  <1>3. ASSUME NEW c \in Conns \ Known, (Held \cup {c}) \cup available' = (Held \cup {c}) \cup available,
               Held' \cup available' = Held \cup {c} \cup available', Held \cap inUse \subseteq Held',
               UNCHANGED <<inUse, closing>>
        PROVE  /\ IsFiniteSet(Known') /\ Cardinality(Known') = Cardinality(Known) + 1
               /\ (inUse \ Held)' \subseteq inUse \ Held
    <2>1. Known' = Known \cup {c}
      BY <1>3 DEF Known
    <2>2. QED
      BY <1>2, <1>3, <2>1, FS_AddElement
  <1>4. ASSUME (inUse \ Held)' \subseteq inUse \ Held
        PROVE  Cardinality((inUse \ Held)') <= failures
    <2>1. /\ Cardinality((inUse \ Held)') <= Cardinality(inUse \ Held)
          /\ Cardinality((inUse \ Held)') \in Nat /\ Cardinality(inUse \ Held) \in Nat
      BY <1>2, <1>4, FS_Subset, FS_CardinalityType
    <2>2. QED
      BY <1>1, <2>1 DEF CountInv
  <1>5. CASE WarmPool(u)
    <2>1. PICK c \in Conns \ Known : Take(u, c, "warm")
      BY <1>5 DEF WarmPool
    <2>2. Held' = Held \cup {c}
      BY <1>5, <2>1, HeldTake DEF WarmPool, PlaceInv, Take, Having, Connecting
    <2>3. UNCHANGED <<available, inUse, closing, failures, resets>> /\ created' = created + 1
          /\ created < MaxConnections
      BY <1>5 DEF WarmPool, sockets
    <2>4. /\ IsFiniteSet(Known') /\ Cardinality(Known') = Cardinality(Known) + 1
          /\ (inUse \ Held)' \subseteq inUse \ Held
      BY <2>2, <2>3, <1>3
    <2>5. ~Warming /\ Warming'
      BY <1>5, <2>1, WarmingLocks DEF WarmPool, Warming, Take, Go, HolderInv, TypeOK
    <2>6. QED
      BY <1>1, <1>2, <1>4, <2>3, <2>4, <2>5, MaxAssumption DEF CountInv
  <1>6. CASE WarmConnected(u)
    <2>1. /\ available' = available \cup {conn[u]} /\ conn[u] \in Conns /\ conn[u] \in Held
          /\ conn[u] \notin inUse /\ UNCHANGED <<inUse, closing, failures, resets>> /\ Warming
      BY <1>6, NoneAssumption DEF WarmConnected, Opened, UseInv, HolderInv, Having, Held, Warming
    <2>2. CASE Drop(u) /\ created' = created + 1
      <3>1. Held' = Held \ {conn[u]}
        BY <2>2, HeldDrop DEF Drop, Take
      <3>2. Known' = Known /\ (inUse \ Held)' = inUse \ Held
        BY <2>1, <3>1 DEF Known
      <3>3. ~Warming'
        BY <1>6, <2>2, WarmingLocks DEF WarmConnected, Warming, Drop, Take, Go, HolderInv, TypeOK
      <3>4. QED
        BY <1>1, <1>2, <1>4, <2>1, <2>2, <3>2, <3>3, MaxAssumption DEF CountInv
    <2>3. ASSUME NEW c \in Conns \ Known, Take(u, c, "warm"), created' = created + 2,
                 created + 1 < MaxConnections
          PROVE  CountInv'
      <3>1. Held' = (Held \ {conn[u]}) \cup {c}
        BY <2>1, <2>3, NoneAssumption DEF Take, HolderInv, TypeOK, OneHolder, Held
      <3>2. /\ IsFiniteSet(Known') /\ Cardinality(Known') = Cardinality(Known) + 1
            /\ (inUse \ Held)' \subseteq inUse \ Held
        BY <2>1, <2>3, <3>1, <1>3
      <3>3. Warming'
        BY <2>3 DEF Warming, Take, Go, HolderInv, TypeOK
      <3>4. QED
        BY <1>1, <1>2, <1>4, <2>1, <2>3, <3>2, <3>3, MaxAssumption DEF CountInv
    <2>4. QED
      BY <1>6, <2>2, <2>3 DEF WarmConnected
  <1>7. CASE WarmFails(u)
    <2>1. /\ Drop(u) /\ failures' = failures + 1
          /\ UNCHANGED <<available, inUse, created, resets, closing>>
      BY <1>7 DEF WarmFails, sockets
    <2>2. /\ conn[u] \in Known /\ conn[u] \notin available \cup inUse /\ closing = {} /\ Warming
      BY <1>7, NoneAssumption, CloserAssumption
      DEF WarmFails, HolderInv, TypeOK, OneHolder, PlaceInv, UseInv, Having, Known, Held, Warming
    <2>3. Held' = Held \ {conn[u]}
      BY <2>1, HeldDrop DEF Drop, Take
    <2>4. Known' = Known \ {conn[u]} /\ (inUse \ Held)' = inUse \ Held
      BY <2>1, <2>2, <2>3 DEF Known
    <2>5. IsFiniteSet(Known') /\ Cardinality(Known') = Cardinality(Known) - 1
      BY <1>2, <2>2, <2>4, FS_RemoveElement
    <2>6. ~Warming'
      BY <1>7, <2>1, WarmingLocks DEF WarmFails, Warming, Drop, Take, Go, HolderInv, TypeOK
    <2>7. Cardinality((inUse \ Held)') <= failures
      BY <1>4, <2>4
    <2>8. Cardinality((inUse \ Held)') <= failures'
      <3>1. Cardinality(inUse \ Held) \in Nat
        BY <1>2, FS_CardinalityType
      <3>2. QED
        BY <1>1, <2>1, <2>4, <2>7, <3>1
    <2>9. QED
      BY <1>1, <1>2, <2>1, <2>2, <2>5, <2>6, <2>8, MaxAssumption DEF CountInv
  <1>8. QED
    BY <1>5, <1>6, <1>7

LEMMA CountStep ==
  ASSUME HolderInv, PlaceInv, PlaceInv', UseInv, CountInv, [Next]_vars
  PROVE  CountInv'
  <1>1. /\ at \in [Users -> Labels] /\ conn \in [Users -> Conns \cup {None}]
        /\ created \in Nat /\ failures \in Nat /\ resets \in Nat /\ kind \in Kinds
    BY DEF HolderInv, TypeOK
  <1>2. \A u \in Users : at[u] \in Having => conn[u] \in Conns
    BY DEF HolderInv
  <1>3. ASSUME NEW u \in Users, Get(u) PROVE CountInv'
    <2>1. CASE Pop(u) /\ UNCHANGED resets
      BY <1>3, <2>1, CountPop DEF Get, config, sockets, Having, Connecting
    <2>2. CASE MakeConnection(u, 1) /\ UNCHANGED resets
      BY <1>3, <2>2, WarmingLocks, CountMade DEF Get, config, sockets, Having, Connecting
    <2>3. CASE Go(u, "reset") /\ UNCHANGED <<available, inUse, created, conn>> /\ resets' = resets + 1
      <3>1. Held' = Held
        BY <2>3 DEF Held
      <3>2. Known' = Known /\ (inUse \ Held)' = inUse \ Held
        BY <1>3, <2>3, <3>1 DEF Get, sockets, Known
      <3>3. failures' = failures /\ resets' # 0
        BY <1>1, <1>3, <2>3 DEF Get
      <3>4. QED
        BY <3>2, <3>3 DEF CountInv
    <2>4. QED
      BY <1>3, <2>1, <2>2, <2>3 DEF Get
  <1>4. ASSUME NEW u \in Users, ResetAndMake(u) PROVE CountInv'
    <2>1. PICK c \in Conns \ Known : inUse' = {c} /\ Take(u, c, "ensure")
      BY <1>4 DEF ResetAndMake
    <2>2. Held' = Held \cup {c}
      BY <1>4, <2>1, HeldTake DEF ResetAndMake, PlaceInv, Take, Having, Connecting
    <2>3. Known' \subseteq Known \cup {c} /\ (inUse \ Held)' = {}
      BY <1>4, <2>1, <2>2 DEF ResetAndMake, Cut, Known
    <2>4. failures' = failures /\ resets' # 0
      BY <1>1, <1>4 DEF ResetAndMake, PlaceInv
    <2>5. QED
      BY <1>1, <2>3, <2>4, CountReset
  <1>5. ASSUME NEW u \in Users, GetBlocking(u) \/ GetQueued(u) PROVE CountInv'
    <2>1. /\ kind # "optimized" /\ at[u] \notin Having
          /\ UNCHANGED <<kind, closing, failures, resets>> /\ ~Warming
      BY <1>5, WarmingLocks DEF GetBlocking, GetQueued, Blocking, config, sockets, Having, Connecting
    <2>2. CASE Pop(u)
      BY <2>1, <2>2, CountPop
    <2>3. CASE MakeConnection(u, 1)
      BY <2>1, <2>3, CountMade
    <2>4. CASE Go(u, "wait") /\ UNCHANGED <<available, inUse, created, conn>>
      <3>1. Warming' = Warming
        BY <1>1, <2>1, <2>4 DEF Warming, Go
      <3>2. QED
        BY <2>1, <2>4, <3>1, CountStays
    <2>5. QED
      BY <1>5, <2>2, <2>3, <2>4 DEF GetBlocking, GetQueued
  <1>6. ASSUME NEW u \in Users, GetSlow(u) \/ GetBlock(u) PROVE CountInv'
    <2>1. /\ kind = "optimized" /\ at[u] \notin Having
          /\ UNCHANGED <<kind, closing, failures, resets>> /\ ~Warming
      BY <1>6, WarmingLocks DEF GetSlow, GetBlock, PlaceInv, config, sockets, Having, Connecting
    <2>2. CASE Pop(u)
      BY <2>1, <2>2, CountPop
    <2>3. CASE MakeConnection(u, 2)
      BY <2>1, <2>3, CountMade
    <2>4. CASE (Go(u, "wait") \/ Go(u, "block")) /\ UNCHANGED <<available, inUse, created, conn>>
      <3>1. Warming' = Warming
        BY <1>1, <2>1, <2>4 DEF Warming, Go
      <3>2. QED
        BY <2>1, <2>4, <3>1, CountStays
    <2>5. QED
      BY <1>6, <2>2, <2>3, <2>4 DEF GetSlow, GetBlock
  <1>7. ASSUME NEW u \in Users,
               \/ HealthCheck(u) \/ Connect(u) \/ CheckRead(u) \/ Reconnect(u) \/ Reestablish(u)
               \/ TimedOut(u)
        PROVE  CountInv'
    <2>1. /\ UNCHANGED <<kind, available, inUse, conn, created, failures, resets>> /\ closing' = closing
      BY <1>7 DEF HealthCheck, Connect, CheckRead, Reconnect, Reestablish, TimedOut, Opened, config, sockets
    <2>2. Warming' = Warming
      BY <1>1, <1>7 DEF HealthCheck, Connect, CheckRead, Reconnect, Reestablish, TimedOut, Go,
         Warming, Connecting
    <2>3. QED
      BY <2>1, <2>2, CountStays
  <1>8. ASSUME NEW u \in Users, EnsureFails(u) \/ Cancel(u) PROVE CountInv'
    BY <1>8, CountFails DEF EnsureFails, Cancel, Connecting, config, sockets
  <1>9. ASSUME NEW u \in Users, WarmPool(u) \/ WarmConnected(u) \/ WarmFails(u) PROVE CountInv'
    BY <1>9, CountWarms
  <1>10. ASSUME NEW u \in Users, GetFast(u) PROVE CountInv'
    <2>1. UNCHANGED <<kind, inUse, closing, created, failures, resets>> /\ kind = "optimized" /\ at[u] = "idle"
      BY <1>10 DEF GetFast, config, sockets
    <2>2. CASE Go(u, "slow") /\ UNCHANGED <<available, conn>>
      <3>1. Warming' = Warming
        BY <1>1, <2>1, <2>2 DEF Warming, Go
      <3>2. QED
        BY <2>1, <2>2, <3>1, CountStays
    <2>3. ASSUME NEW c \in available, available' = available \ {c}, Take(u, c, "popped")
          PROVE  CountInv'
      <3>1. c \in Conns
        BY DEF HolderInv, TypeOK
      <3>2. Held' = Held \cup {c}
        BY <2>1, <2>3, <3>1, HeldTake DEF PlaceInv, Take, Having, Connecting
      <3>3. Known' = Known /\ (inUse \ Held)' \subseteq inUse \ Held
        BY <2>1, <2>3, <3>2 DEF Known
      <3>4. Warming' = Warming
        BY <1>1, <2>1, <2>3 DEF Warming, Take, Go
      <3>5. QED
        BY <1>1, <2>1, <3>3, <3>4, CountKeeps
    <2>4. QED
      BY <1>10, <2>2, <2>3 DEF GetFast
  <1>11. ASSUME NEW u \in Users, Claim(u) PROVE CountInv'
    <2>1. /\ conn[u] \notin inUse /\ conn[u] \in Held /\ at[u] = "popped"
          /\ inUse' = inUse \cup {conn[u]} /\ Go(u, "ensure")
          /\ UNCHANGED <<kind, available, closing, conn, created, failures, resets>>
      BY <1>2, <1>11, NoneAssumption DEF Claim, UseInv, Held, Having, config, sockets
    <2>2. Held' = Held
      BY <2>1 DEF Held
    <2>3. Known' = Known /\ (inUse \ Held)' \subseteq inUse \ Held
      BY <2>1, <2>2 DEF Known
    <2>4. Warming' = Warming
      BY <1>1, <2>1 DEF Warming, Go
    <2>5. QED
      BY <1>1, <2>1, <2>3, <2>4, CountKeeps
  <1>12. ASSUME NEW u \in Users, Release(u) PROVE CountInv'
    <2>1. /\ UNCHANGED <<kind, closing, created, failures, resets>> /\ at[u] \in {"use", "check"}
          /\ conn' = [conn EXCEPT ![u] = None] /\ conn[u] \in Held
          /\ resets = 0 => conn[u] \in inUse
      BY <1>2, <1>12, NoneAssumption DEF Release, UseInv, Held, Having, Connecting, config, sockets
    <2>2. Held' = Held \ {conn[u]}
      BY <2>1, HeldDrop
    <2>3. \/ available' = available \cup {conn[u]} /\ inUse' = inUse \ {conn[u]}
          \/ conn[u] \notin inUse /\ UNCHANGED <<available, inUse>>
      BY <1>12 DEF Release
    <2>4. /\ Known' \subseteq Known /\ (inUse \ Held)' \subseteq inUse \ Held
          /\ resets = 0 => Known \subseteq Known'
      BY <2>1, <2>2, <2>3 DEF Known
    <2>5. Warming' = Warming
      <3>1. \A v \in Users : at'[v] = "warm" <=> at[v] = "warm"
        BY <1>1, <1>12 DEF Release, Notified
      <3>2. QED
        BY <3>1 DEF Warming
    <2>6. QED
      BY <1>1, <2>1, <2>4, <2>5, CountKeeps
  <1>13. CASE ResetPool
    <2>1. Held' = Held /\ inUse' = {} /\ available' = {} /\ closing' = {}
      BY <1>13 DEF ResetPool, Cut, Held
    <2>2. \A c : Known' \subseteq Known \cup {c}
      BY <2>1 DEF Known
    <2>3. failures' = failures /\ resets' # 0
      BY <1>1, <1>13 DEF ResetPool
    <2>4. QED
      BY <1>1, <2>1, <2>2, <2>3, CountReset
  <1>14. ASSUME NEW i \in BOOLEAN, NEW l \in BOOLEAN, Disconnect(i, l) \/ Disconnected
         PROVE  CountInv'
    <2>1. /\ UNCHANGED <<kind, available, inUse, conn, created, failures, resets>>
          /\ closing' \subseteq closing \cup available
      BY <1>14 DEF Disconnect, Disconnected, Cut, config
    <2>2. Warming' = Warming
      BY <1>14 DEF Disconnect, Disconnected, Warming
    <2>3. QED
      BY <2>1, <2>2, CountStays
  <1>15. CASE UNCHANGED vars
    BY <1>15, CountStays DEF vars, config, sockets, Warming
  <1>16. QED
    BY <1>3, <1>4, <1>5, <1>6, <1>7, <1>8, <1>9, <1>10, <1>11, <1>12, <1>13, <1>14, <1>15
    DEF Next, Recreate

(***************************************************************************)
(* Waiting                                                                 *)
(***************************************************************************)
(* Without failures every connection in use is somebody's, and those in use *)
(* are no more than were counted.                                           *)
LEMMA NoneLost ==
  ASSUME HolderInv, CountInv
  PROVE  /\ failures = 0 => inUse \subseteq Held
         /\ kind # "optimized" /\ resets = 0 => Cardinality(inUse) <= created
  <1>1. IsFiniteSet(inUse \ Held) /\ IsFiniteSet(inUse) /\ Cardinality(inUse) <= Cardinality(Known)
    BY FS_Subset DEF CountInv, Known
  <1>2. /\ Cardinality(inUse \ Held) \in Nat /\ Cardinality(inUse) \in Nat /\ Cardinality(Known) \in Nat
        /\ created \in Nat
    BY <1>1, FS_CardinalityType DEF CountInv, HolderInv, TypeOK
  <1>3. ASSUME failures = 0 PROVE inUse \subseteq Held
    <2>1. Cardinality(inUse \ Held) = 0
      BY <1>2, <1>3 DEF CountInv
    <2>2. inUse \ Held = {}
      BY <1>1, <2>1, FS_EmptySet
    <2>3. QED
      BY <2>2
  <1>4. kind # "optimized" /\ resets = 0 => Cardinality(inUse) <= created
    BY <1>1, <1>2 DEF CountInv
  <1>5. QED
    BY <1>3, <1>4

(* How the calls keep up with the connections that become idle: one less    *)
(* idle may cost one call, a call that is missed is counted, and one more   *)
(* idle needs somebody who is called.                                       *)
LEMMA ToldStep ==
  ASSUME TypeOK, TypeOK', IsFiniteSet(available), Told, NEW u \in Users,
         \/ available' = {}
         \/ available' = available /\ Woken \subseteq Woken' /\ missed' = missed
         \/ available' = available /\ Woken \subseteq Woken' \cup {u} /\ missed' = missed + 1
         \/ /\ \E c \in available : available' = available \ {c}
            /\ Woken \subseteq Woken' \cup {u} /\ missed' = missed
         \/ /\ \E c \in Conns : available' = available \cup {c}
            /\ Woken \subseteq Woken' \ {u} /\ u \in Woken' /\ missed' = missed
  PROVE  Told'
  <1>1. /\ IsFiniteSet(Woken) /\ IsFiniteSet(Woken')
        /\ Cardinality(Woken) \in Nat /\ Cardinality(Woken') \in Nat
        /\ Cardinality(available) \in Nat /\ missed \in Nat /\ missed' \in Nat
    BY UsersAssumption, FS_Subset, FS_CardinalityType DEF Woken, TypeOK
  <1>2. Woken \subseteq Woken' => Cardinality(Woken) <= Cardinality(Woken')
    BY <1>1, FS_Subset
  <1>3. Woken \subseteq Woken' \cup {u} => Cardinality(Woken) <= Cardinality(Woken') + 1
    BY <1>1, OneMore
  <1>4. CASE available' = {}
    BY <1>1, <1>4, FS_EmptySet DEF Told
  <1>5. CASE available' = available
    BY <1>1, <1>2, <1>3, <1>5, FS_EmptySet DEF Told
  <1>6. ASSUME NEW c \in available, available' = available \ {c},
               Woken \subseteq Woken' \cup {u}, missed' = missed
        PROVE  Told'
    <2>1. Cardinality(available') = Cardinality(available) - 1
      BY <1>6, FS_RemoveElement
    <2>2. QED
      BY <1>1, <1>3, <1>6, <2>1 DEF Told
  <1>7. ASSUME NEW c \in Conns, available' = available \cup {c},
               Woken \subseteq Woken' \ {u}, u \in Woken', missed' = missed
        PROVE  Told'
    <2>1. Cardinality(available') <= Cardinality(available) + 1 /\ Cardinality(available') \in Nat
      BY <1>7, OneMore
    <2>2. /\ Cardinality(Woken' \ {u}) = Cardinality(Woken') - 1
          /\ IsFiniteSet(Woken' \ {u})
      BY <1>1, <1>7, FS_RemoveElement
    <2>3. Cardinality(Woken) <= Cardinality(Woken' \ {u})
      BY <1>7, <2>2, FS_Subset
    <2>4. QED
      BY <1>1, <1>7, <2>1, <2>2, <2>3 DEF Told
  <1>8. QED
    BY <1>4, <1>5, <1>6, <1>7

LEMMA WaitStep ==
  ASSUME HolderInv, HolderInv', PlaceInv, PlaceInv', UseInv, CountInv, WaitInv, [Next]_vars
  PROVE  WaitInv'
  <1> SUFFICES ASSUME resets' = 0 PROVE WaitInv'
    BY DEF WaitInv
  <1>1. TypeOK /\ TypeOK' /\ \A u \in Users : at[u] \in Having => conn[u] \in Conns
    BY DEF HolderInv
  <1>2. IsFiniteSet(available) /\ Cardinality({}) = 0
    BY FS_Subset, FS_EmptySet DEF CountInv, Known
  <1>3. kind # "optimized" /\ resets = 0 => Cardinality(inUse) <= created
    BY NoneLost
  <1>4. ASSUME NEW u \in Users, NEW c \in Conns, conn' = [conn EXCEPT ![u] = c]
        PROVE  Held' # {}
    BY <1>1, <1>4, NoneAssumption DEF Held, TypeOK
  <1> DEFINE Same == UNCHANGED <<kind, failures, resets, missed>>
  <1> USE <1>1, NoneAssumption, MaxAssumption DEF TypeOK, Having, Connecting
  <1>5. ASSUME NEW u \in Users, resets = 0, kind' = kind, Waiting' \subseteq Waiting,
               Waiting' # {}, created' = created, HasCondition,
               \/ available' = {}
               \/ available' = available /\ Woken \subseteq Woken' /\ missed' = missed
               \/ available' = available /\ Woken \subseteq Woken' \cup {u} /\ missed' = missed + 1
               \/ /\ \E c \in available : available' = available \ {c}
                  /\ Woken \subseteq Woken' \cup {u} /\ missed' = missed
        PROVE  Told'
    <2>1. Told
      BY <1>5 DEF WaitInv
    <2>2. QED
      BY <1>2, <1>5, <2>1, ToldStep
  <1>6. ASSUME NEW u \in Users, NEW c \in Conns, Take(u, c, "ensure"), Same, ~Warming,
               \/ created' = created /\ \E d \in available : available' = available \ {d}
               \/ available' = {} /\ created < MaxConnections
        PROVE  WaitInv'
    <2>1. Held' # {}
      BY <1>4, <1>6 DEF Take
    <2>2. /\ Waiting' \subseteq Waiting /\ Woken \subseteq Woken' \cup {u} /\ ~Warming'
      BY <1>6 DEF Take, Go, Waiting, Woken, Warming
    <2>3. CASE available' = {} /\ created < MaxConnections
      <3>1. Waiting' = {}
        BY <1>6, <2>2, <2>3 DEF WaitInv
      <3>2. QED
        BY <2>1, <3>1 DEF WaitInv
    <2>4. CASE created' = created /\ \E d \in available : available' = available \ {d}
      <3>1. Waiting' # {} /\ HasCondition' => Told'
        BY <1>5, <1>6, <2>2, <2>4 DEF HasCondition
      <3>2. Waiting' # {} => created' >= MaxConnections
        BY <1>6, <2>2, <2>4 DEF WaitInv
      <3>3. QED
        BY <2>1, <2>2, <3>1, <3>2 DEF WaitInv
    <2>5. QED
      BY <1>6, <2>3, <2>4
  <1>7. ASSUME NEW u \in Users, NEW n \in Nat, Pop(u) \/ MakeConnection(u, n), Same, ~Warming
        PROVE  WaitInv'
    <2>1. PICK c \in Conns : Take(u, c, "ensure")
      BY <1>7 DEF Pop, MakeConnection
    <2>2. \/ created' = created /\ \E d \in available : available' = available \ {d}
          \/ available' = {} /\ created < MaxConnections
      BY <1>7 DEF Pop, MakeConnection
    <2>3. QED
      BY <1>6, <1>7, <2>1, <2>2
  <1>8. ASSUME NEW u \in Users, Go(u, "wait"), available = {}, created >= MaxConnections, Same,
               ~Warming, UNCHANGED <<available, created, conn>>
        PROVE  WaitInv'
    <2>1. Held' = Held /\ ~Warming'
      BY <1>8 DEF Held, Warming, Go
    <2>2. Told'
      <3>1. Cardinality(Woken') \in Nat
        BY UsersAssumption, FS_Subset, FS_CardinalityType DEF Woken
      <3>2. QED
        BY <1>2, <1>8, <3>1 DEF Told
    <2>3. QED
      BY <1>8, <2>1, <2>2 DEF WaitInv
  (* Nobody begins to wait, nothing becomes idle and no call is lost unseen. *)
  <1>9. ASSUME NEW u \in Users, UNCHANGED <<kind, available, created, resets>>,
               failures' = 0 => failures = 0 /\ Held' = Held,
               \A v \in Users : at'[v] \in {"wait", "warm"} => at[v] = at'[v],
               \A v \in Users \ {u} : at[v] = "woken" => at'[v] = "woken",
               \/ missed' = missed /\ (at[u] = "woken" => at'[u] = "woken")
               \/ missed' = missed + 1
        PROVE  WaitInv'
    <2>1. Waiting' \subseteq Waiting /\ (Warming' => Warming)
      BY <1>9 DEF Waiting, Warming
    <2>2. \/ Woken \subseteq Woken' /\ missed' = missed
          \/ Woken \subseteq Woken' \cup {u} /\ missed' = missed + 1
      BY <1>9 DEF Woken
    <2>3. Waiting' # {} /\ HasCondition' => Told'
      BY <1>5, <1>9, <2>1, <2>2 DEF HasCondition
    <2>4. QED
      BY <1>9, <2>1, <2>3 DEF WaitInv
  (* As long as there are users; without any nobody waits.                   *)
  <1>10. ASSUME UNCHANGED <<kind, available, created, resets, at, conn, missed, failures>>
         PROVE  WaitInv'
    BY <1>10 DEF WaitInv, Warming, Waiting, Woken, Told, Held, HasCondition
  <1>11. ASSUME NEW u \in Users, Get(u) PROVE WaitInv'
    <2>1. resets \in Nat /\ resets' # resets + 1
      BY DEF TypeOK
    <2>2. kind # "optimized" /\ UNCHANGED <<kind, failures, missed>> /\ ~Warming
      BY <1>11, WarmingLocks DEF Get, config
    <2>3. (Pop(u) \/ MakeConnection(u, 1)) /\ resets' = resets
      BY <1>11, <2>1 DEF Get
    <2>4. QED
      BY <1>7, <2>2, <2>3
  <1>12. ASSUME NEW u \in Users, ResetAndMake(u) PROVE WaitInv'
    BY <1>12 DEF ResetAndMake, PlaceInv
  <1>13. ASSUME NEW u \in Users, GetBlocking(u) \/ GetQueued(u) PROVE WaitInv'
    <2>1. Same /\ Blocking /\ ~Warming
      BY <1>13, WarmingLocks DEF GetBlocking, GetQueued, Blocking, config
    <2>2. CASE Pop(u) \/ MakeConnection(u, 1)
      BY <1>7, <2>1, <2>2
    <2>3. CASE ~CanGet /\ Go(u, "wait") /\ UNCHANGED <<available, inUse, created, conn>>
      <3>1. IsFiniteSet(inUse)
        BY FS_Subset DEF CountInv, Known
      <3>2. Cardinality(inUse) \in Nat
        BY <3>1, FS_CardinalityType
      <3>3. available = {} /\ created >= MaxConnections
        BY <1>3, <2>1, <2>3, <3>2 DEF CanGet, Blocking
      <3>4. QED
        BY <1>8, <2>1, <2>3, <3>3
    <2>4. QED
      BY <1>13, <2>2, <2>3 DEF GetBlocking, GetQueued
  <1>14. ASSUME NEW u \in Users, GetSlow(u) \/ GetBlock(u) PROVE WaitInv'
    <2>1. Same /\ ~Warming
      BY <1>14, WarmingLocks DEF GetSlow, GetBlock, config
    <2>2. CASE Pop(u) \/ MakeConnection(u, 2)
      BY <1>7, <2>1, <2>2
    <2>3. CASE Exhausted /\ Go(u, "wait") /\ UNCHANGED <<available, inUse, created, conn>>
      BY <1>8, <2>1, <2>3 DEF Exhausted
    <2>4. CASE Go(u, "block") /\ at[u] = "slow" /\ UNCHANGED <<available, inUse, created, conn>>
      <3>1. \A v \in Users : /\ at'[v] \in {"wait", "warm"} => at[v] = at'[v]
                             /\ at[v] = "woken" => at'[v] = "woken"
        BY <2>4 DEF Go
      <3>2. QED
        BY <1>9, <2>1, <2>4, <3>1 DEF Held
    <2>5. QED
      BY <1>14, <2>2, <2>3, <2>4 DEF GetSlow, GetBlock
  <1>15. ASSUME NEW u \in Users,
                HealthCheck(u) \/ Connect(u) \/ CheckRead(u) \/ Reconnect(u) \/ Reestablish(u)
         PROVE  WaitInv'
    <2>1. UNCHANGED <<kind, available, created, failures, resets, missed, conn>>
      BY <1>15 DEF HealthCheck, Connect, CheckRead, Reconnect, Reestablish, config
    <2>2. \A v \in Users : /\ at'[v] \in {"wait", "warm"} => at[v] = at'[v]
                           /\ at[v] = "woken" => at'[v] = "woken"
      BY <1>15 DEF HealthCheck, Connect, CheckRead, Reconnect, Reestablish, Go
    <2>3. QED
      BY <1>9, <2>1, <2>2 DEF Held
  <1>16. ASSUME NEW u \in Users, TimedOut(u) PROVE WaitInv'
    <2>1. /\ UNCHANGED <<kind, available, created, failures, resets, conn>>
          /\ missed' = IF at[u] = "woken" THEN missed + 1 ELSE missed
      BY <1>16 DEF TimedOut, Missed, config
    <2>2. /\ \A v \in Users : at'[v] \in {"wait", "warm"} => at[v] = at'[v]
          /\ \A v \in Users \ {u} : at[v] = "woken" => at'[v] = "woken"
      BY <1>16 DEF TimedOut, Go
    <2>3. QED
      BY <1>9, <2>1, <2>2 DEF Held
  <1>17. ASSUME NEW u \in Users, EnsureFails(u) \/ Cancel(u) \/ WarmFails(u) PROVE WaitInv'
    <2>1. /\ UNCHANGED <<kind, available, created, resets>> /\ failures' # 0
          /\ missed' = IF at[u] = "woken" THEN missed + 1 ELSE missed
      BY <1>17 DEF EnsureFails, Cancel, WarmFails, Missed, config
    <2>2. /\ \A v \in Users : at'[v] \in {"wait", "warm"} => at[v] = at'[v]
          /\ \A v \in Users \ {u} : at[v] = "woken" => at'[v] = "woken"
      BY <1>17 DEF EnsureFails, Cancel, WarmFails, Drop, Take, Go
    <2>3. QED
      BY <1>9, <2>1, <2>2
  <1>18. ASSUME NEW u \in Users, GetFast(u) PROVE WaitInv'
    <2>1. Same /\ created' = created /\ at[u] = "idle"
      BY <1>18 DEF GetFast, config
    <2>2. CASE Go(u, "slow") /\ UNCHANGED <<available, conn>>
      <3>1. \A v \in Users : /\ at'[v] \in {"wait", "warm"} => at[v] = at'[v]
                             /\ at[v] = "woken" => at'[v] = "woken"
        BY <2>1, <2>2 DEF Go
      <3>2. QED
        BY <1>9, <2>1, <2>2, <3>1 DEF Held
    <2>3. ASSUME NEW c \in available, available' = available \ {c}, Take(u, c, "popped")
          PROVE  WaitInv'
      <3>1. Held' # {}
        BY <1>4, <2>3 DEF Take
      <3>2. Waiting' \subseteq Waiting /\ Woken \subseteq Woken' \cup {u} /\ (Warming' => Warming)
        BY <2>3 DEF Take, Go, Waiting, Woken, Warming
      <3>3. Waiting' # {} /\ HasCondition' => Told'
        BY <1>5, <2>1, <2>3, <3>2 DEF HasCondition
      <3>4. QED
        BY <2>1, <3>1, <3>2, <3>3 DEF WaitInv
    <2>4. QED
      BY <1>18, <2>2, <2>3 DEF GetFast
  <1>19. ASSUME NEW u \in Users, Claim(u) PROVE WaitInv'
    <2>1. /\ Same /\ UNCHANGED <<available, conn, created>>
          /\ Go(u, "ensure") /\ at[u] = "popped"
      BY <1>19 DEF Claim, UseInv, config
    <2>2. \A v \in Users : /\ at'[v] \in {"wait", "warm"} => at[v] = at'[v]
                           /\ at[v] = "woken" => at'[v] = "woken"
      BY <2>1 DEF Go
    <2>3. QED
      BY <1>9, <2>1, <2>2 DEF Held
  <1>20. ASSUME NEW u \in Users, Release(u) PROVE WaitInv'
    <2>1. Same /\ created' = created /\ conn[u] \in inUse /\ at[u] \in {"use", "check"}
      BY <1>20 DEF Release, UseInv, config
    <2>2. available' = available \cup {conn[u]} /\ Notified([at EXCEPT ![u] = "idle"])
      BY <1>20, <2>1 DEF Release
    <2>3. \A v \in Users : at'[v] \in {"wait", "warm"} => at[v] = at'[v]
      BY <2>1, <2>2 DEF Notified
    <2>4. Waiting' \subseteq Waiting /\ (Warming' => Warming)
      BY <2>3 DEF Waiting, Warming
    <2>5. ASSUME HasCondition, Waiting' # {} PROVE Told'
      <3>1. PICK v \in Users : at[v] = "wait"
        BY <2>4, <2>5 DEF Waiting
      <3>2. PICK w \in Users : /\ at[w] = "wait" /\ w # u
                               /\ at' = [[at EXCEPT ![u] = "idle"] EXCEPT ![w] = "woken"]
        BY <2>1, <2>2, <2>5, <3>1 DEF Notified
      <3>3. Woken \subseteq Woken' \ {w} /\ w \in Woken'
        BY <2>1, <3>2 DEF Woken
      <3>4. Told
        BY <2>1, <2>4, <2>5 DEF WaitInv
      <3>5. conn[u] \in Conns
        BY <2>1
      <3>6. QED
        BY <1>2, <2>1, <2>2, <3>3, <3>4, <3>5, ToldStep
    <2>6. QED
      BY <2>1, <2>2, <2>4, <2>5 DEF WaitInv, HasCondition
  <1>21. ASSUME NEW u \in Users, WarmPool(u) PROVE WaitInv'
    <2>1. PICK c \in Conns : Take(u, c, "warm")
      BY <1>21 DEF WarmPool
    <2>2. Held' # {}
      BY <1>4, <2>1 DEF Take
    <2>3. Waiting' = {}
      BY <1>21, <2>1 DEF WarmPool, WaitInv, Waiting, Take, Go
    <2>4. QED
      BY <2>2, <2>3 DEF WaitInv
  <1>22. ASSUME NEW u \in Users, WarmConnected(u) PROVE WaitInv'
    <2>1. available' # {}
      BY <1>22 DEF WarmConnected
    <2>2. Waiting' = {}
      BY <1>22 DEF WarmConnected, WaitInv, Waiting, Warming, Drop, Take, Go
    <2>3. QED
      BY <2>1, <2>2 DEF WaitInv
  <1>23. CASE ResetPool
    BY <1>23 DEF ResetPool
  <1>24. ASSUME NEW i \in BOOLEAN, NEW l \in BOOLEAN, Disconnect(i, l) \/ Disconnected
         PROVE  WaitInv'
    <2>1. UNCHANGED <<kind, available, created, failures, resets, missed, conn, at>>
      BY <1>24 DEF Disconnect, Disconnected, config
    <2>2. QED
      BY <1>10, <2>1
  <1>25. CASE UNCHANGED vars
    BY <1>10, <1>25 DEF vars, config, sockets
  <1>26. QED
    BY <1>11, <1>12, <1>13, <1>14, <1>15, <1>16, <1>17, <1>18, <1>19, <1>20, <1>21, <1>22, <1>23,
       <1>24, <1>25 DEF Next, Recreate

(***************************************************************************)
(* The invariants, and what they show                                      *)
(***************************************************************************)
LEMMA PoolInvariant == Spec => [](PlaceInv /\ UseInv /\ OpenInv /\ CountInv /\ WaitInv)
  <1> DEFINE PoolInv == PlaceInv /\ UseInv /\ OpenInv /\ CountInv /\ WaitInv
  <1>1. Init => PoolInv
    <2> SUFFICES ASSUME Init PROVE PoolInv
      OBVIOUS
    <2>1. PlaceInv /\ UseInv /\ OpenInv
      BY DEF Init, PlaceInv, UseInv, OpenInv, Having, Connecting
    <2>2. Known = {} /\ inUse \ Held = {} /\ ~Warming
      BY DEF Init, Known, Held, Warming
    <2>3. IsFiniteSet({}) /\ Cardinality({}) = 0
      BY FS_EmptySet
    <2>4. CountInv
      BY <2>2, <2>3, MaxAssumption DEF Init, CountInv
    <2>5. WaitInv
      BY <2>2 DEF Init, WaitInv, Waiting
    <2>6. QED
      BY <2>1, <2>4, <2>5
  <1>2. HolderInv /\ HolderInv' /\ PoolInv /\ [Next]_vars => PoolInv'
    BY PlaceStep, UseStep, OpenStep, CountStep, WaitStep
  <1>3. QED
    BY <1>1, <1>2, HolderInvariant, PTL DEF Spec

\* A connection leaves the pool for good only where ensure_connection fails or a
\* task is cancelled, and each of them loses at most one, whatever else release,
\* disconnect and reset_pool do meanwhile.
THEOREM LeaksOnlyByFailure == Spec => []LeaksNeedFailures
  <1>1. CountInv => LeaksNeedFailures
    BY DEF CountInv, LeaksNeedFailures
  <1>2. QED
    BY <1>1, PoolInvariant, PTL

\* max_connections holds for every kind of pool until it is reset; the optimized
\* pool counts each connection twice, so that it makes half as many.
THEOREM Bounded == Spec => []PoolIsBounded
  <1>1. HolderInv /\ CountInv => PoolIsBounded
    <2> SUFFICES ASSUME HolderInv, CountInv, resets = 0
                 PROVE  /\ Cardinality(Known) <= MaxConnections
                        /\ kind = "optimized" => 2 * Cardinality(available \cup inUse) <= created + 1
      BY DEF PoolIsBounded
    <2>1. IsFiniteSet(available \cup inUse) /\ Cardinality(available \cup inUse) <= Cardinality(Known)
      BY FS_Subset DEF CountInv, Known
    <2>2. /\ Cardinality(Known) \in Nat /\ Cardinality(available \cup inUse) \in Nat
          /\ created \in Nat
      BY <2>1, FS_CardinalityType DEF CountInv, HolderInv, TypeOK
    <2>3. QED
      BY <2>1, <2>2, MaxAssumption DEF CountInv
  <1>2. QED
    BY <1>1, HolderInvariant, PoolInvariant, PTL

\* Until the pool is reset nobody waits for a connection of a blocking or the
\* optimized pool while more are idle than were announced, also where those who
\* were called time out or are cancelled; and without failures there is always a
\* connection to wait for.
THEOREM Served == Spec => []WaitersAreServed
  <1>1. TypeOK /\ WaitInv => WaitersAreServed
    <2> SUFFICES ASSUME TypeOK, WaitInv, resets = 0, Waiting # {}
                 PROVE  /\ created >= MaxConnections
                        /\ HasCondition => Told
                        /\ failures = 0 => available \cup Held # {}
      BY DEF WaitersAreServed, Told
    <2>1. created >= MaxConnections /\ (HasCondition => Told)
      BY DEF WaitInv
    <2>2. created > 0
      BY <2>1, MaxAssumption DEF TypeOK
    <2>3. QED
      BY <2>1, <2>2 DEF WaitInv
  <1>2. QED
    BY <1>1, TypeCorrect, PoolInvariant, PTL

\* disconnect(), with the lock and of the idle connections only, takes nobody's
\* connection away: what get_connection has returned is connected.
THEOREM Connected == Spec => []UsersAreConnected
  <1>1. OpenInv => UsersAreConnected
    BY DEF OpenInv, UsersAreConnected, Having
  <1>2. QED
    BY <1>1, PoolInvariant, PTL
=============================================================================
