------------------------------- MODULE KVLock -------------------------------
(***************************************************************************)
(* Locks: a Redis key that holds the token of its owner, and a place in    *)
(* the lock object where the owner's token is kept.  A thread has a place  *)
(* of its own; the tasks of an event loop share one, because a session     *)
(* keeps one AsyncLock for a name and threading.local does not tell tasks  *)
(* apart; the context lock of a persistent dictionary shares one by        *)
(* thread_local = False.  acquire is that of redis-py: SET NX, and the     *)
(* token is put in its place when the answer has come.                     *)
(***************************************************************************)
EXTENDS Naturals

CONSTANTS Users,     \* threads or tasks
          Loop,      \* the process (event loop) each of them runs in
          Flavours,  \* of "thread" (Lock), "task" (AsyncLock), "context"
          None

ASSUME NoneAssumption == None \notin Users
ASSUME LoopAssumption == Loop \in [Users -> {Loop[u] : u \in Users}]

VARIABLES flavour, expiring,  \* which lock, and whether it has a timeout
          store,    \* the token in Redis; a user stands for its token
          token,    \* the token each place holds
          at,       \* where each user is
          mine,     \* the token a user took for its release
          force,    \* whether that release is forced
          expired, overridden, closed  \* whether a lock expired, was deleted by
                                       \* force, or was closed with its session

lockVars == <<flavour, expiring, store, token, at, mine, force, expired, overridden, closed>>
config == <<flavour, expiring>>
history == <<expired, overridden, closed>>

Places == Users \cup {Loop[u] : u \in Users}
(* The one lock object a session keeps for a name serves all its tasks.    *)
SharesPlace == flavour # "thread"
Place(u) == IF SharesPlace THEN Loop[u] ELSE u
Go(u, l) == at' = [at EXCEPT ![u] = l]
(* release is over, and its variables with it.                             *)
Return(u, l) == /\ Go(u, l)
                /\ mine' = [mine EXCEPT ![u] = None]
                /\ force' = [force EXCEPT ![u] = FALSE]

LockInit ==
  /\ flavour \in Flavours
  /\ expiring \in {e \in BOOLEAN : e => flavour # "context"}
  /\ store = None
  /\ token = [p \in Places |-> None]
  /\ at = [u \in Users |-> "idle"]
  /\ mine = [u \in Users |-> None]
  /\ force = [u \in Users |-> FALSE]
  /\ expired = FALSE /\ overridden = FALSE /\ closed = FALSE

\* Mutant of Acquire: SET without NX.
AcquireAnyway(u) ==
  /\ at[u] = "idle"
  /\ store' = u
  /\ Go(u, "granted")
  /\ UNCHANGED <<config, token, mine, force, history>>

Acquire(u) ==
  /\ at[u] = "idle" /\ store = None
  /\ store' = u
  /\ Go(u, "granted")
  /\ UNCHANGED <<config, token, mine, force, history>>

Enter(u) ==
  /\ at[u] = "granted"
  /\ token' = [token EXCEPT ![Place(u)] = u]
  /\ Go(u, "in")
  /\ UNCHANGED <<config, store, mine, force, history>>

(* The key expires, however far its owner has come.                        *)
Expire ==
  /\ expiring /\ store # None
  /\ store' = None
  /\ expired' = TRUE
  /\ UNCHANGED <<config, token, at, mine, force, overridden, closed>>

(* A release that fails deletes the key if it is forced, and always for a  *)
(* context lock.                                                           *)
Forced(f) == f \/ flavour = "context"

(* release takes the token from its place.  Without one it fails, and      *)
(* AsyncLock raises whether it is forced or not.                           *)
TakeToken(u, f) ==
  LET t == token[Place(u)]
  IN /\ token' = [token EXCEPT ![Place(u)] = None]
     /\ \/ /\ t # None
           /\ mine' = [mine EXCEPT ![u] = t]
           /\ force' = [force EXCEPT ![u] = Forced(f)]
           /\ Go(u, "release")
        \/ /\ t = None
           /\ Return(u, IF Forced(f) /\ flavour # "task" THEN "delete" ELSE "idle")
Release(u, f) ==
  /\ at[u] = "in"
  /\ TakeToken(u, f)
  /\ UNCHANGED <<config, store, history>>

\* Mutant of LuaRelease: the script does not compare the token.
LuaDelete(u) ==
  /\ at[u] = "release"
  /\ IF store # None
     THEN store' = None /\ Return(u, "idle")
     ELSE UNCHANGED store /\ Return(u, IF force[u] THEN "delete" ELSE "idle")
  /\ UNCHANGED <<config, token, history>>

\* Mutant of LuaRelease: a user releases with its own token.
LuaReleaseOwn(u) ==
  /\ at[u] = "release"
  /\ IF store = u
     THEN store' = None /\ Return(u, "idle")
     ELSE UNCHANGED store /\ Return(u, IF force[u] THEN "delete" ELSE "idle")
  /\ UNCHANGED <<config, token, history>>

(* The release script deletes the key if it still holds the token.         *)
LuaRelease(u) ==
  /\ at[u] = "release"
  /\ IF store = mine[u]
     THEN store' = None /\ Return(u, "idle")
     ELSE UNCHANGED store /\ Return(u, IF force[u] THEN "delete" ELSE "idle")
  /\ UNCHANGED <<config, token, history>>
(* A forced release deletes the key, whoever owns it now.                  *)
ForceDelete(u) ==
  /\ at[u] = "delete"
  /\ store' = None
  /\ overridden' = TRUE
  /\ Go(u, "idle")
  /\ UNCHANGED <<config, token, mine, force, expired, closed>>

(* close_locks and aclose_locks release a lock of the session for somebody *)
(* who need not have acquired it.                                          *)
CloseLocks(u, f) ==
  /\ flavour # "context" /\ at[u] = "idle"
  /\ TakeToken(u, f)
  /\ closed' = TRUE
  /\ UNCHANGED <<config, store, expired, overridden>>

(* The process of a user dies.                                             *)
Crash(u) ==
  /\ at[u] # "dead"
  /\ Return(u, "dead")
  /\ UNCHANGED <<config, store, token, history>>

LockNext ==
  \/ Expire
  \/ \E u \in Users :
       \/ Acquire(u) \/ Enter(u) \/ LuaRelease(u) \/ ForceDelete(u) \/ Crash(u)
       \/ \E f \in BOOLEAN : Release(u, f) \/ CloseLocks(u, f)

(* Answers come, and sections end.                                         *)
LockFairness ==
  \A u \in Users :
    WF_lockVars(Enter(u) \/ (\E f \in BOOLEAN : Release(u, f)) \/ LuaRelease(u) \/ ForceDelete(u))

LockSpec == LockInit /\ [][LockNext]_lockVars /\ LockFairness

(***************************************************************************)
(* Properties                                                              *)
(***************************************************************************)
(* The shape of the lock's state.                                          *)
LockTypeOK ==
  /\ flavour \in Flavours /\ expiring \in BOOLEAN
  /\ store \in Users \cup {None}
  /\ token \in [Places -> Users \cup {None}]
  /\ at \in [Users -> {"idle", "granted", "in", "release", "delete", "dead"}]
  /\ mine \in [Users -> Users \cup {None}]
  /\ force \in [Users -> BOOLEAN]
  /\ {expired, overridden, closed} \subseteq BOOLEAN

(* Those who believe that they have the lock.                              *)
Owners == {u \in Users : at[u] \in {"granted", "in"}}

(* Unless a lock expired under its owner, was deleted by force or was      *)
(* closed with its session, one user at a time has the lock, also where    *)
(* several share the place of the token.                                   *)
Exclusive ==
  ~expired /\ ~overridden /\ ~closed => \A u, v \in Owners : u = v

(* Threads, each with a place of its own, never release the lock of        *)
(* another one: it ends by its owner's release, by its timeout or by       *)
(* force.                                                                  *)
NotStolen ==
  [][\A u \in Users :
       flavour = "thread" /\ store = u /\ store' # u
         => LuaRelease(u) \/ Expire \/ \E v \in Users : ForceDelete(v)]_lockVars

(* A lock without a timeout, which nothing but a release ever frees, does  *)
(* not stay taken while its users live: not when close_locks takes the     *)
(* token out of the owner's place, not when a task releases with the token *)
(* of another one, and not when a forced release finds the next owner.     *)
FreedWhileAlive ==
  ~expiring /\ [](\A u \in Users : at[u] # "dead") => []<>(store = None)
=============================================================================
