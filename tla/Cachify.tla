------------------------------ MODULE Cachify ------------------------------
(***************************************************************************)
(* The function cache: results in one Redis hash (cache_field), and hit    *)
(* counters, timestamps and expirations as four values of a persistent     *)
(* dictionary, each read whole, changed and written back.  Callers run a   *)
(* cached function; a sync function does everything in the call, an async  *)
(* one does the same or, unless disable_background_tasks, leaves the       *)
(* policies after a hit and the write after a miss to background tasks.    *)
(***************************************************************************)
EXTENDS Integers, FiniteSets

CONSTANTS Callers,     \* users of the cached function, in one or more processes
          Background,  \* slots for background tasks
          Keys,        \* cache keys, one for each set of arguments
          Styles,      \* of "sync", "async" (disable_background_tasks) and "background"
          Policies,    \* the values of cache_max_size_policy
          MaxSize,     \* cache_max_size
          Ttl,         \* ttl
          Afters,      \* the values of invalidate_after, a number of hits or None
          MaxTime, MaxVersion,  \* bounds on the clock and on changes of the result
          MaxCalls, MaxShared,  \* bounds on the calls of one caller, of several callers
          None         \* an absent entry

ASSUME SizeAssumption == MaxSize \in Nat /\ Ttl \in Nat
ASSUME BoundAssumption == MaxTime \in Nat /\ MaxVersion \in Nat /\ {MaxCalls, MaxShared} \subseteq Nat
ASSUME NoneAssumption == None \notin Nat
ASSUME AfterAssumption == Afters \subseteq Nat \cup {None}
ASSUME ProcsAssumption == IsFiniteSet(Callers) /\ IsFiniteSet(Background)

VARIABLES style, policy, after, active,  \* how the function is cached, who calls it
          available,  \* whether the ping was answered when the function was decorated
          cache,     \* the hash: the version of the result stored for a key
          hits, keyhits, timestamps, expirations,  \* the values of self.data
          now,       \* time.time()
          truth,     \* the version of the result the function returns now
          pc,        \* where each caller and each task is, with its variables
          calls,     \* calls made so far
          found,     \* look-ups that found a value, for a single caller since
                     \* the cache was last cleared
          floor,     \* the version at the last completed invalidation of a key
          swept,     \* when the last check for expired keys was made (both kept
                     \* for a single caller, the only case that uses them)
          timedout   \* an operation was cut off by its timeout

meta == <<hits, keyhits, timestamps, expirations>>
ghosts == <<calls, found, floor, swept, timedout>>
config == <<style, policy, after, active>>
vars == <<config, available, cache, meta, now, truth, pc, ghosts>>

Procs == Callers \cup Background
Nothing == [k \in Keys |-> None]
Present(f) == {k \in Keys : f[k] # None}
Erase(f, ks) == [k \in Keys |-> IF k \in ks THEN None ELSE f[k]]
Idle == [at |-> "idle", key |-> None, then |-> "idle", val |-> None, ks |-> {},
         map1 |-> Nothing, map2 |-> Nothing, map3 |-> Nothing]

OneCaller == \E c \in Callers : active = {c}
Alone == OneCaller /\ style # "background"

At(p, l) == pc[p].at = l
Key(p) == pc[p].key
Goto(p, l) == pc' = [pc EXCEPT ![p].at = l]
Return(p) == pc' = [pc EXCEPT ![p] = Idle]
(* One method is done, the next begins; of the variables those of the call *)
(* remain that it may still need.                                          *)
Place(p, l, then) ==
  IF l = "idle" THEN Idle
  ELSE [Idle EXCEPT !.at = l, !.key = Key(p), !.then = then]
Continue(p, l) ==
  pc' = [pc EXCEPT ![p] = Place(p, l, IF l \in {"retrieve", "compute"} THEN "idle" ELSE pc[p].then)]
NoSize == MaxSize = 0   \* cache_max_size is None

(* What the properties of the cache report: what is absent counts as 0.    *)
Count(x) == IF x = None THEN 0 ELSE x
NumHits == Count(hits)
NumKeys == Cardinality(Present(cache))
CacheInfo == [hits |-> NumHits, keys |-> NumKeys, keyhits |-> [k \in Keys |-> Count(keyhits[k])],
              expirations |-> expirations]

Init ==
  /\ style \in Styles
  /\ policy \in Policies
  /\ active \in (SUBSET Callers) \ {{}}
  /\ after \in IF Alone THEN Afters ELSE {None}
  /\ available \in BOOLEAN
  /\ cache = Nothing
  /\ hits = None /\ keyhits = Nothing /\ timestamps = Nothing /\ expirations = Nothing
  /\ now = 0 /\ truth = 0
  /\ pc = [p \in Procs |-> Idle]
  /\ calls = 0 /\ found = 0 /\ floor = [k \in Keys |-> 0] /\ swept = 0 /\ timedout = FALSE

(***************************************************************************)
(* The wrapper                                                             *)
(***************************************************************************)
Begin(c) == /\ c \in active /\ At(c, "idle")
            /\ calls < IF OneCaller THEN MaxCalls ELSE MaxShared
            /\ calls' = calls + 1

(* What a call says of itself with the arguments cache_disable,            *)
(* cache_invalidate and cache_overwrite.                                   *)
CacheKwargs == [disabled : BOOLEAN, invalidate : BOOLEAN, overwrite : BOOLEAN]

(* disabled = True is not looked at: only the argument and a callable are. *)
ShouldDisable(kw) == kw.disabled
ShouldOverwrite(kw) == kw.overwrite

(* With invalidate_after an async call compares the hits of all keys with  *)
(* it; a sync call has no hits at hand.                                    *)
ShouldInvalidate(kw) ==
  kw.invalidate \/ (after # None /\ style # "sync" /\ NumHits >= after)

Call(c, k) ==
  /\ Begin(c) /\ available
  /\ \E kw \in CacheKwargs :
       LET look == IF ShouldOverwrite(kw) THEN "compute" ELSE "retrieve"
       IN /\ ~ShouldDisable(kw)
          /\ pc' = [pc EXCEPT ![c] = [Idle EXCEPT
                      !.at = IF ShouldInvalidate(kw) THEN "invalidate" ELSE look,
                      !.then = IF ShouldInvalidate(kw) THEN look ELSE "idle", !.key = k]]
  /\ UNCHANGED <<config, available, cache, meta, now, truth, found, floor, swept, timedout>>

(* The function was left as it is, or the call disables the cache.         *)
Bypass(c) ==
  /\ Begin(c)
  /\ ~available \/ \E kw \in CacheKwargs : ShouldDisable(kw)
  /\ UNCHANGED <<config, available, cache, meta, now, truth, pc, found, floor, swept, timedout>>

InvalidateKey(c, k) ==
  /\ Begin(c)
  /\ pc' = [pc EXCEPT ![c] = [Idle EXCEPT !.at = "invalidate", !.key = k]]
  /\ UNCHANGED <<config, available, cache, meta, now, truth, found, floor, swept, timedout>>

(* invalidate_cache pops the key from the maps it is in, flushes them, and *)
(* deletes the entry.                                                      *)
InvalidateRead(p) ==
  /\ At(p, "invalidate")
  /\ pc' = [pc EXCEPT ![p].at = "flush", ![p].map1 = keyhits,
                      ![p].map2 = timestamps, ![p].map3 = expirations]
  /\ UNCHANGED <<config, available, cache, meta, now, truth, ghosts>>
InvalidateFlush(p) ==
  /\ At(p, "flush")
  /\ LET flushed(old, new) == IF new[Key(p)] = None THEN old ELSE Erase(new, {Key(p)})
     IN /\ keyhits' = flushed(keyhits, pc[p].map1)
        /\ timestamps' = flushed(timestamps, pc[p].map2)
        /\ expirations' = flushed(expirations, pc[p].map3)
  /\ Goto(p, "delete")
  /\ UNCHANGED <<config, available, cache, hits, now, truth, ghosts>>

\* Mutant of InvalidateDelete: only the records of the key are removed.
InvalidateForget(p) ==
  /\ At(p, "delete")
  /\ UNCHANGED cache
  /\ floor' = [floor EXCEPT ![Key(p)] = IF Alone THEN truth ELSE 0]
  /\ Continue(p, pc[p].then)
  /\ UNCHANGED <<config, available, meta, now, truth, calls, found, swept, timedout>>

InvalidateDelete(p) ==
  /\ At(p, "delete")
  /\ cache' = Erase(cache, {Key(p)})
  /\ floor' = [floor EXCEPT ![Key(p)] = IF Alone THEN truth ELSE 0]
  /\ Continue(p, pc[p].then)
  /\ UNCHANGED <<config, available, meta, now, truth, calls, found, swept, timedout>>

(* A background task takes the key and the value along; the call goes on.  *)
Spawn(c, l, v, then) ==
  \E b \in Background :
    /\ At(b, "idle")
    /\ pc' = [pc EXCEPT ![c] = Place(c, then, "idle"),
                        ![b] = [Idle EXCEPT !.at = l, !.key = Key(c), !.val = v]]

(* The policies run for a value that was found, in the call or in a task   *)
(* of their own; then decode_hit gives the value, or it raises or gives    *)
(* None, and the function is called although the hit is counted.           *)
Hit(p) ==
  \E then \in {"idle", "compute"} :
    IF style = "background" THEN Spawn(p, "hit", None, then)
    ELSE pc' = [pc EXCEPT ![p] = Place(p, "hit", then)]

\* Mutant of Retrieve: the policies run for a miss as well.
RetrieveAny(p) ==
  /\ At(p, "retrieve")
  /\ \/ /\ cache[Key(p)] = None
        /\ Continue(p, "hit")
        /\ UNCHANGED found
     \/ /\ cache[Key(p)] # None
        /\ found' = found + 1
        /\ Hit(p)
  /\ UNCHANGED <<config, available, cache, meta, now, truth, calls, floor, swept, timedout>>

(* retrieve: the value is read first and the policies run afterwards, so   *)
(* that an expired value is returned once more.                            *)
Retrieve(p) ==
  /\ At(p, "retrieve")
  /\ \/ /\ cache[Key(p)] = None
        /\ Continue(p, "compute")
        /\ UNCHANGED found
     \/ /\ cache[Key(p)] # None
        /\ found' = found + 1
        /\ Hit(p)
  /\ UNCHANGED <<config, available, cache, meta, now, truth, calls, floor, swept, timedout>>

(* The function runs; it may raise, or its value is excluded from the      *)
(* cache, by its kind or by cache_exclude, and returned all the same.      *)
Compute(p) ==
  /\ At(p, "compute")
  /\ \/ Return(p)
     \/ IF style = "background" THEN Spawn(p, "set", truth, "idle")
        ELSE pc' = [pc EXCEPT ![p].at = "set", ![p].val = truth]
  /\ UNCHANGED <<config, available, cache, meta, now, truth, ghosts>>

SetValue(p) ==
  /\ At(p, "set")
  /\ cache' = [cache EXCEPT ![Key(p)] = pc[p].val]
  /\ Goto(p, "expiration")
  /\ UNCHANGED <<config, available, meta, now, truth, ghosts>>

AddKeyExpiration(p) ==
  \/ /\ At(p, "expiration")
     /\ pc' = [pc EXCEPT ![p].at = "expiration2",
                         ![p].map1 = [expirations EXCEPT ![Key(p)] = now + Ttl]]
     /\ UNCHANGED <<config, available, cache, meta, now, truth, ghosts>>
  \/ /\ At(p, "expiration2")
     /\ expirations' = pc[p].map1
     /\ Return(p)
     /\ UNCHANGED <<config, available, cache, hits, keyhits, timestamps, now, truth, ghosts>>

(***************************************************************************)
(* The policies, after a hit                                               *)
(***************************************************************************)
(* add_hit: contains, perhaps a first 0, then read and write; a counter    *)
(* that is not there starts at 1.                                          *)
AddHit(p) ==
  \/ /\ At(p, "hit")
     /\ Goto(p, IF hits = None THEN "hitZero" ELSE "hitRead")
     /\ UNCHANGED <<config, available, cache, meta, now, truth, ghosts>>
  \/ /\ At(p, "hitZero")
     /\ hits' = 0
     /\ Goto(p, "hitRead")
     /\ UNCHANGED <<config, available, cache, keyhits, timestamps, expirations, now, truth, ghosts>>
  \/ /\ At(p, "hitRead")
     /\ pc' = [pc EXCEPT ![p].at = "hitWrite", ![p].val = NumHits + 1]
     /\ UNCHANGED <<config, available, cache, meta, now, truth, ghosts>>
  \/ /\ At(p, "hitWrite")
     /\ hits' = pc[p].val
     /\ Continue(p, "expire")
     /\ UNCHANGED <<config, available, cache, keyhits, timestamps, expirations, now, truth, ghosts>>

(* Without a maximum size nothing more is kept; a sync call counts the hit *)
(* of the key and then its timestamp, an async call the other way around.  *)
Counting(p) == IF NoSize THEN pc[p].then ELSE IF style = "sync" THEN "keyhit" ELSE "timestamp"
AfterKeyHit == IF style = "sync" THEN "timestamp" ELSE "size"
AfterTimestamp == IF style = "sync" THEN "size" ELSE "keyhit"

(* expire_cache_expired_keys: the maps are read, written back without the  *)
(* expired keys one after the other, and the entries are deleted.          *)
ExpireRead(p) ==
  /\ At(p, "expire")
  /\ LET gone == {k \in Present(expirations) : now > expirations[k]}
     IN IF gone = {} THEN Continue(p, Counting(p))
        ELSE pc' = [pc EXCEPT ![p].at = "expireRest", ![p].ks = gone, ![p].map1 = expirations]
  /\ swept' = IF Alone THEN now ELSE 0
  /\ UNCHANGED <<config, available, cache, meta, now, truth, calls, found, floor, timedout>>
ExpireReadRest(p) ==
  /\ At(p, "expireRest")
  /\ pc' = [pc EXCEPT ![p].at = "expire1", ![p].map2 = keyhits, ![p].map3 = timestamps]
  /\ UNCHANGED <<config, available, cache, meta, now, truth, ghosts>>
ExpireWrite(p) ==
  /\ \/ /\ At(p, "expire1")
        /\ expirations' = Erase(pc[p].map1, pc[p].ks)
        /\ Goto(p, "expire2")
        /\ UNCHANGED <<keyhits, timestamps>>
     \/ /\ At(p, "expire2")
        /\ keyhits' = Erase(pc[p].map2, pc[p].ks)
        /\ Goto(p, "expire3")
        /\ UNCHANGED <<expirations, timestamps>>
     \/ /\ At(p, "expire3")
        /\ timestamps' = Erase(pc[p].map3, pc[p].ks)
        /\ Goto(p, "expireClear")
        /\ UNCHANGED <<expirations, keyhits>>
  /\ UNCHANGED <<config, available, cache, hits, now, truth, ghosts>>

ExpireClear(p) ==
  /\ At(p, "expireClear")
  /\ cache' = Erase(cache, pc[p].ks)
  /\ Continue(p, Counting(p))
  /\ UNCHANGED <<config, available, meta, now, truth, ghosts>>

AddKeyHit(p) ==
  \/ /\ At(p, "keyhit")
     /\ pc' = [pc EXCEPT ![p].at = "keyhit2",
                         ![p].map1 = [keyhits EXCEPT ![Key(p)] = Count(@) + 1]]
     /\ UNCHANGED <<config, available, cache, meta, now, truth, ghosts>>
  \/ /\ At(p, "keyhit2")
     /\ keyhits' = pc[p].map1
     /\ Continue(p, AfterKeyHit)
     /\ UNCHANGED <<config, available, cache, hits, timestamps, expirations, now, truth, ghosts>>
AddKeyTimestamp(p) ==
  \/ /\ At(p, "timestamp")
     /\ pc' = [pc EXCEPT ![p].at = "timestamp2",
                         ![p].map1 = [timestamps EXCEPT ![Key(p)] = now]]
     /\ UNCHANGED <<config, available, cache, meta, now, truth, ghosts>>
  \/ /\ At(p, "timestamp2")
     /\ timestamps' = pc[p].map1
     /\ Continue(p, AfterTimestamp)
     /\ UNCHANGED <<config, available, cache, hits, keyhits, expirations, now, truth, ghosts>>

(* The keys a policy sorts by, and whether it sorts downwards: the async   *)
(* LRU does, the sync one does not; FIFO takes the newest, LIFO the oldest.*)
Ranks == IF policy = "LFU" THEN keyhits ELSE timestamps
Downwards == policy = "FIFO" \/ (policy = "LRU" /\ style # "sync")

(* sorted(...)[:n]: nothing for 0, all but the last ones for n < 0, and    *)
(* keys of equal rank in any order.                                        *)
Take(n, len) == IF n >= 0 THEN (IF n < len THEN n ELSE len)
                ELSE IF len + n > 0 THEN len + n ELSE 0
Firsts(n) ==
  {vs \in SUBSET Present(Ranks) :
     /\ Cardinality(vs) = Take(n, Cardinality(Present(Ranks)))
     /\ \A x \in vs, y \in Present(Ranks) \ vs :
          IF Downwards THEN Ranks[x] >= Ranks[y] ELSE Ranks[x] <= Ranks[y]}

(* check_cache_policies: the size twice, the ranks, then the deletion; the *)
(* key of this call is spared.                                             *)
CheckSize(p) ==
  /\ At(p, "size")
  /\ IF NumKeys <= MaxSize THEN Continue(p, pc[p].then) ELSE Goto(p, "size2")
  /\ UNCHANGED <<config, available, cache, meta, now, truth, ghosts>>
CountKeys(p) ==
  /\ At(p, "size2")
  /\ pc' = [pc EXCEPT ![p].at = "rank", ![p].val = NumKeys - MaxSize]
  /\ UNCHANGED <<config, available, cache, meta, now, truth, ghosts>>
ChooseVictims(p) ==
  /\ At(p, "rank")
  /\ \E vs \in Firsts(pc[p].val) :
       pc' = [pc EXCEPT ![p].ks = vs \ {Key(p)},
                        ![p].at = IF vs \ {Key(p)} = {} THEN "clear" ELSE "evict"]
  /\ UNCHANGED <<config, available, cache, meta, now, truth, ghosts>>
Evict(p) ==
  /\ At(p, "evict")
  /\ cache' = Erase(cache, pc[p].ks)
  /\ Continue(p, pc[p].then)
  /\ UNCHANGED <<config, available, meta, now, truth, ghosts>>

(* clear() without keys, which is also what clear([]) is: first the values *)
(* of self.data, then the whole cache.                                     *)
Clear(c) ==
  /\ Begin(c)
  /\ pc' = [pc EXCEPT ![c] = [Idle EXCEPT !.at = "clear"]]
  /\ UNCHANGED <<config, available, cache, meta, now, truth, found, floor, swept, timedout>>
ClearAll(p) ==
  \/ /\ At(p, "clear")
     /\ hits' = None /\ keyhits' = Nothing /\ timestamps' = Nothing /\ expirations' = Nothing
     /\ found' = IF Alone THEN 0 ELSE found
     /\ Goto(p, "clear2")
     /\ UNCHANGED <<config, available, cache, now, truth, calls, floor, swept, timedout>>
  \/ /\ At(p, "clear2")
     /\ cache' = Nothing
     /\ Continue(p, pc[p].then)
     /\ UNCHANGED <<config, available, meta, now, truth, ghosts>>

(***************************************************************************)
(* safely(): an operation that takes too long is cut off, and the call     *)
(* goes on with the next one                                               *)
(***************************************************************************)
Resume(l, p) ==
  CASE l = "retrieve" -> "compute"
    [] l \in {"hit", "hitZero", "hitRead", "hitWrite"} -> "expire"
    [] l \in {"expire", "expireRest", "expire1", "expire2", "expire3", "expireClear"} -> Counting(p)
    [] l \in {"keyhit", "keyhit2"} -> AfterKeyHit
    [] l \in {"timestamp", "timestamp2"} -> AfterTimestamp
    [] OTHER -> pc[p].then
Timeout(p) ==
  /\ ~timedout
  /\ pc[p].at \notin {"idle", "compute"}
  /\ timedout' = TRUE
  /\ Continue(p, Resume(pc[p].at, p))
  /\ UNCHANGED <<config, available, cache, meta, now, truth, calls, found, floor, swept>>

Tick == /\ now < MaxTime
        /\ now' = now + 1
        /\ UNCHANGED <<config, available, cache, meta, truth, pc, ghosts>>

(* What the function computes from changes.                                *)
Change == /\ truth < MaxVersion
          /\ truth' = truth + 1
          /\ UNCHANGED <<config, available, cache, meta, now, pc, ghosts>>

Next ==
  \/ \E c \in Callers :
       \/ \E k \in Keys : Call(c, k) \/ InvalidateKey(c, k)
       \/ Bypass(c)
       \/ Clear(c)
  \/ \E p \in Procs :
       \/ InvalidateRead(p) \/ InvalidateFlush(p) \/ InvalidateDelete(p)
       \/ Retrieve(p) \/ Compute(p) \/ SetValue(p) \/ AddKeyExpiration(p)
       \/ AddHit(p) \/ ExpireRead(p) \/ ExpireReadRest(p) \/ ExpireWrite(p) \/ ExpireClear(p)
       \/ AddKeyHit(p) \/ AddKeyTimestamp(p)
       \/ CheckSize(p) \/ CountKeys(p) \/ ChooseVictims(p) \/ Evict(p) \/ ClearAll(p)
       \/ Timeout(p)
  \/ Tick
  \/ Change

Spec == Init /\ [][Next]_vars

(***************************************************************************)
(* Properties                                                              *)
(***************************************************************************)
Counts == Nat \cup {None}
Labels == {"idle", "invalidate", "flush", "delete", "retrieve", "compute", "set", "expiration",
           "expiration2", "hit", "hitZero", "hitRead", "hitWrite", "expire", "expireRest",
           "expire1", "expire2", "expire3", "expireClear", "keyhit", "keyhit2", "timestamp",
           "timestamp2", "size", "size2", "rank", "evict", "clear", "clear2"}

(* The shape of the cache, of its records and of the local variables.      *)
TypeOK ==
  /\ style \in Styles /\ policy \in Policies /\ after \in Afters \cup {None} /\ available \in BOOLEAN
  /\ active \subseteq Callers
  /\ cache \in [Keys -> Counts]
  /\ hits \in Counts
  /\ {keyhits, timestamps, expirations} \subseteq [Keys -> Counts]
  /\ {now, truth, calls, found, swept} \subseteq Nat
  /\ pc \in [Procs -> [at : Labels, key : Keys \cup {None}, then : Labels,
                       val : Int \cup {None}, ks : SUBSET Keys,
                       map1 : [Keys -> Counts], map2 : [Keys -> Counts], map3 : [Keys -> Counts]]]
  /\ floor \in [Keys -> Nat]
  /\ timedout \in BOOLEAN

Resting == \A p \in Procs : At(p, "idle")

(* The counters are read and written over several commands and may lose    *)
(* hits to other callers, to a clear or to an invalidation, but they never *)
(* count more hits than there were look-ups that found a value; whether    *)
(* the value then decodes and is returned they do not say.  And with one   *)
(* caller and no background tasks the report adds up once the calls are    *)
(* done: no key has more hits than there were in all.  (The shape of the   *)
(* records is part of it.)                                                 *)
NeverOvercounts ==
  /\ TypeOK
  /\ CacheInfo.hits <= found
  /\ \A k \in Keys : CacheInfo.keyhits[k] <= found
  /\ Alone /\ ~timedout /\ Resting => \A k \in Keys : CacheInfo.keyhits[k] <= CacheInfo.hits

(* With one caller and no background tasks, an invalidation holds: what is *)
(* in the cache was computed after it.                                     *)
InvalidationHolds ==
  Alone => \A k \in Present(cache) : cache[k] >= floor[k]

(* With one caller, no background tasks and no timeout, every entry has    *)
(* the expiration it was given once the calls are done, and none of those  *)
(* that had expired at the last hit is left.                               *)
EntriesExpire ==
  Alone /\ ~timedout /\ Resting =>
    \A k \in Present(cache) : /\ CacheInfo.expirations[k] # None
                              /\ CacheInfo.expirations[k] >= swept

(* With one caller, no background tasks and no timeout, a look-up of an    *)
(* async function finds a value no more often than invalidate_after says,  *)
(* counted from the last clear.                                            *)
NotServedAfter ==
  Alone /\ style = "async" /\ after # None /\ ~timedout => found <= after

(* A cache that one caller uses is exact: what was invalidated is gone,    *)
(* what has expired goes, and look-ups find no more than they may.         *)
ExactAlone == InvalidationHolds /\ EntriesExpire /\ NotServedAfter
=============================================================================
