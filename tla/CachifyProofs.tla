---------------------------- MODULE CachifyProofs ----------------------------
(***************************************************************************)
(* Proofs about Cachify, for any callers, background tasks, keys and       *)
(* bounds: the counters never count more hits than there were look-ups     *)
(* that found a value, and for one caller the cache is exact.              *)
(***************************************************************************)
EXTENDS Cachify, FiniteSetTheorems, TLAPS

(***************************************************************************)
(* The inductive invariant                                                 *)
(***************************************************************************)
HitSteps == {"hit", "hitZero", "hitRead", "hitWrite"}
ExpireSteps == {"expire", "expireRest", "expire1", "expire2", "expire3", "expireClear"}
KeyHitSteps == HitSteps \cup ExpireSteps \cup {"keyhit", "keyhit2"}
                 \cup IF style = "sync" THEN {} ELSE {"timestamp", "timestamp2"}

(* Who found a value and has not added to `hits', or to the key's hits.    *)
Uncounted == {p \in Procs : pc[p].at \in HitSteps}
KeyUncounted == {p \in Procs : pc[p].at \in KeyHitSteps}

(* What the types leave open of the local variables.                       *)
LocalOK(r) ==
  /\ r.at \notin {"idle", "clear", "clear2"} \/ r.then # "idle" => r.key \in Keys
  /\ r.then \in {"idle", "compute"} \cup
               IF r.at \in {"invalidate", "flush", "delete"} THEN {"retrieve"} ELSE {}
  /\ r.at \in {"set", "hitWrite"} => r.val \in Nat
  /\ r.at = "expire" => r.ks = {}

(* A map of key hits that leaves room for the hits still to be counted,    *)
(* but for that of process p, when it is in the map already.               *)
Covers(f, P) == \A k \in Keys : Count(f[k]) + Cardinality(P) <= found

CountsLocal(p) ==
  LET r == pc[p] IN
    /\ r.at = "hitWrite" => r.val + Cardinality(Uncounted \ {p}) <= found
    /\ r.at = "flush" => Covers(r.map1, KeyUncounted)
    /\ r.at \in {"expire1", "expire2"} => Covers(r.map2, KeyUncounted)
    /\ r.at = "keyhit2" => Covers(r.map1, KeyUncounted \ {p})

CountInv ==
  /\ Count(hits) + Cardinality(Uncounted) <= found
  /\ Covers(keyhits, KeyUncounted)
  /\ \A p \in Procs : CountsLocal(p)

(* Nobody but the one caller is in the cache.                              *)
QuietInv == Alone => \A p \in Procs : pc[p].at # "idle" => active = {p}

(* Versions: of the function, of its results on their way and in the cache. *)
VersionInv ==
  Alone => /\ \A k \in Keys : floor[k] <= truth
           /\ \A k \in Present(cache) : floor[k] <= cache[k]
           /\ \A p \in Procs : pc[p].at = "set" => floor[Key(p)] <= pc[p].val

(* The one caller's hits of a key are hits, whichever copies it holds.     *)
HitsAddUp(r) ==
  LET within(f, n) == \A k \in Keys : Count(f[k]) + n <= NumHits IN
    /\ within(keyhits, IF r.at \in KeyHitSteps \ HitSteps THEN 1 ELSE 0)
    /\ r.at = "hitZero" => hits = None
    /\ r.at = "hitWrite" => r.val = NumHits + 1
    /\ r.at = "flush" => within(r.map1, 0)
    /\ r.at \in {"expire1", "expire2"} => within(r.map2, 1)
    /\ r.at = "keyhit2" => within(r.map1, 0)

(* An entry has its expiration, unless the caller is giving it one, or is  *)
(* removing the entry.                                                     *)
Removing(r) ==
  {k \in Keys : \/ r.at \in {"expiration", "expiration2", "delete"} /\ k = r.key
                \/ r.at \in ExpireSteps /\ k \in r.ks
                \/ r.at = "clear2"}
Kept(f, ks) == \A k \in Present(cache) \ ks : f[k] # None /\ f[k] >= swept
ExpirationsAddUp(r) ==
  /\ Kept(expirations, Removing(r))
  /\ r.at = "flush" => Kept(r.map3, {})
  /\ r.at = "expiration2" => Kept(r.map1, {}) /\ r.map1[r.key] \in Nat /\ r.map1[r.key] >= swept
  /\ r.at \in {"expireRest", "expire1"} => Kept(r.map1, r.ks)
  /\ swept <= now

(* invalidate_after is a bound on the hits, and those are what was found.  *)
ServedAddUp(r) ==
  style = "async" /\ after # None =>
    /\ found = NumHits + IF r.at \in HitSteps THEN 1 ELSE 0
    /\ found <= after
    /\ r.at = "retrieve" => cache[r.key] = None \/ NumHits < after

AloneInv ==
  ~timedout => \A c \in Procs : active = {c} /\ style # "background" =>
    HitsAddUp(pc[c]) /\ ExpirationsAddUp(pc[c]) /\ ServedAddUp(pc[c])

ValuesInv == IsFiniteSet(Present(cache)) /\ \A p \in Procs : LocalOK(pc[p])

CacheInv == TypeOK /\ ValuesInv /\ CountInv /\ QuietInv /\ VersionInv /\ AloneInv

(***************************************************************************)
(* Local variables                                                         *)
(***************************************************************************)
Maps == [Keys -> Counts]
Locals == [at : Labels, key : Keys \cup {None}, then : Labels,
           val : Int \cup {None}, ks : SUBSET Keys,
           map1 : Maps, map2 : Maps, map3 : Maps]

(* Process p moves alone, to label l.                                      *)
Moves(p, l) == /\ pc' \in [Procs -> Locals]
               /\ \A q \in Procs \ {p} : pc'[q] = pc[q]
               /\ pc'[p].at = l

LEMMA Types ==
  ASSUME TypeOK
  PROVE  /\ pc \in [Procs -> Locals]
         /\ cache \in Maps /\ keyhits \in Maps /\ timestamps \in Maps /\ expirations \in Maps
         /\ \A p \in Procs : pc[p] \in Locals
  BY DEF TypeOK, Locals, Maps

LEMMA NothingType == Nothing \in Maps /\ Idle \in Locals /\ \A k \in Keys : Nothing[k] = None
  BY DEF Nothing, Maps, Idle, Locals, Labels, Counts

LEMMA Gone ==
  ASSUME NEW f \in Maps, NEW ks
  PROVE  /\ Erase(f, ks) \in Maps
         /\ \A k \in Keys : Erase(f, ks)[k] = IF k \in ks THEN None ELSE f[k]
         /\ \A k \in Keys : Count(Erase(f, ks)[k]) <= Count(f[k])
  <1>1. /\ Erase(f, ks) \in Maps
        /\ \A k \in Keys : Erase(f, ks)[k] = IF k \in ks THEN None ELSE f[k]
    BY DEF Erase, Maps, Counts
  <1>2. QED
    BY <1>1, NoneAssumption DEF Count, Maps, Counts

LEMMA Settles ==
  ASSUME TypeOK, NEW p \in Procs, NEW r \in Locals, pc' = [pc EXCEPT ![p] = r]
  PROVE  Moves(p, r.at) /\ pc'[p] = r
  BY Types DEF Moves, Locals

LEMMA Goes ==
  ASSUME TypeOK, NEW p \in Procs, NEW l \in Labels, Goto(p, l)
  PROVE  /\ Moves(p, l)
         /\ pc'[p].key = pc[p].key /\ pc'[p].then = pc[p].then
         /\ pc'[p].val = pc[p].val /\ pc'[p].ks = pc[p].ks /\ pc'[p].map1 = pc[p].map1
         /\ pc'[p].map2 = pc[p].map2 /\ pc'[p].map3 = pc[p].map3
  <1>1. pc'[p] = [pc[p] EXCEPT !.at = l] /\ \A q \in Procs \ {p} : pc'[q] = pc[q]
    BY Types DEF Goto
  <1>2. pc'[p] \in Locals
    BY <1>1, Types DEF Locals
  <1>3. QED
    BY <1>1, <1>2, Types DEF Goto, Moves, Locals

LEMMA Returns ==
  ASSUME TypeOK, NEW p \in Procs, Return(p)
  PROVE  Moves(p, "idle") /\ pc'[p] = Idle
  BY Types, NothingType DEF Return, Moves, Idle

LEMMA Placed ==
  ASSUME TypeOK, NEW p \in Procs, NEW l \in Labels, NEW then \in Labels
  PROVE  LET r == Place(p, l, then) IN
         /\ r \in Locals /\ r.at = l
         /\ l # "idle" => r.key = pc[p].key /\ r.then = then
         /\ l = "idle" => r = Idle
         /\ r.ks = {} /\ r.val = None
         /\ r.map1 = Nothing /\ r.map2 = Nothing /\ r.map3 = Nothing
  <1>1. CASE l = "idle"
    BY <1>1, NothingType DEF Place, Idle
  <1>2. CASE l # "idle"
    BY <1>2, Types, NothingType DEF Place, Idle, Locals, Key
  <1>3. QED
    BY <1>1, <1>2

LEMMA Continues ==
  ASSUME TypeOK, NEW p \in Procs, NEW l \in Labels, Continue(p, l)
  PROVE  /\ Moves(p, l)
         /\ l # "idle" => pc'[p].key = pc[p].key
         /\ pc'[p].then = IF l \in {"idle", "retrieve", "compute"} THEN "idle" ELSE pc[p].then
         /\ pc'[p].ks = {} /\ pc'[p].val = None
         /\ pc'[p].map1 = Nothing /\ pc'[p].map2 = Nothing /\ pc'[p].map3 = Nothing
  <1> DEFINE then == IF l \in {"retrieve", "compute"} THEN "idle" ELSE pc[p].then
             r == Place(p, l, then)
  <1>1. pc' = [pc EXCEPT ![p] = r]
    BY DEF Continue
  <1>2. then \in Labels
    BY Types DEF Locals, Labels
  <1>3. /\ r \in Locals /\ r.at = l
        /\ l # "idle" => r.key = pc[p].key /\ r.then = then
        /\ l = "idle" => r.then = "idle"
        /\ r.ks = {} /\ r.val = None
        /\ r.map1 = Nothing /\ r.map2 = Nothing /\ r.map3 = Nothing
    BY <1>2, Placed DEF Idle
  <1> HIDE DEF r
  <1>4. QED
    BY <1>1, <1>3, Settles

(***************************************************************************)
(* Counting                                                                *)
(***************************************************************************)
LEMMA Cards ==
  ASSUME NEW S \in SUBSET Procs
  PROVE  /\ IsFiniteSet(S) /\ Cardinality(S) \in Nat
         /\ \A T \in SUBSET S : Cardinality(T) \in Nat /\ Cardinality(T) <= Cardinality(S)
         /\ \A p : Cardinality(S \cup {p}) <= Cardinality(S) + 1 /\ Cardinality(S \cup {p}) \in Nat
         /\ \A p \in S : Cardinality(S) = Cardinality(S \ {p}) + 1
  <1>1. IsFiniteSet(Procs)
    BY ProcsAssumption, FS_Union DEF Procs
  <1>2. IsFiniteSet(S)
    BY <1>1, FS_Subset
  <1>3. \A T \in SUBSET S : IsFiniteSet(T) /\ Cardinality(T) <= Cardinality(S)
    BY <1>2, FS_Subset
  <1>4. Cardinality(S) \in Nat
    BY <1>2, FS_CardinalityType
  <1>5. ASSUME NEW p
        PROVE  Cardinality(S \cup {p}) <= Cardinality(S) + 1 /\ Cardinality(S \cup {p}) \in Nat
    <2>1. Cardinality(S \cup {p}) = IF p \in S THEN Cardinality(S) ELSE Cardinality(S) + 1
      BY <1>2, FS_AddElement
    <2>2. QED
      BY <2>1, <1>4
  <1>6. ASSUME NEW p \in S PROVE Cardinality(S) = Cardinality(S \ {p}) + 1
    <2>1. Cardinality(S \ {p}) = IF p \in S THEN Cardinality(S) - 1 ELSE Cardinality(S)
      BY <1>2, FS_RemoveElement
    <2>2. QED
      BY <2>1, <1>4
  <1>7. QED
    BY <1>2, <1>3, <1>4, <1>5, <1>6, FS_CardinalityType

LEMMA Counters ==
  ASSUME TypeOK
  PROVE  /\ Uncounted \in SUBSET Procs /\ KeyUncounted \in SUBSET Procs
         /\ Cardinality(Uncounted) \in Nat /\ Cardinality(KeyUncounted) \in Nat
         /\ \A p \in Procs : /\ Cardinality(Uncounted \ {p}) \in Nat
                             /\ Cardinality(KeyUncounted \ {p}) \in Nat
         /\ \A p \in Uncounted : Cardinality(Uncounted) = Cardinality(Uncounted \ {p}) + 1
         /\ \A p \in KeyUncounted : Cardinality(KeyUncounted) = Cardinality(KeyUncounted \ {p}) + 1
         /\ found \in Nat /\ Count(hits) \in Nat
  <1>1. Uncounted \in SUBSET Procs /\ KeyUncounted \in SUBSET Procs
    BY DEF Uncounted, KeyUncounted
  <1>2. found \in Nat /\ Count(hits) \in Nat
    BY NoneAssumption DEF TypeOK, Count, Counts
  <1>3. QED
    BY <1>1, <1>2, Cards

(* What the counting of the other processes needs of a step: nobody is     *)
(* counted twice, and whoever is added has found a value (d is 0 or 1).    *)
Leeway(d) ==
  /\ found' = found + d
  /\ Cardinality(Uncounted') <= Cardinality(Uncounted) + d
  /\ Cardinality(KeyUncounted') <= Cardinality(KeyUncounted) + d
  /\ \A q \in Procs :
       /\ Cardinality(Uncounted' \ {q}) <= Cardinality(Uncounted \ {q}) + d
       /\ Cardinality(KeyUncounted' \ {q}) <= Cardinality(KeyUncounted \ {q}) + d

LEMMA Counts2 ==
  ASSUME TypeOK'
  PROVE  /\ Uncounted' \in SUBSET Procs /\ KeyUncounted' \in SUBSET Procs
         /\ Cardinality(Uncounted') \in Nat /\ Cardinality(KeyUncounted') \in Nat
         /\ \A p \in Procs : /\ Cardinality(Uncounted' \ {p}) \in Nat
                             /\ Cardinality(KeyUncounted' \ {p}) \in Nat
         /\ found' \in Nat /\ Count(hits') \in Nat
  <1>1. Uncounted' \in SUBSET Procs /\ KeyUncounted' \in SUBSET Procs
    BY DEF Uncounted, KeyUncounted
  <1>2. found' \in Nat /\ Count(hits') \in Nat
    BY NoneAssumption DEF TypeOK, Count, Counts
  <1>3. QED
    BY <1>1, <1>2, Cards

LEMMA CountNat == \A f \in Maps, k \in Keys : Count(f[k]) \in Nat
  BY NoneAssumption DEF Maps, Count, Counts

LEMMA Fewer ==
  ASSUME NEW S \in SUBSET Procs, NEW T \in SUBSET Procs, S \subseteq T
  PROVE  /\ Cardinality(S) <= Cardinality(T)
         /\ \A q : Cardinality(S \ {q}) <= Cardinality(T \ {q})
  <1>1. ASSUME NEW q PROVE Cardinality(S \ {q}) <= Cardinality(T \ {q})
    <2>1. T \ {q} \in SUBSET Procs /\ S \ {q} \in SUBSET (T \ {q})
      OBVIOUS
    <2>2. QED
      BY <2>1, Cards
  <1>2. QED
    BY <1>1, Cards

LEMMA OneMore ==
  ASSUME NEW S \in SUBSET Procs, NEW T \in SUBSET Procs, NEW x, S \subseteq T \cup {x}
  PROVE  /\ Cardinality(S) <= Cardinality(T) + 1
         /\ \A q : Cardinality(S \ {q}) <= Cardinality(T \ {q}) + 1
  <1>1. ASSUME NEW A \in SUBSET Procs, NEW B \in SUBSET Procs, A \subseteq B \cup {x}
        PROVE  Cardinality(A) <= Cardinality(B) + 1
    <2>1. CASE x \in Procs
      <3>1. B \cup {x} \in SUBSET Procs /\ A \in SUBSET (B \cup {x})
        BY <1>1, <2>1
      <3>2. Cardinality(A) \in Nat /\ Cardinality(A) <= Cardinality(B \cup {x})
        BY <3>1, Cards
      <3>3. Cardinality(B \cup {x}) \in Nat /\ Cardinality(B \cup {x}) <= Cardinality(B) + 1 /\ Cardinality(B) \in Nat
        BY Cards
      <3>4. QED
        BY <3>2, <3>3
    <2>2. CASE x \notin Procs
      <3>1. A \in SUBSET B
        BY <1>1, <2>2
      <3>2. QED
        BY <3>1, Cards
    <2>3. QED
      BY <2>1, <2>2
  <1>2. ASSUME NEW q PROVE Cardinality(S \ {q}) <= Cardinality(T \ {q}) + 1
    <2>1. S \ {q} \in SUBSET Procs /\ T \ {q} \in SUBSET Procs /\ S \ {q} \subseteq (T \ {q}) \cup {x}
      OBVIOUS
    <2>2. QED
      BY <2>1, <1>1
  <1>3. QED
    BY <1>1, <1>2

(* Whoever leaves the counting, or stays in it, makes room.                *)
LEMMA LeewayMoves ==
  ASSUME TypeOK, TypeOK', NEW p \in Procs, NEW l \in Labels, Moves(p, l),
         style' = style, found' = found,
         l \in HitSteps => pc[p].at \in HitSteps,
         l \in KeyHitSteps => pc[p].at \in KeyHitSteps
  PROVE  /\ Leeway(0)
         /\ Uncounted' \ {p} = Uncounted \ {p} /\ KeyUncounted' \ {p} = KeyUncounted \ {p}
         /\ l \notin HitSteps => Uncounted' = Uncounted \ {p}
         /\ l \notin KeyHitSteps => KeyUncounted' = KeyUncounted \ {p}
  <1>1. /\ Uncounted' \subseteq Uncounted /\ Uncounted' \ {p} = Uncounted \ {p}
        /\ l \notin HitSteps => Uncounted' = Uncounted \ {p}
    BY DEF Uncounted, Moves
  <1>2. KeyHitSteps' = KeyHitSteps
    BY DEF KeyHitSteps
  <1>3. /\ KeyUncounted' \subseteq KeyUncounted /\ KeyUncounted' \ {p} = KeyUncounted \ {p}
        /\ l \notin KeyHitSteps => KeyUncounted' = KeyUncounted \ {p}
    BY <1>2 DEF KeyUncounted, Moves
  <1>4. /\ Cardinality(Uncounted') <= Cardinality(Uncounted)
        /\ \A q : Cardinality(Uncounted' \ {q}) <= Cardinality(Uncounted \ {q})
    BY <1>1, Fewer, Counters, Counts2
  <1>5. /\ Cardinality(KeyUncounted') <= Cardinality(KeyUncounted)
        /\ \A q : Cardinality(KeyUncounted' \ {q}) <= Cardinality(KeyUncounted \ {q})
    BY <1>3, Fewer, Counters, Counts2
  <1>6. Leeway(0)
    <2>1. ASSUME NEW q \in Procs
          PROVE  /\ Cardinality(Uncounted' \ {q}) <= Cardinality(Uncounted \ {q}) + 0
                 /\ Cardinality(KeyUncounted' \ {q}) <= Cardinality(KeyUncounted \ {q}) + 0
      <3>1. Cardinality(Uncounted \ {q}) \in Nat /\ Cardinality(KeyUncounted \ {q}) \in Nat
        BY Counters
      <3>2. /\ Cardinality(Uncounted' \ {q}) <= Cardinality(Uncounted \ {q})
            /\ Cardinality(KeyUncounted' \ {q}) <= Cardinality(KeyUncounted \ {q})
        BY <1>4, <1>5
      <3>3. QED
        BY <3>1, <3>2
    <2>2. /\ found' = found + 0
          /\ Cardinality(Uncounted') <= Cardinality(Uncounted) + 0
          /\ Cardinality(KeyUncounted') <= Cardinality(KeyUncounted) + 0
      BY <1>4, <1>5, Counters
    <2>3. QED
      BY <2>1, <2>2 DEF Leeway
  <1>7. QED
    BY <1>1, <1>3, <1>6

LEMMA CoversKeep ==
  ASSUME TypeOK, TypeOK', NEW d \in Nat, Leeway(d), NEW f \in Maps, NEW g \in Maps,
         \A k \in Keys : Count(g[k]) <= Count(f[k])
  PROVE  /\ Covers(f, KeyUncounted) => Covers(g, KeyUncounted)'
         /\ \A q \in Procs : Covers(f, KeyUncounted \ {q}) => Covers(g, KeyUncounted \ {q})'
  <1>1. ASSUME Covers(f, KeyUncounted), NEW k \in Keys
        PROVE  Count(g[k]) + Cardinality(KeyUncounted') <= found'
    BY <1>1, CountNat, Counters, Counts2 DEF Covers, Leeway
  <1>2. ASSUME NEW q \in Procs, Covers(f, KeyUncounted \ {q}), NEW k \in Keys
        PROVE  Count(g[k]) + Cardinality(KeyUncounted' \ {q}) <= found'
    <2>1. Count(f[k]) + Cardinality(KeyUncounted \ {q}) <= found
      BY <1>2 DEF Covers
    <2>2. /\ Cardinality(KeyUncounted' \ {q}) <= Cardinality(KeyUncounted \ {q}) + d
          /\ found' = found + d
      BY DEF Leeway
    <2>3. /\ Cardinality(KeyUncounted \ {q}) \in Nat /\ Cardinality(KeyUncounted' \ {q}) \in Nat
          /\ found \in Nat /\ Count(f[k]) \in Nat /\ Count(g[k]) \in Nat
          /\ Count(g[k]) <= Count(f[k])
      BY CountNat, Counters, Counts2
    <2>4. QED
      BY <2>1, <2>2, <2>3
  <1>3. QED
    BY <1>1, <1>2 DEF Covers

(* The copies that the other processes hold still leave room.              *)
LEMMA CountOthers ==
  ASSUME TypeOK, TypeOK', ValuesInv, CountInv, NEW d \in Nat, Leeway(d), NEW q \in Procs, pc'[q] = pc[q]
  PROVE  CountsLocal(q)'
  <1> DEFINE r == pc[q]
  <1>1. CountsLocal(q) /\ LocalOK(r) /\ r \in Locals
    BY Types DEF CountInv, ValuesInv
  <1>2. r.at = "hitWrite" => r.val + Cardinality(Uncounted' \ {q}) <= found'
    <2>1. /\ Cardinality(Uncounted' \ {q}) <= Cardinality(Uncounted \ {q}) + d
          /\ found' = found + d
      BY DEF Leeway
    <2>2. /\ Cardinality(Uncounted \ {q}) \in Nat /\ Cardinality(Uncounted' \ {q}) \in Nat
          /\ found \in Nat
      BY Counters, Counts2
    <2>3. r.at = "hitWrite" => r.val \in Nat /\ r.val + Cardinality(Uncounted \ {q}) <= found
      BY <1>1 DEF CountsLocal, LocalOK
    <2>4. QED
      BY <2>1, <2>2, <2>3
  <1>3. r.map1 \in Maps /\ r.map2 \in Maps
    BY <1>1 DEF Locals
  <1>4. /\ r.at = "flush" => Covers(r.map1, KeyUncounted)'
        /\ r.at \in {"expire1", "expire2"} => Covers(r.map2, KeyUncounted)'
        /\ r.at = "keyhit2" => Covers(r.map1, KeyUncounted \ {q})'
    <2>1. \A f \in Maps : /\ Covers(f, KeyUncounted) => \A k \in Keys : Count(f[k]) + Cardinality(KeyUncounted') <= found'
                          /\ Covers(f, KeyUncounted \ {q})
                             => \A k \in Keys : Count(f[k]) + Cardinality(KeyUncounted' \ {q}) <= found'
      <3>1. ASSUME NEW f \in Maps
            PROVE  /\ Covers(f, KeyUncounted) => Covers(f, KeyUncounted)'
                   /\ Covers(f, KeyUncounted \ {q}) => Covers(f, KeyUncounted \ {q})'
        <4>1. \A k \in Keys : Count(f[k]) <= Count(f[k])
          BY CountNat
        <4>2. QED
          BY <4>1, CoversKeep
      <3>2. QED
        BY <3>1 DEF Covers
    <2>2. QED
      BY <2>1, <1>1, <1>3 DEF CountsLocal, Covers
  <1>5. QED
    BY <1>2, <1>4 DEF CountsLocal, Covers

(* Labels at which a process holds no copy of a counter.                   *)
Plain == Labels \ {"hitWrite", "flush", "expire1", "expire2", "keyhit2"}

(* A step that leaves room for the hits in `hits', and takes the key hits  *)
(* from a map that left room.                                              *)
LEMMA CountWrite ==
  ASSUME TypeOK, TypeOK', ValuesInv, CountInv, NEW p \in Procs, NEW l \in Labels, Moves(p, l),
         style' = style, found' = found,
         l \in HitSteps => pc[p].at \in HitSteps,
         l \in KeyHitSteps => pc[p].at \in KeyHitSteps,
         Count(hits') + Cardinality(Uncounted') <= found,
         NEW f \in Maps, Covers(f, KeyUncounted), \A k \in Keys : Count(keyhits'[k]) <= Count(f[k]),
         l \in Plain \/ CountsLocal(p)'
  PROVE  CountInv'
  <1>1. Leeway(0)
    BY LeewayMoves
  <1>2. Covers(keyhits', KeyUncounted')
    <2>1. keyhits' \in Maps
      BY DEF TypeOK, Maps
    <2>2. QED
      BY <1>1, <2>1, CoversKeep DEF Covers
  <1>3. \A q \in Procs \ {p} : CountsLocal(q)'
    BY <1>1, CountOthers DEF Moves
  <1>4. CountsLocal(p)'
    BY DEF Moves, Plain, CountsLocal
  <1>5. QED
    BY <1>2, <1>3, <1>4 DEF CountInv, Covers

(* A step that does not write `hits'.                                      *)
LEMMA CountStep ==
  ASSUME TypeOK, TypeOK', ValuesInv, CountInv, NEW p \in Procs, NEW l \in Labels, Moves(p, l),
         style' = style, found' = found, hits' = hits,
         l \in HitSteps => pc[p].at \in HitSteps,
         l \in KeyHitSteps => pc[p].at \in KeyHitSteps,
         NEW f \in Maps, Covers(f, KeyUncounted), \A k \in Keys : Count(keyhits'[k]) <= Count(f[k]),
         l \in Plain \/ CountsLocal(p)'
  PROVE  CountInv'
  <1>1. Leeway(0)
    BY LeewayMoves
  <1>2. Count(hits') + Cardinality(Uncounted') <= found
    BY <1>1, Counters, Counts2 DEF Leeway, CountInv
  <1>3. QED
    BY <1>2, CountWrite

(* A step that writes no counter.                                          *)
LEMMA CountKeep ==
  ASSUME TypeOK, TypeOK', ValuesInv, CountInv, NEW p \in Procs, NEW l \in Labels, Moves(p, l),
         style' = style, found' = found, hits' = hits, keyhits' = keyhits,
         l \in HitSteps => pc[p].at \in HitSteps,
         l \in KeyHitSteps => pc[p].at \in KeyHitSteps,
         l \in Plain \/ CountsLocal(p)'
  PROVE  CountInv'
  <1>1. \A k \in Keys : Count(keyhits'[k]) <= Count(keyhits[k])
    BY Types, CountNat
  <1>2. keyhits \in Maps /\ Covers(keyhits, KeyUncounted)
    BY Types DEF CountInv
  <1>3. QED
    BY <1>1, <1>2, CountStep

(***************************************************************************)
(* The other parts of the invariant                                        *)
(***************************************************************************)
LEMMA QuietKeep ==
  ASSUME QuietInv, NEW p \in Procs, NEW l \in Labels, Moves(p, l), UNCHANGED config,
         pc[p].at # "idle" \/ p \in active
  PROVE  QuietInv'
  <1>1. Alone' = Alone /\ active' = active
    BY DEF Alone, OneCaller, config
  <1>2. ASSUME Alone PROVE active = {p}
    BY <1>2 DEF QuietInv, Alone, OneCaller
  <1>3. QED
    BY <1>1, <1>2 DEF QuietInv, Moves

(* For a single caller the other processes are idle.                       *)
LEMMA OthersIdle ==
  ASSUME QuietInv, Alone, NEW p \in Procs, pc[p].at # "idle"
  PROVE  active = {p} /\ \A q \in Procs \ {p} : pc[q].at = "idle"
  BY DEF QuietInv

LEMMA VersionKeep ==
  ASSUME TypeOK, VersionInv, NEW p \in Procs, NEW l \in Labels, Moves(p, l), UNCHANGED config,
         floor' = floor, truth' = truth, \A k \in Keys : cache'[k] \in {None, cache[k]},
         l # "set"
  PROVE  VersionInv'
  <1>1. Alone' = Alone
    BY DEF Alone, OneCaller, config
  <1>2. ASSUME Alone
        PROVE  /\ \A k \in Keys : floor'[k] <= truth'
               /\ \A k \in Present(cache)' : floor'[k] <= cache'[k]
               /\ \A q \in Procs : pc'[q].at = "set" => floor'[pc'[q].key] <= pc'[q].val
    <2>1. \A k \in Keys : floor'[k] <= truth'
      BY <1>2 DEF VersionInv
    <2>2. \A k \in Present(cache)' : floor'[k] <= cache'[k]
      BY <1>2 DEF VersionInv, Present
    <2>3. \A q \in Procs : pc'[q].at = "set" => floor'[pc'[q].key] <= pc'[q].val
      BY <1>2 DEF VersionInv, Moves, Key
    <2>4. QED
      BY <2>1, <2>2, <2>3
  <1>3. QED
    BY <1>1, <1>2 DEF VersionInv, Key

(* What holds of the one caller.                                           *)
AddsUp(p) == HitsAddUp(pc[p]) /\ ExpirationsAddUp(pc[p]) /\ ServedAddUp(pc[p])
Solo(p) == active = {p} /\ style # "background" /\ ~timedout

LEMMA AloneKeep ==
  ASSUME TypeOK, QuietInv, AloneInv, NEW p \in Procs, pc[p].at # "idle" \/ p \in active,
         UNCHANGED config, timedout' = timedout,
         Solo(p) /\ AddsUp(p) => AddsUp(p)'
  PROVE  AloneInv'
  <1> SUFFICES ASSUME ~timedout', NEW c \in Procs, active' = {c}, style' # "background"
               PROVE  HitsAddUp(pc[c])' /\ ExpirationsAddUp(pc[c])' /\ ServedAddUp(pc[c])'
    BY DEF AloneInv
  <1>1. active = {c} /\ style # "background" /\ ~timedout
    BY DEF config
  <1>2. c = p
    BY <1>1 DEF QuietInv, Alone, OneCaller, TypeOK
  <1>3. Solo(p) /\ AddsUp(p)
    BY <1>1, <1>2 DEF Solo, AddsUp, AloneInv
  <1>4. QED
    BY <1>2, <1>3 DEF AddsUp

LEMMA HitsKeep ==
  ASSUME TypeOK, TypeOK', NEW p \in Procs, NEW l \in Labels, Moves(p, l), HitsAddUp(pc[p]),
         style' = style, hits' = hits, \A k \in Keys : Count(keyhits'[k]) <= Count(keyhits[k]),
         l \in Plain \ {"hitZero"},
         l \in KeyHitSteps \ HitSteps => pc[p].at \in KeyHitSteps \ HitSteps
  PROVE  HitsAddUp(pc[p])'
  <1>1. NumHits' = NumHits /\ NumHits \in Nat
    BY Counters DEF NumHits, Count
  <1>2. (KeyHitSteps \ HitSteps)' = KeyHitSteps \ HitSteps
    BY DEF KeyHitSteps, HitSteps
  <1>3. \A k \in Keys : Count(keyhits'[k]) \in Nat /\ Count(keyhits[k]) \in Nat
    BY CountNat DEF TypeOK, Maps
  <1>4. \A k \in Keys : Count(keyhits'[k]) + (IF l \in KeyHitSteps \ HitSteps THEN 1 ELSE 0) <= NumHits'
    BY <1>1, <1>3 DEF HitsAddUp
  <1>5. QED
    BY <1>2, <1>4 DEF HitsAddUp, Moves, Plain

LEMMA ExpirationsKeep ==
  ASSUME TypeOK, TypeOK', NEW p \in Procs, NEW l \in Labels, Moves(p, l), ExpirationsAddUp(pc[p]),
         expirations' = expirations, swept' = swept, now' = now,
         \A k \in Keys : cache'[k] \in {None, cache[k]},
         \A k \in Removing(pc[p]) : k \in Removing(pc'[p]) \/ cache'[k] = None,
         l \notin {"flush", "expiration2", "expireRest", "expire1"}
  PROVE  ExpirationsAddUp(pc[p])'
  <1>1. Kept(expirations, Removing(pc[p]))'
    <2>1. \A k \in Present(cache)' \ Removing(pc'[p]) : k \in Present(cache) \ Removing(pc[p])
      BY DEF Present
    <2>2. QED
      BY <2>1 DEF ExpirationsAddUp, Kept
  <1>2. swept' <= now'
    BY DEF ExpirationsAddUp
  <1>3. QED
    BY <1>1, <1>2 DEF ExpirationsAddUp, Moves

LEMMA ServedKeep ==
  ASSUME NEW p \in Procs, NEW l \in Labels, Moves(p, l), ServedAddUp(pc[p]),
         UNCHANGED config, found' = found, hits' = hits,
         l \in HitSteps <=> pc[p].at \in HitSteps,
         l = "retrieve" => cache'[pc'[p].key] = None \/ ~(style = "async" /\ after # None) \/ NumHits < after
  PROVE  ServedAddUp(pc[p])'
  BY DEF ServedAddUp, Moves, config, NumHits

(***************************************************************************)
(* A step of one process, part by part                                     *)
(***************************************************************************)
LEMMA Assemble ==
  ASSUME CacheInv, NEW p \in Procs, NEW l \in Labels, Moves(p, l),
         pc[p].at # "idle" \/ p \in active, UNCHANGED config, timedout' = timedout,
         TypeOK', LocalOK(pc'[p]), \A k \in Present(cache)' : k \in Present(cache) \cup {Key(p)},
         CountInv', VersionInv',
         Solo(p) /\ AddsUp(p) => AddsUp(p)'
  PROVE  CacheInv'
  <1>1. QuietInv' /\ AloneInv'
    BY QuietKeep, AloneKeep DEF CacheInv
  <1>2. IsFiniteSet(Present(cache)')
    <2>1. IsFiniteSet(Present(cache) \cup {Key(p)})
      BY FS_AddElement DEF CacheInv, ValuesInv
    <2>2. QED
      BY <2>1, FS_Subset
  <1>3. \A q \in Procs : LocalOK(pc'[q])
    BY DEF CacheInv, ValuesInv, Moves
  <1>4. QED
    BY <1>1, <1>2, <1>3 DEF CacheInv, ValuesInv

LEMMA TypeStep ==
  ASSUME TypeOK, NEW p \in Procs, NEW l \in Labels, Moves(p, l), UNCHANGED <<config, available>>,
         cache' \in Maps, keyhits' \in Maps, timestamps' \in Maps, expirations' \in Maps,
         hits' \in Counts, now' \in Nat, truth' \in Nat, calls' \in Nat, found' \in Nat, swept' \in Nat,
         floor' \in [Keys -> Nat], timedout' \in BOOLEAN
  PROVE  TypeOK'
  BY DEF TypeOK, Moves, Locals, Maps, config

LEMMA TypeSame ==
  ASSUME TypeOK, NEW p \in Procs, NEW l \in Labels, Moves(p, l),
         UNCHANGED <<config, available, cache, meta, now, truth, ghosts>>
  PROVE  TypeOK'
  BY DEF TypeOK, Moves, Locals, Maps, config, meta, ghosts

(* A step that only moves.                                                 *)
LEMMA PcStep ==
  ASSUME CacheInv, NEW p \in Procs, NEW l \in Labels, Moves(p, l), pc[p].at # "idle",
         UNCHANGED <<config, available, cache, meta, now, truth, ghosts>>,
         LocalOK(pc'[p]),
         l \in HitSteps => pc[p].at \in HitSteps,
         l \in KeyHitSteps => pc[p].at \in KeyHitSteps,
         l \in Plain \/ CountsLocal(p)',
         l # "set",
         Solo(p) /\ AddsUp(p) => AddsUp(p)'
  PROVE  CacheInv'
  <1>1. TypeOK /\ ValuesInv /\ CountInv /\ VersionInv
    BY DEF CacheInv
  <1>2. /\ UNCHANGED <<style, hits, keyhits, found, floor, truth, cache, timedout>>
        /\ UNCHANGED config
    BY DEF config, meta, ghosts
  <1>3. TypeOK'
    BY DEF CacheInv, TypeOK, Moves, Locals, Maps, config, meta, ghosts
  <1>4. CountInv'
    BY <1>1, <1>2, <1>3, CountKeep
  <1>5. VersionInv'
    BY <1>1, <1>2, VersionKeep
  <1>6. QED
    BY <1>2, <1>3, <1>4, <1>5, Assemble DEF Present

(* A step that only moves, to a label where nothing is held, and that      *)
(* neither ends the counting of a hit nor the removal of an entry.         *)
LEMMA PlainStep ==
  ASSUME CacheInv, NEW p \in Procs, NEW l \in Labels, Moves(p, l), pc[p].at # "idle",
         UNCHANGED <<config, available, cache, meta, now, truth, ghosts>>,
         LocalOK(pc'[p]),
         l \in HitSteps <=> pc[p].at \in HitSteps,
         l \in KeyHitSteps => pc[p].at \in KeyHitSteps,
         l \in Plain \ {"hitZero", "set", "expiration2", "expireRest", "retrieve"},
         Removing(pc[p]) \subseteq Removing(pc'[p])
  PROVE  CacheInv'
  <1>1. TypeOK /\ TypeOK'
    BY DEF CacheInv, TypeOK, Moves, Locals, Maps, config, meta, ghosts
  <1>2. /\ UNCHANGED <<style, hits, keyhits, found, cache, expirations, swept, now>>
        /\ UNCHANGED config
    BY DEF config, meta, ghosts
  <1>3. ASSUME AddsUp(p) PROVE AddsUp(p)'
    <2>1. HitsAddUp(pc[p])'
      <3>1. \A k \in Keys : Count(keyhits'[k]) <= Count(keyhits[k])
        BY <1>1, <1>2, Types, CountNat
      <3>2. QED
        BY <1>1, <1>2, <1>3, <3>1, HitsKeep DEF AddsUp, KeyHitSteps
    <2>2. ExpirationsAddUp(pc[p])'
      BY <1>1, <1>2, <1>3, ExpirationsKeep DEF AddsUp, Plain
    <2>3. ServedAddUp(pc[p])'
      BY <1>2, <1>3, ServedKeep DEF AddsUp
    <2>4. QED
      BY <2>1, <2>2, <2>3 DEF AddsUp
  <1>4. QED
    BY <1>3, PcStep

(***************************************************************************)
(* The steps: reading                                                      *)
(***************************************************************************)
LEMMA Parts ==
  ASSUME CacheInv
  PROVE  /\ TypeOK /\ ValuesInv /\ CountInv /\ QuietInv /\ VersionInv /\ AloneInv
         /\ \A p \in Procs : pc[p] \in Locals /\ LocalOK(pc[p]) /\ CountsLocal(p)
         /\ cache \in Maps /\ keyhits \in Maps /\ timestamps \in Maps /\ expirations \in Maps
         /\ \A p \in Procs : pc[p].map1 \in Maps /\ pc[p].map2 \in Maps /\ pc[p].map3 \in Maps
         /\ \A p \in Procs : Key(p) = pc[p].key
         /\ hits \in Counts /\ {now, truth, calls, found, swept} \subseteq Nat
         /\ floor \in [Keys -> Nat] /\ timedout \in BOOLEAN
         /\ NumHits \in Nat /\ NumHits = Count(hits)
  BY Types, Counters DEF CacheInv, CountInv, ValuesInv, TypeOK, Locals, Key, NumHits

(* Going on with the rest of a call keeps what is needed of its variables. *)
LEMMA ContinuesOK ==
  ASSUME CacheInv, NEW p \in Procs, NEW l \in Labels, Continue(p, l), pc[p].at # "idle",
         l \notin {"set", "hitWrite", "invalidate", "flush", "delete", "clear", "clear2"},
         l = "idle" \/ pc[p].then # "idle" \/ pc[p].at \notin {"clear", "clear2"},
         l \in {"idle", "retrieve", "compute"} \/ pc[p].at \notin {"invalidate", "flush", "delete"}
  PROVE  Moves(p, l) /\ LocalOK(pc'[p])
  <1>1. LocalOK(pc[p]) /\ (l # "idle" => pc[p].key \in Keys)
    BY Parts DEF LocalOK
  <1>2. /\ Moves(p, l)
        /\ l # "idle" => pc'[p].key = pc[p].key
        /\ pc'[p].then = IF l \in {"idle", "retrieve", "compute"} THEN "idle" ELSE pc[p].then
        /\ pc'[p].ks = {}
    BY Parts, Continues
  <1>3. QED
    BY <1>1, <1>2 DEF LocalOK, Moves

LEMMA StepCheckSize ==
  ASSUME CacheInv, NEW p \in Procs, CheckSize(p)
  PROVE  CacheInv'
  <1> DEFINE l == IF NumKeys <= MaxSize THEN pc[p].then ELSE "size2"
  <1>0. pc[p].at = "size" /\ pc[p].then \in {"idle", "compute"} /\ {"idle", "compute"} \subseteq Labels
    BY Parts DEF CheckSize, At, LocalOK, Labels
  <1>1. Moves(p, l) /\ LocalOK(pc'[p])
    <2>1. CASE NumKeys <= MaxSize
      BY <1>0, <2>1, ContinuesOK DEF CheckSize
    <2>2. CASE ~(NumKeys <= MaxSize)
      <3>1. Goto(p, "size2") /\ "size2" \in Labels
        BY <2>2 DEF CheckSize, Labels
      <3>2. QED
        BY <1>0, <2>2, <3>1, Parts, Goes DEF LocalOK, Moves
    <2>3. QED
      BY <2>1, <2>2
  <1>2. pc[p].at = "size" /\ l \in {"idle", "compute", "size2"} /\ l \in Labels
    BY <1>0 DEF Labels
  <1>3. l \notin KeyHitSteps /\ l \notin HitSteps /\ pc[p].at \notin HitSteps
    BY <1>2 DEF KeyHitSteps, HitSteps, ExpireSteps
  <1>4. Removing(pc[p]) = {}
    BY <1>2 DEF Removing, ExpireSteps
  <1>5. l \in Plain \ {"hitZero", "set", "expiration2", "expireRest", "retrieve"}
    BY <1>2 DEF Plain
  <1>6. UNCHANGED <<config, available, cache, meta, now, truth, ghosts>>
    BY DEF CheckSize
  <1>7. QED
    BY <1>1, <1>2, <1>3, <1>4, <1>5, <1>6, PlainStep

LEMMA StepCountKeys ==
  ASSUME CacheInv, NEW p \in Procs, CountKeys(p)
  PROVE  CacheInv'
  <1>1. NumKeys - MaxSize \in Int
    BY Parts, FS_CardinalityType, SizeAssumption DEF NumKeys, ValuesInv
  <1>2. Moves(p, "rank") /\ LocalOK(pc'[p])
    <2> DEFINE r == [pc[p] EXCEPT !.at = "rank", !.val = NumKeys - MaxSize]
    <2>1. pc' = [pc EXCEPT ![p] = r]
      BY DEF CountKeys
    <2>2. r \in Locals /\ r.at = "rank" /\ r.key = pc[p].key /\ r.then = pc[p].then
      <3>1. pc[p] \in Locals /\ "rank" \in Labels
        BY Parts DEF Labels
      <3>2. QED
        BY <1>1, <3>1 DEF Locals
    <2>3. LocalOK(r)
      BY <2>2, Parts DEF LocalOK, CountKeys, At
    <2> HIDE DEF r
    <2>4. QED
      BY <2>1, <2>2, <2>3, Parts, Settles
  <1>3. pc[p].at = "size2" /\ "rank" \in Labels
    BY DEF CountKeys, At, Labels
  <1>4. "rank" \notin KeyHitSteps /\ "rank" \notin HitSteps /\ pc[p].at \notin HitSteps
    BY <1>3 DEF KeyHitSteps, HitSteps, ExpireSteps
  <1>5. Removing(pc[p]) = {}
    BY <1>3 DEF Removing, ExpireSteps
  <1>6. "rank" \in Plain \ {"hitZero", "set", "expiration2", "expireRest", "retrieve"}
    BY DEF Plain, Labels
  <1>7. UNCHANGED <<config, available, cache, meta, now, truth, ghosts>>
    BY DEF CountKeys
  <1>8. QED
    BY <1>2, <1>3, <1>4, <1>5, <1>6, <1>7, PlainStep

LEMMA StepChooseVictims ==
  ASSUME CacheInv, NEW p \in Procs, ChooseVictims(p)
  PROVE  CacheInv'
  <1>1. PICK vs \in Firsts(pc[p].val) :
          pc' = [pc EXCEPT ![p].ks = vs \ {Key(p)},
                           ![p].at = IF vs \ {Key(p)} = {} THEN "clear" ELSE "evict"]
    BY DEF ChooseVictims
  <1> DEFINE l == IF vs \ {Key(p)} = {} THEN "clear" ELSE "evict"
  <1>2. vs \ {Key(p)} \in SUBSET Keys
    BY <1>1 DEF Firsts, Present
  <1>3. pc[p].at = "rank" /\ l \in {"clear", "evict"} /\ l \in Labels
    BY DEF ChooseVictims, At, Labels
  <1>4. Moves(p, l) /\ LocalOK(pc'[p])
    <2> DEFINE r == [pc[p] EXCEPT !.ks = vs \ {Key(p)}, !.at = l]
    <2>1. pc' = [pc EXCEPT ![p] = r]
      BY <1>1
    <2>2. r \in Locals /\ r.at = l /\ r.key = pc[p].key /\ r.then = pc[p].then
      BY <1>2, <1>3, Parts DEF Locals
    <2>3. LocalOK(r)
      BY <1>3, <2>2, Parts DEF LocalOK
    <2> HIDE DEF r
    <2>4. QED
      BY <2>1, <2>2, <2>3, Parts, Settles
  <1>5. l \notin KeyHitSteps /\ l \notin HitSteps /\ pc[p].at \notin HitSteps
    BY <1>3 DEF KeyHitSteps, HitSteps, ExpireSteps
  <1>6. Removing(pc[p]) = {}
    BY <1>3 DEF Removing, ExpireSteps
  <1>7. l \in Plain \ {"hitZero", "set", "expiration2", "expireRest", "retrieve"}
    BY <1>3 DEF Plain
  <1>8. UNCHANGED <<config, available, cache, meta, now, truth, ghosts>>
    BY DEF ChooseVictims
  <1>9. QED
    BY <1>3, <1>4, <1>5, <1>6, <1>7, <1>8, PlainStep

(* invalidate_cache reads the maps: what they show is true when read.      *)
LEMMA StepInvalidateRead ==
  ASSUME CacheInv, NEW p \in Procs, InvalidateRead(p)
  PROVE  CacheInv'
  <1>1. /\ Moves(p, "flush") /\ LocalOK(pc'[p])
        /\ pc'[p].map1 = keyhits /\ pc'[p].map3 = expirations /\ pc'[p].key = pc[p].key
    <2> DEFINE r == [pc[p] EXCEPT !.at = "flush", !.map1 = keyhits,
                                  !.map2 = timestamps, !.map3 = expirations]
    <2>1. pc' = [pc EXCEPT ![p] = r]
      BY DEF InvalidateRead
    <2>2. r \in Locals
      <3>1. pc[p] \in Locals /\ "flush" \in Labels
        BY Parts DEF Labels
      <3>2. QED
        BY <3>1, Parts DEF Locals
    <2>3. /\ r.at = "flush" /\ r.key = pc[p].key /\ r.then = pc[p].then
          /\ r.map1 = keyhits /\ r.map3 = expirations
      BY Parts DEF Locals
    <2>4. LocalOK(r)
      BY <2>3, Parts DEF LocalOK, InvalidateRead, At
    <2> HIDE DEF r
    <2>5. QED
      BY <2>1, <2>2, <2>3, <2>4, Parts, Settles
  <1>2. pc[p].at = "invalidate" /\ "flush" \in Labels
    BY DEF InvalidateRead, At, Labels
  <1>3. UNCHANGED <<config, available, cache, meta, now, truth, ghosts>>
    BY DEF InvalidateRead
  <1>4. "flush" \notin KeyHitSteps /\ "flush" \notin HitSteps /\ pc[p].at \notin KeyHitSteps
    BY <1>2 DEF KeyHitSteps, HitSteps, ExpireSteps
  <1>5. TypeOK' /\ UNCHANGED <<style, hits, keyhits, expirations, found, swept, now, cache>>
    BY <1>1, <1>2, <1>3, Parts, TypeSame DEF config, meta, ghosts
  <1>6. CountsLocal(p)'
    <2>1. Leeway(0)
      BY <1>1, <1>2, <1>4, <1>5, Parts, LeewayMoves
    <2>2. \A k \in Keys : Count(keyhits[k]) <= Count(keyhits[k])
      BY Parts, CountNat
    <2>3. Covers(keyhits, KeyUncounted)'
      BY <1>5, <2>1, <2>2, Parts, CoversKeep DEF CountInv, Covers
    <2>4. QED
      BY <1>1, <1>5, <2>3 DEF CountsLocal, Moves, Covers
  <1>7. ASSUME AddsUp(p) PROVE AddsUp(p)'
    <2>1. HitsAddUp(pc[p])'
      BY <1>1, <1>2, <1>4, <1>5, <1>7 DEF HitsAddUp, AddsUp, Moves, NumHits, KeyHitSteps, HitSteps, ExpireSteps
    <2>2. ExpirationsAddUp(pc[p])'
      BY <1>1, <1>2, <1>5, <1>7 DEF ExpirationsAddUp, AddsUp, Moves, Kept, Removing, ExpireSteps, Present
    <2>3. ServedAddUp(pc[p])'
      BY <1>1, <1>2, <1>3, <1>4, <1>5, <1>7, ServedKeep DEF AddsUp, KeyHitSteps
    <2>4. QED
      BY <2>1, <2>2, <2>3 DEF AddsUp
  <1>8. QED
    BY <1>1, <1>2, <1>3, <1>4, <1>6, <1>7, PcStep

LEMMA StepExpireReadRest ==
  ASSUME CacheInv, NEW p \in Procs, ExpireReadRest(p)
  PROVE  CacheInv'
  <1>1. pc[p].at = "expireRest" /\ "expire1" \in Labels /\ pc[p] \in Locals
    BY Parts DEF ExpireReadRest, At, Labels
  <1>2. /\ Moves(p, "expire1") /\ LocalOK(pc'[p])
        /\ pc'[p].map1 = pc[p].map1 /\ pc'[p].map2 = keyhits /\ pc'[p].key = pc[p].key
        /\ pc'[p].ks = pc[p].ks
    <2> DEFINE r == [pc[p] EXCEPT !.at = "expire1", !.map2 = keyhits, !.map3 = timestamps]
    <2>1. pc' = [pc EXCEPT ![p] = r]
      BY DEF ExpireReadRest
    <2>2. r \in Locals
      BY <1>1, Parts DEF Locals
    <2>3. /\ r.at = "expire1" /\ r.key = pc[p].key /\ r.then = pc[p].then /\ r.map1 = pc[p].map1 /\ r.map2 = keyhits
          /\ r.ks = pc[p].ks
      BY <1>1 DEF Locals
    <2>4. LocalOK(r)
      BY <1>1, <2>3, Parts DEF LocalOK
    <2> HIDE DEF r
    <2>5. QED
      BY <2>1, <2>2, <2>3, <2>4, Parts, Settles
  <1>3. UNCHANGED <<config, available, cache, meta, now, truth, ghosts>>
    BY DEF ExpireReadRest
  <1>4. /\ pc[p].at \in KeyHitSteps \ HitSteps /\ "expire1" \in KeyHitSteps \ HitSteps
        /\ pc[p].at \in ExpireSteps /\ "expire1" \in ExpireSteps
    BY <1>1 DEF KeyHitSteps, HitSteps, ExpireSteps
  <1>5. TypeOK' /\ UNCHANGED <<style, hits, keyhits, expirations, found, swept, now, cache>>
    BY <1>1, <1>2, <1>3, Parts, TypeSame DEF config, meta, ghosts
  <1>6. CountsLocal(p)'
    <2>1. Leeway(0)
      BY <1>1, <1>2, <1>4, <1>5, Parts, LeewayMoves
    <2>2. \A k \in Keys : Count(keyhits[k]) <= Count(keyhits[k])
      BY Parts, CountNat
    <2>3. Covers(keyhits, KeyUncounted)'
      BY <1>5, <2>1, <2>2, Parts, CoversKeep DEF CountInv, Covers
    <2>4. QED
      BY <1>2, <1>5, <2>3 DEF CountsLocal, Moves, Covers
  <1>7. ASSUME AddsUp(p) PROVE AddsUp(p)'
    <2>1. HitsAddUp(pc[p])'
      BY <1>2, <1>4, <1>5, <1>7 DEF HitsAddUp, AddsUp, Moves, NumHits, KeyHitSteps
    <2>2. ExpirationsAddUp(pc[p])'
      <3>1. Removing(pc[p])' = Removing(pc[p])
        BY <1>1, <1>2, <1>4 DEF Removing, Moves
      <3>2. QED
        BY <1>1, <1>2, <1>5, <1>7, <3>1 DEF ExpirationsAddUp, AddsUp, Moves, Kept, Present
    <2>3. ServedAddUp(pc[p])'
      BY <1>1, <1>2, <1>3, <1>4, <1>5, <1>7, ServedKeep DEF AddsUp, KeyHitSteps
    <2>4. QED
      BY <2>1, <2>2, <2>3 DEF AddsUp
  <1>8. QED
    BY <1>1, <1>2, <1>3, <1>4, <1>6, <1>7, PcStep

LEMMA StepKeyHitRead ==
  ASSUME CacheInv, NEW p \in Procs, At(p, "keyhit"), AddKeyHit(p)
  PROVE  CacheInv'
  <1> DEFINE f == [keyhits EXCEPT ![Key(p)] = Count(@) + 1]
  <1>1. pc[p].at = "keyhit" /\ "keyhit2" \in Labels /\ pc[p] \in Locals /\ pc[p].key \in Keys /\ Key(p) = pc[p].key
    BY Parts DEF At, Labels, LocalOK
  <1>2. /\ pc' = [pc EXCEPT ![p].at = "keyhit2", ![p].map1 = f]
        /\ UNCHANGED <<config, available, cache, meta, now, truth, ghosts>>
    BY <1>1 DEF AddKeyHit, At
  <1>3. f \in Maps /\ \A k \in Keys : Count(f[k]) <= Count(keyhits[k]) + 1
    <2>1. \A k \in Keys : f[k] = IF k = Key(p) THEN Count(keyhits[k]) + 1 ELSE keyhits[k]
      BY Parts DEF Maps
    <2>2. \A k \in Keys : Count(keyhits[k]) \in Nat
      BY CountNat, Parts
    <2>3. f \in Maps
      <3>1. keyhits \in [Keys -> Counts] /\ Count(keyhits[Key(p)]) + 1 \in Counts
        BY <1>1, <2>2, Parts DEF Maps, Counts
      <3>2. QED
        BY <3>1 DEF Maps
    <2>4. QED
      BY <2>1, <2>2, <2>3, NoneAssumption DEF Count
  <1> HIDE DEF f
  <1>4. Moves(p, "keyhit2") /\ LocalOK(pc'[p]) /\ pc'[p].map1 = f /\ pc'[p].key = pc[p].key
    <2> DEFINE r == [pc[p] EXCEPT !.at = "keyhit2", !.map1 = f]
    <2>1. pc' = [pc EXCEPT ![p] = r]
      BY <1>2
    <2>2. r \in Locals /\ r.at = "keyhit2" /\ r.key = pc[p].key /\ r.then = pc[p].then /\ r.map1 = f
      BY <1>1, <1>3 DEF Locals
    <2>3. LocalOK(r)
      BY <1>1, <2>2, Parts DEF LocalOK
    <2> HIDE DEF r
    <2>4. QED
      BY <2>1, <2>2, <2>3, Parts, Settles
  <1>5. /\ pc[p].at \in KeyHitSteps \ HitSteps /\ "keyhit2" \in KeyHitSteps \ HitSteps
        /\ "keyhit" \notin ExpireSteps /\ "keyhit2" \notin ExpireSteps
    BY <1>1 DEF KeyHitSteps, HitSteps, ExpireSteps
  <1>6. TypeOK' /\ UNCHANGED <<style, hits, keyhits, expirations, found, swept, now, cache>>
    BY <1>1, <1>2, <1>4, Parts, TypeSame DEF config, meta, ghosts
  <1>7. CountsLocal(p)'
    <2>1. KeyUncounted' \ {p} = KeyUncounted \ {p} /\ found' = found
      BY <1>1, <1>4, <1>5, <1>6, Parts, LeewayMoves
    <2>2. p \in KeyUncounted
      BY <1>5 DEF KeyUncounted
    <2>3. Cardinality(KeyUncounted) = Cardinality(KeyUncounted \ {p}) + 1 /\ Cardinality(KeyUncounted \ {p}) \in Nat
      BY <2>2, Parts, Counters
    <2>4. ASSUME NEW k \in Keys PROVE Count(f[k]) + Cardinality(KeyUncounted \ {p}) <= found
      <3>1. Count(keyhits[k]) + Cardinality(KeyUncounted) <= found
        BY Parts DEF CountInv, Covers
      <3>2. Count(keyhits[k]) \in Nat /\ Count(f[k]) \in Nat /\ found \in Nat
        BY <1>3, Parts, CountNat
      <3>3. QED
        BY <1>3, <2>3, <3>1, <3>2
    <2>5. QED
      BY <1>4, <2>1, <2>4 DEF CountsLocal, Moves, Covers
  <1>8. ASSUME AddsUp(p) PROVE AddsUp(p)'
    <2>1. HitsAddUp(pc[p])'
      <3>1. \A k \in Keys : Count(keyhits[k]) + 1 <= NumHits
        BY <1>5, <1>8 DEF AddsUp, HitsAddUp
      <3>2. \A k \in Keys : Count(f[k]) \in Nat /\ Count(keyhits[k]) \in Nat
        BY <1>3, Parts, CountNat
      <3>3. \A k \in Keys : Count(f[k]) + 0 <= NumHits
        BY <3>1, <3>2, <1>3, Parts
      <3>4. QED
        BY <1>4, <1>6, <3>1, <3>3 DEF HitsAddUp, Moves, NumHits, KeyHitSteps, HitSteps
    <2>2. ExpirationsAddUp(pc[p])'
      BY <1>1, <1>4, <1>5, <1>6, <1>8, ExpirationsKeep, Parts DEF AddsUp, Removing
    <2>3. ServedAddUp(pc[p])'
      BY <1>1, <1>2, <1>4, <1>5, <1>6, <1>8, ServedKeep DEF AddsUp, KeyHitSteps
    <2>4. QED
      BY <2>1, <2>2, <2>3 DEF AddsUp
  <1>9. QED
    BY <1>1, <1>2, <1>4, <1>5, <1>7, <1>8, PcStep

LEMMA StepHitRead ==
  ASSUME CacheInv, NEW p \in Procs, At(p, "hitRead"), AddHit(p)
  PROVE  CacheInv'
  <1>1. pc[p].at = "hitRead" /\ "hitWrite" \in Labels /\ pc[p] \in Locals /\ NumHits + 1 \in Nat
    BY Parts DEF At, Labels
  <1>2. /\ pc' = [pc EXCEPT ![p].at = "hitWrite", ![p].val = NumHits + 1]
        /\ UNCHANGED <<config, available, cache, meta, now, truth, ghosts>>
    BY <1>1 DEF AddHit, At
  <1>3. Moves(p, "hitWrite") /\ LocalOK(pc'[p]) /\ pc'[p].val = NumHits + 1
    <2> DEFINE r == [pc[p] EXCEPT !.at = "hitWrite", !.val = NumHits + 1]
    <2>1. pc' = [pc EXCEPT ![p] = r]
      BY <1>2
    <2>2. r \in Locals /\ r.at = "hitWrite" /\ r.key = pc[p].key /\ r.then = pc[p].then /\ r.val = NumHits + 1
      <3>1. NumHits + 1 \in Int \cup {None}
        BY <1>1
      <3>2. QED
        BY <1>1, <3>1 DEF Locals
    <2>3. LocalOK(r)
      BY <1>1, <2>2, Parts DEF LocalOK
    <2> HIDE DEF r
    <2>4. QED
      BY <2>1, <2>2, <2>3, Parts, Settles
  <1>4. /\ pc[p].at \in HitSteps /\ "hitWrite" \in HitSteps /\ "hitWrite" \in KeyHitSteps
        /\ pc[p].at \in KeyHitSteps /\ "hitRead" \notin ExpireSteps /\ "hitWrite" \notin ExpireSteps
    BY <1>1 DEF KeyHitSteps, HitSteps, ExpireSteps
  <1>5. TypeOK' /\ UNCHANGED <<style, hits, keyhits, expirations, found, swept, now, cache>>
    BY <1>1, <1>2, <1>3, Parts, TypeSame DEF config, meta, ghosts
  <1>6. CountsLocal(p)'
    <2>1. Uncounted' \ {p} = Uncounted \ {p} /\ found' = found
      BY <1>1, <1>3, <1>4, <1>5, Parts, LeewayMoves
    <2>2. p \in Uncounted
      BY <1>4 DEF Uncounted
    <2>3. Cardinality(Uncounted) = Cardinality(Uncounted \ {p}) + 1 /\ Cardinality(Uncounted \ {p}) \in Nat
      BY <2>2, Parts, Counters
    <2>4. NumHits + Cardinality(Uncounted) <= found
      BY Parts DEF CountInv
    <2>5. NumHits + 1 + Cardinality(Uncounted \ {p}) <= found
      BY <2>3, <2>4, Parts
    <2>6. QED
      BY <1>3, <2>1, <2>5 DEF CountsLocal, Moves
  <1>7. ASSUME AddsUp(p) PROVE AddsUp(p)'
    <2>1. HitsAddUp(pc[p])'
      BY <1>3, <1>4, <1>5, <1>7 DEF AddsUp, HitsAddUp, Moves, NumHits, KeyHitSteps
    <2>2. ExpirationsAddUp(pc[p])'
      BY <1>1, <1>3, <1>4, <1>5, <1>7, ExpirationsKeep, Parts DEF AddsUp, Removing
    <2>3. ServedAddUp(pc[p])'
      BY <1>1, <1>2, <1>3, <1>4, <1>5, <1>7, ServedKeep DEF AddsUp
    <2>4. QED
      BY <2>1, <2>2, <2>3 DEF AddsUp
  <1>8. QED
    BY <1>1, <1>2, <1>3, <1>4, <1>6, <1>7, PcStep

(***************************************************************************)
(* The steps: writing                                                      *)
(***************************************************************************)
(* A step that writes no counter, and at most removes entries.             *)
LEMMA QuietStep ==
  ASSUME CacheInv, NEW p \in Procs, NEW l \in Labels, Moves(p, l), pc[p].at # "idle",
         UNCHANGED <<config, available, hits, keyhits, now, truth, calls, found, floor, timedout>>,
         cache' \in Maps, timestamps' \in Maps, expirations' \in Maps, swept' \in Nat,
         \A k \in Keys : cache'[k] \in {None, cache[k]},
         LocalOK(pc'[p]),
         l \in HitSteps => pc[p].at \in HitSteps,
         l \in KeyHitSteps => pc[p].at \in KeyHitSteps,
         l \in Plain \/ CountsLocal(p)',
         l # "set",
         Solo(p) /\ AddsUp(p) => AddsUp(p)'
  PROVE  CacheInv'
  <1>1. TypeOK /\ ValuesInv /\ CountInv /\ VersionInv
    BY DEF CacheInv
  <1>2. UNCHANGED <<style, hits, keyhits, found, floor, truth, timedout>> /\ UNCHANGED config
    BY DEF config
  <1>3. TypeOK'
    BY <1>2, Parts, TypeStep
  <1>4. CountInv'
    BY <1>1, <1>2, <1>3, CountKeep
  <1>5. VersionInv'
    BY <1>1, <1>2, VersionKeep
  <1>6. \A k \in Present(cache)' : k \in Present(cache)
    BY DEF Present
  <1>7. QED
    BY <1>2, <1>3, <1>4, <1>5, <1>6, Assemble

(* Such a step to a label where no copy of a counter is held.              *)
LEMMA StoreStep ==
  ASSUME CacheInv, NEW p \in Procs, NEW l \in Labels, Moves(p, l), pc[p].at # "idle",
         UNCHANGED <<config, available, hits, keyhits, now, truth, calls, found, floor, timedout>>,
         cache' \in Maps, timestamps' \in Maps, expirations' \in Maps, swept' \in Nat,
         \A k \in Keys : cache'[k] \in {None, cache[k]},
         LocalOK(pc'[p]),
         l \in HitSteps <=> pc[p].at \in HitSteps,
         l \in KeyHitSteps => pc[p].at \in KeyHitSteps,
         l \in Plain \ {"hitZero", "set", "retrieve"},
         Solo(p) /\ AddsUp(p) => ExpirationsAddUp(pc[p])'
  PROVE  CacheInv'
  <1>1. UNCHANGED <<style, hits, keyhits, found>> /\ UNCHANGED config
    BY DEF config
  <1>2. TypeOK /\ TypeOK'
    BY <1>1, Parts, TypeStep
  <1>3. ASSUME Solo(p), AddsUp(p) PROVE AddsUp(p)'
    <2>1. HitsAddUp(pc[p])'
      <3>1. \A k \in Keys : Count(keyhits'[k]) <= Count(keyhits[k])
        BY <1>1, Parts, CountNat
      <3>2. QED
        BY <1>1, <1>2, <1>3, <3>1, HitsKeep DEF AddsUp, KeyHitSteps
    <2>2. ServedAddUp(pc[p])'
      BY <1>1, <1>3, ServedKeep DEF AddsUp
    <2>3. QED
      BY <1>3, <2>1, <2>2 DEF AddsUp
  <1>4. QED
    BY <1>3, QuietStep

LEMMA StepEvict ==
  ASSUME CacheInv, NEW p \in Procs, Evict(p)
  PROVE  CacheInv'
  <1> DEFINE l == pc[p].then
  <1>1. /\ pc[p].at = "evict" /\ l \in {"idle", "compute"} /\ l \in Labels /\ pc[p].ks \in SUBSET Keys
        /\ Continue(p, l)
    BY Parts DEF Evict, At, LocalOK, Labels, Locals
  <1> HIDE DEF l
  <1>2. Moves(p, l) /\ LocalOK(pc'[p])
    BY <1>1, ContinuesOK
  <1>3. cache' \in Maps /\ \A k \in Keys : cache'[k] \in {None, cache[k]}
    BY Parts, Gone DEF Evict
  <1>4. UNCHANGED <<config, available, hits, keyhits, timestamps, expirations, now, truth, calls, found, floor,
                    swept, timedout>>
    BY DEF Evict, meta, ghosts
  <1>5. /\ l \notin KeyHitSteps /\ l \notin HitSteps /\ pc[p].at \notin HitSteps
        /\ l \in Plain \ {"hitZero", "set", "retrieve"} /\ Removing(pc[p]) = {}
        /\ l \notin {"flush", "expiration2", "expireRest", "expire1"}
    BY <1>1 DEF KeyHitSteps, HitSteps, ExpireSteps, Plain, Removing
  <1>6. ASSUME AddsUp(p) PROVE ExpirationsAddUp(pc[p])'
    <2>1. TypeOK'
      BY <1>1, <1>2, <1>3, <1>4, Parts, TypeStep
    <2>2. QED
      BY <1>1, <1>2, <1>3, <1>4, <1>5, <1>6, <2>1, Parts, ExpirationsKeep DEF AddsUp
  <1>7. QED
    BY <1>1, <1>2, <1>3, <1>4, <1>5, <1>6, Parts, StoreStep

LEMMA StepTimestamp ==
  ASSUME CacheInv, NEW p \in Procs, AddKeyTimestamp(p)
  PROVE  CacheInv'
  <1>1. CASE At(p, "timestamp")
    <2>1. pc[p].at = "timestamp" /\ "timestamp2" \in Labels /\ pc[p] \in Locals
      BY <1>1, Parts DEF At, Labels
    <2> DEFINE f == [timestamps EXCEPT ![Key(p)] = now]
               r == [pc[p] EXCEPT !.at = "timestamp2", !.map1 = f]
    <2>2. pc' = [pc EXCEPT ![p] = r] /\ UNCHANGED <<config, available, cache, meta, now, truth, ghosts>>
      BY <2>1 DEF AddKeyTimestamp, At
    <2>3. f \in Maps
      BY Parts DEF Maps, Counts
    <2> HIDE DEF f
    <2>4. r \in Locals /\ r.at = "timestamp2" /\ r.key = pc[p].key /\ r.then = pc[p].then
      BY <2>1, <2>3 DEF Locals
    <2>5. LocalOK(r)
      BY <2>1, <2>4, Parts DEF LocalOK
    <2> HIDE DEF r
    <2>6. Moves(p, "timestamp2") /\ LocalOK(pc'[p])
      BY <2>2, <2>4, <2>5, Parts, Settles
    <2>7. /\ "timestamp2" \in KeyHitSteps => pc[p].at \in KeyHitSteps
          /\ "timestamp2" \notin HitSteps /\ pc[p].at \notin HitSteps
          /\ "timestamp2" \in Plain \ {"hitZero", "set", "expiration2", "expireRest", "retrieve"}
          /\ Removing(pc[p]) = {}
      BY <2>1 DEF KeyHitSteps, HitSteps, ExpireSteps, Plain, Removing
    <2>8. QED
      BY <2>1, <2>2, <2>6, <2>7, PlainStep
  <1>2. CASE At(p, "timestamp2")
    <2> DEFINE l == AfterTimestamp
    <2>1. /\ pc[p].at = "timestamp2" /\ l \in Labels /\ l \in {"size", "keyhit"}
          /\ timestamps' = pc[p].map1 /\ Continue(p, l)
      BY <1>2 DEF AddKeyTimestamp, At, Labels, AfterTimestamp
    <2>2. UNCHANGED <<config, available, cache, hits, keyhits, expirations, now, truth, calls, found, floor,
                      swept, timedout>>
      BY <2>1 DEF AddKeyTimestamp, At, ghosts
    <2>3. /\ l \in KeyHitSteps => pc[p].at \in KeyHitSteps
          /\ l \notin HitSteps /\ pc[p].at \notin HitSteps
          /\ l \in Plain \ {"hitZero", "set", "retrieve"} /\ l \notin {"flush", "expiration2", "expireRest", "expire1"}
          /\ Removing(pc[p]) = {}
      BY <2>1 DEF KeyHitSteps, HitSteps, ExpireSteps, Plain, Removing, AfterTimestamp
    <2>4. Moves(p, l) /\ LocalOK(pc'[p])
      BY <2>1, ContinuesOK
    <2>6. timestamps' \in Maps /\ cache' \in Maps /\ \A k \in Keys : cache'[k] \in {None, cache[k]}
      BY <2>1, <2>2, Parts
    <2> HIDE DEF l
    <2>7. TypeOK'
      BY <2>1, <2>2, <2>4, <2>6, Parts, TypeStep
    <2>8. ASSUME AddsUp(p) PROVE ExpirationsAddUp(pc[p])'
      BY <2>1, <2>2, <2>3, <2>4, <2>6, <2>7, <2>8, Parts, ExpirationsKeep DEF AddsUp
    <2>9. QED
      BY <2>1, <2>2, <2>3, <2>4, <2>6, <2>8, Parts, StoreStep
  <1>3. QED
    BY <1>1, <1>2 DEF AddKeyTimestamp

LEMMA StepExpireRead ==
  ASSUME CacheInv, NEW p \in Procs, ExpireRead(p)
  PROVE  CacheInv'
  <1> DEFINE gone == {k \in Present(expirations) : now > expirations[k]}
             go == Counting(p)
             l == IF gone = {} THEN go ELSE "expireRest"
  <1>1. /\ pc[p].at = "expire" /\ pc[p] \in Locals /\ "expireRest" \in Labels
        /\ go \in Labels /\ go \in {"idle", "compute", "keyhit", "timestamp"}
    BY Parts DEF ExpireRead, At, Labels, LocalOK, Counting
  <1>2. /\ swept' = IF Alone THEN now ELSE 0
        /\ UNCHANGED <<config, available, cache, hits, keyhits, timestamps, expirations, now, truth, calls,
                       found, floor, timedout>>
    BY DEF ExpireRead, meta
  <1>3. /\ l \in KeyHitSteps => pc[p].at \in KeyHitSteps
        /\ l \notin HitSteps /\ pc[p].at \notin HitSteps
        /\ l \in Plain \ {"hitZero", "set", "retrieve"}
    BY <1>1 DEF KeyHitSteps, HitSteps, ExpireSteps, Plain
  <1>4. gone \in SUBSET Keys
    BY DEF Present
  <1>5. /\ Moves(p, l) /\ LocalOK(pc'[p]) /\ pc'[p].ks = gone
        /\ gone # {} => pc'[p].map1 = expirations
    <2>1. CASE gone = {}
      <3>1. Continue(p, go)
        BY <2>1 DEF ExpireRead
      <3>2. Moves(p, go) /\ LocalOK(pc'[p])
        BY <1>1, <3>1, ContinuesOK
      <3>3. pc'[p].ks = {}
        BY <1>1, <3>1, Parts, Continues
      <3>4. QED
        BY <2>1, <3>2, <3>3
    <2>2. CASE gone # {}
      <3> DEFINE r == [pc[p] EXCEPT !.at = "expireRest", !.ks = gone, !.map1 = expirations]
      <3>1. pc' = [pc EXCEPT ![p] = r]
        BY <2>2 DEF ExpireRead
      <3> HIDE DEF gone
      <3>2. r \in Locals
        BY <1>1, <1>4, Parts DEF Locals
      <3>3. r.at = "expireRest" /\ r.ks = gone /\ r.map1 = expirations /\ r.key = pc[p].key /\ r.then = pc[p].then
        BY <1>1 DEF Locals
      <3>4. LocalOK(r)
        BY <1>1, <3>3, Parts DEF LocalOK
      <3> HIDE DEF r
      <3>5. Moves(p, "expireRest") /\ pc'[p] = r
        BY <3>1, <3>2, <3>3, Parts, Settles
      <3>6. QED
        BY <2>2, <3>3, <3>4, <3>5
    <2>3. QED
      BY <2>1, <2>2
  <1>6. ASSUME Solo(p), AddsUp(p) PROVE ExpirationsAddUp(pc[p])'
    <2>1. swept' = now
      BY <1>2, <1>6, Parts DEF Solo, Alone, OneCaller, TypeOK
    <2>2. Removing(pc[p]) = {}
      BY <1>1, Parts DEF Removing, LocalOK
    <2>3. \A k \in Present(cache) : expirations[k] # None /\ expirations[k] \in Nat
      BY <1>6, <2>2, Parts DEF AddsUp, ExpirationsAddUp, Kept, Present, Maps, Counts
    <2>4. \A k \in Present(cache) \ gone : expirations[k] # None /\ expirations[k] >= now
      BY <2>3, Parts DEF Present
    <2>5. \A k \in Present(cache)' \ gone : expirations'[k] # None /\ expirations'[k] >= swept'
      BY <1>2, <2>1, <2>4 DEF Present
    <2>6. gone # {} => gone \subseteq Removing(pc[p])'
      BY <1>4, <1>5 DEF Moves, Removing, ExpireSteps
    <2>7. Kept(expirations, Removing(pc[p]))'
      <3> HIDE DEF gone
      <3>1. gone \subseteq Removing(pc[p])'
        BY <2>6
      <3>2. QED
        BY <2>5, <3>1 DEF Kept
    <2>8. swept' <= now'
      BY <1>2, <2>1, Parts
    <2>9. l = "expireRest" => Kept(pc[p].map1, pc[p].ks)'
      BY <1>1, <1>2, <1>5, <2>5 DEF Kept, Moves
    <2>10. QED
      BY <1>1, <1>5, <2>7, <2>8, <2>9 DEF ExpirationsAddUp, Moves
  <1>7. swept' \in Nat /\ cache' \in Maps /\ timestamps' \in Maps /\ expirations' \in Maps
    BY <1>2, Parts
  <1>8. l \in Labels /\ \A k \in Keys : cache'[k] \in {None, cache[k]}
    BY <1>1, <1>2
  <1> HIDE DEF l
  <1>9. QED
    BY <1>1, <1>2, <1>3, <1>5, <1>6, <1>7, <1>8, Parts, StoreStep

LEMMA StepExpireClear ==
  ASSUME CacheInv, NEW p \in Procs, ExpireClear(p)
  PROVE  CacheInv'
  <1> DEFINE l == Counting(p)
  <1>1. /\ pc[p].at = "expireClear" /\ pc[p] \in Locals
        /\ l \in Labels /\ l \in {"idle", "compute", "keyhit", "timestamp"} /\ Continue(p, l)
    BY Parts DEF ExpireClear, At, Labels, LocalOK, Counting
  <1> HIDE DEF l
  <1>2. /\ cache' = Erase(cache, pc[p].ks)
        /\ UNCHANGED <<config, available, hits, keyhits, timestamps, expirations, now, truth, calls,
                       found, floor, swept, timedout>>
    BY DEF ExpireClear, meta, ghosts
  <1>3. /\ l \in KeyHitSteps => pc[p].at \in KeyHitSteps
        /\ l \notin HitSteps /\ pc[p].at \notin HitSteps
        /\ l \in Plain \ {"hitZero", "set", "retrieve"}
        /\ l \notin {"flush", "expiration2", "expireRest", "expire1"}
    BY <1>1 DEF KeyHitSteps, HitSteps, ExpireSteps, Plain
  <1>5. Moves(p, l) /\ LocalOK(pc'[p])
    BY <1>1, ContinuesOK
  <1>6. /\ cache' \in Maps /\ \A k \in Keys : cache'[k] \in {None, cache[k]}
        /\ \A k \in Removing(pc[p]) : cache'[k] = None
    BY <1>1, <1>2, Parts, Gone DEF Removing
  <1>7. TypeOK'
    BY <1>1, <1>2, <1>5, <1>6, Parts, TypeStep
  <1>8. ASSUME AddsUp(p) PROVE ExpirationsAddUp(pc[p])'
    BY <1>1, <1>2, <1>3, <1>5, <1>6, <1>7, <1>8, Parts, ExpirationsKeep DEF AddsUp
  <1>9. QED
    BY <1>1, <1>2, <1>3, <1>5, <1>6, <1>8, Parts, StoreStep

LEMMA StepAddKeyExpiration ==
  ASSUME CacheInv, NEW p \in Procs, AddKeyExpiration(p)
  PROVE  CacheInv'
  <1>1. CASE At(p, "expiration")
    <2>1. /\ pc[p].at = "expiration" /\ "expiration2" \in Labels /\ pc[p] \in Locals
          /\ pc[p].key \in Keys /\ Key(p) = pc[p].key
      BY <1>1, Parts DEF At, Labels, LocalOK
    <2> DEFINE f == [expirations EXCEPT ![Key(p)] = now + Ttl]
               r == [pc[p] EXCEPT !.at = "expiration2", !.map1 = f]
    <2>2. pc' = [pc EXCEPT ![p] = r] /\ UNCHANGED <<config, available, cache, meta, now, truth, ghosts>>
      BY <2>1 DEF AddKeyExpiration, At
    <2>3. now + Ttl \in Nat /\ now <= now + Ttl
      BY Parts, SizeAssumption
    <2>4. f \in Maps /\ \A k \in Keys : f[k] = IF k = Key(p) THEN now + Ttl ELSE expirations[k]
      BY <2>3, Parts DEF Maps, Counts
    <2> HIDE DEF f
    <2>5. r \in Locals /\ r.at = "expiration2" /\ r.key = pc[p].key /\ r.then = pc[p].then /\ r.map1 = f
      BY <2>1, <2>4 DEF Locals
    <2>6. LocalOK(r)
      BY <2>1, <2>5, Parts DEF LocalOK
    <2> HIDE DEF r
    <2>7. /\ Moves(p, "expiration2") /\ LocalOK(pc'[p])
          /\ pc'[p].map1 = f /\ pc'[p].key = pc[p].key
      BY <2>2, <2>5, <2>6, Parts, Settles
    <2>8. /\ "expiration2" \notin KeyHitSteps /\ "expiration2" \notin HitSteps
          /\ pc[p].at \notin HitSteps /\ pc[p].at \notin ExpireSteps /\ "expiration2" \notin ExpireSteps
          /\ "expiration2" \in Plain \ {"hitZero", "set", "retrieve"}
      BY <2>1 DEF KeyHitSteps, HitSteps, ExpireSteps, Plain
    <2>9. UNCHANGED <<config, available, cache, hits, keyhits, timestamps, expirations, now, truth, calls,
                      found, floor, swept, timedout>>
      BY <2>2 DEF meta, ghosts
    <2>10. ASSUME AddsUp(p) PROVE ExpirationsAddUp(pc[p])'
      <3>1. Removing(pc[p]) = {Key(p)} /\ Removing(pc[p])' = {Key(p)}
        BY <2>1, <2>7, <2>8 DEF Removing, Moves
      <3>2. Kept(expirations, {Key(p)}) /\ swept <= now
        BY <2>10, <3>1 DEF AddsUp, ExpirationsAddUp
      <3>3. f[Key(p)] \in Nat /\ f[Key(p)] >= swept
        BY <2>1, <2>3, <2>4, <3>2, Parts
      <3>4. \A k \in Present(cache)' : f[k] # None /\ f[k] >= swept'
        BY <2>1, <2>4, <2>9, <3>2, <3>3, NoneAssumption DEF Kept, Present
      <3>5. Kept(expirations, Removing(pc[p]))'
        BY <2>9, <3>1, <3>2 DEF Kept, Present
      <3>6. Kept(pc[p].map1, {})' /\ swept' <= now'
        BY <2>7, <2>9, <3>2, <3>4 DEF Kept
      <3>7. pc'[p].at = "expiration2" /\ pc'[p].map1[pc'[p].key] \in Nat /\ pc'[p].map1[pc'[p].key] >= swept'
        BY <2>1, <2>7, <2>9, <3>3 DEF Moves
      <3>8. QED
        BY <3>5, <3>6, <3>7 DEF ExpirationsAddUp
    <2>11. cache' \in Maps /\ timestamps' \in Maps /\ expirations' \in Maps /\ swept' \in Nat
           /\ \A k \in Keys : cache'[k] \in {None, cache[k]}
      BY <2>9, Parts
    <2>12. QED
      BY <2>1, <2>7, <2>8, <2>9, <2>10, <2>11, StoreStep
  <1>2. CASE At(p, "expiration2")
    <2>1. /\ pc[p].at = "expiration2" /\ "idle" \in Labels
          /\ expirations' = pc[p].map1 /\ Return(p)
      BY <1>2 DEF AddKeyExpiration, At, Labels
    <2>2. UNCHANGED <<config, available, cache, hits, keyhits, timestamps, now, truth, calls,
                      found, floor, swept, timedout>>
      BY <2>1 DEF AddKeyExpiration, At, ghosts
    <2>3. Moves(p, "idle") /\ LocalOK(pc'[p])
      BY <2>1, Parts, Returns DEF LocalOK, Idle
    <2>4. /\ "idle" \notin KeyHitSteps /\ "idle" \notin HitSteps /\ pc[p].at \notin HitSteps
          /\ "idle" \in Plain \ {"hitZero", "set", "retrieve"}
      BY <2>1 DEF KeyHitSteps, HitSteps, ExpireSteps, Plain
    <2>5. ASSUME AddsUp(p) PROVE ExpirationsAddUp(pc[p])'
      <3>1. Kept(pc[p].map1, {}) /\ swept <= now
        BY <2>1, <2>5 DEF AddsUp, ExpirationsAddUp
      <3>2. Kept(expirations, Removing(pc[p]))'
        BY <2>1, <2>2, <3>1 DEF Kept, Present
      <3>3. QED
        BY <2>2, <2>3, <3>1, <3>2 DEF ExpirationsAddUp, Moves
    <2>6. cache' \in Maps /\ timestamps' \in Maps /\ expirations' \in Maps /\ swept' \in Nat
           /\ \A k \in Keys : cache'[k] \in {None, cache[k]}
      BY <2>1, <2>2, Parts
    <2>7. QED
      BY <2>1, <2>2, <2>3, <2>4, <2>5, <2>6, StoreStep
  <1>3. QED
    BY <1>1, <1>2 DEF AddKeyExpiration

LEMMA StepExpireWrite ==
  ASSUME CacheInv, NEW p \in Procs, ExpireWrite(p)
  PROVE  CacheInv'
  <1>1. /\ pc[p].at \in {"expire1", "expire2", "expire3"} /\ pc[p] \in Locals
        /\ {"expire2", "expire3", "expireClear"} \subseteq Labels
        /\ UNCHANGED <<config, available, cache, hits, now, truth, calls, found, floor, swept, timedout>>
    BY Parts DEF ExpireWrite, At, Labels, ghosts
  <1> DEFINE ks == pc[p].ks
  <1>2. /\ pc[p].at \in KeyHitSteps \ HitSteps /\ pc[p].at \notin HitSteps
        /\ {"expire2", "expire3", "expireClear"} \subseteq ExpireSteps
        /\ {"expire2", "expire3", "expireClear"} \subseteq KeyHitSteps \ HitSteps
        /\ {"expire3", "expireClear"} \subseteq Plain \ {"hitZero", "set", "retrieve"}
        /\ Removing(pc[p]) = ks
    BY <1>1 DEF KeyHitSteps, HitSteps, ExpireSteps, Plain, Removing, Labels, Locals
  <1>3. /\ cache' \in Maps /\ swept' \in Nat /\ \A k \in Keys : cache'[k] \in {None, cache[k]}
        /\ UNCHANGED <<style, hits, found, now, swept, cache, floor, truth>>
    BY <1>1, Parts DEF config
  <1>4. CASE At(p, "expire1")
    <2>1. /\ pc[p].at = "expire1" /\ Goto(p, "expire2")
          /\ expirations' = Erase(pc[p].map1, ks) /\ UNCHANGED <<keyhits, timestamps>>
      BY <1>4 DEF ExpireWrite, At
    <2>2. /\ Moves(p, "expire2") /\ pc'[p].key = pc[p].key /\ pc'[p].then = pc[p].then /\ pc'[p].ks = ks
          /\ pc'[p].map2 = pc[p].map2
      BY <1>1, <2>1, Parts, Goes
    <2>3. LocalOK(pc'[p])
      BY <2>1, <2>2, Parts DEF LocalOK, Moves
    <2>4. /\ expirations' \in Maps /\ timestamps' \in Maps
          /\ \A k \in Keys : expirations'[k] = IF k \in ks THEN None ELSE pc[p].map1[k]
      BY <2>1, Parts, Gone
    <2>5. TypeOK'
      BY <1>1, <1>3, <2>1, <2>2, <2>4, Parts, TypeStep
    <2>6. CountsLocal(p)'
      <3>1. Leeway(0)
        BY <1>1, <1>2, <1>3, <2>2, <2>5, Parts, LeewayMoves
      <3>2. Covers(pc[p].map2, KeyUncounted)
        BY <2>1, Parts DEF CountsLocal
      <3>3. \A k \in Keys : Count(pc[p].map2[k]) <= Count(pc[p].map2[k])
        BY Parts, CountNat
      <3>4. \A k \in Keys : Count(pc[p].map2[k]) + Cardinality(KeyUncounted') <= found'
        <4> DEFINE f == pc[p].map2
        <4> SUFFICES ASSUME TRUE PROVE \A k \in Keys : Count(f[k]) + Cardinality(KeyUncounted') <= found'
          OBVIOUS
        <4>1. f \in Maps /\ Covers(f, KeyUncounted) /\ \A k \in Keys : Count(f[k]) <= Count(f[k])
          BY <3>2, <3>3, Parts
        <4> HIDE DEF f
        <4>2. QED
          BY <3>1, <4>1, <2>5, Parts, CountNat, Counters, Counts2 DEF Leeway, Covers
      <3>5. QED
        BY <2>2, <3>4 DEF CountsLocal, Moves, Covers
    <2>7. ASSUME AddsUp(p) PROVE AddsUp(p)'
      <3>1. HitsAddUp(pc[p])'
        BY <1>2, <1>3, <2>1, <2>2, <2>7 DEF AddsUp, HitsAddUp, Moves, NumHits, KeyHitSteps
      <3>2. ExpirationsAddUp(pc[p])'
        <4>1. Kept(pc[p].map1, ks) /\ swept <= now
          BY <2>1, <2>7 DEF AddsUp, ExpirationsAddUp
        <4>2. ks \subseteq Removing(pc[p])'
          BY <1>1, <1>2, <2>2 DEF Removing, Moves, Locals
        <4>3. \A k \in Present(cache)' \ ks : expirations'[k] # None /\ expirations'[k] >= swept'
          BY <1>3, <2>4, <4>1 DEF Kept, Present
        <4>4. Kept(expirations, Removing(pc[p]))' /\ swept' <= now'
          BY <1>3, <4>1, <4>2, <4>3 DEF Kept
        <4>5. QED
          BY <2>2, <4>4 DEF ExpirationsAddUp, Moves
      <3>3. ServedAddUp(pc[p])'
        BY <1>1, <1>2, <2>2, <2>7, ServedKeep DEF AddsUp
      <3>4. QED
        BY <3>1, <3>2, <3>3 DEF AddsUp
    <2>8. QED
      BY <1>1, <1>2, <1>3, <2>1, <2>2, <2>3, <2>4, <2>6, <2>7, Parts, QuietStep
  <1>5. CASE At(p, "expire2")
    <2>1. /\ pc[p].at = "expire2" /\ Goto(p, "expire3")
          /\ keyhits' = Erase(pc[p].map2, ks) /\ UNCHANGED <<expirations, timestamps>>
      BY <1>5 DEF ExpireWrite, At
    <2>2. Moves(p, "expire3") /\ pc'[p].key = pc[p].key /\ pc'[p].then = pc[p].then /\ pc'[p].ks = ks
      BY <1>1, <2>1, Parts, Goes
    <2>3. LocalOK(pc'[p])
      BY <2>1, <2>2, Parts DEF LocalOK, Moves
    <2>4. keyhits' \in Maps /\ \A k \in Keys : Count(keyhits'[k]) <= Count(pc[p].map2[k])
      BY <2>1, Parts, Gone
    <2>5. TypeOK'
      BY <1>1, <1>3, <2>1, <2>2, <2>4, Parts, TypeStep
    <2>6. CountInv'
      <3>1. pc[p].map2 \in Maps /\ Covers(pc[p].map2, KeyUncounted)
        BY <2>1, Parts DEF CountsLocal
      <3>2. QED
        BY <1>1, <1>2, <1>3, <2>2, <2>4, <2>5, <3>1, Parts, CountStep
    <2>7. VersionInv'
      BY <1>1, <1>3, <2>2, Parts, VersionKeep
    <2>8. ASSUME AddsUp(p) PROVE AddsUp(p)'
      <3>1. HitsAddUp(pc[p])'
        <4>1. \A k \in Keys : Count(pc[p].map2[k]) + 1 <= NumHits
          BY <2>1, <2>8 DEF AddsUp, HitsAddUp
        <4>2. \A k \in Keys : Count(keyhits'[k]) \in Nat /\ Count(pc[p].map2[k]) \in Nat
          BY <2>4, Parts, CountNat
        <4>3. \A k \in Keys : Count(keyhits'[k]) + 1 <= NumHits
          BY <2>4, <4>1, <4>2, Parts
        <4>4. QED
          BY <1>2, <1>3, <2>2, <4>3 DEF HitsAddUp, Moves, NumHits, KeyHitSteps
      <3>2. ExpirationsAddUp(pc[p])'
        <4>1. ks \subseteq Removing(pc[p])'
          BY <1>1, <1>2, <2>2 DEF Removing, Moves, Locals
        <4>2. QED
          BY <1>1, <1>2, <1>3, <2>1, <2>2, <2>5, <2>8, <4>1, Parts, ExpirationsKeep DEF AddsUp
      <3>3. ServedAddUp(pc[p])'
        BY <1>1, <1>2, <2>2, <2>8, ServedKeep DEF AddsUp
      <3>4. QED
        BY <3>1, <3>2, <3>3 DEF AddsUp
    <2>9. QED
      BY <1>1, <1>3, <2>1, <2>2, <2>3, <2>5, <2>6, <2>7, <2>8, Assemble DEF Present
  <1>6. CASE At(p, "expire3")
    <2>1. /\ pc[p].at = "expire3" /\ Goto(p, "expireClear")
          /\ timestamps' = Erase(pc[p].map3, ks) /\ UNCHANGED <<expirations, keyhits>>
      BY <1>6 DEF ExpireWrite, At
    <2>2. Moves(p, "expireClear") /\ pc'[p].key = pc[p].key /\ pc'[p].then = pc[p].then /\ pc'[p].ks = ks
      BY <1>1, <2>1, Parts, Goes
    <2>3. LocalOK(pc'[p])
      BY <2>1, <2>2, Parts DEF LocalOK, Moves
    <2>4. timestamps' \in Maps /\ expirations' \in Maps
      BY <2>1, Parts, Gone
    <2>5. TypeOK'
      BY <1>1, <1>3, <2>1, <2>2, <2>4, Parts, TypeStep
    <2>6. ASSUME AddsUp(p) PROVE ExpirationsAddUp(pc[p])'
      <3>1. ks \subseteq Removing(pc[p])'
        BY <1>1, <1>2, <2>2 DEF Removing, Moves, Locals
      <3>2. QED
        BY <1>1, <1>2, <1>3, <2>1, <2>2, <2>5, <2>6, <3>1, Parts, ExpirationsKeep DEF AddsUp
    <2>7. QED
      BY <1>1, <1>2, <1>3, <2>1, <2>2, <2>3, <2>4, <2>6, Parts, StoreStep
  <1>7. QED
    BY <1>4, <1>5, <1>6 DEF ExpireWrite

LEMMA StepKeyHitWrite ==
  ASSUME CacheInv, NEW p \in Procs, At(p, "keyhit2"), AddKeyHit(p)
  PROVE  CacheInv'
  <1> DEFINE l == AfterKeyHit
  <1>1. /\ pc[p].at = "keyhit2" /\ l \in {"size", "timestamp"} /\ l \in Labels
        /\ keyhits' = pc[p].map1 /\ Continue(p, l)
    BY DEF AddKeyHit, At, Labels, AfterKeyHit
  <1>2. UNCHANGED <<config, available, cache, hits, timestamps, expirations, now, truth, calls, found, floor,
                    swept, timedout>>
    BY <1>1 DEF AddKeyHit, At, ghosts
  <1>3. /\ pc[p].at \in KeyHitSteps \ HitSteps /\ l \notin KeyHitSteps /\ l \notin HitSteps
        /\ pc[p].at \notin HitSteps /\ l \in Plain /\ l \in Plain \ {"hitZero", "set", "retrieve"}
        /\ l \notin {"flush", "expiration2", "expireRest", "expire1"}
        /\ Removing(pc[p]) = {}
    BY <1>1 DEF KeyHitSteps, HitSteps, ExpireSteps, Plain, Removing, AfterKeyHit
  <1> HIDE DEF l
  <1>4. Moves(p, l) /\ LocalOK(pc'[p])
    BY <1>1, ContinuesOK
  <1>6. /\ keyhits' \in Maps /\ \A k \in Keys : cache'[k] \in {None, cache[k]}
        /\ UNCHANGED <<style, hits, found, now, swept, cache, floor, truth, expirations>>
    BY <1>1, <1>2, Parts DEF config
  <1>7. TypeOK'
    BY <1>1, <1>2, <1>4, <1>6, Parts, TypeStep
  <1>8. CountInv'
    <2>1. /\ Leeway(0) /\ KeyUncounted' = KeyUncounted \ {p}
      BY <1>1, <1>3, <1>4, <1>6, <1>7, Parts, LeewayMoves
    <2>2. Covers(keyhits', KeyUncounted')
      BY <1>1, <1>6, <2>1, Parts DEF CountsLocal, Covers
    <2>3. Count(hits') + Cardinality(Uncounted') <= found'
      <3>1. Count(hits) + Cardinality(Uncounted) <= found /\ Cardinality(Uncounted') <= Cardinality(Uncounted) + 0
        BY <2>1, Parts DEF CountInv, Leeway
      <3>2. Cardinality(Uncounted') \in Nat /\ Cardinality(Uncounted) \in Nat
        BY <1>7, Parts, Counters, Counts2
      <3>3. QED
        BY <1>6, <3>1, <3>2, Parts
    <2>4. \A q \in Procs \ {p} : CountsLocal(q)'
      BY <1>4, <1>7, <2>1, Parts, CountOthers DEF Moves
    <2>5. CountsLocal(p)'
      BY <1>3, <1>4 DEF CountsLocal, Moves, Plain
    <2>6. QED
      BY <1>6, <2>2, <2>3, <2>4, <2>5 DEF CountInv, Covers
  <1>9. VersionInv'
    BY <1>1, <1>2, <1>3, <1>4, <1>6, Parts, VersionKeep
  <1>10. ASSUME AddsUp(p) PROVE AddsUp(p)'
    <2>1. HitsAddUp(pc[p])'
      <3>1. \A k \in Keys : Count(keyhits'[k]) + 0 <= NumHits
        BY <1>1, <1>10 DEF AddsUp, HitsAddUp
      <3>2. QED
        BY <1>3, <1>4, <1>6, <3>1 DEF HitsAddUp, Moves, NumHits, KeyHitSteps, Plain
    <2>2. ExpirationsAddUp(pc[p])'
      BY <1>1, <1>3, <1>4, <1>6, <1>7, <1>10, Parts, ExpirationsKeep DEF AddsUp
    <2>3. ServedAddUp(pc[p])'
      BY <1>1, <1>2, <1>3, <1>4, <1>10, ServedKeep DEF AddsUp, Plain
    <2>4. QED
      BY <2>1, <2>2, <2>3 DEF AddsUp
  <1>11. QED
    BY <1>1, <1>2, <1>4, <1>6, <1>7, <1>8, <1>9, <1>10, Assemble DEF Present

(* add_hit: the steps before the counter is read, and its write.           *)
LEMMA StepHitFirst ==
  ASSUME CacheInv, NEW p \in Procs, At(p, "hit"), AddHit(p)
  PROVE  CacheInv'
  <1> DEFINE l == IF hits = None THEN "hitZero" ELSE "hitRead"
  <1>1. /\ pc[p].at = "hit" /\ l \in Labels /\ Goto(p, l) /\ l \in {"hitZero", "hitRead"}
        /\ UNCHANGED <<config, available, cache, meta, now, truth, ghosts>>
    BY DEF AddHit, At, Labels
  <1>2. /\ l \in HitSteps /\ pc[p].at \in HitSteps /\ l \in KeyHitSteps /\ pc[p].at \in KeyHitSteps
        /\ l \in Plain /\ Removing(pc[p]) = {}
    BY <1>1 DEF HitSteps, KeyHitSteps, ExpireSteps, Plain, Removing
  <1>3. l = "hitZero" => hits = None
    OBVIOUS
  <1> HIDE DEF l
  <1>4. Moves(p, l) /\ pc'[p].key = pc[p].key /\ pc'[p].then = pc[p].then
    BY <1>1, Parts, Goes
  <1>5. LocalOK(pc'[p])
    BY <1>1, <1>4, Parts DEF LocalOK, Moves
  <1>6. TypeOK' /\ UNCHANGED <<style, hits, keyhits, expirations, found, swept, now, cache>> /\ UNCHANGED config
    BY <1>1, <1>4, Parts, TypeSame DEF config, meta, ghosts
  <1>7. ASSUME AddsUp(p) PROVE AddsUp(p)'
    <2>1. HitsAddUp(pc[p])'
      BY <1>1, <1>2, <1>3, <1>4, <1>6, <1>7 DEF AddsUp, HitsAddUp, Moves, NumHits, KeyHitSteps
    <2>2. ExpirationsAddUp(pc[p])'
      BY <1>1, <1>2, <1>4, <1>6, <1>7, Parts, ExpirationsKeep DEF AddsUp
    <2>3. ServedAddUp(pc[p])'
      BY <1>1, <1>2, <1>4, <1>6, <1>7, ServedKeep DEF AddsUp
    <2>4. QED
      BY <2>1, <2>2, <2>3 DEF AddsUp
  <1>8. QED
    BY <1>1, <1>2, <1>4, <1>5, <1>7, PcStep

LEMMA StepHitZero ==
  ASSUME CacheInv, NEW p \in Procs, At(p, "hitZero"), AddHit(p)
  PROVE  CacheInv'
  <1>1. /\ pc[p].at = "hitZero" /\ "hitRead" \in Labels /\ Goto(p, "hitRead") /\ hits' = 0
        /\ UNCHANGED <<config, available, cache, keyhits, timestamps, expirations, now, truth, ghosts>>
    BY DEF AddHit, At, Labels
  <1>2. /\ "hitRead" \in HitSteps /\ pc[p].at \in HitSteps /\ "hitRead" \in KeyHitSteps
        /\ pc[p].at \in KeyHitSteps /\ "hitRead" \in Plain /\ Removing(pc[p]) = {}
    BY <1>1 DEF HitSteps, KeyHitSteps, ExpireSteps, Plain, Removing
  <1>3. Moves(p, "hitRead") /\ pc'[p].key = pc[p].key /\ pc'[p].then = pc[p].then
    BY <1>1, Parts, Goes
  <1>4. LocalOK(pc'[p])
    BY <1>1, <1>3, Parts DEF LocalOK, Moves
  <1>5. /\ UNCHANGED <<style, keyhits, expirations, found, swept, now, cache, floor, truth, calls, timedout>>
        /\ UNCHANGED config
    BY <1>1 DEF config, ghosts
  <1>6. TypeOK' /\ Count(hits') = 0 /\ NumHits' = 0
    <2>1. hits' \in Counts /\ Count(hits') = 0 /\ NumHits' = 0
      BY <1>1, NoneAssumption DEF Counts, Count, NumHits
    <2>2. QED
      BY <1>1, <1>3, <1>5, <2>1, Parts, TypeStep
  <1>7. CountInv'
    <2>1. Leeway(0)
      BY <1>1, <1>2, <1>3, <1>5, <1>6, Parts, LeewayMoves
    <2>2. Cardinality(Uncounted') <= Cardinality(Uncounted) + 0 /\ NumHits + Cardinality(Uncounted) <= found
      BY <2>1, Parts DEF Leeway, CountInv
    <2>3. Cardinality(Uncounted') \in Nat /\ Cardinality(Uncounted) \in Nat
      BY <1>6, Parts, Counters, Counts2
    <2>4. Count(hits') + Cardinality(Uncounted') <= found
      BY <1>6, <2>2, <2>3, Parts
    <2>5. keyhits \in Maps /\ Covers(keyhits, KeyUncounted) /\ \A k \in Keys : Count(keyhits'[k]) <= Count(keyhits[k])
      BY <1>5, Parts, CountNat DEF CountInv
    <2>6. QED
      BY <1>1, <1>2, <1>3, <1>5, <1>6, <2>4, <2>5, Parts, CountWrite
  <1>8. VersionInv'
    BY <1>1, <1>3, <1>5, Parts, VersionKeep
  <1>9. ASSUME AddsUp(p) PROVE AddsUp(p)'
    <2>1. NumHits' = NumHits
      BY <1>1, <1>6, <1>9 DEF AddsUp, HitsAddUp, NumHits, Count
    <2>2. HitsAddUp(pc[p])'
      BY <1>1, <1>2, <1>3, <1>5, <1>9, <2>1 DEF AddsUp, HitsAddUp, Moves, KeyHitSteps
    <2>3. ExpirationsAddUp(pc[p])'
      BY <1>1, <1>2, <1>3, <1>5, <1>6, <1>9, Parts, ExpirationsKeep DEF AddsUp
    <2>4. ServedAddUp(pc[p])'
      BY <1>1, <1>2, <1>3, <1>5, <1>9, <2>1 DEF AddsUp, ServedAddUp, Moves, config
    <2>5. QED
      BY <2>2, <2>3, <2>4 DEF AddsUp
  <1>10. QED
    BY <1>1, <1>3, <1>4, <1>5, <1>6, <1>7, <1>8, <1>9, Assemble DEF Present

LEMMA StepHitWrite ==
  ASSUME CacheInv, NEW p \in Procs, At(p, "hitWrite"), AddHit(p)
  PROVE  CacheInv'
  <1>1. /\ pc[p].at = "hitWrite" /\ "expire" \in Labels /\ Continue(p, "expire")
        /\ hits' = pc[p].val /\ pc[p].val \in Nat
        /\ UNCHANGED <<config, available, cache, keyhits, timestamps, expirations, now, truth, ghosts>>
    BY Parts DEF AddHit, At, Labels, LocalOK
  <1>2. /\ "expire" \notin HitSteps /\ pc[p].at \in HitSteps /\ "expire" \in KeyHitSteps \ HitSteps
        /\ pc[p].at \in KeyHitSteps /\ "expire" \in Plain /\ Removing(pc[p]) = {}
    BY <1>1 DEF HitSteps, KeyHitSteps, ExpireSteps, Plain, Removing
  <1>3. Moves(p, "expire") /\ pc'[p].ks = {}
    BY <1>1, Parts, Continues
  <1>4. LocalOK(pc'[p])
    BY <1>1, ContinuesOK
  <1>5. /\ UNCHANGED <<style, keyhits, expirations, found, swept, now, cache, floor, truth, calls, timedout>>
        /\ UNCHANGED config
    BY <1>1 DEF config, ghosts
  <1>6. TypeOK' /\ Count(hits') = pc[p].val /\ NumHits' = pc[p].val
    <2>1. hits' \in Counts /\ Count(hits') = pc[p].val /\ NumHits' = pc[p].val
      BY <1>1, NoneAssumption DEF Counts, Count, NumHits
    <2>2. QED
      BY <1>1, <1>3, <1>5, <2>1, Parts, TypeStep
  <1>7. CountInv'
    <2>1. Uncounted' = Uncounted \ {p}
      BY <1>1, <1>2, <1>3, <1>5, <1>6, Parts, LeewayMoves
    <2>2. Count(hits') + Cardinality(Uncounted') <= found
      BY <1>1, <1>6, <2>1, Parts DEF CountsLocal
    <2>3. keyhits \in Maps /\ Covers(keyhits, KeyUncounted) /\ \A k \in Keys : Count(keyhits'[k]) <= Count(keyhits[k])
      BY <1>5, Parts, CountNat DEF CountInv
    <2>4. QED
      BY <1>1, <1>2, <1>3, <1>5, <1>6, <2>2, <2>3, Parts, CountWrite
  <1>8. VersionInv'
    BY <1>1, <1>3, <1>5, Parts, VersionKeep
  <1>9. ASSUME AddsUp(p) PROVE AddsUp(p)'
    <2>1. NumHits' = NumHits + 1
      BY <1>1, <1>6, <1>9 DEF AddsUp, HitsAddUp
    <2>2. HitsAddUp(pc[p])'
      <3>1. \A k \in Keys : Count(keyhits[k]) + 0 <= NumHits /\ Count(keyhits[k]) \in Nat
        BY <1>2, <1>9, Parts, CountNat DEF AddsUp, HitsAddUp
      <3>2. \A k \in Keys : Count(keyhits'[k]) + 1 <= NumHits'
        BY <1>5, <2>1, <3>1, Parts
      <3>3. QED
        BY <1>2, <1>3, <1>5, <3>2 DEF HitsAddUp, Moves, KeyHitSteps
    <2>3. ExpirationsAddUp(pc[p])'
      BY <1>1, <1>2, <1>3, <1>5, <1>6, <1>9, Parts, ExpirationsKeep DEF AddsUp
    <2>4. ServedAddUp(pc[p])'
      BY <1>1, <1>2, <1>3, <1>5, <1>9, <2>1, Parts DEF AddsUp, ServedAddUp, Moves, config
    <2>5. QED
      BY <2>2, <2>3, <2>4 DEF AddsUp
  <1>10. QED
    BY <1>1, <1>3, <1>4, <1>5, <1>6, <1>7, <1>8, <1>9, Assemble DEF Present

LEMMA StepInvalidateFlush ==
  ASSUME CacheInv, NEW p \in Procs, InvalidateFlush(p)
  PROVE  CacheInv'
  <1> DEFINE flushed(old, new) == IF new[Key(p)] = None THEN old ELSE Erase(new, {Key(p)})
  <1>1. /\ pc[p].at = "flush" /\ "delete" \in Labels /\ Goto(p, "delete")
        /\ keyhits' = flushed(keyhits, pc[p].map1)
        /\ timestamps' = flushed(timestamps, pc[p].map2)
        /\ expirations' = flushed(expirations, pc[p].map3)
        /\ UNCHANGED <<config, available, cache, hits, now, truth, ghosts>>
        /\ Key(p) = pc[p].key /\ pc[p].key \in Keys
    BY Parts DEF InvalidateFlush, At, Labels, LocalOK
  <1>2. /\ "delete" \notin HitSteps /\ pc[p].at \notin HitSteps /\ "delete" \notin KeyHitSteps
        /\ "delete" \in Plain /\ pc[p].at \notin KeyHitSteps
        /\ Removing(pc[p]) = {}
    BY <1>1 DEF HitSteps, KeyHitSteps, ExpireSteps, Plain, Removing
  <1>3. Moves(p, "delete") /\ pc'[p].key = pc[p].key /\ pc'[p].then = pc[p].then
    BY <1>1, Parts, Goes
  <1>4. LocalOK(pc'[p])
    BY <1>1, <1>3, Parts DEF LocalOK, Moves
  <1>5. /\ UNCHANGED <<style, hits, found, swept, now, cache, floor, truth, calls, timedout>>
        /\ UNCHANGED config
    BY <1>1 DEF config, ghosts
  <1>6. \A f \in Maps, g \in Maps :
          /\ flushed(f, g) \in Maps
          /\ \/ \A k \in Keys : flushed(f, g)[k] = f[k]
             \/ \A k \in Keys : flushed(f, g)[k] = IF k = Key(p) THEN None ELSE g[k]
    BY Gone
  <1> HIDE DEF flushed
  <1>7. TypeOK'
    BY <1>1, <1>3, <1>5, <1>6, Parts, TypeStep
  <1>8. \/ \A k \in Keys : Count(keyhits'[k]) <= Count(keyhits[k])
        \/ \A k \in Keys : Count(keyhits'[k]) <= Count(pc[p].map1[k])
    <2>1. CASE \A k \in Keys : keyhits'[k] = keyhits[k]
      BY <2>1, Parts, CountNat
    <2>2. CASE \A k \in Keys : keyhits'[k] = IF k = Key(p) THEN None ELSE pc[p].map1[k]
      <3>1. \A k \in Keys : Count(pc[p].map1[k]) \in Nat
        BY Parts, CountNat
      <3>2. QED
        BY <2>2, <3>1 DEF Count
    <2>3. QED
      BY <1>1, <1>6, <2>1, <2>2, Parts
  <1>9. CountInv'
    <2>1. keyhits \in Maps /\ Covers(keyhits, KeyUncounted)
      BY Parts DEF CountInv
    <2>2. pc[p].map1 \in Maps /\ Covers(pc[p].map1, KeyUncounted)
      BY <1>1, Parts DEF CountsLocal
    <2>3. CASE \A k \in Keys : Count(keyhits'[k]) <= Count(keyhits[k])
      BY <1>1, <1>2, <1>3, <1>5, <1>7, <2>1, <2>3, Parts, CountStep
    <2>4. CASE \A k \in Keys : Count(keyhits'[k]) <= Count(pc[p].map1[k])
      BY <1>1, <1>2, <1>3, <1>5, <1>7, <2>2, <2>4, Parts, CountStep
    <2>5. QED
      BY <1>8, <2>3, <2>4
  <1>10. VersionInv'
    BY <1>1, <1>3, <1>5, Parts, VersionKeep
  <1>11. ASSUME AddsUp(p) PROVE AddsUp(p)'
    <2>1. HitsAddUp(pc[p])'
      <3>1. \A k \in Keys : /\ Count(keyhits[k]) + 0 <= NumHits /\ Count(keyhits[k]) \in Nat
                            /\ Count(pc[p].map1[k]) + 0 <= NumHits /\ Count(pc[p].map1[k]) \in Nat
        BY <1>1, <1>2, <1>11, Parts, CountNat DEF AddsUp, HitsAddUp
      <3>2. keyhits' \in Maps /\ \A k \in Keys : Count(keyhits'[k]) \in Nat
        BY <1>1, <1>6, Parts, CountNat
      <3>3. \A k \in Keys : Count(keyhits'[k]) + 0 <= NumHits'
        BY <1>5, <1>8, <3>1, <3>2, Parts DEF NumHits
      <3>4. QED
        BY <1>2, <1>3, <1>5, <3>3 DEF HitsAddUp, Moves, KeyHitSteps
    <2>2. ExpirationsAddUp(pc[p])'
      <3>1. Kept(expirations, {}) /\ Kept(pc[p].map3, {}) /\ swept <= now
        BY <1>1, <1>2, <1>11 DEF AddsUp, ExpirationsAddUp
      <3>2. \A k \in Keys \ {Key(p)} : expirations'[k] \in {expirations[k], pc[p].map3[k]}
        BY <1>1, <1>6, Parts
      <3>3. Key(p) \in Removing(pc[p])'
        BY <1>1, <1>3 DEF Removing, Moves
      <3>4. Kept(expirations, Removing(pc[p]))'
        BY <1>5, <3>1, <3>2, <3>3 DEF Kept, Present
      <3>5. QED
        BY <1>3, <1>5, <3>1, <3>4 DEF ExpirationsAddUp, Moves
    <2>3. ServedAddUp(pc[p])'
      BY <1>1, <1>2, <1>3, <1>5, <1>11, ServedKeep DEF AddsUp
    <2>4. QED
      BY <2>1, <2>2, <2>3 DEF AddsUp
  <1>12. QED
    BY <1>1, <1>3, <1>4, <1>5, <1>7, <1>9, <1>10, <1>11, Assemble DEF Present

LEMMA StepInvalidateDelete ==
  ASSUME CacheInv, NEW p \in Procs, InvalidateDelete(p)
  PROVE  CacheInv'
  <1> DEFINE l == pc[p].then
  <1>1. /\ pc[p].at = "delete" /\ l \in Labels /\ l \in {"idle", "retrieve", "compute"}
        /\ Continue(p, l) /\ cache' = Erase(cache, {Key(p)})
        /\ floor' = [floor EXCEPT ![Key(p)] = IF Alone THEN truth ELSE 0]
        /\ UNCHANGED <<config, available, meta, now, truth, calls, found, swept, timedout>>
        /\ Key(p) = pc[p].key /\ pc[p].key \in Keys
    BY Parts DEF InvalidateDelete, At, Labels, LocalOK
  <1> HIDE DEF l
  <1>2. /\ l \notin HitSteps /\ pc[p].at \notin HitSteps /\ l \notin KeyHitSteps
        /\ l \in Plain \ {"hitZero"} /\ Removing(pc[p]) = {Key(p)}
        /\ l \notin {"set", "flush", "expiration2", "expireRest", "expire1"}
    BY <1>1 DEF HitSteps, KeyHitSteps, ExpireSteps, Plain, Removing
  <1>3. Moves(p, l)
    BY <1>1, ContinuesOK
  <1>4. LocalOK(pc'[p])
    BY <1>1, ContinuesOK
  <1>5. /\ UNCHANGED <<style, hits, keyhits, timestamps, expirations, found, swept, now, truth, calls, timedout>>
        /\ UNCHANGED config
    BY <1>1 DEF config, meta
  <1>6. cache' \in Maps /\ \A k \in Keys : cache'[k] = IF k \in {Key(p)} THEN None ELSE cache[k]
    BY <1>1, Parts, Gone
  <1>7. /\ floor' \in [Keys -> Nat]
        /\ \A k \in Keys : floor'[k] = IF k = Key(p) THEN (IF Alone THEN truth ELSE 0) ELSE floor[k]
    BY <1>1, Parts
  <1>8. TypeOK'
    BY <1>1, <1>3, <1>5, <1>6, <1>7, Parts, TypeStep
  <1>9. CountInv'
    BY <1>1, <1>2, <1>3, <1>5, <1>8, Parts, CountKeep
  <1>10. VersionInv'
    <2>1. Alone' = Alone
      BY <1>5 DEF Alone, OneCaller, config
    <2>2. ASSUME Alone
          PROVE  /\ \A k \in Keys : floor'[k] <= truth'
                 /\ \A k \in Present(cache)' : floor'[k] <= cache'[k]
                 /\ \A q \in Procs : pc'[q].at # "set"
      <3>1. \A k \in Keys : floor'[k] <= truth'
        BY <1>5, <1>7, <2>2, Parts DEF VersionInv
      <3>2. \A k \in Present(cache)' : floor'[k] <= cache'[k]
        BY <1>6, <1>7, <2>2, Parts DEF VersionInv, Present
      <3>3. \A q \in Procs : pc'[q].at # "set"
        BY <1>1, <1>2, <1>3, <2>2, Parts, OthersIdle DEF Moves
      <3>4. QED
        BY <3>1, <3>2, <3>3
    <2>3. QED
      BY <2>1, <2>2 DEF VersionInv
  <1>11. ASSUME AddsUp(p) PROVE AddsUp(p)'
    <2>1. HitsAddUp(pc[p])'
      <3>1. \A k \in Keys : Count(keyhits'[k]) <= Count(keyhits[k])
        BY <1>5, Parts, CountNat
      <3>2. QED
        BY <1>1, <1>2, <1>3, <1>5, <1>8, <1>11, <3>1, Parts, HitsKeep DEF AddsUp
    <2>2. ExpirationsAddUp(pc[p])'
      BY <1>1, <1>2, <1>3, <1>5, <1>6, <1>8, <1>11, Parts, ExpirationsKeep DEF AddsUp
    <2>3. ServedAddUp(pc[p])'
      <3>1. l = "retrieve" => cache'[pc'[p].key] = None
        BY <1>1, <1>6, Parts, Continues
      <3>2. QED
        BY <1>1, <1>2, <1>3, <1>5, <1>11, <3>1, ServedKeep DEF AddsUp
    <2>4. QED
      BY <2>1, <2>2, <2>3 DEF AddsUp
  <1>12. QED
    BY <1>1, <1>3, <1>4, <1>5, <1>6, <1>8, <1>9, <1>10, <1>11, Assemble DEF Present

LEMMA StepSetValue ==
  ASSUME CacheInv, NEW p \in Procs, SetValue(p)
  PROVE  CacheInv'
  <1>1. /\ pc[p].at = "set" /\ "expiration" \in Labels /\ Goto(p, "expiration")
        /\ cache' = [cache EXCEPT ![Key(p)] = pc[p].val]
        /\ UNCHANGED <<config, available, meta, now, truth, ghosts>>
        /\ Key(p) = pc[p].key /\ pc[p].key \in Keys /\ pc[p].val \in Nat
    BY Parts DEF SetValue, At, Labels, LocalOK
  <1>2. /\ "expiration" \notin HitSteps /\ pc[p].at \notin HitSteps /\ "expiration" \notin KeyHitSteps
        /\ "expiration" \in Plain \ {"hitZero"} /\ "expiration" \notin ExpireSteps
        /\ Removing(pc[p]) = {}
    BY <1>1 DEF HitSteps, KeyHitSteps, ExpireSteps, Plain, Removing
  <1>3. Moves(p, "expiration") /\ pc'[p].key = pc[p].key /\ pc'[p].then = pc[p].then
    BY <1>1, Parts, Goes
  <1>4. LocalOK(pc'[p])
    BY <1>1, <1>3, Parts DEF LocalOK, Moves
  <1>5. /\ UNCHANGED <<style, hits, keyhits, timestamps, expirations, found, swept, now, truth, calls, floor,
                       timedout>>
        /\ UNCHANGED config
    BY <1>1 DEF config, meta, ghosts
  <1>6. cache' \in Maps /\ \A k \in Keys : cache'[k] = IF k = Key(p) THEN pc[p].val ELSE cache[k]
    BY <1>1, Parts DEF Maps, Counts
  <1>7. TypeOK'
    BY <1>1, <1>3, <1>5, <1>6, Parts, TypeStep
  <1>8. CountInv'
    BY <1>1, <1>2, <1>3, <1>5, <1>7, Parts, CountKeep
  <1>9. VersionInv'
    <2>1. Alone' = Alone
      BY <1>5 DEF Alone, OneCaller, config
    <2>2. ASSUME Alone
          PROVE  /\ \A k \in Keys : floor'[k] <= truth'
                 /\ \A k \in Present(cache)' : floor'[k] <= cache'[k]
                 /\ \A q \in Procs : pc'[q].at = "set" => floor'[pc'[q].key] <= pc'[q].val
      <3>1. \A k \in Keys : floor'[k] <= truth'
        BY <1>5, <2>2, Parts DEF VersionInv
      <3>2. \A k \in Present(cache)' : floor'[k] <= cache'[k]
        BY <1>1, <1>5, <1>6, <2>2, Parts DEF VersionInv, Present
      <3>3. \A q \in Procs : pc'[q].at = "set" => floor'[pc'[q].key] <= pc'[q].val
        BY <1>3, <1>5, <2>2, Parts DEF VersionInv, Moves
      <3>4. QED
        BY <3>1, <3>2, <3>3
    <2>3. QED
      BY <2>1, <2>2 DEF VersionInv, Key
  <1>10. ASSUME AddsUp(p) PROVE AddsUp(p)'
    <2>1. HitsAddUp(pc[p])'
      <3>1. \A k \in Keys : Count(keyhits'[k]) <= Count(keyhits[k])
        BY <1>5, Parts, CountNat
      <3>2. QED
        BY <1>1, <1>2, <1>3, <1>5, <1>7, <1>10, <3>1, Parts, HitsKeep DEF AddsUp
    <2>2. ExpirationsAddUp(pc[p])'
      <3>1. Kept(expirations, {}) /\ swept <= now
        BY <1>1, <1>2, <1>10 DEF AddsUp, ExpirationsAddUp
      <3>2. Key(p) \in Removing(pc[p])'
        BY <1>1, <1>3 DEF Removing, Moves
      <3>3. Kept(expirations, Removing(pc[p]))'
        BY <1>5, <1>6, <3>1, <3>2 DEF Kept, Present
      <3>4. QED
        BY <1>3, <1>5, <3>1, <3>3 DEF ExpirationsAddUp, Moves
    <2>3. ServedAddUp(pc[p])'
      BY <1>1, <1>2, <1>3, <1>5, <1>10, Parts, ServedKeep DEF AddsUp
    <2>4. QED
      BY <2>1, <2>2, <2>3 DEF AddsUp
  <1>11. \A k \in Present(cache)' : k \in Present(cache) \cup {Key(p)}
    BY <1>6 DEF Present
  <1>12. QED
    BY <1>1, <1>3, <1>4, <1>5, <1>7, <1>8, <1>9, <1>10, <1>11, Assemble

(* A task is started: there are several processes then, and only the       *)
(* counting is at stake.                                                   *)
LEMMA StepSpawn ==
  ASSUME CacheInv, NEW p \in Procs, NEW l \in {"hit", "set"}, NEW v, NEW then \in {"idle", "compute"},
         Spawn(p, l, v, then),
         style = "background", pc[p].at \in {"retrieve", "compute"},
         l = "hit" => v = None, l = "set" => v \in Nat,
         UNCHANGED <<config, available, cache, meta, now, truth, calls, floor, swept, timedout>>,
         l = "hit" => found' = found + 1, l = "set" => found' = found
  PROVE  CacheInv'
  <1>1. PICK b \in Background :
          /\ At(b, "idle")
          /\ pc' = [pc EXCEPT ![p] = Place(p, then, "idle"),
                              ![b] = [Idle EXCEPT !.at = l, !.key = Key(p), !.val = v]]
    BY DEF Spawn
  <1> DEFINE r == [Idle EXCEPT !.at = l, !.key = Key(p), !.val = v]
             rest == Place(p, then, "idle")
             d == IF l = "hit" THEN 1 ELSE 0
  <1>2. /\ b \in Procs /\ b # p /\ pc[b].at = "idle" /\ pc[p].key \in Keys /\ Key(p) = pc[p].key
        /\ l \in Labels /\ d \in Nat
    BY <1>1, Parts DEF At, Procs, LocalOK, Labels
  <1>3. r \in Locals /\ r.at = l /\ r.key = pc[p].key /\ r.then = "idle" /\ r.val = v
    <2>1. v \in Int \cup {None}
      OBVIOUS
    <2>2. r \in Locals
      BY <1>2, <2>1, NothingType DEF Locals
    <2>3. QED
      BY <1>2, <2>2 DEF Idle
  <1>4. rest \in Locals /\ rest.at = then /\ LocalOK(r) /\ LocalOK(rest)
    <2>1. /\ rest \in Locals /\ rest.at = then /\ rest.then = "idle"
          /\ then # "idle" => rest.key = pc[p].key
      <3>1. {"idle", "compute"} \subseteq Labels
        BY DEF Labels
      <3>2. QED
        BY <3>1, Parts, Placed DEF Idle
    <2>2. QED
      BY <1>2, <1>3, <2>1 DEF LocalOK
  <1> HIDE DEF r, rest
  <1>5. /\ pc' \in [Procs -> Locals] /\ pc'[p] = rest /\ pc'[b] = r
        /\ \A q \in Procs \ {p, b} : pc'[q] = pc[q]
    BY <1>1, <1>2, <1>3, <1>4, Types, Parts DEF r, rest
  <1>6. UNCHANGED <<style, policy, after, active, available, cache, hits, keyhits, timestamps, expirations,
                    now, truth, calls, floor, swept, timedout>>
    BY DEF config, meta
  <1>7. TypeOK'
    BY <1>2, <1>5, <1>6, Parts DEF TypeOK, Locals, Maps
  <1>8. ValuesInv'
    BY <1>3, <1>4, <1>5, <1>6, Parts DEF ValuesInv, Present
  <1>9. /\ l = "hit" => l \in HitSteps /\ l \in KeyHitSteps
        /\ l = "set" => l \notin HitSteps /\ l \notin KeyHitSteps
        /\ then \notin HitSteps /\ then \notin KeyHitSteps
        /\ pc[p].at \notin KeyHitSteps /\ pc[p].at \notin HitSteps
        /\ KeyHitSteps' = KeyHitSteps
    BY <1>6 DEF HitSteps, KeyHitSteps, ExpireSteps
  <1>10. Leeway(d)
    <2>1. CASE l = "hit"
      <3>1. Uncounted' \subseteq Uncounted \cup {b} /\ KeyUncounted' \subseteq KeyUncounted \cup {b}
        BY <1>4, <1>5, <1>9 DEF Uncounted, KeyUncounted
      <3>2. /\ Cardinality(Uncounted') <= Cardinality(Uncounted) + 1
            /\ \A q : Cardinality(Uncounted' \ {q}) <= Cardinality(Uncounted \ {q}) + 1
        BY <1>7, <3>1, OneMore, Parts, Counters, Counts2
      <3>3. /\ Cardinality(KeyUncounted') <= Cardinality(KeyUncounted) + 1
            /\ \A q : Cardinality(KeyUncounted' \ {q}) <= Cardinality(KeyUncounted \ {q}) + 1
        BY <1>7, <3>1, OneMore, Parts, Counters, Counts2
      <3>4. QED
        BY <2>1, <3>2, <3>3 DEF Leeway
    <2>2. CASE l = "set"
      <3>1. Uncounted' = Uncounted /\ KeyUncounted' = KeyUncounted
        <4>1. \A q \in Procs : /\ pc'[q].at \in HitSteps <=> pc[q].at \in HitSteps
                               /\ pc'[q].at \in KeyHitSteps <=> pc[q].at \in KeyHitSteps
          <5>1. pc[b].at \notin HitSteps /\ pc[b].at \notin KeyHitSteps
            BY <1>2 DEF HitSteps, KeyHitSteps, ExpireSteps
          <5>2. QED
            BY <1>3, <1>4, <1>5, <1>9, <2>2, <5>1
        <4>2. QED
          BY <1>9, <4>1 DEF Uncounted, KeyUncounted
      <3>2. \A q \in Procs : Uncounted \ {q} \in SUBSET Procs /\ KeyUncounted \ {q} \in SUBSET Procs
        BY Parts, Counters
      <3>3. \A S \in SUBSET Procs : Cardinality(S) <= Cardinality(S) + 0
        BY Cards
      <3>4. QED
        BY <2>2, <3>1, <3>2, <3>3, Parts, Counters DEF Leeway
    <2>3. QED
      BY <2>1, <2>2
  <1>11. CountInv'
    <2>1. Count(hits') + Cardinality(Uncounted') <= found'
      <3>1. /\ Count(hits) + Cardinality(Uncounted) <= found
            /\ Cardinality(Uncounted') <= Cardinality(Uncounted) + d /\ found' = found + d
        BY <1>10, Parts DEF CountInv, Leeway
      <3>2. /\ Cardinality(Uncounted) \in Nat /\ Cardinality(Uncounted') \in Nat
            /\ found \in Nat /\ Count(hits) \in Nat
        BY <1>7, Parts, Counters, Counts2
      <3> HIDE DEF d
      <3>3. QED
        BY <1>2, <1>6, <3>1, <3>2
    <2>2. Covers(keyhits, KeyUncounted)'
      <3>1. Covers(keyhits, KeyUncounted) /\ \A k \in Keys : Count(keyhits[k]) <= Count(keyhits[k])
        BY Parts, CountNat DEF CountInv
      <3> HIDE DEF d
      <3>2. \A k \in Keys : Count(keyhits[k]) + Cardinality(KeyUncounted') <= found'
        <4> DEFINE f == keyhits
        <4>1. f \in Maps /\ Covers(f, KeyUncounted)
          BY <3>1, Parts
        <4> HIDE DEF f
        <4>2. \A k \in Keys : Count(f[k]) + Cardinality(KeyUncounted') <= found'
          BY <1>2, <1>7, <1>10, <4>1, Parts, CountNat, Counters, Counts2 DEF Leeway, Covers
        <4>3. QED
          BY <4>2 DEF f
      <3>3. QED
        BY <1>6, <3>2 DEF Covers
    <2>3. \A q \in Procs \ {p, b} : CountsLocal(q)'
      BY <1>2, <1>5, <1>7, <1>10, Parts, CountOthers
    <2>4. CountsLocal(p)' /\ CountsLocal(b)'
      BY <1>2, <1>3, <1>4, <1>5 DEF CountsLocal
    <2>5. QED
      BY <2>1, <2>2, <2>3, <2>4 DEF CountInv
  <1>12. QuietInv' /\ VersionInv' /\ AloneInv'
    BY <1>6 DEF QuietInv, VersionInv, AloneInv, Alone
  <1>13. QED
    BY <1>7, <1>8, <1>11, <1>12 DEF CacheInv

LEMMA StepRetrieve ==
  ASSUME CacheInv, NEW p \in Procs, Retrieve(p)
  PROVE  CacheInv'
  <1>1. /\ pc[p].at = "retrieve" /\ {"compute", "hit"} \subseteq Labels
        /\ UNCHANGED <<config, available, cache, meta, now, truth, calls, floor, swept, timedout>>
        /\ Key(p) = pc[p].key
    BY Parts DEF Retrieve, At, Labels
  <1>2. /\ pc[p].at \notin HitSteps /\ pc[p].at \notin KeyHitSteps /\ Removing(pc[p]) = {}
        /\ "compute" \notin HitSteps /\ "compute" \notin KeyHitSteps
        /\ "hit" \in HitSteps /\ "hit" \in KeyHitSteps
        /\ "compute" \in Plain \ {"hitZero", "set", "expiration2", "expireRest", "retrieve"}
        /\ "hit" \in Plain \ {"hitZero"}
    BY <1>1 DEF HitSteps, KeyHitSteps, ExpireSteps, Plain, Removing
  <1>3. CASE Continue(p, "compute") /\ UNCHANGED found
    <2>1. Moves(p, "compute")
      BY <1>1, <1>3, ContinuesOK
    <2>2. LocalOK(pc'[p])
      BY <1>1, <1>3, ContinuesOK
    <2>3. UNCHANGED <<config, available, cache, meta, now, truth, ghosts>>
      BY <1>1, <1>3 DEF ghosts
    <2>4. QED
      BY <1>1, <1>2, <2>1, <2>2, <2>3, PlainStep
  <1>4. ASSUME NEW then \in {"idle", "compute"}, style = "background", found' = found + 1,
               Spawn(p, "hit", None, then)
        PROVE  CacheInv'
    BY <1>1, <1>4, StepSpawn
  <1>5. ASSUME NEW then \in {"idle", "compute"}, cache[Key(p)] # None, found' = found + 1,
               pc' = [pc EXCEPT ![p] = Place(p, "hit", then)]
        PROVE  CacheInv'
    <2> DEFINE r == Place(p, "hit", then)
    <2>1. r \in Locals /\ r.at = "hit" /\ r.key = pc[p].key /\ r.then = then
      <3>1. {"idle", "compute"} \subseteq Labels
        BY DEF Labels
      <3>2. QED
        BY <1>1, <3>1, Parts, Placed
    <2>2. LocalOK(r)
      BY <1>1, <2>1, Parts DEF LocalOK
    <2>11. pc' = [pc EXCEPT ![p] = r]
      BY <1>5
    <2> HIDE DEF r
    <2>10. Moves(p, "hit") /\ LocalOK(pc'[p])
      <3>1. Moves(p, r.at) /\ pc'[p] = r
        BY <2>1, <2>11, Parts, Settles
      <3>2. QED
        BY <2>1, <2>2, <3>1
    <2>3. /\ UNCHANGED <<style, hits, keyhits, timestamps, expirations, cache, swept, now, truth, calls, floor,
                         timedout>>
          /\ UNCHANGED config
      BY <1>1 DEF config, meta
    <2>4. TypeOK'
      BY <1>1, <1>5, <2>10, <2>3, Parts, TypeStep
    <2>5. Leeway(1)
      <3>1. KeyHitSteps' = KeyHitSteps
        BY <2>3 DEF KeyHitSteps
      <3>2. Uncounted' \subseteq Uncounted \cup {p} /\ KeyUncounted' \subseteq KeyUncounted \cup {p}
        BY <2>10, <3>1 DEF Uncounted, KeyUncounted, Moves
      <3>3. /\ Cardinality(Uncounted') <= Cardinality(Uncounted) + 1
            /\ \A q : Cardinality(Uncounted' \ {q}) <= Cardinality(Uncounted \ {q}) + 1
        BY <2>4, <3>2, OneMore, Parts, Counters, Counts2
      <3>4. /\ Cardinality(KeyUncounted') <= Cardinality(KeyUncounted) + 1
            /\ \A q : Cardinality(KeyUncounted' \ {q}) <= Cardinality(KeyUncounted \ {q}) + 1
        BY <2>4, <3>2, OneMore, Parts, Counters, Counts2
      <3>5. QED
        BY <1>5, <3>3, <3>4 DEF Leeway
    <2>6. CountInv'
      <3>1. Count(hits') + Cardinality(Uncounted') <= found'
        <4>1. /\ Count(hits) + Cardinality(Uncounted) <= found
              /\ Cardinality(Uncounted') <= Cardinality(Uncounted) + 1
          BY <2>5, Parts DEF CountInv, Leeway
        <4>2. /\ Cardinality(Uncounted) \in Nat /\ Cardinality(Uncounted') \in Nat
              /\ found \in Nat /\ Count(hits) \in Nat
          BY <2>4, Parts, Counters, Counts2
        <4>3. QED
          BY <1>5, <2>3, <4>1, <4>2
      <3>2. \A k \in Keys : Count(keyhits[k]) + Cardinality(KeyUncounted') <= found'
        <4> DEFINE f == keyhits
        <4>1. f \in Maps /\ Covers(f, KeyUncounted)
          BY Parts DEF CountInv
        <4> HIDE DEF f
        <4>2. \A k \in Keys : Count(f[k]) + Cardinality(KeyUncounted') <= found'
          BY <2>4, <2>5, <4>1, Parts, CountNat, Counters, Counts2 DEF Leeway, Covers
        <4>3. QED
          BY <4>2 DEF f
      <3>3. \A q \in Procs \ {p} : CountsLocal(q)'
        BY <2>10, <2>4, <2>5, Parts, CountOthers DEF Moves
      <3>4. CountsLocal(p)'
        BY <2>10 DEF CountsLocal, Moves
      <3>5. QED
        BY <2>3, <3>1, <3>2, <3>3, <3>4 DEF CountInv, Covers
    <2>7. VersionInv'
      BY <1>1, <2>10, <2>3, Parts, VersionKeep
    <2>8. ASSUME AddsUp(p) PROVE AddsUp(p)'
      <3>1. HitsAddUp(pc[p])'
        <4>1. \A k \in Keys : Count(keyhits'[k]) <= Count(keyhits[k])
          BY <2>3, Parts, CountNat
        <4>2. QED
          BY <1>1, <1>2, <2>10, <2>3, <2>4, <2>8, <4>1, Parts, HitsKeep DEF AddsUp
      <3>2. ExpirationsAddUp(pc[p])'
        BY <1>1, <1>2, <2>10, <2>3, <2>4, <2>8, Parts, ExpirationsKeep DEF AddsUp
      <3>3. ServedAddUp(pc[p])'
        <4>1. style = "async" /\ after # None => /\ found = NumHits /\ NumHits < after /\ after \in Nat
          <5>1. after # None => after \in Nat
            BY Parts, AfterAssumption DEF TypeOK
          <5>2. ServedAddUp(pc[p])
            BY <2>8 DEF AddsUp
          <5>3. cache[pc[p].key] # None
            BY <1>1, <1>5
          <5>4. QED
            BY <1>1, <1>2, <5>1, <5>2, <5>3, Parts DEF ServedAddUp
        <4>2. NumHits' = NumHits
          BY <2>3 DEF NumHits
        <4>3. QED
          BY <1>2, <1>5, <2>10, <2>3, <4>1, <4>2, Parts DEF ServedAddUp, Moves, config
      <3>4. QED
        BY <3>1, <3>2, <3>3 DEF AddsUp
    <2>9. QED
      BY <1>1, <2>10, <2>2, <2>3, <2>4, <2>6, <2>7, <2>8, Assemble DEF Present
  <1>6. QED
    BY <1>3, <1>4, <1>5 DEF Retrieve, Hit

LEMMA StepCompute ==
  ASSUME CacheInv, NEW p \in Procs, Compute(p)
  PROVE  CacheInv'
  <1>1. /\ pc[p].at = "compute" /\ {"idle", "set"} \subseteq Labels /\ pc[p] \in Locals
        /\ UNCHANGED <<config, available, cache, meta, now, truth, ghosts>>
        /\ UNCHANGED <<style, hits, keyhits, timestamps, expirations, cache, swept, now, truth, calls, found,
                       floor, timedout>>
        /\ UNCHANGED config
        /\ truth \in Nat
    BY Parts DEF Compute, At, Labels, config, meta, ghosts
  <1>2. /\ pc[p].at \notin HitSteps /\ pc[p].at \notin KeyHitSteps /\ Removing(pc[p]) = {}
        /\ "idle" \notin HitSteps /\ "idle" \notin KeyHitSteps
        /\ "set" \notin HitSteps /\ "set" \notin KeyHitSteps /\ "set" \in Plain \ {"hitZero"}
        /\ "idle" \in Plain \ {"hitZero", "set", "expiration2", "expireRest", "retrieve"}
    BY <1>1 DEF HitSteps, KeyHitSteps, ExpireSteps, Plain, Removing
  <1>3. CASE Return(p)
    <2>1. Moves(p, "idle") /\ LocalOK(pc'[p])
      BY <1>3, Parts, Returns DEF LocalOK, Idle
    <2>2. QED
      BY <1>1, <1>2, <2>1, PlainStep
  <1>4. CASE style = "background" /\ Spawn(p, "set", truth, "idle")
    <2>1. /\ found' = found
          /\ UNCHANGED <<config, available, cache, meta, now, truth, calls, floor, swept, timedout>>
      BY <1>1, Parts
    <2>2. QED
      BY <1>1, <1>4, <2>1, StepSpawn
  <1>5. CASE pc' = [pc EXCEPT ![p].at = "set", ![p].val = truth]
    <2> DEFINE r == [pc[p] EXCEPT !.at = "set", !.val = truth]
    <2>1. pc' = [pc EXCEPT ![p] = r]
      BY <1>5
    <2>2. r \in Locals /\ r.at = "set" /\ r.key = pc[p].key /\ r.then = pc[p].then /\ r.val = truth
      <3>1. truth \in Int \cup {None}
        BY <1>1
      <3>2. QED
        BY <1>1, <3>1 DEF Locals
    <2>3. LocalOK(r)
      BY <1>1, <2>2, Parts DEF LocalOK
    <2> HIDE DEF r
    <2>4. Moves(p, "set") /\ LocalOK(pc'[p]) /\ pc'[p].val = truth /\ pc'[p].key \in Keys
      <3>1. pc[p].key \in Keys
        BY <1>1, Parts DEF LocalOK
      <3>2. Moves(p, r.at) /\ pc'[p] = r
        BY <2>1, <2>2, Parts, Settles
      <3>3. QED
        BY <2>2, <2>3, <3>1, <3>2
    <2>5. TypeOK'
      BY <1>1, <2>4, Parts, TypeSame
    <2>6. CountInv'
      BY <1>1, <1>2, <2>4, <2>5, Parts, CountKeep
    <2>7. VersionInv'
      BY <1>1, <2>4, Parts DEF VersionInv, Alone, OneCaller, config, Moves, Present, Key
    <2>8. ASSUME AddsUp(p) PROVE AddsUp(p)'
      <3>1. HitsAddUp(pc[p])'
        <4>1. \A k \in Keys : Count(keyhits'[k]) <= Count(keyhits[k])
          BY <1>1, Parts, CountNat
        <4>2. QED
          BY <1>1, <1>2, <2>4, <2>5, <2>8, <4>1, Parts, HitsKeep DEF AddsUp
      <3>2. ExpirationsAddUp(pc[p])'
        BY <1>1, <1>2, <2>4, <2>5, <2>8, Parts, ExpirationsKeep DEF AddsUp
      <3>3. ServedAddUp(pc[p])'
        BY <1>1, <1>2, <2>4, <2>8, ServedKeep DEF AddsUp
      <3>4. QED
        BY <3>1, <3>2, <3>3 DEF AddsUp
    <2>9. QED
      BY <1>1, <2>4, <2>5, <2>6, <2>7, <2>8, Assemble DEF Present
  <1>6. QED
    BY <1>3, <1>4, <1>5 DEF Compute

LEMMA StepClearData ==
  ASSUME CacheInv, NEW p \in Procs, At(p, "clear"), ClearAll(p)
  PROVE  CacheInv'
  <1>1. /\ pc[p].at = "clear" /\ "clear2" \in Labels /\ Goto(p, "clear2")
        /\ hits' = None /\ keyhits' = Nothing /\ timestamps' = Nothing /\ expirations' = Nothing
        /\ found' = IF Alone THEN 0 ELSE found
        /\ UNCHANGED <<config, available, cache, now, truth, calls, floor, swept, timedout>>
    BY DEF ClearAll, At, Labels
  <1>2. /\ "clear2" \notin HitSteps /\ "clear2" \notin KeyHitSteps /\ "clear2" \in Plain
        /\ pc[p].at \notin HitSteps /\ pc[p].at \notin KeyHitSteps
        /\ "idle" \notin HitSteps /\ "idle" \notin KeyHitSteps
    BY <1>1 DEF HitSteps, KeyHitSteps, ExpireSteps, Plain
  <1>3. Moves(p, "clear2") /\ pc'[p].key = pc[p].key /\ pc'[p].then = pc[p].then
    BY <1>1, Parts, Goes
  <1>4. LocalOK(pc'[p])
    BY <1>1, <1>3, Parts DEF LocalOK, Moves
  <1>5. /\ UNCHANGED <<style, cache, swept, now, truth, calls, floor, timedout>>
        /\ UNCHANGED config
    BY <1>1 DEF config
  <1>6. /\ Count(hits') = 0 /\ NumHits' = 0 /\ hits' \in Counts
        /\ \A k \in Keys : Count(keyhits'[k]) = 0
        /\ keyhits' \in Maps /\ timestamps' \in Maps /\ expirations' \in Maps /\ found' \in Nat
    BY <1>1, NothingType, Parts DEF Count, NumHits, Counts
  <1>7. TypeOK'
    BY <1>1, <1>3, <1>5, <1>6, Parts, TypeStep
  <1>8. CountInv'
    <2>1. CASE Alone
      <3>1. \A q \in Procs : pc'[q].at \in {"idle", "clear2"}
        BY <1>1, <1>3, <2>1, Parts, OthersIdle DEF Moves
      <3>2. KeyHitSteps' = KeyHitSteps
        BY <1>5 DEF KeyHitSteps
      <3>3. Uncounted' = {} /\ KeyUncounted' = {}
        BY <1>2, <3>1, <3>2 DEF Uncounted, KeyUncounted
      <3>4. found' = 0 /\ Cardinality(Uncounted') = 0 /\ Cardinality(KeyUncounted') = 0
        BY <1>1, <2>1, <3>3, FS_EmptySet
      <3>5. \A q \in Procs : CountsLocal(q)'
        BY <3>1 DEF CountsLocal
      <3>6. QED
        BY <1>6, <3>4, <3>5 DEF CountInv, Covers
    <2>2. CASE ~Alone
      <3>1. found' = found
        BY <1>1, <2>2
      <3>2. Leeway(0)
        BY <1>1, <1>2, <1>3, <1>5, <1>7, <3>1, Parts, LeewayMoves
      <3>3. Count(hits') + Cardinality(Uncounted') <= found
        <4>1. /\ Count(hits) + Cardinality(Uncounted) <= found
              /\ Cardinality(Uncounted') <= Cardinality(Uncounted) + 0
          BY <3>2, Parts DEF CountInv, Leeway
        <4>2. /\ Cardinality(Uncounted) \in Nat /\ Cardinality(Uncounted') \in Nat
              /\ found \in Nat /\ Count(hits) \in Nat
          BY <1>7, Parts, Counters, Counts2
        <4>3. QED
          BY <1>6, <4>1, <4>2
      <3>4. /\ keyhits \in Maps /\ Covers(keyhits, KeyUncounted)
            /\ \A k \in Keys : Count(keyhits'[k]) <= Count(keyhits[k])
        BY <1>6, Parts, CountNat DEF CountInv
      <3>5. QED
        BY <1>1, <1>2, <1>3, <1>5, <1>7, <3>1, <3>3, <3>4, Parts, CountWrite
    <2>3. QED
      BY <2>1, <2>2
  <1>9. VersionInv'
    BY <1>1, <1>3, <1>5, Parts, VersionKeep
  <1>10. ASSUME Solo(p), AddsUp(p) PROVE AddsUp(p)'
    <2>1. Alone
      BY <1>10, Parts DEF Solo, Alone, OneCaller, TypeOK
    <2>2. HitsAddUp(pc[p])'
      <3>1. \A k \in Keys : Count(keyhits'[k]) + 0 <= NumHits'
        BY <1>6
      <3>2. "clear2" \notin KeyHitSteps'
        BY <1>2, <1>5 DEF KeyHitSteps
      <3>3. QED
        BY <1>3, <3>1, <3>2 DEF HitsAddUp, Moves
    <2>3. ExpirationsAddUp(pc[p])'
      <3>1. Removing(pc[p])' = Keys
        BY <1>3 DEF Removing, Moves
      <3>2. Kept(expirations, Removing(pc[p]))'
        BY <3>1 DEF Kept, Present
      <3>3. QED
        BY <1>3, <1>5, <1>10, <3>2 DEF AddsUp, ExpirationsAddUp, Moves
    <2>4. ServedAddUp(pc[p])'
      <3>1. after # None => after \in Nat
        BY Parts, AfterAssumption DEF TypeOK
      <3>2. found' = 0
        BY <1>1, <2>1
      <3>3. QED
        BY <1>2, <1>3, <1>5, <1>6, <3>1, <3>2 DEF ServedAddUp, Moves, config
    <2>5. QED
      BY <2>2, <2>3, <2>4 DEF AddsUp
  <1>11. QED
    BY <1>1, <1>3, <1>4, <1>5, <1>7, <1>8, <1>9, <1>10, Assemble DEF Present

LEMMA StepClearCache ==
  ASSUME CacheInv, NEW p \in Procs, At(p, "clear2"), ClearAll(p)
  PROVE  CacheInv'
  <1> DEFINE l == pc[p].then
  <1>1. /\ pc[p].at = "clear2" /\ l \in {"idle", "compute"} /\ l \in Labels /\ Continue(p, l)
        /\ cache' = Nothing
        /\ UNCHANGED <<config, available, hits, keyhits, timestamps, expirations, now, truth, calls, found,
                       floor, swept, timedout>>
    BY Parts DEF ClearAll, At, LocalOK, Labels, meta, ghosts
  <1> HIDE DEF l
  <1>7. l = "idle" \/ pc[p].then # "idle"
    BY DEF l
  <1>2. Moves(p, l) /\ LocalOK(pc'[p])
    BY <1>1, <1>7, ContinuesOK
  <1>3. cache' \in Maps /\ \A k \in Keys : cache'[k] = None
    BY <1>1, NothingType
  <1>4. /\ l \notin KeyHitSteps /\ l \notin HitSteps /\ pc[p].at \notin HitSteps
        /\ l \in Plain \ {"hitZero", "set", "retrieve"}
    BY <1>1 DEF KeyHitSteps, HitSteps, ExpireSteps, Plain
  <1>5. ASSUME AddsUp(p) PROVE ExpirationsAddUp(pc[p])'
    <2>1. Kept(expirations, Removing(pc[p]))'
      BY <1>3 DEF Kept, Present
    <2>2. QED
      BY <1>1, <1>2, <1>4, <1>5, <2>1 DEF AddsUp, ExpirationsAddUp, Moves
  <1>6. timestamps' \in Maps /\ expirations' \in Maps /\ swept' \in Nat
    BY <1>1, Parts
  <1>8. QED
    BY <1>1, <1>2, <1>3, <1>4, <1>5, <1>6, StoreStep

(* An operation is cut off: what it was about to count stays uncounted.    *)
LEMMA StepTimeout ==
  ASSUME CacheInv, NEW p \in Procs, Timeout(p)
  PROVE  CacheInv'
  <1> DEFINE l == Resume(pc[p].at, p)
  <1>1. /\ pc[p].at \in Labels \ {"idle", "compute"} /\ Continue(p, l) /\ timedout' = TRUE
        /\ UNCHANGED <<config, available, cache, meta, now, truth, calls, found, floor, swept>>
    BY Parts DEF Timeout, Locals
  <1>2. /\ l \in {"idle", "retrieve", "compute", "expire", "keyhit", "timestamp", "size"}
        /\ l = "idle" \/ pc[p].then # "idle" \/ pc[p].at \notin {"clear", "clear2"}
        /\ l \in {"idle", "retrieve", "compute"} \/ pc[p].at \notin {"invalidate", "flush", "delete"}
    BY <1>1, Parts DEF Resume, LocalOK, Counting, AfterKeyHit, AfterTimestamp
  <1>3. /\ l \notin HitSteps /\ l \in Plain /\ l \in Labels /\ l # "set"
    BY <1>2 DEF HitSteps, Plain, Labels
  <1>4. l \in KeyHitSteps => pc[p].at \in KeyHitSteps
    BY <1>1, Parts
       DEF Resume, LocalOK, Counting, AfterKeyHit, AfterTimestamp, KeyHitSteps, HitSteps, ExpireSteps
  <1> HIDE DEF l
  <1>5. Moves(p, l)
    BY <1>1, <1>2, <1>3, ContinuesOK
  <1>6. LocalOK(pc'[p])
    BY <1>1, <1>2, <1>3, ContinuesOK
  <1>7. /\ UNCHANGED <<style, hits, keyhits, timestamps, expirations, cache, swept, now, truth, calls, found,
                       floor>>
        /\ UNCHANGED config
    BY <1>1 DEF config, meta
  <1>8. TypeOK'
    BY <1>1, <1>3, <1>5, <1>7, Parts, TypeStep
  <1>9. CountInv' /\ VersionInv' /\ QuietInv'
    BY <1>1, <1>3, <1>4, <1>5, <1>7, <1>8, Parts, CountKeep, VersionKeep, QuietKeep
  <1>10. ValuesInv'
    BY <1>5, <1>6, <1>7, Parts DEF ValuesInv, Moves, Present
  <1>11. AloneInv'
    BY <1>1 DEF AloneInv
  <1>12. QED
    BY <1>8, <1>9, <1>10, <1>11 DEF CacheInv

(***************************************************************************)
(* The steps: the beginning of a call, and the world outside               *)
(***************************************************************************)
LEMMA BeginStep ==
  ASSUME CacheInv, NEW c \in Callers, Begin(c), NEW r \in Locals, pc' = [pc EXCEPT ![c] = r],
         r.at \in {"invalidate", "retrieve", "compute", "clear"}, LocalOK(r),
         UNCHANGED <<config, available, cache, meta, now, truth, found, floor, swept, timedout>>,
         r.at = "retrieve" => ~(style = "async" /\ after # None) \/ NumHits < after
  PROVE  CacheInv'
  <1> DEFINE l == r.at
  <1>1. /\ c \in Procs /\ c \in active /\ pc[c].at = "idle" /\ calls' = calls + 1
        /\ l \in {"invalidate", "retrieve", "compute", "clear"} /\ l \in Labels
    BY DEF Begin, At, Procs, Labels
  <1> HIDE DEF l
  <1>2. Moves(c, l) /\ pc'[c] = r
    BY <1>1, Parts, Settles DEF l
  <1>3. /\ UNCHANGED <<style, hits, keyhits, timestamps, expirations, cache, swept, now, truth, found,
                       floor, timedout>>
        /\ UNCHANGED config
    BY DEF config, meta
  <1>4. /\ l \notin HitSteps /\ l \notin KeyHitSteps /\ pc[c].at \notin HitSteps
        /\ l \in Plain \ {"hitZero"} /\ l \notin {"set", "flush", "expiration2", "expireRest", "expire1"}
        /\ Removing(pc[c]) = {}
    BY <1>1 DEF HitSteps, KeyHitSteps, ExpireSteps, Plain, Removing
  <1>5. TypeOK'
    BY <1>1, <1>2, <1>3, Parts, TypeStep
  <1>6. CountInv'
    BY <1>1, <1>2, <1>3, <1>4, <1>5, Parts, CountKeep
  <1>7. VersionInv'
    BY <1>1, <1>2, <1>3, <1>4, Parts, VersionKeep
  <1>8. ASSUME AddsUp(c) PROVE AddsUp(c)'
    <2>1. HitsAddUp(pc[c])'
      <3>1. \A k \in Keys : Count(keyhits'[k]) <= Count(keyhits[k])
        BY <1>3, Parts, CountNat
      <3>2. QED
        BY <1>1, <1>2, <1>3, <1>4, <1>5, <1>8, <3>1, Parts, HitsKeep DEF AddsUp
    <2>2. ExpirationsAddUp(pc[c])'
      BY <1>1, <1>2, <1>3, <1>4, <1>5, <1>8, Parts, ExpirationsKeep DEF AddsUp
    <2>3. ServedAddUp(pc[c])'
      BY <1>1, <1>2, <1>3, <1>4, <1>8, ServedKeep DEF AddsUp, l
    <2>4. QED
      BY <2>1, <2>2, <2>3 DEF AddsUp
  <1>9. QED
    BY <1>1, <1>2, <1>3, <1>5, <1>6, <1>7, <1>8, Assemble DEF Present

LEMMA StepCall ==
  ASSUME CacheInv, NEW c \in Callers, NEW k \in Keys, Call(c, k)
  PROVE  CacheInv'
  <1>1. PICK kw \in CacheKwargs :
          LET look == IF ShouldOverwrite(kw) THEN "compute" ELSE "retrieve"
          IN pc' = [pc EXCEPT ![c] = [Idle EXCEPT
                      !.at = IF ShouldInvalidate(kw) THEN "invalidate" ELSE look,
                      !.then = IF ShouldInvalidate(kw) THEN look ELSE "idle", !.key = k]]
    BY DEF Call
  <1> DEFINE look == IF ShouldOverwrite(kw) THEN "compute" ELSE "retrieve"
             l == IF ShouldInvalidate(kw) THEN "invalidate" ELSE look
             then == IF ShouldInvalidate(kw) THEN look ELSE "idle"
             r == [Idle EXCEPT !.at = l, !.then = then, !.key = k]
  <1>2. /\ l \in {"invalidate", "retrieve", "compute"} /\ then \in {"idle", "retrieve", "compute"}
        /\ l # "invalidate" => then = "idle"
        /\ l \in Labels /\ then \in Labels
    BY DEF CacheKwargs, Labels
  <1>3. l = "retrieve" => ~(style = "async" /\ after # None) \/ NumHits < after
    <2>1. CASE l # "retrieve"
      BY <2>1
    <2>2. CASE l = "retrieve" /\ style = "async" /\ after # None
      <3>1. after \in Nat
        BY <2>2, Parts, AfterAssumption DEF TypeOK
      <3>2. ~(NumHits >= after)
        BY <2>2 DEF ShouldInvalidate
      <3>3. QED
        BY <3>1, <3>2, Parts
    <2>3. QED
      BY <2>1, <2>2
  <1>4. pc' = [pc EXCEPT ![c] = r]
    BY <1>1
  <1> HIDE DEF l, look, then
  <1>5. r \in Locals
    BY <1>2, NothingType DEF Locals
  <1>6. r.at = l /\ r.then = then /\ r.key = k
    BY <1>2, <1>5 DEF Idle
  <1>7. LocalOK(r)
    BY <1>2, <1>6 DEF LocalOK
  <1>8. Begin(c) /\ UNCHANGED <<config, available, cache, meta, now, truth, found, floor, swept, timedout>>
    BY DEF Call
  <1> HIDE DEF r
  <1>9. QED
    BY <1>2, <1>3, <1>4, <1>5, <1>6, <1>7, <1>8, BeginStep

LEMMA StepInvalidateKey ==
  ASSUME CacheInv, NEW c \in Callers, NEW k \in Keys, InvalidateKey(c, k)
  PROVE  CacheInv'
  <1> DEFINE r == [Idle EXCEPT !.at = "invalidate", !.key = k]
  <1>1. "invalidate" \in Labels
    BY DEF Labels
  <1>2. r \in Locals
    BY <1>1, NothingType DEF Locals
  <1>3. r.at = "invalidate" /\ r.key = k /\ r.then = "idle"
    BY DEF Idle
  <1>4. LocalOK(r)
    BY <1>3 DEF LocalOK
  <1>5. /\ pc' = [pc EXCEPT ![c] = r] /\ Begin(c)
        /\ UNCHANGED <<config, available, cache, meta, now, truth, found, floor, swept, timedout>>
    BY DEF InvalidateKey
  <1> HIDE DEF r
  <1>6. QED
    BY <1>2, <1>3, <1>4, <1>5, BeginStep

LEMMA StepClear ==
  ASSUME CacheInv, NEW c \in Callers, Clear(c)
  PROVE  CacheInv'
  <1> DEFINE r == [Idle EXCEPT !.at = "clear"]
  <1>1. "clear" \in Labels
    BY DEF Labels
  <1>2. r \in Locals
    BY <1>1, NothingType DEF Locals
  <1>3. r.at = "clear" /\ r.then = "idle"
    BY DEF Idle
  <1>4. LocalOK(r)
    BY <1>3 DEF LocalOK
  <1>5. /\ pc' = [pc EXCEPT ![c] = r] /\ Begin(c)
        /\ UNCHANGED <<config, available, cache, meta, now, truth, found, floor, swept, timedout>>
    BY DEF Clear
  <1> HIDE DEF r
  <1>6. QED
    BY <1>2, <1>3, <1>4, <1>5, BeginStep

(* A step that leaves the processes, the cache and its records alone.      *)
LEMMA StepOutside ==
  ASSUME CacheInv, UNCHANGED <<config, available, cache, meta, pc, found, floor, swept, timedout>>,
         now' \in Nat, truth' \in Nat, calls' \in Nat, now' >= now, truth' >= truth
  PROVE  CacheInv'
  <1>1. /\ UNCHANGED <<style, policy, after, active, available, cache, hits, keyhits, timestamps, expirations,
                       pc, found, floor, swept, timedout>>
    BY DEF config, meta
  <1>2. TypeOK'
    BY <1>1, Parts DEF TypeOK
  <1>3. ValuesInv'
    BY <1>1, Parts DEF ValuesInv, Present
  <1>4. CountInv'
    BY <1>1, Parts DEF CountInv, CountsLocal, Covers, Uncounted, KeyUncounted, KeyHitSteps
  <1>5. QuietInv'
    BY <1>1, Parts DEF QuietInv, Alone, OneCaller
  <1>6. VersionInv'
    <2>1. Alone' = Alone
      BY <1>1 DEF Alone, OneCaller
    <2>2. Alone => \A k \in Keys : floor'[k] <= truth'
      BY <1>1, Parts DEF VersionInv
    <2>3. QED
      BY <1>1, <2>1, <2>2, Parts DEF VersionInv, Present, Key
  <1>7. AloneInv'
    <2> SUFFICES ASSUME ~timedout', NEW c \in Procs, active' = {c}, style' # "background"
                 PROVE  HitsAddUp(pc[c])' /\ ExpirationsAddUp(pc[c])' /\ ServedAddUp(pc[c])'
      BY DEF AloneInv
    <2>1. HitsAddUp(pc[c]) /\ ExpirationsAddUp(pc[c]) /\ ServedAddUp(pc[c])
      BY <1>1, Parts DEF AloneInv
    <2>2. HitsAddUp(pc[c])'
      BY <1>1, <2>1 DEF HitsAddUp, NumHits, KeyHitSteps
    <2>3. ExpirationsAddUp(pc[c])'
      <3>1. swept' <= now'
        BY <1>1, <2>1, Parts DEF ExpirationsAddUp
      <3>2. QED
        BY <1>1, <2>1, <3>1 DEF ExpirationsAddUp, Kept, Present, Removing
    <2>4. ServedAddUp(pc[c])'
      BY <1>1, <2>1 DEF ServedAddUp, NumHits
    <2>5. QED
      BY <2>2, <2>3, <2>4
  <1>8. QED
    BY <1>2, <1>3, <1>4, <1>5, <1>6, <1>7 DEF CacheInv

(***************************************************************************)
(* The theorems                                                            *)
(***************************************************************************)
LEMMA InitCache ==
  ASSUME Init
  PROVE  CacheInv
  <1>1. /\ \A p \in Procs : pc[p] = Idle
        /\ cache = Nothing /\ keyhits = Nothing /\ timestamps = Nothing /\ expirations = Nothing
        /\ hits = None /\ now = 0 /\ truth = 0 /\ calls = 0 /\ found = 0 /\ swept = 0
        /\ floor = [k \in Keys |-> 0] /\ timedout = FALSE
    BY DEF Init
  <1>2. after \in Afters \cup {None} /\ active \subseteq Callers
    BY DEF Init
  <1>3. TypeOK
    <2>1. pc \in [Procs -> Locals]
      BY NothingType DEF Init
    <2>2. hits \in Counts /\ floor \in [Keys -> Nat]
      BY <1>1 DEF Counts
    <2>3. style \in Styles /\ policy \in Policies /\ available \in BOOLEAN /\ timedout \in BOOLEAN
      BY <1>1 DEF Init
    <2>4. QED
      BY <1>1, <1>2, <2>1, <2>2, <2>3, NothingType DEF TypeOK, Locals, Maps
  <1>4. /\ \A p \in Procs : pc[p].at = "idle"
        /\ Present(cache) = {} /\ Count(hits) = 0 /\ NumHits = 0
        /\ \A k \in Keys : Count(keyhits[k]) = 0
    BY <1>1, NothingType DEF Idle, Present, Count, NumHits
  <1>5. "idle" \notin HitSteps /\ "idle" \notin KeyHitSteps
    BY DEF HitSteps, KeyHitSteps, ExpireSteps
  <1>6. ValuesInv
    BY <1>1, <1>4, FS_EmptySet DEF ValuesInv, LocalOK, Idle
  <1>7. CountInv
    <2>1. Uncounted = {} /\ KeyUncounted = {}
      BY <1>4, <1>5 DEF Uncounted, KeyUncounted
    <2>2. Cardinality(Uncounted) = 0 /\ Cardinality(KeyUncounted) = 0
      BY <2>1, FS_EmptySet
    <2>3. \A p \in Procs : CountsLocal(p)
      BY <1>4 DEF CountsLocal
    <2>4. QED
      BY <1>1, <1>4, <2>2, <2>3 DEF CountInv, Covers
  <1>8. QuietInv /\ VersionInv
    BY <1>1, <1>4 DEF QuietInv, VersionInv
  <1>9. AloneInv
    <2> SUFFICES ASSUME NEW c \in Procs, active = {c}, style # "background"
                 PROVE  HitsAddUp(pc[c]) /\ ExpirationsAddUp(pc[c]) /\ ServedAddUp(pc[c])
      BY DEF AloneInv
    <2>1. HitsAddUp(pc[c])
      BY <1>4, <1>5 DEF HitsAddUp
    <2>2. ExpirationsAddUp(pc[c])
      BY <1>1, <1>4 DEF ExpirationsAddUp, Kept
    <2>3. ServedAddUp(pc[c])
      BY <1>1, <1>2, <1>4, <1>5, AfterAssumption DEF ServedAddUp
    <2>4. QED
      BY <2>1, <2>2, <2>3
  <1>10. QED
    BY <1>3, <1>6, <1>7, <1>8, <1>9 DEF CacheInv

LEMMA NextCache ==
  ASSUME CacheInv, [Next]_vars
  PROVE  CacheInv'
  <1>1. CASE UNCHANGED vars
    BY <1>1, Parts, StepOutside DEF vars, config, meta, ghosts
  <1>2. CASE \E c \in Callers, k \in Keys : Call(c, k) \/ InvalidateKey(c, k)
    BY <1>2, StepCall, StepInvalidateKey
  <1>3. CASE \E c \in Callers : Clear(c)
    BY <1>3, StepClear
  <1>4. CASE \E c \in Callers : Bypass(c)
    <2>1. /\ UNCHANGED <<config, available, cache, meta, pc, found, floor, swept, timedout>>
          /\ now' = now /\ truth' = truth /\ calls' = calls + 1
      BY <1>4 DEF Bypass, Begin
    <2>2. QED
      BY <2>1, Parts, StepOutside
  <1>5. CASE Tick
    <2>1. /\ UNCHANGED <<config, available, cache, meta, pc, found, floor, swept, timedout>>
          /\ now' = now + 1 /\ truth' = truth /\ calls' = calls
      BY <1>5 DEF Tick, ghosts
    <2>2. QED
      BY <2>1, Parts, StepOutside
  <1>6. CASE Change
    <2>1. /\ UNCHANGED <<config, available, cache, meta, pc, found, floor, swept, timedout>>
          /\ now' = now /\ truth' = truth + 1 /\ calls' = calls
      BY <1>6 DEF Change, ghosts
    <2>2. QED
      BY <2>1, Parts, StepOutside
  <1>7. ASSUME NEW p \in Procs PROVE AddHit(p) => CacheInv'
    BY StepHitFirst, StepHitZero, StepHitRead, StepHitWrite DEF AddHit
  <1>8. ASSUME NEW p \in Procs PROVE AddKeyHit(p) => CacheInv'
    BY StepKeyHitRead, StepKeyHitWrite DEF AddKeyHit
  <1>9. ASSUME NEW p \in Procs PROVE ClearAll(p) => CacheInv'
    BY StepClearData, StepClearCache DEF ClearAll
  <1>10. QED
    BY <1>1, <1>2, <1>3, <1>4, <1>5, <1>6, <1>7, <1>8, <1>9,
       StepInvalidateRead, StepInvalidateFlush, StepInvalidateDelete, StepRetrieve, StepCompute,
       StepSetValue, StepAddKeyExpiration, StepExpireRead, StepExpireReadRest, StepExpireWrite,
       StepExpireClear, StepTimestamp, StepCheckSize, StepCountKeys, StepChooseVictims, StepEvict,
       StepTimeout
       DEF Next

LEMMA CacheInvariant == Spec => []CacheInv
  BY InitCache, NextCache, PTL DEF Spec

(* No counter of the cache ever counts more hits than there were look-ups  *)
(* that found a value, however the read-modify-writes of the callers       *)
(* interleave and whether the values decode or not; and for one caller no  *)
(* key has more hits than there were in all.                               *)
THEOREM HitsWereFound == Spec => []NeverOvercounts
  <1>1. ASSUME CacheInv PROVE NeverOvercounts
    <2>1. TypeOK /\ CountInv
      BY <1>1, Parts
    <2>2. CacheInfo.hits <= found
      BY <1>1, <2>1, Parts, Counters DEF CountInv, CacheInfo
    <2>3. ASSUME NEW k \in Keys PROVE CacheInfo.keyhits[k] <= found
      BY <1>1, <2>1, Parts, Counters, CountNat DEF CountInv, Covers, CacheInfo
    <2>4. ASSUME Alone, ~timedout, Resting, NEW k \in Keys
          PROVE  CacheInfo.keyhits[k] <= CacheInfo.hits
      <3>1. PICK c \in Callers : active = {c} /\ style # "background" /\ pc[c].at = "idle" /\ c \in Procs
        BY <2>4 DEF Alone, OneCaller, Resting, At, Procs
      <3>2. HitsAddUp(pc[c])
        BY <1>1, <2>4, <3>1, Parts DEF AloneInv
      <3>3. Count(keyhits[k]) + 0 <= NumHits
        BY <3>1, <3>2 DEF HitsAddUp, KeyHitSteps, HitSteps, ExpireSteps
      <3>4. QED
        BY <1>1, <3>3, Parts, CountNat DEF CacheInfo
    <2>5. QED
      BY <2>1, <2>2, <2>3, <2>4 DEF NeverOvercounts
  <1>2. QED
    BY <1>1, CacheInvariant, PTL

(* A cache that one caller uses without background tasks is exact: what    *)
(* invalidate_cache removed stays gone until it is computed anew, whatever *)
(* has expired goes, and invalidate_after is not exceeded.                 *)
THEOREM CacheIsExact == Spec => []ExactAlone
  <1>1. ASSUME CacheInv PROVE ExactAlone
    <2>1. InvalidationHolds
      BY <1>1, Parts DEF InvalidationHolds, VersionInv, Present, Maps, Counts
    <2>2. ASSUME Alone, ~timedout
          PROVE  \E c \in Procs : HitsAddUp(pc[c]) /\ ExpirationsAddUp(pc[c]) /\ ServedAddUp(pc[c])
      BY <1>1, <2>2, Parts DEF AloneInv, Alone, OneCaller, Procs
    <2>3. EntriesExpire
      <3> SUFFICES ASSUME Alone, ~timedout, Resting, NEW k \in Present(cache)
                   PROVE  expirations[k] # None /\ expirations[k] >= swept
        BY DEF EntriesExpire, CacheInfo
      <3>1. PICK c \in Procs : ExpirationsAddUp(pc[c])
        BY <2>2
      <3>2. Removing(pc[c]) = {}
        BY DEF Removing, Resting, At, ExpireSteps
      <3>3. QED
        BY <3>1, <3>2 DEF ExpirationsAddUp, Kept
    <2>4. NotServedAfter
      BY <2>2 DEF NotServedAfter, ServedAddUp
    <2>5. QED
      BY <2>1, <2>3, <2>4 DEF ExactAlone
  <1>2. QED
    BY <1>1, CacheInvariant, PTL

=============================================================================
