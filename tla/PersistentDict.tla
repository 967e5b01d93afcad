--------------------------- MODULE PersistentDict ---------------------------
(***************************************************************************)
(* KVDBStatefulBackend: a dictionary whose fields live in one Redis hash   *)
(* (base_key), with the expiration of each field in a second hash          *)
(* (exp_index_key), or, when hset is disabled, in plain Redis keys with    *)
(* the time to live Redis itself keeps.  Threads use the blocking methods, *)
(* coroutines their async twins, on the same database.  Every call to      *)
(* Redis is one step; a script or a single command is atomic, a method     *)
(* made of several commands is several steps, and a client that never      *)
(* takes its next step is one that crashed.                                *)
(***************************************************************************)
EXTENDS Integers

CONSTANTS Threads,     \* clients that use the blocking methods
          Coroutines,  \* clients that use the async methods
          Keys,        \* field names
          Members,     \* members of the values that are sets
          Expirations, \* the values of self.expiration, None among them
          Lives,       \* the values of ex callers pass, None and 0 among them
          Imports,     \* dumps and other dictionaries that can be read in
          MaxTime,     \* bound on the clock
          MaxNum,      \* bound on counters
          None,        \* an absent value, entry or expiration
          Bad          \* a stored value the serializer cannot decode

Clients == Threads \cup Coroutines

(* A set, what sadd leaves when it stores its argument tuple, or a number. *)
Values == ({"set"} \X SUBSET Members) \cup ({"tuple"} \X {{m} : m \in Members})
          \cup ({"num"} \X (0..MaxNum)) \cup {Bad}

ASSUME TimeAssumption == MaxTime \in Nat
ASSUME ExpirationAssumption == \A x \in Expirations : x = None \/ x \in Nat
ASSUME LivesAssumption == \A ex \in Lives : ex = None \/ ex \in Nat
ASSUME NoneAssumption == None \notin Nat \cup Values
ASSUME ImportAssumption ==
          \A i \in Imports : i \in [data : [Keys -> Values \cup {None}],
                                    exp  : [Keys -> (0..MaxTime) \cup {None}]]

VARIABLES mode,  \* "hash" (hset_enabled) or "string"
          expiration, \* self.expiration
          only,  \* the program uses the atomic methods only
          data,  \* the fields of base_key, or the prefixed keys
          exp,   \* the fields of exp_index_key, or the keys' own expirations
          ttl,   \* the expiration of the whole hash base_key
          now,   \* int(time.time())
          pc,    \* where each client is, with its local variables
          due,   \* the expiration last given to the stored value
          early, \* the keys that lost a value before it was due, and how: as
                 \* expired, or by the deletion that follows a failed decode
          torn   \* keys whose value is without its entry: a clear or a contains
                 \* deleted the entry, or a migration wrote the old value back

config == <<mode, expiration, only>>
store == <<data, exp, ttl>>
vars == <<mode, expiration, only, data, exp, ttl, now, pc, due, early, torn>>

(* Local variables of a method between two commands.                       *)
Nothing == [k \in Keys |-> None]
Idle == [at |-> "idle", ks |-> {}, key |-> None, next |-> "return", life |-> None,
         mem |-> {}, idx |-> Nothing, vals |-> Nothing]
At(c, l) == pc[c].at = l
Present(d) == {k \in Keys : d[k] # None}
Holds(k, type) == data[k] \notin {None, Bad} /\ data[k][1] = type
(* HKEYS, or KEYS with the prefix of the dictionary.                       *)
FetchKeys == Present(data)
Passed(t) == t # None /\ t < now

(* Redis: a hash without fields is no key, and has no time to live.        *)
Store(d, e) ==
  /\ data' = d
  /\ exp' = e
  /\ ttl' = IF Present(d) = {} THEN None ELSE ttl

Erase(f, ks) == [k \in Keys |-> IF k \in ks THEN None ELSE f[k]]
Overlay(f, ks, g) == [k \in Keys |-> IF k \in ks THEN g[k] ELSE f[k]]
Fill(f, ks, v) == [k \in Keys |-> IF k \in ks THEN v ELSE f[k]]
Goto(c, l) == pc' = [pc EXCEPT ![c] = l]
Return(c) == Goto(c, Idle)

Init ==
  /\ mode \in {"hash", "string"}
  /\ expiration \in Expirations
  /\ only \in BOOLEAN
  /\ data = [k \in Keys |-> None]
  /\ exp = [k \in Keys |-> None]
  /\ ttl = None
  /\ now = 0
  /\ pc = [c \in Clients |-> Idle]
  /\ due = [k \in Keys |-> None]
  /\ early = {}
  /\ torn = {}

(***************************************************************************)
(* Values and expirations                                                  *)
(***************************************************************************)
(* ex or self.expiration: 0 counts as no argument.                         *)
Effective(ex) == IF ex \in {None, 0} THEN expiration ELSE ex
Until(life) == IF life = None THEN None ELSE now + life

(* The get script: an expired field is deleted from both hashes.           *)
HGetExpires(k) == mode = "hash" /\ data[k] # None /\ Passed(exp[k])
HGetScript(k) ==
  /\ Store(Erase(data, {k}), Erase(exp, {k}))
  /\ early' = IF Passed(due[k]) THEN early ELSE early \cup {<<k, "expired">>}

\* Mutant of HSetScript: an entry that is there already is kept.
HSetScriptNX(k, v, t) ==
  /\ Store([data EXCEPT ![k] = v], IF exp[k] = None THEN [exp EXCEPT ![k] = t] ELSE exp)
  /\ due' = [due EXCEPT ![k] = t]

(* The set script writes the index only when there is an expiration; SET   *)
(* replaces the expiration of a plain key.                                 *)
HSetScript(k, v, t) ==
  /\ Store([data EXCEPT ![k] = v],
           IF mode = "hash" /\ t = None THEN exp ELSE [exp EXCEPT ![k] = t])
  /\ due' = [due EXCEPT ![k] = t]

HDelScript(ks) == Store(Erase(data, ks), Erase(exp, ks))

(***************************************************************************)
(* One field                                                               *)
(***************************************************************************)
Set(c, k, v, ex) ==
  /\ At(c, "idle")
  /\ HSetScript(k, v, Until(Effective(ex)))
  /\ UNCHANGED <<config, now, pc, early, torn>>

(* A read changes something when the field has expired, or when it cannot  *)
(* be decoded and is deleted by a later call.                              *)
Get(c, k) ==
  /\ At(c, "idle")
  /\ \/ /\ HGetExpires(k)
        /\ HGetScript(k)
        /\ UNCHANGED pc
     \/ /\ ~HGetExpires(k)
        /\ data[k] = Bad
        /\ Goto(c, [Idle EXCEPT !.at = "drop", !.ks = {k}])
        /\ UNCHANGED <<store, early>>
  /\ UNCHANGED <<config, now, due, torn>>

Delete(c, k) ==
  /\ At(c, "idle")
  /\ HDelScript({k})
  /\ UNCHANGED <<config, now, pc, due, early, torn>>

(* The values that could not be decoded are deleted one call at a time,    *)
(* whatever the fields hold by then.                                       *)
DropUndecodable(c) ==
  /\ At(c, "drop")
  /\ \E k \in pc[c].ks :
       /\ HDelScript({k})
       /\ early' = early \cup
            IF data[k] \in {None, Bad} \/ Passed(due[k]) THEN {} ELSE {<<k, "undecoded">>}
       /\ \/ pc[c].ks # {k} /\ Goto(c, [Idle EXCEPT !.at = "drop", !.ks = pc[c].ks \ {k}])
          \/ pc[c].ks = {k} /\ pc[c].next = "return" /\ Return(c)
          \/ pc[c].ks = {k} /\ pc[c].next = "setop" /\ Goto(c, [Idle EXCEPT !.at = "setop", !.ks = {k}])
  /\ UNCHANGED <<config, now, due, torn>>

(* expire writes the index whether or not the field exists.                *)
Expire(c, k, ex) ==
  /\ ~only /\ At(c, "idle")
  /\ ex # None
  /\ mode = "string" => data[k] # None
  /\ Store(data, [exp EXCEPT ![k] = now + ex])
  /\ due' = [due EXCEPT ![k] = now + ex]
  /\ UNCHANGED <<config, now, pc, early, torn>>

(* HINCRBY and INCRBY: an absent field counts from 0, an expired one goes  *)
(* on from its old value, and the index is not touched.                    *)
AddTo(c, k, n) ==
  /\ ~only /\ At(c, "idle")
  /\ data[k] = None \/ Holds(k, "num")
  /\ LET old == IF data[k] = None THEN 0 ELSE data[k][2]
     IN /\ old + n \in 0..MaxNum
        /\ Store([data EXCEPT ![k] = <<"num", old + n>>], exp)
  /\ due' = [due EXCEPT ![k] = IF data[k] = None THEN None ELSE @]
  /\ UNCHANGED <<config, now, pc, early, torn>>
Incrby(c, k) == AddTo(c, k, 1)
Decrby(c, k) == AddTo(c, k, -1)

(***************************************************************************)
(* Values that are sets: read, change, write back                          *)
(***************************************************************************)
(* value = self.get(key, default = set()): a value that is no set has no   *)
(* update method and the call raises before it writes.                     *)
SetOpRead(c, k) ==
  /\ ~only /\ mode = "hash" /\ At(c, "idle")
  /\ \/ /\ HGetExpires(k)
        /\ HGetScript(k)
        /\ Goto(c, [Idle EXCEPT !.at = "setop", !.ks = {k}])
     \/ /\ data[k] = None
        /\ Goto(c, [Idle EXCEPT !.at = "setop", !.ks = {k}])
        /\ UNCHANGED <<store, early>>
     \/ /\ ~HGetExpires(k) /\ data[k] = Bad
        /\ Goto(c, [Idle EXCEPT !.at = "drop", !.ks = {k}, !.next = "setop"])
        /\ UNCHANGED <<store, early>>
     \/ /\ ~HGetExpires(k) /\ Holds(k, "set")
        /\ Goto(c, [Idle EXCEPT !.at = "setop", !.ks = {k}, !.mem = data[k][2]])
        /\ UNCHANGED <<store, early>>
  /\ UNCHANGED <<config, now, due, torn>>

WriteBack(c, v) ==
  /\ At(c, "setop")
  /\ \E k \in pc[c].ks : HSetScript(k, v, Until(Effective(None)))
  /\ Return(c)
  /\ UNCHANGED <<config, now, early, torn>>

(* sadd writes its arguments, asadd the union; srem and asrem the rest.    *)
Sadd(c, m) == WriteBack(c, <<"tuple", {m}>>)
Asadd(c, m) == WriteBack(c, <<"set", pc[c].mem \cup {m}>>)
Srem(c, m) == WriteBack(c, <<"set", pc[c].mem \ {m}>>)

(* Plain keys use SADD, SREM and SPOP; Redis deletes an empty set.         *)
NativeSetOp(c, k, m) ==
  /\ ~only /\ mode = "string" /\ At(c, "idle")
  /\ data[k] = None \/ Holds(k, "set")
  /\ LET old == IF data[k] = None THEN {} ELSE data[k][2]
     IN \/ /\ Store([data EXCEPT ![k] = <<"set", old \cup {m}>>], exp)
           /\ due' = [due EXCEPT ![k] = IF data[k] = None THEN None ELSE @]
        \/ /\ old = {m}
           /\ HDelScript({k})
           /\ UNCHANGED due
        \/ /\ {m} \subseteq old /\ old # {m}
           /\ Store([data EXCEPT ![k] = <<"set", old \ {m}>>], exp)
           /\ UNCHANGED due
  /\ UNCHANGED <<config, now, pc, early, torn>>

(***************************************************************************)
(* Methods over many fields: the expiration check, then the read           *)
(***************************************************************************)
(* _run_expiration_check lists the index and reads its entries; an entry   *)
(* made between the two is not listed, and get_values asks for some only.  *)
(* next is what the method does afterwards; plain keys need no check.      *)
RunExpirationCheck(c, next) ==
  /\ ~only /\ At(c, "idle")
  /\ \/ /\ mode = "hash"
        /\ \E ks \in SUBSET Present(exp) :
             Goto(c, [Idle EXCEPT !.at = "check", !.ks = ks, !.next = next,
                             !.idx = Overlay(Nothing, ks, exp)])
     \/ mode = "string" /\ Goto(c, [Idle EXCEPT !.at = "check", !.next = next])
  /\ UNCHANGED <<config, store, now, due, early, torn>>

Length(c) == RunExpirationCheck(c, "look")
GetKeys(c) == RunExpirationCheck(c, "look")
AGetKeys(c) == RunExpirationCheck(c, "look")
GetAllDataRaw(c) == RunExpirationCheck(c, "look")
GetValues(c) == RunExpirationCheck(c, "values")
AGetValues(c) == RunExpirationCheck(c, "values")
GetAllData(c) == RunExpirationCheck(c, "dict")
GetAllValues(c) == RunExpirationCheck(c, "values")
AGetAllData(c) == RunExpirationCheck(c, "values")
AGetAllValues(c) == RunExpirationCheck(c, "values")
MigrateSchema(c) == RunExpirationCheck(c, "migrate")
AMigrateSchema(c) == RunExpirationCheck(c, "migrate")

\* Mutant of CheckEntry: the entry of an expired field is deleted, its value forgotten.
CheckEntryOnly(c) ==
  /\ At(c, "check")
  /\ \E k \in pc[c].ks :
       /\ Store(data, IF pc[c].idx[k] < now THEN Erase(exp, {k}) ELSE exp)
       /\ pc' = [pc EXCEPT ![c].ks = @ \ {k}]
  /\ UNCHANGED <<config, now, due, early, torn>>

(* One entry of the loop: an expired field loses its index entry first ... *)
CheckEntry(c) ==
  /\ At(c, "check")
  /\ \E k \in pc[c].ks :
       LET gone == pc[c].idx[k] < now
       IN /\ Store(data, IF gone THEN Erase(exp, {k}) ELSE exp)
          /\ pc' = [pc EXCEPT ![c].ks = @ \ {k},
                              ![c].idx = Erase(@, {k}),
                              ![c].at = IF gone THEN "unlink" ELSE @,
                              ![c].key = IF gone THEN k ELSE @]
  /\ UNCHANGED <<config, now, due, early, torn>>

(* ... and its value by the next command.                                  *)
Unlink(c) ==
  /\ At(c, "unlink")
  /\ LET k == pc[c].key
     IN /\ Store(Erase(data, {k}), exp)
        /\ early' = IF data[k] = None \/ Passed(due[k]) THEN early ELSE early \cup {<<k, "expired">>}
  /\ pc' = [pc EXCEPT ![c].at = "check", ![c].key = None]
  /\ UNCHANGED <<config, now, due, torn>>

(* The read after the check.  Methods that return values delete the ones   *)
(* that do not decode, but get_all_data only if the error was an           *)
(* AttributeError: it raises any other.                                    *)
ScanRead(c) ==
  /\ At(c, "check") /\ pc[c].ks = {} /\ pc[c].next # "migrate"
  /\ LET bad == {k \in Keys : data[k] = Bad}
     IN \/ /\ pc[c].next \in {"look", "dict"} \/ bad = {}
           /\ Return(c)
        \/ /\ pc[c].next \in {"values", "dict"} /\ bad # {}
           /\ Goto(c, [Idle EXCEPT !.at = "drop", !.ks = bad])
  /\ UNCHANGED <<config, store, now, due, early, torn>>

(* hset_expiration_check: HEXISTS, then HGET; an entry that went away in   *)
(* between is deleted once more.                                           *)
ExpirationCheck(c, k) ==
  /\ ~only /\ mode = "hash"
  /\ \/ /\ At(c, "idle") /\ exp[k] # None
        /\ Goto(c, [Idle EXCEPT !.at = "exists", !.ks = {k}])
        /\ UNCHANGED <<store, torn>>
     \/ /\ At(c, "exists") /\ k \in pc[c].ks
        /\ IF exp[k] = None THEN Goto(c, [Idle EXCEPT !.at = "unindex", !.ks = {k}])
                            ELSE Goto(c, [Idle EXCEPT !.at = "check", !.ks = {k}, !.idx = exp, !.next = "look"])
        /\ UNCHANGED <<store, torn>>
     \/ /\ At(c, "unindex") /\ k \in pc[c].ks
        /\ Store(data, Erase(exp, {k}))
        /\ torn' = torn \cup ({k} \cap Present(data))
        /\ Return(c)
  /\ UNCHANGED <<config, now, due, early>>
(* contains looks at the field after the check, and of plain keys looks    *)
(* only, which changes nothing.                                            *)
Contains(c, k) == ExpirationCheck(c, k)

(***************************************************************************)
(* Writes of many fields                                                   *)
(***************************************************************************)
(* set_batch: the values in one command, then their expirations.  MSET     *)
(* clears the expiration of plain keys.                                    *)
SetBatch(c, ks, v, ex) ==
  /\ ~only /\ At(c, "idle") /\ ks # {}
  /\ Store(Fill(data, ks, v), IF mode = "hash" THEN exp ELSE Erase(exp, ks))
  /\ due' = Erase(due, ks)
  /\ IF Effective(ex) = None THEN UNCHANGED pc
     ELSE Goto(c, [Idle EXCEPT !.at = "batch", !.ks = ks, !.life = Effective(ex)])
  /\ UNCHANGED <<config, now, early, torn>>

(* hset_expire_batch in one command; EXPIRE key by key, and only of keys   *)
(* that exist.                                                             *)
HsetExpireBatch(c) ==
  /\ At(c, "batch")
  /\ \/ /\ mode = "hash"
        /\ Store(data, Fill(exp, pc[c].ks, now + pc[c].life))
        /\ due' = Fill(due, pc[c].ks, now + pc[c].life)
        /\ Return(c)
     \/ /\ mode = "string"
        /\ \E k \in pc[c].ks :
             LET hit == {k} \cap Present(data)
             IN /\ Store(data, Fill(exp, hit, now + pc[c].life))
                /\ due' = Fill(due, hit, now + pc[c].life)
                /\ IF pc[c].ks = {k} THEN Return(c)
                   ELSE pc' = [pc EXCEPT ![c].ks = @ \ {k}]
  /\ UNCHANGED <<config, now, early, torn>>

(* clear: of some fields in two commands; of the whole hash it leaves the  *)
(* index alone; plain keys are listed, then deleted.                       *)
Clear(c, ks) ==
  /\ ~only /\ At(c, "idle")
  /\ \/ /\ mode = "hash" /\ ks # {}
        /\ Store(Erase(data, ks), exp)
        /\ Goto(c, [Idle EXCEPT !.at = "clear", !.ks = ks])
     \/ /\ mode = "hash" /\ ks = {}
        /\ Store(Erase(data, Keys), exp)
        /\ UNCHANGED pc
     \/ /\ mode = "string" /\ ks # {}
        /\ HDelScript(ks)
        /\ UNCHANGED pc
     \/ /\ mode = "string" /\ ks = {} /\ FetchKeys # {}
        /\ Goto(c, [Idle EXCEPT !.at = "clear", !.ks = FetchKeys])
        /\ UNCHANGED store
  /\ UNCHANGED <<config, now, due, early, torn>>
ClearRest(c) ==
  /\ At(c, "clear")
  /\ IF mode = "hash" THEN Store(data, Erase(exp, pc[c].ks)) ELSE HDelScript(pc[c].ks)
  /\ torn' = IF mode = "hash" THEN torn \cup (pc[c].ks \cap Present(data)) ELSE torn
  /\ Return(c)
  /\ UNCHANGED <<config, now, due, early>>

(* migrate_schema: HGETALL, decode and encode every value, HMSET.  A value *)
(* that does not decode stops it before it writes.  A field that expired,  *)
(* or was deleted, in between comes back without its entry.  The list MGET *)
(* returns has no items(): with plain keys it always raises.               *)
MigrateRead(c) ==
  /\ At(c, "check") /\ pc[c].ks = {} /\ pc[c].next = "migrate"
  /\ IF mode = "string" \/ FetchKeys = {} \/ \E k \in Keys : data[k] = Bad THEN Return(c)
     ELSE Goto(c, [Idle EXCEPT !.at = "migrate", !.ks = FetchKeys, !.vals = data])
  /\ UNCHANGED <<config, store, now, due, early, torn>>
MigrateWrite(c) ==
  /\ At(c, "migrate")
  /\ Store(Overlay(data, pc[c].ks, pc[c].vals), exp)
  /\ torn' = torn \cup (pc[c].ks \ Present(data))
  /\ Return(c)
  /\ UNCHANGED <<config, now, due, early>>

(* load_data_raw and replicate_from: the values, then the index entries.   *)
(* A dump without any makes load_data_raw set the life of the whole hash.  *)
LoadValues(c, i, whole) ==
  /\ ~only /\ At(c, "idle") /\ Present(i.data) # {}
  /\ mode = "hash" \/ whole
  /\ LET ks == Present(i.data)
     IN /\ Store(Overlay(data, ks, i.data), IF mode = "hash" THEN exp ELSE Erase(exp, ks))
        /\ due' = Erase(due, ks)
        /\ IF mode = "hash" /\ (Present(i.exp) # {} \/ (whole /\ expiration # None))
           THEN Goto(c, [Idle EXCEPT !.at = "load", !.ks = Present(i.exp), !.idx = i.exp]) ELSE UNCHANGED pc
  /\ UNCHANGED <<config, now, early, torn>>

LoadExpirations(c) ==
  /\ At(c, "load")
  /\ \/ /\ pc[c].ks # {}
        /\ Store(data, Overlay(exp, pc[c].ks, pc[c].idx))
        /\ due' = Overlay(due, pc[c].ks, pc[c].idx)
     \/ /\ pc[c].ks = {}
        /\ ttl' = IF Present(data) = {} THEN None ELSE now + expiration
        /\ UNCHANGED <<data, exp, due>>
  /\ Return(c)
  /\ UNCHANGED <<config, now, early, torn>>

(* aclone copies the hash and then its index, each into the fields that    *)
(* the target did not have when they were listed, or into all of them.     *)
CloneRead(c, i, overwrite) ==
  /\ ~only /\ mode = "hash" /\ At(c, "idle")
  /\ LET had == IF overwrite THEN {} ELSE FetchKeys
     IN Goto(c, [Idle EXCEPT !.at = "clone", !.ks = Present(i.data) \ had,
                             !.vals = i.data, !.idx = i.exp,
                             !.next = IF overwrite THEN "overwrite" ELSE "return"])
  /\ UNCHANGED <<config, store, now, due, early, torn>>
CloneWrite(c) ==
  /\ At(c, "clone")
  /\ Store(Overlay(data, pc[c].ks, pc[c].vals), exp)
  /\ due' = Erase(due, pc[c].ks)
  /\ Goto(c, [Idle EXCEPT !.at = "cloneExp", !.idx = pc[c].idx, !.next = pc[c].next])
  /\ UNCHANGED <<config, now, early, torn>>
CloneExpRead(c) ==
  /\ At(c, "cloneExp")
  /\ LET had == IF pc[c].next = "overwrite" THEN {} ELSE Present(exp)
         new == Present(pc[c].idx) \ had
     IN IF new = {} THEN Return(c) ELSE Goto(c, [Idle EXCEPT !.at = "load", !.ks = new, !.idx = pc[c].idx])
  /\ UNCHANGED <<config, store, now, due, early, torn>>

(***************************************************************************)
(* Time: Redis removes a plain key, and the whole hash, when its life ends *)
(***************************************************************************)
Tick ==
  /\ now < MaxTime
  /\ now' = now + 1
  /\ LET ended(t) == t # None /\ t <= now + 1
         gone == IF mode = "string" THEN {k \in Keys : ended(exp[k])}
                 ELSE IF ended(ttl) THEN Keys ELSE {}
     IN /\ Store(Erase(data, gone), IF mode = "string" THEN Erase(exp, gone) ELSE exp)
        /\ early' = early \cup {<<k, "expired">> : k \in {j \in gone : data[j] # None /\ ~ended(due[j])}}
  /\ UNCHANGED <<config, pc, due, torn>>

(* The async twins.                                                        *)
AGet(c, k) == Get(c, k)
ASet(c, k, v, ex) == Set(c, k, v, ex)
ADelete(c, k) == Delete(c, k)
ASetBatch(c, ks, v, ex) == SetBatch(c, ks, v, ex)
AClear(c, ks) == Clear(c, ks)
Asrem(c, m) == Srem(c, m)
(* Reading the members is a get; spop returns members and removes none.    *)
Smembers(c, k) == Get(c, k)
Spop(c, k) == Get(c, k)
LoadDataRaw(c, i) == LoadValues(c, i, TRUE)
ALoadDataRaw(c, i) == LoadValues(c, i, TRUE)
ReplicateFrom(c, i) == LoadValues(c, i, FALSE)
AReplicateFrom(c, i) == LoadValues(c, i, FALSE)
Aclone(c, i, overwrite) == CloneRead(c, i, overwrite)
AcloneFrom(c, i, overwrite) == CloneRead(c, i, overwrite)

ThreadNext(c) ==
  \/ \E k \in Keys :
       \/ \E v \in Values, ex \in Lives : Set(c, k, v, ex)
       \/ Get(c, k) \/ Delete(c, k) \/ Smembers(c, k) \/ Spop(c, k)
  \/ \E ks \in SUBSET Keys :
       \/ Clear(c, ks)
       \/ \E v \in Values, ex \in Lives : SetBatch(c, ks, v, ex)
  \/ Length(c) \/ GetKeys(c) \/ GetValues(c) \/ GetAllData(c) \/ GetAllValues(c)
  \/ GetAllDataRaw(c) \/ MigrateSchema(c)
  \/ \E i \in Imports : LoadDataRaw(c, i) \/ ReplicateFrom(c, i)
  \/ \E m \in Members : Sadd(c, m) \/ Srem(c, m)

CoroutineNext(c) ==
  \/ \E k \in Keys :
       \/ \E v \in Values, ex \in Lives : ASet(c, k, v, ex)
       \/ AGet(c, k) \/ ADelete(c, k)
  \/ \E ks \in SUBSET Keys :
       \/ AClear(c, ks)
       \/ \E v \in Values, ex \in Lives : ASetBatch(c, ks, v, ex)
  \/ AGetKeys(c) \/ AGetValues(c) \/ AGetAllData(c) \/ AGetAllValues(c) \/ AMigrateSchema(c)
  \/ \E i \in Imports :
       \/ ALoadDataRaw(c, i) \/ AReplicateFrom(c, i)
       \/ \E overwrite \in BOOLEAN : Aclone(c, i, overwrite) \/ AcloneFrom(c, i, overwrite)
  \/ \E m \in Members : Asadd(c, m) \/ Asrem(c, m)

(* What goes on the same way in both.                                      *)
ClientNext(c) ==
  \/ \E k \in Keys :
       \/ Contains(c, k) \/ SetOpRead(c, k)
       \/ Incrby(c, k) \/ Decrby(c, k)
       \/ \E ex \in Lives : Expire(c, k, ex)
       \/ \E m \in Members : NativeSetOp(c, k, m)
  \/ DropUndecodable(c) \/ CheckEntry(c) \/ Unlink(c) \/ ScanRead(c)
  \/ HsetExpireBatch(c) \/ ClearRest(c) \/ MigrateRead(c) \/ MigrateWrite(c)
  \/ LoadExpirations(c) \/ CloneWrite(c) \/ CloneExpRead(c)

Next ==
  \/ \E c \in Threads : ThreadNext(c)
  \/ \E c \in Coroutines : CoroutineNext(c)
  \/ \E c \in Clients : ClientNext(c)
  \/ Tick

Spec == Init /\ [][Next]_vars

(***************************************************************************)
(* Properties                                                              *)
(***************************************************************************)
Times == Nat \cup {None}
Locals == [at : {"idle", "drop", "setop", "check", "unlink", "exists", "unindex", "batch",
                 "clear", "migrate", "load", "clone", "cloneExp"},
           ks : SUBSET Keys,
           key : Keys \cup {None},
           next : {"return", "setop", "look", "values", "dict", "migrate", "overwrite"},
           life : Times,
           mem : SUBSET Members,
           idx : [Keys -> Times],
           vals : [Keys -> Values \cup {None}]]

(* The shape of the store and of the clients' local variables.             *)
TypeOK ==
  /\ mode \in {"hash", "string"}
  /\ expiration \in Expirations
  /\ only \in BOOLEAN
  /\ data \in [Keys -> Values \cup {None}]
  /\ exp \in [Keys -> Times]
  /\ ttl \in Times
  /\ now \in Nat
  /\ pc \in [Clients -> Locals]
  /\ due \in [Keys -> Times]
  /\ early \subseteq Keys \X {"expired", "undecoded"}
  /\ torn \subseteq Keys

(* The expiration check has deleted the entry of k and not yet its value.  *)
Unlinking(k) == \E c \in Clients : At(c, "unlink") /\ pc[c].key = k

(* An expiration that was given to a stored value stays with the value, so *)
(* that the value does not live for ever.  Three things can part them: the *)
(* window between the two deletions of an expiration check (for good, if   *)
(* the client dies there), a clear or contains of the same key whose       *)
(* second command comes after the key was set again, and a migration that  *)
(* writes a value back after it has expired.  (The shape of the store is   *)
(* part of it.)                                                            *)
ExpirationIsKept ==
  TypeOK /\ \A k \in Keys :
    data[k] # None /\ due[k] # None => exp[k] = due[k] \/ Unlinking(k) \/ k \in torn

(* A program that only gets, sets and deletes single fields, on a backend  *)
(* with an expiration, loses no value as expired before its time, and with *)
(* plain keys no program does: the scripts and the index agree.  What can  *)
(* lose a fresh value there is the deletion that follows a failed decode:  *)
(* a later command, which takes whatever was set in between.               *)
NeverEarly ==
  \A loss \in early :
    loss[2] = "undecoded" \/ (mode = "hash" /\ (~only \/ expiration = None))
=============================================================================
