------------------------ MODULE PersistentDictProofs ------------------------
(* Proofs about PersistentDict, for any clients, keys, values and times. *)
EXTENDS PersistentDict, TLAPS

(* Where a method may stand, and with which local variables: plain keys     *)
(* need no expiration check, and single fields no method of several steps   *)
(* but the deletion of a value that does not decode.                        *)
LegalLocal(l) ==
  /\ l \in Locals
  /\ l.at = "batch" => l.life \in Nat
  /\ l.at = "unlink" => l.key \in Keys
  /\ l.at = "load" /\ l.ks = {} => expiration # None
  /\ mode = "string" => /\ l.at \in {"idle", "drop", "check", "batch", "clear"}
                        /\ l.at = "check" => l.ks = {}
                        /\ l.next # "setop"
  /\ only => l.at \in {"idle", "drop"} /\ l.next = "return"

LocalsInv == pc \in [Clients -> Locals] /\ \A c \in Clients : LegalLocal(pc[c])

(* The types of what the clients share.                                     *)
SharedOK ==
  /\ mode \in {"hash", "string"} /\ expiration \in Expirations /\ only \in BOOLEAN
  /\ data \in [Keys -> Values \cup {None}] /\ exp \in [Keys -> Times]
  /\ ttl \in Times /\ now \in Nat
  /\ due \in [Keys -> Times] /\ torn \subseteq Keys
  /\ early \subseteq Keys \X {"expired", "undecoded"}

(* An expiration stays with its value but for the three known windows.      *)
KeptInv ==
  \A k \in Keys :
    data[k] # None /\ due[k] # None => exp[k] = due[k] \/ Unlinking(k) \/ k \in torn

(* Plain keys: Redis keeps the expiration with the value.                   *)
PlainInv ==
  mode = "string" => \A k \in Keys : exp[k] = IF data[k] = None THEN None ELSE due[k]

(* Single fields of a hash, all with an expiration: none is without entry.  *)
SingleInv ==
  only => /\ ttl = None
          /\ expiration # None => \A k \in Keys : data[k] # None => exp[k] = due[k]

DictInv == SharedOK /\ LocalsInv /\ KeptInv /\ PlainInv /\ SingleInv /\ NeverEarly

(***************************************************************************)
(* Local variables                                                         *)
(***************************************************************************)
(* A method that leaves its place, which is not between the two deletions   *)
(* of an expiration check, for a legal one.                                 *)
LEMMA Moves ==
  ASSUME LocalsInv, NEW c \in Clients, NEW l, LegalLocal(l), Goto(c, l),
         ~At(c, "unlink"), UNCHANGED config
  PROVE  LocalsInv' /\ \A k \in Keys : Unlinking(k) => Unlinking(k)'
  <1>1. pc' \in [Clients -> Locals] /\ pc'[c] = l /\ \A d \in Clients \ {c} : pc'[d] = pc[d]
    BY DEF LocalsInv, LegalLocal, Goto
  <1>2. LocalsInv'
    BY <1>1 DEF LocalsInv, LegalLocal, config
  <1>3. \A k \in Keys : Unlinking(k) => Unlinking(k)'
    BY <1>1 DEF Unlinking, At
  <1>4. QED
    BY <1>2, <1>3

(* The methods that stay where they are.                                    *)
LEMMA Stays ==
  ASSUME LocalsInv, UNCHANGED <<pc, config>>
  PROVE  LocalsInv' /\ \A k \in Keys : Unlinking(k) => Unlinking(k)'
  BY DEF LocalsInv, LegalLocal, Unlinking, At, config

LEMMA IdleLocal == ASSUME SharedOK PROVE Idle \in Locals /\ LegalLocal(Idle)
  BY DEF Idle, Nothing, Locals, Times, LegalLocal, SharedOK

(* A client that holds a place of its own is at no other.                   *)
LEMMA DropLocal ==
  ASSUME SharedOK, NEW ks \in SUBSET Keys
  PROVE  /\ LegalLocal([Idle EXCEPT !.at = "drop", !.ks = ks])
         /\ ~only /\ mode = "hash" =>
              /\ LegalLocal([Idle EXCEPT !.at = "drop", !.ks = ks, !.next = "setop"])
              /\ LegalLocal([Idle EXCEPT !.at = "setop", !.ks = ks])
              /\ \A m \in SUBSET Members :
                   LegalLocal([Idle EXCEPT !.at = "setop", !.ks = ks, !.mem = m])
  BY DEF Idle, Nothing, Locals, Times, LegalLocal, SharedOK

(***************************************************************************)
(* One field                                                               *)
(***************************************************************************)
(* The set script, when an expiration of its own or of the backend is the   *)
(* one it writes whenever the backend has one.                              *)
LEMMA Written ==
  ASSUME DictInv, NEW k \in Keys, NEW v \in Values, NEW t \in Times,
         expiration # None => t # None,
         HSetScript(k, v, t), UNCHANGED <<config, now, early, torn>>,
         LocalsInv', \A j \in Keys : Unlinking(j) => Unlinking(j)'
  PROVE  DictInv'
  <1>1. /\ data' = [data EXCEPT ![k] = v]
        /\ exp' = IF mode = "hash" /\ t = None THEN exp ELSE [exp EXCEPT ![k] = t]
        /\ due' = [due EXCEPT ![k] = t]
        /\ ttl' \in {ttl, None}
        /\ UNCHANGED <<mode, expiration, only, now, early, torn>>
    BY DEF HSetScript, Store, config
  <1>2. v # None
    BY NoneAssumption
  <1>3. SharedOK'
    BY <1>1 DEF DictInv, SharedOK, Times
  <1>4. KeptInv'
    BY <1>1 DEF DictInv, SharedOK, KeptInv
  <1>5. PlainInv' /\ SingleInv' /\ NeverEarly'
    BY <1>1, <1>2 DEF DictInv, SharedOK, PlainInv, SingleInv, NeverEarly
  <1>6. QED
    BY <1>3, <1>4, <1>5 DEF DictInv

(* ex or self.expiration is none only where the backend has none.           *)
LEMMA EffectiveLife ==
  ASSUME SharedOK, NEW ex \in Lives \cup {None}
  PROVE  /\ Until(Effective(ex)) \in Times
         /\ expiration # None => Until(Effective(ex)) # None
         /\ Effective(ex) # None => Effective(ex) \in Nat
  BY ExpirationAssumption, LivesAssumption, NoneAssumption
  DEF SharedOK, Until, Effective, Times

LEMMA SetStep ==
  ASSUME DictInv, NEW c \in Clients, NEW k \in Keys, NEW v \in Values, NEW ex \in Lives,
         Set(c, k, v, ex)
  PROVE  DictInv'
  BY Stays, EffectiveLife, Written DEF DictInv, Set

(* What a removal together with its expiration leaves.                      *)
LEMMA Removed ==
  ASSUME DictInv, NEW ks \in SUBSET Keys, HDelScript(ks),
         UNCHANGED <<config, now, torn>>,
         due' = due,
         early' \subseteq Keys \X {"expired", "undecoded"}, NeverEarly',
         LocalsInv', \A k \in Keys : Unlinking(k) => Unlinking(k)'
  PROVE  DictInv'
  <1>1. /\ \A k \in Keys : /\ data'[k] = IF k \in ks THEN None ELSE data[k]
                           /\ exp'[k] = IF k \in ks THEN None ELSE exp[k]
        /\ data' \in [Keys -> Values \cup {None}] /\ exp' \in [Keys -> Times]
        /\ ttl' \in {ttl, None}
    BY DEF HDelScript, Store, Erase, DictInv, SharedOK, Times
  <1>2. SharedOK'
    BY <1>1 DEF DictInv, SharedOK, Times, config
  <1>3. KeptInv' /\ PlainInv' /\ SingleInv'
    BY <1>1 DEF DictInv, SharedOK, KeptInv, PlainInv, SingleInv, config
  <1>4. QED
    BY <1>2, <1>3 DEF DictInv

(* The get script deletes an expired value: early only where the index may  *)
(* disagree with the value.                                                 *)
LEMMA Expired ==
  ASSUME DictInv, NEW k \in Keys, HGetExpires(k), HGetScript(k),
         UNCHANGED <<config, now, due, torn>>,
         LocalsInv', \A j \in Keys : Unlinking(j) => Unlinking(j)'
  PROVE  DictInv'
  <1>1. HDelScript({k})
    BY DEF HGetScript, HDelScript
  <1>2. early' \subseteq Keys \X {"expired", "undecoded"} /\ NeverEarly'
    BY DEF HGetScript, HGetExpires, DictInv, SharedOK, SingleInv, NeverEarly, Passed, config
  <1>3. QED
    BY <1>1, <1>2, Removed

(* A step of a method that changes nothing shared.                          *)
LEMMA Looks ==
  ASSUME DictInv, UNCHANGED <<config, store, now, due, early, torn>>,
         LocalsInv', \A k \in Keys : Unlinking(k) => Unlinking(k)'
  PROVE  DictInv'
  BY DEF DictInv, SharedOK, KeptInv, PlainInv, SingleInv, NeverEarly, config, store

LEMMA GetStep ==
  ASSUME DictInv, NEW c \in Clients, NEW k \in Keys, Get(c, k)
  PROVE  DictInv'
  <1>1. CASE HGetExpires(k)
    BY <1>1, Stays, Expired DEF Get, DictInv
  <1>2. CASE ~HGetExpires(k)
    <2>1. LegalLocal([Idle EXCEPT !.at = "drop", !.ks = {k}])
      BY DropLocal DEF DictInv
    <2>2. LocalsInv' /\ \A j \in Keys : Unlinking(j) => Unlinking(j)'
      BY <1>2, <2>1, Moves DEF Get, DictInv, At
    <2>3. QED
      BY <1>2, <2>2, Looks DEF Get
  <1>3. QED
    BY <1>1, <1>2

LEMMA DeleteStep ==
  ASSUME DictInv, NEW c \in Clients, NEW k \in Keys, Delete(c, k)
  PROVE  DictInv'
  <1>1. LocalsInv' /\ \A j \in Keys : Unlinking(j) => Unlinking(j)'
    BY Stays DEF Delete, DictInv
  <1>2. early' \subseteq Keys \X {"expired", "undecoded"} /\ NeverEarly'
    BY DEF Delete, DictInv, SharedOK, NeverEarly, config
  <1>3. QED
    BY <1>1, <1>2, Removed DEF Delete

LEMMA DropUndecodableStep ==
  ASSUME DictInv, NEW c \in Clients, DropUndecodable(c)
  PROVE  DictInv'
  <1>1. PICK k \in pc[c].ks :
          /\ HDelScript({k})
          /\ \/ Goto(c, [Idle EXCEPT !.at = "drop", !.ks = pc[c].ks \ {k}])
             \/ Return(c)
             \/ pc[c].next = "setop" /\ Goto(c, [Idle EXCEPT !.at = "setop", !.ks = {k}])
    BY DEF DropUndecodable
  <1>2. LegalLocal(pc[c]) /\ pc[c].ks \subseteq Keys /\ ~At(c, "unlink")
    BY DEF DictInv, LocalsInv, Locals, DropUndecodable, At
  <1>3. LegalLocal(Idle) /\ LegalLocal([Idle EXCEPT !.at = "drop", !.ks = pc[c].ks \ {k}])
    BY <1>2, DropLocal, IdleLocal DEF DictInv
  <1>4. pc[c].next = "setop" => LegalLocal([Idle EXCEPT !.at = "setop", !.ks = {k}])
    BY <1>1, <1>2, DropLocal DEF DictInv, SharedOK, LegalLocal
  <1>5. LocalsInv' /\ \A j \in Keys : Unlinking(j) => Unlinking(j)'
    BY <1>1, <1>2, <1>3, <1>4, Moves DEF Return, DictInv, DropUndecodable
  <1>6. early' \subseteq Keys \X {"expired", "undecoded"} /\ NeverEarly'
    BY <1>2 DEF DropUndecodable, DictInv, SharedOK, NeverEarly, config
  <1>7. QED
    BY <1>1, <1>2, <1>5, <1>6, Removed DEF DropUndecodable

LEMMA ExpireStep ==
  ASSUME DictInv, NEW c \in Clients, NEW k \in Keys, NEW ex \in Lives, Expire(c, k, ex)
  PROVE  DictInv'
  <1>1. now + ex \in Nat
    BY LivesAssumption DEF Expire, DictInv, SharedOK
  <1>2. LocalsInv' /\ \A j \in Keys : Unlinking(j) => Unlinking(j)'
    BY Stays DEF Expire, DictInv
  <1>3. SharedOK'
    BY <1>1 DEF Expire, Store, DictInv, SharedOK, Times, config
  <1>4. KeptInv' /\ PlainInv' /\ SingleInv' /\ NeverEarly'
    BY <1>1, <1>2 DEF Expire, Store, DictInv, SharedOK, KeptInv, PlainInv, SingleInv, NeverEarly, config
  <1>5. QED
    BY <1>2, <1>3, <1>4 DEF DictInv

LEMMA AddToStep ==
  ASSUME DictInv, NEW c \in Clients, NEW k \in Keys, NEW n \in {1, -1}, AddTo(c, k, n)
  PROVE  DictInv'
  <1>1. PICK x \in 0..MaxNum :
          Store([data EXCEPT ![k] = <<"num", x>>], exp)
    BY DEF AddTo
  <1>2. <<"num", x>> \in Values /\ <<"num", x>> # None
    BY NoneAssumption DEF Values
  <1>3. LocalsInv' /\ \A j \in Keys : Unlinking(j) => Unlinking(j)'
    BY Stays DEF AddTo, DictInv
  <1>4. SharedOK'
    BY <1>1, <1>2 DEF AddTo, Store, DictInv, SharedOK, Times, config
  <1>5. KeptInv' /\ PlainInv' /\ SingleInv' /\ NeverEarly'
    BY <1>1, <1>2, <1>3 DEF AddTo, Store, DictInv, SharedOK, KeptInv, PlainInv, SingleInv, NeverEarly, config
  <1>6. QED
    BY <1>3, <1>4, <1>5 DEF DictInv

(***************************************************************************)
(* Values that are sets                                                    *)
(***************************************************************************)
(* What the members of a value that is a set are.                           *)
LEMMA SetValue ==
  ASSUME SharedOK, NEW k \in Keys, Holds(k, "set")
  PROVE  data[k][2] \in SUBSET Members
  BY DEF SharedOK, Holds, Values

LEMMA SetOpReadStep ==
  ASSUME DictInv, NEW c \in Clients, NEW k \in Keys, SetOpRead(c, k)
  PROVE  DictInv'
  <1>1. /\ LegalLocal([Idle EXCEPT !.at = "setop", !.ks = {k}])
        /\ LegalLocal([Idle EXCEPT !.at = "drop", !.ks = {k}, !.next = "setop"])
        /\ Holds(k, "set") => LegalLocal([Idle EXCEPT !.at = "setop", !.ks = {k}, !.mem = data[k][2]])
    BY DropLocal, SetValue DEF SetOpRead, DictInv
  <1>2. LocalsInv' /\ \A j \in Keys : Unlinking(j) => Unlinking(j)'
    BY <1>1, Moves DEF SetOpRead, DictInv, At
  <1>3. CASE HGetExpires(k) /\ HGetScript(k)
    BY <1>2, <1>3, Expired DEF SetOpRead
  <1>4. CASE UNCHANGED <<store, early>>
    BY <1>2, <1>4, Looks DEF SetOpRead
  <1>5. QED
    BY <1>3, <1>4 DEF SetOpRead

(* sadd, srem and their twins write the value that they have read before.   *)
LEMMA WriteBackStep ==
  ASSUME DictInv, NEW c \in Clients, NEW v \in Values, WriteBack(c, v)
  PROVE  DictInv'
  <1>1. LocalsInv' /\ \A j \in Keys : Unlinking(j) => Unlinking(j)'
    BY Moves, IdleLocal DEF DictInv, WriteBack, Return, At
  <1>2. PICK k \in Keys : HSetScript(k, v, Until(Effective(None)))
    BY DEF DictInv, LocalsInv, Locals, WriteBack
  <1>3. QED
    BY <1>1, <1>2, EffectiveLife, Written DEF DictInv, WriteBack

LEMMA NativeSetOpStep ==
  ASSUME DictInv, NEW c \in Clients, NEW k \in Keys, NEW m \in Members, NativeSetOp(c, k, m)
  PROVE  DictInv'
  <1>1. LocalsInv' /\ \A j \in Keys : Unlinking(j) => Unlinking(j)'
    BY Stays DEF NativeSetOp, DictInv
  <1>2. early' \subseteq Keys \X {"expired", "undecoded"} /\ NeverEarly'
    BY DEF NativeSetOp, DictInv, SharedOK, NeverEarly, config
  <1>3. CASE HDelScript({k}) /\ UNCHANGED due
    BY <1>1, <1>2, <1>3, Removed DEF NativeSetOp
  <1>4. CASE \E s \in SUBSET Members :
               /\ Store([data EXCEPT ![k] = <<"set", s>>], exp)
               /\ due' = [due EXCEPT ![k] = IF data[k] = None THEN None ELSE @]
    <2>1. PICK s \in SUBSET Members : Store([data EXCEPT ![k] = <<"set", s>>], exp)
      BY <1>4
    <2>2. due' = [due EXCEPT ![k] = IF data[k] = None THEN None ELSE @]
      BY <1>4
    <2>3. <<"set", s>> \in Values /\ <<"set", s>> # None
      BY NoneAssumption DEF Values
    <2>4. SharedOK'
      BY <2>1, <2>2, <2>3 DEF NativeSetOp, Store, DictInv, SharedOK, Times, config
    <2>5. KeptInv' /\ PlainInv' /\ SingleInv'
      BY <1>1, <2>1, <2>2, <2>3
      DEF NativeSetOp, Store, DictInv, SharedOK, KeptInv, PlainInv, SingleInv, config
    <2>6. QED
      BY <1>1, <1>2, <2>4, <2>5 DEF DictInv
  <1>5. QED
    <2> DEFINE old == IF data[k] = None THEN {} ELSE data[k][2]
    <2>1. old \in SUBSET Members
      BY SetValue DEF NativeSetOp, DictInv
    <2>2. old \cup {m} \in SUBSET Members /\ old \ {m} \in SUBSET Members
      BY <2>1
    <2>3. {m} \subseteq old => data[k] # None
      OBVIOUS
    <2>4. data[k] # None /\ UNCHANGED due => due' = [due EXCEPT ![k] = IF data[k] = None THEN None ELSE @]
      BY DEF DictInv, SharedOK
    <2> HIDE DEF old
    <2>5. \/ /\ Store([data EXCEPT ![k] = <<"set", old \cup {m}>>], exp)
             /\ due' = [due EXCEPT ![k] = IF data[k] = None THEN None ELSE @]
          \/ HDelScript({k}) /\ UNCHANGED due
          \/ /\ {m} \subseteq old
             /\ Store([data EXCEPT ![k] = <<"set", old \ {m}>>], exp) /\ UNCHANGED due
      BY DEF NativeSetOp, old
    <2>6. QED
      BY <1>3, <1>4, <2>2, <2>3, <2>4, <2>5

(***************************************************************************)
(* The expiration check and the reads after it                             *)
(***************************************************************************)
LEMMA RunExpirationCheckStep ==
  ASSUME DictInv, NEW c \in Clients, NEW n \in {"look", "values", "dict", "migrate"},
         RunExpirationCheck(c, n)
  PROVE  DictInv'
  <1>1. /\ mode = "hash" => \A ks \in SUBSET Keys :
             LegalLocal([Idle EXCEPT !.at = "check", !.ks = ks, !.next = n,
                                     !.idx = Overlay(Nothing, ks, exp)])
        /\ mode = "string" => LegalLocal([Idle EXCEPT !.at = "check", !.next = n])
    BY DEF RunExpirationCheck, DictInv, SharedOK, LegalLocal, Idle, Nothing, Locals, Times, Overlay
  <1>2. SUBSET Present(exp) \subseteq SUBSET Keys
    BY DEF Present
  <1>3. LocalsInv' /\ \A j \in Keys : Unlinking(j) => Unlinking(j)'
    BY <1>1, <1>2, Moves DEF RunExpirationCheck, DictInv, At
  <1>4. QED
    BY <1>3, Looks DEF RunExpirationCheck

(* A check that has begun belongs to a program that uses all methods, and   *)
(* with entries still to look at to a hash.                                 *)
LEMMA Checking ==
  ASSUME DictInv, NEW c \in Clients
  PROVE  /\ At(c, "check") /\ pc[c].ks # {} => mode = "hash" /\ ~only
         /\ At(c, "unlink") => mode = "hash" /\ ~only
         /\ pc[c] \in Locals
  BY DEF DictInv, SharedOK, LocalsInv, LegalLocal, At

LEMMA CheckEntryStep ==
  ASSUME DictInv, NEW c \in Clients, CheckEntry(c)
  PROVE  DictInv'
  <1>1. PICK k \in pc[c].ks :
          LET gone == pc[c].idx[k] < now
          IN /\ Store(data, IF gone THEN Erase(exp, {k}) ELSE exp)
             /\ pc' = [pc EXCEPT ![c].ks = @ \ {k},
                                 ![c].idx = Erase(@, {k}),
                                 ![c].at = IF gone THEN "unlink" ELSE @,
                                 ![c].key = IF gone THEN k ELSE @]
    BY DEF CheckEntry
  <1>2. At(c, "check") /\ mode = "hash" /\ ~only /\ pc[c] \in Locals /\ k \in Keys
    BY Checking DEF CheckEntry, Locals
  <1> DEFINE gone == pc[c].idx[k] < now
  <1>3. /\ pc' \in [Clients -> Locals] /\ \A d \in Clients \ {c} : pc'[d] = pc[d]
        /\ pc'[c].at \in {"check", "unlink"}
        /\ gone => pc'[c].at = "unlink" /\ pc'[c].key = k
        /\ ~gone => pc'[c].at = "check"
    <2>1. Erase(pc[c].idx, {k}) \in [Keys -> Times]
      BY <1>2 DEF Erase, Locals, Times
    <2>2. QED
      BY <1>1, <1>2, <2>1 DEF DictInv, LocalsInv, Locals, At
  <1> HIDE DEF gone
  <1>4. LocalsInv'
    BY <1>2, <1>3 DEF CheckEntry, DictInv, LocalsInv, LegalLocal, config
  <1>5. /\ \A j \in Keys : Unlinking(j) => Unlinking(j)'
        /\ gone => Unlinking(k)'
    BY <1>2, <1>3 DEF Unlinking, At
  <1>6. /\ data' = data /\ ttl' \in {ttl, None} /\ exp' \in [Keys -> Times]
        /\ \A j \in Keys : exp'[j] = exp[j] \/ (gone /\ j = k)
    BY <1>1, <1>2 DEF Store, Erase, DictInv, SharedOK, Times, gone
  <1>7. SharedOK'
    BY <1>6 DEF CheckEntry, DictInv, SharedOK, Times, config
  <1>8. KeptInv'
    BY <1>5, <1>6 DEF CheckEntry, DictInv, KeptInv
  <1>9. PlainInv' /\ SingleInv' /\ NeverEarly'
    BY <1>2 DEF CheckEntry, DictInv, PlainInv, SingleInv, NeverEarly, config
  <1>10. QED
    BY <1>4, <1>7, <1>8, <1>9 DEF DictInv

LEMMA UnlinkStep ==
  ASSUME DictInv, NEW c \in Clients, Unlink(c)
  PROVE  DictInv'
  <1>1. At(c, "unlink") /\ mode = "hash" /\ ~only /\ pc[c] \in Locals /\ pc[c].key \in Keys
    BY Checking DEF Unlink, DictInv, LocalsInv, LegalLocal, At
  <1>2. /\ pc' \in [Clients -> Locals] /\ \A d \in Clients \ {c} : pc'[d] = pc[d]
        /\ pc'[c].at = "check"
    BY <1>1, NoneAssumption DEF Unlink, DictInv, LocalsInv, Locals
  <1>3. LocalsInv'
    BY <1>1, <1>2 DEF Unlink, DictInv, LocalsInv, LegalLocal, config
  <1>4. \A j \in Keys : Unlinking(j) /\ j # pc[c].key => Unlinking(j)'
    BY <1>2 DEF Unlinking, At
  <1>5. /\ data' \in [Keys -> Values \cup {None}] /\ exp' = exp /\ ttl' \in {ttl, None}
        /\ \A j \in Keys : data'[j] = IF j = pc[c].key THEN None ELSE data[j]
        /\ early' \subseteq Keys \X {"expired", "undecoded"}
    BY <1>1 DEF Unlink, Store, Erase, DictInv, SharedOK
  <1>6. SharedOK'
    BY <1>5 DEF Unlink, DictInv, SharedOK, Times, config
  <1>7. KeptInv'
    BY <1>4, <1>5 DEF Unlink, DictInv, KeptInv
  <1>8. PlainInv' /\ SingleInv' /\ NeverEarly'
    BY <1>1 DEF Unlink, DictInv, PlainInv, SingleInv, NeverEarly, config
  <1>9. QED
    BY <1>3, <1>6, <1>7, <1>8 DEF DictInv

LEMMA ScanReadStep ==
  ASSUME DictInv, NEW c \in Clients, ScanRead(c)
  PROVE  DictInv'
  <1>1. LegalLocal(Idle) /\ LegalLocal([Idle EXCEPT !.at = "drop", !.ks = {k \in Keys : data[k] = Bad}])
    BY IdleLocal, DropLocal DEF DictInv
  <1>2. LocalsInv' /\ \A j \in Keys : Unlinking(j) => Unlinking(j)'
    BY <1>1, Moves DEF ScanRead, Return, DictInv, At
  <1>3. QED
    BY <1>2, Looks DEF ScanRead

(* hset_expiration_check: the entry it deletes after the value was set      *)
(* again is what torn remembers.                                            *)
LEMMA ExpirationCheckStep ==
  ASSUME DictInv, NEW c \in Clients, NEW k \in Keys, ExpirationCheck(c, k)
  PROVE  DictInv'
  <1>1. ~only /\ mode = "hash" /\ ~At(c, "unlink")
    BY DEF ExpirationCheck, At
  <1>2. /\ LegalLocal(Idle)
        /\ LegalLocal([Idle EXCEPT !.at = "exists", !.ks = {k}])
        /\ LegalLocal([Idle EXCEPT !.at = "unindex", !.ks = {k}])
        /\ LegalLocal([Idle EXCEPT !.at = "check", !.ks = {k}, !.idx = exp, !.next = "look"])
    BY <1>1, IdleLocal DEF DictInv, SharedOK, LegalLocal, Idle, Nothing, Locals, Times
  <1>3. LocalsInv' /\ \A j \in Keys : Unlinking(j) => Unlinking(j)'
    BY <1>1, <1>2, Moves DEF ExpirationCheck, Return, DictInv
  <1>4. CASE UNCHANGED <<store, torn>>
    BY <1>3, <1>4, Looks DEF ExpirationCheck
  <1>5. CASE Store(data, Erase(exp, {k})) /\ torn' = torn \cup ({k} \cap Present(data))
    <2>1. /\ data' = data /\ ttl' \in {ttl, None} /\ exp' \in [Keys -> Times]
          /\ \A j \in Keys : exp'[j] = exp[j] \/ j = k
      BY <1>5 DEF Store, Erase, DictInv, SharedOK, Times
    <2>2. SharedOK'
      BY <1>5, <2>1 DEF ExpirationCheck, DictInv, SharedOK, Times, config
    <2>3. KeptInv'
      BY <1>3, <1>5, <2>1 DEF ExpirationCheck, DictInv, KeptInv, Present
    <2>4. PlainInv' /\ SingleInv' /\ NeverEarly'
      BY <1>1 DEF ExpirationCheck, DictInv, PlainInv, SingleInv, NeverEarly, config
    <2>5. QED
      BY <1>3, <2>2, <2>3, <2>4 DEF DictInv
  <1>6. QED
    BY <1>4, <1>5 DEF ExpirationCheck

(***************************************************************************)
(* Writes of many fields                                                   *)
(***************************************************************************)
(* Values written without an expiration: nothing is promised for them yet,  *)
(* and plain keys lose the expiration they had.                             *)
LEMMA Unpromised ==
  ASSUME DictInv, NEW ks \in SUBSET Keys, NEW d \in [Keys -> Values \cup {None}],
         \A k \in Keys \ ks : d[k] = data[k],
         mode = "string" => \A k \in ks : d[k] # None,
         Store(d, IF mode = "hash" THEN exp ELSE Erase(exp, ks)), due' = Erase(due, ks),
         ~only, UNCHANGED <<config, now, early, torn>>,
         LocalsInv', \A k \in Keys : Unlinking(k) => Unlinking(k)'
  PROVE  DictInv'
  <1>1. /\ data' = d /\ ttl' \in {ttl, None} /\ exp' \in [Keys -> Times] /\ due' \in [Keys -> Times]
        /\ \A k \in Keys : /\ exp'[k] = IF mode = "hash" \/ k \notin ks THEN exp[k] ELSE None
                           /\ due'[k] = IF k \in ks THEN None ELSE due[k]
    BY DEF Store, Erase, DictInv, SharedOK, Times
  <1>2. SharedOK'
    BY <1>1 DEF DictInv, SharedOK, Times, config
  <1>3. KeptInv'
    BY <1>1 DEF DictInv, KeptInv
  <1>4. PlainInv' /\ SingleInv' /\ NeverEarly'
    BY <1>1 DEF DictInv, PlainInv, SingleInv, NeverEarly, config
  <1>5. QED
    BY <1>2, <1>3, <1>4 DEF DictInv

LEMMA SetBatchStep ==
  ASSUME DictInv, NEW c \in Clients, NEW ks \in SUBSET Keys, NEW v \in Values, NEW ex \in Lives,
         SetBatch(c, ks, v, ex)
  PROVE  DictInv'
  <1>1. Effective(ex) # None =>
          LegalLocal([Idle EXCEPT !.at = "batch", !.ks = ks, !.life = Effective(ex)])
    BY EffectiveLife DEF SetBatch, DictInv, SharedOK, LegalLocal, Idle, Nothing, Locals, Times
  <1>2. LocalsInv' /\ \A j \in Keys : Unlinking(j) => Unlinking(j)'
    BY <1>1, Moves, Stays DEF SetBatch, DictInv, At
  <1>3. /\ Fill(data, ks, v) \in [Keys -> Values \cup {None}]
        /\ \A k \in Keys \ ks : Fill(data, ks, v)[k] = data[k]
        /\ \A k \in ks : Fill(data, ks, v)[k] # None
    BY NoneAssumption DEF Fill, DictInv, SharedOK
  <1>4. QED
    BY <1>2, <1>3, Unpromised DEF SetBatch

(* Expirations written for some keys, promised from then on.                *)
LEMMA Promised ==
  ASSUME DictInv, NEW ks \in SUBSET Keys, NEW g \in [Keys -> Times],
         mode = "string" => \A k \in ks : data[k] # None,
         Store(data, Overlay(exp, ks, g)), due' = Overlay(due, ks, g),
         ~only, UNCHANGED <<config, now, early, torn>>,
         LocalsInv', \A k \in Keys : Unlinking(k) => Unlinking(k)'
  PROVE  DictInv'
  <1>1. /\ data' = data /\ ttl' \in {ttl, None} /\ exp' \in [Keys -> Times] /\ due' \in [Keys -> Times]
        /\ \A k \in Keys : /\ exp'[k] = IF k \in ks THEN g[k] ELSE exp[k]
                           /\ due'[k] = IF k \in ks THEN g[k] ELSE due[k]
    BY DEF Store, Overlay, DictInv, SharedOK
  <1>2. SharedOK'
    BY <1>1 DEF DictInv, SharedOK, Times, config
  <1>3. KeptInv'
    BY <1>1 DEF DictInv, KeptInv
  <1>4. PlainInv' /\ SingleInv' /\ NeverEarly'
    BY <1>1 DEF DictInv, PlainInv, SingleInv, NeverEarly, config
  <1>5. QED
    BY <1>2, <1>3, <1>4 DEF DictInv

LEMMA PromisedAll ==
  ASSUME DictInv, NEW ks \in SUBSET Keys, NEW t \in Nat,
         mode = "string" => \A k \in ks : data[k] # None,
         Store(data, Fill(exp, ks, t)), due' = Fill(due, ks, t),
         ~only, UNCHANGED <<config, now, early, torn>>,
         LocalsInv', \A k \in Keys : Unlinking(k) => Unlinking(k)'
  PROVE  DictInv'
  <1> DEFINE g == [k \in Keys |-> t]
  <1>1. g \in [Keys -> Times]
    BY DEF Times
  <1>2. Fill(exp, ks, t) = Overlay(exp, ks, g) /\ Fill(due, ks, t) = Overlay(due, ks, g)
    BY DEF Fill, Overlay
  <1> HIDE DEF g
  <1>3. QED
    BY <1>1, <1>2, Promised

LEMMA HsetExpireBatchStep ==
  ASSUME DictInv, NEW c \in Clients, HsetExpireBatch(c)
  PROVE  DictInv'
  <1>1. /\ pc[c] \in Locals /\ pc[c].ks \subseteq Keys /\ ~At(c, "unlink") /\ ~only
        /\ now + pc[c].life \in Nat /\ LegalLocal(pc[c])
    BY DEF HsetExpireBatch, DictInv, SharedOK, LocalsInv, LegalLocal, Locals, At
  <1>2. CASE Return(c)
    <2>1. LocalsInv' /\ \A j \in Keys : Unlinking(j) => Unlinking(j)'
      BY <1>1, <1>2, IdleLocal, Moves DEF HsetExpireBatch, Return, DictInv
    <2>2. PICK ks \in SUBSET Keys :
            /\ mode = "string" => \A k \in ks : data[k] # None
            /\ Store(data, Fill(exp, ks, now + pc[c].life)) /\ due' = Fill(due, ks, now + pc[c].life)
      <3>1. CASE mode = "hash" /\ Store(data, Fill(exp, pc[c].ks, now + pc[c].life))
                 /\ due' = Fill(due, pc[c].ks, now + pc[c].life)
        BY <1>1, <3>1
      <3>2. CASE mode = "string" /\ \E k \in pc[c].ks :
                   /\ Store(data, Fill(exp, {k} \cap Present(data), now + pc[c].life))
                   /\ due' = Fill(due, {k} \cap Present(data), now + pc[c].life)
        BY <1>1, <3>2 DEF Present
      <3>3. QED
        BY <3>1, <3>2 DEF HsetExpireBatch
    <2>3. QED
      BY <1>1, <2>1, <2>2, PromisedAll DEF HsetExpireBatch
  <1>3. CASE \E k \in pc[c].ks :
               /\ Store(data, Fill(exp, {k} \cap Present(data), now + pc[c].life))
               /\ due' = Fill(due, {k} \cap Present(data), now + pc[c].life)
               /\ pc' = [pc EXCEPT ![c].ks = @ \ {k}]
    <2>1. PICK k \in pc[c].ks :
               /\ Store(data, Fill(exp, {k} \cap Present(data), now + pc[c].life))
               /\ due' = Fill(due, {k} \cap Present(data), now + pc[c].life)
               /\ pc' = [pc EXCEPT ![c].ks = @ \ {k}]
      BY <1>3
    <2>2. /\ LegalLocal([pc[c] EXCEPT !.ks = @ \ {k}])
          /\ Goto(c, [pc[c] EXCEPT !.ks = @ \ {k}])
      BY <1>1, <2>1 DEF HsetExpireBatch, At, LegalLocal, Locals, Goto
    <2>3. LocalsInv' /\ \A j \in Keys : Unlinking(j) => Unlinking(j)'
      BY <1>1, <2>2, Moves DEF HsetExpireBatch, DictInv
    <2>4. {k} \cap Present(data) \in SUBSET Keys /\ \A j \in {k} \cap Present(data) : data[j] # None
      BY DEF Present
    <2>5. QED
      BY <1>1, <2>1, <2>3, <2>4, PromisedAll DEF HsetExpireBatch
  <1>4. QED
    BY <1>2, <1>3 DEF HsetExpireBatch

(* Values removed from a hash whose entries stay.                           *)
LEMMA Orphaned ==
  ASSUME DictInv, NEW ks \in SUBSET Keys, mode = "hash", ~only,
         Store(Erase(data, ks), exp), UNCHANGED <<config, now, due, early, torn>>,
         LocalsInv', \A k \in Keys : Unlinking(k) => Unlinking(k)'
  PROVE  DictInv'
  <1>1. /\ data' \in [Keys -> Values \cup {None}] /\ ttl' \in {ttl, None} /\ exp' = exp
        /\ \A k \in Keys : data'[k] = IF k \in ks THEN None ELSE data[k]
    BY DEF Store, Erase, DictInv, SharedOK
  <1>2. SharedOK' /\ KeptInv' /\ PlainInv' /\ SingleInv' /\ NeverEarly'
    BY <1>1 DEF DictInv, SharedOK, Times, config, KeptInv, PlainInv, SingleInv, NeverEarly
  <1>3. QED
    BY <1>2 DEF DictInv

LEMMA ClearStep ==
  ASSUME DictInv, NEW c \in Clients, NEW ks \in SUBSET Keys, Clear(c, ks)
  PROVE  DictInv'
  <1>1. ~only /\ ~At(c, "unlink") /\ early' \subseteq Keys \X {"expired", "undecoded"} /\ NeverEarly'
    BY DEF Clear, At, DictInv, SharedOK, NeverEarly, config
  <1>2. \A s \in SUBSET Keys : LegalLocal([Idle EXCEPT !.at = "clear", !.ks = s])
    BY <1>1 DEF DictInv, SharedOK, LegalLocal, Idle, Nothing, Locals, Times
  <1>3. LocalsInv' /\ \A j \in Keys : Unlinking(j) => Unlinking(j)'
    BY <1>1, <1>2, Moves, Stays DEF Clear, DictInv, FetchKeys, Present
  <1>4. CASE mode = "hash"
    BY <1>1, <1>3, <1>4, Orphaned DEF Clear
  <1>5. CASE mode = "string" /\ ks # {}
    BY <1>1, <1>3, <1>5, Removed DEF Clear
  <1>6. CASE mode = "string" /\ ks = {}
    BY <1>3, <1>6, Looks DEF Clear
  <1>7. QED
    BY <1>4, <1>5, <1>6 DEF Clear

(* The second command of a clear takes the entry of a value set since.      *)
LEMMA ClearRestStep ==
  ASSUME DictInv, NEW c \in Clients, ClearRest(c)
  PROVE  DictInv'
  <1>1. ~only /\ ~At(c, "unlink") /\ pc[c].ks \subseteq Keys /\ early' \subseteq Keys \X {"expired", "undecoded"} /\ NeverEarly'
    BY DEF ClearRest, At, DictInv, SharedOK, LocalsInv, LegalLocal, Locals, NeverEarly, config
  <1>2. LocalsInv' /\ \A j \in Keys : Unlinking(j) => Unlinking(j)'
    BY <1>1, IdleLocal, Moves DEF ClearRest, Return, DictInv
  <1>3. CASE mode = "hash"
    <2>1. /\ data' = data /\ ttl' \in {ttl, None} /\ exp' \in [Keys -> Times]
          /\ \A j \in Keys : exp'[j] = exp[j] \/ j \in pc[c].ks
          /\ torn' = torn \cup (pc[c].ks \cap {k \in Keys : data[k] # None})
      BY <1>3 DEF ClearRest, Store, Erase, Present, DictInv, SharedOK, Times
    <2>2. SharedOK'
      BY <1>1, <2>1 DEF ClearRest, DictInv, SharedOK, Times, config
    <2>3. KeptInv'
      BY <1>2, <2>1 DEF ClearRest, DictInv, KeptInv
    <2>4. PlainInv' /\ SingleInv' /\ NeverEarly'
      BY <1>1, <1>3 DEF ClearRest, DictInv, PlainInv, SingleInv, NeverEarly, config
    <2>5. QED
      BY <1>2, <2>2, <2>3, <2>4 DEF DictInv
  <1>4. CASE mode # "hash"
    BY <1>1, <1>2, <1>4, Removed DEF ClearRest
  <1>5. QED
    BY <1>3, <1>4

(* A migration writes back what it has read: a field that went away in      *)
(* between comes back without its entry, which torn remembers.              *)
LEMMA MigrateReadStep ==
  ASSUME DictInv, NEW c \in Clients, MigrateRead(c)
  PROVE  DictInv'
  <1>1. ~only /\ ~At(c, "unlink") /\ FetchKeys \subseteq Keys
    BY DEF MigrateRead, At, DictInv, LocalsInv, LegalLocal, FetchKeys, Present
  <1>2. mode # "string" => LegalLocal([Idle EXCEPT !.at = "migrate", !.ks = FetchKeys, !.vals = data])
    BY <1>1 DEF DictInv, SharedOK, LegalLocal, Idle, Nothing, Locals, Times
  <1>3. LocalsInv' /\ \A j \in Keys : Unlinking(j) => Unlinking(j)'
    BY <1>1, <1>2, IdleLocal, Moves DEF MigrateRead, Return, DictInv
  <1>4. QED
    BY <1>3, Looks DEF MigrateRead

LEMMA MigrateWriteStep ==
  ASSUME DictInv, NEW c \in Clients, MigrateWrite(c)
  PROVE  DictInv'
  <1>1. /\ ~only /\ ~At(c, "unlink") /\ mode = "hash"
        /\ pc[c].ks \in SUBSET Keys /\ pc[c].vals \in [Keys -> Values \cup {None}]
    BY DEF MigrateWrite, At, DictInv, SharedOK, LocalsInv, LegalLocal, Locals
  <1>2. LocalsInv' /\ \A j \in Keys : Unlinking(j) => Unlinking(j)'
    BY <1>1, IdleLocal, Moves DEF MigrateWrite, Return, DictInv
  <1>3. /\ data' \in [Keys -> Values \cup {None}] /\ ttl' \in {ttl, None} /\ exp' = exp
        /\ \A k \in Keys : k \notin pc[c].ks => data'[k] = data[k]
        /\ \A k \in pc[c].ks : data[k] = None => k \in torn'
        /\ torn \subseteq torn' /\ torn' \subseteq Keys
    BY <1>1 DEF MigrateWrite, Store, Overlay, Present, DictInv, SharedOK
  <1>4. SharedOK'
    BY <1>3 DEF MigrateWrite, DictInv, SharedOK, Times, config
  <1>5. KeptInv'
    BY <1>2, <1>3 DEF MigrateWrite, DictInv, KeptInv
  <1>6. PlainInv' /\ SingleInv' /\ NeverEarly'
    BY <1>1 DEF MigrateWrite, DictInv, PlainInv, SingleInv, NeverEarly, config
  <1>7. QED
    BY <1>2, <1>4, <1>5, <1>6 DEF DictInv

(***************************************************************************)
(* Dumps and copies                                                        *)
(***************************************************************************)
LEMMA ImportTyped ==
  ASSUME NEW i \in Imports
  PROVE  i.data \in [Keys -> Values \cup {None}] /\ i.exp \in [Keys -> Times]
  BY ImportAssumption, TimeAssumption DEF Times

LEMMA LoadValuesStep ==
  ASSUME DictInv, NEW c \in Clients, NEW i \in Imports, NEW whole \in BOOLEAN,
         LoadValues(c, i, whole)
  PROVE  DictInv'
  <1> DEFINE ks == Present(i.data)
  <1>1. /\ ks \in SUBSET Keys /\ \A k \in ks : i.data[k] # None
        /\ Present(i.exp) \in SUBSET Keys /\ ~only
    BY DEF Present, LoadValues
  <1>2. Present(i.exp) # {} \/ expiration # None =>
          (mode = "hash" => LegalLocal([Idle EXCEPT !.at = "load", !.ks = Present(i.exp), !.idx = i.exp]))
    BY <1>1, ImportTyped DEF DictInv, SharedOK, LegalLocal, Idle, Nothing, Locals, Times
  <1>3. LocalsInv' /\ \A j \in Keys : Unlinking(j) => Unlinking(j)'
    BY <1>1, <1>2, Moves, Stays DEF LoadValues, DictInv, At
  <1>4. /\ Overlay(data, ks, i.data) \in [Keys -> Values \cup {None}]
        /\ \A k \in Keys \ ks : Overlay(data, ks, i.data)[k] = data[k]
        /\ \A k \in ks : Overlay(data, ks, i.data)[k] # None
    BY <1>1, ImportTyped DEF Overlay, DictInv, SharedOK
  <1>5. /\ Store(Overlay(data, ks, i.data), IF mode = "hash" THEN exp ELSE Erase(exp, ks))
        /\ due' = Erase(due, ks) /\ UNCHANGED <<config, now, early, torn>>
    BY DEF LoadValues
  <1> HIDE DEF ks
  <1>6. QED
    BY <1>1, <1>3, <1>4, <1>5, Unpromised

LEMMA LoadExpirationsStep ==
  ASSUME DictInv, NEW c \in Clients, LoadExpirations(c)
  PROVE  DictInv'
  <1>1. /\ ~only /\ ~At(c, "unlink") /\ mode = "hash"
        /\ pc[c].ks \in SUBSET Keys /\ pc[c].idx \in [Keys -> Times]
        /\ pc[c].ks = {} => expiration # None
    BY DEF LoadExpirations, At, DictInv, SharedOK, LocalsInv, LegalLocal, Locals
  <1>2. LocalsInv' /\ \A j \in Keys : Unlinking(j) => Unlinking(j)'
    BY <1>1, IdleLocal, Moves DEF LoadExpirations, Return, DictInv
  <1>3. CASE pc[c].ks # {}
    BY <1>1, <1>2, <1>3, Promised DEF LoadExpirations
  <1>4. CASE pc[c].ks = {}
    <2>1. ttl' \in Times
      BY <1>1, <1>4, ExpirationAssumption DEF LoadExpirations, DictInv, SharedOK, Times
    <2>2. SharedOK' /\ KeptInv' /\ PlainInv' /\ SingleInv' /\ NeverEarly'
      BY <1>1, <1>2, <1>4, <2>1 DEF LoadExpirations, DictInv, SharedOK, config, KeptInv, PlainInv, SingleInv, NeverEarly
    <2>3. QED
      BY <1>2, <2>2 DEF DictInv
  <1>5. QED
    BY <1>3, <1>4

LEMMA CloneReadStep ==
  ASSUME DictInv, NEW c \in Clients, NEW i \in Imports, NEW overwrite \in BOOLEAN,
         CloneRead(c, i, overwrite)
  PROVE  DictInv'
  <1>1. ASSUME NEW ks \in SUBSET Keys, NEW n \in {"overwrite", "return"}
        PROVE  LegalLocal([Idle EXCEPT !.at = "clone", !.ks = ks,
                                       !.vals = i.data, !.idx = i.exp, !.next = n])
    BY ImportTyped DEF CloneRead, DictInv, SharedOK, LegalLocal, Idle, Nothing, Locals, Times
  <1>2. LocalsInv' /\ \A j \in Keys : Unlinking(j) => Unlinking(j)'
    <2> DEFINE had == IF overwrite THEN {} ELSE FetchKeys
               n == IF overwrite THEN "overwrite" ELSE "return"
    <2>1. Present(i.data) \ had \in SUBSET Keys /\ n \in {"overwrite", "return"}
      BY DEF Present
    <2>2. Goto(c, [Idle EXCEPT !.at = "clone", !.ks = Present(i.data) \ had,
                               !.vals = i.data, !.idx = i.exp, !.next = n])
      BY DEF CloneRead
    <2> HIDE DEF had, n
    <2>3. QED
      BY <1>1, <2>1, <2>2, Moves DEF CloneRead, DictInv, At
  <1>3. QED
    BY <1>2, Looks DEF CloneRead

LEMMA CloneWriteStep ==
  ASSUME DictInv, NEW c \in Clients, CloneWrite(c)
  PROVE  DictInv'
  <1>1. /\ ~only /\ ~At(c, "unlink") /\ mode = "hash" /\ pc[c].ks \in SUBSET Keys
        /\ pc[c].vals \in [Keys -> Values \cup {None}] /\ pc[c].idx \in [Keys -> Times]
    BY DEF CloneWrite, At, DictInv, SharedOK, LocalsInv, LegalLocal, Locals
  <1>2. LegalLocal([Idle EXCEPT !.at = "cloneExp", !.idx = pc[c].idx, !.next = pc[c].next])
    BY <1>1 DEF DictInv, LocalsInv, SharedOK, LegalLocal, Idle, Nothing, Locals, Times
  <1>3. LocalsInv' /\ \A j \in Keys : Unlinking(j) => Unlinking(j)'
    BY <1>1, <1>2, Moves DEF CloneWrite, DictInv
  <1>4. /\ Overlay(data, pc[c].ks, pc[c].vals) \in [Keys -> Values \cup {None}]
        /\ \A k \in Keys \ pc[c].ks : Overlay(data, pc[c].ks, pc[c].vals)[k] = data[k]
    BY <1>1 DEF Overlay, DictInv, SharedOK
  <1>5. QED
    BY <1>1, <1>3, <1>4, Unpromised DEF CloneWrite

LEMMA CloneExpReadStep ==
  ASSUME DictInv, NEW c \in Clients, CloneExpRead(c)
  PROVE  DictInv'
  <1> DEFINE had == IF pc[c].next = "overwrite" THEN {} ELSE Present(exp)
             new == Present(pc[c].idx) \ had
  <1>1. /\ ~only /\ ~At(c, "unlink") /\ mode = "hash" /\ pc[c].idx \in [Keys -> Times]
        /\ new \in SUBSET Keys
    BY DEF CloneExpRead, At, DictInv, SharedOK, LocalsInv, LegalLocal, Locals, Present
  <1>2. new # {} => LegalLocal([Idle EXCEPT !.at = "load", !.ks = new, !.idx = pc[c].idx])
    BY <1>1 DEF DictInv, SharedOK, LegalLocal, Idle, Nothing, Locals, Times
  <1>3. LocalsInv' /\ \A j \in Keys : Unlinking(j) => Unlinking(j)'
    BY <1>1, <1>2, IdleLocal, Moves DEF CloneExpRead, Return, DictInv
  <1>4. QED
    BY <1>3, Looks DEF CloneExpRead

(***************************************************************************)
(* Time                                                                    *)
(***************************************************************************)
(* Redis removes plain keys at the end of their own life, and a whole hash  *)
(* only where its life was set.                                             *)
LEMMA TickStep ==
  ASSUME DictInv, Tick
  PROVE  DictInv'
  <1> DEFINE ended(t) == t # None /\ t <= now + 1
             gone == IF mode = "string" THEN {k \in Keys : ended(exp[k])}
                     ELSE IF ended(ttl) THEN Keys ELSE {}
  <1>1. /\ data' = Erase(data, gone) /\ ttl' \in {ttl, None}
        /\ exp' = IF mode = "string" THEN Erase(exp, gone) ELSE exp
        /\ early' = early \cup {<<k, "expired">> : k \in {j \in gone : data[j] # None /\ ~ended(due[j])}}
        /\ UNCHANGED <<config, pc, due, torn>> /\ now' = now + 1
    BY DEF Tick, Store
  <1>2. /\ gone \subseteq Keys /\ only /\ mode = "hash" => gone = {}
        /\ mode = "string" => \A k \in gone : data[k] # None => ended(due[k])
    BY DEF DictInv, SharedOK, PlainInv, SingleInv
  <1>3. LocalsInv' /\ \A j \in Keys : Unlinking(j) => Unlinking(j)'
    BY <1>1, Stays DEF DictInv
  <1>4. NeverEarly' /\ early' \subseteq Keys \X {"expired", "undecoded"}
    BY <1>1, <1>2 DEF DictInv, SharedOK, NeverEarly, config
  <1> HIDE DEF gone
  <1>5. /\ data' \in [Keys -> Values \cup {None}] /\ exp' \in [Keys -> Times]
        /\ \A k \in Keys : /\ data'[k] = IF k \in gone THEN None ELSE data[k]
                           /\ exp'[k] = IF k \in gone /\ mode = "string" THEN None ELSE exp[k]
    BY <1>1 DEF Erase, DictInv, SharedOK, Times
  <1>6. SharedOK'
    BY <1>1, <1>4, <1>5 DEF DictInv, SharedOK, Times, config
  <1>7. KeptInv'
    BY <1>1, <1>3, <1>5 DEF DictInv, KeptInv
  <1>8. PlainInv' /\ SingleInv'
    BY <1>1, <1>5 DEF DictInv, PlainInv, SingleInv, config
  <1>9. QED
    BY <1>3, <1>4, <1>6, <1>7, <1>8 DEF DictInv

(***************************************************************************)
(* The invariant, and what it shows                                        *)
(***************************************************************************)
LEMMA InitDict == Init => DictInv
  <1> SUFFICES ASSUME Init PROVE DictInv
    OBVIOUS
  <1>1. SharedOK
    BY DEF Init, SharedOK, Times
  <1>2. LocalsInv
    BY <1>1, IdleLocal DEF Init, LocalsInv
  <1>3. KeptInv /\ PlainInv /\ SingleInv /\ NeverEarly
    BY DEF Init, KeptInv, PlainInv, SingleInv, NeverEarly
  <1>4. QED
    BY <1>1, <1>2, <1>3 DEF DictInv

LEMMA ThreadStep ==
  ASSUME DictInv, NEW c \in Threads, ThreadNext(c)
  PROVE  DictInv'
  <1>1. c \in Clients
    BY DEF Clients
  <1>2. ASSUME NEW k \in Keys, \/ \E v \in Values, ex \in Lives : Set(c, k, v, ex)
                               \/ Get(c, k) \/ Delete(c, k) \/ Smembers(c, k) \/ Spop(c, k)
        PROVE  DictInv'
    BY <1>1, <1>2, SetStep, GetStep, DeleteStep DEF Smembers, Spop
  <1>3. ASSUME NEW ks \in SUBSET Keys, \/ Clear(c, ks)
                                       \/ \E v \in Values, ex \in Lives : SetBatch(c, ks, v, ex)
        PROVE  DictInv'
    BY <1>1, <1>3, ClearStep, SetBatchStep
  <1>4. CASE \/ Length(c) \/ GetKeys(c) \/ GetValues(c) \/ GetAllData(c) \/ GetAllValues(c)
             \/ GetAllDataRaw(c) \/ MigrateSchema(c)
    BY <1>1, <1>4, RunExpirationCheckStep
    DEF Length, GetKeys, GetValues, GetAllData, GetAllValues, GetAllDataRaw, MigrateSchema
  <1>5. ASSUME NEW i \in Imports, LoadDataRaw(c, i) \/ ReplicateFrom(c, i) PROVE DictInv'
    BY <1>1, <1>5, LoadValuesStep DEF LoadDataRaw, ReplicateFrom
  <1>6. ASSUME NEW m \in Members, Sadd(c, m) \/ Srem(c, m) PROVE DictInv'
    <2>1. pc[c].mem \subseteq Members
      BY <1>1 DEF DictInv, LocalsInv, Locals
    <2>2. <<"tuple", {m}>> \in Values /\ <<"set", pc[c].mem \ {m}>> \in Values
      BY <2>1 DEF Values
    <2>3. QED
      BY <1>1, <1>6, <2>2, WriteBackStep DEF Sadd, Srem
  <1>7. QED
    BY <1>2, <1>3, <1>4, <1>5, <1>6 DEF ThreadNext

LEMMA CoroutineStep ==
  ASSUME DictInv, NEW c \in Coroutines, CoroutineNext(c)
  PROVE  DictInv'
  <1>1. c \in Clients
    BY DEF Clients
  <1>2. ASSUME NEW k \in Keys, \/ \E v \in Values, ex \in Lives : ASet(c, k, v, ex)
                               \/ AGet(c, k) \/ ADelete(c, k)
        PROVE  DictInv'
    BY <1>1, <1>2, SetStep, GetStep, DeleteStep DEF ASet, AGet, ADelete
  <1>3. ASSUME NEW ks \in SUBSET Keys, \/ AClear(c, ks)
                                       \/ \E v \in Values, ex \in Lives : ASetBatch(c, ks, v, ex)
        PROVE  DictInv'
    BY <1>1, <1>3, ClearStep, SetBatchStep DEF AClear, ASetBatch
  <1>4. CASE AGetKeys(c) \/ AGetValues(c) \/ AGetAllData(c) \/ AGetAllValues(c) \/ AMigrateSchema(c)
    BY <1>1, <1>4, RunExpirationCheckStep
    DEF AGetKeys, AGetValues, AGetAllData, AGetAllValues, AMigrateSchema
  <1>5. ASSUME NEW i \in Imports,
               \/ ALoadDataRaw(c, i) \/ AReplicateFrom(c, i)
               \/ \E overwrite \in BOOLEAN : Aclone(c, i, overwrite) \/ AcloneFrom(c, i, overwrite)
        PROVE  DictInv'
    BY <1>1, <1>5, LoadValuesStep, CloneReadStep DEF ALoadDataRaw, AReplicateFrom, Aclone, AcloneFrom
  <1>6. ASSUME NEW m \in Members, Asadd(c, m) \/ Asrem(c, m) PROVE DictInv'
    <2>1. pc[c].mem \subseteq Members
      BY <1>1 DEF DictInv, LocalsInv, Locals
    <2>2. <<"set", pc[c].mem \cup {m}>> \in Values /\ <<"set", pc[c].mem \ {m}>> \in Values
      BY <2>1 DEF Values
    <2>3. QED
      BY <1>1, <1>6, <2>2, WriteBackStep DEF Asadd, Asrem, Srem
  <1>7. QED
    BY <1>2, <1>3, <1>4, <1>5, <1>6 DEF CoroutineNext

LEMMA ClientStep ==
  ASSUME DictInv, NEW c \in Clients, ClientNext(c)
  PROVE  DictInv'
  <1>1. ASSUME NEW k \in Keys,
               \/ Contains(c, k) \/ SetOpRead(c, k) \/ Incrby(c, k) \/ Decrby(c, k)
               \/ \E ex \in Lives : Expire(c, k, ex)
               \/ \E m \in Members : NativeSetOp(c, k, m)
        PROVE  DictInv'
    BY <1>1, ExpirationCheckStep, SetOpReadStep, AddToStep, ExpireStep, NativeSetOpStep
    DEF Contains, Incrby, Decrby
  <1>2. CASE DropUndecodable(c) \/ CheckEntry(c) \/ Unlink(c) \/ ScanRead(c)
    BY <1>2, DropUndecodableStep, CheckEntryStep, UnlinkStep, ScanReadStep
  <1>3. CASE HsetExpireBatch(c) \/ ClearRest(c) \/ MigrateRead(c) \/ MigrateWrite(c)
    BY <1>3, HsetExpireBatchStep, ClearRestStep, MigrateReadStep, MigrateWriteStep
  <1>4. CASE LoadExpirations(c) \/ CloneWrite(c) \/ CloneExpRead(c)
    BY <1>4, LoadExpirationsStep, CloneWriteStep, CloneExpReadStep
  <1>5. QED
    BY <1>1, <1>2, <1>3, <1>4 DEF ClientNext

LEMMA DictInvariant == Spec => []DictInv
  <1>1. DictInv /\ [Next]_vars => DictInv'
    <2> SUFFICES ASSUME DictInv, [Next]_vars PROVE DictInv'
      OBVIOUS
    <2>1. CASE \E c \in Threads : ThreadNext(c)
      BY <2>1, ThreadStep
    <2>2. CASE \E c \in Coroutines : CoroutineNext(c)
      BY <2>2, CoroutineStep
    <2>3. CASE \E c \in Clients : ClientNext(c)
      BY <2>3, ClientStep
    <2>4. CASE Tick
      BY <2>4, TickStep
    <2>5. CASE UNCHANGED vars
      <3>1. LocalsInv' /\ \A j \in Keys : Unlinking(j) => Unlinking(j)'
        BY <2>5, Stays DEF vars, config, DictInv
      <3>2. QED
        BY <2>5, <3>1, Looks DEF vars, config, store
    <2>6. QED
      BY <2>1, <2>2, <2>3, <2>4, <2>5 DEF Next
  <1>2. QED
    BY InitDict, <1>1, PTL DEF Spec

(* An expiration that was given to a stored value stays with the value, but *)
(* for the two windows between two commands on the two hashes and for what  *)
(* a migration brings back, whatever methods of however many threads and    *)
(* coroutines interleave.                                                   *)
THEOREM ExpirationKept == Spec => []ExpirationIsKept
  <1>1. DictInv => ExpirationIsKept
    BY DEF DictInv, SharedOK, LocalsInv, KeptInv, ExpirationIsKept, TypeOK
  <1>2. QED
    BY <1>1, DictInvariant, PTL

(* A value is removed as expired before its time only from a hash, and      *)
(* there only where more than single fields are used or the backend has no  *)
(* expiration.  The one other step that may take a fresh value is the       *)
(* deletion that follows a failed decode, and nothing is claimed of it.     *)
THEOREM NeverRemovedEarly == Spec => []NeverEarly
  <1>1. DictInv => NeverEarly
    BY DEF DictInv
  <1>2. QED
    BY <1>1, DictInvariant, PTL
=============================================================================
