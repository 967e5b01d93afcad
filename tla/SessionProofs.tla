---------------------------- MODULE SessionProofs ----------------------------
(* Proofs about Session, for any threads, names, serializers and calls.     *)
EXTENDS Session, SequenceTheorems, TLAPS

Places == {"key", "pool", "build", "store", "ctx"}
Calls == [pc : Places, a : Args, queue : BOOLEAN, pool : 0..Len(made)]

(* A thread is in no call, or in one whose arguments and pool exist; the    *)
(* URL object of the settings has a key once one was set.                   *)
CallInv ==
  /\ call \in [Threads -> Calls \cup {Idle}]
  /\ \A t \in Threads :
       /\ call[t].pc = "store" => call[t].pool # 0
       /\ call[t].pc \in {"pool", "build"} /\ ~call[t].a.own => key # None
       /\ call[t].pc = "ctx" => sessions[call[t].a.name] # 0
       /\ call[t] # Idle /\ call[t].queue => call[t].a.name = QueueName

(* As long as no two sessions with different keys were made at once, the    *)
(* pool a thread has been given, or will be, is one for its serializer.     *)
KindInv ==
  ~mixed => \A t \in Threads :
              /\ call[t].pc = "store" => made[call[t].pool].kind = call[t].a.kind
              /\ call[t].pc \in {"pool", "build"} /\ ~call[t].a.own => key = call[t].a.kind

(* An encoder that nobody has switched is the one its pool was made with.   *)
EncoderInv ==
  \A p \in DOMAIN made, x \in Sides :
    x = "apool" \/ p \notin toggled =>
      made[p].enc[x] = NewEncoder(IF made[p].kind = Plain THEN None ELSE made[p].kind)

(* What such an encoder has stored for a session with a serializer.         *)
StoreInv ==
  store # NoValue /\ ~mixed /\ ~store.off /\ store.by \in Serializers =>
    /\ store.put \in {"object", "text", "null", "none"}
    /\ store.put = "object" => store.ser = store.by /\ store.val = "object"
    /\ store.put # "object" => store.ser = None
    /\ store.put = "none" => store.val = "null"
    /\ store.put \in {"text", "null"} => store.val = store.put

(* Names lead to sessions of the name, and calls for one name that overlap  *)
(* are remembered.                                                          *)
NameInv ==
  /\ \A n \in Names : sessions[n] # 0 => opened[sessions[n]].name = n
  /\ \A s \in DOMAIN opened : sessions[opened[s].name] # 0
  /\ \A t, u \in Threads :
       t # u /\ call[t] # Idle /\ call[u] # Idle /\ call[t].a.name = call[u].a.name =>
         call[t].a.name \in twice
  /\ \A t \in Threads :
       call[t].pc \in {"key", "pool", "build", "store"} /\ sessions[call[t].a.name] # 0 =>
         call[t].a.name \in twice

(* The context is the session of its name, or a call is about to make it so. *)
ContextInv ==
  /\ opened # <<>> /\ ~bare => ctx # 0 \/ \E t \in Threads : call[t].pc = "ctx"
  /\ ctx # 0 => \/ opened[ctx].name \in replaced
                \/ sessions[opened[ctx].name] = ctx
                \/ \E t \in Threads : call[t].pc = "ctx" /\ call[t].a.name = opened[ctx].name

SessionInv == /\ TypeOK /\ CallInv /\ KindInv /\ PoolOfItsKind /\ EncoderInv /\ StoreInv
              /\ NameInv /\ ContextInv /\ OneSession

(***************************************************************************)
(* Types                                                                   *)
(***************************************************************************)
PoolMade == [kind : Kinds, enc : [Sides -> [ser : Serializers \cup {None}, decode : BOOLEAN]]]
SessionMade == [name : Names, kind : Kinds, pool : 1..Len(made)]

(* The tables of pools and sessions in the form the proofs need.            *)
LEMMA Tables ==
  ASSUME TypeOK
  PROVE  /\ Len(made) \in Nat /\ Len(opened) \in Nat
         /\ DOMAIN made = 1..Len(made) /\ DOMAIN opened = 1..Len(opened)
         /\ \A p \in 1..Len(made) : made[p] \in PoolMade
         /\ \A s \in 1..Len(opened) : opened[s] \in SessionMade
         /\ opened = <<>> <=> Len(opened) = 0
  <1>1. made \in Seq(PoolMade) /\ opened \in Seq(SessionMade)
    BY DEF TypeOK, PoolMade, SessionMade
  <1>2. QED
    BY <1>1, LenProperties, ElementOfSeq, EmptySeq

(* A call of session that finds what it asked for.                          *)
Found(t, a, queue) ==
  /\ sessions[a.name] # 0
  /\ ctx' = IF a.setCtx = TRUE THEN sessions[a.name] ELSE ctx
  /\ queueCtx' = IF queue THEN sessions[a.name] ELSE queueCtx
  /\ Return(t, a.name, sessions[a.name])
  /\ UNCHANGED twice

(* And one that sets out to make it.                                        *)
Starts(t, a, queue) ==
  /\ sessions[a.name] = 0 \/ a.over
  /\ call' = [call EXCEPT ![t] = [pc |-> "key", a |-> a, queue |-> queue, pool |-> 0]]
  /\ twice' = IF a.over \/ \E u \in Threads \ {t} : call[u] # Idle /\ call[u].a.name = a.name
              THEN twice \cup {a.name} ELSE twice
  /\ UNCHANGED <<ctx, queueCtx, got>>

Shared == <<key, pools, sessions, opened, made, store, mixed, replaced, bare, toggled, commands>>

LEMMA SessionSplit ==
  ASSUME NEW t, NEW a, NEW queue, Session(t, a, queue)
  PROVE  /\ call[t] = Idle /\ calls < MaxCalls /\ calls' = calls + 1 /\ UNCHANGED Shared
         /\ Found(t, a, queue) \/ Starts(t, a, queue)
  BY DEF Session, Found, Starts, Shared

(* What a thread asks for is a request for a known name.                    *)
Asks(t) ==
  \E a \in Args, queue \in BOOLEAN : (queue => a.name = QueueName) /\ Session(t, a, queue)

LEMMA Requests ==
  ASSUME TypeOK, NEW t \in Threads,
         \/ Ctx(t)
         \/ \E own \in BOOLEAN : QueueCtx(t, own)
         \/ \E a \in Asked : \/ Session(t, a, FALSE) \/ InitSession(t, a)
                             \/ \E n \in {a.name, None} : GetSession(t, a, n)
  PROVE  Asks(t)
  <1>1. CASE Ctx(t)
    BY <1>1, NamesAssumption DEF Ctx, Asks, Args, Kinds
  <1>2. ASSUME NEW own \in BOOLEAN, QueueCtx(t, own) PROVE Asks(t)
    BY <1>2, NamesAssumption DEF QueueCtx, Asks, Args, Kinds
  <1>3. ASSUME NEW a \in Asked, Session(t, a, FALSE) \/ InitSession(t, a) PROVE Asks(t)
    BY <1>3, AskedAssumption DEF InitSession, Asks
  <1>4. ASSUME NEW a \in Asked, NEW n \in {a.name, None}, GetSession(t, a, n) PROVE Asks(t)
    <2> DEFINE name == IF n # None THEN n ELSE IF ctx = 0 THEN Default ELSE opened[ctx].name
               b == [a EXCEPT !.name = name, !.over = FALSE,
                              !.setCtx = IF sessions[name] = 0 THEN @ ELSE None]
    <2>1. a \in Args
      BY AskedAssumption
    <2>2. ctx \in 0..Len(opened)
      BY DEF TypeOK
    <2>3. \A s \in 1..Len(opened) : opened[s].name \in Names
      BY Tables DEF SessionMade
    <2>4. ctx # 0 => opened[ctx].name \in Names
      BY <2>2, <2>3, Tables
    <2>5. name \in Names
      BY <2>1, <2>4, NamesAssumption DEF Args
    <2> HIDE DEF name
    <2>6. b \in Args
      BY <2>1, <2>5 DEF Args
    <2>7. Session(t, b, FALSE)
      BY <1>4 DEF GetSession, name
    <2>8. QED
      BY <2>6, <2>7 DEF Asks
  <1>5. QED
    BY <1>1, <1>2, <1>3, <1>4


(* A thread in a call is at one of its places.                              *)
LEMMA InCall ==
  ASSUME CallInv, NEW t \in Threads, call[t] # Idle \/ call[t].pc \in Places
  PROVE  call[t] \in Calls /\ call[t] # Idle
  BY DEF CallInv, Idle, Calls, Places

(* What the steps of a call do to the table of calls.                       *)
LEMMA Moved ==
  ASSUME CallInv, NEW t \in Threads, NEW c, c \in Calls' \cup {Idle},
         call' = [call EXCEPT ![t] = c], Len(made) \in Nat, Len(made)' \in Nat, Len(made) <= Len(made)'
  PROVE  /\ call' \in [Threads -> Calls' \cup {Idle}]
         /\ call'[t] = c /\ \A u \in Threads \ {t} : call'[u] = call[u]
         /\ \A u \in Threads : call'[u] # Idle => call'[u].a \in Args /\ call'[u].pool \in 0..Len(made)'
  <1>1. Calls \subseteq Calls'
    BY DEF Calls
  <1>2. /\ call' \in [Threads -> Calls' \cup {Idle}]
        /\ call'[t] = c /\ \A u \in Threads \ {t} : call'[u] = call[u]
    BY <1>1 DEF CallInv
  <1>3. \A d \in Calls' : d.a \in Args /\ d.pool \in 0..Len(made)'
    BY DEF Calls
  <1>4. QED
    BY <1>2, <1>3

LEMMA FoundTypes ==
  ASSUME TypeOK, CallInv, NEW t \in Threads, NEW a \in Args, NEW queue \in BOOLEAN,
         Session(t, a, queue), Found(t, a, queue)
  PROVE  /\ TypeOK' /\ CallInv'
         /\ call'[t] = Idle /\ \A u \in Threads \ {t} : call'[u] = call[u]
         /\ got'[t] = <<a.name, sessions[a.name]>>
         /\ \A u \in Threads \ {t} : got'[u] = got[u]
  <1>1. UNCHANGED Shared /\ call[t] = Idle /\ calls < MaxCalls /\ calls' = calls + 1
    BY SessionSplit
  <1>2. Len(made) \in Nat /\ Len(opened) \in Nat
    BY Tables
  <1>3. a.name \in Names /\ sessions[a.name] \in 0..Len(opened)
    BY DEF TypeOK, Args
  <1>4. /\ call' \in [Threads -> Calls' \cup {Idle}]
        /\ call'[t] = Idle /\ \A u \in Threads \ {t} : call'[u] = call[u]
        /\ \A u \in Threads : call'[u] # Idle => call'[u].a \in Args /\ call'[u].pool \in 0..Len(made)'
    <2>1. UNCHANGED made /\ call' = [call EXCEPT ![t] = Idle]
      BY <1>1 DEF Shared, Found, Return
    <2>2. Len(made)' \in Nat /\ Len(made) <= Len(made)' /\ Idle \in Calls' \cup {Idle}
      BY <2>1, <1>2
    <2>3. QED
      BY <2>1, <2>2, <1>2, Moved
  <1>5. ctx' \in 0..Len(opened) /\ queueCtx' \in 0..Len(opened)
    BY <1>3 DEF TypeOK, Found
  <1>6. /\ got' \in [Threads -> Names \X (0..Len(opened))]
        /\ got'[t] = <<a.name, sessions[a.name]>> /\ \A u \in Threads \ {t} : got'[u] = got[u]
    BY <1>3 DEF TypeOK, Found, Return
  <1>7. calls' \in 0..MaxCalls
    BY <1>1, BoundAssumption DEF TypeOK
  <1>8. TypeOK'
    BY <1>1, <1>4, <1>5, <1>6, <1>7 DEF TypeOK, Shared, Found
  <1>9. CallInv'
    BY <1>1, <1>4 DEF CallInv, Shared, Idle
  <1>10. QED
    BY <1>4, <1>6, <1>8, <1>9


LEMMA StartsTypes ==
  ASSUME TypeOK, CallInv, NEW t \in Threads, NEW a \in Args, NEW queue \in BOOLEAN,
         queue => a.name = QueueName, Session(t, a, queue), Starts(t, a, queue)
  PROVE  /\ TypeOK' /\ CallInv'
         /\ call'[t] = [pc |-> "key", a |-> a, queue |-> queue, pool |-> 0]
         /\ \A u \in Threads \ {t} : call'[u] = call[u]
  <1>1. UNCHANGED Shared /\ call[t] = Idle /\ calls < MaxCalls /\ calls' = calls + 1
    BY SessionSplit
  <1>2. Len(made) \in Nat /\ Len(opened) \in Nat
    BY Tables
  <1> DEFINE c == [pc |-> "key", a |-> a, queue |-> queue, pool |-> 0]
  <1>3. /\ call' \in [Threads -> Calls' \cup {Idle}]
        /\ call'[t] = c /\ \A u \in Threads \ {t} : call'[u] = call[u]
        /\ \A u \in Threads : call'[u] # Idle => call'[u].a \in Args /\ call'[u].pool \in 0..Len(made)'
    <2>1. UNCHANGED made /\ call' = [call EXCEPT ![t] = c]
      BY <1>1 DEF Shared, Starts
    <2>2. Len(made)' \in Nat /\ Len(made) <= Len(made)'
      BY <2>1, <1>2
    <2>3. c \in Calls' \cup {Idle}
      BY <2>2 DEF Calls, Places
    <2> HIDE DEF c
    <2>4. QED
      BY <2>1, <2>2, <2>3, <1>2, Moved
  <1>4. twice' \subseteq Names
    BY DEF TypeOK, Starts, Args
  <1>5. calls' \in 0..MaxCalls
    BY <1>1, BoundAssumption DEF TypeOK
  <1>6. TypeOK'
    BY <1>1, <1>3, <1>4, <1>5 DEF TypeOK, Shared, Starts
  <1>7. CallInv'
    BY <1>1, <1>3 DEF CallInv, Shared
  <1>8. QED
    BY <1>3, <1>6, <1>7

(* A step of a call to another place that makes nothing.                    *)
LEMMA PlaceTypes ==
  ASSUME TypeOK, CallInv, NEW t \in Threads, NEW c, c \in Calls \cup {Idle},
         call' = [call EXCEPT ![t] = c], UNCHANGED <<pools, made, sessions, opened, queueCtx, store,
                                                      calls, commands, twice, replaced, toggled, bare>>,
         key' \in Kinds \cup {None}, ctx' \in 0..Len(opened), mixed' \in BOOLEAN,
         got' \in [Threads -> Names \X (0..Len(opened))]
  PROVE  /\ TypeOK' /\ call' \in [Threads -> Calls' \cup {Idle}]
         /\ call'[t] = c /\ \A u \in Threads \ {t} : call'[u] = call[u]
  <1>1. Len(made) \in Nat /\ Len(made)' \in Nat /\ Len(made) <= Len(made)' /\ c \in Calls' \cup {Idle}
    BY Tables DEF Calls
  <1>2. /\ call' \in [Threads -> Calls' \cup {Idle}]
        /\ call'[t] = c /\ \A u \in Threads \ {t} : call'[u] = call[u]
        /\ \A u \in Threads : call'[u] # Idle => call'[u].a \in Args /\ call'[u].pool \in 0..Len(made)'
    BY <1>1, Moved
  <1>3. TypeOK'
    BY <1>2 DEF TypeOK
  <1>4. QED
    BY <1>2, <1>3


LEMMA SetKeyTypes ==
  ASSUME TypeOK, CallInv, NEW t \in Threads, SetKey(t)
  PROVE  /\ TypeOK' /\ CallInv'
         /\ call[t] \in Calls /\ call[t] # Idle
         /\ call'[t] = [call[t] EXCEPT !.pc = "pool"]
         /\ \A u \in Threads \ {t} : call'[u] = call[u]
  <1>1. call[t] \in Calls /\ call[t] # Idle
    BY InCall DEF SetKey, Places
  <1> DEFINE c == [call[t] EXCEPT !.pc = "pool"]
  <1>2. c \in Calls /\ c.pc = "pool" /\ c.a = call[t].a /\ c.queue = call[t].queue /\ c # Idle
    BY <1>1 DEF Calls, Places, Idle
  <1>3. call' = [call EXCEPT ![t] = c]
    BY DEF SetKey
  <1>4. key' \in Kinds \cup {None} /\ (~call[t].a.own => key' = call[t].a.kind /\ key' \in Kinds)
    BY <1>1 DEF SetKey, TypeOK, Calls, Args
  <1>5. mixed' \in BOOLEAN
    BY DEF SetKey
  <1> HIDE DEF c
  <1>6. /\ TypeOK' /\ call' \in [Threads -> Calls' \cup {Idle}]
        /\ call'[t] = c /\ \A u \in Threads \ {t} : call'[u] = call[u]
    BY <1>2, <1>3, <1>4, <1>5, PlaceTypes DEF SetKey, TypeOK
  <1>7. None \notin Kinds
    BY NoneAssumption DEF Kinds
  <1>8. CallInv'
    <2>1. SUFFICES ASSUME NEW u \in Threads
                   PROVE  /\ call'[u].pc = "store" => call'[u].pool # 0
                          /\ call'[u].pc \in {"pool", "build"} /\ ~call'[u].a.own => key' # None
                          /\ call'[u].pc = "ctx" => sessions'[call'[u].a.name] # 0
                          /\ call'[u] # Idle /\ call'[u].queue => call'[u].a.name = QueueName
      BY <1>6 DEF CallInv
    <2>2. CASE u = t
      BY <2>2, <1>1, <1>2, <1>4, <1>6, <1>7 DEF CallInv
    <2>3. CASE u # t
      <3>1. call'[u] = call[u] /\ UNCHANGED sessions
        BY <2>3, <1>6 DEF SetKey
      <3>2. key # None => key' # None
        BY <1>4, <1>7 DEF SetKey
      <3>3. QED
        BY <3>1, <3>2 DEF CallInv
    <2>4. QED
      BY <2>2, <2>3
  <1>9. QED
    BY <1>1, <1>6, <1>8 DEF c

LEMMA GetPoolTypes ==
  ASSUME TypeOK, CallInv, NEW t \in Threads, GetPool(t)
  PROVE  /\ TypeOK' /\ CallInv'
         /\ call[t] \in Calls /\ call[t] # Idle /\ UrlKey(call[t].a) \in Kinds
         /\ call'[t] = [call[t] EXCEPT !.pc = IF pools[UrlKey(call[t].a)] = 0 THEN "build" ELSE "store",
                                       !.pool = pools[UrlKey(call[t].a)]]
         /\ \A u \in Threads \ {t} : call'[u] = call[u]
  <1>1. call[t] \in Calls /\ call[t] # Idle
    BY InCall DEF GetPool, Places
  <1>2. UrlKey(call[t].a) \in Kinds
    BY <1>1 DEF GetPool, CallInv, UrlKey, Calls, Args, TypeOK
  <1> DEFINE p == pools[UrlKey(call[t].a)]
             c == [call[t] EXCEPT !.pc = IF p = 0 THEN "build" ELSE "store", !.pool = p]
  <1>3. p \in 0..Len(made)
    BY <1>2 DEF TypeOK
  <1>4. call' = [call EXCEPT ![t] = c]
    BY DEF GetPool
  <1> HIDE DEF p
  <1>5. /\ c \in Calls /\ c.a = call[t].a /\ c.queue = call[t].queue /\ c # Idle
        /\ c.pc \in {"build", "store"} /\ (c.pc = "store" => c.pool # 0)
    BY <1>1, <1>3 DEF Calls, Places, Idle
  <1>6. ~c.a.own => key # None
    BY <1>5 DEF GetPool, CallInv
  <1> HIDE DEF c
  <1>7. /\ TypeOK' /\ call' \in [Threads -> Calls' \cup {Idle}]
        /\ call'[t] = c /\ \A u \in Threads \ {t} : call'[u] = call[u]
    <2>1. UNCHANGED <<key, pools, made, sessions, opened, ctx, queueCtx, got, store, calls, commands,
                      mixed, twice, replaced, toggled, bare>>
      BY DEF GetPool, past
    <2>2. /\ key' \in Kinds \cup {None} /\ ctx' \in 0..Len(opened) /\ mixed' \in BOOLEAN
          /\ got' \in [Threads -> Names \X (0..Len(opened))]
      BY <2>1 DEF TypeOK
    <2>3. QED
      BY <1>4, <1>5, <2>1, <2>2, PlaceTypes
  <1>8. CallInv'
    <2>1. SUFFICES ASSUME NEW u \in Threads
                   PROVE  /\ call'[u].pc = "store" => call'[u].pool # 0
                          /\ call'[u].pc \in {"pool", "build"} /\ ~call'[u].a.own => key' # None
                          /\ call'[u].pc = "ctx" => sessions'[call'[u].a.name] # 0
                          /\ call'[u] # Idle /\ call'[u].queue => call'[u].a.name = QueueName
      BY <1>7 DEF CallInv
    <2>2. UNCHANGED <<key, sessions>>
      BY DEF GetPool
    <2>3. CASE u = t
      BY <2>2, <2>3, <1>1, <1>5, <1>6, <1>7 DEF CallInv
    <2>4. CASE u # t
      BY <2>2, <2>4, <1>7 DEF CallInv
    <2>5. QED
      BY <2>3, <2>4
  <1>9. QED
    BY <1>1, <1>2, <1>7, <1>8 DEF c, p

LEMMA SetCtxTypes ==
  ASSUME TypeOK, CallInv, NEW t \in Threads, SetCtx(t)
  PROVE  /\ TypeOK' /\ CallInv'
         /\ call[t] \in Calls /\ call[t] # Idle
         /\ call'[t] = Idle /\ \A u \in Threads \ {t} : call'[u] = call[u]
         /\ got'[t] = <<call[t].a.name, sessions[call[t].a.name]>>
         /\ \A u \in Threads \ {t} : got'[u] = got[u]
  <1>1. call[t] \in Calls /\ call[t] # Idle
    BY InCall DEF SetCtx, Places
  <1>2. call[t].a.name \in Names /\ sessions[call[t].a.name] \in 0..Len(opened)
    BY <1>1 DEF Calls, Args, TypeOK
  <1>3. call' = [call EXCEPT ![t] = Idle] /\ ctx' \in 0..Len(opened)
    BY <1>2 DEF SetCtx, Return
  <1>4. /\ got' \in [Threads -> Names \X (0..Len(opened))]
        /\ got'[t] = <<call[t].a.name, sessions[call[t].a.name]>>
        /\ \A u \in Threads \ {t} : got'[u] = got[u]
    BY <1>2 DEF TypeOK, SetCtx, Return
  <1>5. /\ TypeOK' /\ call' \in [Threads -> Calls' \cup {Idle}]
        /\ call'[t] = Idle /\ \A u \in Threads \ {t} : call'[u] = call[u]
    <2>1. key' \in Kinds \cup {None} /\ mixed' \in BOOLEAN
      BY DEF TypeOK, SetCtx, past
    <2>2. UNCHANGED <<pools, made, sessions, opened, queueCtx, store, calls, commands,
                      twice, replaced, toggled, bare>>
      BY DEF SetCtx, past
    <2>3. Idle \in Calls \cup {Idle}
      OBVIOUS
    <2>4. QED
      BY <1>3, <1>4, <2>1, <2>2, <2>3, PlaceTypes
  <1>6. CallInv'
    BY <1>1, <1>5 DEF CallInv, SetCtx, Idle
  <1>7. QED
    BY <1>1, <1>4, <1>5, <1>6


LEMMA MakePoolTypes ==
  ASSUME TypeOK, CallInv, NEW t \in Threads, MakePool(t)
  PROVE  /\ TypeOK' /\ CallInv'
         /\ call[t] \in Calls /\ call[t] # Idle /\ UrlKey(call[t].a) \in Kinds
         /\ Len(made') = Len(made) + 1 /\ made'[Len(made')] = NewPool(call[t].a.kind)
         /\ \A p \in 1..Len(made) : made'[p] = made[p]
         /\ pools' = [pools EXCEPT ![UrlKey(call[t].a)] = Len(made')]
         /\ call'[t] = [call[t] EXCEPT !.pc = "store", !.pool = Len(made')]
         /\ \A u \in Threads \ {t} : call'[u] = call[u]
  <1>1. call[t] \in Calls /\ call[t] # Idle
    BY InCall DEF MakePool, Places
  <1>2. UrlKey(call[t].a) \in Kinds
    BY <1>1 DEF MakePool, CallInv, UrlKey, Calls, Args, TypeOK
  <1> DEFINE new == NewPool(call[t].a.kind)
  <1>3. new \in PoolMade
    BY <1>1 DEF NewPool, NewEncoder, PoolMade, Kinds, Calls, Args
  <1>4. made \in Seq(PoolMade) /\ Len(made) \in Nat /\ made' = Append(made, new)
    BY Tables DEF TypeOK, PoolMade, MakePool
  <1> HIDE DEF new
  <1>5. /\ made' \in Seq(PoolMade) /\ Len(made') = Len(made) + 1 /\ made'[Len(made')] = new
        /\ \A p \in 1..Len(made) : made'[p] = made[p]
    BY <1>3, <1>4, AppendProperties
  <1> DEFINE c == [call[t] EXCEPT !.pc = "store", !.pool = Len(made')]
  <1>6. /\ c \in Calls' /\ c.a = call[t].a /\ c.queue = call[t].queue /\ c # Idle
        /\ c.pc = "store" /\ c.pool # 0
    <2> DEFINE len == Len(made')
    <2>1. len \in Nat \ {0} /\ Calls' = [pc : Places, a : Args, queue : BOOLEAN, pool : 0..len]
      BY <1>4, <1>5 DEF Calls
    <2>2. call[t].a \in Args /\ call[t].queue \in BOOLEAN
      BY <1>1 DEF Calls
    <2>3. c = [call[t] EXCEPT !.pc = "store", !.pool = len]
      OBVIOUS
    <2> HIDE DEF len, c
    <2>4. c = [pc |-> "store", a |-> call[t].a, queue |-> call[t].queue, pool |-> len]
      BY <2>3, <1>1 DEF Calls
    <2>5. QED
      BY <2>1, <2>2, <2>4 DEF Places, Idle
  <1>7. call' = [call EXCEPT ![t] = c]
    BY DEF MakePool
  <1> HIDE DEF c
  <1>8. /\ call' \in [Threads -> Calls' \cup {Idle}]
        /\ call'[t] = c /\ \A u \in Threads \ {t} : call'[u] = call[u]
        /\ \A u \in Threads : call'[u] # Idle => call'[u].a \in Args /\ call'[u].pool \in 0..Len(made)'
    <2>1. Len(made)' \in Nat /\ Len(made) <= Len(made)' /\ c \in Calls' \cup {Idle}
      BY <1>4, <1>5, <1>6
    <2>2. QED
      BY <2>1, <1>4, <1>7, Moved
  <1>9. opened \in Seq([name : Names, kind : Kinds, pool : 1..Len(made')])
    <2>1. SessionMade \subseteq [name : Names, kind : Kinds, pool : 1..Len(made')]
      BY <1>4, <1>5 DEF SessionMade
    <2>2. opened \in Seq(SessionMade)
      BY DEF TypeOK, SessionMade
    <2>3. QED
      BY <2>1, <2>2, SeqMonotonic
  <1>10. /\ pools' = [pools EXCEPT ![UrlKey(call[t].a)] = Len(made')]
         /\ pools' \in [Kinds -> 0..Len(made')] /\ toggled' \subseteq 1..Len(made')
    BY <1>2, <1>4, <1>5 DEF TypeOK, MakePool
  <1>11. TypeOK'
    <2>1. made' \in Seq([kind : Kinds, enc : [Sides -> [ser : Serializers \cup {None}, decode : BOOLEAN]]])
      BY <1>5 DEF PoolMade
    <2>2. UNCHANGED <<key, sessions, opened, ctx, queueCtx, got, store, mixed, twice, replaced, bare,
                      toggled, calls, commands>>
      BY DEF MakePool, past
    <2>3. QED
      BY <1>8, <1>9, <1>10, <2>1, <2>2 DEF TypeOK
  <1>12. CallInv'
    BY <1>1, <1>6, <1>8 DEF CallInv, MakePool
  <1>13. QED
    BY <1>1, <1>2, <1>5, <1>8, <1>10, <1>11, <1>12 DEF c, new

LEMMA StoreTypes ==
  ASSUME TypeOK, CallInv, NEW t \in Threads, Store(t)
  PROVE  /\ TypeOK' /\ CallInv'
         /\ call[t] \in Calls /\ call[t] # Idle /\ call[t].pool \in 1..Len(made)
         /\ Len(opened') = Len(opened) + 1
         /\ opened'[Len(opened')] = NewSession(call[t].a, call[t].pool)
         /\ \A s \in 1..Len(opened) : opened'[s] = opened[s]
         /\ sessions' = [sessions EXCEPT ![call[t].a.name] = Len(opened')]
         /\ \/ call'[t] = [call[t] EXCEPT !.pc = "ctx"] /\ UNCHANGED got
            \/ /\ call'[t] = Idle /\ got'[t] = <<call[t].a.name, Len(opened')>>
               /\ \A u \in Threads \ {t} : got'[u] = got[u]
         /\ \A u \in Threads \ {t} : call'[u] = call[u]
  <1>1. call[t] \in Calls /\ call[t] # Idle
    BY InCall DEF Store, Places
  <1>2. /\ call[t].pool \in 1..Len(made) /\ call[t].a.name \in Names
        /\ Len(made) \in Nat /\ Len(opened) \in Nat
    BY <1>1, Tables DEF Calls, CallInv, Store, Args
  <1> DEFINE new == NewSession(call[t].a, call[t].pool)
  <1>3. new \in SessionMade
    BY <1>1, <1>2 DEF NewSession, SessionMade, Calls, Args
  <1>4. opened \in Seq(SessionMade) /\ opened' = Append(opened, new)
    BY DEF TypeOK, SessionMade, Store
  <1> HIDE DEF new
  <1>5. /\ opened' \in Seq(SessionMade) /\ Len(opened') = Len(opened) + 1 /\ opened'[Len(opened')] = new
        /\ \A s \in 1..Len(opened) : opened'[s] = opened[s]
    BY <1>2, <1>3, <1>4, AppendProperties
  <1>6. PICK c \in Calls \cup {Idle} :
          /\ call' = [call EXCEPT ![t] = c]
          /\ \/ c = [call[t] EXCEPT !.pc = "ctx"] /\ c.pc = "ctx" /\ UNCHANGED got
             \/ c = Idle /\ got' = [got EXCEPT ![t] = <<call[t].a.name, Len(opened')>>]
    <2> DEFINE d == [call[t] EXCEPT !.pc = "ctx"]
    <2>1. d \in Calls /\ d.pc = "ctx"
      BY <1>1 DEF Calls, Places
    <2>2. \/ call' = [call EXCEPT ![t] = d] /\ UNCHANGED got
          \/ call' = [call EXCEPT ![t] = Idle] /\ got' = [got EXCEPT ![t] = <<call[t].a.name, Len(opened')>>]
      BY DEF Store, Return
    <2> HIDE DEF d
    <2>3. CASE call' = [call EXCEPT ![t] = d] /\ UNCHANGED got
      BY <2>1, <2>3 DEF d
    <2>4. CASE call' = [call EXCEPT ![t] = Idle] /\ got' = [got EXCEPT ![t] = <<call[t].a.name, Len(opened')>>]
      BY <2>4
    <2>5. QED
      BY <2>2, <2>3, <2>4
  <1>7. /\ call' \in [Threads -> Calls' \cup {Idle}]
        /\ call'[t] = c /\ \A u \in Threads \ {t} : call'[u] = call[u]
        /\ \A u \in Threads : call'[u] # Idle => call'[u].a \in Args /\ call'[u].pool \in 0..Len(made)'
    <2>1. UNCHANGED made /\ Calls' = Calls
      BY DEF Store, Calls
    <2>2. Len(made)' \in Nat /\ Len(made) <= Len(made)' /\ c \in Calls' \cup {Idle}
      BY <2>1, <1>2
    <2>3. QED
      BY <2>2, <1>2, <1>6, Moved
  <1>8. /\ \/ c = [call[t] EXCEPT !.pc = "ctx"] /\ UNCHANGED got
           \/ /\ c = Idle /\ got'[t] = <<call[t].a.name, Len(opened')>>
              /\ \A u \in Threads \ {t} : got'[u] = got[u]
        /\ got' \in [Threads -> Names \X (0..Len(opened'))]
    <2>1. got \in [Threads -> Names \X (0..Len(opened'))]
      <3>1. Names \X (0..Len(opened)) \subseteq Names \X (0..Len(opened'))
        BY <1>2, <1>5
      <3>2. QED
        BY <3>1 DEF TypeOK
    <2>2. <<call[t].a.name, Len(opened')>> \in Names \X (0..Len(opened'))
      BY <1>2, <1>5
    <2>3. QED
      BY <1>6, <2>1, <2>2
  <1>9. /\ sessions' = [sessions EXCEPT ![call[t].a.name] = Len(opened')]
        /\ sessions' \in [Names -> 0..Len(opened')]
        /\ \A n \in Names : sessions[n] # 0 => sessions'[n] # 0
        /\ sessions'[call[t].a.name] # 0
    <2>1. sessions \in [Names -> 0..Len(opened)]
      BY DEF TypeOK
    <2>2. sessions' = [sessions EXCEPT ![call[t].a.name] = Len(opened')]
      BY DEF Store
    <2>3. QED
      BY <1>2, <1>5, <2>1, <2>2
  <1>10. /\ ctx' \in 0..Len(opened') /\ queueCtx' \in 0..Len(opened')
         /\ bare' \in BOOLEAN /\ replaced' \subseteq Names
    <2>1. ctx' \in 0..Len(opened') /\ queueCtx' \in 0..Len(opened')
      <3>1. ctx' = ctx /\ queueCtx' \in {Len(opened'), queueCtx}
        BY DEF Store
      <3>2. ctx \in 0..Len(opened) /\ queueCtx \in 0..Len(opened)
        BY DEF TypeOK
      <3>3. QED
        BY <3>1, <3>2, <1>2, <1>5
    <2>2. bare' \in BOOLEAN
      BY DEF TypeOK, Store
    <2>3. replaced' \subseteq Names
      BY <1>2 DEF TypeOK, Store
    <2>4. QED
      BY <2>1, <2>2, <2>3
  <1>11. TypeOK'
    <2>1. opened' \in Seq([name : Names, kind : Kinds, pool : 1..Len(made')])
      BY <1>5 DEF SessionMade, Store
    <2>2. UNCHANGED <<key, pools, made, store, mixed, twice, toggled, calls, commands>>
      BY DEF Store
    <2>3. QED
      BY <1>7, <1>8, <1>9, <1>10, <2>1, <2>2 DEF TypeOK
  <1>12. CallInv'
    <2>1. SUFFICES ASSUME NEW u \in Threads
                   PROVE  /\ call'[u].pc = "store" => call'[u].pool # 0
                          /\ call'[u].pc \in {"pool", "build"} /\ ~call'[u].a.own => key' # None
                          /\ call'[u].pc = "ctx" => sessions'[call'[u].a.name] # 0
                          /\ call'[u] # Idle /\ call'[u].queue => call'[u].a.name = QueueName
      BY <1>7 DEF CallInv
    <2>2. CASE u = t
      <3>1. CASE c = Idle
        BY <3>1, <2>2, <1>7 DEF Idle
      <3>2. CASE c = [call[t] EXCEPT !.pc = "ctx"]
        <4>1. c.a = call[t].a /\ c.queue = call[t].queue /\ c.pc = "ctx"
          BY <3>2, <1>1 DEF Calls
        <4>2. QED
          BY <4>1, <2>2, <1>1, <1>7, <1>9 DEF CallInv
      <3>3. QED
        BY <3>1, <3>2, <1>6
    <2>3. CASE u # t
      <3>1. call'[u] = call[u] /\ UNCHANGED key
        BY <2>3, <1>7 DEF Store
      <3>2. call[u].pc = "ctx" => call[u].a.name \in Names
        BY InCall DEF Calls, Places, Args
      <3>3. QED
        BY <3>1, <3>2, <1>9 DEF CallInv
    <2>4. QED
      BY <2>2, <2>3
  <1>13. QED
    BY <1>1, <1>2, <1>5, <1>7, <1>8, <1>9, <1>11, <1>12 DEF new


(* What switching the encoder of a pool leaves as it was.                   *)
LEMMA ToggleTypes ==
  ASSUME TypeOK, CallInv, NEW s \in 1..Len(opened),
         NEW e \in [ser : Serializers \cup {None}, decode : BOOLEAN], Toggle(s, e)
  PROVE  /\ TypeOK' /\ CallInv'
         /\ Len(made') = Len(made) /\ Len(made) \in Nat /\ DOMAIN made' = DOMAIN made
         /\ \A p \in 1..Len(made) : made'[p].kind = made[p].kind
         /\ \A p \in 1..Len(made) : made'[p].enc["apool"] = made[p].enc["apool"]
         /\ \A p \in 1..Len(made) : p \notin toggled' => p \notin toggled /\ made'[p] = made[p]
  <1> DEFINE q == opened[s].pool
             new == [made[q] EXCEPT !.enc["pool"] = e]
  <1>1. /\ q \in 1..Len(made) /\ made[q] \in PoolMade /\ Len(made) \in Nat /\ made \in Seq(PoolMade)
        /\ DOMAIN made = 1..Len(made)
    BY Tables DEF SessionMade, TypeOK, PoolMade
  <1>2. UNCHANGED <<manager, store, past, calls>> /\ commands' \in 0..MaxCommands
    BY BoundAssumption DEF Toggle, TypeOK
  <1>3. made' = [made EXCEPT ![q] = new] /\ toggled' = toggled \cup {q}
    BY DEF Toggle, SetEncoder
  <1>4. new \in PoolMade /\ new.kind = made[q].kind /\ new.enc["apool"] = made[q].enc["apool"]
    BY <1>1 DEF PoolMade, Sides
  <1> HIDE DEF new, q
  <1>5. /\ made' \in Seq(PoolMade) /\ Len(made') = Len(made)
        /\ \A p \in 1..Len(made) : made'[p] = IF p = q THEN new ELSE made[p]
    BY <1>1, <1>3, <1>4, ExceptSeq
  <1>6. DOMAIN made' = DOMAIN made
    BY <1>1, <1>3
  <1>7. TypeOK'
    <2>1. made' \in Seq([kind : Kinds, enc : [Sides -> [ser : Serializers \cup {None}, decode : BOOLEAN]]])
      BY <1>5 DEF PoolMade
    <2>2. toggled' \subseteq 1..Len(made')
      BY <1>1, <1>3, <1>5 DEF TypeOK
    <2>3. QED
      BY <1>2, <1>5, <2>1, <2>2 DEF TypeOK, manager, past
  <1>8. CallInv'
    <2>1. Calls' = Calls
      BY <1>5 DEF Calls
    <2>2. QED
      BY <2>1, <1>2 DEF CallInv, manager
  <1>9. \A p \in 1..Len(made) : p \notin toggled' => p \notin toggled /\ made'[p] = made[p]
    BY <1>3, <1>5
  <1>10. QED
    BY <1>1, <1>4, <1>5, <1>6, <1>7, <1>8, <1>9

LEMMA WriteTypes ==
  ASSUME TypeOK, CallInv, NEW s \in 1..Len(opened), NEW x \in Sides, NEW v \in Values, Write(s, x, v)
  PROVE  /\ TypeOK' /\ CallInv'
         /\ store'.val = Encode(EncoderOf(s, x), v).val /\ store'.ser = Encode(EncoderOf(s, x), v).ser
         /\ store'.by = opened[s].kind /\ store'.put = v /\ store'.off = Toggled(s, x)
  <1>1. Encode(EncoderOf(s, x), v).val \in {"object", "text", "null"}
    BY ValuesAssumption DEF Encode
  <1>2. /\ store'.val = Encode(EncoderOf(s, x), v).val /\ store'.ser = Encode(EncoderOf(s, x), v).ser
        /\ store'.by = opened[s].kind /\ store'.put = v /\ store'.off = Toggled(s, x)
    BY DEF Write
  <1>3. UNCHANGED <<manager, made, past, toggled, calls>> /\ commands' \in 0..MaxCommands
    BY BoundAssumption DEF Write, TypeOK
  <1>4. TypeOK'
    BY <1>1, <1>2, <1>3 DEF TypeOK, manager, past
  <1>5. CallInv'
    BY <1>3 DEF CallInv, Calls, manager
  <1>6. QED
    BY <1>2, <1>4, <1>5

LEMMA SetSessionTypes ==
  ASSUME TypeOK, CallInv, NEW n \in Names, SetSession(n)
  PROVE  TypeOK' /\ CallInv'
  <1>1. UNCHANGED <<key, pools, sessions, opened, queueCtx, call, got, made, store, past, toggled, commands>>
    BY DEF SetSession
  <1>2. ctx' \in 0..Len(opened) /\ calls' \in 0..MaxCalls
    BY BoundAssumption DEF SetSession, TypeOK
  <1>3. QED
    BY <1>1, <1>2 DEF TypeOK, CallInv, Calls, past

LEMMA QueueConfigureTypes ==
  ASSUME TypeOK, CallInv, QueueConfigure
  PROVE  TypeOK' /\ CallInv'
  <1>1. UNCHANGED <<key, pools, sessions, opened, ctx, call, got, made, store, past, toggled, commands>>
    BY DEF QueueConfigure
  <1>2. queueCtx' \in 0..Len(opened) /\ calls' \in 0..MaxCalls
    BY BoundAssumption, Tables DEF QueueConfigure, TypeOK
  <1>3. QED
    BY <1>1, <1>2 DEF TypeOK, CallInv, Calls, past


(***************************************************************************)
(* The pools and what is stored through them                               *)
(***************************************************************************)
PoolInv == KindInv /\ PoolOfItsKind /\ EncoderInv /\ StoreInv
Kept == <<key, pools, made, opened, store, mixed, toggled>>

(* A step of a call that has no pool yet, or no use of one any more.        *)
LEMMA KeepsPools ==
  ASSUME PoolInv, UNCHANGED Kept, NEW t \in Threads,
         \A u \in Threads \ {t} : call'[u] = call[u],
         call'[t].pc \notin {"store", "pool", "build"}
  PROVE  PoolInv'
  <1>1. KindInv'
    BY DEF PoolInv, KindInv, Kept
  <1>2. PoolOfItsKind' /\ EncoderInv' /\ StoreInv'
    BY DEF PoolInv, PoolOfItsKind, EncoderInv, StoreInv, Kept
  <1>3. QED
    BY <1>1, <1>2 DEF PoolInv

LEMMA SetKeyPools ==
  ASSUME TypeOK, CallInv, PoolInv, NEW t \in Threads, SetKey(t)
  PROVE  PoolInv'
  <1>1. /\ UNCHANGED <<pools, made, opened, store, toggled>>
        /\ key' = IF call[t].a.own THEN key ELSE call[t].a.kind
        /\ ~mixed' => ~mixed /\ (~call[t].a.own => \A u \in Threads \ {t} :
              call[u].pc \in {"pool", "build"} /\ ~call[u].a.own => call[u].a.kind = call[t].a.kind)
    BY DEF SetKey
  <1>2. /\ call'[t].pc = "pool" /\ call'[t].a = call[t].a
        /\ \A u \in Threads \ {t} : call'[u] = call[u]
    BY SetKeyTypes DEF Calls
  <1>3. KindInv'
    BY <1>1, <1>2 DEF PoolInv, KindInv
  <1>4. PoolOfItsKind' /\ EncoderInv' /\ StoreInv'
    BY <1>1 DEF PoolInv, PoolOfItsKind, EncoderInv, StoreInv
  <1>5. QED
    BY <1>3, <1>4 DEF PoolInv

LEMMA GetPoolPools ==
  ASSUME TypeOK, CallInv, PoolInv, NEW t \in Threads, GetPool(t)
  PROVE  PoolInv'
  <1>1. UNCHANGED Kept /\ call[t].pc = "pool"
    BY DEF GetPool, Kept, past
  <1> DEFINE p == pools[UrlKey(call[t].a)]
  <1>2. /\ call'[t].pc \in {"build", "store"} /\ call'[t].a = call[t].a /\ call'[t].pool = p
        /\ call'[t].pc = "store" => p # 0
        /\ \A u \in Threads \ {t} : call'[u] = call[u]
    BY GetPoolTypes DEF Calls
  <1>3. ~mixed => UrlKey(call[t].a) = call[t].a.kind
    BY <1>1 DEF PoolInv, KindInv, UrlKey
  <1>4. call[t].a.kind \in Kinds /\ UrlKey(call[t].a) \in Kinds
    BY GetPoolTypes DEF Calls, Args
  <1>5. ~mixed /\ p # 0 => made[p].kind = call[t].a.kind
    BY <1>3, <1>4 DEF PoolInv, PoolOfItsKind
  <1>6. KindInv'
    <2>1. SUFFICES ASSUME ~mixed, NEW u \in Threads
                   PROVE  /\ call'[u].pc = "store" => made[call'[u].pool].kind = call'[u].a.kind
                          /\ call'[u].pc \in {"pool", "build"} /\ ~call'[u].a.own => key = call'[u].a.kind
      BY <1>1 DEF KindInv, Kept
    <2>2. CASE u = t
      BY <2>1, <2>2, <1>1, <1>2, <1>5 DEF PoolInv, KindInv
    <2>3. CASE u # t
      BY <2>1, <2>3, <1>2 DEF PoolInv, KindInv
    <2>4. QED
      BY <2>2, <2>3
  <1>7. PoolOfItsKind' /\ EncoderInv' /\ StoreInv'
    BY <1>1 DEF PoolInv, PoolOfItsKind, EncoderInv, StoreInv, Kept
  <1>8. QED
    BY <1>6, <1>7 DEF PoolInv

LEMMA MakePoolPools ==
  ASSUME TypeOK, CallInv, PoolInv, NEW t \in Threads, MakePool(t)
  PROVE  PoolInv'
  <1>1. UNCHANGED <<key, opened, store, mixed, toggled>> /\ call[t].pc = "build"
    BY DEF MakePool, past
  <1> DEFINE k == UrlKey(call[t].a)
             len == Len(made')
  <1>2. /\ call'[t].pc = "store" /\ call'[t].a = call[t].a /\ call'[t].pool = len
        /\ \A u \in Threads \ {t} : call'[u] = call[u]
    BY MakePoolTypes DEF Calls
  <1>3. /\ len = Len(made) + 1 /\ made'[len] = NewPool(call[t].a.kind)
        /\ \A p \in 1..Len(made) : made'[p] = made[p]
        /\ pools' = [pools EXCEPT ![k] = len] /\ k \in Kinds
    BY MakePoolTypes
  <1>4. /\ Len(made) \in Nat /\ DOMAIN made = 1..Len(made) /\ DOMAIN opened = 1..Len(opened)
        /\ \A s \in 1..Len(opened) : opened[s].pool \in 1..Len(made)
        /\ toggled \subseteq 1..Len(made) /\ pools \in [Kinds -> 0..Len(made)]
    BY Tables DEF SessionMade, TypeOK
  <1>5. DOMAIN made' = 1..len
    BY MakePoolTypes, LenProperties DEF TypeOK
  <1>6. made'[len].kind = call[t].a.kind
    BY <1>3 DEF NewPool
  <1>7. ~mixed => k = call[t].a.kind
    BY <1>1 DEF PoolInv, KindInv, UrlKey
  <1> HIDE DEF len, k
  <1>8. KindInv'
    <2>1. SUFFICES ASSUME ~mixed, NEW u \in Threads
                   PROVE  /\ call'[u].pc = "store" => made'[call'[u].pool].kind = call'[u].a.kind
                          /\ call'[u].pc \in {"pool", "build"} /\ ~call'[u].a.own => key = call'[u].a.kind
      BY <1>1 DEF KindInv
    <2>2. CASE u = t
      BY <2>2, <1>2, <1>6
    <2>3. CASE u # t
      <3>1. call[u].pc = "store" => call[u].pool \in 1..Len(made)
        BY InCall, <1>4 DEF CallInv, Calls, Places
      <3>2. QED
        BY <2>1, <2>3, <3>1, <1>2, <1>3 DEF PoolInv, KindInv
    <2>4. QED
      BY <2>2, <2>3
  <1>9. PoolOfItsKind'
    <2>1. SUFFICES ASSUME ~mixed
                   PROVE  /\ \A s \in DOMAIN opened : made'[opened[s].pool].kind = opened[s].kind
                          /\ \A j \in Kinds : pools'[j] # 0 => made'[pools'[j]].kind = j
      BY <1>1 DEF PoolOfItsKind
    <2>2. \A s \in DOMAIN opened : made'[opened[s].pool].kind = opened[s].kind
      BY <2>1, <1>3, <1>4 DEF PoolInv, PoolOfItsKind
    <2>3. ASSUME NEW j \in Kinds, pools'[j] # 0 PROVE made'[pools'[j]].kind = j
      <3>1. CASE j = k
        BY <3>1, <2>1, <1>3, <1>4, <1>6, <1>7
      <3>2. CASE j # k
        <4>1. pools'[j] = pools[j] /\ pools[j] \in 1..Len(made)
          BY <3>2, <2>3, <1>3, <1>4
        <4>2. QED
          BY <4>1, <2>1, <2>3, <1>3 DEF PoolInv, PoolOfItsKind
      <3>3. QED
        BY <3>1, <3>2
    <2>4. QED
      BY <2>2, <2>3
  <1>10. EncoderInv'
    <2>1. SUFFICES ASSUME NEW p \in 1..len, NEW x \in Sides, x = "apool" \/ p \notin toggled
                   PROVE  made'[p].enc[x] = NewEncoder(IF made'[p].kind = Plain THEN None ELSE made'[p].kind)
      BY <1>1, <1>5 DEF EncoderInv
    <2>2. CASE p = len
      BY <2>2, <1>3 DEF NewPool
    <2>3. CASE p # len
      <3>1. p \in DOMAIN made /\ made'[p] = made[p]
        BY <2>3, <1>3, <1>4
      <3>2. QED
        BY <3>1, <2>1 DEF PoolInv, EncoderInv
    <2>4. QED
      BY <2>2, <2>3
  <1>11. StoreInv'
    BY <1>1 DEF PoolInv, StoreInv
  <1>12. QED
    BY <1>8, <1>9, <1>10, <1>11 DEF PoolInv


LEMMA StorePools ==
  ASSUME TypeOK, CallInv, PoolInv, NEW t \in Threads, Store(t)
  PROVE  PoolInv'
  <1>1. UNCHANGED <<key, pools, made, store, mixed, toggled>> /\ call[t].pc = "store"
    BY DEF Store
  <1>2. /\ Len(opened) \in Nat /\ DOMAIN opened = 1..Len(opened)
        /\ \A s \in 1..Len(opened) : opened'[s] = opened[s]
        /\ Len(opened') = Len(opened) + 1 /\ DOMAIN opened' = 1..Len(opened')
        /\ opened'[Len(opened')].pool = call[t].pool /\ opened'[Len(opened')].kind = call[t].a.kind
    <2>1. DOMAIN opened' = 1..Len(opened')
      BY StoreTypes, LenProperties DEF TypeOK
    <2>2. /\ Len(opened') = Len(opened) + 1 /\ \A s \in 1..Len(opened) : opened'[s] = opened[s]
          /\ opened'[Len(opened')] = NewSession(call[t].a, call[t].pool)
      BY StoreTypes
    <2>3. Len(opened) \in Nat /\ DOMAIN opened = 1..Len(opened)
      BY Tables
    <2>4. /\ NewSession(call[t].a, call[t].pool).pool = call[t].pool
          /\ NewSession(call[t].a, call[t].pool).kind = call[t].a.kind
      BY DEF NewSession
    <2>5. QED
      BY <2>1, <2>2, <2>3, <2>4
  <1>3. /\ call'[t].pc \in {"ctx", "idle"}
        /\ \A u \in Threads \ {t} : call'[u] = call[u]
    <2>1. /\ call[t] \in Calls /\ \A u \in Threads \ {t} : call'[u] = call[u]
          /\ call'[t] = [call[t] EXCEPT !.pc = "ctx"] \/ call'[t] = Idle
      BY StoreTypes
    <2>2. QED
      BY <2>1 DEF Calls, Idle
  <1>4. KindInv'
    BY <1>1, <1>3 DEF PoolInv, KindInv
  <1>5. ~mixed => made[call[t].pool].kind = call[t].a.kind
    BY <1>1 DEF PoolInv, KindInv
  <1>6. PoolOfItsKind'
    BY <1>1, <1>2, <1>5 DEF PoolInv, PoolOfItsKind
  <1>7. EncoderInv' /\ StoreInv'
    BY <1>1 DEF PoolInv, EncoderInv, StoreInv
  <1>8. QED
    BY <1>4, <1>6, <1>7 DEF PoolInv

LEMMA TogglePools ==
  ASSUME TypeOK, CallInv, PoolInv, NEW s \in 1..Len(opened),
         NEW e \in [ser : Serializers \cup {None}, decode : BOOLEAN], Toggle(s, e)
  PROVE  PoolInv'
  <1>1. UNCHANGED <<key, pools, opened, call, store, mixed>>
    BY DEF Toggle, manager, past
  <1>2. /\ DOMAIN made' = DOMAIN made /\ DOMAIN made = 1..Len(made)
        /\ \A p \in 1..Len(made) : made'[p].kind = made[p].kind
        /\ \A p \in 1..Len(made) : made'[p].enc["apool"] = made[p].enc["apool"]
        /\ \A p \in 1..Len(made) : p \notin toggled' => p \notin toggled /\ made'[p] = made[p]
    BY ToggleTypes, Tables
  <1>3. /\ \A r \in DOMAIN opened : opened[r].pool \in 1..Len(made)
        /\ \A k \in Kinds : pools[k] # 0 => pools[k] \in 1..Len(made)
        /\ \A t \in Threads : call[t].pc = "store" => call[t].pool \in 1..Len(made)
    <2>1. \A r \in DOMAIN opened : opened[r].pool \in 1..Len(made)
      BY Tables DEF SessionMade
    <2>2. \A k \in Kinds : pools[k] # 0 => pools[k] \in 1..Len(made)
      BY Tables DEF TypeOK
    <2>3. \A t \in Threads : call[t].pc = "store" => call[t].pool \in 1..Len(made)
      BY Tables, InCall DEF CallInv, Calls, Places
    <2>4. QED
      BY <2>1, <2>2, <2>3
  <1>4. KindInv'
    BY <1>1, <1>2, <1>3 DEF PoolInv, KindInv
  <1>5. PoolOfItsKind'
    BY <1>1, <1>2, <1>3 DEF PoolInv, PoolOfItsKind
  <1>6. EncoderInv'
    BY <1>2 DEF PoolInv, EncoderInv, Sides
  <1>7. StoreInv'
    BY <1>1 DEF PoolInv, StoreInv
  <1>8. QED
    BY <1>4, <1>5, <1>6, <1>7 DEF PoolInv

(* The encoder of a session that nobody has switched, as long as sessions   *)
(* have pools of their serializer.                                          *)
LEMMA EncoderOfSession ==
  ASSUME TypeOK, PoolInv, ~mixed, NEW s \in 1..Len(opened), NEW x \in Sides,
         ~Toggled(s, x), opened[s].kind \in Serializers
  PROVE  EncoderOf(s, x).ser = opened[s].kind /\ EncoderOf(s, x).decode
  <1>1. /\ opened[s].pool \in DOMAIN made /\ s \in DOMAIN opened
        /\ made[opened[s].pool].kind = opened[s].kind
    BY Tables DEF SessionMade, PoolInv, PoolOfItsKind
  <1>2. opened[s].kind # Plain /\ opened[s].kind # None
    BY NoneAssumption
  <1>3. EncoderOf(s, x) = NewEncoder(opened[s].kind)
    <2>1. x = "apool" \/ opened[s].pool \notin toggled
      BY DEF Toggled, Sides
    <2>2. \A p \in DOMAIN made, y \in Sides :
            y = "apool" \/ p \notin toggled =>
              made[p].enc[y] = NewEncoder(IF made[p].kind = Plain THEN None ELSE made[p].kind)
      BY DEF PoolInv, EncoderInv
    <2>3. QED
      BY <1>1, <1>2, <2>1, <2>2 DEF EncoderOf
  <1>4. NewEncoder(opened[s].kind).ser = opened[s].kind
    BY DEF NewEncoder
  <1>5. NewEncoder(opened[s].kind).decode = (opened[s].kind # None)
    BY Zenon DEF NewEncoder
  <1>6. QED
    BY <1>2, <1>3, <1>4, <1>5

LEMMA WritePools ==
  ASSUME TypeOK, CallInv, PoolInv, NEW s \in 1..Len(opened), NEW x \in Sides, NEW v \in Values,
         Write(s, x, v)
  PROVE  PoolInv'
  <1>1. UNCHANGED <<key, pools, opened, made, call, mixed, toggled>>
    BY DEF Write, manager, past
  <1>2. StoreInv'
    <2>1. SUFFICES ASSUME ~mixed, ~store'.off, store'.by \in Serializers
                   PROVE  /\ v \in {"object", "text", "null", "none"}
                          /\ v = "object" => store'.ser = store'.by /\ store'.val = "object"
                          /\ v # "object" => store'.ser = None
                          /\ v = "none" => store'.val = "null"
                          /\ v \in {"text", "null"} => store'.val = v
      BY <1>1, WriteTypes DEF StoreInv
    <2>2. opened[s].kind \in Serializers /\ ~Toggled(s, x) /\ store'.by = opened[s].kind
      BY <2>1, WriteTypes
    <2>3. EncoderOf(s, x).ser = opened[s].kind
      BY <2>1, <2>2, EncoderOfSession
    <2>4. /\ store'.val = Encode(EncoderOf(s, x), v).val
          /\ store'.ser = Encode(EncoderOf(s, x), v).ser
      BY WriteTypes
    <2>5. QED
      BY <2>2, <2>3, <2>4, ValuesAssumption DEF Encode
  <1>3. KindInv' /\ PoolOfItsKind' /\ EncoderInv'
    BY <1>1 DEF PoolInv, KindInv, PoolOfItsKind, EncoderInv
  <1>4. QED
    BY <1>2, <1>3 DEF PoolInv

(* What the invariant is for: a session reads what another wrote.           *)
LEMMA PoolsReadBack ==
  ASSUME TypeOK, PoolInv
  PROVE  ReadsBack
  <1>1. SUFFICES ASSUME store # NoValue, ~mixed, NEW s \in DOMAIN opened, NEW x \in Sides,
                        opened[s].kind \in Serializers, opened[s].kind = store.by,
                        ~store.off, ~Toggled(s, x)
                 PROVE  Read(s, x) = IF store.put = "null" THEN "none" ELSE store.put
    BY DEF ReadsBack
  <1>2. EncoderOf(s, x).ser = store.by /\ EncoderOf(s, x).decode
    BY <1>1, Tables, EncoderOfSession
  <1>3. /\ store.put \in {"object", "text", "null", "none"}
        /\ store.put = "object" => store.ser = store.by /\ store.val = "object"
        /\ store.put # "object" => store.ser = None
        /\ store.put = "none" => store.val = "null"
        /\ store.put \in {"text", "null"} => store.val = store.put
    BY <1>1 DEF PoolInv, StoreInv
  <1>4. store.by # None
    BY <1>1, NoneAssumption
  <1>5. Read(s, x) = Decode(EncoderOf(s, x), store)
    BY DEF Read
  <1>6. CASE store.put = "object"
    BY <1>2, <1>3, <1>4, <1>5, <1>6 DEF Decode
  <1>7. CASE store.put \in {"none", "null"}
    <2>1. store.ser = None /\ store.val = "null"
      BY <1>3, <1>7
    <2>2. Read(s, x) = "none"
      BY <2>1, <1>2, <1>5 DEF Decode
    <2>3. QED
      BY <2>2, <1>7
  <1>8. CASE store.put = "text"
    BY <1>2, <1>3, <1>5, <1>8 DEF Decode
  <1>9. QED
    BY <1>3, <1>6, <1>7, <1>8


(***************************************************************************)
(* Names, and the current session                                          *)
(***************************************************************************)
NamedInv == NameInv /\ ContextInv /\ OneSession

(* A step that leaves the names alone, when the call of its thread goes on   *)
(* to another place before ctx.                                             *)
LEMMA KeepsNames ==
  ASSUME NamedInv, NEW t \in Threads, UNCHANGED <<sessions, opened, ctx, queueCtx, got, twice, replaced, bare>>,
         \A u \in Threads \ {t} : call'[u] = call[u],
         call[t] # Idle, call'[t] # Idle, call'[t].a = call[t].a,
         call[t].pc \in {"key", "pool", "build"}, call'[t].pc \in {"pool", "build", "store"}
  PROVE  NamedInv'
  <1>1. NameInv'
    BY DEF NamedInv, NameInv
  <1>2. ContextInv'
    <2>1. \A u \in Threads : call[u].pc = "ctx" => call'[u] = call[u]
      OBVIOUS
    <2>2. QED
      BY <2>1 DEF NamedInv, ContextInv
  <1>3. OneSession'
    BY DEF NamedInv, OneSession
  <1>4. QED
    BY <1>1, <1>2, <1>3 DEF NamedInv

LEMMA FoundNames ==
  ASSUME TypeOK, CallInv, NamedInv, NEW t \in Threads, NEW a \in Args, NEW queue \in BOOLEAN,
         queue => a.name = QueueName, Session(t, a, queue), Found(t, a, queue)
  PROVE  NamedInv'
  <1>1. UNCHANGED <<sessions, opened, twice, replaced, bare>> /\ call[t] = Idle
    BY SessionSplit DEF Shared, Found
  <1>2. /\ call'[t] = Idle /\ \A u \in Threads \ {t} : call'[u] = call[u]
        /\ got'[t] = <<a.name, sessions[a.name]>> /\ \A u \in Threads \ {t} : got'[u] = got[u]
    BY FoundTypes
  <1>3. /\ sessions[a.name] # 0 /\ a.name \in Names /\ ctx' \in {ctx, sessions[a.name]}
        /\ queueCtx' = IF queue THEN sessions[a.name] ELSE queueCtx
    BY DEF Found, Args
  <1>4. NameInv'
    BY <1>1, <1>2 DEF NamedInv, NameInv, Idle
  <1>5. ContextInv'
    <2>1. \A u \in Threads : call[u].pc = "ctx" => call'[u] = call[u]
      BY <1>1, <1>2 DEF Idle
    <2>2. opened[sessions[a.name]].name = a.name
      BY <1>3 DEF NamedInv, NameInv
    <2>3. QED
      BY <1>1, <1>3, <2>1, <2>2 DEF NamedInv, ContextInv
  <1>6. OneSession'
    BY <1>1, <1>2, <1>3 DEF NamedInv, OneSession
  <1>7. QED
    BY <1>4, <1>5, <1>6 DEF NamedInv

LEMMA StartsNames ==
  ASSUME TypeOK, CallInv, NamedInv, NEW t \in Threads, NEW a \in Args, NEW queue \in BOOLEAN,
         queue => a.name = QueueName, Session(t, a, queue), Starts(t, a, queue)
  PROVE  NamedInv'
  <1>1. UNCHANGED <<sessions, opened, ctx, queueCtx, got, replaced, bare>> /\ call[t] = Idle
    BY SessionSplit DEF Shared, Starts
  <1>2. /\ call'[t].pc = "key" /\ call'[t].a = a
        /\ \A u \in Threads \ {t} : call'[u] = call[u]
    <2>1. /\ call'[t] = [pc |-> "key", a |-> a, queue |-> queue, pool |-> 0]
          /\ \A u \in Threads \ {t} : call'[u] = call[u]
      BY StartsTypes
    <2>2. QED
      BY <2>1
  <1>3. /\ twice \subseteq twice'
        /\ sessions[a.name] = 0 \/ a.over
        /\ a.over \/ (\E u \in Threads \ {t} : call[u] # Idle /\ call[u].a.name = a.name) => a.name \in twice'
    BY DEF Starts
  <1>4. NameInv'
    <2>1. \A n \in Names : sessions[n] # 0 => opened[sessions[n]].name = n
      BY DEF NamedInv, NameInv
    <2>2. \A s \in DOMAIN opened : sessions[opened[s].name] # 0
      BY DEF NamedInv, NameInv
    <2>3. ASSUME NEW u \in Threads, NEW w \in Threads, u # w, call'[u] # Idle, call'[w] # Idle,
                 call'[u].a.name = call'[w].a.name
          PROVE  call'[u].a.name \in twice'
      <3>1. CASE u # t /\ w # t
        BY <2>3, <3>1, <1>2, <1>3 DEF NamedInv, NameInv
      <3>2. CASE u = t \/ w = t
        BY <2>3, <3>2, <1>2, <1>3
      <3>3. QED
        BY <3>1, <3>2
    <2>4. ASSUME NEW u \in Threads, call'[u].pc \in {"key", "pool", "build", "store"},
                 sessions[call'[u].a.name] # 0
          PROVE  call'[u].a.name \in twice'
      BY <2>4, <1>2, <1>3 DEF NamedInv, NameInv
    <2>5. QED
      BY <1>1, <2>1, <2>2, <2>3, <2>4 DEF NameInv
  <1>5. ContextInv'
    <2>1. \A u \in Threads : call[u].pc = "ctx" => call'[u] = call[u]
      BY <1>1, <1>2 DEF Idle
    <2>2. QED
      BY <1>1, <2>1 DEF NamedInv, ContextInv
  <1>6. OneSession'
    BY <1>1, <1>3 DEF NamedInv, OneSession
  <1>7. QED
    BY <1>4, <1>5, <1>6 DEF NamedInv

LEMMA SetCtxNames ==
  ASSUME TypeOK, CallInv, NamedInv, NEW t \in Threads, SetCtx(t)
  PROVE  NamedInv'
  <1> DEFINE n == call[t].a.name
  <1>1. UNCHANGED <<sessions, opened, queueCtx, twice, replaced, bare>> /\ ctx' = sessions[n] /\ call[t].pc = "ctx"
    BY DEF SetCtx, past
  <1>2. /\ call'[t] = Idle /\ \A u \in Threads \ {t} : call'[u] = call[u]
        /\ got'[t] = <<n, sessions[n]>> /\ \A u \in Threads \ {t} : got'[u] = got[u]
    BY SetCtxTypes
  <1>3. n \in Names /\ sessions[n] # 0
    <2>1. n \in Names
      BY SetCtxTypes DEF Calls, Args
    <2>2. sessions[n] # 0
      BY <1>1 DEF CallInv
    <2>3. QED
      BY <2>1, <2>2
  <1> HIDE DEF n
  <1>4. NameInv'
    BY <1>1, <1>2 DEF NamedInv, NameInv, Idle
  <1>5. ContextInv'
    BY <1>1, <1>3 DEF NamedInv, NameInv, ContextInv
  <1>6. OneSession'
    BY <1>1, <1>2 DEF NamedInv, OneSession
  <1>7. QED
    BY <1>4, <1>5, <1>6 DEF NamedInv


(* A session that does not become the context is remembered, if it is the    *)
(* first one or replaces another.                                           *)
LEMMA StoreRemembers ==
  ASSUME TypeOK, CallInv, NamedInv, NEW t \in Threads, Store(t)
  PROVE  \/ call'[t].pc = "ctx" /\ call'[t].a = call[t].a
         \/ /\ opened # <<>> \/ bare'
            /\ sessions[call[t].a.name] # 0 => call[t].a.name \in replaced'
  <1> DEFINE asked == call[t].a.setCtx
             n == call[t].a.name
  <1>1. call[t] \in Calls /\ asked \in {TRUE, FALSE, None} /\ n \in Names
    BY StoreTypes DEF Calls, Args
  <1>2. opened = <<>> => \A m \in Names : sessions[m] = 0
    BY Tables DEF TypeOK
  <1>3. ASSUME call' = [call EXCEPT ![t].pc = "ctx"] PROVE call'[t].pc = "ctx" /\ call'[t].a = call[t].a
    <2>1. call'[t] = [call[t] EXCEPT !.pc = "ctx"]
      BY <1>3 DEF CallInv
    <2>2. QED
      BY <2>1, <1>1 DEF Calls
  <1>4. CASE asked = None
    <2>1. CASE \A m \in Names : sessions[m] = 0
      BY <1>3, <1>4, <2>1 DEF Store
    <2>2. CASE ~(\A m \in Names : sessions[m] = 0)
      <3>1. replaced' = replaced \cup {m \in {n} : sessions[m] # 0}
        BY <1>4, <2>2 DEF Store
      <3>2. QED
        BY <3>1, <2>2, <1>2
    <2>3. QED
      BY <2>1, <2>2
  <1>5. CASE asked # None /\ asked = TRUE
    BY <1>3, <1>5 DEF Store
  <1>6. CASE asked # None /\ asked = FALSE
    <2>1. replaced' = replaced \cup {m \in {n} : sessions[m] # 0}
      BY <1>6 DEF Store
    <2>2. bare' = (bare \/ opened = <<>>)
      BY <1>6 DEF Store
    <2>3. QED
      BY <2>1, <2>2
  <1>7. QED
    BY <1>1, <1>4, <1>5, <1>6

LEMMA StoreNames ==
  ASSUME TypeOK, CallInv, NamedInv, NEW t \in Threads, Store(t)
  PROVE  NamedInv'
  <1> DEFINE n == call[t].a.name
             len == Len(opened')
  <1>1. /\ UNCHANGED <<ctx, twice>> /\ call[t].pc = "store"
        /\ replaced \subseteq replaced' /\ (bare => bare')
        /\ queueCtx' = IF call[t].queue THEN len ELSE queueCtx
    BY DEF Store
  <1>2. /\ Len(opened) \in Nat /\ len = Len(opened) + 1
        /\ DOMAIN opened = 1..Len(opened) /\ DOMAIN opened' = 1..len
        /\ \A s \in 1..Len(opened) : opened'[s] = opened[s] /\ opened[s].name \in Names
        /\ opened'[len].name = n
        /\ opened = <<>> <=> Len(opened) = 0
    <2>1. DOMAIN opened' = 1..len
      BY StoreTypes, LenProperties DEF TypeOK
    <2>2. len = Len(opened) + 1 /\ opened'[len] = NewSession(call[t].a, call[t].pool)
      BY StoreTypes
    <2>3. \A s \in 1..Len(opened) : opened'[s] = opened[s] /\ opened[s].name \in Names
      BY StoreTypes, Tables DEF SessionMade
    <2>4. opened'[len].name = n
      BY <2>2 DEF NewSession
    <2>5. QED
      BY <2>1, <2>2, <2>3, <2>4, Tables
  <1>3. n \in Names /\ sessions \in [Names -> 0..Len(opened)] /\ sessions' = [sessions EXCEPT ![n] = len]
    BY StoreTypes DEF Calls, Args, TypeOK
  <1>4. /\ \A u \in Threads \ {t} : call'[u] = call[u]
        /\ call'[t] = Idle \/ (call'[t].pc = "ctx" /\ call'[t].a = call[t].a)
        /\ call[t] # Idle
        /\ call[t].queue => n = QueueName
    <2>1. /\ call[t] \in Calls /\ call[t] # Idle /\ \A u \in Threads \ {t} : call'[u] = call[u]
          /\ call'[t] = [call[t] EXCEPT !.pc = "ctx"] \/ call'[t] = Idle
      BY StoreTypes
    <2>2. QED
      BY <2>1 DEF Calls, CallInv
  <1>5. \/ call'[t].pc = "ctx" /\ call'[t].a = call[t].a
        \/ (opened # <<>> \/ bare') /\ (sessions[n] # 0 => n \in replaced')
    BY StoreRemembers
  <1>6. \/ UNCHANGED got
        \/ got'[t] = <<n, len>> /\ \A u \in Threads \ {t} : got'[u] = got[u]
    BY StoreTypes
  <1>7. sessions[n] # 0 => n \in twice
    BY <1>1 DEF NamedInv, NameInv
  <1> HIDE DEF n, len
  <1>8. NameInv'
    <2>1. ASSUME NEW m \in Names, sessions'[m] # 0 PROVE opened'[sessions'[m]].name = m
      BY <2>1, <1>2, <1>3 DEF NamedInv, NameInv
    <2>2. ASSUME NEW s \in DOMAIN opened' PROVE sessions'[opened'[s].name] # 0
      <3>1. CASE s = len
        BY <3>1, <1>2, <1>3
      <3>2. CASE s # len
        <4>1. s \in DOMAIN opened /\ opened'[s] = opened[s] /\ opened[s].name \in Names
          BY <3>2, <1>2
        <4>2. QED
          BY <4>1, <1>2, <1>3 DEF NamedInv, NameInv
      <3>3. QED
        BY <3>1, <3>2
    <2>3. ASSUME NEW u \in Threads, NEW w \in Threads, u # w, call'[u] # Idle, call'[w] # Idle,
                 call'[u].a.name = call'[w].a.name
          PROVE  call'[u].a.name \in twice'
      <3>1. /\ call[u] # Idle /\ call[u].a = call'[u].a
            /\ call[w] # Idle /\ call[w].a = call'[w].a
        BY <2>3, <1>4
      <3>2. QED
        BY <2>3, <3>1, <1>1 DEF NamedInv, NameInv
    <2>4. ASSUME NEW u \in Threads, call'[u].pc \in {"key", "pool", "build", "store"},
                 sessions'[call'[u].a.name] # 0
          PROVE  call'[u].a.name \in twice'
      <3>1. u # t /\ call'[u] = call[u]
        BY <2>4, <1>4 DEF Idle
      <3>2. call[u] # Idle /\ call[u].a.name \in Names
        <4>1. call[u] \in Calls /\ call[u] # Idle
          BY <2>4, <3>1, InCall DEF Places
        <4>2. QED
          BY <4>1 DEF Calls, Args
      <3>3. CASE call[u].a.name = n
        BY <3>1, <3>2, <3>3, <1>1, <1>4 DEF NamedInv, NameInv, n
      <3>4. CASE call[u].a.name # n
        BY <2>4, <3>1, <3>2, <3>4, <1>1, <1>3 DEF NamedInv, NameInv
      <3>5. QED
        BY <3>3, <3>4
    <2>5. QED
      BY <2>1, <2>2, <2>3, <2>4 DEF NameInv
  <1>9. ContextInv'
    <2>1. \A u \in Threads : call[u].pc = "ctx" => call'[u] = call[u]
      BY <1>1, <1>4
    <2>2. opened' # <<>> /\ ~bare' => ctx' # 0 \/ \E u \in Threads : call'[u].pc = "ctx"
      BY <1>1, <1>5, <2>1 DEF NamedInv, ContextInv
    <2>3. ASSUME ctx # 0
          PROVE  \/ opened'[ctx].name \in replaced'
                 \/ sessions'[opened'[ctx].name] = ctx
                 \/ \E u \in Threads : call'[u].pc = "ctx" /\ call'[u].a.name = opened'[ctx].name
      <3>1. /\ ctx \in DOMAIN opened /\ opened'[ctx] = opened[ctx] /\ opened[ctx].name \in Names
        BY <2>3, <1>2 DEF TypeOK
      <3>2. CASE opened[ctx].name = n
        <4>1. sessions[n] # 0
          BY <3>1, <3>2 DEF NamedInv, NameInv
        <4>2. QED
          BY <4>1, <3>1, <3>2, <1>5 DEF n
      <3>3. CASE opened[ctx].name # n
        <4>1. sessions'[opened[ctx].name] = sessions[opened[ctx].name]
          BY <3>1, <3>3, <1>3
        <4>2. QED
          BY <2>1, <2>3, <3>1, <4>1, <1>1 DEF NamedInv, ContextInv
      <3>4. QED
        BY <3>2, <3>3
    <2>4. QED
      BY <2>2, <2>3, <1>1 DEF ContextInv
  <1>10. OneSession'
    <2>1. ASSUME NEW m \in Names, NEW s, s # 0 => m \in twice \/ sessions[m] = s
          PROVE  s # 0 => m \in twice \/ sessions'[m] = s
      BY <2>1, <1>3, <1>7
    <2>2. \A u \in Threads : got[u][1] \in Names
      BY DEF TypeOK
    <2>3. ASSUME NEW u \in Threads, got'[u][2] # 0
          PROVE  got'[u][1] \in twice \/ sessions'[got'[u][1]] = got'[u][2]
      <3>1. CASE got'[u] = got[u]
        BY <2>1, <2>2, <2>3, <3>1 DEF NamedInv, OneSession
      <3>2. CASE got'[u] = <<n, len>>
        BY <3>2, <1>3
      <3>3. QED
        BY <3>1, <3>2, <1>6
    <2>4. queueCtx' # 0 => QueueName \in twice \/ sessions'[QueueName] = queueCtx'
      <3>1. CASE call[t].queue
        BY <3>1, <1>1, <1>3, <1>4
      <3>2. CASE ~call[t].queue
        BY <3>2, <2>1, <1>1, NamesAssumption DEF NamedInv, OneSession
      <3>3. QED
        BY <3>1, <3>2
    <2>5. QED
      BY <2>3, <2>4, <1>1 DEF OneSession
  <1>11. QED
    BY <1>8, <1>9, <1>10 DEF NamedInv


LEMMA SetSessionNames ==
  ASSUME TypeOK, NamedInv, NEW n \in Names, SetSession(n)
  PROVE  NamedInv'
  <1>1. UNCHANGED <<sessions, opened, queueCtx, call, got, past>> /\ ctx' = sessions[n] /\ sessions[n] # 0
    BY DEF SetSession
  <1>2. NameInv' /\ OneSession'
    BY <1>1 DEF NamedInv, NameInv, OneSession, past
  <1>3. ContextInv'
    BY <1>1 DEF NamedInv, NameInv, ContextInv, past
  <1>4. QED
    BY <1>2, <1>3 DEF NamedInv

LEMMA QueueConfigureNames ==
  ASSUME NamedInv, QueueConfigure
  PROVE  NamedInv'
  <1>1. UNCHANGED <<sessions, opened, ctx, call, got, past>> /\ queueCtx' = 0
    BY DEF QueueConfigure
  <1>2. QED
    BY <1>1 DEF NamedInv, NameInv, ContextInv, OneSession, past

(***************************************************************************)
(* The invariant                                                           *)
(***************************************************************************)
LEMMA InitInv == Init => SessionInv
  <1> SUFFICES ASSUME Init PROVE SessionInv
    OBVIOUS
  <1>1. made = <<>> /\ opened = <<>> /\ Len(made) = 0 /\ Len(opened) = 0 /\ DOMAIN made = {} /\ DOMAIN opened = {}
    BY DEF Init
  <1>2. made \in Seq(PoolMade) /\ opened \in Seq(SessionMade)
    BY <1>1, EmptySeq
  <1>3. TypeOK
    <2>1. /\ made \in Seq([kind : Kinds, enc : [Sides -> [ser : Serializers \cup {None}, decode : BOOLEAN]]])
          /\ opened \in Seq([name : Names, kind : Kinds, pool : 1..Len(made)])
      BY <1>2 DEF PoolMade, SessionMade
    <2>2. pools \in [Kinds -> 0..Len(made)] /\ sessions \in [Names -> 0..Len(opened)]
      BY <1>1 DEF Init
    <2>3. ctx \in 0..Len(opened) /\ queueCtx \in 0..Len(opened)
      BY <1>1 DEF Init
    <2>4. got \in [Threads -> Names \X (0..Len(opened))]
      <3>1. <<Default, 0>> \in Names \X (0..Len(opened))
        BY <1>1, NamesAssumption
      <3>2. QED
        BY <3>1 DEF Init
    <2>5. \A t \in Threads : call[t] = Idle
      BY DEF Init
    <2>6. /\ key \in Kinds \cup {None} /\ store.val \in {None, "object", "text", "null"}
          /\ mixed \in BOOLEAN /\ bare \in BOOLEAN
          /\ twice \subseteq Names /\ replaced \subseteq Names /\ toggled \subseteq 1..Len(made)
      BY DEF Init, NoValue
    <2>7. calls \in 0..MaxCalls /\ commands \in 0..MaxCommands
      BY BoundAssumption DEF Init
    <2>8. QED
      BY <2>1, <2>2, <2>3, <2>4, <2>5, <2>6, <2>7 DEF TypeOK
  <1>4. CallInv
    BY DEF Init, CallInv, Idle
  <1>5. KindInv /\ PoolOfItsKind /\ EncoderInv /\ StoreInv
    BY <1>1 DEF Init, KindInv, PoolOfItsKind, EncoderInv, StoreInv, Idle
  <1>6. NameInv /\ ContextInv /\ OneSession
    BY <1>1 DEF Init, NameInv, ContextInv, OneSession, Idle
  <1>7. QED
    BY <1>3, <1>4, <1>5, <1>6 DEF SessionInv

(* A step of the manager, of a session or of nobody.                        *)
LEMMA Steps ==
  ASSUME TypeOK, [Next]_vars
  PROVE  \/ \E t \in Threads : Asks(t)
         \/ \E t \in Threads : Step(t)
         \/ QueueConfigure
         \/ \E n \in Names : SetSession(n)
         \/ \E s \in 1..Len(opened) :
              \/ \E e \in [ser : Serializers \cup {None}, decode : BOOLEAN] : Toggle(s, e)
              \/ \E x \in Sides, v \in Values : Write(s, x, v)
         \/ UNCHANGED vars
  <1>1. ASSUME NEW t \in Threads,
               \/ Ctx(t)
               \/ \E own \in BOOLEAN : QueueCtx(t, own)
               \/ \E a \in Asked : \/ Session(t, a, FALSE) \/ InitSession(t, a)
                                   \/ \E n \in {a.name, None} : GetSession(t, a, n)
        PROVE  Asks(t)
    BY <1>1, Requests
  <1>2. ASSUME NEW s \in DOMAIN opened, Disable(s) \/ \E k \in Serializers \cup {None} : Enable(s, k)
        PROVE  \E e \in [ser : Serializers \cup {None}, decode : BOOLEAN] : Toggle(s, e)
    <2>1. made[opened[s].pool].kind \in Serializers \cup {Plain}
      BY Tables DEF SessionMade, PoolMade, Kinds
    <2>2. CASE Disable(s)
      BY <2>2 DEF Disable
    <2>3. ASSUME NEW k \in Serializers \cup {None}, Enable(s, k)
          PROVE  \E e \in [ser : Serializers \cup {None}, decode : BOOLEAN] : Toggle(s, e)
      BY <2>1, <2>3 DEF Enable
    <2>4. QED
      BY <1>2, <2>2, <2>3
  <1>3. DOMAIN opened = 1..Len(opened)
    BY Tables
  <1>4. CASE Next
    <2>1. CASE \E s \in DOMAIN opened : \/ Disable(s)
                                        \/ \E k \in Serializers \cup {None} : Enable(s, k)
                                        \/ \E x \in Sides, v \in Values : Write(s, x, v)
      BY <2>1, <1>2, <1>3
    <2>2. CASE \E t \in Threads : \/ Step(t) \/ Ctx(t)
                        \/ \E own \in BOOLEAN : QueueCtx(t, own)
                        \/ \E a \in Asked : \/ Session(t, a, FALSE) \/ InitSession(t, a)
                                           \/ \E n \in {a.name, None} : GetSession(t, a, n)
      BY <2>2, <1>1
    <2>3. QED
      BY <1>4, <2>1, <2>2 DEF Next
  <1>5. QED
    BY <1>4

LEMMA AsksInv ==
  ASSUME SessionInv, NEW t \in Threads, Asks(t)
  PROVE  SessionInv'
  <1>1. PICK a \in Args, queue \in BOOLEAN : (queue => a.name = QueueName) /\ Session(t, a, queue)
    BY DEF Asks
  <1>2. TypeOK /\ CallInv /\ PoolInv /\ NamedInv
    BY DEF SessionInv, PoolInv, NamedInv
  <1>3. UNCHANGED Kept
    BY <1>1, SessionSplit DEF Shared, Kept
  <1>4. CASE Found(t, a, queue)
    <2>1. TypeOK' /\ CallInv' /\ call'[t].pc = "idle" /\ \A u \in Threads \ {t} : call'[u] = call[u]
      BY <1>1, <1>2, <1>4, FoundTypes DEF Idle
    <2>2. PoolInv'
      BY <2>1, <1>2, <1>3, KeepsPools
    <2>3. NamedInv'
      BY <1>1, <1>2, <1>4, FoundNames
    <2>4. QED
      BY <2>1, <2>2, <2>3 DEF SessionInv, PoolInv, NamedInv
  <1>5. CASE Starts(t, a, queue)
    <2>1. /\ TypeOK' /\ CallInv'
          /\ call'[t] = [pc |-> "key", a |-> a, queue |-> queue, pool |-> 0]
          /\ \A u \in Threads \ {t} : call'[u] = call[u]
      BY <1>1, <1>2, <1>5, StartsTypes
    <2>2. call'[t].pc = "key"
      BY <2>1
    <2>3. PoolInv'
      BY <2>1, <2>2, <1>2, <1>3, KeepsPools
    <2>4. NamedInv'
      BY <1>1, <1>2, <1>5, StartsNames
    <2>5. QED
      BY <2>1, <2>3, <2>4 DEF SessionInv, PoolInv, NamedInv
  <1>6. QED
    BY <1>1, <1>4, <1>5, SessionSplit

LEMMA StepInv ==
  ASSUME SessionInv, NEW t \in Threads, Step(t)
  PROVE  SessionInv'
  <1>1. TypeOK /\ CallInv /\ PoolInv /\ NamedInv
    BY DEF SessionInv, PoolInv, NamedInv
  <1>2. CASE SetKey(t)
    <2>1. /\ TypeOK' /\ CallInv' /\ call[t] # Idle /\ \A u \in Threads \ {t} : call'[u] = call[u]
          /\ call[t] \in Calls /\ call'[t] = [call[t] EXCEPT !.pc = "pool"]
      BY <1>1, <1>2, SetKeyTypes
    <2>2. call'[t].pc = "pool" /\ call'[t].a = call[t].a /\ call'[t] # Idle
      BY <2>1 DEF Calls, Idle
    <2>3. call[t].pc = "key" /\ UNCHANGED <<sessions, opened, ctx, queueCtx, got, twice, replaced, bare>>
      BY <1>2 DEF SetKey
    <2>4. NamedInv'
      BY <2>1, <2>2, <2>3, <1>1, KeepsNames
    <2>5. PoolInv'
      BY <1>1, <1>2, SetKeyPools
    <2>6. QED
      BY <2>1, <2>4, <2>5 DEF SessionInv, PoolInv, NamedInv
  <1>3. CASE GetPool(t)
    <2>1. /\ TypeOK' /\ CallInv' /\ call[t] # Idle /\ \A u \in Threads \ {t} : call'[u] = call[u]
          /\ call[t] \in Calls
          /\ call'[t] = [call[t] EXCEPT !.pc = IF pools[UrlKey(call[t].a)] = 0 THEN "build" ELSE "store",
                                        !.pool = pools[UrlKey(call[t].a)]]
      BY <1>1, <1>3, GetPoolTypes
    <2>2. call'[t].pc \in {"build", "store"} /\ call'[t].a = call[t].a /\ call'[t] # Idle
      BY <2>1 DEF Calls, Idle
    <2>3. call[t].pc = "pool" /\ UNCHANGED <<sessions, opened, ctx, queueCtx, got, twice, replaced, bare>>
      BY <1>3 DEF GetPool, past
    <2>4. NamedInv'
      BY <2>1, <2>2, <2>3, <1>1, KeepsNames
    <2>5. PoolInv'
      BY <1>1, <1>3, GetPoolPools
    <2>6. QED
      BY <2>1, <2>4, <2>5 DEF SessionInv, PoolInv, NamedInv
  <1>4. CASE MakePool(t)
    <2>1. /\ TypeOK' /\ CallInv' /\ call[t] # Idle /\ \A u \in Threads \ {t} : call'[u] = call[u]
          /\ call[t] \in Calls /\ call'[t] = [call[t] EXCEPT !.pc = "store", !.pool = Len(made')]
      BY <1>1, <1>4, MakePoolTypes
    <2>2. call'[t].pc = "store" /\ call'[t].a = call[t].a /\ call'[t] # Idle
      BY <2>1 DEF Calls, Idle
    <2>3. call[t].pc = "build" /\ UNCHANGED <<sessions, opened, ctx, queueCtx, got, twice, replaced, bare>>
      BY <1>4 DEF MakePool, past
    <2>4. NamedInv'
      BY <2>1, <2>2, <2>3, <1>1, KeepsNames
    <2>5. PoolInv'
      BY <1>1, <1>4, MakePoolPools
    <2>6. QED
      BY <2>1, <2>4, <2>5 DEF SessionInv, PoolInv, NamedInv
  <1>5. CASE Store(t)
    BY <1>1, <1>5, StoreTypes, StorePools, StoreNames DEF SessionInv, PoolInv, NamedInv
  <1>6. CASE SetCtx(t)
    <2>1. TypeOK' /\ CallInv' /\ call'[t].pc = "idle" /\ \A u \in Threads \ {t} : call'[u] = call[u]
      BY <1>1, <1>6, SetCtxTypes DEF Idle
    <2>2. UNCHANGED Kept
      BY <1>6 DEF SetCtx, Kept, past
    <2>3. PoolInv'
      BY <2>1, <2>2, <1>1, KeepsPools
    <2>4. NamedInv'
      BY <1>1, <1>6, SetCtxNames
    <2>5. QED
      BY <2>1, <2>3, <2>4 DEF SessionInv, PoolInv, NamedInv
  <1>7. QED
    BY <1>2, <1>3, <1>4, <1>5, <1>6 DEF Step

LEMMA NextInv ==
  ASSUME SessionInv, [Next]_vars
  PROVE  SessionInv'
  <1>1. TypeOK /\ CallInv /\ PoolInv /\ NamedInv
    BY DEF SessionInv, PoolInv, NamedInv
  <1>2. CASE QueueConfigure
    <2>1. UNCHANGED <<key, pools, made, opened, call, store, mixed, toggled>>
      BY <1>2 DEF QueueConfigure, past
    <2>2. PoolInv'
      BY <2>1, <1>1 DEF PoolInv, KindInv, PoolOfItsKind, EncoderInv, StoreInv
    <2>3. QED
      BY <2>2, <1>1, <1>2, QueueConfigureTypes, QueueConfigureNames DEF SessionInv, PoolInv, NamedInv
  <1>3. ASSUME NEW n \in Names, SetSession(n) PROVE SessionInv'
    <2>1. UNCHANGED <<key, pools, made, opened, call, store, mixed, toggled>>
      BY <1>3 DEF SetSession, past
    <2>2. PoolInv'
      BY <2>1, <1>1 DEF PoolInv, KindInv, PoolOfItsKind, EncoderInv, StoreInv
    <2>3. QED
      BY <2>2, <1>1, <1>3, SetSessionTypes, SetSessionNames DEF SessionInv, PoolInv, NamedInv
  <1>4. ASSUME UNCHANGED <<manager, past>> PROVE NamedInv'
    BY <1>1, <1>4 DEF NamedInv, NameInv, ContextInv, OneSession, manager, past
  <1>5. ASSUME NEW s \in 1..Len(opened),
               NEW e \in [ser : Serializers \cup {None}, decode : BOOLEAN], Toggle(s, e)
        PROVE  SessionInv'
    <2>1. UNCHANGED <<manager, past>>
      BY <1>5 DEF Toggle
    <2>2. QED
      BY <2>1, <1>1, <1>4, <1>5, ToggleTypes, TogglePools DEF SessionInv, PoolInv, NamedInv
  <1>6. ASSUME NEW s \in 1..Len(opened), NEW x \in Sides, NEW v \in Values, Write(s, x, v)
        PROVE  SessionInv'
    <2>1. UNCHANGED <<manager, past>>
      BY <1>6 DEF Write
    <2>2. QED
      BY <2>1, <1>1, <1>4, <1>6, WriteTypes, WritePools DEF SessionInv, PoolInv, NamedInv
  <1>7. CASE UNCHANGED vars
    <2>1. TypeOK' /\ CallInv'
      BY <1>1, <1>7 DEF TypeOK, CallInv, Calls, vars, manager, past
    <2>2. PoolInv'
      BY <1>1, <1>7 DEF PoolInv, KindInv, PoolOfItsKind, EncoderInv, StoreInv, vars, manager, past
    <2>3. NamedInv'
      BY <1>4, <1>7 DEF vars
    <2>4. QED
      BY <2>1, <2>2, <2>3 DEF SessionInv, PoolInv, NamedInv
  <1>8. QED
    BY <1>1, <1>2, <1>3, <1>5, <1>6, <1>7, Steps, AsksInv, StepInv

LEMMA SessionInvariant == Spec => []SessionInv
  <1>1. SessionInv /\ [Next]_vars => SessionInv'
    BY NextInv
  <1>2. QED
    BY InitInv, <1>1, PTL DEF Spec

(* Sessions, and the table of pools, have pools of the serializer that was   *)
(* asked for, unless two calls shared the URL object: KVDBSessionManager.   *)
(* create_session and get_pool, which read the key of settings.url again.   *)
THEOREM PoolsOfTheirKind == Spec => []PoolOfItsKind
  <1>1. SessionInv => PoolOfItsKind
    BY DEF SessionInv
  <1>2. QED
    BY <1>1, SessionInvariant, PTL

(* Values survive the way through the encoders of any two sessions with the  *)
(* same serializer: Encoder.encode, Encoder.decode and the pools' encoders.  *)
THEOREM Readable == Spec => []ReadsBack
  <1>1. SessionInv => ReadsBack
    BY PoolsReadBack DEF SessionInv, PoolInv
  <1>2. QED
    BY <1>1, SessionInvariant, PTL

(* Names have one session, and the context is the session of its name:       *)
(* KVDBSessionManager.session, set_ctx and the context of a task queue.      *)
THEOREM NamesLead == Spec => []NamesAgree
  <1>1. ContextInv /\ TypeOK => ContextIsCurrent
    BY DEF ContextInv, ContextIsCurrent, Idle
  <1>2. SessionInv => NamesAgree
    BY <1>1 DEF SessionInv, NamesAgree
  <1>3. QED
    BY <1>2, SessionInvariant, PTL
=============================================================================
