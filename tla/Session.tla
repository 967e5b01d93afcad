------------------------------ MODULE Session ------------------------------
(***************************************************************************)
(* The session manager of a process (kvdb/client.py), the sessions it      *)
(* makes over shared connection pools, and what values look like after a   *)
(* way through the encoders of those pools.                                *)
(*                                                                         *)
(* Threads ask for sessions by name.  A session has a serializer, or Plain *)
(* for none.  Pools are kept by the key of the URL, a hash of the URL and  *)
(* the serializer: the key is a serializer here.  The key is an attribute  *)
(* of the URL object, and all sessions without a url of their own use the  *)
(* object settings.url.                                                    *)
(***************************************************************************)
EXTENDS Integers, Sequences, FiniteSets

CONSTANTS Threads, Names,
          Default, QueueName,  \* the names "default" and "tasks:<queue>"
          Serializers, Plain, None,
          Values,              \* written: "object", "text", "null" (the text) or "none"
          Asked,               \* the arguments callers pass: see Args
          MaxCalls,            \* bound on the calls of the manager
          MaxCommands          \* bound on the commands and the toggles of encoders

(* The arguments of a call: setCtx is set_as_ctx, None when not given, own *)
(* a url of the caller's own.                                              *)
Kinds == Serializers \cup {Plain}
Args == [name : Names, kind : Kinds, setCtx : {TRUE, FALSE, None}, over : BOOLEAN, own : BOOLEAN]

ASSUME NamesAssumption == {Default, QueueName} \subseteq Names
ASSUME NoneAssumption == None \notin Serializers \cup Threads \cup {Plain} /\ Plain \notin Serializers
ASSUME ValuesAssumption == Values \subseteq {"object", "text", "null", "none"}
ASSUME AskedAssumption == Asked \subseteq Args
ASSUME BoundAssumption == MaxCalls \in Nat /\ MaxCommands \in Nat

VARIABLES
    key,       \* the key of settings.url
    pools,     \* c.pools: the pool of each key; 0 for none
    made,      \* the SessionPools made: serializer, encoders of both pools
    sessions,  \* c.sessions: the session of each name; 0 for none
    opened,    \* the KVDBSession objects made: name, serializer, pool
    ctx,       \* c.ctx
    queueCtx,  \* TaskQueue._ctx
    call,      \* the call of the manager each thread is in
    got,       \* the session each thread was given last, and the name it asked for
    store,     \* the value of a key of the database
    mixed,     \* two sessions with different keys were made at the same time
    twice,     \* names asked for with overwrite, or by two threads at once
    replaced,  \* names given a session that is not the context, over another one
    toggled,   \* pools whose encoder a session switched off or on
    bare,      \* the first session was not to be the context
    calls, commands

manager == <<key, pools, sessions, opened, ctx, queueCtx, call, got>>
past == <<mixed, twice, replaced, bare>>
vars == <<manager, made, store, past, toggled, calls, commands>>

Sides == {"pool", "apool"}
Idle == [pc |-> "idle"]
NoValue == [ser |-> None, val |-> None]

Init ==
  /\ key = None /\ pools = [k \in Kinds |-> 0] /\ made = <<>>
  /\ sessions = [n \in Names |-> 0] /\ opened = <<>>
  /\ ctx = 0 /\ queueCtx = 0
  /\ call = [t \in Threads |-> Idle]
  /\ got = [t \in Threads |-> <<Default, 0>>]
  /\ store = NoValue
  /\ mixed = FALSE /\ twice = {} /\ replaced = {} /\ toggled = {} /\ bare = FALSE
  /\ calls = 0 /\ commands = 0

-----------------------------------------------------------------------------
(* session: the session of that name, or a new one.                       *)
Return(t, n, s) == /\ call' = [call EXCEPT ![t] = Idle]
                   /\ got' = [got EXCEPT ![t] = <<n, s>>]

Session(t, a, queue) ==
  LET s == sessions[a.name]
      found == s # 0 /\ ~a.over
  IN /\ call[t] = Idle /\ calls < MaxCalls
     /\ calls' = calls + 1
     /\ IF found
        THEN /\ ctx' = IF a.setCtx = TRUE THEN s ELSE ctx
             /\ queueCtx' = IF queue THEN s ELSE queueCtx
             /\ Return(t, a.name, s)
             /\ UNCHANGED twice
        ELSE /\ call' = [call EXCEPT ![t] = [pc |-> "key", a |-> a, queue |-> queue, pool |-> 0]]
             /\ twice' = IF a.over \/ \E u \in Threads \ {t} : call[u] # Idle /\ call[u].a.name = a.name
                         THEN twice \cup {a.name} ELSE twice
             /\ UNCHANGED <<ctx, queueCtx, got>>
     /\ UNCHANGED <<key, pools, sessions, opened, made, store, mixed, replaced, bare, toggled, commands>>

(* init_session raises where session returns what it has.                  *)
InitSession(t, a) == (sessions[a.name] = 0 \/ a.over) /\ Session(t, a, FALSE)

(* get_session, which without a name asks for the current one, leaves the *)
(* context alone when it has the session.                                  *)
GetSession(t, a, n) ==
  LET name == IF n # None THEN n ELSE IF ctx = 0 THEN Default ELSE opened[ctx].name
  IN Session(t, [a EXCEPT !.name = name, !.over = FALSE,
                          !.setCtx = IF sessions[name] = 0 THEN @ ELSE None], FALSE)

(* The property ctx asks for a session when there is no context.           *)
Ctx(t) ==
  ctx = 0 /\ Session(t, [name |-> Default, kind |-> Plain, setCtx |-> None,
                         over |-> FALSE, own |-> FALSE], FALSE)

(* The properties ctx and raw_ctx of a TaskQueue: serializer = None is     *)
(* dropped from the kwargs, and both are kept in _ctx.                     *)
QueueCtx(t, own) ==
  queueCtx = 0 /\ Session(t, [name |-> QueueName, kind |-> Plain, setCtx |-> FALSE,
                              over |-> FALSE, own |-> own], TRUE)

(* TaskQueue.configure closes _ctx; the manager still has the session.     *)
QueueConfigure ==
  /\ queueCtx # 0 /\ calls < MaxCalls
  /\ queueCtx' = 0 /\ calls' = calls + 1
  /\ UNCHANGED <<key, pools, sessions, opened, ctx, call, got, made, store, past, toggled, commands>>

SetSession(n) ==
  /\ sessions[n] # 0 /\ calls < MaxCalls
  /\ ctx' = sessions[n] /\ calls' = calls + 1
  /\ UNCHANGED <<key, pools, sessions, opened, queueCtx, call, got, made, store, past, toggled, commands>>

-----------------------------------------------------------------------------
(* create_session: set_key on the URL object, ...                          *)
SetKey(t) ==
  LET a == call[t].a
  IN /\ call[t].pc = "key"
     /\ key' = IF a.own THEN key ELSE a.kind
     /\ call' = [call EXCEPT ![t].pc = "pool"]
     /\ mixed' = (mixed \/ (~a.own /\ \E u \in Threads \ {t} :
                     call[u].pc \in {"pool", "build"} /\ ~call[u].a.own /\ call[u].a.kind # a.kind))
     /\ UNCHANGED <<pools, sessions, opened, ctx, queueCtx, got, made, store, twice, replaced, bare,
                    toggled, calls, commands>>
(* An encoder decodes if it has a serializer.                              *)
NewEncoder(s) == [ser |-> s, decode |-> s # None]

\* Mutant of UrlKey: a url of the caller leads to the pool of settings.url.
UrlKeyLast(a) == IF key = None THEN a.kind ELSE key

UrlKey(a) == IF a.own THEN a.kind ELSE key

(* ... get_pool, which takes the pool stored under the key of the object,  *)
GetPool(t) ==
  LET p == pools[UrlKey(call[t].a)]
  IN /\ call[t].pc = "pool"
     /\ call' = [call EXCEPT ![t].pc = IF p = 0 THEN "build" ELSE "store", ![t].pool = p]
     /\ UNCHANGED <<key, pools, sessions, opened, ctx, queueCtx, got, made, store, past,
                    toggled, calls, commands>>

(* or makes one for the serializer of the call and stores it under the key *)
(* the object has by then.                                                 *)
NewPool(k) == [kind |-> k, enc |-> [x \in Sides |-> NewEncoder(IF k = Plain THEN None ELSE k)]]

MakePool(t) ==
  LET a == call[t].a
  IN /\ call[t].pc = "build"
     /\ made' = Append(made, NewPool(a.kind))
     /\ pools' = [pools EXCEPT ![UrlKey(a)] = Len(made')]
     /\ call' = [call EXCEPT ![t].pc = "store", ![t].pool = Len(made')]
     /\ UNCHANGED <<key, sessions, opened, ctx, queueCtx, got, store, past, toggled, calls, commands>>

(* The session object has the serializer that was asked for, whatever the  *)
(* pool it was given.                                                      *)
NewSession(a, pool) == [name |-> a.name, kind |-> a.kind, pool |-> pool]

\* Mutant of Store: the session before is counted, not none.
StoreFirst(t) ==
  LET c == call[t]
      asked == c.a.setCtx
      set == IF asked = None THEN \E n \in Names : sessions[n] # 0 ELSE asked
  IN /\ c.pc = "store"
     /\ opened' = Append(opened, NewSession(c.a, c.pool))
     /\ sessions' = [sessions EXCEPT ![c.a.name] = Len(opened')]
     /\ bare' = (bare \/ (asked = FALSE /\ opened = <<>>))
     /\ replaced' = replaced \cup {n \in {c.a.name} : sessions[n] # 0 /\ ~set}
     /\ queueCtx' = IF c.queue THEN Len(opened') ELSE queueCtx
     /\ IF set THEN call' = [call EXCEPT ![t].pc = "ctx"] /\ UNCHANGED got
        ELSE Return(t, c.a.name, Len(opened'))
     /\ UNCHANGED <<key, pools, ctx, made, store, mixed, twice, toggled, calls, commands>>

(* session stores what create_session made; the first is the context       *)
(* unless the caller says no.                                              *)
Store(t) ==
  LET c == call[t]
      asked == c.a.setCtx
      set == IF asked = None THEN \A n \in Names : sessions[n] = 0 ELSE asked
  IN /\ c.pc = "store"
     /\ opened' = Append(opened, NewSession(c.a, c.pool))
     /\ sessions' = [sessions EXCEPT ![c.a.name] = Len(opened')]
     /\ bare' = (bare \/ (asked = FALSE /\ opened = <<>>))
     /\ replaced' = replaced \cup {n \in {c.a.name} : sessions[n] # 0 /\ ~set}
     /\ queueCtx' = IF c.queue THEN Len(opened') ELSE queueCtx
     /\ IF set THEN call' = [call EXCEPT ![t].pc = "ctx"] /\ UNCHANGED got
        ELSE Return(t, c.a.name, Len(opened'))
     /\ UNCHANGED <<key, pools, ctx, made, store, mixed, twice, toggled, calls, commands>>

(* set_ctx goes by the name.                                               *)
SetCtx(t) ==
  LET n == call[t].a.name
  IN /\ call[t].pc = "ctx"
     /\ ctx' = sessions[n]
     /\ Return(t, n, sessions[n])
     /\ UNCHANGED <<key, pools, sessions, opened, queueCtx, made, store, past, toggled, calls, commands>>

-----------------------------------------------------------------------------
SerializationEnabled(e) == e.ser # None /\ e.decode

(* Encoder.encode: what is stored of a value.  None is the text null.      *)
Encode(e, v) ==
  CASE v = "object" -> [ser |-> e.ser, val |-> v]
    [] v = "none" -> [ser |-> None, val |-> "null"]
    [] OTHER -> [ser |-> None, val |-> v]

(* Encoder.decode.  A value that another serializer encoded loses its      *)
(* prefix and is given as the text that is left.                           *)
Decode(e, b) ==
  IF ~e.decode THEN "bytes"
  ELSE CASE b.ser \notin {None, e.ser} -> "garbled"
         [] b.ser = None /\ b.val = "null" -> "none"
         [] OTHER -> b.val

EncoderOf(s, x) == made[opened[s].pool].enc[x]
Toggled(s, x) == x = "pool" /\ opened[s].pool \in toggled

(* A SET through the client or the async client of session s.  An object   *)
(* raises DataError where no serializer is on.                             *)
Write(s, x, v) ==
  LET b == Encode(EncoderOf(s, x), v)
  IN /\ commands < MaxCommands
     /\ v = "object" => SerializationEnabled(EncoderOf(s, x))
     /\ store' = [ser |-> b.ser, val |-> b.val, by |-> opened[s].kind, put |-> v, off |-> Toggled(s, x)]
     /\ commands' = commands + 1
     /\ UNCHANGED <<manager, made, past, toggled, calls>>

(* What a GET of session s gives.                                          *)
Read(s, x) == Decode(EncoderOf(s, x), store)

\* Mutant of Toggle: the encoder of the async pool is changed as well.
ToggleBoth(s, e) ==
  LET p == opened[s].pool
  IN /\ commands < MaxCommands
     /\ made' = [made EXCEPT ![p].enc = [x \in Sides |-> e]]
     /\ toggled' = toggled \cup {p}
     /\ commands' = commands + 1
     /\ UNCHANGED <<manager, store, past, calls>>

(* The pools of a session turn to the encoder of the sync pool only.       *)
SetEncoder(p, e) == /\ made' = [made EXCEPT ![p].enc["pool"] = e]
                    /\ toggled' = toggled \cup {p}

(* enable_serialization and disable_serialization of a session change the  *)
(* encoder of the sync pool, for every session that shares the pool.       *)
Toggle(s, e) ==
  /\ commands < MaxCommands
  /\ SetEncoder(opened[s].pool, e)
  /\ commands' = commands + 1
  /\ UNCHANGED <<manager, store, past, calls>>

Disable(s) == Toggle(s, [ser |-> None, decode |-> FALSE])

(* Without a serializer the one the encoder was made with comes back, and  *)
(* decode_responses is on in any case.                                     *)
Enable(s, k) ==
  LET kind == made[opened[s].pool].kind
  IN Toggle(s, [ser |-> IF k # None THEN k ELSE IF kind = Plain THEN None ELSE kind,
                decode |-> TRUE])

Step(t) == SetKey(t) \/ GetPool(t) \/ MakePool(t) \/ Store(t) \/ SetCtx(t)

Next ==
  \/ \E t \in Threads : \/ Step(t) \/ Ctx(t)
                        \/ \E own \in BOOLEAN : QueueCtx(t, own)
                        \/ \E a \in Asked : \/ Session(t, a, FALSE) \/ InitSession(t, a)
                                           \/ \E n \in {a.name, None} : GetSession(t, a, n)
  \/ QueueConfigure
  \/ \E n \in Names : SetSession(n)
  \/ \E s \in DOMAIN opened :
       \/ Disable(s)
       \/ \E k \in Serializers \cup {None} : Enable(s, k)
       \/ \E x \in Sides, v \in Values : Write(s, x, v)

Spec == Init /\ [][Next]_vars

-----------------------------------------------------------------------------
(* The shape of the manager's state: it refers to what was made.           *)
TypeOK ==
  /\ key \in Kinds \cup {None}
  /\ pools \in [Kinds -> 0..Len(made)]
  /\ made \in Seq([kind : Kinds, enc : [Sides -> [ser : Serializers \cup {None}, decode : BOOLEAN]]])
  /\ sessions \in [Names -> 0..Len(opened)]
  /\ opened \in Seq([name : Names, kind : Kinds, pool : 1..Len(made)])
  /\ ctx \in 0..Len(opened) /\ queueCtx \in 0..Len(opened)
  /\ got \in [Threads -> Names \X (0..Len(opened))]
  /\ \A t \in Threads : call[t] # Idle => call[t].a \in Args /\ call[t].pool \in 0..Len(made)
  /\ store.val \in {None, "object", "text", "null"}
  /\ mixed \in BOOLEAN /\ bare \in BOOLEAN
  /\ twice \subseteq Names /\ replaced \subseteq Names /\ toggled \subseteq 1..Len(made)
  /\ calls \in 0..MaxCalls /\ commands \in 0..MaxCommands

(* The pool of a session, and that stored for a key, has the serializer    *)
(* the session was asked for with, unless two sessions of different        *)
(* serializers were made from settings.url at the same time: the key is    *)
(* read from the shared object after another call may have changed it.     *)
PoolOfItsKind ==
  ~mixed => /\ \A s \in DOMAIN opened : made[opened[s].pool].kind = opened[s].kind
            /\ \A k \in Kinds : pools[k] # 0 => made[pools[k]].kind = k

(* What a session with a serializer writes, another one with the same      *)
(* serializer reads back; only the text null comes back as None.  On the   *)
(* sync side a session that switches serialization off or on takes this    *)
(* from all sessions of the pool; the async side is not touched by it.     *)
ReadsBack ==
  (store # NoValue /\ ~mixed) =>
    \A s \in DOMAIN opened, x \in Sides :
      (opened[s].kind \in Serializers \cap {store.by} /\ ~store.off /\ ~Toggled(s, x))
      => Read(s, x) = IF store.put = "null" THEN "none" ELSE store.put

(* With no call under way there is a context once there is a session,      *)
(* unless the first was not to be it, and it is the session that its name  *)
(* leads to, the one _session_function takes, unless that name was given   *)
(* another session without set_as_ctx.                                     *)
ContextIsCurrent ==
  (\A t \in Threads : call[t] = Idle) =>
    /\ (opened # <<>> /\ ~bare) => ctx # 0
    /\ ctx # 0 => opened[ctx].name \in replaced \/ sessions[opened[ctx].name] = ctx

(* All that ask for a name get the same session, unless someone asked to   *)
(* overwrite it or two calls found it missing; a task queue that was       *)
(* configured again does not get a new one.                                *)
OneSession ==
  /\ \A t \in Threads : got[t][2] # 0 => got[t][1] \in twice \/ sessions[got[t][1]] = got[t][2]
  /\ queueCtx # 0 => QueueName \in twice \/ sessions[QueueName] = queueCtx

(* Names lead to the sessions that were made for them, the context among   *)
(* them, and the tables refer to what was made.                            *)
NamesAgree == TypeOK /\ ContextIsCurrent /\ OneSession
=============================================================================
