------------------------------ MODULE CertCache ------------------------------
(***************************************************************************)
(* CertAuthority::serverCtxForHost of proxy_ToInfinity                     *)
(* (Crypto/TlsManager.cpp) and the connection threads that use it          *)
(* (Http1Engine::process, Context).  A thread looks the host up under the  *)
(* lock, builds a context without it, and looks again before it publishes. *)
(* What a thread gets is a plain pointer: no reference is taken until      *)
(* SSL_new.                                                                *)
(*                                                                         *)
(* Every connection has a thread of its own and builds at most one         *)
(* context, so a context is named after the connection that built it.      *)
(* Each block under mtx_ is one action.                                    *)
(*                                                                         *)
(* proxy_v4, proxy_plan_A and proxy_plan_B have the same class.            *)
(***************************************************************************)
EXTENDS Naturals, FiniteSets

CONSTANTS
    Conn,       \* connections, one detached thread each
    Hosts,      \* CONNECT targets
    None        \* the null pointer

ASSUME ConnAssumption == IsFiniteSet(Conn) /\ None \notin Conn

VARIABLES
    pc,         \* where each connection's thread is
    host,       \* ctx.targetHost
    ctx,        \* the SSL_CTX* the thread holds (cCtx)
    cache,      \* cache_: host -> SSL_CTX*
    refs        \* OpenSSL's reference count of each context; 0: not allocated

vars == <<pc, host, ctx, cache, refs>>

Init ==
    /\ pc = [t \in Conn |-> "lookup"]
    /\ host \in [Conn -> Hosts]
    /\ ctx = [t \in Conn |-> None]
    /\ cache = [h \in Hosts |-> None]
    /\ refs = [t \in Conn |-> 0]

Goto(t, from, to) == pc[t] = from /\ pc' = [pc EXCEPT ![t] = to]

\* SSL_CTX_free and SSL_free drop one reference, SSL_new takes one.
Ref(x) == [refs EXCEPT ![x] = @ + 1]
Unref(x) == [refs EXCEPT ![x] = @ - 1]

-----------------------------------------------------------------------------
\* Mutant: the last host looked up stands for all of them.
Hit_AnyHost(t) == {cache[h] : h \in Hosts} \ {None}

\* The contexts a look-up under the lock finds for t: none or one.
Hit(t) == {cache[host[t]]} \ {None}

LookupHit(t) ==
    /\ Goto(t, "lookup", "use")
    /\ \E x \in Hit(t) : ctx' = [ctx EXCEPT ![t] = x]
    /\ UNCHANGED <<host, cache, refs>>

LookupMiss(t) ==
    /\ Goto(t, "lookup", "build") /\ Hit(t) = {}
    /\ UNCHANGED <<host, ctx, cache, refs>>

\* makeLeaf, SSL_CTX_new and the certificate set-up, without the lock.
Build(t) ==
    /\ Goto(t, "build", "publish")
    /\ refs' = Ref(t)
    /\ ctx' = [ctx EXCEPT ![t] = t]
    /\ UNCHANGED <<host, cache>>

\* Each of their failures frees what was made; the caller gets nullptr and
\* gives the connection up.
BuildFail(t) ==
    /\ Goto(t, "build", "done")
    /\ UNCHANGED <<host, ctx, cache, refs>>

\* Mutants of the loser of a race: it keeps its own context; it frees the
\* published one instead of its own.
Lose_Keep(t) == refs
Lose_FreeOther(t) == Unref(cache[host[t]])

\* The loser of a race frees the context it has built.
Lose(t) == Unref(t)

PublishLoses(t) ==
    /\ Goto(t, "publish", "use")
    /\ \E x \in Hit(t) : ctx' = [ctx EXCEPT ![t] = x]
    /\ refs' = Lose(t)
    /\ UNCHANGED <<host, cache>>

\* Mutant: no second look-up.
MayPublish_Blindly(t) == TRUE
MayPublish(t) == Hit(t) = {}

PublishWins(t) ==
    /\ Goto(t, "publish", "use") /\ MayPublish(t)
    /\ cache' = [cache EXCEPT ![host[t]] = ctx[t]]
    /\ UNCHANGED <<host, ctx, refs>>

-----------------------------------------------------------------------------
\* SSL_new(cCtx) in Http1Engine::process.
SslNew(t) ==
    /\ Goto(t, "use", "serve")
    /\ refs' = Ref(ctx[t])
    /\ UNCHANGED <<host, ctx, cache>>

\* ~Context, whatever way the connection ends: SSL_free(clientSsl).
Close(t) ==
    /\ Goto(t, "serve", "done")
    /\ refs' = Unref(ctx[t])
    /\ UNCHANGED <<host, ctx, cache>>

Step(t) ==
    \/ LookupHit(t) \/ LookupMiss(t) \/ Build(t) \/ BuildFail(t)
    \/ PublishLoses(t) \/ PublishWins(t) \/ SslNew(t) \/ Close(t)

Terminated == (\A t \in Conn : pc[t] = "done") /\ UNCHANGED vars

Next == (\E t \in Conn : Step(t)) \/ Terminated

Spec == Init /\ [][Next]_vars

-----------------------------------------------------------------------------
TypeOK ==
    /\ pc \in [Conn -> {"lookup", "build", "publish", "use", "serve", "done"}]
    /\ host \in [Conn -> Hosts]
    /\ ctx \in [Conn -> Conn \cup {None}]
    /\ cache \in [Hosts -> Conn \cup {None}]
    /\ refs \in [Conn -> Nat]

Holding(t) == pc[t] \in {"use", "serve"}

\* A context is alive as long as a thread holds a pointer to it, although the
\* thread counts as a reference only from SSL_new on: between the return of
\* serverCtxForHost and SSL_new the cache keeps it alive.
NoUseAfterFree == \A t \in Conn : Holding(t) => refs[ctx[t]] > 0

\* All connections to a host present the same leaf certificate, and it was
\* issued for that host, however many threads raced to build it.
OneLeafPerHost ==
    \A s, t \in Conn : Holding(s) /\ Holding(t) /\ host[s] = host[t] =>
        ctx[s] = ctx[t] /\ host[ctx[t]] = host[t]

\* No context leaks and none is freed twice: its count is one for its place in
\* the cache, or for the thread still building it, plus one for each SSL.
Owned(x) == (\E h \in Hosts : cache[h] = x) \/ pc[x] = "publish"
Sessions(x) == {t \in Conn : pc[t] = "serve" /\ ctx[t] = x}
RefsExact ==
    \A x \in Conn : refs[x] = Cardinality(Sessions(x)) + IF Owned(x) THEN 1 ELSE 0

\* A published context is never replaced: the pointer a thread took from the
\* cache stays the one in the cache.
PublishedForever ==
    [][\A h \in Hosts : cache[h] # None => cache'[h] = cache[h]]_vars

\* What keeps the pointers good: a holder has the cached context of its host,
\* a builder its own and not yet published one, and the cache only contexts
\* that were built for their host.
Pointers ==
    /\ \A t \in Conn : Holding(t) => ctx[t] = cache[host[t]] /\ ctx[t] # None
    /\ \A t \in Conn : pc[t] = "publish" => ctx[t] = t
    /\ \A h \in Hosts : cache[h] # None =>
          host[cache[h]] = h /\ pc[cache[h]] \in {"use", "serve", "done"}

CacheInv == TypeOK /\ Pointers /\ RefsExact
=============================================================================
