--------------------------- MODULE CertCacheProofs ---------------------------
(***************************************************************************)
(* Proofs about CertCache for any finite set of connections and any hosts. *)
(* CacheInv is inductive; the three safety properties follow from it.      *)
(***************************************************************************)
EXTENDS CertCache, FiniteSetTheorems, TLAPS

\* The sessions on a context are finitely many, so their number is a natural
\* number and changes by one when one is added or removed.
LEMMA SessionsFinite ==
    ASSUME NEW x \in Conn
    PROVE  IsFiniteSet(Sessions(x)) /\ Cardinality(Sessions(x)) \in Nat
<1>1. Sessions(x) \subseteq Conn
  BY DEF Sessions
<1> QED
  BY <1>1, ConnAssumption, FS_Subset, FS_CardinalityType

\* No context is owned, and none has a session, at the start.
LEMMA InitCacheInv == Init => CacheInv
<1> SUFFICES ASSUME Init PROVE CacheInv
  OBVIOUS
<1>1. TypeOK
  BY DEF Init, TypeOK
<1>2. Pointers
  BY DEF Init, Pointers, Holding
<1>3. RefsExact
  <2> SUFFICES ASSUME NEW x \in Conn
               PROVE refs[x] = Cardinality(Sessions(x)) + IF Owned(x) THEN 1 ELSE 0
    BY DEF RefsExact
  <2>1. Sessions(x) = {} /\ ~Owned(x)
    BY ConnAssumption DEF Init, Sessions, Owned
  <2> QED
    BY <2>1, FS_EmptySet DEF Init
<1> QED
  BY <1>1, <1>2, <1>3 DEF CacheInv

\* A step that changes no reference count, no owner and no session keeps
\* RefsExact.
LEMMA RefsKept ==
    ASSUME RefsExact, refs' = refs,
           \A x \in Conn : Sessions(x)' = Sessions(x) /\ (Owned(x)' <=> Owned(x))
    PROVE  RefsExact'
BY DEF RefsExact

\* A step of t that moves it between places where it has no session and is no
\* builder, and leaves the cache alone, keeps sessions and owners.
LEMMA QuietStep ==
    ASSUME TypeOK, NEW t \in Conn, NEW from, NEW to, Goto(t, from, to),
           from \notin {"publish", "serve"}, to \notin {"publish", "serve"},
           UNCHANGED <<host, cache>>, \A s \in Conn \ {t} : ctx'[s] = ctx[s]
    PROVE  \A x \in Conn : Sessions(x)' = Sessions(x) /\ (Owned(x)' <=> Owned(x))
<1> SUFFICES ASSUME NEW x \in Conn
             PROVE  Sessions(x)' = Sessions(x) /\ (Owned(x)' <=> Owned(x))
  OBVIOUS
<1>1. \A s \in Conn : (pc'[s] = "serve" <=> pc[s] = "serve")
                      /\ (pc'[s] = "publish" <=> pc[s] = "publish")
  BY DEF TypeOK, Goto
<1>2. \A s \in Conn : pc[s] = "serve" => ctx'[s] = ctx[s]
  BY DEF Goto
<1> QED
  BY <1>1, <1>2 DEF Sessions, Owned

\* What a look-up finds is the cached context of the thread's host.
LEMMA HitIsCached ==
    ASSUME TypeOK, NEW t \in Conn, NEW x \in Hit(t)
    PROVE  x = cache[host[t]] /\ x # None /\ x \in Conn /\ host[t] \in Hosts
BY DEF TypeOK, Hit

LEMMA LookupHitStep ==
    ASSUME CacheInv, NEW t \in Conn, LookupHit(t)
    PROVE  CacheInv'
<1> USE DEF CacheInv
<1>1. PICK x \in Hit(t) : ctx' = [ctx EXCEPT ![t] = x]
  BY DEF LookupHit
<1>2. x = cache[host[t]] /\ x # None /\ x \in Conn /\ host[t] \in Hosts
  BY HitIsCached
<1>3. TypeOK'
  BY <1>1, <1>2 DEF TypeOK, LookupHit, Goto
<1>4. Pointers'
  <2>1. pc' = [pc EXCEPT ![t] = "use"] /\ pc[t] = "lookup" /\ host' = host /\ cache' = cache
    BY DEF LookupHit, Goto
  <2> QED
    BY <1>1, <1>2, <2>1 DEF TypeOK, Pointers, Holding
<1>5. RefsExact'
  <2>1. \A s \in Conn \ {t} : ctx'[s] = ctx[s]
    BY <1>1 DEF TypeOK
  <2>2. \A y \in Conn : Sessions(y)' = Sessions(y) /\ (Owned(y)' <=> Owned(y))
    BY <2>1, QuietStep DEF LookupHit
  <2> QED
    BY <2>2, RefsKept DEF LookupHit
<1> QED
  BY <1>3, <1>4, <1>5

LEMMA LookupMissStep ==
    ASSUME CacheInv, NEW t \in Conn, LookupMiss(t)
    PROVE  CacheInv'
<1> USE DEF CacheInv
<1>1. TypeOK'
  BY DEF TypeOK, LookupMiss, Goto
<1>2. Pointers'
  BY DEF TypeOK, LookupMiss, Goto, Pointers, Holding
<1>3. RefsExact'
  <2>1. \A y \in Conn : Sessions(y)' = Sessions(y) /\ (Owned(y)' <=> Owned(y))
    BY QuietStep DEF LookupMiss
  <2> QED
    BY <2>1, RefsKept DEF LookupMiss
<1> QED
  BY <1>1, <1>2, <1>3

LEMMA BuildFailStep ==
    ASSUME CacheInv, NEW t \in Conn, BuildFail(t)
    PROVE  CacheInv'
<1> USE DEF CacheInv
<1>1. TypeOK'
  BY DEF TypeOK, BuildFail, Goto
<1>2. Pointers'
  BY DEF TypeOK, BuildFail, Goto, Pointers, Holding
<1>3. RefsExact'
  <2>1. \A y \in Conn : Sessions(y)' = Sessions(y) /\ (Owned(y)' <=> Owned(y))
    BY QuietStep DEF BuildFail
  <2> QED
    BY <2>1, RefsKept DEF BuildFail
<1> QED
  BY <1>1, <1>2, <1>3

\* Building makes t the owner of a context nobody else knows.
LEMMA BuildStep ==
    ASSUME CacheInv, NEW t \in Conn, Build(t)
    PROVE  CacheInv'
<1> USE DEF CacheInv
<1>1. /\ pc[t] = "build" /\ pc' = [pc EXCEPT ![t] = "publish"]
      /\ refs' = [refs EXCEPT ![t] = @ + 1] /\ ctx' = [ctx EXCEPT ![t] = t]
      /\ host' = host /\ cache' = cache
  BY DEF Build, Goto, Ref
<1>2. TypeOK'
  BY <1>1 DEF TypeOK
<1>3. Pointers'
  BY <1>1 DEF TypeOK, Pointers, Holding
<1>4. RefsExact'
  <2> SUFFICES ASSUME NEW x \in Conn
               PROVE refs'[x] = Cardinality(Sessions(x)') + IF Owned(x)' THEN 1 ELSE 0
    BY DEF RefsExact
  <2>1. Sessions(x)' = Sessions(x)
    BY <1>1 DEF TypeOK, Sessions
  <2>2. x # t => (Owned(x)' <=> Owned(x))
    BY <1>1 DEF TypeOK, Owned
  <2>3. Owned(t)' /\ ~Owned(t)
    BY <1>1, ConnAssumption DEF TypeOK, Owned, Pointers
  <2>4. CASE x = t
    BY <1>1, <2>1, <2>3, <2>4, SessionsFinite DEF TypeOK, RefsExact
  <2>5. CASE x # t
    BY <1>1, <2>1, <2>2, <2>5 DEF TypeOK, RefsExact
  <2> QED
    BY <2>4, <2>5
<1> QED
  BY <1>2, <1>3, <1>4

\* The loser gives up the only reference to its own context.
LEMMA PublishLosesStep ==
    ASSUME CacheInv, NEW t \in Conn, PublishLoses(t)
    PROVE  CacheInv'
<1> USE DEF CacheInv
<1>1. PICK x \in Hit(t) : ctx' = [ctx EXCEPT ![t] = x]
  BY DEF PublishLoses
<1>2. x = cache[host[t]] /\ x # None /\ x \in Conn /\ host[t] \in Hosts
  BY HitIsCached
<1>3. /\ pc[t] = "publish" /\ pc' = [pc EXCEPT ![t] = "use"]
      /\ refs' = [refs EXCEPT ![t] = @ - 1]
      /\ host' = host /\ cache' = cache
  BY DEF PublishLoses, Goto, Lose, Unref
<1>4. Owned(t) /\ ~Owned(t)' /\ Sessions(t)' = Sessions(t)
  BY <1>1, <1>3, ConnAssumption DEF TypeOK, Owned, Pointers, Sessions
<1>5. refs[t] \in Nat /\ refs[t] = Cardinality(Sessions(t)) + 1
  BY <1>4 DEF RefsExact, TypeOK
<1>6. TypeOK'
  BY <1>1, <1>2, <1>3, <1>5, SessionsFinite DEF TypeOK
<1>7. Pointers'
  BY <1>1, <1>2, <1>3 DEF TypeOK, Pointers, Holding
<1>8. RefsExact'
  <2> SUFFICES ASSUME NEW y \in Conn
               PROVE refs'[y] = Cardinality(Sessions(y)') + IF Owned(y)' THEN 1 ELSE 0
    BY DEF RefsExact
  <2>1. Sessions(y)' = Sessions(y)
    BY <1>1, <1>3 DEF TypeOK, Sessions
  <2>2. y # t => (Owned(y)' <=> Owned(y))
    BY <1>3 DEF TypeOK, Owned
  <2>3. CASE y = t
    BY <1>3, <1>4, <1>5, <2>3, SessionsFinite DEF TypeOK
  <2>4. CASE y # t
    BY <1>3, <2>1, <2>2, <2>4 DEF TypeOK, RefsExact
  <2> QED
    BY <2>3, <2>4
<1> QED
  BY <1>6, <1>7, <1>8

\* The winner passes its reference on to the cache.
LEMMA PublishWinsStep ==
    ASSUME CacheInv, NEW t \in Conn, PublishWins(t)
    PROVE  CacheInv'
<1> USE DEF CacheInv
<1>1. /\ pc[t] = "publish" /\ pc' = [pc EXCEPT ![t] = "use"]
      /\ cache' = [cache EXCEPT ![host[t]] = t]
      /\ host' = host /\ ctx' = ctx /\ refs' = refs
      /\ host[t] \in Hosts /\ ctx[t] = t
  BY DEF PublishWins, Goto, Pointers, TypeOK
<1>2. cache[host[t]] = None
  BY DEF PublishWins, MayPublish, Hit
<1>3. TypeOK'
  BY <1>1 DEF TypeOK
<1>4. Pointers'
  BY <1>1, <1>2, ConnAssumption DEF TypeOK, Pointers, Holding
<1>5. RefsExact'
  <2> SUFFICES ASSUME NEW x \in Conn
               PROVE Sessions(x)' = Sessions(x) /\ (Owned(x)' <=> Owned(x))
    BY <1>1, RefsKept
  <2>1. Sessions(x)' = Sessions(x)
    BY <1>1 DEF TypeOK, Sessions
  <2>2. CASE x = t
    <3>1. cache'[host[t]] = t
      BY <1>1 DEF TypeOK
    <3> QED
      BY <1>1, <2>1, <2>2, <3>1 DEF Owned
  <2>3. CASE x # t
    <3>1. \A h \in Hosts : (cache'[h] = x) <=> (cache[h] = x)
      BY <1>1, <1>2, <2>3, ConnAssumption DEF TypeOK
    <3>2. (pc'[x] = "publish") <=> (pc[x] = "publish")
      BY <1>1, <2>3 DEF TypeOK
    <3> QED
      BY <2>1, <3>1, <3>2 DEF Owned
  <2> QED
    BY <2>1, <2>2, <2>3
<1> QED
  BY <1>3, <1>4, <1>5

\* SSL_new adds t to the sessions of its context, and one reference.
LEMMA SslNewStep ==
    ASSUME CacheInv, NEW t \in Conn, SslNew(t)
    PROVE  CacheInv'
<1> USE DEF CacheInv
<1>1. /\ pc[t] = "use" /\ pc' = [pc EXCEPT ![t] = "serve"]
      /\ refs' = [refs EXCEPT ![ctx[t]] = @ + 1]
      /\ host' = host /\ ctx' = ctx /\ cache' = cache
  BY DEF SslNew, Goto, Ref
<1>2. ctx[t] \in Conn
  BY <1>1 DEF TypeOK, Pointers, Holding
<1>3. TypeOK'
  BY <1>1, <1>2 DEF TypeOK
<1>4. Pointers'
  BY <1>1 DEF TypeOK, Pointers, Holding
<1>5. RefsExact'
  <2> SUFFICES ASSUME NEW x \in Conn
               PROVE refs'[x] = Cardinality(Sessions(x)') + IF Owned(x)' THEN 1 ELSE 0
    BY DEF RefsExact
  <2>1. Owned(x)' <=> Owned(x)
    BY <1>1 DEF TypeOK, Owned
  <2>2. CASE x = ctx[t]
    <3>1. Sessions(x)' = Sessions(x) \cup {t} /\ t \notin Sessions(x)
      BY <1>1, <2>2 DEF TypeOK, Sessions
    <3>2. Cardinality(Sessions(x)') = Cardinality(Sessions(x)) + 1
      BY <3>1, SessionsFinite, FS_AddElement
    <3> QED
      BY <1>1, <1>2, <2>1, <2>2, <3>2, SessionsFinite DEF TypeOK, RefsExact
  <2>3. CASE x # ctx[t]
    <3>1. Sessions(x)' = Sessions(x)
      BY <1>1, <2>3 DEF TypeOK, Sessions
    <3> QED
      BY <1>1, <2>1, <2>3, <3>1 DEF TypeOK, RefsExact
  <2> QED
    BY <2>2, <2>3
<1> QED
  BY <1>3, <1>4, <1>5

\* ~Context takes t out of the sessions of its context, and one reference.
LEMMA CloseStep ==
    ASSUME CacheInv, NEW t \in Conn, Close(t)
    PROVE  CacheInv'
<1> USE DEF CacheInv
<1>1. /\ pc[t] = "serve" /\ pc' = [pc EXCEPT ![t] = "done"]
      /\ refs' = [refs EXCEPT ![ctx[t]] = @ - 1]
      /\ host' = host /\ ctx' = ctx /\ cache' = cache
  BY DEF Close, Goto, Unref
<1>2. ctx[t] \in Conn /\ t \in Sessions(ctx[t])
  BY <1>1 DEF TypeOK, Pointers, Holding, Sessions
<1>3. /\ Cardinality(Sessions(ctx[t]) \ {t}) = Cardinality(Sessions(ctx[t])) - 1
      /\ Cardinality(Sessions(ctx[t]) \ {t}) \in Nat
  BY <1>2, SessionsFinite, FS_RemoveElement, FS_CardinalityType
<1>4. refs[ctx[t]] - 1 \in Nat
  BY <1>2, <1>3, SessionsFinite DEF TypeOK, RefsExact
<1>5. TypeOK'
  BY <1>1, <1>2, <1>4 DEF TypeOK
<1>6. Pointers'
  BY <1>1 DEF TypeOK, Pointers, Holding
<1>7. RefsExact'
  <2> SUFFICES ASSUME NEW x \in Conn
               PROVE refs'[x] = Cardinality(Sessions(x)') + IF Owned(x)' THEN 1 ELSE 0
    BY DEF RefsExact
  <2>1. Owned(x)' <=> Owned(x)
    BY <1>1 DEF TypeOK, Owned
  <2>2. CASE x = ctx[t]
    <3>1. Sessions(x)' = Sessions(x) \ {t}
      BY <1>1, <2>2 DEF TypeOK, Sessions
    <3> QED
      BY <1>1, <1>2, <1>3, <2>1, <2>2, <3>1, SessionsFinite DEF TypeOK, RefsExact
  <2>3. CASE x # ctx[t]
    <3>1. Sessions(x)' = Sessions(x)
      BY <1>1, <2>3 DEF TypeOK, Sessions
    <3> QED
      BY <1>1, <2>1, <2>3, <3>1 DEF TypeOK, RefsExact
  <2> QED
    BY <2>2, <2>3
<1> QED
  BY <1>5, <1>6, <1>7

LEMMA StutterStep ==
    ASSUME CacheInv, UNCHANGED vars
    PROVE  CacheInv'
BY DEF CacheInv, vars, TypeOK, Pointers, Holding, RefsExact, Sessions, Owned

LEMMA NextStep == CacheInv /\ [Next]_vars => CacheInv'
<1> SUFFICES ASSUME CacheInv, [Next]_vars PROVE CacheInv'
  OBVIOUS
<1>1. CASE \E t \in Conn : Step(t)
  <2>1. PICK t \in Conn : Step(t)
    BY <1>1
  <2> QED
    BY <2>1, LookupHitStep, LookupMissStep, BuildStep, BuildFailStep, PublishLosesStep,
       PublishWinsStep, SslNewStep, CloseStep DEF Step
<1>2. CASE Terminated
  BY <1>2, StutterStep DEF Terminated
<1>3. CASE UNCHANGED vars
  BY <1>3, StutterStep
<1> QED
  BY <1>1, <1>2, <1>3 DEF Next

\* Reference counts are exact and pointers good in every reachable state,
\* whatever the number of racing threads and hosts.
THEOREM CacheInvariant == Spec => []CacheInv
BY InitCacheInv, NextStep, PTL DEF Spec

\* No thread uses a freed context: the cache keeps the one it holds alive.
THEOREM NeverUseAfterFree == Spec => []NoUseAfterFree
<1>1. CacheInv => NoUseAfterFree
  <2> SUFFICES ASSUME CacheInv, NEW t \in Conn, Holding(t)
               PROVE  refs[ctx[t]] > 0
    BY DEF NoUseAfterFree
  <2>1. ctx[t] \in Conn /\ ctx[t] = cache[host[t]] /\ host[t] \in Hosts
    BY DEF CacheInv, TypeOK, Pointers
  <2>2. Owned(ctx[t])
    BY <2>1 DEF Owned
  <2> QED
    BY <2>1, <2>2, SessionsFinite DEF CacheInv, RefsExact
<1> QED
  BY <1>1, CacheInvariant, PTL

\* Racing threads end up with one certificate per host, issued for that host.
THEOREM AlwaysOneLeafPerHost == Spec => []OneLeafPerHost
<1>1. CacheInv => OneLeafPerHost
  BY DEF CacheInv, TypeOK, Pointers, OneLeafPerHost
<1> QED
  BY <1>1, CacheInvariant, PTL

\* A published context is never replaced.
THEOREM CacheIsStable == Spec => PublishedForever
<1>1. CacheInv /\ [Next]_vars =>
        [\A h \in Hosts : cache[h] # None => cache'[h] = cache[h]]_vars
  <2> SUFFICES ASSUME CacheInv, Next, NEW h \in Hosts, cache[h] # None
               PROVE  cache'[h] = cache[h]
    OBVIOUS
  <2>1. CASE \E t \in Conn : PublishWins(t)
    BY <2>1 DEF CacheInv, TypeOK, PublishWins, MayPublish, Hit
  <2>2. CASE cache' = cache
    BY <2>2
  <2> QED
    BY <2>1, <2>2 DEF Next, Step, LookupHit, LookupMiss, Build, BuildFail, PublishLoses,
                      SslNew, Close, Terminated, vars
<1> QED
  BY <1>1, CacheInvariant, PTL DEF Spec, PublishedForever
=============================================================================
