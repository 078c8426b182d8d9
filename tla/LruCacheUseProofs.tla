-------------------------- MODULE LruCacheUseProofs -------------------------
(***************************************************************************)
(* The cache is a least-recently-used cache, for every set of values,      *)
(* every capacity and every number of calls.                               *)
(***************************************************************************)
EXTENDS LruCacheUse, LruCacheProofs

\* A new cache is empty, and so is the history of its calls.
LEMMA InitEstablishes == Init => TypeOK /\ MostRecentFirst
<1> SUFFICES ASSUME Init PROVE TypeOK /\ MostRecentFirst
  OBVIOUS
<1> USE LruCacheUseAssumption
<1>1. cache \in Seq(Values) /\ Len(cache) = 0 /\ DOMAIN cache = {} /\ Cached(cache) = {}
  BY DEF Init, EmptyCache, Cached
<1> QED
  BY <1>1 DEF Init, TypeOK, IsCache, MostRecentFirst

\* A value that the cache holds moves to its front; all others keep their order.
LEMMA HitKeepsOrder ==
  ASSUME TypeOK, MostRecentFirst, NEW v \in Values, AddValue(v), Seen(cache, v), CacheSize > 0
  PROVE  MostRecentFirst'
<1> USE LruCacheUseAssumption
<1>1. /\ cache \in Seq(Values) /\ adds \in Nat /\ lastAdded \in [Values -> 0 .. adds]
      /\ \A j, k \in DOMAIN cache : cache[j] = cache[k] => j = k
  BY DEF TypeOK, IsCache
<1>2. cache' = MoveToFront(cache, v) /\ lastAdded' = [lastAdded EXCEPT ![v] = adds + 1]
  BY DEF AddValue, Add
<1>3. PICK i \in DOMAIN cache :
        /\ cache[i] = v /\ cache' \in Seq(Values) /\ Len(cache') = Len(cache)
        /\ \A k \in 1 .. Len(cache) :
             cache'[k] = IF k = 1 THEN cache[i] ELSE IF k <= i THEN cache[k - 1] ELSE cache[k]
  BY <1>1, <1>2, MoveToFrontElements DEF Seen
<1>4. DOMAIN cache = 1 .. Len(cache) /\ DOMAIN cache' = 1 .. Len(cache) /\ Len(cache) \in Nat
  BY <1>1, <1>3
<1>5. Cached(cache') = Cached(cache)
  BY <1>2, MoveToFrontIsCache DEF TypeOK, Seen
<1>6. \A u \in Values \ {v} : lastAdded'[u] = lastAdded[u]
  BY <1>1, <1>2
<1>7. \A n \in DOMAIN cache : n # i => cache[n] \in Values \ {v}
  BY <1>1, <1>3
<1>8. \A j, k \in DOMAIN cache' : j < k => lastAdded'[cache'[j]] > lastAdded'[cache'[k]]
  <2> SUFFICES ASSUME NEW j \in DOMAIN cache', NEW k \in DOMAIN cache', j < k
               PROVE  lastAdded'[cache'[j]] > lastAdded'[cache'[k]]
    OBVIOUS
  <2> DEFINE from(m) == IF m <= i THEN m - 1 ELSE m
  <2>1. k > 1 /\ from(k) \in DOMAIN cache /\ from(k) # i /\ cache'[k] = cache[from(k)]
    BY <1>3, <1>4
  <2> HIDE DEF from
  <2>2. cache'[k] # v /\ cache'[k] \in Values /\ lastAdded'[cache'[k]] = lastAdded[cache'[k]]
    BY <1>6, <1>7, <2>1
  <2>3. CASE j = 1
    <3>1. cache'[j] = v
      BY <1>3, <1>4, <2>3
    <3>2. lastAdded'[v] = adds + 1
      BY <1>1, <1>2
    <3>3. lastAdded[cache'[k]] \in 0 .. adds
      BY <1>1, <2>2
    <3> QED
      BY <1>1, <2>2, <3>1, <3>2, <3>3
  <2>4. CASE j > 1
    <3>1. /\ from(j) \in DOMAIN cache /\ from(j) # i /\ cache'[j] = cache[from(j)]
          /\ from(j) < from(k)
      BY <1>3, <1>4, <2>4 DEF from
    <3>2. lastAdded'[cache'[j]] = lastAdded[cache[from(j)]]
      BY <1>6, <1>7, <3>1
    <3> QED
      BY <2>1, <2>2, <3>1, <3>2 DEF MostRecentFirst
  <2> QED
    BY <1>3, <2>3, <2>4
<1>9. \A u \in Cached(cache) : u \in Values /\ lastAdded'[u] >= lastAdded[u]
  BY <1>1, <1>2 DEF Cached
<1>10. \A u \in Cached(cache') : lastAdded'[u] > 0
  BY <1>1, <1>2, <1>5, <1>9 DEF MostRecentFirst
<1>11. ASSUME NEW u \in Values \ Cached(cache'), lastAdded'[u] > 0
      PROVE  Len(cache') = CacheSize /\ \A x \in Cached(cache') : lastAdded'[x] > lastAdded'[u]
  <2>1. u # v /\ lastAdded'[u] = lastAdded[u]
    BY <1>1, <1>2, <1>5, <1>11 DEF Seen
  <2> QED
    BY <1>1, <1>2, <1>3, <1>5, <1>9, <1>11, <2>1 DEF MostRecentFirst
<1> QED
  BY <1>8, <1>10, <1>11 DEF MostRecentFirst

\* A value that the cache does not hold comes first, and only the oldest is lost.
LEMMA MissKeepsOrder ==
  ASSUME TypeOK, MostRecentFirst, NEW v \in Values, AddValue(v), ~Seen(cache, v), CacheSize > 0
  PROVE  MostRecentFirst'
<1> USE LruCacheUseAssumption
<1>1. /\ cache \in Seq(Values) /\ Len(cache) <= CacheSize
      /\ adds \in Nat /\ lastAdded \in [Values -> 0 .. adds]
  BY DEF TypeOK, IsCache
<1>2. lastAdded' = [lastAdded EXCEPT ![v] = adds + 1]
  BY DEF AddValue
<1>3. /\ cache' \in Seq(Values)
      /\ Len(cache') = IF Len(cache) < CacheSize THEN Len(cache) + 1 ELSE CacheSize
      /\ cache'[1] = v
      /\ \A k \in 2 .. Len(cache') : k - 1 \in DOMAIN cache /\ cache'[k] = cache[k - 1]
  <2>1. cache' = Add(CacheSize, cache, v)
    BY DEF AddValue
  <2>2. CacheSize \in Nat /\ CacheSize > 0
    OBVIOUS
  <2>3. cache \in Seq(Values) /\ Len(cache) <= CacheSize /\ ~Seen(cache, v)
    BY <1>1
  <2> HIDE LruCacheUseAssumption
  <2> QED
    BY ONLY <2>1, <2>2, <2>3, v \in Values, AddNewElements
<1>4. ASSUME NEW k \in 2 .. Len(cache')
      PROVE  /\ k - 1 \in DOMAIN cache /\ cache'[k] = cache[k - 1] /\ cache[k - 1] \in Values
             /\ lastAdded'[cache'[k]] = lastAdded[cache[k - 1]]
  <2>1. k - 1 \in DOMAIN cache /\ cache'[k] = cache[k - 1] /\ cache[k - 1] \in Values
    BY <1>1, <1>3
  <2>2. cache[k - 1] # v
    BY <2>1 DEF Seen, Cached
  <2> QED
    BY <1>1, <1>2, <2>1, <2>2
<1>5. DOMAIN cache' = 1 .. Len(cache') /\ Len(cache') \in Nat /\ Len(cache) \in Nat
  BY <1>1, <1>3
<1>6. lastAdded'[v] = adds + 1
  BY <1>1, <1>2
<1>7. ASSUME NEW j \in DOMAIN cache', NEW k \in DOMAIN cache', j < k
      PROVE  lastAdded'[cache'[j]] > lastAdded'[cache'[k]]
  <2>1. CASE j = 1
    <3>1. k \in 2 .. Len(cache')
      BY <1>5, <1>7, <2>1
    <3>2. lastAdded'[cache'[k]] \in 0 .. adds
      BY <1>1, <1>4, <3>1
    <3>3. cache'[j] = v
      BY <1>3, <2>1
    <3> QED
      BY <1>1, <1>6, <3>2, <3>3
  <2>2. CASE j > 1
    <3>1. j \in 2 .. Len(cache') /\ k \in 2 .. Len(cache')
      BY <1>7, <1>5, <2>2
    <3>2. j - 1 < k - 1
      BY <1>7, <1>5
    <3> QED
      BY <1>4, <3>1, <3>2 DEF MostRecentFirst
  <2> QED
    BY <1>3, <2>1, <2>2
<1>8. ASSUME NEW u \in Cached(cache') PROVE lastAdded'[u] > 0
  <2>1. PICK k \in 1 .. Len(cache') : u = cache'[k]
    BY <1>3, <1>8 DEF Cached
  <2>2. k \in 2 .. Len(cache') => cache[k - 1] \in Cached(cache)
    BY <1>4 DEF Cached
  <2> QED
    <3>1. CASE k = 1
      BY <1>1, <1>3, <1>6, <2>1, <3>1
    <3>2. CASE k \in 2 .. Len(cache')
      BY <1>4, <2>1, <2>2, <3>2 DEF MostRecentFirst
    <3> QED
      BY <1>5, <3>1, <3>2
<1>9. ASSUME NEW u \in Values \ Cached(cache'), lastAdded'[u] > 0
      PROVE  Len(cache') = CacheSize /\ \A x \in Cached(cache') : lastAdded'[x] > lastAdded'[u]
  <2>1. u # v /\ lastAdded'[u] = lastAdded[u]
    BY <1>1, <1>2, <1>3, <1>9 DEF Cached
  <2>2. CASE u \in Cached(cache)
    <3>1. PICK m \in 1 .. Len(cache) : u = cache[m]
      BY <1>1, <2>2 DEF Cached
    <3>2. m + 1 \notin 2 .. Len(cache')
      BY <1>1, <1>4, <1>9, <3>1 DEF Cached
    <3>3. m = Len(cache) /\ Len(cache) = CacheSize
      BY <1>1, <1>3, <3>2
    <3>4. \A k \in 2 .. Len(cache') : lastAdded'[cache'[k]] > lastAdded[u]
      <4> SUFFICES ASSUME NEW k \in 2 .. Len(cache') PROVE lastAdded'[cache'[k]] > lastAdded[u]
        OBVIOUS
      <4>1. k - 1 < m
        BY <1>3, <1>5, <3>3
      <4>2. lastAdded[cache[k - 1]] > lastAdded[cache[m]]
        <5>1. k - 1 \in DOMAIN cache /\ m \in DOMAIN cache
          BY <1>1, <1>4, <3>1
        <5> QED
          BY <4>1, <5>1 DEF MostRecentFirst
      <4> QED
        BY <1>4, <3>1, <4>2
    <3>5. lastAdded'[cache'[1]] > lastAdded[u]
      BY <1>1, <1>3, <1>6
    <3>6. \A x \in Cached(cache') : lastAdded'[x] > lastAdded[u]
      BY <1>3, <3>4, <3>5 DEF Cached
    <3> QED
      BY <1>3, <2>1, <3>3, <3>6
  <2>3. CASE u \notin Cached(cache)
    <3>1. Len(cache) = CacheSize /\ \A x \in Cached(cache) : lastAdded[x] > lastAdded[u]
      BY <1>9, <2>1, <2>3 DEF MostRecentFirst
    <3>2. \A k \in 2 .. Len(cache') : lastAdded'[cache'[k]] > lastAdded[u]
      BY <1>1, <1>4, <3>1 DEF Cached
    <3>3. lastAdded'[cache'[1]] > lastAdded[u]
      BY <1>1, <1>3, <1>6
    <3>4. \A x \in Cached(cache') : lastAdded'[x] > lastAdded[u]
      BY <1>3, <3>2, <3>3 DEF Cached
    <3> QED
      BY <1>3, <2>1, <3>1, <3>4
  <2> QED
    BY <2>2, <2>3
<1> QED
  BY <1>7, <1>8, <1>9 DEF MostRecentFirst

\* Every call of add() or clear() preserves the order of the cache.
LEMMA NextPreserves == TypeOK /\ MostRecentFirst /\ [Next]_vars => (TypeOK /\ MostRecentFirst)'
<1> SUFFICES ASSUME TypeOK, MostRecentFirst, [Next]_vars PROVE (TypeOK /\ MostRecentFirst)'
  OBVIOUS
<1> USE LruCacheUseAssumption
<1>1. CASE Clear
  <2>1. /\ cache' \in Seq(Values) /\ Len(cache') = 0 /\ DOMAIN cache' = {}
        /\ Cached(cache') = {}
    BY <1>1 DEF Clear, EmptyCache, Cached
  <2> QED
    BY <1>1, <2>1 DEF Clear, TypeOK, IsCache, MostRecentFirst
<1>2. ASSUME NEW v \in Values, AddValue(v) PROVE (TypeOK /\ MostRecentFirst)'
  <2>1. TypeOK'
    <3>1. IsCache(CacheSize, cache', Values)
      BY <1>2, AddIsCache DEF AddValue, TypeOK
    <3> QED
      BY <1>2, <3>1 DEF AddValue, TypeOK
  <2>2. CASE CacheSize = 0
    <3>1. cache \in Seq(Values) /\ Len(cache) = 0 /\ cache' = cache
      BY <1>2, <2>2 DEF AddValue, Add, TypeOK, IsCache
    <3>2. DOMAIN cache' = {} /\ Cached(cache') = {}
      BY <3>1 DEF Cached
    <3>3. MostRecentFirst'
      BY <2>2, <3>1, <3>2 DEF MostRecentFirst
    <3> QED
      BY <2>1, <3>3
  <2> QED
    BY <1>2, <2>1, <2>2, HitKeepsOrder, MissKeepsOrder
<1>3. CASE UNCHANGED vars
  BY <1>3 DEF vars, TypeOK, IsCache, MostRecentFirst, Cached
<1> QED
  BY <1>1, <1>2, <1>3 DEF Next

\* At any moment the cache holds exactly the values most recently added since it
\* was last cleared, as many as fit, in the order of their last use.
THEOREM CacheIsLRU == Spec => []MostRecentFirst
  BY InitEstablishes, NextPreserves, PTL DEF Spec

\* The cache never exceeds its capacity and has no value twice.
THEOREM CacheTypeCorrect == Spec => []TypeOK
  BY InitEstablishes, NextPreserves, PTL DEF Spec
=============================================================================
