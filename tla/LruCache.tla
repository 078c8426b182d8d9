------------------------------ MODULE LruCache ------------------------------
(***************************************************************************)
(* The least-recently-used cache of context keys (lru_cache.go).  The      *)
(* code keeps a list and a map from values to list elements; the two hold  *)
(* the same values, so a cache is modelled by the list alone, a sequence   *)
(* without repetitions whose first element is the most recently used one.  *)
(***************************************************************************)
EXTENDS Integers, Sequences

\* newLruCache, and what clear() leaves.
EmptyCache == << >>

\* The values the map has a key for.
Cached(cache) == {cache[i] : i \in DOMAIN cache}

\* What add() returns: the value was already there.  A cache of capacity 0
\* stays empty, so it answers FALSE whatever the value.
Seen(cache, value) == value \in Cached(cache)

\* MoveToFront of the element holding value.  (Faulty: it stays where it is.)
LeaveInPlace(cache, value) == cache
MoveToFront(cache, value) ==
  LET i == CHOOSE j \in DOMAIN cache : cache[j] = value
  IN  <<value>> \o SubSeq(cache, 1, i - 1) \o SubSeq(cache, i + 1, Len(cache))

\* The loop that removes the oldest elements until a new one fits.  (Faulty: it
\* stops one too early.)
EvictTooFew(capacity, cache) ==
  IF Len(cache) <= capacity THEN cache ELSE SubSeq(cache, 1, capacity)
Evict(capacity, cache) ==
  IF Len(cache) < capacity THEN cache ELSE SubSeq(cache, 1, capacity - 1)

\* The cache after add(value).
Add(capacity, cache, value) ==
  IF capacity = 0 THEN cache
  ELSE IF Seen(cache, value) THEN MoveToFront(cache, value)
  ELSE <<value>> \o Evict(capacity, cache)

IsCache(capacity, cache, Values) ==
  /\ cache \in Seq(Values)
  /\ Len(cache) <= capacity
  /\ \A i, j \in DOMAIN cache : cache[i] = cache[j] => i = j
=============================================================================
