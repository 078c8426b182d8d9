--------------------------- MODULE LruCacheProofs ---------------------------
(***************************************************************************)
(* The operations of the cache keep it a cache: no more than capacity      *)
(* values, each of them once.                                              *)
(***************************************************************************)
EXTENDS LruCache, SequenceTheorems, TLAPS

\* The elements of the cache after MoveToFront: the value, then the others in
\* their order.
LEMMA MoveToFrontElements ==
  ASSUME NEW Values, NEW cache \in Seq(Values), NEW value \in Cached(cache)
  PROVE  \E i \in DOMAIN cache :
           /\ cache[i] = value
           /\ MoveToFront(cache, value) \in Seq(Values)
           /\ Len(MoveToFront(cache, value)) = Len(cache)
           /\ \A k \in 1 .. Len(cache) :
                MoveToFront(cache, value)[k] =
                  IF k = 1 THEN cache[i] ELSE IF k <= i THEN cache[k - 1] ELSE cache[k]
<1> DEFINE i == CHOOSE j \in DOMAIN cache : cache[j] = value
           front == SubSeq(cache, 1, i - 1)
           rest == SubSeq(cache, i + 1, Len(cache))
<1>1. i \in 1 .. Len(cache) /\ cache[i] = value
  BY DEF Cached
<1> HIDE DEF i
<1>2. /\ front \in Seq(Values) /\ Len(front) = i - 1
      /\ \A k \in 1 .. (i - 1) : front[k] = cache[k]
  BY <1>1
<1>3. /\ rest \in Seq(Values) /\ Len(rest) = Len(cache) - i
      /\ \A k \in 1 .. (Len(cache) - i) : rest[k] = cache[i + k]
  BY <1>1
<1> HIDE DEF front, rest
<1>4. value \in Values
  BY <1>1
<1> DEFINE start == <<value>> \o front
<1>5. MoveToFront(cache, value) = start \o rest
  BY DEF MoveToFront, front, rest, i
<1>6. /\ start \in Seq(Values) /\ Len(start) = i /\ start[1] = value
      /\ \A k \in 2 .. i : start[k] = cache[k - 1]
  BY <1>1, <1>2, <1>4
<1> HIDE DEF start
<1> DEFINE moved == start \o rest
<1>7. /\ moved \in Seq(Values) /\ Len(moved) = Len(cache)
      /\ \A k \in 1 .. i : moved[k] = start[k]
  <2>1. moved \in Seq(Values) /\ Len(moved) = Len(start) + Len(rest)
    BY <1>3, <1>6, ConcatProperties
  <2>2. \A k \in 1 .. i : moved[k] = start[k]
    BY <1>1, <1>3, <1>6
  <2> HIDE DEF moved
  <2> QED
    BY <1>1, <1>3, <1>6, <2>1, <2>2
<1>8. \A k \in (i + 1) .. Len(cache) : moved[k] = cache[k]
  <2> SUFFICES ASSUME NEW k \in (i + 1) .. Len(cache) PROVE moved[k] = cache[k]
    OBVIOUS
  <2>1. k - i \in 1 .. Len(rest) /\ moved[k] = rest[k - i]
    BY <1>1, <1>3, <1>6
  <2> QED
    BY <1>1, <1>3, <2>1
<1>9. MoveToFront(cache, value) = moved
  BY <1>5
<1> HIDE DEF moved
<1>10. \A k \in 1 .. Len(cache) :
        moved[k] = IF k = 1 THEN cache[i] ELSE IF k <= i THEN cache[k - 1] ELSE cache[k]
  BY <1>1, <1>6, <1>7, <1>8
<1> QED
  BY <1>1, <1>7, <1>9, <1>10

\* A hit leaves the cache a cache with the same values.
LEMMA MoveToFrontIsCache ==
  ASSUME NEW Values, NEW capacity \in Nat, NEW cache, IsCache(capacity, cache, Values),
         NEW value \in Cached(cache)
  PROVE  /\ IsCache(capacity, MoveToFront(cache, value), Values)
         /\ Cached(MoveToFront(cache, value)) = Cached(cache)
<1> DEFINE moved == MoveToFront(cache, value)
<1>1. cache \in Seq(Values) /\ Len(cache) <= capacity
  BY DEF IsCache
<1>2. PICK i \in DOMAIN cache :
        /\ moved \in Seq(Values) /\ Len(moved) = Len(cache)
        /\ \A k \in 1 .. Len(cache) :
             moved[k] = IF k = 1 THEN cache[i] ELSE IF k <= i THEN cache[k - 1] ELSE cache[k]
  BY <1>1, MoveToFrontElements
<1> HIDE DEF moved
<1>3. \A j, k \in DOMAIN cache : cache[j] = cache[k] => j = k
  BY DEF IsCache
<1>4. \A j, k \in DOMAIN moved : moved[j] = moved[k] => j = k
  <2> SUFFICES ASSUME NEW j \in DOMAIN moved, NEW k \in DOMAIN moved, moved[j] = moved[k]
               PROVE  j = k
    OBVIOUS
  <2> DEFINE from(m) == IF m = 1 THEN i ELSE IF m <= i THEN m - 1 ELSE m
  <2>1. \A m \in DOMAIN moved : from(m) \in DOMAIN cache /\ moved[m] = cache[from(m)]
    BY <1>1, <1>2
  <2>2. from(j) = from(k)
    BY <1>3, <2>1
  <2> QED
    BY <1>1, <1>2, <2>2
<1>5. Cached(moved) \subseteq Cached(cache)
  BY <1>1, <1>2 DEF Cached
<1>6. Cached(cache) \subseteq Cached(moved)
  <2> SUFFICES ASSUME NEW x \in Cached(cache) PROVE x \in Cached(moved)
    OBVIOUS
  <2>1. PICK k \in 1 .. Len(cache) : cache[k] = x
    BY <1>1 DEF Cached
  <2> DEFINE to == IF k = i THEN 1 ELSE IF k < i THEN k + 1 ELSE k
  <2>2. to \in DOMAIN moved /\ moved[to] = x
    BY <1>1, <1>2, <2>1
  <2> QED
    BY <2>2 DEF Cached
<1> QED
  BY <1>1, <1>2, <1>4, <1>5, <1>6 DEF IsCache, moved

\* The elements of the cache after a value it did not hold is added.
LEMMA AddNewElements ==
  ASSUME NEW Values, NEW capacity \in Nat, NEW cache \in Seq(Values),
         capacity > 0, Len(cache) <= capacity, NEW value \in Values, ~Seen(cache, value),
         NEW added, added = Add(capacity, cache, value)
  PROVE  /\ added \in Seq(Values)
         /\ Len(added) = IF Len(cache) < capacity THEN Len(cache) + 1 ELSE capacity
         /\ added[1] = value
         /\ \A k \in 2 .. Len(added) : k - 1 \in DOMAIN cache /\ added[k] = cache[k - 1]
<1> DEFINE kept == Evict(capacity, cache)
<1>1. /\ kept \in Seq(Values)
      /\ Len(kept) = IF Len(cache) < capacity THEN Len(cache) ELSE capacity - 1
      /\ \A k \in 1 .. Len(kept) : kept[k] = cache[k]
  BY DEF Evict
<1>2. added = <<value>> \o kept
  BY DEF Add
<1> HIDE DEF kept
<1>3. /\ added \in Seq(Values) /\ Len(added) = Len(kept) + 1
      /\ added[1] = value /\ \A k \in 2 .. Len(added) : added[k] = kept[k - 1]
  BY <1>1, <1>2
<1>4. \A k \in 2 .. Len(added) : k - 1 \in DOMAIN cache /\ added[k] = cache[k - 1]
  <2> SUFFICES ASSUME NEW k \in 2 .. Len(added)
               PROVE  k - 1 \in DOMAIN cache /\ added[k] = cache[k - 1]
    OBVIOUS
  <2>1. k - 1 \in 1 .. Len(kept) /\ k - 1 \in 1 .. Len(cache)
    BY <1>1, <1>3
  <2>2. kept[k - 1] = cache[k - 1]
    BY <1>1, <2>1
  <2> QED
    BY <1>3, <2>1, <2>2
<1> QED
  BY <1>1, <1>3, <1>4

\* add() keeps the cache a cache, and the value it was called with is in it.
THEOREM AddIsCache ==
  ASSUME NEW Values, NEW capacity \in Nat, NEW cache, IsCache(capacity, cache, Values),
         NEW value \in Values
  PROVE  /\ IsCache(capacity, Add(capacity, cache, value), Values)
         /\ Cached(Add(capacity, cache, value)) \subseteq Cached(cache) \cup {value}
         /\ capacity > 0 => Seen(Add(capacity, cache, value), value)
<1>1. CASE capacity = 0
  BY <1>1 DEF Add
<1>2. CASE capacity > 0 /\ Seen(cache, value)
  BY <1>2, MoveToFrontIsCache DEF Add, Seen
<1>3. CASE capacity > 0 /\ ~Seen(cache, value)
  <2> DEFINE added == Add(capacity, cache, value)
  <2>1. cache \in Seq(Values) /\ Len(cache) <= capacity
    BY DEF IsCache
  <2>2. /\ added \in Seq(Values) /\ Len(added) <= capacity /\ Len(added) >= 1
        /\ added[1] = value
        /\ \A k \in 2 .. Len(added) : k - 1 \in DOMAIN cache /\ added[k] = cache[k - 1]
    BY <1>3, <2>1, AddNewElements
  <2> HIDE DEF added
  <2>3. \A k \in 2 .. Len(added) : added[k] # value
    BY <1>3, <2>2 DEF Seen, Cached
  <2>4. \A j, k \in DOMAIN added : added[j] = added[k] => j = k
    <3> SUFFICES ASSUME NEW j \in DOMAIN added, NEW k \in DOMAIN added, added[j] = added[k]
                 PROVE  j = k
      OBVIOUS
    <3>1. CASE j = 1 \/ k = 1
      BY <2>2, <2>3, <3>1
    <3>2. CASE j # 1 /\ k # 1
      <4>1. cache[j - 1] = cache[k - 1] /\ j - 1 \in DOMAIN cache /\ k - 1 \in DOMAIN cache
        BY <2>2, <3>2
      <4> QED
        BY <2>2, <4>1 DEF IsCache
    <3> QED
      BY <3>1, <3>2
  <2>5. Cached(added) \subseteq Cached(cache) \cup {value}
    BY <2>2 DEF Cached
  <2>6. Seen(added, value)
    BY <2>2 DEF Seen, Cached
  <2> QED
    BY <2>2, <2>4, <2>5, <2>6 DEF IsCache, added
<1> QED
  BY <1>1, <1>2, <1>3
=============================================================================
