----------------------------- MODULE LruCacheUse ----------------------------
(***************************************************************************)
(* The cache in use: values are added one after another, as processEvent   *)
(* does with context keys, and from time to time everything is forgotten,  *)
(* as the dispatcher does when usersResetTicker fires.                     *)
(***************************************************************************)
EXTENDS LruCache

CONSTANTS Values,    \* what may be added
          CacheSize, \* the capacity given to newLruCache
          MaxAdds    \* bound on the calls of add() between two calls of clear()

ASSUME LruCacheUseAssumption == CacheSize \in Nat /\ MaxAdds \in Nat

VARIABLES cache,
          adds,      \* history: how many values were added since the last clear()
          lastAdded  \* history: at which of those calls each value was last added, or 0

vars == <<cache, adds, lastAdded>>

TypeOK ==
  /\ IsCache(CacheSize, cache, Values)
  /\ adds \in Nat
  /\ lastAdded \in [Values -> 0 .. adds]

Init ==
  /\ cache = EmptyCache
  /\ adds = 0
  /\ lastAdded = [v \in Values |-> 0]

AddValue(v) ==
  /\ adds < MaxAdds
  /\ cache' = Add(CacheSize, cache, v)
  /\ adds' = adds + 1
  /\ lastAdded' = [lastAdded EXCEPT ![v] = adds + 1]

Clear ==
  /\ cache' = EmptyCache
  /\ adds' = 0
  /\ lastAdded' = [v \in Values |-> 0]

Next == Clear \/ \E v \in Values : AddValue(v)

Spec == Init /\ [][Next]_vars
-----------------------------------------------------------------------------
\* The cache holds its values in the order of their last use, the most recent
\* first, and a value has been forgotten only to make room for later ones: the
\* answer of add() is what a list of all past calls would give.
MostRecentFirst ==
  /\ \A i, j \in DOMAIN cache : i < j => lastAdded[cache[i]] > lastAdded[cache[j]]
  /\ \A v \in Cached(cache) : lastAdded[v] > 0
  /\ \A v \in Values \ Cached(cache) :
       lastAdded[v] > 0 => /\ Len(cache) = CacheSize
                           /\ \A u \in Cached(cache) : lastAdded[u] > lastAdded[v]
=============================================================================
