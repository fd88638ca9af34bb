------------------------------ MODULE LRUCache ------------------------------
(***************************************************************************)
(* LRUCacheSegment (src/Assignment3/parta/src/lru_cache.cpp) as operators  *)
(* on its state.  The code keeps a std::list of shared entries, most       *)
(* recently used first, and an unordered_map from key to the same entry.   *)
(* Both are one value here: a sequence c of records [key, val], head       *)
(* first; the map is the set of keys of c (an invariant of the shard says  *)
(* the keys are distinct, which is what lets the map point at one entry).  *)
(* Every operation runs inside the segment's SpinLock, so each operator is *)
(* one atomic step of whichever shard handler calls it.                    *)
(***************************************************************************)
EXTENDS Naturals, Sequences, SequencesExt

\* The keys of lruMap: the keys of the entries of lruList.
CachedKeys(c) == {c[i].key : i \in DOMAIN c}

\* The position in lruList of the entry lruMap.find(k) points at.
Slot(c, k) == CHOOSE i \in DOMAIN c : c[i].key = k

\* element->value of the entry of k.
CacheVal(c, k) == c[Slot(c, k)].val

\* lruList.remove(element); lruList.push_front(element).
Promote(c, k) == Cons(c[Slot(c, k)], RemoveAt(c, Slot(c, k)))

\* Mutant: put that never evicts (the size check dropped).
CachePutNoEvict(c, k, v, cap) ==
    IF k \in CachedKeys(c)
    THEN Cons([key |-> k, val |-> v], RemoveAt(c, Slot(c, k)))
    ELSE Cons([key |-> k, val |-> v], c)

\* Mutant: put of a present key pushes a second entry instead of moving it.
CachePutDup(c, k, v, cap) ==
    LET c1 == Cons([key |-> k, val |-> v], c)
    IN  IF Len(c1) > cap THEN Front(c1) ELSE c1

\* LRUCacheSegment::put: overwrite and move to the front when present,
\* otherwise push a new entry to the front and, when the list now holds
\* more than cap entries, pop the back entry and erase it from the map.
CachePut(c, k, v, cap) ==
    IF k \in CachedKeys(c)
    THEN Cons([key |-> k, val |-> v], RemoveAt(c, Slot(c, k)))
    ELSE LET c1 == Cons([key |-> k, val |-> v], c)
         IN  IF Len(c1) > cap THEN Front(c1) ELSE c1

\* LRUCacheSegment::remove: unlink the entry of k when there is one.
CacheRemove(c, k) ==
    IF k \in CachedKeys(c) THEN RemoveAt(c, Slot(c, k)) ELSE c
=============================================================================
