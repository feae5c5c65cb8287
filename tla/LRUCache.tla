------------------------------ MODULE LRUCache ------------------------------
(***************************************************************************)
(* cache/lrucache.cc: a least recently used cache as a value, and what its *)
(* operations make of it.                                                  *)
(*                                                                         *)
(* lruList is _lruList, most recent first.  hashMap is the set of keys of  *)
(* _hashMap; the iterator stored under a key stands on the list's node of  *)
(* that key, which splice moves without invalidating it.                   *)
(***************************************************************************)
EXTENDS Naturals, SequencesExt

CONSTANTS
    Keys,         \* queries
    Data,         \* answers
    Capacity      \* _capacity, 65536 unless given

\* With capacity 0 setLRUCache would take the back of an empty list.
ASSUME CacheAssumption == Capacity \in Nat \ {0}

Entries == [key : Keys, data : Data]

Entry(k, d) == [key |-> k, data |-> d]

Caches == [hashMap : SUBSET Keys, lruList : Seq(Entries)]

EmptyCache == [hashMap |-> {}, lruList |-> <<>>]

KeysOf(list) == {list[i].key : i \in DOMAIN list}

\* _hashMap[key]: the node of the key.
Node(cache, k) == CHOOSE i \in DOMAIN cache.lruList : cache.lruList[i].key = k

\* Faulty variant: the entry stays where it is.
updateLRUNot(cache, k) == cache

\* The node of the key moves to the front.
updateLRU(cache, k) ==
    LET i == Node(cache, k) IN
    [cache EXCEPT !.lruList = <<@[i]>> \o RemoveAt(@, i)]

\* Faulty variant: the evicted key stays in _hashMap.
setForgetsKey(cache, k, d) ==
    IF k \in cache.hashMap
    THEN updateLRU([cache EXCEPT !.lruList[Node(cache, k)].data = d], k)
    ELSE LET full == Len(cache.lruList) = Capacity
             kept == IF full THEN Front(cache.lruList) ELSE cache.lruList IN
         [hashMap |-> cache.hashMap \cup {k}, lruList |-> <<Entry(k, d)>> \o kept]

\* A known key gets the data and moves to the front; a new one pushes the last
\* entry out of a full list.
setLRUCache(cache, k, d) ==
    IF k \in cache.hashMap
    THEN updateLRU([cache EXCEPT !.lruList[Node(cache, k)].data = d], k)
    ELSE LET full == Len(cache.lruList) = Capacity
             kept == IF full THEN Front(cache.lruList) ELSE cache.lruList
             map  == IF full THEN cache.hashMap \ {Last(cache.lruList).key} ELSE cache.hashMap IN
         [hashMap |-> map \cup {k}, lruList |-> <<Entry(k, d)>> \o kept]

\* What a look-up leaves behind: a key that is found moves to the front.
getLRUCache(cache, k) == IF k \in cache.hashMap THEN updateLRU(cache, k) ELSE cache

\* setLRUCache for each entry of a list, front to back.
SetAll(cache, list) ==
    LET filled[k \in 0 .. Len(list)] ==
            IF k = 0 THEN cache ELSE setLRUCache(filled[k - 1], list[k].key, list[k].data)
    IN  filled[Len(list)]

update(cache, rhs) == SetAll(cache, rhs.lruList)

\* The copy constructor.
Duplicate(rhs) == update(EmptyCache, rhs)
-----------------------------------------------------------------------------
(* What a least recently used cache is: of all the keys ever set, in the   *)
(* order of their last use, it holds the first Capacity.                   *)

Used(recent, e) == <<e>> \o RemoveFirstMatch(recent, LAMBDA f : f.key = e.key)

UsedAll(recent, list) ==
    LET used[k \in 0 .. Len(list)] == IF k = 0 THEN recent ELSE Used(used[k - 1], list[k])
    IN  used[Len(list)]

FirstOf(recent) == SubSeq(recent, 1, IF Len(recent) < Capacity THEN Len(recent) ELSE Capacity)
=============================================================================
