---------------------------- MODULE CacheManager ----------------------------
(***************************************************************************)
(* cache/cachemanager.cc: one LRUCache for each computing thread, filled   *)
(* from a file at the start; periodicUpdateCaches, which the timer's       *)
(* thread runs, merges them into the first, copies that back into the      *)
(* others and writes it to the file.  The process may be killed at any     *)
(* time; the file is written entry by entry.                               *)
(*                                                                         *)
(* The calls by which a computing thread would use its cache (getCache,    *)
(* then getLRUCache or setLRUCache) are commented out in rsssearch.cc and  *)
(* rsssearchserver.cc.  They are here the operations of the class that     *)
(* they are, between two rounds: there is no lock that would let them run  *)
(* during one.                                                             *)
(***************************************************************************)
EXTENDS LRUCache, FiniteSets

CONSTANTS
    CacheNum,     \* caches, one for each computing thread
    Lines,        \* the entries initFromFile reads where dumpToFile wrote one
    MaxUses       \* bound: uses of the caches between two starts

Threads == 1 .. CacheNum

\* periodicUpdateCaches dereferences begin() of the vector.  An entry whose data
\* has several lines, as the JSON of an answer has, is read back as several
\* entries, each with the first word of its line for a key and three more for
\* its data; an entry that was read once is read again as it is.
ASSUME ManagerAssumption ==
    /\ CacheNum \in Nat \ {0} /\ MaxUses \in Nat
    /\ Lines \in [Entries -> Seq(Entries)]
    /\ \A e \in Entries : \A i \in DOMAIN Lines[e] : Lines[Lines[e][i]] = <<Lines[e][i]>>

VARIABLES
    caches,       \* _cacheMap
    file,         \* the entries written to the cache file
    pc,           \* "off", "idle", "merge", "spread", "write"
    at,           \* the iterator it, or the entries written
    uses,         \* uses so far
    recent,       \* history: for each cache, the keys by last use
    held          \* history: the keys in any cache when the round began

vars == <<caches, file, pc, at, uses, recent, held>>

AllKeys == UNION {caches[i].hashMap : i \in Threads}
-----------------------------------------------------------------------------
Init ==
    /\ caches = [i \in Threads |-> EmptyCache]
    /\ file = <<>>
    /\ pc = "off"
    /\ at = 1
    /\ uses = 0
    /\ recent = [i \in Threads |-> <<>>]
    /\ held = {}

ReadBack(dumped) == FlattenSeq([i \in DOMAIN dumped |-> Lines[dumped[i]]])

initFromFile(cache, dumped) == SetAll(cache, ReadBack(dumped))

\* Faulty variant: the threads share the order in which the file was read.
StartUncopied ==
    /\ pc = "off"
    /\ LET lruCache == initFromFile(EmptyCache, file) IN
       /\ caches' = [i \in Threads |-> lruCache]
       /\ recent' = [i \in Threads |-> lruCache.lruList]
    /\ pc' = "idle"
    /\ uses' = 0
    /\ UNCHANGED <<file, at, held>>

\* initCache: one cache is read from the file, and copied for each thread.  A
\* file that cannot be opened counts as an empty one.
Start ==
    /\ pc = "off"
    /\ LET lruCache == initFromFile(EmptyCache, file) IN
       /\ caches' = [i \in Threads |-> Duplicate(lruCache)]
       /\ recent' = [i \in Threads |-> UsedAll(<<>>, lruCache.lruList)]
    /\ pc' = "idle"
    /\ uses' = 0
    /\ UNCHANGED <<file, at, held>>

Set(i, k, d) ==
    /\ pc = "idle" /\ uses < MaxUses
    /\ caches' = [caches EXCEPT ![i] = setLRUCache(@, k, d)]
    /\ recent' = [recent EXCEPT ![i] = Used(@, Entry(k, d))]
    /\ uses' = uses + 1
    /\ UNCHANGED <<file, pc, at, held>>

Get(i, k) ==
    /\ pc = "idle" /\ uses < MaxUses
    /\ k \in caches[i].hashMap
    /\ caches' = [caches EXCEPT ![i] = getLRUCache(@, k)]
    /\ recent' = [recent EXCEPT ![i] = Used(@, caches[i].lruList[Node(caches[i], k)])]
    /\ uses' = uses + 1
    /\ UNCHANGED <<file, pc, at, held>>

BeginRound ==
    /\ pc = "idle"
    /\ pc' = "merge"
    /\ at' = 2
    /\ held' = AllKeys
    /\ UNCHANGED <<caches, file, uses, recent>>

\* Faulty variant: the first cache is copied into the others at once.
MergeBackwards ==
    /\ pc = "merge" /\ at <= CacheNum
    /\ caches' = [caches EXCEPT ![at] = update(@, caches[1])]
    /\ recent' = [recent EXCEPT ![at] = UsedAll(@, caches[1].lruList)]
    /\ at' = at + 1
    /\ UNCHANGED <<file, pc, uses, held>>

\* temp.update(*it)
Merge ==
    /\ pc = "merge" /\ at <= CacheNum
    /\ caches' = [caches EXCEPT ![1] = update(@, caches[at])]
    /\ recent' = [recent EXCEPT ![1] = UsedAll(@, caches[at].lruList)]
    /\ at' = at + 1
    /\ UNCHANGED <<file, pc, uses, held>>

Merged ==
    /\ pc = "merge" /\ at > CacheNum
    /\ pc' = "spread"
    /\ at' = 2
    /\ UNCHANGED <<caches, file, uses, recent, held>>

\* (*it).update(temp)
Spread ==
    /\ pc = "spread" /\ at <= CacheNum
    /\ caches' = [caches EXCEPT ![at] = update(@, caches[1])]
    /\ recent' = [recent EXCEPT ![at] = UsedAll(@, caches[1].lruList)]
    /\ at' = at + 1
    /\ UNCHANGED <<file, pc, uses, held>>

\* Faulty variant: the last cache is left out.
OpenDumpEarly ==
    /\ pc = "spread" /\ at >= CacheNum
    /\ file' = <<>>
    /\ pc' = "write"
    /\ at' = 1
    /\ UNCHANGED <<caches, uses, recent, held>>

\* dumpToFile opens the file, which empties it.
OpenDump ==
    /\ pc = "spread" /\ at > CacheNum
    /\ file' = <<>>
    /\ pc' = "write"
    /\ at' = 1
    /\ UNCHANGED <<caches, uses, recent, held>>

\* The file cannot be opened: the round ends without a dump.
DumpFails ==
    /\ pc = "spread" /\ at > CacheNum
    /\ pc' = "idle"
    /\ UNCHANGED <<caches, file, at, uses, recent, held>>

\* One entry, flushed by std::endl.
WriteEntry ==
    /\ pc = "write" /\ at <= Len(caches[1].lruList)
    /\ file' = Append(file, caches[1].lruList[at])
    /\ at' = at + 1
    /\ UNCHANGED <<caches, pc, uses, recent, held>>

EndRound ==
    /\ pc = "write" /\ at > Len(caches[1].lruList)
    /\ pc' = "idle"
    /\ UNCHANGED <<caches, file, at, uses, recent, held>>

\* The process ends, at any point.
Kill ==
    /\ pc # "off"
    /\ pc' = "off"
    /\ at' = 1
    /\ caches' = [i \in Threads |-> EmptyCache]
    /\ recent' = [i \in Threads |-> <<>>]
    /\ held' = {}
    /\ uses' = 0
    /\ UNCHANGED file

Use == \E i \in Threads, k \in Keys : Get(i, k) \/ \E d \in Data : Set(i, k, d)

Next ==
    \/ Start \/ Use
    \/ BeginRound \/ Merge \/ Merged \/ Spread
    \/ OpenDump \/ DumpFails \/ WriteEntry \/ EndRound
    \/ Kill

Spec == Init /\ [][Next]_vars
-----------------------------------------------------------------------------
\* The two structures of a cache agree whatever was set, looked up, merged and
\* evicted: the map has exactly the keys of the list, each of them once
\* (lrucache.cc:53-70 and 158-162).
MapMatchesList ==
    \A i \in Threads :
        LET list == caches[i].lruList IN
        /\ caches[i] \in Caches /\ Len(list) <= Capacity
        /\ caches[i].hashMap = KeysOf(list)
        /\ \A j, k \in DOMAIN list : list[j].key = list[k].key => j = k

\* A cache holds the Capacity keys that were used last, in that order and with
\* the data last set, although evictions have forgotten the rest.
KeepsMostRecent == \A i \in Threads : caches[i].lruList = FirstOf(recent[i])

\* When the first cache goes to the file all threads have the same answers,
\* also when the keys of the threads did not fit into one cache together
\* (cachemanager.cc:40-53).
CachesAgree ==
    pc = "write" => \A i \in Threads : ToSet(caches[i].lruList) = ToSet(caches[1].lruList)

\* A round gives every thread all the keys that any thread had when it began,
\* unless there are too many for one cache (cachemanager.cc:40-53).
NothingForgotten ==
    pc = "write" /\ Cardinality(held) <= Capacity =>
        \A i \in Threads : caches[i].hashMap = held

\* A start gives every thread the entries of the file in their order, though
\* reading the file and copying the cache each turn the order round; of equal
\* keys the last counts, and of too many entries the ones the file ends with.
StartKeepsOrder ==
    [][Start => \A i \in Threads :
          caches'[i].lruList = Reverse(FirstOf(UsedAll(<<>>, ReadBack(file))))]_vars

\* "duplicate a LRU cache" (lrucache.cc:23): the copy constructor makes a cache
\* like the one it is given.
CopyIsDuplicate == \A i \in Threads : Duplicate(caches[i]) = caches[i]
=============================================================================
