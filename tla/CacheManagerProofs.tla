-------------------------- MODULE CacheManagerProofs --------------------------
(***************************************************************************)
(* Whatever is set, evicted, merged, copied and read back, for caches of   *)
(* any size and number: the list and the map of a cache agree, a round of  *)
(* periodicUpdateCaches leaves all caches alike, and each cache is what is *)
(* left of all its entries in the order of their last use.                 *)
(***************************************************************************)
EXTENDS CacheManager, FiniteSetTheorems, WellFoundedInduction, TLAPS

\* What MapMatchesList says of one cache.
Distinct(list) == \A j, k \in DOMAIN list : list[j].key = list[k].key => j = k

Good(cache) ==
    /\ cache \in Caches /\ Len(cache.lruList) <= Capacity
    /\ cache.hashMap = KeysOf(cache.lruList)
    /\ Distinct(cache.lruList)

Full(cache) == Len(cache.lruList) = Capacity

LEMMA MatchesGood == MapMatchesList <=> \A i \in Threads : Good(caches[i])
BY DEF MapMatchesList, Good, Distinct

LEMMA EmptyGood == Good(EmptyCache)
BY CacheAssumption DEF Good, EmptyCache, Caches, KeysOf, Distinct

-----------------------------------------------------------------------------
(* One call                                                                *)

LEMMA Pushed ==
    ASSUME NEW e \in Entries, NEW r \in Seq(Entries)
    PROVE  /\ <<e>> \o r \in Seq(Entries) /\ Len(<<e>> \o r) = Len(r) + 1
           /\ (<<e>> \o r)[1] = e
           /\ \A j \in 1 .. Len(r) : (<<e>> \o r)[j + 1] = r[j]
OBVIOUS

LEMMA Moved ==
    ASSUME NEW s \in Seq(Entries), NEW i \in DOMAIN s, NEW e \in Entries
    PROVE  LET t == <<e>> \o RemoveAt(s, i) IN
           /\ t \in Seq(Entries) /\ Len(t) = Len(s)
           /\ t[1] = e
           /\ \A j \in 1 .. i - 1 : t[j + 1] = s[j]
           /\ \A j \in i + 1 .. Len(s) : t[j] = s[j]
<1> DEFINE a == SubSeq(s, 1, i - 1)
           b == SubSeq(s, i + 1, Len(s))
           r == RemoveAt(s, i)
<1>1. a \in Seq(Entries) /\ Len(a) = i - 1 /\ \A j \in 1 .. i - 1 : a[j] = s[j]
  OBVIOUS
<1>2. b \in Seq(Entries) /\ Len(b) = Len(s) - i /\ \A j \in 1 .. Len(s) - i : b[j] = s[i + j]
  OBVIOUS
<1>4. r = a \o b
  BY DEF RemoveAt
<1> HIDE DEF a, b
<1>3. /\ a \o b \in Seq(Entries) /\ Len(a \o b) = Len(s) - 1
      /\ \A j \in 1 .. i - 1 : (a \o b)[j] = s[j]
      /\ \A j \in i .. Len(s) - 1 : (a \o b)[j] = s[j + 1]
  BY <1>1, <1>2
<1> HIDE DEF r
<1>5. /\ r \in Seq(Entries) /\ Len(r) = Len(s) - 1
      /\ \A j \in 1 .. i - 1 : r[j] = s[j]
      /\ \A j \in i .. Len(s) - 1 : r[j] = s[j + 1]
  BY <1>3, <1>4
<1> DEFINE t == <<e>> \o r
<1>6. /\ t \in Seq(Entries) /\ Len(t) = Len(s) /\ t[1] = e
      /\ \A j \in 1 .. Len(s) - 1 : t[j + 1] = r[j]
  BY <1>5, Pushed
<1> HIDE DEF t
<1>7. \A j \in 1 .. i - 1 : t[j + 1] = s[j]
  BY <1>5, <1>6
<1>8. ASSUME NEW j \in i + 1 .. Len(s) PROVE t[j] = s[j]
  <2>1. j - 1 \in 1 .. Len(s) - 1 /\ j - 1 \in i .. Len(s) - 1 /\ j - 1 + 1 = j
    OBVIOUS
  <2> QED
    BY <2>1, <1>5, <1>6
<1> QED
  BY <1>6, <1>7, <1>8 DEF t, r

LEMMA NodeIs ==
    ASSUME NEW cache, Good(cache), NEW k \in cache.hashMap
    PROVE  Node(cache, k) \in DOMAIN cache.lruList /\ cache.lruList[Node(cache, k)].key = k
BY DEF Good, Node, KeysOf

\* The node of a known key in front, and the nodes before it one further.
LEMMA UpdateLRU ==
    ASSUME NEW cache, Good(cache), NEW k \in cache.hashMap
    PROVE  LET u == updateLRU(cache, k)
               s == cache.lruList
               i == Node(cache, k) IN
           /\ Good(u) /\ u.hashMap = cache.hashMap /\ Len(u.lruList) = Len(s)
           /\ u.lruList[1] = s[i]
           /\ \A j \in 1 .. i - 1 : u.lruList[j + 1] = s[j]
           /\ \A j \in i + 1 .. Len(s) : u.lruList[j] = s[j]
<1> DEFINE s == cache.lruList
           i == Node(cache, k)
           t == <<s[i]>> \o RemoveAt(s, i)
           u == updateLRU(cache, k)
<1>1. s \in Seq(Entries) /\ i \in DOMAIN s /\ cache \in Caches
  BY NodeIs DEF Good, Caches
<1>2. u.lruList = t /\ u.hashMap = cache.hashMap /\ u = [hashMap |-> cache.hashMap, lruList |-> t]
  <2>1. cache = [hashMap |-> cache.hashMap, lruList |-> s]
    BY <1>1 DEF Caches
  <2>2. u = [cache EXCEPT !.lruList = t]
    BY DEF updateLRU
  <2> HIDE DEF t, s, i, u
  <2> QED
    BY <2>1, <2>2
<1> HIDE DEF i, u
<1>3. /\ t \in Seq(Entries) /\ Len(t) = Len(s)
      /\ t[1] = s[i]
      /\ \A j \in 1 .. i - 1 : t[j + 1] = s[j]
      /\ \A j \in i + 1 .. Len(s) : t[j] = s[j]
  <2>1. s[i] \in Entries
    BY <1>1
  <2> QED
    BY <2>1, <1>1, Moved
<1> HIDE DEF t, s
<1>4. \A j \in DOMAIN t : \E l \in DOMAIN s :
        t[j] = s[l] /\ (l = IF j = 1 THEN i ELSE IF j <= i THEN j - 1 ELSE j)
  <2> SUFFICES ASSUME NEW j \in DOMAIN t
               PROVE  \E l \in DOMAIN s :
                        t[j] = s[l] /\ (l = IF j = 1 THEN i ELSE IF j <= i THEN j - 1 ELSE j)
    OBVIOUS
  <2>1. CASE j = 1
    BY <2>1, <1>1, <1>3
  <2>2. CASE j # 1 /\ j <= i
    <3>1. j - 1 \in 1 .. i - 1 /\ j - 1 + 1 = j /\ j - 1 \in DOMAIN s
      BY <2>2, <1>1, <1>3
    <3> QED
      BY <3>1, <2>2, <1>3
  <2>3. CASE j # 1 /\ ~(j <= i)
    BY <2>3, <1>1, <1>3
  <2> QED
    BY <2>1, <2>2, <2>3
<1>5. Distinct(t)
  <2>1. \A j, l \in DOMAIN s : s[j].key = s[l].key => j = l
    BY DEF Good, Distinct, s
  <2>2. SUFFICES ASSUME NEW j \in DOMAIN t, NEW l \in DOMAIN t, t[j].key = t[l].key
                 PROVE  j = l
    BY DEF Distinct
  <2>3. PICK m \in DOMAIN s : t[j] = s[m] /\ (m = IF j = 1 THEN i ELSE IF j <= i THEN j - 1 ELSE j)
    BY <1>4
  <2>4. PICK n \in DOMAIN s : t[l] = s[n] /\ (n = IF l = 1 THEN i ELSE IF l <= i THEN l - 1 ELSE l)
    BY <1>4
  <2>5. m = n
    BY <2>1, <2>2, <2>3, <2>4
  <2> QED
    BY <2>3, <2>4, <2>5, <1>1, <1>3
<1>6. KeysOf(t) = KeysOf(s)
  <2>1. KeysOf(t) \subseteq KeysOf(s)
    BY <1>4 DEF KeysOf
  <2>2. ASSUME NEW l \in DOMAIN s PROVE \E j \in DOMAIN t : t[j] = s[l]
    <3>1. CASE l = i
      BY <3>1, <1>1, <1>3
    <3>2. CASE l < i
      <4>1. l \in 1 .. i - 1 /\ l + 1 \in DOMAIN t
        BY <3>2, <1>1, <1>3
      <4> QED
        BY <4>1, <1>3
    <3>3. CASE l > i
      BY <3>3, <1>1, <1>3
    <3> QED
      BY <3>1, <3>2, <3>3, <1>1
  <2> QED
    BY <2>1, <2>2 DEF KeysOf
<1>7. u \in Caches
  BY <1>1, <1>2, <1>3 DEF Caches
<1>8. Good(u)
  BY <1>2, <1>3, <1>5, <1>6, <1>7 DEF Good, s
<1> QED
  BY <1>2, <1>3, <1>8 DEF u, i, s

\* A known key's data is set where the node stands.
LEMMA DataSet ==
    ASSUME NEW cache, Good(cache), NEW k \in cache.hashMap, NEW d \in Data
    PROVE  LET i == Node(cache, k)
               c == [cache EXCEPT !.lruList[i].data = d] IN
           /\ Good(c) /\ c.hashMap = cache.hashMap /\ Len(c.lruList) = Len(cache.lruList)
           /\ Node(c, k) = i /\ c.lruList[i] = Entry(k, d)
           /\ \A j \in DOMAIN cache.lruList : j # i => c.lruList[j] = cache.lruList[j]
<1> DEFINE s == cache.lruList
           i == Node(cache, k)
           c == [cache EXCEPT !.lruList[i].data = d]
           t == c.lruList
<1>1. s \in Seq(Entries) /\ i \in DOMAIN s /\ s[i].key = k /\ cache \in Caches
  BY NodeIs DEF Good, Caches
<1>2. cache = [hashMap |-> cache.hashMap, lruList |-> s]
  BY <1>1 DEF Caches
<1> HIDE DEF i
<1>3. /\ c.hashMap = cache.hashMap /\ t = [s EXCEPT ![i].data = d]
      /\ c = [hashMap |-> cache.hashMap, lruList |-> t]
  <2> HIDE DEF s
  <2> QED
    BY <1>2
<1> HIDE DEF c, t
<1>4. s[i] \in Entries /\ k \in Keys
  <2>1. s[i] \in Entries
    BY <1>1
  <2> HIDE DEF s
  <2> QED
    BY <2>1, <1>1 DEF Entries
<1>5. [s[i] EXCEPT !.data = d] = Entry(k, d) /\ Entry(k, d) \in Entries /\ Entry(k, d).key = k
  BY <1>1, <1>4 DEF Entries, Entry
<1>6. t = [s EXCEPT ![i] = Entry(k, d)]
  BY <1>1, <1>3, <1>5
<1> HIDE DEF s
<1>7. /\ t \in Seq(Entries) /\ Len(t) = Len(s) /\ DOMAIN t = DOMAIN s
      /\ t[i] = Entry(k, d) /\ \A j \in DOMAIN s : j # i => t[j] = s[j]
  BY <1>1, <1>5, <1>6
<1>8. \A j \in DOMAIN s : t[j].key = s[j].key
  BY <1>1, <1>5, <1>7
<1>9. Distinct(t) /\ KeysOf(t) = KeysOf(s)
  BY <1>7, <1>8 DEF Good, Distinct, KeysOf, s
<1>10. Good(c)
  <2>1. c \in Caches
    BY <1>1, <1>3, <1>7 DEF Caches
  <2> QED
    BY <2>1, <1>3, <1>7, <1>9 DEF Good, s, t
<1>11. Node(c, k) = i
  <2>1. Node(c, k) \in DOMAIN t /\ t[Node(c, k)].key = k
    BY <1>3, <1>10, NodeIs DEF t
  <2> QED
    BY <2>1, <1>1, <1>5, <1>7, <1>9 DEF Distinct
<1> QED
  BY <1>3, <1>7, <1>10, <1>11 DEF c, t, i, s

\* What setLRUCache makes of a cache: the entry in front, the entries before
\* its node one further, and nothing forgotten unless the list is full.
Effect(cache, k, d, u) ==
    /\ Good(u) /\ Len(u.lruList) >= Len(cache.lruList)
    /\ Len(u.lruList) > 0 /\ u.lruList[1] = Entry(k, d)
    /\ u.hashMap \subseteq cache.hashMap \cup {k}
    /\ Full(u) \/ cache.hashMap \cup {k} \subseteq u.hashMap
    /\ k \in u.hashMap
    /\ k \notin cache.hashMap =>
         Len(u.lruList) = IF Full(cache) THEN Capacity ELSE Len(cache.lruList) + 1
    /\ \A n \in 0 .. Len(cache.lruList) :
         n < Capacity /\ (\A j \in 1 .. n : cache.lruList[j].key # k) =>
            n + 1 <= Len(u.lruList) /\ \A j \in 1 .. n : u.lruList[j + 1] = cache.lruList[j]

LEMMA SetKnown ==
    ASSUME NEW cache, Good(cache), NEW k \in cache.hashMap, NEW d \in Data
    PROVE  Effect(cache, k, d, setLRUCache(cache, k, d))
<1> DEFINE i == Node(cache, k)
           c == [cache EXCEPT !.lruList[i].data = d]
           u == updateLRU(c, k)
<1>1. /\ Good(c) /\ c.hashMap = cache.hashMap /\ Len(c.lruList) = Len(cache.lruList)
      /\ Node(c, k) = i /\ c.lruList[i] = Entry(k, d)
      /\ \A j \in DOMAIN cache.lruList : j # i => c.lruList[j] = cache.lruList[j]
  BY DataSet
<1>2. i \in DOMAIN cache.lruList /\ cache.lruList[i].key = k /\ cache.lruList \in Seq(Entries)
  BY NodeIs DEF Good, Caches
<1>3. setLRUCache(cache, k, d) = u
  BY DEF setLRUCache
<1> HIDE DEF i, c
<1>4. /\ Good(u) /\ u.hashMap = c.hashMap /\ Len(u.lruList) = Len(c.lruList)
      /\ u.lruList[1] = c.lruList[i]
      /\ \A j \in 1 .. i - 1 : u.lruList[j + 1] = c.lruList[j]
  BY <1>1, UpdateLRU
<1> HIDE DEF u
<1>5. ASSUME NEW n \in 0 .. Len(cache.lruList), \A j \in 1 .. n : cache.lruList[j].key # k
      PROVE  n + 1 <= Len(u.lruList) /\ \A j \in 1 .. n : u.lruList[j + 1] = cache.lruList[j]
  <2>1. n < i
    BY <1>2, <1>5
  <2> QED
    BY <2>1, <1>1, <1>2, <1>4
<1> QED
  BY <1>1, <1>2, <1>3, <1>4, <1>5 DEF Effect

LEMMA SetNew ==
    ASSUME NEW cache, Good(cache), NEW k \in Keys, k \notin cache.hashMap, NEW d \in Data
    PROVE  Effect(cache, k, d, setLRUCache(cache, k, d))
<1> DEFINE s == cache.lruList
           full == Len(s) = Capacity
           kept == IF full THEN Front(s) ELSE s
           map  == IF full THEN cache.hashMap \ {Last(s).key} ELSE cache.hashMap
           t == <<Entry(k, d)>> \o kept
           u == setLRUCache(cache, k, d)
<1>1. s \in Seq(Entries) /\ Len(s) <= Capacity /\ cache.hashMap = KeysOf(s) /\ Distinct(s)
  BY DEF Good, Caches
<1>2. u = [hashMap |-> map \cup {k}, lruList |-> t]
  BY DEF setLRUCache
<1>3. u.hashMap = map \cup {k} /\ u.lruList = t
  BY <1>2
<1> HIDE DEF u, s
<1>4. /\ kept \in Seq(Entries) /\ Len(kept) = IF full THEN Len(s) - 1 ELSE Len(s)
      /\ \A j \in 1 .. Len(kept) : kept[j] = s[j]
  BY <1>1, CacheAssumption DEF Front
<1>5. map = KeysOf(kept)
  <2>1. CASE ~full
    BY <2>1, <1>1 DEF s
  <2>2. CASE full
    <3>1. Len(s) \in DOMAIN s /\ Last(s) = s[Len(s)] /\ DOMAIN kept = 1 .. Len(s) - 1
      BY <2>2, <1>1, <1>4, CacheAssumption DEF Last
    <3>2. \A j \in DOMAIN s : s[j].key # Last(s).key <=> j \in DOMAIN kept
      <4> HIDE DEF kept
      <4> QED
        BY <3>1, <1>1 DEF Distinct
    <3>3. map = {s[j].key : j \in DOMAIN s} \ {Last(s).key}
      BY <2>2, <1>1 DEF KeysOf
    <3>4. \A j \in DOMAIN kept : j \in DOMAIN s /\ kept[j] = s[j]
      BY <3>1, <1>1, <1>4
    <3> HIDE DEF map, kept
    <3>5. ASSUME NEW x \in map PROVE x \in KeysOf(kept)
      <4>1. PICK j \in DOMAIN s : x = s[j].key /\ s[j].key # Last(s).key
        BY <3>3
      <4> QED
        BY <4>1, <3>2, <3>4 DEF KeysOf
    <3>6. ASSUME NEW x \in KeysOf(kept) PROVE x \in map
      <4>1. PICK j \in DOMAIN kept : x = kept[j].key
        BY DEF KeysOf
      <4> QED
        BY <4>1, <3>2, <3>3, <3>4
    <3> QED
      BY <3>5, <3>6
  <2> QED
    BY <2>1, <2>2
<1>6. Distinct(kept) /\ map \subseteq cache.hashMap /\ (full \/ map = cache.hashMap)
  <2>1. \A j \in DOMAIN kept : j \in DOMAIN s /\ kept[j] = s[j]
    BY <1>1, <1>4
  <2>2. Distinct(kept)
    <3> HIDE DEF kept
    <3> QED
      BY <2>1, <1>1 DEF Distinct
  <2> QED
    BY <2>2
<1>7. Entry(k, d) \in Entries /\ Entry(k, d).key = k
  BY DEF Entry, Entries
<1> HIDE DEF kept, map
<1>8. /\ t \in Seq(Entries) /\ Len(t) = Len(kept) + 1 /\ t[1] = Entry(k, d)
      /\ \A j \in 1 .. Len(kept) : t[j + 1] = kept[j]
  BY <1>4, <1>7, Pushed
<1> HIDE DEF t
<1>9. \A j \in DOMAIN t : j = 1 \/ (j - 1 \in DOMAIN kept /\ t[j] = kept[j - 1])
  <2> SUFFICES ASSUME NEW j \in DOMAIN t, j # 1 PROVE j - 1 \in DOMAIN kept /\ t[j] = kept[j - 1]
    OBVIOUS
  <2>1. j - 1 \in 1 .. Len(kept) /\ j - 1 + 1 = j
    BY <1>4, <1>8
  <2> QED
    BY <2>1, <1>4, <1>8
<1>10. k \notin KeysOf(kept)
  BY <1>5, <1>6
<1>11. Distinct(t)
  <2> SUFFICES ASSUME NEW j \in DOMAIN t, NEW l \in DOMAIN t, t[j].key = t[l].key PROVE j = l
    BY DEF Distinct
  <2>1. CASE j = 1 \/ l = 1
    BY <2>1, <1>7, <1>8, <1>9, <1>10 DEF KeysOf
  <2>2. CASE j # 1 /\ l # 1
    <3>1. j - 1 \in DOMAIN kept /\ l - 1 \in DOMAIN kept /\ kept[j - 1].key = kept[l - 1].key
      BY <2>2, <1>9
    <3>2. j - 1 = l - 1
      BY <3>1, <1>6 DEF Distinct
    <3> QED
      BY <3>2, <1>8
  <2> QED
    BY <2>1, <2>2
<1>12. KeysOf(t) = map \cup {k}
  <2>1. ASSUME NEW j \in DOMAIN t PROVE t[j].key \in KeysOf(kept) \cup {k}
    BY <1>7, <1>8, <1>9 DEF KeysOf
  <2>2. ASSUME NEW j \in DOMAIN kept PROVE j + 1 \in DOMAIN t /\ t[j + 1].key = kept[j].key
    <3>1. j \in 1 .. Len(kept) /\ Len(kept) \in Nat
      BY <1>4
    <3>2. j + 1 \in 1 .. Len(t) /\ t[j + 1] = kept[j]
      BY <3>1, <1>8
    <3> QED
      BY <3>2, <1>8
  <2>3. 1 \in DOMAIN t /\ t[1].key = k
    BY <1>4, <1>7, <1>8
  <2> QED
    BY <2>1, <2>2, <2>3, <1>5 DEF KeysOf
<1>13. Good(u)
  <2>1. map \subseteq Keys
    BY <1>6 DEF Good, Caches
  <2>2. u \in Caches
    BY <2>1, <1>2, <1>8 DEF Caches
  <2>3. Len(t) <= Capacity
    BY <1>1, <1>4, <1>8, CacheAssumption
  <2> QED
    BY <2>2, <2>3, <1>3, <1>11, <1>12 DEF Good
<1>14. Len(t) >= Len(s) /\ Len(t) > 0 /\ Len(t) = IF full THEN Capacity ELSE Len(s) + 1
  BY <1>1, <1>4, <1>8, CacheAssumption
<1>15. ASSUME NEW n \in 0 .. Len(s), n < Capacity
       PROVE  n + 1 <= Len(t) /\ \A j \in 1 .. n : t[j + 1] = s[j]
  BY <1>1, <1>4, <1>8, <1>15, CacheAssumption
<1> HIDE DEF full
<1>16. /\ u.hashMap \subseteq cache.hashMap \cup {k} /\ k \in u.hashMap
       /\ Full(u) \/ cache.hashMap \cup {k} \subseteq u.hashMap
       /\ Len(u.lruList) = IF Full(cache) THEN Capacity ELSE Len(cache.lruList) + 1
  BY <1>3, <1>6, <1>14 DEF Full, full, s
<1> QED
  BY <1>3, <1>8, <1>13, <1>14, <1>15, <1>16 DEF Effect, u, s

LEMMA SetLRUCache ==
    ASSUME NEW cache, Good(cache), NEW k \in Keys, NEW d \in Data
    PROVE  Effect(cache, k, d, setLRUCache(cache, k, d))
BY SetKnown, SetNew

-----------------------------------------------------------------------------
(* A list of entries set one after the other                               *)

\* Every inhabited set of naturals has a least element: the intervals below
\* its elements are finite sets, and those have one that is minimal.
LEMMA LeastNatural ==
    ASSUME NEW T, T \subseteq Nat, T # {}
    PROVE  \E m \in T : \A k \in T : m <= k
<1> DEFINE D == {1 .. m : m \in T}
<1>1. \A m \in Nat : 1 .. m \in FiniteSubsetsOf(Nat)
  BY FS_Interval DEF FiniteSubsetsOf
<1>2. D \subseteq FiniteSubsetsOf(Nat) /\ D # {}
  BY <1>1
<1> HIDE DEF D
<1>3. \E A \in D : \A B \in D : <<B, A>> \notin StrictSubsetOrdering(Nat)
  BY <1>2, FS_StrictSubsetOrderingWellFounded, WFMin
<1>4. PICK m \in T : \A k \in T : <<1 .. k, 1 .. m>> \notin StrictSubsetOrdering(Nat)
  BY <1>3 DEF D
<1>5. ASSUME NEW k \in T, k < m PROVE FALSE
  <2>1. 1 .. k \subseteq 1 .. m /\ m \in 1 .. m /\ m \notin 1 .. k
    BY <1>5
  <2>2. 1 .. k \in SUBSET Nat /\ 1 .. m \in SUBSET Nat
    OBVIOUS
  <2>3. <<1 .. k, 1 .. m>> \in StrictSubsetOrdering(Nat)
    BY <2>1, <2>2 DEF StrictSubsetOrdering
  <2> QED
    BY <1>4, <2>3
<1> QED
  BY <1>5

\* What holds of 0 and, with a number, of the next.
LEMMA UpTo ==
    ASSUME NEW n \in Nat, NEW T, 0 \in T, \A k \in 1 .. n : k - 1 \in T => k \in T
    PROVE  \A k \in 0 .. n : k \in T
<1> DEFINE Bad == (0 .. n) \ T
<1>1. SUFFICES ASSUME Bad # {} PROVE FALSE
  OBVIOUS
<1>2. PICK m \in Bad : \A l \in Bad : m <= l
  <2>1. Bad \subseteq Nat
    OBVIOUS
  <2> HIDE DEF Bad
  <2> QED
    BY <2>1, <1>1, LeastNatural
<1>3. m \in 1 .. n /\ m - 1 \in 0 .. n /\ m - 1 \notin Bad
  BY <1>2
<1> QED
  BY <1>2, <1>3

\* f is defined by recursion over the numbers up to n.
Recurs(f, S, base, n, h) ==
    f \in [0 .. n -> S] /\ f[0] = base /\ \A k \in 1 .. n : f[k] = h[k][f[k - 1]]

LEMMA Recursion ==
    ASSUME NEW S, NEW base \in S, NEW n \in Nat, NEW h \in [1 .. n -> [S -> S]]
    PROVE  \E f : Recurs(f, S, base, n, h)
<1> DEFINE Is(f, m) ==
             f \in [0 .. m -> S] /\ f[0] = base /\ \A k \in 1 .. m : f[k] = h[k][f[k - 1]]
           T == {m \in 0 .. n : \E f : Is(f, m)}
<1>1. 0 \in T
  <2>1. Is([k \in 0 .. 0 |-> base], 0)
    OBVIOUS
  <2> HIDE DEF Is
  <2> QED
    BY <2>1
<1>2. ASSUME NEW m \in 1 .. n, m - 1 \in T PROVE m \in T
  <2>1. PICK f : Is(f, m - 1)
    BY <1>2
  <2> DEFINE g == [k \in 0 .. m |-> IF k = m THEN h[m][f[m - 1]] ELSE f[k]]
  <2>2. /\ m - 1 \in 0 .. m - 1 /\ f[m - 1] \in S /\ h[m][f[m - 1]] \in S
        /\ \A k \in 0 .. m : k # m => k \in 0 .. m - 1
        /\ \A k \in 1 .. m : k - 1 \in 0 .. m - 1 /\ k - 1 # m
    BY <2>1
  <2>3. g \in [0 .. m -> S] /\ g[0] = base /\ g[m] = h[m][f[m - 1]]
    BY <2>1, <2>2
  <2>6. \A k \in 0 .. m - 1 : g[k] = f[k]
    BY <2>2
  <2> HIDE DEF g
  <2>4. ASSUME NEW k \in 1 .. m PROVE g[k] = h[k][g[k - 1]]
    <3>1. g[k - 1] = f[k - 1]
      BY <2>2, <2>6
    <3>2. CASE k = m
      BY <3>1, <3>2, <2>3
    <3>3. CASE k # m
      <4>1. k \in 1 .. m - 1 /\ k \in 0 .. m - 1
        BY <3>3
      <4> QED
        BY <4>1, <3>1, <2>1, <2>6
    <3> QED
      BY <3>2, <3>3
  <2>5. Is(g, m)
    BY <2>3, <2>4
  <2> HIDE DEF Is
  <2> QED
    BY <2>5
<1> HIDE DEF T
<1>3. n \in T
  <2>1. \A k \in 1 .. n : k - 1 \in T => k \in T
    BY <1>2
  <2>2. \A k \in 0 .. n : k \in T
    BY <1>1, <2>1, UpTo
  <2> QED
    BY <2>2
<1> QED
  BY <1>3 DEF T, Recurs

\* The caches on the way, for the first n entries.
Way(f, cache, list, n) ==
    f = [k \in 0 .. n |-> IF k = 0 THEN cache ELSE setLRUCache(f[k - 1], list[k].key, list[k].data)]

LEMMA WayExists ==
    ASSUME NEW cache, NEW list, NEW n \in Nat
    PROVE  \E f : Way(f, cache, list, n)
<1> DEFINE Bad == {m \in Nat : ~\E f : Way(f, cache, list, m)}
<1>1. SUFFICES ASSUME Bad # {} PROVE FALSE
  OBVIOUS
<1>2. Bad \subseteq Nat /\ \A m \in Bad : ~\E f : Way(f, cache, list, m)
  OBVIOUS
<1>3. \A m \in Nat : m \notin Bad => \E f : Way(f, cache, list, m)
  OBVIOUS
<1> HIDE DEF Bad
<1>4. PICK m \in Bad : \A l \in Bad : m <= l
  BY <1>1, <1>2, LeastNatural
<1>5. m # 0
  <2>1. Way([k \in 0 .. 0 |-> cache], cache, list, 0)
    BY DEF Way
  <2> QED
    BY <2>1, <1>2, <1>4
<1>6. m \in Nat /\ m - 1 \in Nat /\ m - 1 \notin Bad
  BY <1>2, <1>4, <1>5
<1>7. PICK f : Way(f, cache, list, m - 1)
  BY <1>3, <1>6
<1> DEFINE g == [k \in 0 .. m |-> IF k = m THEN setLRUCache(f[m - 1], list[m].key, list[m].data) ELSE f[k]]
<1>8. \A k \in 0 .. m - 1 : f[k] = IF k = 0 THEN cache ELSE setLRUCache(f[k - 1], list[k].key, list[k].data)
  BY <1>7 DEF Way
<1>9. \A k \in 0 .. m - 1 : g[k] = f[k]
  BY <1>6
<1>10. ASSUME NEW k \in 0 .. m
       PROVE  g[k] = IF k = 0 THEN cache ELSE setLRUCache(g[k - 1], list[k].key, list[k].data)
  <2>1. CASE k = m
    <3>1. g[m] = setLRUCache(f[m - 1], list[m].key, list[m].data)
      BY <1>6
    <3>2. g[m - 1] = f[m - 1]
      BY <1>6, <1>9
    <3> QED
      BY <2>1, <3>1, <3>2, <1>5
  <2>2. CASE k # m
    <3>1. k \in 0 .. m - 1 /\ (k = 0 \/ k - 1 \in 0 .. m - 1)
      BY <2>2, <1>6
    <3> HIDE DEF g
    <3>2. g[k] = f[k] /\ (k = 0 \/ g[k - 1] = f[k - 1])
      BY <3>1, <1>9
    <3> QED
      BY <3>1, <3>2, <1>8
  <2> QED
    BY <2>1, <2>2
<1>11. Way(g, cache, list, m)
  <2>1. g = [k \in 0 .. m |-> g[k]]
    OBVIOUS
  <2> HIDE DEF g
  <2> QED
    BY <2>1, <1>10 DEF Way
<1> QED
  BY <1>2, <1>4, <1>11

LEMMA SetAllWay ==
    ASSUME NEW cache, NEW list, Len(list) \in Nat
    PROVE  \E f : /\ SetAll(cache, list) = f[Len(list)]
                  /\ f[0] = cache
                  /\ \A k \in 1 .. Len(list) : f[k] = setLRUCache(f[k - 1], list[k].key, list[k].data)
<1> DEFINE f == CHOOSE f : Way(f, cache, list, Len(list))
<1>1. SetAll(cache, list) = f[Len(list)]
  BY DEF SetAll, Way
<1>2. Way(f, cache, list, Len(list))
  BY WayExists
<1> HIDE DEF f
<1> QED
  BY <1>1, <1>2 DEF Way

KeysUpTo(list, n) == {list[i].key : i \in 1 .. n}

\* What the first n entries of the list make of a cache.
AllEffect(cache, list, n, u) ==
    /\ Good(u) /\ Len(u.lruList) >= Len(cache.lruList)
    /\ u.hashMap \subseteq cache.hashMap \cup KeysUpTo(list, n)
    /\ Full(u) \/ cache.hashMap \cup KeysUpTo(list, n) \subseteq u.hashMap
    /\ Distinct(list) /\ Len(list) <= Capacity =>
         n <= Len(u.lruList) /\ \A j \in 1 .. n : u.lruList[j] = list[n + 1 - j]

LEMMA NextEntry ==
    ASSUME NEW cache, Good(cache), NEW list \in Seq(Entries), NEW n \in Nat, n < Len(list),
           NEW c, AllEffect(cache, list, n, c),
           NEW u, u = setLRUCache(c, list[n + 1].key, list[n + 1].data)
    PROVE  AllEffect(cache, list, n + 1, u)
<1> DEFINE e == list[n + 1]
<1>1. n + 1 \in DOMAIN list /\ e \in Entries /\ e.key \in Keys /\ e.data \in Data /\ e = Entry(e.key, e.data)
  <2>1. n + 1 \in DOMAIN list /\ e \in Entries
    OBVIOUS
  <2> HIDE DEF e
  <2> QED
    BY <2>1 DEF Entries, Entry
<1>2. Good(c)
  BY DEF AllEffect
<1> HIDE DEF e
<1>3. Effect(c, e.key, e.data, u)
  BY <1>1, <1>2, SetLRUCache DEF e
<1>4. KeysUpTo(list, n + 1) = KeysUpTo(list, n) \cup {e.key}
  <2>1. 1 .. n + 1 = (1 .. n) \cup {n + 1}
    OBVIOUS
  <2> QED
    BY <2>1 DEF KeysUpTo, e
<1>5. /\ Good(u) /\ u.hashMap \subseteq cache.hashMap \cup KeysUpTo(list, n + 1)
  BY <1>3, <1>4 DEF AllEffect, Effect
<1>6. /\ Len(u.lruList) \in Nat /\ Len(c.lruList) \in Nat /\ Len(cache.lruList) \in Nat
      /\ Len(u.lruList) <= Capacity /\ Len(c.lruList) <= Capacity
  BY <1>2, <1>5 DEF Good, Caches
<1>7. Len(u.lruList) >= Len(c.lruList) /\ Len(c.lruList) >= Len(cache.lruList)
  BY <1>3 DEF AllEffect, Effect
<1>8. Full(u) \/ cache.hashMap \cup KeysUpTo(list, n + 1) \subseteq u.hashMap
  <2>1. CASE Full(c)
    BY <2>1, <1>6, <1>7, CacheAssumption DEF Full
  <2>2. CASE ~Full(c)
    BY <2>2, <1>3, <1>4 DEF AllEffect, Effect
  <2> QED
    BY <2>1, <2>2
<1>9. ASSUME Distinct(list), Len(list) <= Capacity
      PROVE  n + 1 <= Len(u.lruList) /\ \A j \in 1 .. n + 1 : u.lruList[j] = list[n + 1 + 1 - j]
  <2>1. n <= Len(c.lruList) /\ \A j \in 1 .. n : c.lruList[j] = list[n + 1 - j]
    BY <1>9 DEF AllEffect
  <2>2. n < Capacity /\ n \in 0 .. Len(c.lruList)
    BY <2>1, <1>6, <1>9, CacheAssumption
  <2>3. ASSUME NEW j \in 1 .. n PROVE c.lruList[j].key # e.key
    <3>1. n + 1 - j \in DOMAIN list /\ n + 1 - j # n + 1
      OBVIOUS
    <3>2. list[n + 1 - j].key # list[n + 1].key
      BY <3>1, <1>1, <1>9 DEF Distinct
    <3> QED
      BY <2>1, <3>2 DEF e
  <2>4. n + 1 <= Len(u.lruList) /\ \A j \in 1 .. n : u.lruList[j + 1] = c.lruList[j]
    BY <1>3, <2>2, <2>3 DEF Effect
  <2>5. u.lruList[1] = list[n + 1]
    BY <1>1, <1>3 DEF Effect, e
  <2>6. ASSUME NEW j \in 1 .. n + 1 PROVE u.lruList[j] = list[n + 1 + 1 - j]
    <3>1. CASE j = 1
      BY <3>1, <2>5
    <3>2. CASE j # 1
      <4>1. j - 1 \in 1 .. n /\ j - 1 + 1 = j /\ n + 1 - (j - 1) = n + 1 + 1 - j
        BY <3>2
      <4>2. u.lruList[j] = c.lruList[j - 1]
        BY <4>1, <2>4
      <4>3. c.lruList[j - 1] = list[n + 1 - (j - 1)]
        BY <4>1, <2>1
      <4> QED
        BY <4>1, <4>2, <4>3
    <3> QED
      BY <3>1, <3>2
  <2> QED
    BY <2>4, <2>6
<1> QED
  BY <1>5, <1>6, <1>7, <1>8, <1>9 DEF AllEffect

LEMMA SetAllEntries ==
    ASSUME NEW cache, Good(cache), NEW list \in Seq(Entries)
    PROVE  AllEffect(cache, list, Len(list), SetAll(cache, list))
<1>0. Len(list) \in Nat
  OBVIOUS
<1>1. PICK f : /\ SetAll(cache, list) = f[Len(list)]
               /\ f[0] = cache
               /\ \A k \in 1 .. Len(list) : f[k] = setLRUCache(f[k - 1], list[k].key, list[k].data)
  BY <1>0, SetAllWay
<1> DEFINE Bad == {m \in 0 .. Len(list) : ~AllEffect(cache, list, m, f[m])}
<1>2. SUFFICES ASSUME Bad # {} PROVE FALSE
  BY <1>0, <1>1
<1>3. Bad \subseteq 0 .. Len(list) /\ \A m \in Bad : ~AllEffect(cache, list, m, f[m])
  OBVIOUS
<1>4. \A m \in 0 .. Len(list) : m \notin Bad => AllEffect(cache, list, m, f[m])
  OBVIOUS
<1> HIDE DEF Bad
<1>5. PICK m \in Bad : \A l \in Bad : m <= l
  <2>1. Bad \subseteq Nat
    BY <1>3
  <2> QED
    BY <2>1, <1>2, LeastNatural
<1>6. m \in 0 .. Len(list)
  BY <1>3
<1>7. m # 0
  <2>1. KeysUpTo(list, 0) = {}
    BY DEF KeysUpTo
  <2>2. Len(cache.lruList) \in Nat
    BY DEF Good, Caches
  <2>3. AllEffect(cache, list, 0, cache)
    BY <2>1, <2>2 DEF AllEffect
  <2> QED
    BY <2>3, <1>1, <1>3
<1>8. m - 1 \in 0 .. Len(list) /\ m - 1 \in Nat /\ m - 1 < Len(list) /\ m - 1 + 1 = m
      /\ m \in 1 .. Len(list) /\ ~(m <= m - 1)
  BY <1>6, <1>7
<1>9. AllEffect(cache, list, m - 1, f[m - 1])
  BY <1>4, <1>5, <1>8
<1>10. f[m] = setLRUCache(f[m - 1], list[m - 1 + 1].key, list[m - 1 + 1].data)
  BY <1>1, <1>8
<1>11. AllEffect(cache, list, m - 1 + 1, f[m])
  BY <1>8, <1>9, <1>10, NextEntry
<1> QED
  BY <1>3, <1>8, <1>11

\* The same for one cache that is merged into another.
LEMMA Update ==
    ASSUME NEW cache, Good(cache), NEW rhs, Good(rhs)
    PROVE  LET u == update(cache, rhs) IN
           /\ Good(u) /\ Len(u.lruList) >= Len(cache.lruList)
           /\ u.hashMap \subseteq cache.hashMap \cup rhs.hashMap
           /\ Full(u) \/ cache.hashMap \cup rhs.hashMap \subseteq u.hashMap
           /\ Len(rhs.lruList) <= Len(u.lruList)
           /\ \A j \in 1 .. Len(rhs.lruList) : u.lruList[j] = rhs.lruList[Len(rhs.lruList) + 1 - j]
<1> DEFINE list == rhs.lruList
           u == SetAll(cache, list)
<1>1. list \in Seq(Entries) /\ Distinct(list) /\ Len(list) <= Capacity /\ rhs.hashMap = KeysOf(list)
  BY DEF Good, Caches
<1>2. KeysUpTo(list, Len(list)) = rhs.hashMap
  BY <1>1 DEF KeysUpTo, KeysOf
<1>3. update(cache, rhs) = u
  BY DEF update
<1> HIDE DEF list, u
<1>4. AllEffect(cache, list, Len(list), u)
  BY <1>1, SetAllEntries DEF u
<1> QED
  BY <1>1, <1>2, <1>3, <1>4 DEF AllEffect, list

-----------------------------------------------------------------------------
(* What is read back                                                       *)

\* The first n entries of the file, line by line.
Joined(f, seqs, n) == f = [i \in 1 .. n |-> IF i = 1 THEN seqs[i] ELSE f[i - 1] \o seqs[i]]

LEMMA JoinedExists ==
    ASSUME NEW seqs, NEW n \in Nat
    PROVE  \E f : Joined(f, seqs, n)
<1> DEFINE Bad == {m \in Nat : ~\E f : Joined(f, seqs, m)}
<1>1. SUFFICES ASSUME Bad # {} PROVE FALSE
  OBVIOUS
<1>2. Bad \subseteq Nat /\ \A m \in Bad : ~\E f : Joined(f, seqs, m)
  OBVIOUS
<1>3. \A m \in Nat : m \notin Bad => \E f : Joined(f, seqs, m)
  OBVIOUS
<1> HIDE DEF Bad
<1>4. PICK m \in Bad : \A l \in Bad : m <= l
  BY <1>1, <1>2, LeastNatural
<1>5. m # 0
  <2>1. Joined([i \in 1 .. 0 |-> seqs], seqs, 0)
    BY DEF Joined
  <2> QED
    BY <2>1, <1>2, <1>4
<1>6. m \in Nat /\ m - 1 \in Nat /\ m - 1 \notin Bad
  BY <1>2, <1>4, <1>5
<1>7. PICK f : Joined(f, seqs, m - 1)
  BY <1>3, <1>6
<1> DEFINE g == [i \in 1 .. m |-> IF i = m THEN IF m = 1 THEN seqs[1] ELSE f[m - 1] \o seqs[m] ELSE f[i]]
<1>8. \A i \in 1 .. m - 1 : f[i] = IF i = 1 THEN seqs[i] ELSE f[i - 1] \o seqs[i]
  BY <1>7 DEF Joined
<1>9. \A i \in 1 .. m - 1 : g[i] = f[i]
  BY <1>6
<1>10. g[m] = IF m = 1 THEN seqs[1] ELSE f[m - 1] \o seqs[m]
  BY <1>5, <1>6
<1>11. g = [i \in 1 .. m |-> g[i]]
  OBVIOUS
<1> HIDE DEF g
<1>12. ASSUME NEW i \in 1 .. m
       PROVE  g[i] = IF i = 1 THEN seqs[i] ELSE g[i - 1] \o seqs[i]
  <2>1. CASE i = m
    <3>1. m = 1 \/ m - 1 \in 1 .. m - 1
      BY <1>5, <1>6
    <3> QED
      BY <2>1, <3>1, <1>9, <1>10
  <2>2. CASE i # m
    <3>1. i \in 1 .. m - 1 /\ (i = 1 \/ i - 1 \in 1 .. m - 1)
      BY <2>2, <1>6
    <3>2. g[i] = f[i] /\ (i = 1 \/ g[i - 1] = f[i - 1])
      BY <3>1, <1>9
    <3> QED
      BY <3>1, <3>2, <1>8
  <2> QED
    BY <2>1, <2>2
<1>13. Joined(g, seqs, m)
  BY <1>11, <1>12 DEF Joined
<1> QED
  BY <1>2, <1>4, <1>13

LEMMA FlattenSeqEntries ==
    ASSUME NEW seqs \in Seq(Seq(Entries))
    PROVE  FlattenSeq(seqs) \in Seq(Entries)
<1>1. CASE Len(seqs) = 0
  <2>1. seqs = <<>>
    BY <1>1
  <2> QED
    BY <2>1 DEF FlattenSeq
<1>2. CASE Len(seqs) # 0
  <2> DEFINE f == CHOOSE f : Joined(f, seqs, Len(seqs))
  <2>1. FlattenSeq(seqs) = f[Len(seqs)]
    BY <1>2 DEF FlattenSeq, Joined
  <2>2. Joined(f, seqs, Len(seqs))
    <3>1. Len(seqs) \in Nat
      OBVIOUS
    <3> QED
      BY <3>1, JoinedExists
  <2> HIDE DEF f
  <2>3. \A i \in 1 .. Len(seqs) : f[i] = IF i = 1 THEN seqs[i] ELSE f[i - 1] \o seqs[i]
    BY <2>2 DEF Joined
  <2> DEFINE Bad == {m \in 1 .. Len(seqs) : f[m] \notin Seq(Entries)}
  <2>4. SUFFICES ASSUME Bad # {} PROVE FALSE
    <3>1. Len(seqs) \in 1 .. Len(seqs)
      BY <1>2
    <3> QED
      BY <2>1, <2>4, <3>1
  <2>5. Bad \subseteq 1 .. Len(seqs) /\ \A m \in Bad : f[m] \notin Seq(Entries)
    OBVIOUS
  <2>6. \A m \in 1 .. Len(seqs) : m \notin Bad => f[m] \in Seq(Entries)
    OBVIOUS
  <2> HIDE DEF Bad
  <2>7. PICK m \in Bad : \A l \in Bad : m <= l
    <3>1. Bad \subseteq Nat
      BY <2>5
    <3> QED
      BY <3>1, <2>4, LeastNatural
  <2>8. m \in 1 .. Len(seqs) /\ seqs[m] \in Seq(Entries)
    BY <2>5
  <2>9. CASE m = 1
    BY <2>9, <2>3, <2>5, <2>8
  <2>10. CASE m # 1
    <3>1. m - 1 \in 1 .. Len(seqs) /\ ~(m <= m - 1)
      BY <2>8, <2>10
    <3>2. f[m - 1] \in Seq(Entries)
      BY <3>1, <2>6, <2>7
    <3>3. f[m] = f[m - 1] \o seqs[m]
      BY <2>3, <2>8, <2>10
    <3>4. f[m - 1] \o seqs[m] \in Seq(Entries)
      <4>1. \A a, b \in Seq(Entries) : a \o b \in Seq(Entries)
        OBVIOUS
      <4> QED
        BY <3>2, <4>1, <2>8
    <3> QED
      BY <3>3, <3>4, <2>5
  <2> QED
    BY <2>9, <2>10
<1> QED
  BY <1>1, <1>2

LEMMA ReadBackEntries ==
    ASSUME NEW dumped \in Seq(Entries)
    PROVE  ReadBack(dumped) \in Seq(Entries)
<1> DEFINE seqs == [i \in DOMAIN dumped |-> Lines[dumped[i]]]
<1>1. \A i \in DOMAIN dumped : Lines[dumped[i]] \in Seq(Entries)
  BY ManagerAssumption
<1>2. seqs \in Seq(Seq(Entries))
  <2>1. DOMAIN dumped = 1 .. Len(dumped) /\ Len(dumped) \in Nat
    OBVIOUS
  <2>2. seqs \in [1 .. Len(dumped) -> Seq(Entries)]
    BY <2>1, <1>1
  <2> HIDE DEF seqs
  <2> QED
    BY <2>1, <2>2
<1> QED
  BY <1>2, FlattenSeqEntries DEF ReadBack

LEMMA StartGood ==
    ASSUME NEW dumped \in Seq(Entries)
    PROVE  Good(Duplicate(initFromFile(EmptyCache, dumped)))
<1>1. Good(initFromFile(EmptyCache, dumped))
  BY EmptyGood, ReadBackEntries, SetAllEntries DEF initFromFile, AllEffect
<1> QED
  BY <1>1, EmptyGood, Update DEF Duplicate

-----------------------------------------------------------------------------
(* How many keys                                                           *)

LEMMA CountKeys ==
    ASSUME NEW cache, Good(cache)
    PROVE  IsFiniteSet(cache.hashMap) /\ Cardinality(cache.hashMap) = Len(cache.lruList)
<1> DEFINE s == cache.lruList
           n == Len(s)
           f == [i \in 1 .. n |-> s[i].key]
<1>1. n \in Nat /\ DOMAIN s = 1 .. n /\ cache.hashMap = KeysOf(s) /\ Distinct(s)
  BY DEF Good, Caches
<1> HIDE DEF s, n
<1>2. f \in [1 .. n -> cache.hashMap]
  BY <1>1 DEF KeysOf
<1>3. f \in Injection(1 .. n, cache.hashMap)
  <2>1. \A i, j \in 1 .. n : f[i] = f[j] => i = j
    BY <1>1 DEF Distinct
  <2> HIDE DEF f
  <2> QED
    BY <2>1, <1>2 DEF Injection, IsInjective
<1>4. f \in Surjection(1 .. n, cache.hashMap)
  BY <1>1, <1>2 DEF Surjection, KeysOf
<1>5. ExistsBijection(1 .. n, cache.hashMap)
  BY <1>3, <1>4 DEF ExistsBijection, Bijection
<1>6. IsFiniteSet(1 .. n) /\ Cardinality(1 .. n) = n
  BY <1>1, FS_Interval
<1> QED
  BY <1>5, <1>6, FS_Bijection DEF n, s

\* A full cache with keys of a set that is no larger than a cache has them all.
LEMMA FullHasAll ==
    ASSUME NEW cache, Good(cache), Full(cache), NEW S, IsFiniteSet(S), Cardinality(S) <= Capacity,
           cache.hashMap \subseteq S
    PROVE  cache.hashMap = S
<1>1. Cardinality(cache.hashMap) = Capacity
  BY CountKeys DEF Full
<1>2. Cardinality(cache.hashMap) <= Cardinality(S) /\ Cardinality(S) \in Nat
  BY FS_Subset, FS_CardinalityType
<1>3. Cardinality(cache.hashMap) = Cardinality(S)
  BY <1>1, <1>2, CacheAssumption
<1> QED
  BY <1>3, FS_Subset

LEMMA AllKeysFinite ==
    ASSUME \A i \in Threads : Good(caches[i])
    PROVE  IsFiniteSet(AllKeys)
<1> DEFINE maps == {caches[i].hashMap : i \in Threads}
           f == [i \in Threads |-> caches[i].hashMap]
<1>1. f \in Surjection(Threads, maps)
  BY DEF Surjection
<1>2. IsFiniteSet(Threads)
  BY ManagerAssumption, FS_Interval DEF Threads
<1> HIDE DEF f
<1>3. IsFiniteSet(maps)
  BY <1>1, <1>2, FS_Surjection
<1>4. \A m \in maps : IsFiniteSet(m)
  BY CountKeys
<1> HIDE DEF maps
<1>5. IsFiniteSet(UNION maps)
  BY <1>3, <1>4, FS_UNION
<1> QED
  BY <1>5 DEF AllKeys, maps

-----------------------------------------------------------------------------
(* A round                                                                 *)

Alike(cache, temp) == ToSet(cache.lruList) = ToSet(temp.lruList)

\* The keys of the round are all in the cache, unless it is full.
HasAll(cache) == Full(cache) \/ held \subseteq cache.hashMap

\* temp is full or has every key there is: setting its entries leaves nothing
\* else in the other cache.
LEMMA SpreadAlike ==
    ASSUME NEW cache, Good(cache), NEW temp, Good(temp), HasAll(temp),
           cache.hashMap \subseteq held, temp.hashMap \subseteq held
    PROVE  Alike(update(cache, temp), temp)
<1> DEFINE u == update(cache, temp)
           s == u.lruList
           l == temp.lruList
           n == Len(l)
<1>1. /\ Good(u) /\ n <= Len(s)
      /\ u.hashMap \subseteq held
      /\ \A j \in 1 .. n : s[j] = l[n + 1 - j]
  BY Update
<1>2. /\ n \in Nat /\ Len(s) \in Nat /\ DOMAIN l = 1 .. n /\ DOMAIN s = 1 .. Len(s)
      /\ Len(s) <= Capacity /\ Distinct(s)
      /\ u.hashMap = KeysOf(s) /\ temp.hashMap = KeysOf(l)
  BY <1>1 DEF Good, Caches
<1> HIDE DEF u, s, l, n
<1>3. \A i \in 1 .. n : n + 1 - i \in 1 .. n /\ n + 1 - (n + 1 - i) = i
  BY <1>2
<1>4. ASSUME NEW i \in DOMAIN l PROVE l[i] \in {s[j] : j \in DOMAIN s}
  <2>1. n + 1 - i \in DOMAIN s /\ s[n + 1 - i] = l[i]
    BY <1>1, <1>2, <1>3
  <2> QED
    BY <2>1
<1>5. ASSUME NEW j \in DOMAIN s PROVE s[j] \in {l[i] : i \in DOMAIN l}
  <2>1. CASE j <= n
    <3>1. n + 1 - j \in DOMAIN l /\ s[j] = l[n + 1 - j]
      BY <2>1, <1>1, <1>2
    <3> QED
      BY <3>1
  <2>2. CASE j > n
    <3>1. ~Full(temp)
      BY <2>2, <1>2, CacheAssumption DEF Full, n, l
    <3>2. s[j].key \in KeysOf(l)
      BY <3>1, <1>1, <1>2 DEF HasAll, KeysOf
    <3>3. PICK i \in DOMAIN l : l[i].key = s[j].key
      BY <3>2 DEF KeysOf
    <3>4. n + 1 - i \in DOMAIN s /\ s[n + 1 - i] = l[i] /\ n + 1 - i <= n
      BY <1>1, <1>2, <1>3
    <3>5. n + 1 - i = j
      BY <3>3, <3>4, <1>2 DEF Distinct
    <3> QED
      BY <2>2, <3>4, <3>5, <1>2
  <2> QED
    BY <2>1, <2>2, <1>2
<1>6. {s[j] : j \in DOMAIN s} = {l[i] : i \in DOMAIN l}
  BY <1>4, <1>5
<1> QED
  BY <1>6 DEF Alike, ToSet, u, s, l

Stored ==
    /\ caches \in [Threads -> Caches] /\ \A i \in Threads : Good(caches[i])
    /\ file \in Seq(Entries) /\ at \in Nat \ {0}
    /\ pc \in {"off", "idle", "merge", "spread", "write"}

\* What a round knows of the keys that were there when it began: while it merges
\* they are in the first cache or in one to come, then in the first, from which
\* the caches behind the iterator have theirs.
Round ==
    /\ pc \in {"merge", "spread", "write"} =>
         IsFiniteSet(held) /\ \A i \in Threads : caches[i].hashMap \subseteq held
    /\ pc \in {"merge", "spread"} => at \in 2 .. CacheNum + 1
    /\ pc = "merge" =>
         \/ Full(caches[1])
         \/ \A k \in held : k \in caches[1].hashMap \/ \E i \in at .. CacheNum : k \in caches[i].hashMap
    /\ pc \in {"spread", "write"} => HasAll(caches[1])
    /\ pc = "spread" => \A i \in 2 .. at - 1 : Alike(caches[i], caches[1])
    /\ pc = "write" => \A i \in Threads : Alike(caches[i], caches[1])

LEMMA InitStored == Init => Stored /\ Round
<1> SUFFICES ASSUME Init PROVE Stored /\ Round
  OBVIOUS
<1>1. EmptyCache \in Caches
  BY EmptyGood DEF Good
<1> QED
  BY <1>1, EmptyGood DEF Init, Stored, Round

LEMMA ThreadsAre == 1 \in Threads /\ Threads = 1 .. CacheNum /\ CacheNum \in Nat
BY ManagerAssumption DEF Threads

\* One cache changes, and stays what it is.
LEMMA StoreOne ==
    ASSUME Stored, NEW i \in Threads, NEW u, Good(u), caches' = [caches EXCEPT ![i] = u],
           file' = file, at' \in Nat \ {0}, pc' \in {"off", "idle", "merge", "spread", "write"}
    PROVE  Stored' /\ caches'[i] = u /\ \A j \in Threads : j # i => caches'[j] = caches[j]
BY DEF Stored, Good

LEMMA StepStored == Stored /\ Round /\ [Next]_vars => Stored'
<1> SUFFICES ASSUME Stored, Round, [Next]_vars PROVE Stored'
  OBVIOUS
<1>1. CASE Start
  <2>1. Good(Duplicate(initFromFile(EmptyCache, file)))
    BY StartGood DEF Stored
  <2>2. \A i \in Threads : caches'[i] = Duplicate(initFromFile(EmptyCache, file))
    BY <1>1 DEF Start
  <2>3. caches' \in [Threads -> Caches]
    BY <1>1, <2>1 DEF Start, Good
  <2> QED
    BY <1>1, <2>1, <2>2, <2>3 DEF Start, Stored
<1>2. ASSUME NEW i \in Threads, NEW k \in Keys, NEW d \in Data, Set(i, k, d) PROVE Stored'
  <2>1. Good(setLRUCache(caches[i], k, d))
    BY SetLRUCache DEF Stored, Effect
  <2> QED
    BY <1>2, <2>1, StoreOne DEF Set, Stored
<1>3. ASSUME NEW i \in Threads, NEW k \in Keys, Get(i, k) PROVE Stored'
  <2>1. Good(getLRUCache(caches[i], k))
    BY <1>3, UpdateLRU DEF Stored, getLRUCache, Get
  <2> QED
    BY <1>3, <2>1, StoreOne DEF Get, Stored
<1>4. CASE Merge
  <2>1. at \in Threads /\ 1 \in Threads
    BY <1>4, ThreadsAre DEF Merge, Stored, Round
  <2>2. Good(update(caches[1], caches[at]))
    BY <2>1, Update DEF Stored
  <2>3. pc' = pc /\ file' = file /\ at' \in Nat \ {0} /\ caches' = [caches EXCEPT ![1] = update(caches[1], caches[at])]
    BY <1>4 DEF Merge, Stored
  <2> QED
    BY <2>1, <2>2, <2>3, StoreOne DEF Stored
<1>5. CASE Spread
  <2>1. at \in Threads /\ 1 \in Threads
    BY <1>5, ThreadsAre DEF Spread, Stored, Round
  <2>2. Good(update(caches[at], caches[1]))
    BY <2>1, Update DEF Stored
  <2>3. pc' = pc /\ file' = file /\ at' \in Nat \ {0} /\ caches' = [caches EXCEPT ![at] = update(caches[at], caches[1])]
    BY <1>5 DEF Spread, Stored
  <2> QED
    BY <2>1, <2>2, <2>3, StoreOne DEF Stored
<1>6. CASE BeginRound \/ Merged \/ DumpFails \/ EndRound \/ UNCHANGED vars
  BY <1>6 DEF BeginRound, Merged, DumpFails, EndRound, vars, Stored
<1>7. CASE OpenDump
  BY <1>7 DEF OpenDump, Stored
<1>8. CASE WriteEntry
  <2>1. caches[1].lruList \in Seq(Entries)
    BY ThreadsAre DEF Stored, Caches
  <2>2. at \in DOMAIN caches[1].lruList
    BY <1>8, <2>1 DEF WriteEntry, Stored
  <2>3. caches[1].lruList[at] \in Entries
    BY <2>1, <2>2
  <2> QED
    BY <1>8, <2>3 DEF WriteEntry, Stored
<1>9. CASE Kill
  BY <1>9, EmptyGood DEF Kill, Stored, Good
<1> QED
  BY <1>1, <1>2, <1>3, <1>4, <1>5, <1>6, <1>7, <1>8, <1>9 DEF Next, Use

LEMMA StepRound == Stored /\ Round /\ [Next]_vars => Round'
<1> SUFFICES ASSUME Stored, Round, [Next]_vars PROVE Round'
  OBVIOUS
<1>0. Stored'
  BY StepStored
<1>1. CASE Start \/ Use \/ DumpFails \/ EndRound \/ Kill
  BY <1>1 DEF Start, Use, Set, Get, DumpFails, EndRound, Kill, Round
<1>2. CASE BeginRound
  <2>1. pc' = "merge" /\ at' = 2 /\ held' = AllKeys /\ caches' = caches
    BY <1>2 DEF BeginRound
  <2>2. IsFiniteSet(AllKeys) /\ \A i \in Threads : caches[i].hashMap \subseteq AllKeys
    BY AllKeysFinite DEF Stored, AllKeys
  <2>3. ASSUME NEW k \in AllKeys
        PROVE  k \in caches[1].hashMap \/ \E i \in 2 .. CacheNum : k \in caches[i].hashMap
    <3>1. PICK i \in Threads : k \in caches[i].hashMap
      BY DEF AllKeys
    <3>2. i = 1 \/ i \in 2 .. CacheNum
      BY ThreadsAre
    <3> QED
      BY <3>1, <3>2
  <2>4. 2 \in 2 .. CacheNum + 1
    BY ManagerAssumption
  <2> QED
    BY <2>1, <2>2, <2>3, <2>4 DEF Round
<1>3. CASE Merge
  <2> DEFINE u == update(caches[1], caches[at])
  <2>1. at \in 2 .. CacheNum /\ at \in Threads /\ 1 \in Threads /\ at # 1 /\ at + 1 \in 2 .. CacheNum + 1
    BY <1>3, ThreadsAre DEF Merge, Stored, Round
  <2>2. pc = "merge" /\ pc' = "merge" /\ at' = at + 1 /\ held' = held /\ caches' = [caches EXCEPT ![1] = u]
    BY <1>3 DEF Merge
  <2>3. /\ Good(u) /\ Len(u.lruList) >= Len(caches[1].lruList)
        /\ u.hashMap \subseteq caches[1].hashMap \cup caches[at].hashMap
        /\ Full(u) \/ caches[1].hashMap \cup caches[at].hashMap \subseteq u.hashMap
    BY <2>1, Update DEF Stored
  <2> HIDE DEF u
  <2>4. caches'[1] = u /\ \A i \in Threads : i # 1 => caches'[i] = caches[i]
    BY <2>1, <2>2 DEF Stored
  <2>5. \A i \in Threads : caches'[i].hashMap \subseteq held
    BY <2>1, <2>2, <2>3, <2>4 DEF Round
  <2>6. \/ Full(u)
        \/ \A k \in held : k \in u.hashMap \/ \E i \in at + 1 .. CacheNum : k \in caches'[i].hashMap
    <3>1. CASE Full(caches[1])
      BY <3>1, <2>1, <2>3, CacheAssumption DEF Full, Good, Caches, Stored
    <3>2. CASE ~Full(caches[1]) /\ ~Full(u)
      <4> SUFFICES ASSUME NEW k \in held
                   PROVE  k \in u.hashMap \/ \E i \in at + 1 .. CacheNum : k \in caches'[i].hashMap
        OBVIOUS
      <4>1. k \in caches[1].hashMap \/ \E i \in at .. CacheNum : k \in caches[i].hashMap
        BY <3>2, <2>2 DEF Round
      <4>2. ASSUME NEW i \in at .. CacheNum, k \in caches[i].hashMap, i # at
            PROVE  i \in at + 1 .. CacheNum /\ k \in caches'[i].hashMap
        BY <4>2, <2>1, <2>4, ThreadsAre
      <4> QED
        BY <4>1, <4>2, <3>2, <2>3
    <3> QED
      BY <3>1, <3>2
  <2> QED
    BY <2>1, <2>2, <2>4, <2>5, <2>6 DEF Round, Full
<1>4. CASE Merged
  <2>1. pc = "merge" /\ pc' = "spread" /\ at' = 2 /\ held' = held /\ caches' = caches /\ at > CacheNum
    BY <1>4 DEF Merged
  <2>2. HasAll(caches[1])
    BY <2>1, ThreadsAre DEF Round, HasAll, Stored
  <2>3. 2 \in 2 .. CacheNum + 1 /\ 2 .. 2 - 1 = {}
    BY ManagerAssumption
  <2> QED
    BY <2>1, <2>2, <2>3 DEF Round, HasAll
<1>5. CASE Spread
  <2> DEFINE u == update(caches[at], caches[1])
  <2>1. at \in 2 .. CacheNum /\ at \in Threads /\ 1 \in Threads /\ at # 1 /\ at + 1 \in 2 .. CacheNum + 1
    BY <1>5, ThreadsAre DEF Spread, Stored, Round
  <2>2. pc = "spread" /\ pc' = "spread" /\ at' = at + 1 /\ held' = held /\ caches' = [caches EXCEPT ![at] = u]
    BY <1>5 DEF Spread
  <2>3. /\ Good(u) /\ u.hashMap \subseteq caches[at].hashMap \cup caches[1].hashMap
    BY <2>1, Update DEF Stored
  <2>4. Alike(u, caches[1])
    BY <2>1, <2>2, SpreadAlike DEF Stored, Round
  <2> HIDE DEF u
  <2>5. caches'[at] = u /\ \A i \in Threads : i # at => caches'[i] = caches[i]
    BY <2>1, <2>2 DEF Stored
  <2>6. \A i \in Threads : caches'[i].hashMap \subseteq held
    BY <2>1, <2>2, <2>3, <2>5 DEF Round
  <2>7. HasAll(caches[1]) /\ caches'[1] = caches[1]
    BY <2>1, <2>2, <2>5 DEF Round
  <2>8. ASSUME NEW i \in 2 .. at + 1 - 1 PROVE Alike(caches'[i], caches[1])
    <3>1. i = at \/ i \in 2 .. at - 1
      BY <2>1
    <3>2. i \in 2 .. at - 1 => i \in Threads /\ i # at
      BY <2>1, ThreadsAre
    <3> QED
      BY <3>1, <3>2, <2>2, <2>4, <2>5 DEF Round
  <2> QED
    BY <2>1, <2>2, <2>6, <2>7, <2>8 DEF Round, HasAll, Alike
<1>6. CASE OpenDump
  <2>1. pc = "spread" /\ pc' = "write" /\ held' = held /\ caches' = caches /\ at > CacheNum
    BY <1>6 DEF OpenDump
  <2>2. ASSUME NEW i \in Threads PROVE Alike(caches[i], caches[1])
    <3>1. i = 1 \/ i \in 2 .. at - 1
      BY <2>1, ThreadsAre DEF Stored
    <3> QED
      BY <3>1, <2>1 DEF Round, Alike
  <2> QED
    BY <2>1, <2>2 DEF Round, HasAll, Alike
<1>7. CASE WriteEntry \/ UNCHANGED vars
  BY <1>7 DEF WriteEntry, vars, Round, HasAll, Alike
<1> QED
  BY <1>1, <1>2, <1>3, <1>4, <1>5, <1>6, <1>7 DEF Next

LEMMA RoundInvariance == Spec => [](Stored /\ Round)
<1>1. Stored /\ Round /\ [Next]_vars => (Stored /\ Round)'
  BY StepStored, StepRound
<1> QED
  BY <1>1, InitStored, PTL DEF Spec

\* List and map of every cache agree (lrucache.cc:53-70 and 158-162), for caches
\* of any size, whatever keys and data are used, and files of whatever lines.
THEOREM MapsMatch == Spec => []MapMatchesList
<1>1. Stored => MapMatchesList
  BY MatchesGood DEF Stored
<1> QED
  BY <1>1, RoundInvariance, PTL

\* When a round comes to write the file all threads have the same entries
\* (cachemanager.cc:40-53), for any number of threads.
THEOREM RoundMakesAlike == Spec => []CachesAgree
<1>1. Round => CachesAgree
  BY DEF Round, Alike, CachesAgree
<1> QED
  BY <1>1, RoundInvariance, PTL

\* A round forgets no key that fits (cachemanager.cc:40-53).
THEOREM RoundKeepsKeys == Spec => []NothingForgotten
<1>1. Stored /\ Round => NothingForgotten
  <2> SUFFICES ASSUME Stored, Round, pc = "write", Cardinality(held) <= Capacity, NEW i \in Threads
               PROVE  caches[i].hashMap = held
    BY DEF NothingForgotten
  <2>1. IsFiniteSet(held) /\ HasAll(caches[1]) /\ Alike(caches[i], caches[1])
        /\ caches[1].hashMap \subseteq held
    BY ThreadsAre DEF Round
  <2>2. caches[1].hashMap = held
    BY <2>1, FullHasAll, ThreadsAre DEF HasAll, Stored
  <2>3. ASSUME NEW c, Good(c) PROVE c.hashMap = {e.key : e \in ToSet(c.lruList)}
    <3>1. c.hashMap = KeysOf(c.lruList)
      BY <2>3 DEF Good
    <3>2. \A s : KeysOf(s) = {e.key : e \in {s[j] : j \in DOMAIN s}}
      BY DEF KeysOf
    <3> QED
      BY <3>1, <3>2 DEF ToSet
  <2> QED
    BY <2>1, <2>2, <2>3, ThreadsAre DEF Stored, Alike
<1> QED
  BY <1>1, RoundInvariance, PTL

-----------------------------------------------------------------------------
(* The order of use                                                        *)

LEMMA FirstOfIs ==
    ASSUME NEW r \in Seq(Entries)
    PROVE  /\ FirstOf(r) \in Seq(Entries)
           /\ Len(FirstOf(r)) = IF Len(r) < Capacity THEN Len(r) ELSE Capacity
           /\ \A j \in 1 .. Len(FirstOf(r)) : FirstOf(r)[j] = r[j]
BY CacheAssumption DEF FirstOf

\* t is r with e in front of it; if i is a place of r, the entry there has left.
InFront(r, i, e, t) ==
    /\ i \in 1 .. Len(r) + 1
    /\ t \in Seq(Entries) /\ Len(t) = IF i = Len(r) + 1 THEN Len(r) + 1 ELSE Len(r)
    /\ t[1] = e
    /\ \A j \in 1 .. i - 1 : t[j + 1] = r[j]
    /\ \A j \in i + 1 .. Len(r) : t[j] = r[j]

\* The place of a key, behind the last if it has none.
Place(r, i, k) ==
    /\ i \in 1 .. Len(r) + 1
    /\ i \in DOMAIN r => r[i].key = k
    /\ i \notin DOMAIN r => \A j \in DOMAIN r : r[j].key # k

LEMMA UsedInFront ==
    ASSUME NEW r \in Seq(Entries), NEW e \in Entries
    PROVE  \E i : Place(r, i, e.key) /\ InFront(r, i, e, Used(r, e))
<1> DEFINE I == {i \in 1 .. Len(r) : r[i].key = e.key}
<1>1. CASE I = {}
  <2>1. Used(r, e) = <<e>> \o r
    BY <1>1 DEF Used, RemoveFirstMatch
  <2>2. /\ <<e>> \o r \in Seq(Entries) /\ Len(<<e>> \o r) = Len(r) + 1
        /\ (<<e>> \o r)[1] = e /\ \A j \in 1 .. Len(r) : (<<e>> \o r)[j + 1] = r[j]
    BY Pushed
  <2>3. Place(r, Len(r) + 1, e.key)
    BY <1>1 DEF Place
  <2>4. InFront(r, Len(r) + 1, e, Used(r, e))
    BY <2>1, <2>2 DEF InFront
  <2> QED
    BY <2>3, <2>4
<1>2. CASE I # {}
  <2> DEFINE i == Min(I)
  <2>1. Used(r, e) = <<e>> \o RemoveAt(r, i)
    BY <1>2 DEF Used, RemoveFirstMatch, SelectInSeq
  <2>2. i \in I
    <3>1. I \subseteq Nat
      OBVIOUS
    <3> HIDE DEF I
    <3>2. \E x \in I : \A y \in I : x <= y
      BY <3>1, <1>2, LeastNatural
    <3> QED
      BY <3>2 DEF Min
  <2> HIDE DEF i
  <2>3. i \in DOMAIN r /\ r[i].key = e.key
    BY <2>2
  <2> DEFINE t == <<e>> \o RemoveAt(r, i)
  <2>6. /\ t \in Seq(Entries) /\ Len(t) = Len(r) /\ t[1] = e
        /\ \A j \in 1 .. i - 1 : t[j + 1] = r[j]
        /\ \A j \in i + 1 .. Len(r) : t[j] = r[j]
    BY <2>3, Moved
  <2>7. Used(r, e) = t
    BY <2>1
  <2> HIDE DEF t
  <2>8. InFront(r, i, e, t)
    BY <2>3, <2>6 DEF InFront
  <2>9. Place(r, i, e.key)
    BY <2>3 DEF Place
  <2> QED
    BY <2>7, <2>8, <2>9
<1> QED
  BY <1>1, <1>2

LEMMA FrontDistinct ==
    ASSUME NEW r \in Seq(Entries), Distinct(r), NEW e \in Entries, NEW i, Place(r, i, e.key),
           NEW t, InFront(r, i, e, t)
    PROVE  Distinct(t)
<1>1. \A j \in DOMAIN r : j # i => r[j].key # e.key
  BY DEF Place, Distinct
<1>2. ASSUME NEW j \in DOMAIN t, j # 1
      PROVE  \E l \in DOMAIN r : l # i /\ t[j] = r[l] /\ l = IF j <= i THEN j - 1 ELSE j
  <2>1. CASE j <= i
    <3>1. j - 1 \in 1 .. i - 1 /\ j - 1 + 1 = j /\ j - 1 \in DOMAIN r
      BY <1>2, <2>1 DEF InFront
    <3> QED
      BY <2>1, <3>1 DEF InFront
  <2>2. CASE ~(j <= i)
    <3>1. j \in i + 1 .. Len(r)
      BY <1>2, <2>2 DEF InFront
    <3> QED
      BY <2>2, <3>1 DEF InFront
  <2> QED
    BY <2>1, <2>2
<1> SUFFICES ASSUME NEW j \in DOMAIN t, NEW l \in DOMAIN t, t[j].key = t[l].key PROVE j = l
  BY DEF Distinct
<1>3. t[1] = e
  BY DEF InFront
<1>4. CASE j = 1 \/ l = 1
  BY <1>1, <1>2, <1>3, <1>4
<1>5. CASE j # 1 /\ l # 1
  <2>1. PICK m \in DOMAIN r : m # i /\ t[j] = r[m] /\ m = IF j <= i THEN j - 1 ELSE j
    BY <1>2, <1>5
  <2>2. PICK n \in DOMAIN r : n # i /\ t[l] = r[n] /\ n = IF l <= i THEN l - 1 ELSE l
    BY <1>2, <1>5
  <2>3. m = n
    BY <2>1, <2>2 DEF Distinct
  <2>4. i \in Nat /\ j \in Nat /\ l \in Nat
    BY DEF InFront
  <2> QED
    BY <2>1, <2>2, <2>3, <2>4, <1>5
<1> QED
  BY <1>4, <1>5

\* The cache holds the first Capacity of the keys by last use.
Recent(cache, r) ==
    Good(cache) /\ r \in Seq(Entries) /\ Distinct(r) /\ cache.lruList = FirstOf(r)

\* The entry comes to the front of the cache as it does of the history: its place
\* is the same in both, or behind the end of the cache.
LEMMA FrontOfBoth ==
    ASSUME NEW cache, NEW r, Recent(cache, r), NEW e \in Entries,
           NEW u, Good(u), u.lruList[1] = e,
           \/ \E i \in DOMAIN cache.lruList :
                cache.lruList[i].key = e.key /\ InFront(cache.lruList, i, e, u.lruList)
           \/ /\ e.key \notin cache.hashMap
              /\ Len(u.lruList) = IF Full(cache) THEN Capacity ELSE Len(cache.lruList) + 1
              /\ \A j \in 1 .. Len(u.lruList) - 1 : u.lruList[j + 1] = cache.lruList[j]
    PROVE  Recent(u, Used(r, e))
<1> DEFINE s == cache.lruList
           l == u.lruList
           t == Used(r, e)
<1>1. /\ s \in Seq(Entries) /\ l \in Seq(Entries) /\ r \in Seq(Entries) /\ Distinct(r) /\ s = FirstOf(r)
      /\ cache.hashMap = KeysOf(s) /\ Len(l) \in Nat /\ Len(r) \in Nat
  BY DEF Recent, Good, Caches
<1>2. /\ Len(s) = IF Len(r) < Capacity THEN Len(r) ELSE Capacity
      /\ \A j \in 1 .. Len(s) : s[j] = r[j]
  BY <1>1, FirstOfIs
<1>3. PICK i : Place(r, i, e.key) /\ InFront(r, i, e, t)
  BY <1>1, UsedInFront
<1> HIDE DEF t
<1>4. t \in Seq(Entries) /\ Distinct(t)
  BY <1>1, <1>3, FrontDistinct DEF InFront
<1>5. /\ FirstOf(t) \in Seq(Entries)
      /\ Len(FirstOf(t)) = IF Len(t) < Capacity THEN Len(t) ELSE Capacity
      /\ \A j \in 1 .. Len(FirstOf(t)) : FirstOf(t)[j] = t[j]
  BY <1>4, FirstOfIs
<1>6. Len(FirstOf(t)) = Len(l) /\ \A j \in 1 .. Len(l) : l[j] = t[j]
  <2>1. CASE \E m \in DOMAIN s : s[m].key = e.key /\ InFront(s, m, e, l)
    <3>1. PICK m \in DOMAIN s : s[m].key = e.key /\ InFront(s, m, e, l)
      BY <2>1
    <3>2. m \in DOMAIN r /\ r[m].key = e.key /\ m \in 1 .. Len(s) /\ m \in 1 .. Len(r)
      BY <3>1, <1>1, <1>2, CacheAssumption
    <3>3. i = m
      BY <3>2, <1>1, <1>3 DEF Place, Distinct
    <3> HIDE DEF s, l
    <3>4. Len(t) = Len(r) /\ Len(l) = Len(s)
      BY <3>1, <3>2, <3>3, <1>1, <1>3 DEF InFront
    <3>5. ASSUME NEW j \in 1 .. Len(l) PROVE l[j] = t[j]
      <4>1. CASE j = 1
        BY <4>1, <3>1, <1>3 DEF InFront
      <4>2. CASE j # 1 /\ j <= m
        <5>1. j - 1 \in 1 .. m - 1 /\ j - 1 + 1 = j /\ j - 1 \in 1 .. Len(s)
          BY <4>2, <3>2
        <5>2. l[j] = s[j - 1] /\ t[j] = r[j - 1]
          BY <5>1, <3>1, <3>3, <1>3 DEF InFront
        <5> QED
          BY <5>1, <5>2, <1>2
      <4>3. CASE j > m
        <5>1. j \in m + 1 .. Len(s) /\ j \in m + 1 .. Len(r) /\ j \in 1 .. Len(s)
          BY <4>3, <3>2, <3>4, <1>1, <1>2, CacheAssumption
        <5> QED
          BY <5>1, <3>1, <3>3, <1>2, <1>3 DEF InFront
      <4> QED
        BY <4>1, <4>2, <4>3, <3>2
    <3> QED
      BY <3>4, <3>5, <1>2, <1>5, CacheAssumption
  <2>2. CASE /\ e.key \notin cache.hashMap
             /\ Len(l) = IF Full(cache) THEN Capacity ELSE Len(s) + 1
             /\ \A j \in 1 .. Len(l) - 1 : l[j + 1] = s[j]
    <3>1. \A j \in DOMAIN s : r[j].key # e.key
      BY <2>2, <1>1, <1>2 DEF KeysOf
    <3>2. Full(cache) <=> Len(s) = Capacity
      BY DEF Full
    <3> HIDE DEF s, l
    <3>3. i > Len(s) /\ i \in 1 .. Len(r) + 1
      BY <3>1, <1>1, <1>2, <1>3, CacheAssumption DEF Place
    <3>4. Len(t) = (IF i = Len(r) + 1 THEN Len(r) + 1 ELSE Len(r))
      BY <1>3 DEF InFront
    <3>5. Len(l) = IF Len(t) < Capacity THEN Len(t) ELSE Capacity
      BY <2>2, <3>2, <3>3, <3>4, <1>1, <1>2, CacheAssumption
    <3>6. Len(l) - 1 <= Len(s)
      BY <2>2, <3>2, <1>1, <1>2, CacheAssumption
    <3>7. ASSUME NEW j \in 1 .. Len(l) PROVE l[j] = t[j]
      <4>1. CASE j = 1
        BY <4>1, <1>3 DEF InFront, l
      <4>2. CASE j # 1
        <5>1. j - 1 \in 1 .. Len(l) - 1 /\ j - 1 + 1 = j /\ j - 1 \in 1 .. Len(s) /\ j - 1 \in 1 .. i - 1
          BY <4>2, <3>3, <3>6, <1>1
        <5>2. l[j] = s[j - 1]
          BY <5>1, <2>2
        <5>3. t[j] = r[j - 1]
          BY <5>1, <1>3 DEF InFront
        <5> QED
          BY <5>1, <5>2, <5>3, <1>2
      <4> QED
        BY <4>1, <4>2
    <3> QED
      BY <3>5, <3>7, <1>5
  <2> QED
    BY <2>1, <2>2
<1> HIDE DEF l
<1>7. FirstOf(t) = l
  BY <1>1, <1>5, <1>6
<1> QED
  BY <1>1, <1>4, <1>7 DEF Recent, l, t

LEMMA SetRecent ==
    ASSUME NEW cache, NEW r, Recent(cache, r), NEW k \in Keys, NEW d \in Data
    PROVE  Recent(setLRUCache(cache, k, d), Used(r, Entry(k, d)))
<1> DEFINE s == cache.lruList
           e == Entry(k, d)
           u == setLRUCache(cache, k, d)
<1>1. e \in Entries /\ e.key = k /\ Good(cache) /\ s \in Seq(Entries)
  BY DEF Recent, Entry, Entries, Good, Caches
<1>2. Effect(cache, k, d, u)
  BY <1>1, SetLRUCache
<1>3. Good(u) /\ u.lruList[1] = e
  BY <1>2 DEF Effect
<1>4. CASE k \in cache.hashMap
  <2> DEFINE i == Node(cache, k)
             c == [cache EXCEPT !.lruList[i].data = d]
  <2>1. /\ Good(c) /\ c.hashMap = cache.hashMap /\ Len(c.lruList) = Len(cache.lruList)
        /\ Node(c, k) = i /\ c.lruList[i] = e
        /\ \A j \in DOMAIN cache.lruList : j # i => c.lruList[j] = cache.lruList[j]
    BY <1>1, <1>4, DataSet
  <2>2. i \in DOMAIN s /\ s[i].key = k
    BY <1>1, <1>4, NodeIs
  <2>3. u = updateLRU(c, k)
    BY <1>4 DEF setLRUCache
  <2> HIDE DEF c, i, u, e
  <2>4. /\ Len(u.lruList) = Len(c.lruList)
        /\ u.lruList[1] = c.lruList[i]
        /\ \A j \in 1 .. i - 1 : u.lruList[j + 1] = c.lruList[j]
        /\ \A j \in i + 1 .. Len(c.lruList) : u.lruList[j] = c.lruList[j]
    BY <1>4, <2>1, <2>3, UpdateLRU
  <2>5. \A j \in 1 .. Len(s) : j # i => c.lruList[j] = s[j]
    BY <2>1, <1>1
  <2>6. InFront(s, i, e, u.lruList)
    <3>1. u.lruList \in Seq(Entries)
      BY <1>3 DEF Good, Caches
    <3>2. i \in 1 .. Len(s) /\ Len(s) \in Nat
      BY <1>1, <2>2
    <3>3. ASSUME NEW j \in 1 .. i - 1 PROVE u.lruList[j + 1] = s[j]
      <4>1. j \in 1 .. Len(s) /\ j # i
        BY <3>2
      <4> QED
        BY <4>1, <2>4, <2>5
    <3>4. ASSUME NEW j \in i + 1 .. Len(s) PROVE u.lruList[j] = s[j]
      <4>1. j \in 1 .. Len(s) /\ j # i /\ j \in i + 1 .. Len(c.lruList)
        BY <3>2, <2>1
      <4> QED
        BY <4>1, <2>4, <2>5
    <3> QED
      BY <3>1, <3>2, <3>3, <3>4, <2>1, <2>4 DEF InFront
  <2> QED
    BY <1>1, <1>3, <2>2, <2>6, FrontOfBoth DEF e, u
<1>5. CASE k \notin cache.hashMap
  <2>1. /\ Len(u.lruList) = IF Full(cache) THEN Capacity ELSE Len(s) + 1
        /\ \A n \in 0 .. Len(s) :
             n < Capacity /\ (\A j \in 1 .. n : s[j].key # k) =>
                n + 1 <= Len(u.lruList) /\ \A j \in 1 .. n : u.lruList[j + 1] = s[j]
    BY <1>2, <1>5 DEF Effect
  <2>2. Len(s) \in Nat /\ Len(s) <= Capacity /\ cache.hashMap = KeysOf(s)
    BY <1>1 DEF Good
  <2>3. \A j \in 1 .. Len(s) : s[j].key # k
    BY <1>1, <1>5, <2>2 DEF KeysOf
  <2> HIDE DEF s, u, e
  <2>4. Len(u.lruList) - 1 \in 0 .. Len(s) /\ Len(u.lruList) - 1 < Capacity
    <3>1. Full(cache) <=> Len(s) = Capacity
      BY DEF Full, s
    <3> QED
      BY <2>1, <2>2, <3>1, CacheAssumption
  <2>5. \A j \in 1 .. Len(u.lruList) - 1 : u.lruList[j + 1] = s[j]
    BY <2>1, <2>2, <2>3, <2>4
  <2> QED
    BY <1>1, <1>3, <1>5, <2>1, <2>5, FrontOfBoth DEF s, e, u
<1> QED
  BY <1>4, <1>5

LEMMA GetRecent ==
    ASSUME NEW cache, NEW r, Recent(cache, r), NEW k \in cache.hashMap
    PROVE  Recent(getLRUCache(cache, k), Used(r, cache.lruList[Node(cache, k)]))
<1> DEFINE s == cache.lruList
           i == Node(cache, k)
           u == getLRUCache(cache, k)
<1>1. Good(cache) /\ s \in Seq(Entries) /\ Len(s) \in Nat
  BY DEF Recent, Good, Caches
<1>2. i \in DOMAIN s /\ s[i] \in Entries /\ s[i].key = k
  BY <1>1, NodeIs
<1>3. /\ Good(u) /\ Len(u.lruList) = Len(s)
      /\ u.lruList[1] = s[i]
      /\ \A j \in 1 .. i - 1 : u.lruList[j + 1] = s[j]
      /\ \A j \in i + 1 .. Len(s) : u.lruList[j] = s[j]
  BY <1>1, UpdateLRU DEF getLRUCache
<1>4. u.lruList \in Seq(Entries)
  BY <1>3 DEF Good, Caches
<1> HIDE DEF i, u
<1>5. InFront(s, i, s[i], u.lruList)
  BY <1>1, <1>2, <1>3, <1>4 DEF InFront
<1> QED
  BY <1>2, <1>3, <1>5, FrontOfBoth DEF i, u

LEMMA UsedAllWay ==
    ASSUME NEW r \in Seq(Entries), NEW list \in Seq(Entries)
    PROVE  \E f : /\ UsedAll(r, list) = f[Len(list)]
                  /\ f[0] = r
                  /\ \A k \in 1 .. Len(list) : f[k] = Used(f[k - 1], list[k])
<1> DEFINE n == Len(list)
           Is(f) == f = [k \in 0 .. n |-> IF k = 0 THEN r ELSE Used(f[k - 1], list[k])]
           h == [k \in 1 .. n |-> [q \in Seq(Entries) |-> Used(q, list[k])]]
<1>1. n \in Nat
  OBVIOUS
<1>2. h \in [1 .. n -> [Seq(Entries) -> Seq(Entries)]]
  <2>1. ASSUME NEW k \in 1 .. n, NEW q \in Seq(Entries) PROVE Used(q, list[k]) \in Seq(Entries)
    <3>1. list[k] \in Entries
      OBVIOUS
    <3> QED
      BY <3>1, UsedInFront DEF InFront
  <2> QED
    BY <2>1
<1>3. \A k \in 1 .. n, q \in Seq(Entries) : h[k][q] = Used(q, list[k])
  OBVIOUS
<1> HIDE DEF n, h
<1>4. PICK f \in [0 .. n -> Seq(Entries)] : f[0] = r /\ \A k \in 1 .. n : f[k] = h[k][f[k - 1]]
  <2> DEFINE S == Seq(Entries)
  <2>1. r \in S /\ h \in [1 .. n -> [S -> S]]
    BY <1>2
  <2> HIDE DEF S
  <2>2. \E f : Recurs(f, S, r, n, h)
    BY <1>1, <2>1, Recursion
  <2> QED
    BY <2>2 DEF S, Recurs
<1>5. ASSUME NEW k \in 1 .. n PROVE f[k] = Used(f[k - 1], list[k])
  <2>1. k - 1 \in 0 .. n
    BY <1>1
  <2> QED
    BY <2>1, <1>3, <1>4
<1>6. Is(f)
  <2>1. f = [k \in 0 .. n |-> f[k]]
    BY <1>4
  <2>2. \A k \in 0 .. n : f[k] = IF k = 0 THEN r ELSE Used(f[k - 1], list[k])
    BY <1>1, <1>4, <1>5
  <2> QED
    BY <2>1, <2>2
<1> DEFINE g == CHOOSE g : Is(g)
<1>7. UsedAll(r, list) = g[n]
  BY DEF UsedAll, n
<1>8. Is(g)
  BY <1>6
<1> HIDE DEF g
<1>9. g[0] = r /\ \A k \in 1 .. n : g[k] = Used(g[k - 1], list[k])
  BY <1>1, <1>8
<1> QED
  BY <1>7, <1>9 DEF n

LEMMA SetAllRecent ==
    ASSUME NEW cache, NEW r, Recent(cache, r), NEW list \in Seq(Entries)
    PROVE  Recent(SetAll(cache, list), UsedAll(r, list))
<1> DEFINE n == Len(list)
<1>1. n \in Nat /\ r \in Seq(Entries)
  BY DEF Recent
<1>2. PICK f : /\ SetAll(cache, list) = f[n] /\ f[0] = cache
               /\ \A k \in 1 .. n : f[k] = setLRUCache(f[k - 1], list[k].key, list[k].data)
  BY <1>1, SetAllWay
<1>3. PICK g : /\ UsedAll(r, list) = g[n] /\ g[0] = r
               /\ \A k \in 1 .. n : g[k] = Used(g[k - 1], list[k])
  BY <1>1, UsedAllWay
<1>4. \A k \in 1 .. n : list[k].key \in Keys /\ list[k].data \in Data
                        /\ list[k] = Entry(list[k].key, list[k].data)
  <2>1. \A k \in 1 .. n : list[k] \in Entries
    OBVIOUS
  <2> HIDE DEF n
  <2> QED
    BY <2>1 DEF Entries, Entry
<1> HIDE DEF n
<1> DEFINE T == {k \in 0 .. n : Recent(f[k], g[k])}
<1>5. 0 \in T
  BY <1>1, <1>2, <1>3
<1>6. ASSUME NEW k \in 1 .. n, k - 1 \in T PROVE k \in T
  <2>1. Recent(f[k - 1], g[k - 1])
    BY <1>6
  <2>2. Recent(setLRUCache(f[k - 1], list[k].key, list[k].data),
               Used(g[k - 1], Entry(list[k].key, list[k].data)))
    BY <2>1, <1>4, SetRecent
  <2>3. Recent(f[k], g[k])
    BY <2>2, <1>2, <1>3, <1>4
  <2> QED
    BY <2>3, <1>1
<1> HIDE DEF T
<1>7. n \in T
  <2>1. \A k \in 1 .. n : k - 1 \in T => k \in T
    BY <1>6
  <2>2. \A k \in 0 .. n : k \in T
    BY <1>1, <1>5, <2>1, UpTo
  <2> QED
    BY <1>1, <2>2
<1> QED
  BY <1>7, <1>2, <1>3 DEF T

LEMMA UpdateRecent ==
    ASSUME NEW cache, NEW r, Recent(cache, r), NEW rhs, Good(rhs)
    PROVE  Recent(update(cache, rhs), UsedAll(r, rhs.lruList))
<1>1. rhs.lruList \in Seq(Entries)
  BY DEF Good, Caches
<1> QED
  BY <1>1, SetAllRecent DEF update

LEMMA EmptyRecent == Recent(EmptyCache, <<>>)
BY EmptyGood, CacheAssumption DEF Recent, Distinct, EmptyCache, FirstOf

\* What the file and its copies are made of.
LEMMA StartRecent ==
    ASSUME NEW dumped \in Seq(Entries)
    PROVE  /\ Recent(initFromFile(EmptyCache, dumped), UsedAll(<<>>, ReadBack(dumped)))
           /\ Recent(Duplicate(initFromFile(EmptyCache, dumped)),
                     UsedAll(<<>>, initFromFile(EmptyCache, dumped).lruList))
<1>1. Recent(initFromFile(EmptyCache, dumped), UsedAll(<<>>, ReadBack(dumped)))
  BY EmptyRecent, ReadBackEntries, SetAllRecent DEF initFromFile
<1>2. Good(initFromFile(EmptyCache, dumped))
  BY <1>1 DEF Recent
<1> HIDE DEF initFromFile
<1> QED
  BY <1>1, <1>2, EmptyRecent, UpdateRecent DEF Duplicate

AllRecent ==
    recent \in [Threads -> Seq(Entries)] /\ \A i \in Threads : Recent(caches[i], recent[i])

LEMMA RecentOne ==
    ASSUME Stored, AllRecent, NEW i \in Threads, NEW u, NEW r, Recent(u, r),
           caches' = [caches EXCEPT ![i] = u], recent' = [recent EXCEPT ![i] = r]
    PROVE  AllRecent'
<1>1. r \in Seq(Entries)
  BY DEF Recent
<1>2. recent' \in [Threads -> Seq(Entries)]
  BY <1>1 DEF AllRecent
<1>3. ASSUME NEW j \in Threads PROVE Recent(caches'[j], recent'[j])
  <2>1. CASE j = i
    BY <2>1 DEF AllRecent, Stored
  <2>2. CASE j # i
    BY <2>2 DEF AllRecent, Stored
  <2> QED
    BY <2>1, <2>2
<1> QED
  BY <1>2, <1>3 DEF AllRecent

LEMMA InitRecent == Init => AllRecent
<1> SUFFICES ASSUME Init PROVE AllRecent
  OBVIOUS
<1> QED
  BY EmptyRecent DEF Init, AllRecent

LEMMA StepRecent == Stored /\ Round /\ AllRecent /\ [Next]_vars => AllRecent'
<1> SUFFICES ASSUME Stored, Round, AllRecent, [Next]_vars PROVE AllRecent'
  OBVIOUS
<1>1. CASE Start
  <2> DEFINE l == initFromFile(EmptyCache, file)
  <2>1. Recent(Duplicate(l), UsedAll(<<>>, l.lruList))
    BY StartRecent DEF Stored
  <2>2. UsedAll(<<>>, l.lruList) \in Seq(Entries)
    BY <2>1 DEF Recent
  <2>3. /\ caches' = [i \in Threads |-> Duplicate(l)]
        /\ recent' = [i \in Threads |-> UsedAll(<<>>, l.lruList)]
    BY <1>1 DEF Start
  <2> HIDE DEF l
  <2> QED
    BY <2>1, <2>2, <2>3 DEF AllRecent
<1>2. ASSUME NEW i \in Threads, NEW k \in Keys, NEW d \in Data, Set(i, k, d) PROVE AllRecent'
  <2>1. Recent(setLRUCache(caches[i], k, d), Used(recent[i], Entry(k, d)))
    BY SetRecent DEF AllRecent
  <2> QED
    BY <1>2, <2>1, RecentOne DEF Set
<1>3. ASSUME NEW i \in Threads, NEW k \in Keys, Get(i, k) PROVE AllRecent'
  <2>1. Recent(getLRUCache(caches[i], k), Used(recent[i], caches[i].lruList[Node(caches[i], k)]))
    BY <1>3, GetRecent DEF AllRecent, Get
  <2> QED
    BY <1>3, <2>1, RecentOne DEF Get
<1>4. CASE Merge
  <2>1. at \in Threads /\ 1 \in Threads
    BY <1>4, ThreadsAre DEF Merge, Stored, Round
  <2>2. Recent(update(caches[1], caches[at]), UsedAll(recent[1], caches[at].lruList))
    BY <2>1, UpdateRecent DEF Stored, AllRecent
  <2> QED
    BY <1>4, <2>1, <2>2, RecentOne DEF Merge
<1>5. CASE Spread
  <2>1. at \in Threads /\ 1 \in Threads
    BY <1>5, ThreadsAre DEF Spread, Stored, Round
  <2>2. Recent(update(caches[at], caches[1]), UsedAll(recent[at], caches[1].lruList))
    BY <2>1, UpdateRecent DEF Stored, AllRecent
  <2> QED
    BY <1>5, <2>1, <2>2, RecentOne DEF Spread
<1>6. CASE BeginRound \/ Merged \/ OpenDump \/ DumpFails \/ WriteEntry \/ EndRound \/ UNCHANGED vars
  BY <1>6 DEF BeginRound, Merged, OpenDump, DumpFails, WriteEntry, EndRound, vars, AllRecent
<1>7. CASE Kill
  BY <1>7, EmptyRecent DEF Kill, AllRecent
<1> QED
  BY <1>1, <1>2, <1>3, <1>4, <1>5, <1>6, <1>7 DEF Next, Use

LEMMA RecentInvariance == Spec => [](Stored /\ Round /\ AllRecent)
<1>1. Init => Stored /\ Round /\ AllRecent
  BY InitStored, InitRecent
<1>2. Stored /\ Round /\ AllRecent /\ [Next]_vars => (Stored /\ Round /\ AllRecent)'
  BY StepStored, StepRound, StepRecent
<1> QED
  BY <1>1, <1>2, PTL DEF Spec

\* A cache holds the keys that were used last, in that order and with the data
\* last set, whatever has been evicted from it, merged into it or copied.
THEOREM LastUsedAreKept == Spec => []KeepsMostRecent
<1>1. AllRecent => KeepsMostRecent
  BY DEF AllRecent, Recent, KeepsMostRecent
<1> QED
  BY <1>1, RecentInvariance, PTL

LEMMA DuplicateReverses ==
    ASSUME NEW rhs, Good(rhs)
    PROVE  Duplicate(rhs).lruList = Reverse(rhs.lruList)
<1> DEFINE u == Duplicate(rhs)
           s == rhs.lruList
           n == Len(s)
<1>1. /\ Good(u) /\ u.hashMap \subseteq rhs.hashMap /\ n <= Len(u.lruList)
      /\ \A j \in 1 .. n : u.lruList[j] = s[n + 1 - j]
  <2>1. EmptyCache.hashMap = {}
    BY DEF EmptyCache
  <2> QED
    BY <2>1, EmptyGood, Update DEF Duplicate
<1> HIDE DEF u
<1>2. Len(u.lruList) = n
  <2>1. IsFiniteSet(rhs.hashMap) /\ Cardinality(rhs.hashMap) = n /\ Cardinality(u.hashMap) = Len(u.lruList)
    BY <1>1, CountKeys
  <2>2. Cardinality(u.hashMap) <= Cardinality(rhs.hashMap)
    BY <1>1, <2>1, FS_Subset
  <2>3. n \in Nat /\ Len(u.lruList) \in Nat
    BY <1>1 DEF Good, Caches
  <2> QED
    BY <1>1, <2>1, <2>2, <2>3
<1>3. u.lruList \in Seq(Entries) /\ s \in Seq(Entries) /\ n \in Nat
  BY <1>1 DEF Good, Caches
<1>4. \A j \in 1 .. n : n + 1 - j = n - j + 1
  BY <1>3
<1>5. u.lruList = [j \in 1 .. n |-> s[n - j + 1]]
  <2>1. u.lruList = [j \in 1 .. n |-> u.lruList[j]]
    BY <1>2, <1>3
  <2> HIDE DEF n, s
  <2> QED
    BY <2>1, <1>1, <1>4
<1> QED
  BY <1>5 DEF Reverse, u

\* Reading the file turns its order round and the copy constructor does so again
\* (lrucache.cc:29-36, cachemanager.cc:19-30): every thread begins with the entries
\* the file ends with, in the file's order, of any file.
THEOREM StartsInOrder == Spec => StartKeepsOrder
<1>1. Stored /\ [Next]_vars =>
        [Start => \A i \in Threads :
            caches'[i].lruList = Reverse(FirstOf(UsedAll(<<>>, ReadBack(file))))]_vars
  <2> SUFFICES ASSUME Stored, Start, NEW i \in Threads
               PROVE  caches'[i].lruList = Reverse(FirstOf(UsedAll(<<>>, ReadBack(file))))
    OBVIOUS
  <2> DEFINE l == initFromFile(EmptyCache, file)
  <2>1. Recent(l, UsedAll(<<>>, ReadBack(file)))
    BY StartRecent DEF Stored
  <2>2. caches'[i] = Duplicate(l)
    BY DEF Start
  <2> HIDE DEF l
  <2> QED
    BY <2>1, <2>2, DuplicateReverses DEF Recent
<1> QED
  BY <1>1, RoundInvariance, PTL DEF Spec, StartKeepsOrder
=============================================================================
