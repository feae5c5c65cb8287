---------------------------- MODULE LibraryProofs ----------------------------
(***************************************************************************)
(* Whatever items createlib is given, wherever a run of it ends and        *)
(* whenever the search engine is started: a library that is whole is       *)
(* served whole, and one that a single run has left in part is served as   *)
(* far as it goes.  dump's order of the three files is what this rests on: *)
(* where two are of one run, the one written first is whole.               *)
(***************************************************************************)
EXTENDS Library, FiniteSetTheorems, WellFoundedInduction, TLAPS

-----------------------------------------------------------------------------
(* Numbers                                                                 *)

\* Every inhabited set of naturals has a least element: the intervals below
\* its elements are finite sets, and those have one that is minimal.
LEMMA LeastNatural ==
    ASSUME NEW T, T \subseteq Nat, T # {}
    PROVE  \E m \in T : \A k \in T : m <= k
<1> DEFINE D == {1 .. m : m \in T}
<1>1. \A m \in Nat : 1 .. m \in FiniteSubsetsOf(Nat)
  BY FS_Interval DEF FiniteSubsetsOf
<1>2. D \subseteq FiniteSubsetsOf(Nat) /\ D # {}
  BY <1>1
<1> HIDE DEF D
<1>3. \E A \in D : \A B \in D : <<B, A>> \notin StrictSubsetOrdering(Nat)
  BY <1>2, FS_StrictSubsetOrderingWellFounded, WFMin
<1>4. PICK m \in T : \A k \in T : <<1 .. k, 1 .. m>> \notin StrictSubsetOrdering(Nat)
  BY <1>3 DEF D
<1>5. ASSUME NEW k \in T, k < m PROVE FALSE
  <2>1. 1 .. k \subseteq 1 .. m /\ m \in 1 .. m /\ m \notin 1 .. k
    BY <1>5
  <2>2. 1 .. k \in SUBSET Nat /\ 1 .. m \in SUBSET Nat
    OBVIOUS
  <2>3. <<1 .. k, 1 .. m>> \in StrictSubsetOrdering(Nat)
    BY <2>1, <2>2 DEF StrictSubsetOrdering
  <2> QED
    BY <1>4, <2>3
<1> QED
  BY <1>5

\* What holds of 0 and, with a number, of the next.
LEMMA UpTo ==
    ASSUME NEW n \in Nat, NEW T, 0 \in T, \A k \in 1 .. n : k - 1 \in T => k \in T
    PROVE  \A k \in 0 .. n : k \in T
<1> DEFINE Bad == (0 .. n) \ T
<1>1. SUFFICES ASSUME Bad # {} PROVE FALSE
  OBVIOUS
<1>2. PICK m \in Bad : \A l \in Bad : m <= l
  <2>1. Bad \subseteq Nat
    OBVIOUS
  <2> HIDE DEF Bad
  <2> QED
    BY <2>1, <1>1, LeastNatural
<1>3. m \in 1 .. n /\ m - 1 \in 0 .. n /\ m - 1 \notin Bad
  BY <1>2
<1> QED
  BY <1>2, <1>3

\* f is defined by recursion over the numbers up to n.
Recurs(f, S, base, n, h) ==
    f \in [0 .. n -> S] /\ f[0] = base /\ \A k \in 1 .. n : f[k] = h[k][f[k - 1]]

\* A recursion over numbers has a function that solves it.
LEMMA Recursion ==
    ASSUME NEW S, NEW base \in S, NEW n \in Nat, NEW h \in [1 .. n -> [S -> S]]
    PROVE  \E f : Recurs(f, S, base, n, h)
<1> DEFINE Is(f, m) ==
             f \in [0 .. m -> S] /\ f[0] = base /\ \A k \in 1 .. m : f[k] = h[k][f[k - 1]]
           T == {m \in 0 .. n : \E f : Is(f, m)}
<1>1. 0 \in T
  <2>1. Is([k \in 0 .. 0 |-> base], 0)
    OBVIOUS
  <2> HIDE DEF Is
  <2> QED
    BY <2>1
<1>2. ASSUME NEW m \in 1 .. n, m - 1 \in T PROVE m \in T
  <2>1. PICK f : Is(f, m - 1)
    BY <1>2
  <2> DEFINE g == [k \in 0 .. m |-> IF k = m THEN h[m][f[m - 1]] ELSE f[k]]
  <2>2. /\ m - 1 \in 0 .. m - 1 /\ f[m - 1] \in S /\ h[m][f[m - 1]] \in S
        /\ \A k \in 0 .. m : k # m => k \in 0 .. m - 1
        /\ \A k \in 1 .. m : k - 1 \in 0 .. m - 1 /\ k - 1 # m
    BY <2>1
  <2>3. g \in [0 .. m -> S] /\ g[0] = base /\ g[m] = h[m][f[m - 1]]
    BY <2>1, <2>2
  <2>6. \A k \in 0 .. m - 1 : g[k] = f[k]
    BY <2>2
  <2> HIDE DEF g
  <2>4. ASSUME NEW k \in 1 .. m PROVE g[k] = h[k][g[k - 1]]
    <3>1. g[k - 1] = f[k - 1]
      BY <2>2, <2>6
    <3>2. CASE k = m
      BY <3>1, <3>2, <2>3
    <3>3. CASE k # m
      <4>1. k \in 1 .. m - 1 /\ k \in 0 .. m - 1
        BY <3>3
      <4> QED
        BY <4>1, <3>1, <2>1, <2>6
    <3> QED
      BY <3>2, <3>3
  <2>5. Is(g, m)
    BY <2>3, <2>4
  <2> HIDE DEF Is
  <2> QED
    BY <2>5
<1> HIDE DEF T
<1>3. n \in T
  <2>1. \A k \in 1 .. n : k - 1 \in T => k \in T
    BY <1>2
  <2>2. \A k \in 0 .. n : k \in T
    BY <1>1, <2>1, UpTo
  <2> QED
    BY <2>2
<1> QED
  BY <1>3 DEF T, Recurs

-----------------------------------------------------------------------------
(* Sequences                                                               *)

\* What Only has kept of the first k elements.
KeptOf(q, seq, k, S) ==
    /\ Len(q) <= k
    /\ \A i \in DOMAIN q : \E j \in 1 .. k : q[i] = seq[j] /\ seq[j] \in S
    /\ \A j \in 1 .. k : seq[j] \in S => \E i \in DOMAIN q : q[i] = seq[j]

\* Only keeps the elements that are in the set, and no others.
LEMMA OnlyIs ==
    ASSUME NEW T, NEW seq \in Seq(T), NEW S
    PROVE  /\ Only(seq, S) \in Seq(T) /\ Len(Only(seq, S)) <= Len(seq)
           /\ Range(Only(seq, S)) = Range(seq) \cap S
<1> DEFINE n == Len(seq)
           Q == Seq(T)
           Step(k, q) == IF seq[k] \in S THEN Append(q, seq[k]) ELSE q
           Is(f) == f = [k \in 0 .. n |-> IF k = 0 THEN <<>>
                                         ELSE IF seq[k] \in S THEN Append(f[k - 1], seq[k]) ELSE f[k - 1]]
           h == [k \in 1 .. n |-> [q \in Q |-> Step(k, q)]]
<1>1. n \in Nat /\ DOMAIN seq = 1 .. n /\ \A k \in 1 .. n : seq[k] \in T
  OBVIOUS
<1>2. <<>> \in Q
  OBVIOUS
<1>3. \A k \in 1 .. n, q \in Q : Step(k, q) \in Q
  BY <1>1
<1>4. h \in [1 .. n -> [Q -> Q]] /\ \A k \in 1 .. n, q \in Q : h[k][q] = Step(k, q)
  <2> HIDE DEF Step, n, Q
  <2> QED
    BY <1>3
<1> HIDE DEF h, n, Q
<1>5. PICK f : Recurs(f, Q, <<>>, n, h)
  BY <1>1, <1>2, <1>4, Recursion
<1>6. /\ f \in [0 .. n -> Q] /\ f[0] = <<>>
      /\ \A k \in 1 .. n : f[k] = Step(k, f[k - 1]) /\ f[k - 1] \in Q
  <2>1. \A k \in 1 .. n : k - 1 \in 0 .. n
    BY <1>1
  <2> HIDE DEF Step
  <2> QED
    BY <2>1, <1>4, <1>5 DEF Recurs
<1>7. Is(f)
  <2>1. f = [k \in 0 .. n |-> f[k]]
    BY <1>6
  <2>2. ASSUME NEW k \in 0 .. n
        PROVE  f[k] = IF k = 0 THEN <<>>
                      ELSE IF seq[k] \in S THEN Append(f[k - 1], seq[k]) ELSE f[k - 1]
    <3>1. CASE k = 0
      BY <3>1, <1>6
    <3>2. CASE k # 0
      <4>1. k \in 1 .. n
        BY <3>2
      <4> QED
        BY <3>2, <4>1, <1>6
    <3> QED
      BY <3>1, <3>2
  <2> QED
    BY <2>1, <2>2
<1> DEFINE g == CHOOSE g : Is(g)
<1>8. Only(seq, S) = g[n]
  BY DEF Only, n
<1>9. Is(g)
  BY <1>7
<1> HIDE DEF g
<1>10. g[0] = <<>> /\ \A k \in 1 .. n : g[k] = Step(k, g[k - 1])
  <2>1. 0 \in 0 .. n /\ \A k \in 1 .. n : k \in 0 .. n /\ k # 0
    BY <1>1
  <2>2. g[0] = <<>>
    BY <2>1, <1>9
  <2>3. ASSUME NEW k \in 1 .. n PROVE g[k] = Step(k, g[k - 1])
    BY <2>1, <1>9
  <2> QED
    BY <2>2, <2>3
<1> DEFINE K == {k \in 0 .. n : g[k] \in Q /\ KeptOf(g[k], seq, k, S)}
<1>11. 0 \in K
  BY <1>1, <1>2, <1>10 DEF KeptOf
<1>12. ASSUME NEW k \in 1 .. n, k - 1 \in K PROVE k \in K
  <2> DEFINE q == g[k - 1]
  <2>1. q \in Seq(T) /\ KeptOf(q, seq, k - 1, S) /\ k \in 0 .. n /\ g[k] = Step(k, q)
    BY <1>1, <1>10, <1>12 DEF Q
  <2> HIDE DEF q
  <2>2. \A j \in 1 .. k : j = k \/ j \in 1 .. k - 1
    BY <1>1
  <2>3. CASE seq[k] \notin S
    <3>1. g[k] = q
      BY <2>1, <2>3
    <3>2. KeptOf(q, seq, k, S)
      BY <2>1, <2>2, <2>3, <1>1 DEF KeptOf
    <3> QED
      BY <2>1, <3>1, <3>2 DEF Q
  <2>4. CASE seq[k] \in S
    <3> DEFINE r == Append(q, seq[k])
    <3>1. /\ r \in Seq(T) /\ Len(r) = Len(q) + 1 /\ r[Len(q) + 1] = seq[k]
          /\ DOMAIN r = 1 .. Len(q) + 1 /\ DOMAIN q = 1 .. Len(q) /\ Len(q) \in Nat
          /\ \A i \in DOMAIN q : r[i] = q[i]
      BY <1>1, <2>1
    <3>2. g[k] = r
      BY <2>1, <2>4
    <3> HIDE DEF r
    <3>3. Len(r) <= k
      BY <1>1, <2>1, <3>1 DEF KeptOf
    <3>4. ASSUME NEW i \in DOMAIN r PROVE \E j \in 1 .. k : r[i] = seq[j] /\ seq[j] \in S
      <4>1. CASE i = Len(q) + 1
        BY <4>1, <1>1, <2>4, <3>1
      <4>2. CASE i # Len(q) + 1
        <5>1. i \in DOMAIN q
          BY <4>2, <3>1
        <5>2. PICK j \in 1 .. k - 1 : q[i] = seq[j] /\ seq[j] \in S
          BY <5>1, <2>1 DEF KeptOf
        <5> QED
          BY <5>1, <5>2, <1>1, <3>1
      <4> QED
        BY <4>1, <4>2
    <3>5. ASSUME NEW j \in 1 .. k, seq[j] \in S PROVE \E i \in DOMAIN r : r[i] = seq[j]
      <4>1. CASE j = k
        <5>1. Len(q) + 1 \in DOMAIN r
          BY <3>1
        <5> QED
          BY <4>1, <5>1, <3>1
      <4>2. CASE j # k
        <5>1. PICK i \in DOMAIN q : q[i] = seq[j]
          BY <4>2, <3>5, <2>1, <2>2 DEF KeptOf
        <5>2. i \in DOMAIN r
          BY <3>1
        <5> QED
          BY <5>1, <5>2, <3>1
      <4> QED
        BY <4>1, <4>2
    <3>6. KeptOf(r, seq, k, S)
      BY <3>3, <3>4, <3>5 DEF KeptOf
    <3> QED
      BY <2>1, <3>1, <3>2, <3>6 DEF Q
  <2> QED
    BY <2>3, <2>4
<1> HIDE DEF K
<1>13. n \in K
  <2>1. \A k \in 1 .. n : k - 1 \in K => k \in K
    BY <1>12
  <2>2. \A k \in 0 .. n : k \in K
    BY <1>1, <1>11, <2>1, UpTo
  <2> QED
    BY <1>1, <2>2
<1>14. g[n] \in Seq(T) /\ KeptOf(g[n], seq, n, S)
  BY <1>13 DEF K, Q
<1>15. Range(g[n]) = Range(seq) \cap S
  <2> DEFINE q == g[n]
  <2>1. /\ \A i \in DOMAIN q : \E j \in DOMAIN seq : q[i] = seq[j] /\ seq[j] \in S
        /\ \A j \in DOMAIN seq : seq[j] \in S => \E i \in DOMAIN q : q[i] = seq[j]
    BY <1>1, <1>14 DEF KeptOf
  <2> HIDE DEF q
  <2>2. Range(q) \subseteq Range(seq) \cap S
    BY <2>1 DEF Range
  <2>3. Range(seq) \cap S \subseteq Range(q)
    BY <2>1 DEF Range
  <2> QED
    BY <2>2, <2>3 DEF q
<1> QED
  BY <1>8, <1>14, <1>15 DEF KeptOf, n

-----------------------------------------------------------------------------
(* What a run writes                                                       *)

\* What deduplication has made of the first k articles.
Deduped(q, articles, k) ==
    /\ q \in Seq(Items) /\ Len(q) \in 1 .. k
    /\ \A d \in DOMAIN q : \E i \in 1 .. k : q[d] = articles[i]
    /\ \A d, e \in DOMAIN q : d # e => ~Near(q[d].hash, q[e].hash)
    /\ \A i \in 1 .. k : \E d \in DOMAIN q : Near(q[d].hash, articles[i].hash)

\* The first article is the first page.
LEMMA DedupedFirst ==
    ASSUME NEW articles \in Seq(Items), articles # <<>>
    PROVE  Deduped(<<articles[1]>>, articles, 1)
<1> DEFINE q == <<articles[1]>>
<1>1. /\ articles[1] \in Items /\ q \in Seq(Items) /\ Len(q) = 1 /\ DOMAIN q = {1}
      /\ q[1] = articles[1] /\ 1 .. 1 = {1}
  OBVIOUS
<1> HIDE DEF q
<1>2. Near(articles[1].hash, articles[1].hash)
  BY <1>1, NearAssumption
<1> QED
  BY <1>1, <1>2 DEF Deduped, q

\* An article near a page is dropped, any other is a page that is near none.
LEMMA DedupedNext ==
    ASSUME NEW articles \in Seq(Items), NEW k \in 2 .. Len(articles),
           NEW q, Deduped(q, articles, k - 1)
    PROVE  Deduped(IF Known(q, articles[k]) THEN q ELSE Append(q, articles[k]), articles, k)
<1> DEFINE a == articles[k]
<1>1. /\ a \in Items /\ q \in Seq(Items) /\ Len(q) \in 1 .. k - 1 /\ Len(q) \in Nat
      /\ DOMAIN q = 1 .. Len(q) /\ \A d \in DOMAIN q : q[d] \in Items
  <2>1. a \in Items
    OBVIOUS
  <2> HIDE DEF a
  <2>2. q \in Seq(Items) /\ Len(q) \in 1 .. k - 1
    BY DEF Deduped
  <2> QED
    BY <2>1, <2>2
<1>2. \A i \in 1 .. k : i \in 1 .. k - 1 \/ i = k
  OBVIOUS
<1>3. \A i \in 1 .. k - 1 : i \in 1 .. k
  OBVIOUS
<1> HIDE DEF a
<1>4. CASE Known(q, a)
  <2>1. \E d \in DOMAIN q : Near(q[d].hash, a.hash)
    BY <1>4 DEF Known
  <2>2. \A i \in 1 .. k : \E d \in DOMAIN q : Near(q[d].hash, articles[i].hash)
    BY <2>1, <1>2 DEF Deduped, a
  <2>3. Deduped(q, articles, k)
    BY <2>2, <1>1, <1>3 DEF Deduped
  <2> QED
    BY <1>4, <2>3 DEF a
<1>5. CASE ~Known(q, a)
  <2> DEFINE r == Append(q, a)
  <2>1. /\ r \in Seq(Items) /\ Len(r) = Len(q) + 1 /\ DOMAIN r = 1 .. Len(q) + 1
        /\ r[Len(q) + 1] = a /\ \A d \in DOMAIN q : r[d] = q[d] /\ d \in DOMAIN r
    BY <1>1
  <2> HIDE DEF r
  <2>2. \A d \in DOMAIN r : d \in DOMAIN q \/ d = Len(q) + 1
    BY <1>1, <2>1
  <2>3. \A d \in DOMAIN q : ~Near(q[d].hash, a.hash)
    BY <1>5 DEF Known
  <2>4. \A d \in DOMAIN q : ~Near(a.hash, q[d].hash)
    BY <2>3, <1>1, NearAssumption
  <2>5. ASSUME NEW d \in DOMAIN r, NEW e \in DOMAIN r, d # e PROVE ~Near(r[d].hash, r[e].hash)
    <3>1. CASE d \in DOMAIN q /\ e \in DOMAIN q
      <4>1. ~Near(q[d].hash, q[e].hash)
        BY <3>1, <2>5 DEF Deduped
      <4> QED
        BY <3>1, <4>1, <2>1
    <3>2. CASE d \in DOMAIN q /\ e = Len(q) + 1
      BY <3>2, <2>1, <2>3
    <3>3. CASE d = Len(q) + 1 /\ e \in DOMAIN q
      BY <3>3, <2>1, <2>4
    <3> QED
      BY <3>1, <3>2, <3>3, <2>2, <2>5
  <2>6. ASSUME NEW d \in DOMAIN r PROVE \E i \in 1 .. k : r[d] = articles[i]
    <3>1. CASE d \in DOMAIN q
      <4>1. PICK i \in 1 .. k - 1 : q[d] = articles[i]
        BY <3>1 DEF Deduped
      <4> QED
        BY <3>1, <4>1, <1>3, <2>1
    <3>2. CASE d = Len(q) + 1
      <4>1. k \in 1 .. k
        OBVIOUS
      <4> QED
        BY <3>2, <4>1, <2>1 DEF a
    <3> QED
      BY <3>1, <3>2, <2>2
  <2>7. ASSUME NEW i \in 1 .. k PROVE \E d \in DOMAIN r : Near(r[d].hash, articles[i].hash)
    <3>1. CASE i = k
      <4>1. Near(a.hash, a.hash) /\ Len(q) + 1 \in DOMAIN r
        BY <1>1, <2>1, NearAssumption
      <4> QED
        BY <3>1, <4>1, <2>1 DEF a
    <3>2. CASE i \in 1 .. k - 1
      <4>1. PICK d \in DOMAIN q : Near(q[d].hash, articles[i].hash)
        BY <3>2 DEF Deduped
      <4> QED
        BY <4>1, <2>1
    <3> QED
      BY <3>1, <3>2, <1>2
  <2>8. Len(r) \in 1 .. k
    BY <1>1, <2>1
  <2>9. Deduped(r, articles, k)
    BY <2>1, <2>5, <2>6, <2>7, <2>8 DEF Deduped
  <2> QED
    BY <1>5, <2>9 DEF a, r
<1> QED
  BY <1>4, <1>5

\* deduplication, by recursion over the articles (rssreader.cc:156-178).
LEMMA Deduplication ==
    ASSUME NEW articles \in Seq(Items), articles # <<>>
    PROVE  Deduped(deduplication(articles), articles, Len(articles))
<1> DEFINE n == Len(articles)
           Step(k, q) == IF Known(q, articles[k]) THEN q ELSE Append(q, articles[k])
           Is(f) == f = [k \in DOMAIN articles |->
                            IF k = 1 THEN <<articles[1]>>
                            ELSE IF Known(f[k - 1], articles[k]) THEN f[k - 1]
                            ELSE Append(f[k - 1], articles[k])]
           Q == Seq(Items)
           h == [k \in 1 .. n - 1 |-> [q \in Q |-> Step(k + 1, q)]]
<1>1. n \in Nat \ {0} /\ n - 1 \in Nat /\ DOMAIN articles = 1 .. n /\ \A k \in 1 .. n : articles[k] \in Items
  OBVIOUS
<1>2. <<articles[1]>> \in Q
  <2>1. articles[1] \in Items
    BY <1>1
  <2> QED
    BY <2>1
<1>3. \A k \in 1 .. n - 1, q \in Q : Step(k + 1, q) \in Q
  <2> SUFFICES ASSUME NEW k \in 1 .. n - 1, NEW q \in Q PROVE Step(k + 1, q) \in Q
    OBVIOUS
  <2>1. articles[k + 1] \in Items
    BY <1>1
  <2> QED
    BY <2>1
<1>4. h \in [1 .. n - 1 -> [Q -> Q]] /\ \A k \in 1 .. n - 1, q \in Q : h[k][q] = Step(k + 1, q)
  <2> HIDE DEF Step, n, Q
  <2> QED
    BY <1>3
<1> HIDE DEF h, n, Q, Step
<1>5. PICK f : Recurs(f, Q, <<articles[1]>>, n - 1, h)
  <2> DEFINE b == <<articles[1]>>
             m == n - 1
  <2>1. b \in Q /\ m \in Nat /\ h \in [1 .. m -> [Q -> Q]]
    BY <1>1, <1>2, <1>4
  <2> HIDE DEF b, m
  <2>2. \E f : Recurs(f, Q, b, m, h)
    BY <2>1, Recursion
  <2> QED
    BY <2>2 DEF b, m
<1>6. /\ f[0] = <<articles[1]>>
      /\ \A k \in 1 .. n - 1 : f[k] = Step(k + 1, f[k - 1])
  <2>1. \A k \in 1 .. n - 1 : k - 1 \in 0 .. n - 1
    BY <1>1
  <2> QED
    BY <2>1, <1>4, <1>5 DEF Recurs
<1> DEFINE g == [k \in 1 .. n |-> f[k - 1]]
<1>7. Is(g)
  <2>1. g = [k \in DOMAIN articles |-> g[k]]
    BY <1>1
  <2>2. ASSUME NEW k \in DOMAIN articles
        PROVE  g[k] = IF k = 1 THEN <<articles[1]>>
                      ELSE IF Known(g[k - 1], articles[k]) THEN g[k - 1]
                      ELSE Append(g[k - 1], articles[k])
    <3>1. CASE k = 1
      BY <3>1, <1>1, <1>6
    <3>2. CASE k # 1
      <4>1. k - 1 \in 1 .. n - 1 /\ k - 1 + 1 = k /\ k \in 1 .. n /\ k - 1 \in 1 .. n
        BY <3>2, <1>1
      <4>2. g[k] = f[k - 1] /\ g[k - 1] = f[k - 1 - 1]
        BY <4>1
      <4>3. f[k - 1] = Step(k, f[k - 1 - 1])
        BY <4>1, <1>6
      <4> HIDE DEF g
      <4> QED
        BY <3>2, <4>2, <4>3 DEF Step
    <3> QED
      BY <3>1, <3>2
  <2> HIDE DEF g
  <2> QED
    BY <2>1, <2>2
<1> DEFINE new == CHOOSE new : Is(new)
<1>8. deduplication(articles) = new[n]
  BY DEF deduplication, n
<1>9. Is(new)
  <2> HIDE DEF g
  <2> QED
    BY <1>7
<1> HIDE DEF new
<1>10. new[1] = <<articles[1]>> /\ \A k \in 2 .. n : new[k] = Step(k, new[k - 1])
  <2>1. 1 \in DOMAIN articles /\ \A k \in 2 .. n : k \in DOMAIN articles /\ k # 1
    BY <1>1
  <2>2. new[1] = <<articles[1]>>
    BY <2>1, <1>9
  <2>3. ASSUME NEW k \in 2 .. n PROVE new[k] = Step(k, new[k - 1])
    BY <2>1, <1>9 DEF Step
  <2> QED
    BY <2>2, <2>3
<1> DEFINE K == {k \in 0 .. n - 1 : Deduped(new[k + 1], articles, k + 1)}
<1>11. 0 \in K
  <2>1. Deduped(new[1], articles, 1) /\ 0 + 1 = 1 /\ 0 \in 0 .. n - 1
    BY <1>1, <1>10, DedupedFirst
  <2> QED
    BY <2>1
<1>12. ASSUME NEW k \in 1 .. n - 1, k - 1 \in K PROVE k \in K
  <2>1. k + 1 \in 2 .. n /\ k - 1 + 1 = k + 1 - 1 /\ k \in 0 .. n - 1
    BY <1>1
  <2>2. Deduped(new[k + 1 - 1], articles, k + 1 - 1)
    BY <1>12, <2>1
  <2>3. new[k + 1] = Step(k + 1, new[k + 1 - 1])
    BY <2>1, <1>10
  <2>4. Deduped(new[k + 1], articles, k + 1)
    <3> DEFINE m == k + 1
               q == new[m - 1]
    <3>1. m \in 2 .. Len(articles) /\ Deduped(q, articles, m - 1) /\ new[m] = Step(m, q)
      BY <2>1, <2>2, <2>3 DEF n
    <3> HIDE DEF m, q
    <3>2. Deduped(Step(m, q), articles, m)
      BY <3>1, DedupedNext DEF Step
    <3> QED
      BY <3>1, <3>2 DEF m
  <2> QED
    BY <2>1, <2>4
<1> HIDE DEF K
<1>13. n - 1 \in K
  <2> DEFINE m == n - 1
  <2>1. m \in Nat /\ \A k \in 1 .. m : k - 1 \in K => k \in K
    BY <1>1, <1>12
  <2> HIDE DEF m
  <2>2. \A k \in 0 .. m : k \in K
    BY <1>11, <2>1, UpTo
  <2>3. m \in 0 .. m
    BY <2>1
  <2> QED
    BY <2>2, <2>3 DEF m
<1>14. Deduped(new[n], articles, n)
  <2>1. n - 1 + 1 = n
    BY <1>1
  <2> QED
    BY <1>13, <2>1 DEF K
<1> QED
  BY <1>8, <1>14 DEF n

\* The pages of a run that came to dump.
LEMMA PagesAre ==
    ASSUME NEW items \in Corpora, ~Fatal(items)
    PROVE  LET pages == Pages(items) IN
           /\ pages \in Seq(Items) /\ Len(pages) \in 1 .. Len(items)
           /\ \A d, e \in DOMAIN pages : d # e => ~Near(pages[d].hash, pages[e].hash)
           /\ \A i \in DOMAIN items : Wanted(items[i]) => \E d \in DOMAIN pages : Near(pages[d].hash, items[i].hash)
<1> DEFINE articles == parseRss(items)
           pages == deduplication(articles)
           S == {x \in Range(items) : Wanted(x)}
<1>1. items \in Seq(Items) /\ Len(items) \in Nat /\ DOMAIN items = 1 .. Len(items)
  BY CorporaAssumption
<1>2. /\ articles \in Seq(Items) /\ Len(articles) <= Len(items)
      /\ Range(articles) = Range(items) \cap S
  <2> HIDE DEF S
  <2>1. articles = Only(items, S)
    BY DEF parseRss, S
  <2> HIDE DEF articles
  <2> QED
    BY <2>1, <1>1, OnlyIs
<1>3. articles # <<>>
  BY DEF Fatal
<1> HIDE DEF articles
<1>4. Deduped(pages, articles, Len(articles))
  BY <1>2, <1>3, Deduplication
<1> HIDE DEF pages
<1>5. pages \in Seq(Items) /\ Len(pages) \in 1 .. Len(items)
  <2>1. Len(articles) \in Nat
    BY <1>2
  <2> QED
    BY <2>1, <1>1, <1>2, <1>4 DEF Deduped
<1>6. ASSUME NEW i \in DOMAIN items, Wanted(items[i]) PROVE \E d \in DOMAIN pages : Near(pages[d].hash, items[i].hash)
  <2>1. items[i] \in Range(items) \cap S
    BY <1>6 DEF Range
  <2>2. PICK j \in DOMAIN articles : articles[j] = items[i]
    BY <2>1, <1>2 DEF Range
  <2>3. j \in 1 .. Len(articles)
    BY <1>2
  <2> QED
    BY <2>2, <2>3, <1>4 DEF Deduped
<1> QED
  BY <1>4, <1>5, <1>6 DEF Deduped, pages, articles, Pages

-----------------------------------------------------------------------------
\* The ends of the pages.
LEMMA Ends ==
    ASSUME NEW pages \in Seq(Items)
    PROVE  \E end \in [0 .. Len(pages) -> Nat] :
             /\ end[0] = 0
             /\ \A d \in 1 .. Len(pages) : /\ Offset(pages, d) = end[d - 1]
                                           /\ end[d] = end[d - 1] + Length(pages, d)
                                           /\ Length(pages, d) \in Nat \ {0}
<1> DEFINE n == Len(pages)
           Is(f) == f = [k \in 0 .. n |-> IF k = 0 THEN 0 ELSE f[k - 1] + pages[k].size]
           h == [k \in 1 .. n |-> [x \in Nat |-> x + pages[k].size]]
<1>1. n \in Nat /\ \A k \in 1 .. n : pages[k] \in Items
  OBVIOUS
<1>2. \A k \in 1 .. n : pages[k].size \in Nat \ {0}
  BY <1>1, CorporaAssumption
<1> HIDE DEF n
<1>3. h \in [1 .. n -> [Nat -> Nat]] /\ \A k \in 1 .. n, x \in Nat : h[k][x] = x + pages[k].size
  BY <1>2
<1> HIDE DEF h
<1>4. PICK f : Recurs(f, Nat, 0, n, h)
  BY <1>1, <1>3, Recursion
<1>5. Is(f)
  <2>1. f \in [0 .. n -> Nat] /\ f = [k \in 0 .. n |-> f[k]]
    BY <1>4 DEF Recurs
  <2>2. ASSUME NEW k \in 0 .. n PROVE f[k] = IF k = 0 THEN 0 ELSE f[k - 1] + pages[k].size
    <3>1. CASE k = 0
      BY <3>1, <1>4 DEF Recurs
    <3>2. CASE k # 0
      <4>1. k \in 1 .. n /\ k - 1 \in 0 .. n
        BY <3>2, <1>1
      <4> QED
        BY <3>2, <4>1, <2>1, <1>3, <1>4 DEF Recurs
    <3> QED
      BY <3>1, <3>2
  <2> QED
    BY <2>1, <2>2
<1> DEFINE end == CHOOSE end : Is(end)
<1>6. \A d : Offset(pages, d) = end[d - 1]
  BY DEF Offset, n
<1>7. Is(end)
  BY <1>5
<1> HIDE DEF end
<1>8. end[0] = 0 /\ \A k \in 1 .. n : end[k] = end[k - 1] + pages[k].size
  <2>1. 0 \in 0 .. n /\ \A k \in 1 .. n : k \in 0 .. n /\ k # 0
    BY <1>1
  <2> QED
    BY <2>1, <1>7
<1> DEFINE K == {k \in 0 .. n : end[k] \in Nat}
<1>9. 0 \in K /\ \A k \in 1 .. n : k - 1 \in K => k \in K
  <2>1. 0 \in K
    BY <1>1, <1>8
  <2>2. ASSUME NEW k \in 1 .. n, k - 1 \in K PROVE k \in K
    <3>1. end[k] = end[k - 1] + pages[k].size /\ end[k - 1] \in Nat /\ pages[k].size \in Nat /\ k \in 0 .. n
      BY <2>2, <1>1, <1>2, <1>8
    <3> QED
      BY <3>1
  <2> QED
    BY <2>1, <2>2
<1> HIDE DEF K
<1>10. \A k \in 0 .. n : k \in K
  BY <1>1, <1>9, UpTo
<1>11. end \in [0 .. n -> Nat]
  <2>1. \A k \in 0 .. n : end[k] \in Nat
    BY <1>10 DEF K
  <2>2. end = [k \in 0 .. n |-> IF k = 0 THEN 0 ELSE end[k - 1] + pages[k].size]
    BY <1>7
  <2> QED
    BY <2>1, <2>2
<1> QED
  BY <1>2, <1>6, <1>8, <1>11 DEF Length, n

\* No page reaches past the last: the pieces of each are among those of all.
LEMMA PiecesInside ==
    ASSUME NEW pages \in Seq(Items), NEW d \in DOMAIN pages
    PROVE  /\ Pieces(pages, d) \subseteq 1 .. Offset(pages, Len(pages)) + Length(pages, Len(pages))
           /\ Pieces(pages, d) # {}
<1> DEFINE n == Len(pages)
<1>1. n \in Nat /\ d \in 1 .. n /\ n \in 1 .. n
  OBVIOUS
<1>2. PICK end \in [0 .. n -> Nat] :
             /\ end[0] = 0
             /\ \A k \in 1 .. n : /\ Offset(pages, k) = end[k - 1]
                                  /\ end[k] = end[k - 1] + Length(pages, k)
                                  /\ Length(pages, k) \in Nat \ {0}
  BY Ends
<1> HIDE DEF n
<1> DEFINE K == {k \in 0 .. n : d <= k => end[d] <= end[k]}
<1>3. 0 \in K /\ \A k \in 1 .. n : k - 1 \in K => k \in K
  <2>1. 0 \in K
    BY <1>1
  <2>2. ASSUME NEW k \in 1 .. n, k - 1 \in K, d <= k PROVE end[d] <= end[k]
    <3>1. CASE d = k
      BY <3>1, <1>1, <1>2
    <3>2. CASE d # k
      <4>1. d <= k - 1 /\ k - 1 \in 0 .. n /\ d \in 0 .. n /\ k \in 0 .. n
        BY <3>2, <2>2, <1>1
      <4>2. end[d] <= end[k - 1] /\ end[k] = end[k - 1] + Length(pages, k) /\ Length(pages, k) \in Nat
        BY <2>2, <4>1, <1>2
      <4>3. end[d] \in Nat /\ end[k] \in Nat /\ end[k - 1] \in Nat
        BY <4>1, <1>2
      <4> QED
        BY <4>2, <4>3
    <3> QED
      BY <3>1, <3>2
  <2> QED
    BY <2>1, <2>2, <1>1
<1> HIDE DEF K
<1>4. \A k \in 0 .. n : k \in K
  BY <1>1, <1>3, UpTo
<1>5. end[d] <= end[n]
  BY <1>1, <1>4 DEF K
<1>6. /\ Offset(pages, d) \in Nat /\ Length(pages, d) \in Nat \ {0}
      /\ Offset(pages, d) + Length(pages, d) = end[d] /\ end[d] \in Nat
      /\ Offset(pages, n) + Length(pages, n) = end[n] /\ end[n] \in Nat
  BY <1>1, <1>2
<1>7. Offset(pages, d) + 1 \in Pieces(pages, d)
  BY <1>6 DEF Pieces
<1>8. \A u \in Pieces(pages, d) : u \in 1 .. Offset(pages, n) + Length(pages, n)
  BY <1>5, <1>6 DEF Pieces
<1> QED
  BY <1>7, <1>8 DEF n

-----------------------------------------------------------------------------
(* The files                                                               *)

IsFile(f, file) ==
    \/ file = None
    \/ /\ file = [run |-> file.run, part |-> file.part] /\ file.run \in Dumps
       /\ file.part \subseteq Content(f, runs[file.run])

Types ==
    /\ runs \in Seq(Corpora) /\ Len(runs) <= MaxRuns
    /\ builder \in Files \union {"idle"} /\ opened \in BOOLEAN /\ disturbed \in BOOLEAN
    /\ server \in {"down", "pages", "offsets", "serving", "dead"}
    /\ disk = [f \in Files |-> disk[f]] /\ loaded = [f \in Files |-> loaded[f]]
    /\ \A f \in Files : IsFile(f, disk[f]) /\ IsFile(f, loaded[f])

WholeFile(f, file) == file.part = Content(f, runs[file.run])

\* dump writes the offsets after the pages and the index after both: where two
\* files are of one run, the one written first is whole.
Ordered(files) ==
    /\ files["offsets"].run <= files["pages"].run /\ files["index"].run <= files["pages"].run
    /\ \A f \in {"offsets", "index"} :
         files[f].run # 0 /\ files[f].run = files["pages"].run => WholeFile("pages", files["pages"])
    /\ files["index"].run # 0 /\ files["index"].run = files["offsets"].run => WholeFile("offsets", files["offsets"])

\* What createlib has behind and before it when it is at a file.
Earlier == [f \in Files |-> CASE f = "pages" -> {} [] f = "offsets" -> {"pages"} [] f = "index" -> {"pages", "offsets"}]
Later == [f \in Files |-> CASE f = "pages" -> {"offsets", "index"} [] f = "offsets" -> {"index"} [] f = "index" -> {}]

Building ==
    /\ opened => builder # "idle" /\ disk[builder].run = Len(runs)
    /\ builder # "idle" =>
         /\ Len(runs) \in Dumps
         /\ ~opened => disk[builder].run < Len(runs)
         /\ \A f \in Later[builder] : disk[f].run < Len(runs)
         /\ builder # "pages" => disk["pages"].run = Len(runs)
         /\ \A f \in Earlier[builder] : disk[f].run = Len(runs) => WholeFile(f, disk[f])

\* What the search engine makes of the files.
Cut(files, pages) ==
    [d \in files["offsets"].part |-> [run |-> files["pages"].run, part |-> files["pages"].part \cap Pieces(pages, d)]]
Postings(files) == {<<files["index"].run, p[1], p[2]>> : p \in files["index"].part}

Loaded == pageLib = Cut(loaded, Pages(runs[loaded["offsets"].run]))

Loading ==
    /\ server \in {"down", "pages"} => pageLib = NoPages
    /\ server \in {"down", "pages", "offsets"} => index = {}
    /\ ~disturbed =>
         /\ server \in {"pages", "offsets"} =>
              builder = "idle" /\ loaded = disk /\ pagelib = loaded["pages"] /\ loaded["pages"] # None
         /\ server = "offsets" => loaded["offsets"] # None /\ Loaded
         /\ server = "serving" /\ (loaded["pages"] = None \/ loaded["offsets"] = None) => pageLib = NoPages /\ index = {}
         /\ server = "serving" /\ loaded["pages"] # None /\ loaded["offsets"] # None => Loaded /\ index = Postings(loaded)
         /\ server = "dead" => loaded["offsets"] # None /\ \E f \in Files : loaded[f].run \notin {0, loaded["offsets"].run}

IInv == Types /\ Ordered(disk) /\ Ordered(loaded) /\ Building /\ Loading

-----------------------------------------------------------------------------
(* The invariant holds at first and is kept                                *)

\* The order of dump, file by file.
LEMMA FilesAre ==
    /\ After["pages"] = "offsets" /\ After["offsets"] = "index" /\ After["index"] = "idle"
    /\ AfterFailure["pages"] = "idle" /\ AfterFailure["offsets"] = "index" /\ AfterFailure["index"] = "idle"
    /\ Earlier["pages"] = {} /\ Earlier["offsets"] = {"pages"} /\ Earlier["index"] = {"pages", "offsets"}
    /\ Later["pages"] = {"offsets", "index"} /\ Later["offsets"] = {"index"} /\ Later["index"] = {}
BY DEF After, AfterFailure, Earlier, Later, Files

\* A file that does not exist is of run 0, which is none.
LEMMA NoFile == None.run = 0 /\ None.part = {}
BY DEF None

\* The numbers of runs, and what is at 0.
LEMMA RunsAre ==
    ASSUME Types
    PROVE  /\ Len(runs) \in Nat /\ DOMAIN runs = 1 .. Len(runs) /\ Dumps \subseteq 1 .. Len(runs)
           /\ \A run \in Dumps : run # 0 /\ runs[run] \in Corpora /\ ~Fatal(runs[run])
           /\ \A f \in Files :
                /\ disk[f].run \in Dumps \union {0} /\ (disk[f].run = 0 => disk[f] = None)
                /\ loaded[f].run \in Dumps \union {0} /\ (loaded[f].run = 0 => loaded[f] = None)
                /\ disk[f] = [run |-> disk[f].run, part |-> disk[f].part]
                /\ disk[f].run \in 0 .. Len(runs)
<1>1. Len(runs) \in Nat /\ DOMAIN runs = 1 .. Len(runs) /\ \A run \in DOMAIN runs : runs[run] \in Corpora
  BY DEF Types
<1>2. Dumps \subseteq 1 .. Len(runs) /\ \A run \in Dumps : run # 0 /\ runs[run] \in Corpora /\ ~Fatal(runs[run])
  BY <1>1 DEF Dumps
<1>3. ASSUME NEW f \in Files, NEW file, IsFile(f, file)
      PROVE  /\ file.run \in Dumps \union {0} /\ (file.run = 0 => file = None)
             /\ file = [run |-> file.run, part |-> file.part]
  BY <1>2, <1>3, NoFile DEF IsFile, None
<1>4. \A f \in Files : IsFile(f, disk[f]) /\ IsFile(f, loaded[f])
  BY DEF Types
<1>5. \A run \in Dumps \union {0} : run \in 0 .. Len(runs)
  BY <1>1, <1>2
<1> QED
  BY <1>1, <1>2, <1>3, <1>4, <1>5

\* The invariant holds before anything has run.
LEMMA InitIInv == Init => IInv
<1> SUFFICES ASSUME Init PROVE IInv
  OBVIOUS
<1>1. \A f \in Files : disk[f] = None /\ loaded[f] = None
  BY DEF Init
<1>2. "pages" \in Files /\ "offsets" \in Files /\ "index" \in Files
  BY DEF Files
<1>3. Types
  <2>1. runs \in Seq(Corpora) /\ Len(runs) = 0
    BY DEF Init
  <2>2. disk = [f \in Files |-> disk[f]] /\ loaded = [f \in Files |-> loaded[f]]
    BY DEF Init
  <2>3. Len(runs) <= MaxRuns
    BY <2>1, MaxRunsAssumption
  <2>4. /\ builder \in Files \union {"idle"} /\ opened \in BOOLEAN /\ disturbed \in BOOLEAN
        /\ server \in {"down", "pages", "offsets", "serving", "dead"}
    BY DEF Init
  <2>5. \A f \in Files : IsFile(f, disk[f]) /\ IsFile(f, loaded[f])
    BY <1>1 DEF IsFile
  <2> QED
    BY <2>1, <2>2, <2>3, <2>4, <2>5 DEF Types
<1>4. Ordered(disk) /\ Ordered(loaded)
  BY <1>1, <1>2, NoFile DEF Ordered
<1>5. Building
  BY DEF Init, Building
<1>6. Loading
  BY DEF Init, Loading
<1> QED
  BY <1>3, <1>4, <1>5, <1>6 DEF IInv

\* A further run leaves the earlier ones, and what they wrote, as they were.
LEMMA BeginKeeps ==
    ASSUME Types, NEW items \in Corpora, Begin(items)
    PROVE  /\ runs' \in Seq(Corpora) /\ Len(runs') = Len(runs) + 1 /\ Len(runs') <= MaxRuns
           /\ runs'[Len(runs')] = items /\ DOMAIN runs' = 1 .. Len(runs')
           /\ \A run \in Dumps : run \in Dumps' /\ runs'[run] = runs[run]
           /\ \A f \in Files : \A file : IsFile(f, file) => IsFile(f, file)'
           /\ \A f \in Files : \A file : file.run \in Dumps => (WholeFile(f, file)' <=> WholeFile(f, file))
<1>1. runs \in Seq(Corpora) /\ Len(runs) \in Nat /\ runs' = Append(runs, items) /\ Len(runs) < MaxRuns
  BY DEF Begin, Types
<1>2. /\ runs' \in Seq(Corpora) /\ Len(runs') = Len(runs) + 1
      /\ runs'[Len(runs')] = items /\ DOMAIN runs' = 1 .. Len(runs')
      /\ \A run \in DOMAIN runs : run \in DOMAIN runs' /\ runs'[run] = runs[run]
  BY <1>1
<1>3. \A run \in Dumps : run \in Dumps' /\ runs'[run] = runs[run]
  BY <1>2 DEF Dumps
<1>4. \A f \in Files : \A file : IsFile(f, file) => IsFile(f, file)'
  BY <1>3 DEF IsFile
<1>5. \A f \in Files : \A file : file.run \in Dumps => (WholeFile(f, file)' <=> WholeFile(f, file))
  BY <1>3 DEF WholeFile
<1>6. Len(runs') <= MaxRuns
  BY <1>1, <1>2, MaxRunsAssumption
<1> QED
  BY <1>2, <1>3, <1>4, <1>5, <1>6

\* A step that starts no run leaves what was said of files and of runs.
LEMMA SameRuns ==
    ASSUME runs' = runs
    PROVE  /\ Dumps' = Dumps
           /\ \A f \in Files : \A file : IsFile(f, file)' <=> IsFile(f, file)
           /\ \A f \in Files : \A file : WholeFile(f, file)' <=> WholeFile(f, file)
<1>1. Dumps' = Dumps
  BY DEF Dumps
<1> QED
  BY <1>1 DEF IsFile, WholeFile

\* And a step that leaves the files as they are, their types.
LEMMA SameFiles ==
    ASSUME Types, Ordered(disk), Ordered(loaded), UNCHANGED <<runs, disk>>, loaded' \in {loaded, disk}
    PROVE  /\ Ordered(disk)' /\ Ordered(loaded)'
           /\ disk' = [f \in Files |-> disk'[f]] /\ loaded' = [f \in Files |-> loaded'[f]]
           /\ \A f \in Files : IsFile(f, disk[f])' /\ IsFile(f, loaded[f])'
<1>1. "pages" \in Files /\ "offsets" \in Files /\ "index" \in Files
  BY DEF Files
<1>2. Ordered(disk)' /\ Ordered(loaded)'
  BY <1>1, SameRuns DEF Ordered
<1>3. disk' = [f \in Files |-> disk'[f]] /\ loaded' = [f \in Files |-> loaded'[f]]
  BY DEF Types
<1>4. \A f \in Files : IsFile(f, disk[f])' /\ IsFile(f, loaded[f])'
  BY SameRuns DEF Types
<1> QED
  BY <1>2, <1>3, <1>4

\* A run that begins disturbs a loading and touches no file.
LEMMA BeginStep == ASSUME IInv, NEW items \in Corpora, Begin(items) PROVE IInv'
<1>1. Types /\ Ordered(disk) /\ Ordered(loaded) /\ Building /\ Loading
  BY DEF IInv
<1>2. "pages" \in Files /\ "offsets" \in Files /\ "index" \in Files
  BY DEF Files
<1>3. /\ builder = "idle" /\ UNCHANGED <<disk, opened, server, libraryVars>>
      /\ builder' = IF HasArticles(items) THEN "pages" ELSE "idle"
      /\ disturbed' = (disturbed \/ server \in {"pages", "offsets"})
  BY DEF Begin
<1>4. pagelib' = pagelib /\ pageLib' = pageLib /\ index' = index /\ loaded' = loaded
  BY <1>3 DEF libraryVars
<1>5. Types'
  <2>1. builder' \in Files \union {"idle"} /\ disturbed' \in BOOLEAN
    BY <1>1, <1>2, <1>3 DEF Types
  <2>2. \A f \in Files : IsFile(f, disk[f])' /\ IsFile(f, loaded[f])'
    BY <1>1, <1>3, <1>4, BeginKeeps DEF Types
  <2> QED
    BY <1>1, <1>3, <1>4, <2>1, <2>2, BeginKeeps DEF Types
<1>6. Ordered(disk)' /\ Ordered(loaded)'
  BY <1>1, <1>2, <1>3, <1>4, RunsAre, BeginKeeps DEF Ordered
<1>7. Building'
  <2>1. opened' = FALSE
    BY <1>1, <1>3 DEF Building, Types
  <2>2. SUFFICES ASSUME builder' # "idle"
                 PROVE  /\ Len(runs') \in Dumps' /\ disk'["pages"].run < Len(runs')
                        /\ \A f \in Later["pages"] : disk'[f].run < Len(runs')
                        /\ Earlier["pages"] = {} /\ builder' = "pages"
    BY <2>1 DEF Building
  <2>3. Len(runs') \in Dumps'
    BY <1>1, <1>3, <2>2, BeginKeeps, RunsAre DEF Dumps, HasArticles
  <2>4. \A f \in Files : disk'[f].run < Len(runs')
    <3>1. \A f \in Files : disk[f].run \in 0 .. Len(runs)
      BY <1>1, RunsAre
    <3>2. Len(runs) \in Nat /\ Len(runs') = Len(runs) + 1
      BY <1>1, RunsAre, BeginKeeps
    <3> QED
      BY <1>3, <3>1, <3>2
  <2> QED
    BY <1>2, <1>3, <2>2, <2>3, <2>4, FilesAre
<1>8. Loading'
  <2>1. server \in {"pages", "offsets"} => disturbed'
    BY <1>3
  <2>2. ~disturbed' => ~disturbed
    BY <1>1, <1>3 DEF Types
  <2>3. loaded["offsets"] # None => Loaded' = Loaded
    <3>1. loaded["offsets"] # None => runs'[loaded["offsets"].run] = runs[loaded["offsets"].run]
      BY <1>1, <1>2, RunsAre, BeginKeeps
    <3> QED
      BY <1>4, <3>1 DEF Loaded
  <2>4. Postings(loaded)' = Postings(loaded)
    BY <1>4 DEF Postings
  <2> QED
    BY <1>1, <1>3, <1>4, <2>1, <2>2, <2>3, <2>4 DEF Loading
<1> QED
  BY <1>5, <1>6, <1>7, <1>8 DEF IInv

\* A step of createlib that leaves the runs and the search engine alone.
LEMMA LoadingStays ==
    ASSUME Loading, builder # "idle", UNCHANGED <<runs, server, disturbed, libraryVars>>
    PROVE  Loading' /\ loaded' = loaded
<1>1. pagelib' = pagelib /\ pageLib' = pageLib /\ index' = index /\ loaded' = loaded
  BY DEF libraryVars
<1>2. Loaded' = Loaded /\ Postings(loaded)' = Postings(loaded)
  BY <1>1 DEF Loaded, Postings
<1>3. ~disturbed => server \notin {"pages", "offsets"}
  BY DEF Loading
<1> QED
  BY <1>1, <1>2, <1>3 DEF Loading

\* A file that is opened is empty and of the present run; those before it are whole.
LEMMA OpenStep == ASSUME IInv, NEW f \in Files, Open(f) PROVE IInv'
<1> DEFINE n == Len(runs)
           new == [run |-> n, part |-> {}]
<1>1. Types /\ Ordered(disk) /\ Ordered(loaded) /\ Building /\ Loading
  BY DEF IInv
<1>2. "pages" \in Files /\ "offsets" \in Files /\ "index" \in Files
  BY DEF Files
<1>3. /\ builder = f /\ ~opened /\ opened' /\ disk' = [disk EXCEPT ![f] = new]
      /\ UNCHANGED <<runs, builder, server, disturbed, libraryVars>>
  BY DEF Open
<1>4. f # "idle"
  BY DEF Files
<1>5. Loading' /\ loaded' = loaded
  BY <1>1, <1>3, <1>4, LoadingStays
<1>6. /\ n \in Dumps /\ n # 0 /\ new.run = n /\ new.part = {} /\ IsFile(f, new) /\ n \in Nat
  <2>1. n \in Dumps
    BY <1>1, <1>3, <1>4 DEF Building
  <2> HIDE DEF n
  <2>2. new.run = n /\ new.part = {}
    OBVIOUS
  <2>3. n # 0 /\ n \in Nat
    BY <2>1, <1>1, RunsAre DEF n
  <2> HIDE DEF new
  <2>4. IsFile(f, new)
    BY <2>1, <2>2 DEF IsFile, new
  <2> QED
    BY <2>1, <2>2, <2>3, <2>4
<1> HIDE DEF new
<1>7. /\ disk' = [g \in Files |-> disk'[g]] /\ disk'[f] = new
      /\ \A g \in Files : g # f => disk'[g] = disk[g]
  BY <1>1, <1>3 DEF Types
<1>8. Types'
  <2>1. \A g \in Files : IsFile(g, disk[g])' /\ IsFile(g, loaded[g])'
    BY <1>1, <1>3, <1>5, <1>6, <1>7, SameRuns DEF Types
  <2> QED
    BY <1>1, <1>3, <1>5, <1>7, <2>1 DEF Types
<1>9. Ordered(loaded)'
  BY <1>1, <1>2, <1>3, <1>5, SameRuns DEF Ordered
<1>10. /\ \A g \in Files : disk[g].run \in 0 .. n
       /\ \A g \in Later[f] : disk[g].run < n
       /\ f # "pages" => disk["pages"].run = n
       /\ \A g \in Earlier[f] : disk[g].run = n => WholeFile(g, disk[g])
  BY <1>1, <1>3, <1>4, RunsAre DEF Building
<1>11. Ordered(disk)'
  <2>1. CASE f = "pages"
    <3>1. disk'["pages"].run = n /\ disk'["offsets"] = disk["offsets"] /\ disk'["index"] = disk["index"]
      BY <1>2, <1>6, <1>7, <2>1
    <3>2. disk["offsets"].run < n /\ disk["index"].run < n
      BY <1>10, <2>1, FilesAre
    <3>3. disk["offsets"].run \in Nat /\ disk["index"].run \in Nat
      BY <1>2, <1>10
    <3> QED
      BY <1>1, <1>2, <1>3, <1>6, <3>1, <3>2, <3>3, SameRuns DEF Ordered
  <2>2. CASE f = "offsets"
    <3>1. disk'["offsets"].run = n /\ disk'["pages"] = disk["pages"] /\ disk'["index"] = disk["index"]
      BY <1>2, <1>6, <1>7, <2>2
    <3>2. disk["pages"].run = n /\ disk["index"].run < n /\ WholeFile("pages", disk["pages"])
      BY <1>10, <2>2, FilesAre
    <3>3. disk["index"].run \in Nat
      BY <1>2, <1>10
    <3> QED
      BY <1>1, <1>2, <1>3, <1>6, <3>1, <3>2, <3>3, SameRuns DEF Ordered
  <2>3. CASE f = "index"
    <3>1. disk'["index"].run = n /\ disk'["pages"] = disk["pages"] /\ disk'["offsets"] = disk["offsets"]
      BY <1>2, <1>6, <1>7, <2>3
    <3>2. /\ disk["pages"].run = n /\ WholeFile("pages", disk["pages"])
          /\ disk["offsets"].run = n => WholeFile("offsets", disk["offsets"])
      BY <1>10, <2>3, FilesAre
    <3> QED
      BY <1>1, <1>2, <1>3, <1>6, <3>1, <3>2, SameRuns DEF Ordered
  <2> QED
    BY <2>1, <2>2, <2>3 DEF Files
<1>12. Building'
  <2>1. f \notin Later[f] /\ f \notin Earlier[f] /\ Later[f] \subseteq Files /\ Earlier[f] \subseteq Files
    BY FilesAre DEF Files
  <2>2. \A g \in Later[f] \union Earlier[f] : g \in Files /\ disk'[g] = disk[g]
    BY <2>1, <1>7
  <2>3. f # "pages" => disk'["pages"] = disk["pages"]
    BY <1>2, <1>7
  <2>4. Len(runs') = n /\ Len(runs') \in Dumps' /\ builder' = f
    BY <1>3, <1>6, SameRuns
  <2>5. \A g \in Earlier[f] : disk'[g].run = n => WholeFile(g, disk[g])'
    BY <1>3, <1>10, <2>2, SameRuns
  <2> HIDE DEF n
  <2> QED
    BY <1>3, <1>4, <1>6, <1>7, <1>10, <2>2, <2>3, <2>4, <2>5 DEF Building
<1> QED
  BY <1>5, <1>8, <1>9, <1>11, <1>12 DEF IInv

\* What is written belongs to the file, and no later file is of this run yet.
LEMMA WriteStep == ASSUME IInv, NEW f \in Files, Write(f) PROVE IInv'
<1> DEFINE n == Len(runs)
           file == disk'[f]
<1>1. Types /\ Ordered(disk) /\ Ordered(loaded) /\ Building /\ Loading
  BY DEF IInv
<1>2. "pages" \in Files /\ "offsets" \in Files /\ "index" \in Files
  BY DEF Files
<1>3. /\ builder = f /\ opened /\ UNCHANGED <<runs, builder, opened, server, disturbed, libraryVars>>
  BY DEF Write
<1>4. f # "idle"
  BY DEF Files
<1>5. Loading' /\ loaded' = loaded
  BY <1>1, <1>3, <1>4, LoadingStays
<1>6. disk[f].run = n /\ n \in Dumps /\ n # 0
  BY <1>1, <1>3, <1>4, RunsAre DEF Building
<1>7. PICK u \in Content(f, Last(runs)) : disk' = [disk EXCEPT ![f].part = @ \union {u}]
  BY DEF Write
<1>8. u \in Content(f, runs[n])
  BY <1>7 DEF Last
<1> HIDE DEF n
<1>9. /\ disk' = [g \in Files |-> disk'[g]]
      /\ \A g \in Files : g # f => disk'[g] = disk[g]
      /\ file = [disk[f] EXCEPT !.part = @ \union {u}]
  BY <1>1, <1>7 DEF Types
<1> HIDE DEF file
<1>10. file.run = n /\ IsFile(f, file)
  <2>1. disk[f] = [run |-> disk[f].run, part |-> disk[f].part] /\ IsFile(f, disk[f]) /\ n # 0
    BY <1>1, <1>6, RunsAre DEF Types
  <2>2. file = [run |-> n, part |-> disk[f].part \union {u}]
    BY <2>1, <1>6, <1>9
  <2>3. disk[f].part \subseteq Content(f, runs[n])
    BY <2>1, <1>6, NoFile DEF IsFile
  <2>4. file.run = n /\ file.part = disk[f].part \union {u}
    BY <2>2
  <2> QED
    BY <2>2, <2>3, <2>4, <1>6, <1>8 DEF IsFile
<1>11. Types'
  <2>1. \A g \in Files : IsFile(g, disk[g])' /\ IsFile(g, loaded[g])'
    BY <1>1, <1>3, <1>5, <1>9, <1>10, SameRuns DEF Types, file
  <2> QED
    BY <1>1, <1>3, <1>5, <1>9, <2>1 DEF Types
<1>12. Ordered(loaded)'
  BY <1>1, <1>2, <1>3, <1>5, SameRuns DEF Ordered
<1>13. \A g \in Files : disk'[g].run = disk[g].run
  BY <1>6, <1>9, <1>10 DEF file
<1>14. /\ \A g \in Later[f] : disk[g].run < n
       /\ f # "pages" => disk["pages"].run = n
       /\ \A g \in Earlier[f] : disk[g].run = n => WholeFile(g, disk[g])
       /\ \A g \in Files : disk[g].run \in 0 .. n
  BY <1>1, <1>3, <1>4, RunsAre DEF Building, n
<1>15. Ordered(disk)'
  <2>1. CASE f = "pages"
    <3>1. disk["offsets"].run < n /\ disk["index"].run < n /\ disk["pages"].run = n
      BY <1>6, <1>14, <2>1, FilesAre
    <3>2. disk["offsets"].run \in 0 .. n /\ disk["index"].run \in 0 .. n /\ disk'["offsets"] = disk["offsets"]
      BY <1>2, <1>9, <1>14, <2>1
    <3> QED
      BY <1>1, <1>2, <1>3, <1>13, <3>1, <3>2, SameRuns DEF Ordered
  <2>2. CASE f = "offsets"
    <3>1. disk["index"].run < n /\ disk["offsets"].run = n
      BY <1>6, <1>14, <2>2, FilesAre
    <3>2. disk["index"].run \in 0 .. n /\ disk'["pages"] = disk["pages"]
      BY <1>2, <1>9, <1>14, <2>2
    <3> QED
      BY <1>1, <1>2, <1>3, <1>13, <3>1, <3>2, SameRuns DEF Ordered
  <2>3. CASE f = "index"
    <3>1. disk'["offsets"] = disk["offsets"] /\ disk'["pages"] = disk["pages"]
      BY <1>2, <1>9, <2>3
    <3> QED
      BY <1>1, <1>2, <1>3, <1>13, <3>1, SameRuns DEF Ordered
  <2> QED
    BY <2>1, <2>2, <2>3 DEF Files
<1>16. Building'
  <2>1. f \notin Later[f] /\ f \notin Earlier[f] /\ Later[f] \subseteq Files /\ Earlier[f] \subseteq Files
    BY FilesAre DEF Files
  <2>2. \A g \in Later[f] \union Earlier[f] : g \in Files /\ disk'[g] = disk[g]
    BY <2>1, <1>9
  <2>3. Len(runs') = n /\ n \in Dumps' /\ builder' = f /\ opened'
    BY <1>3, <1>6, SameRuns DEF n
  <2>4. \A g \in Earlier[f] : disk'[g].run = n => WholeFile(g, disk[g])'
    BY <1>3, <1>14, <2>2, SameRuns
  <2> QED
    BY <1>2, <1>4, <1>6, <1>13, <1>14, <2>2, <2>3, <2>4 DEF Building
<1> QED
  BY <1>5, <1>11, <1>12, <1>15, <1>16 DEF IInv

\* createlib goes from a file to a later one, or ends.
LEMMA OnwardStep ==
    ASSUME IInv, builder # "idle", UNCHANGED <<runs, disk, server, disturbed, libraryVars>>,
           ~opened', opened' \in BOOLEAN, builder' \in Files \union {"idle"},
           builder' # "idle" =>
             /\ builder' \in Later[builder]
             /\ \A g \in Earlier[builder'] \ Earlier[builder] : disk[g].run = Len(runs) => WholeFile(g, disk[g])
             /\ disk["pages"].run = Len(runs)
    PROVE  IInv'
<1>1. Types /\ Ordered(disk) /\ Ordered(loaded) /\ Building /\ Loading
  BY DEF IInv
<1>2. Loading' /\ loaded' = loaded
  BY <1>1, LoadingStays
<1>3. Types' /\ Ordered(disk)' /\ Ordered(loaded)'
  BY <1>1, <1>2, SameFiles DEF Types
<1>4. Building'
  <2>1. SUFFICES ASSUME builder' # "idle"
                 PROVE  /\ Len(runs) \in Dumps /\ disk[builder'].run < Len(runs)
                        /\ \A g \in Later[builder'] : disk[g].run < Len(runs)
                        /\ disk["pages"].run = Len(runs)
                        /\ \A g \in Earlier[builder'] : g \in Files /\ (disk[g].run = Len(runs) => WholeFile(g, disk[g]))
    BY SameRuns DEF Building
  <2>2. /\ Len(runs) \in Dumps /\ \A g \in Later[builder] : disk[g].run < Len(runs)
        /\ \A g \in Earlier[builder] : disk[g].run = Len(runs) => WholeFile(g, disk[g])
    BY <1>1 DEF Building
  <2>3. builder \in Files /\ builder' \in Files
    BY <1>1, <2>1 DEF Types
  <2>4. Later[builder'] \subseteq Later[builder]
    BY <2>1, <2>3, FilesAre DEF Files
  <2>5. Earlier[builder'] \subseteq Files
    BY <2>3, FilesAre DEF Files
  <2> QED
    BY <2>1, <2>2, <2>4, <2>5
<1> QED
  BY <1>2, <1>3, <1>4 DEF IInv

\* Offsets that do not open stay those of an earlier run.
LEMMA OpenFailsStep == ASSUME IInv, NEW f \in Files, OpenFails(f) PROVE IInv'
<1>1. Types /\ Building
  BY DEF IInv
<1>2. /\ builder = f /\ ~opened /\ builder' = AfterFailure[f] /\ opened' = opened
      /\ UNCHANGED <<runs, disk, server, disturbed, libraryVars>> /\ f # "idle"
      /\ ~opened' /\ opened' \in BOOLEAN
  BY <1>1 DEF OpenFails, Files, Types
<1>3. disk[f].run # Len(runs)
  <2>1. disk[f].run < Len(runs) /\ disk[f].run \in 0 .. Len(runs) /\ Len(runs) \in Nat
    BY <1>1, <1>2, RunsAre DEF Building
  <2> QED
    BY <2>1
<1>4. f # "pages" => disk["pages"].run = Len(runs)
  BY <1>1, <1>2 DEF Building
<1>5. CASE f = "offsets"
  <2>1. builder' = "index" /\ "index" \in Files /\ Earlier["index"] \ Earlier[f] = {"offsets"} /\ "index" \in Later[f]
    BY <1>2, <1>5, FilesAre DEF Files
  <2> QED
    BY <1>1, <1>2, <1>3, <1>4, <1>5, <2>1, OnwardStep
<1>6. CASE f # "offsets"
  <2>1. builder' = "idle"
    BY <1>2, <1>6, FilesAre DEF Files
  <2> QED
    BY <1>2, <2>1, OnwardStep
<1> QED
  BY <1>5, <1>6

\* A file is whole when it is closed.
LEMMA CloseStep == ASSUME IInv, NEW f \in Files, Close(f) PROVE IInv'
<1>1. Types /\ Building
  BY DEF IInv
<1>2. /\ builder = f /\ opened /\ builder' = After[f] /\ opened' = FALSE
      /\ disk[f].part = Content(f, Last(runs))
      /\ UNCHANGED <<runs, disk, server, disturbed, libraryVars>> /\ f # "idle"
  BY DEF Close, Files
<1>3. disk[f].run = Len(runs) /\ WholeFile(f, disk[f])
  BY <1>1, <1>2 DEF Building, WholeFile, Last
<1>4. f # "pages" => disk["pages"].run = Len(runs)
  BY <1>1, <1>2 DEF Building
<1>5. /\ After[f] \in Files \union {"idle"}
      /\ After[f] # "idle" => After[f] \in Later[f] /\ Earlier[After[f]] \ Earlier[f] = {f}
  BY FilesAre DEF Files
<1> QED
  BY <1>2, <1>3, <1>4, <1>5, OnwardStep

\* A run that is killed leaves what it has written.
LEMMA KillStep == ASSUME IInv, Kill PROVE IInv'
BY OnwardStep DEF Kill

\* Loading begins: the files are those on the disk.
LEMMA LoadPagesStep == ASSUME IInv, LoadPages PROVE IInv'
<1>1. Types /\ Ordered(disk) /\ Ordered(loaded) /\ Building /\ Loading
  BY DEF IInv
<1>2. /\ server = "down" /\ server' = IF Missing("pages") THEN "serving" ELSE "pages"
      /\ pagelib' = disk["pages"] /\ loaded' = disk /\ disturbed' = (builder # "idle")
      /\ UNCHANGED <<runs, disk, builder, opened, pageLib, index>>
  BY DEF LoadPages
<1>3. Types' /\ Ordered(disk)' /\ Ordered(loaded)'
  BY <1>1, <1>2, SameFiles DEF Types
<1>4. Building'
  BY <1>1, <1>2, SameRuns, FilesAre DEF Building, WholeFile, Dumps
<1>5. Loading'
  <2>1. pageLib' = NoPages /\ index' = {}
    BY <1>1, <1>2 DEF Loading
  <2> QED
    BY <1>2, <2>1 DEF Loading, Missing
<1> QED
  BY <1>3, <1>4, <1>5 DEF IInv

\* What createlib has behind and before it does not change with the server.
LEMMA ServerSteps ==
    ASSUME IInv, UNCHANGED <<runs, disk, builder, opened, loaded>>, disturbed' \in BOOLEAN,
           server' \in {"down", "pages", "offsets", "serving", "dead"}
    PROVE  Types' /\ Ordered(disk)' /\ Ordered(loaded)' /\ Building'
<1>1. Types /\ Ordered(disk) /\ Ordered(loaded) /\ Building
  BY DEF IInv
<1>2. Types' /\ Ordered(disk)' /\ Ordered(loaded)'
  BY <1>1, SameFiles DEF Types
<1>3. Building'
  BY <1>1, SameRuns DEF Building, WholeFile, Dumps
<1> QED
  BY <1>2, <1>3

\* Of the whole file of pages every line of the offsets of its run cuts a page.
LEMMA WholePages ==
    ASSUME NEW run \in Dumps, Types, NEW d \in Content("offsets", runs[run])
    PROVE  /\ d \in DOMAIN Pages(runs[run]) /\ Pieces(Pages(runs[run]), d) # {}
           /\ Content("pages", runs[run]) \cap Pieces(Pages(runs[run]), d) = Pieces(Pages(runs[run]), d)
<1> DEFINE pages == Pages(runs[run])
<1>1. pages \in Seq(Items)
  <2>1. runs[run] \in Corpora /\ ~Fatal(runs[run])
    BY RunsAre
  <2> QED
    BY <2>1, PagesAre
<1>2. d \in DOMAIN pages
  BY DEF Content
<1>3. Content("pages", runs[run]) = 1 .. Offset(pages, Len(pages)) + Length(pages, Len(pages))
  BY DEF Content
<1> HIDE DEF pages
<1>4. /\ Pieces(pages, d) \subseteq 1 .. Offset(pages, Len(pages)) + Length(pages, Len(pages))
      /\ Pieces(pages, d) # {}
  BY <1>1, <1>2, PiecesInside
<1> QED
  BY <1>2, <1>3, <1>4 DEF pages

\* The lines of the offsets cut the pages; whole pages of the same run cut into pages.
LEMMA LoadOffsetsStep == ASSUME IInv, LoadOffsets PROVE IInv'
<1> DEFINE docs == disk["offsets"].part
           items == runs[disk["offsets"].run]
           whole == {PageText(pagelib.run, d) : d \in DOMAIN Pages(runs[pagelib.run])}
<1>1. Types /\ Ordered(disk) /\ Ordered(loaded) /\ Building /\ Loading
  BY DEF IInv
<1>2. "pages" \in Files /\ "offsets" \in Files /\ "index" \in Files
  BY DEF Files
<1>3. /\ server = "pages" /\ UNCHANGED <<runs, disk, builder, opened, disturbed, pagelib, index, loaded>>
      /\ IF Missing("offsets") THEN server' = "serving" /\ UNCHANGED pageLib
         ELSE /\ pageLib' = [d \in docs |-> Substr(d)]
              /\ \/ server' = "offsets"
                 \/ server' = "dead" /\ \E d \in docs : Substr(d) \notin whole
  BY DEF LoadOffsets
<1>4. server' \in {"serving", "offsets", "dead"} /\ disturbed' \in BOOLEAN
  BY <1>1, <1>3 DEF Types
<1>5. Types' /\ Ordered(disk)' /\ Ordered(loaded)' /\ Building'
  BY <1>3, <1>4, ServerSteps
<1>6. pageLib = NoPages /\ index = {} /\ index' = {}
  BY <1>1, <1>3 DEF Loading
<1>7. SUFFICES ASSUME ~disturbed PROVE Loading'
  <2>1. disturbed => Loading'
    BY <1>3, <1>4, <1>6 DEF Loading
  <2> QED
    BY <2>1, <1>5 DEF IInv
<1>8. loaded = disk /\ pagelib = disk["pages"] /\ disk["pages"] # None
  BY <1>1, <1>3, <1>7 DEF Loading
<1>9. CASE Missing("offsets")
  <2>1. server' = "serving" /\ pageLib' = NoPages /\ loaded'["offsets"] = None
    BY <1>3, <1>6, <1>8, <1>9 DEF Missing
  <2> QED
    BY <2>1, <1>6 DEF Loading
<1>10. CASE ~Missing("offsets")
  <2>1. disk["offsets"] # None
    BY <1>10 DEF Missing
  <2>2. Loaded'
    BY <1>3, <1>8, <1>10 DEF Loaded, Cut, Substr
  <2>3. CASE server' = "offsets"
    <3>1. builder = "idle"
      BY <1>1, <1>3, <1>7 DEF Loading
    <3> QED
      BY <1>3, <1>6, <1>8, <2>1, <2>2, <2>3, <3>1 DEF Loading
  <2>4. CASE server' = "dead"
    <3>1. PICK d \in docs : Substr(d) \notin whole
      BY <1>3, <1>10, <2>4
    <3>2. SUFFICES ASSUME disk["pages"].run \in {0, disk["offsets"].run} PROVE FALSE
      BY <1>2, <1>3, <1>6, <1>8, <2>1, <2>4 DEF Loading
    <3>3. /\ disk["pages"].run = disk["offsets"].run /\ disk["offsets"].run \in Dumps
          /\ WholeFile("pages", disk["pages"])
      BY <1>1, <1>2, <1>8, <2>1, <3>2, RunsAre DEF Ordered
    <3>4. d \in Content("offsets", items)
      BY <1>1, <1>2, <2>1 DEF Types, IsFile
    <3> DEFINE run == disk["offsets"].run
    <3>5. /\ d \in DOMAIN Pages(runs[run]) /\ pagelib.run = run
          /\ pagelib.part \cap Pieces(Pages(runs[run]), d) = Pieces(Pages(runs[run]), d)
      BY <1>1, <1>8, <3>3, <3>4, WholePages DEF WholeFile
    <3>6. Substr(d) = PageText(run, d)
      BY <3>5 DEF Substr, PageText
    <3> QED
      BY <3>1, <3>5, <3>6
  <2> QED
    BY <1>3, <1>10, <2>3, <2>4
<1> QED
  BY <1>9, <1>10

\* With the index all is loaded.
LEMMA LoadIndexStep == ASSUME IInv, LoadIndex PROVE IInv'
<1>1. Types /\ Loading
  BY DEF IInv
<1>2. /\ server = "offsets" /\ server' = "serving"
      /\ index' = {<<disk["index"].run, p[1], p[2]>> : p \in disk["index"].part}
      /\ UNCHANGED <<runs, disk, builder, opened, disturbed, pagelib, pageLib, loaded>>
  BY DEF LoadIndex
<1>3. Types' /\ Ordered(disk)' /\ Ordered(loaded)' /\ Building'
  BY <1>1, <1>2, ServerSteps DEF Types
<1>4. SUFFICES ASSUME ~disturbed PROVE Loading'
  <2>1. disturbed => Loading'
    BY <1>2 DEF Loading
  <2> QED
    BY <2>1, <1>3 DEF IInv
<1>5. loaded = disk /\ loaded["pages"] # None /\ loaded["offsets"] # None /\ Loaded
  BY <1>1, <1>2, <1>4 DEF Loading
<1>6. Loaded' /\ index' = Postings(loaded)'
  BY <1>2, <1>5 DEF Loaded, Postings
<1> QED
  BY <1>2, <1>5, <1>6 DEF Loading

\* A posting of a page that is not there is of a run that left no offsets.
LEMMA MissingPage ==
    ASSUME Types, Ordered(loaded), Loading, server = "serving", ~disturbed,
           NEW p \in index, p[2] \notin DOMAIN pageLib
    PROVE  loaded["offsets"] # None /\ loaded["index"].run \notin {0, loaded["offsets"].run}
<1>1. "pages" \in Files /\ "offsets" \in Files /\ "index" \in Files
  BY DEF Files
<1>2. loaded["pages"] # None /\ loaded["offsets"] # None /\ Loaded /\ index = Postings(loaded)
  BY DEF Loading
<1>3. PICK q \in loaded["index"].part : p = <<loaded["index"].run, q[1], q[2]>>
  BY <1>2 DEF Postings
<1>4. p[2] = q[1] /\ DOMAIN pageLib = loaded["offsets"].part
  BY <1>2, <1>3 DEF Loaded, Cut
<1>5. /\ loaded["index"].run # 0 /\ loaded["index"].run \in Dumps
      /\ q \in Content("index", runs[loaded["index"].run])
  BY <1>1, <1>3, NoFile, RunsAre DEF Types, IsFile
<1>6. ASSUME loaded["index"].run = loaded["offsets"].run PROVE FALSE
  <2> DEFINE items == runs[loaded["offsets"].run]
  <2>1. loaded["offsets"].part = Content("offsets", items)
    BY <1>5, <1>6 DEF Ordered, WholeFile
  <2>2. q \in Content("index", items)
    BY <1>5, <1>6
  <2> HIDE DEF items
  <2>3. q[1] \in DOMAIN Pages(items) /\ Content("offsets", items) = DOMAIN Pages(items)
    BY <2>2 DEF Content
  <2> QED
    BY <1>4, <2>1, <2>3
<1> QED
  BY <1>2, <1>5, <1>6

\* Only a posting without its page ends the server.
LEMMA QueryStep == ASSUME IInv, NEW w, Query(w) PROVE IInv'
<1>1. Types /\ Ordered(loaded) /\ Loading
  BY DEF IInv
<1>2. /\ server = "serving" /\ server' = "dead" /\ ~(Found(w) \subseteq DOMAIN pageLib)
      /\ UNCHANGED <<runs, disk, builder, opened, disturbed, pagelib, pageLib, index, loaded>>
  BY DEF Query, libraryVars
<1>3. Types' /\ Ordered(disk)' /\ Ordered(loaded)' /\ Building'
  BY <1>1, <1>2, ServerSteps DEF Types
<1>4. Loading'
  <2>1. SUFFICES ASSUME ~disturbed
                 PROVE  loaded["offsets"] # None /\ loaded["index"].run \notin {0, loaded["offsets"].run}
    BY <1>2 DEF Loading, Files
  <2>2. PICK p \in index : p[2] \notin DOMAIN pageLib
    BY <1>2 DEF Found
  <2> QED
    BY <1>1, <1>2, <2>1, <2>2, MissingPage
<1> QED
  BY <1>3, <1>4 DEF IInv

\* A new process has loaded nothing.
LEMMA RestartStep == ASSUME IInv, Restart PROVE IInv'
<1>1. Types
  BY DEF IInv
<1>2. /\ server' = "down" /\ pageLib' = NoPages /\ index' = {}
      /\ UNCHANGED <<runs, disk, builder, opened, disturbed, loaded>>
  BY DEF Restart
<1>3. Types' /\ Ordered(disk)' /\ Ordered(loaded)' /\ Building'
  BY <1>1, <1>2, ServerSteps DEF Types
<1>4. Loading'
  BY <1>2 DEF Loading
<1> QED
  BY <1>3, <1>4 DEF IInv

\* Every step keeps the invariant.
LEMMA NextIInv == IInv /\ [Next]_vars => IInv'
<1> SUFFICES ASSUME IInv, [Next]_vars PROVE IInv'
  OBVIOUS
<1>1. CASE \E items \in Corpora : Begin(items)
  BY <1>1, BeginStep
<1>2. CASE \E f \in Files : Open(f)
  BY <1>2, OpenStep
<1>3. CASE \E f \in Files : OpenFails(f)
  BY <1>3, OpenFailsStep
<1>4. CASE \E f \in Files : Write(f)
  BY <1>4, WriteStep
<1>5. CASE \E f \in Files : Close(f)
  BY <1>5, CloseStep
<1>6. CASE Kill
  BY <1>6, KillStep
<1>7. CASE LoadPages
  BY <1>7, LoadPagesStep
<1>8. CASE LoadOffsets
  BY <1>8, LoadOffsetsStep
<1>9. CASE LoadIndex
  BY <1>9, LoadIndexStep
<1>10. CASE Restart
  BY <1>10, RestartStep
<1>11. CASE \E w \in UNION {Words(x) : x \in Items} : Query(w)
  BY <1>11, QueryStep
<1>12. CASE UNCHANGED vars
  <2>1. UNCHANGED <<runs, disk, builder, opened, server, disturbed, pagelib, pageLib, index, loaded>>
    BY <1>12 DEF vars, libraryVars
  <2>2. Types /\ Loading
    BY DEF IInv
  <2>3. Types' /\ Ordered(disk)' /\ Ordered(loaded)' /\ Building'
    BY <2>1, <2>2, ServerSteps DEF Types
  <2>4. Loading'
    BY <2>1, <2>2 DEF Loading, Loaded, Postings
  <2> QED
    BY <2>3, <2>4 DEF IInv
<1> QED
  BY <1>1, <1>2, <1>3, <1>4, <1>5, <1>6, <1>7, <1>8, <1>9, <1>10, <1>11, <1>12 DEF Next

\* The invariant of createlib and the engine that loads what it wrote.
LEMMA Invariance == Spec => []IInv
BY InitIInv, NextIInv, PTL DEF Spec

-----------------------------------------------------------------------------

\* The files of a run that a search engine started beside has loaded.
LEMMA WholeLibrary ==
    ASSUME IInv, server = "serving", ~disturbed, NEW run \in Dumps, IsWhole(loaded, run)
    PROVE  /\ pageLib = [d \in DOMAIN Pages(runs[run]) |-> PageText(run, d)]
           /\ index = {<<run, p[1], p[2]>> : p \in Content("index", runs[run])}
<1> DEFINE items == runs[run]
           Whole(f) == [run |-> run, part |-> Content(f, items)]
<1>1. Types /\ Loading
  BY DEF IInv
<1>2. loaded["pages"] = Whole("pages") /\ loaded["offsets"] = Whole("offsets") /\ loaded["index"] = Whole("index")
  BY DEF IsWhole, Files
<1>3. \A f : Whole(f).run = run /\ Whole(f).part = Content(f, items) /\ Whole(f) # None
  <2>1. run # 0
    BY <1>1, RunsAre
  <2>2. \A f : Whole(f).run = run /\ Whole(f).part = Content(f, items)
    OBVIOUS
  <2> HIDE DEF Whole
  <2> QED
    BY <2>1, <2>2, NoFile
<1> HIDE DEF Whole
<1>4. Loaded /\ index = Postings(loaded)
  BY <1>1, <1>2, <1>3 DEF Loading
<1>5. \A d \in Content("offsets", items) :
        Content("pages", items) \cap Pieces(Pages(items), d) = Pieces(Pages(items), d)
  BY <1>1, WholePages
<1>6. Content("offsets", items) = DOMAIN Pages(items)
  BY DEF Content
<1>7. pageLib = [d \in Content("offsets", items) |->
                    [run |-> run, part |-> Content("pages", items) \cap Pieces(Pages(items), d)]]
  <2>1. runs[loaded["offsets"].run] = items
    BY <1>2, <1>3
  <2> HIDE DEF items
  <2> QED
    BY <1>2, <1>3, <1>4, <2>1 DEF Loaded, Cut
<1>8. index = {<<run, p[1], p[2]>> : p \in Content("index", items)}
  <2> HIDE DEF items
  <2> QED
    BY <1>2, <1>3, <1>4 DEF Postings
<1>9. pageLib = [d \in DOMAIN Pages(items) |-> PageText(run, d)]
  <2>1. \A d : PageText(run, d) = [run |-> run, part |-> Pieces(Pages(items), d)]
    BY DEF PageText
  <2> HIDE DEF items
  <2> QED
    BY <1>5, <1>6, <1>7, <2>1
<1> QED
  BY <1>8, <1>9

\* Every variable has its type, and no file is of a run that never came to
\* dump (rssreader.cc:126, 163).
THEOREM LibraryTypes == Spec => []TypeOK
<1>1. IInv => TypeOK
  BY DEF IInv, Types, IsFile, TypeOK
<1> QED
  BY <1>1, Invariance, PTL

\* An engine started beside a finished library serves every page and every
\* posting of it (rsssearch.cc:141-202), whatever the items.
THEOREM WholeLibraryIsServed == Spec => []ServesWholeLibrary
<1>1. IInv => ServesWholeLibrary
  BY WholeLibrary DEF ServesWholeLibrary
<1> QED
  BY <1>1, Invariance, PTL

\* Wherever a run ended, with no file of an earlier run left, the engine does
\* not end, and serves whole pages and postings of pages it has: the offsets are
\* written after the pages and the index after both (rssreader.cc:85-118).
THEOREM InterruptedRunsAreSafe == Spec => []InterruptedRunIsSafe
<1>1. ASSUME IInv PROVE InterruptedRunIsSafe
  <2>1. SUFFICES ASSUME ~disturbed, NEW run \in Dumps, \A f \in Files : loaded[f].run \in {0, run}
                 PROVE  /\ server # "dead"
                        /\ \A d \in DOMAIN pageLib : d \in DOMAIN Pages(runs[run]) /\ pageLib[d] = PageText(run, d)
                        /\ server = "serving" => \A p \in index : p[2] \in DOMAIN pageLib
    BY DEF InterruptedRunIsSafe
  <2>2. Types /\ Ordered(loaded) /\ Loading
    BY <1>1 DEF IInv
  <2>3. "pages" \in Files /\ "offsets" \in Files /\ "index" \in Files
    BY DEF Files
  <2>4. \A f \in Files : loaded[f] # None => loaded[f].run = run
    BY <2>1, <2>2, RunsAre
  <2>5. server # "dead"
    BY <2>1, <2>2, <2>3, <2>4 DEF Loading
  <2>6. server = "serving" => \A p \in index : p[2] \in DOMAIN pageLib
    BY <2>1, <2>2, <2>3, <2>4, MissingPage
  <2>7. ASSUME NEW d \in DOMAIN pageLib
        PROVE  d \in DOMAIN Pages(runs[run]) /\ pageLib[d] = PageText(run, d)
    <3> DEFINE items == runs[run]
    <3>1. pageLib # NoPages
      BY DEF NoPages
    <3>2. Loaded /\ loaded["offsets"] # None /\ loaded["pages"] # None
      BY <2>1, <2>2, <2>5, <3>1 DEF Types, Loading
    <3>3. /\ loaded["offsets"].run = run /\ loaded["pages"].run = run /\ run # 0
          /\ loaded["offsets"].part \subseteq Content("offsets", items)
      BY <2>2, <2>3, <2>4, <3>2, RunsAre DEF Types, IsFile
    <3>4. loaded["pages"].part = Content("pages", items)
      BY <2>2, <3>3 DEF Ordered, WholeFile
    <3>5. /\ d \in Content("offsets", items)
          /\ pageLib[d] = [run |-> run, part |-> Content("pages", items) \cap Pieces(Pages(items), d)]
      BY <3>2, <3>3, <3>4 DEF Loaded, Cut
    <3> QED
      BY <2>2, <3>5, WholePages DEF PageText
  <2> QED
    BY <2>5, <2>6, <2>7
<1> QED
  BY <1>1, Invariance, PTL

\* Of pages that are near each other one is served, and for each complete item
\* one that is near it (rssreader.cc:156-178), though nearness is not transitive.
THEOREM ServedPagesAreDistinct == Spec => []PagesAreDistinct
<1>1. ASSUME IInv PROVE PagesAreDistinct
  <2>1. SUFFICES ASSUME server = "serving", ~disturbed, NEW run \in Dumps, IsWhole(loaded, run)
                 PROVE  LET pages == Pages(runs[run]) IN
                        /\ \A d, e \in DOMAIN pageLib : d # e => ~Near(pages[d].hash, pages[e].hash)
                        /\ \A i \in DOMAIN runs[run] : Wanted(runs[run][i]) =>
                              \E d \in DOMAIN pageLib : Near(pages[d].hash, runs[run][i].hash)
    BY DEF PagesAreDistinct
  <2>2. DOMAIN pageLib = DOMAIN Pages(runs[run])
    BY <1>1, <2>1, WholeLibrary
  <2>3. runs[run] \in Corpora /\ ~Fatal(runs[run])
    BY <1>1, RunsAre DEF IInv
  <2> QED
    BY <2>2, <2>3, PagesAre
<1> QED
  BY <1>1, Invariance, PTL

-----------------------------------------------------------------------------
(* The text of a page                                                      *)

\* The sequence s stands in doc after the first k elements.
Stands(doc, k, s) == k + Len(s) <= Len(doc) /\ \A i \in 1 .. Len(s) : doc[k + i] = s[i]

\* Where the parts of a concatenation stand.
LEMMA Joined ==
    ASSUME NEW S, NEW s \in Seq(S), NEW t \in Seq(S)
    PROVE  /\ s \o t \in Seq(S) /\ Len(s \o t) = Len(s) + Len(t)
           /\ Stands(s \o t, 0, s) /\ Stands(s \o t, Len(s), t)
<1>1. s \o t \in Seq(S) /\ Len(s \o t) = Len(s) + Len(t) /\ Len(s) \in Nat /\ Len(t) \in Nat
  OBVIOUS
<1>2. \A i \in 1 .. Len(s) : (s \o t)[0 + i] = s[i]
  OBVIOUS
<1>3. \A i \in 1 .. Len(t) : (s \o t)[Len(s) + i] = t[i]
  OBVIOUS
<1> QED
  BY <1>1, <1>2, <1>3 DEF Stands

\* What stands in a beginning of a text stands in the text.
LEMMA InBeginning ==
    ASSUME NEW S, NEW r \in Seq(S), NEW s \in Seq(S), NEW u \in Seq(S), NEW k \in Nat, Stands(r, 0, s), Stands(s, k, u)
    PROVE  Stands(r, k, u)
<1>1. /\ 0 + Len(s) <= Len(r) /\ \A i \in 1 .. Len(s) : r[0 + i] = s[i]
      /\ k + Len(u) <= Len(s) /\ \A i \in 1 .. Len(u) : s[k + i] = u[i]
      /\ Len(u) \in Nat /\ Len(s) \in Nat /\ Len(r) \in Nat
  BY DEF Stands
<1>2. \A i \in 1 .. Len(u) : k + i \in 1 .. Len(s) /\ 0 + (k + i) = k + i
  BY <1>1
<1> QED
  BY <1>1, <1>2 DEF Stands

\* What is between the first k elements and the element after s.
LEMMA Cutout ==
    ASSUME NEW S, NEW doc \in Seq(S), NEW s \in Seq(S), NEW k \in Nat, Stands(doc, k, s)
    PROVE  SubSeq(doc, k + 1, k + Len(s)) = s
<1> DEFINE n == Len(s)
           r == SubSeq(doc, k + 1, k + n)
<1>1. n \in Nat /\ k + n <= Len(doc) /\ Len(doc) \in Nat
  BY DEF Stands
<1>2. \A i \in 1 .. n : i \in 1 .. Len(s) /\ k + i \in 1 .. Len(doc) /\ k + 1 + i - 1 = k + i
  BY <1>1
<1>3. r \in Seq(S) /\ Len(r) = n /\ \A i \in 1 .. n : r[i] = doc[k + i]
  BY <1>1, <1>2
<1>4. \A i \in 1 .. n : r[i] = s[i]
  BY <1>2, <1>3 DEF Stands
<1>5. r = s
  <2>1. s \in Seq(S) /\ Len(s) = n
    OBVIOUS
  <2> HIDE DEF r, n
  <2> QED
    BY <1>3, <1>4, <2>1
<1> QED
  BY <1>5

\* doc.find of what is in the text once.
LEMMA FirstOne ==
    ASSUME NEW S, NEW doc \in Seq(S), NEW tag, NEW i \in 1 .. Len(doc),
           doc[i] = tag, \A j \in 1 .. Len(doc) : doc[j] = tag => i <= j
    PROVE  Position(doc, tag) = i
<1> DEFINE Is(m) == doc[m] = tag /\ \A j \in 1 .. m - 1 : doc[j] # tag
           m == CHOOSE m \in DOMAIN doc : Is(m)
<1>1. i \in Nat /\ DOMAIN doc = 1 .. Len(doc) /\ Len(doc) \in Nat
  OBVIOUS
<1>2. Is(i)
  <2>1. ASSUME NEW j \in 1 .. i - 1, doc[j] = tag PROVE FALSE
    <3>1. j \in 1 .. Len(doc) /\ ~(i <= j)
      BY <1>1
    <3> QED
      BY <2>1, <3>1
  <2> QED
    BY <2>1
<1>3. Position(doc, tag) = m
  BY DEF Position
<1>4. m \in 1 .. Len(doc) /\ Is(m)
  <2> HIDE DEF Is
  <2> QED
    BY <1>1, <1>2
<1> HIDE DEF m
<1>5. i <= m /\ m \in Nat
  BY <1>1, <1>4
<1>6. ~(i < m)
  <2>1. ASSUME i < m PROVE i \in 1 .. m - 1
    BY <1>1, <1>5, <2>1
  <2> QED
    BY <1>2, <1>4, <2>1
<1> QED
  BY <1>1, <1>3, <1>5, <1>6

\* Where the fields of a page are in its text.
TextOf(doc, num, L, T, C) ==
    LET u == 6 + Len(L)
        t == u + 2 + Len(T)
        c == t + 2 + Len(C)
    IN  /\ Len(doc) = c + 1
        /\ doc[1] = "<doc>" /\ doc[2] = "<docid>" /\ doc[3] = num /\ doc[4] = "</docid>" /\ doc[5] = "<url>"
        /\ doc[u] = "</url>" /\ doc[u + 1] = "<title>" /\ doc[t] = "</title>" /\ doc[t + 1] = "<content>"
        /\ doc[c] = "</content>" /\ doc[c + 1] = "</doc>"
        /\ Stands(doc, 2, <<num>>) /\ Stands(doc, 5, L) /\ Stands(doc, u + 1, T) /\ Stands(doc, t + 1, C)

\* The text of a page has its ten parts one after another.
LEMMA Fields ==
    ASSUME NEW S, NEW num \in S, Tags \subseteq S, NEW L \in Seq(S), NEW T \in Seq(S), NEW C \in Seq(S),
           NEW doc, doc = <<"<doc>", "<docid>", num, "</docid>">>
                          \o <<"<url>">> \o L \o <<"</url>">>
                          \o <<"<title>">> \o T \o <<"</title>">>
                          \o <<"<content>">> \o C \o <<"</content>", "</doc>">>
    PROVE  doc \in Seq(S) /\ TextOf(doc, num, L, T, C)
<1> DEFINE first == <<"<doc>", "<docid>", num, "</docid>">>
           last == <<"</content>", "</doc>">>
           one(x) == <<x>>
           b == one("<url>")
           d == one("</url>")
           e == one("<title>")
           g == one("</title>")
           h == one("<content>")
           u == 6 + Len(L)
           u1 == u + 1
           t0 == u1 + Len(T)
           t == u + 2 + Len(T)
           t1 == t + 1
           c0 == t1 + Len(C)
           c == t + 2 + Len(C)
<1>1. \A x \in Tags : x \in S
  OBVIOUS
<1>2. /\ "<doc>" \in S /\ "<docid>" \in S /\ "</docid>" \in S /\ "<url>" \in S /\ "</url>" \in S /\ "<title>" \in S
      /\ "</title>" \in S /\ "<content>" \in S /\ "</content>" \in S /\ "</doc>" \in S
  BY <1>1 DEF Tags
<1>3. first \in Seq(S) /\ Len(first) = 4 /\ last \in Seq(S) /\ Len(last) = 2
  BY <1>2
<1>4. \A x \in S : one(x) \in Seq(S) /\ Len(one(x)) = 1 /\ one(x)[1] = x
  OBVIOUS
<1>5. /\ first[1] = "<doc>" /\ first[2] = "<docid>" /\ first[3] = num /\ first[4] = "</docid>"
      /\ last[1] = "</content>" /\ last[2] = "</doc>"
  OBVIOUS
<1>6. doc = first \o b \o L \o d \o e \o T \o g \o h \o C \o last
  OBVIOUS
<1>7. /\ u \in Nat /\ u1 \in Nat /\ t0 \in Nat /\ t \in Nat /\ t1 \in Nat /\ c0 \in Nat /\ c \in Nat
      /\ 5 + Len(L) = u - 1 /\ u = u - 1 + 1 /\ u1 = u + 1 /\ t0 = u1 + Len(T)
      /\ t = t0 + 1 /\ t1 = t + 1 /\ c0 = t1 + Len(C) /\ c = c0 + 1 /\ u - 1 \in Nat
  OBVIOUS
<1> HIDE DEF first, last, one, u, u1, t0, t, t1, c0, c
<1>8. /\ b \in Seq(S) /\ d \in Seq(S) /\ e \in Seq(S) /\ g \in Seq(S) /\ h \in Seq(S)
      /\ Len(b) = 1 /\ Len(d) = 1 /\ Len(e) = 1 /\ Len(g) = 1 /\ Len(h) = 1
      /\ b[1] = "<url>" /\ d[1] = "</url>" /\ e[1] = "<title>" /\ g[1] = "</title>" /\ h[1] = "<content>"
  BY <1>2, <1>4
<1> HIDE DEF b, d, e, g, h
<1>9. /\ doc \in Seq(S) /\ Len(doc) = c0 + 2
      /\ Stands(doc, 0, first) /\ Stands(doc, 4, b) /\ Stands(doc, 5, L) /\ Stands(doc, u - 1, d)
      /\ Stands(doc, u, e) /\ Stands(doc, u1, T) /\ Stands(doc, t0, g)
      /\ Stands(doc, t, h) /\ Stands(doc, t1, C) /\ Stands(doc, c0, last)
  <2> DEFINE k4 == 4
             k5 == 5
             u0 == u - 1
             c2 == c0 + 2
             p1 == first \o b
             p2 == p1 \o L
             p3 == p2 \o d
             p4 == p3 \o e
             p5 == p4 \o T
             p6 == p5 \o g
             p7 == p6 \o h
             p8 == p7 \o C
             p9 == p8 \o last
  <2>1. /\ Len(first) = k4 /\ k4 + Len(b) = k5 /\ k5 + Len(L) = u0 /\ u0 + Len(d) = u /\ u + Len(e) = u1
        /\ u1 + Len(T) = t0 /\ t0 + Len(g) = t /\ t + Len(h) = t1 /\ t1 + Len(C) = c0 /\ c0 + Len(last) = c2
        /\ 0 \in Nat /\ k4 \in Nat /\ k5 \in Nat /\ u0 \in Nat
    BY <1>3, <1>7, <1>8
  <2>2. u \in Nat /\ u1 \in Nat /\ t0 \in Nat /\ t \in Nat /\ t1 \in Nat /\ c0 \in Nat
    BY <1>7
  <2>3. first \in Seq(S) /\ b \in Seq(S) /\ d \in Seq(S) /\ e \in Seq(S) /\ g \in Seq(S) /\ h \in Seq(S) /\ last \in Seq(S)
    BY <1>3, <1>8
  <2> HIDE DEF k4, k5, u0, c2
  <2>4. p1 \in Seq(S) /\ Len(p1) = k5 /\ Stands(p1, 0, first) /\ Stands(p1, k4, b)
    <3>1. first \in Seq(S) /\ b \in Seq(S) /\ Len(first) = k4 /\ k4 + Len(b) = k5
      BY <2>1, <2>3
    <3> QED
      BY <3>1, Joined
  <2> HIDE DEF p1
  <2>5. p2 \in Seq(S) /\ Len(p2) = u0 /\ Stands(p2, 0, p1) /\ Stands(p2, k5, L)
    <3>1. p1 \in Seq(S) /\ L \in Seq(S) /\ Len(p1) = k5 /\ k5 + Len(L) = u0
      BY <2>1, <2>3, <2>4
    <3> QED
      BY <3>1, Joined
  <2> HIDE DEF p2
  <2>6. p3 \in Seq(S) /\ Len(p3) = u /\ Stands(p3, 0, p2) /\ Stands(p3, u0, d)
    <3>1. p2 \in Seq(S) /\ d \in Seq(S) /\ Len(p2) = u0 /\ u0 + Len(d) = u
      BY <2>1, <2>3, <2>5
    <3> QED
      BY <3>1, Joined
  <2> HIDE DEF p3
  <2>7. p4 \in Seq(S) /\ Len(p4) = u1 /\ Stands(p4, 0, p3) /\ Stands(p4, u, e)
    <3>1. p3 \in Seq(S) /\ e \in Seq(S) /\ Len(p3) = u /\ u + Len(e) = u1
      BY <2>1, <2>3, <2>6
    <3> QED
      BY <3>1, Joined
  <2> HIDE DEF p4
  <2>8. p5 \in Seq(S) /\ Len(p5) = t0 /\ Stands(p5, 0, p4) /\ Stands(p5, u1, T)
    <3>1. p4 \in Seq(S) /\ T \in Seq(S) /\ Len(p4) = u1 /\ u1 + Len(T) = t0
      BY <2>1, <2>3, <2>7
    <3> QED
      BY <3>1, Joined
  <2> HIDE DEF p5
  <2>9. p6 \in Seq(S) /\ Len(p6) = t /\ Stands(p6, 0, p5) /\ Stands(p6, t0, g)
    <3>1. p5 \in Seq(S) /\ g \in Seq(S) /\ Len(p5) = t0 /\ t0 + Len(g) = t
      BY <2>1, <2>3, <2>8
    <3> QED
      BY <3>1, Joined
  <2> HIDE DEF p6
  <2>10. p7 \in Seq(S) /\ Len(p7) = t1 /\ Stands(p7, 0, p6) /\ Stands(p7, t, h)
    <3>1. p6 \in Seq(S) /\ h \in Seq(S) /\ Len(p6) = t /\ t + Len(h) = t1
      BY <2>1, <2>3, <2>9
    <3> QED
      BY <3>1, Joined
  <2> HIDE DEF p7
  <2>11. p8 \in Seq(S) /\ Len(p8) = c0 /\ Stands(p8, 0, p7) /\ Stands(p8, t1, C)
    <3>1. p7 \in Seq(S) /\ C \in Seq(S) /\ Len(p7) = t1 /\ t1 + Len(C) = c0
      BY <2>1, <2>3, <2>10
    <3> QED
      BY <3>1, Joined
  <2> HIDE DEF p8
  <2>12. p9 \in Seq(S) /\ Len(p9) = c2 /\ Stands(p9, 0, p8) /\ Stands(p9, c0, last)
    <3>1. p8 \in Seq(S) /\ last \in Seq(S) /\ Len(p8) = c0 /\ c0 + Len(last) = c2
      BY <2>1, <2>3, <2>11
    <3> QED
      BY <3>1, Joined
  <2> HIDE DEF p9
  <2>13. Stands(p9, 0, p7) /\ Stands(p9, 0, p6)
    BY <2>2, <2>9, <2>10, <2>11, <2>12, InBeginning
  <2>14. Stands(p9, 0, p5) /\ Stands(p9, 0, p4)
    BY <2>2, <2>7, <2>8, <2>9, <2>12, <2>13, InBeginning
  <2>15. Stands(p9, 0, p3) /\ Stands(p9, 0, p2)
    BY <2>2, <2>5, <2>6, <2>7, <2>12, <2>14, InBeginning
  <2>16. Stands(p9, 0, p1) /\ Stands(p9, 0, first)
    BY <2>2, <2>3, <2>4, <2>5, <2>12, <2>15, InBeginning
  <2>17. Stands(p9, k4, b) /\ Stands(p9, k5, L) /\ Stands(p9, u0, d)
    BY <2>1, <2>2, <2>3, <2>4, <2>5, <2>6, <2>12, <2>15, <2>16, InBeginning
  <2>18. Stands(p9, u, e) /\ Stands(p9, u1, T) /\ Stands(p9, t0, g)
    BY <2>2, <2>3, <2>7, <2>8, <2>9, <2>12, <2>13, <2>14, InBeginning
  <2>19. Stands(p9, t, h) /\ Stands(p9, t1, C)
    BY <2>2, <2>3, <2>10, <2>11, <2>12, <2>13, InBeginning
  <2>20. doc = p9
    BY <1>6 DEF p1, p2, p3, p4, p5, p6, p7, p8, p9
  <2> QED
    BY <2>12, <2>16, <2>17, <2>18, <2>19, <2>20 DEF k4, k5, u0, c2
<1>10. \A s, k, m : Stands(doc, k, s) /\ Len(s) = 1 /\ m = k + 1 => doc[m] = s[1]
  <2>1. 1 \in 1 .. 1
    OBVIOUS
  <2> QED
    BY <2>1 DEF Stands
<1>11. doc[5] = "<url>"
  <2>1. 5 = 4 + 1
    OBVIOUS
  <2> QED
    BY <1>8, <1>9, <1>10, <2>1
<1>12. doc[u] = "</url>"
  <2>1. Stands(doc, u - 1, d) /\ Len(d) = 1 /\ d[1] = "</url>" /\ u = u - 1 + 1
    BY <1>7, <1>8, <1>9
  <2> QED
    BY <2>1, <1>10
<1>13. doc[u1] = "<title>"
  <2>1. Stands(doc, u, e) /\ Len(e) = 1 /\ e[1] = "<title>" /\ u1 = u + 1
    BY <1>7, <1>8, <1>9
  <2> QED
    BY <2>1, <1>10
<1>14. doc[t] = "</title>"
  <2>1. Stands(doc, t0, g) /\ Len(g) = 1 /\ g[1] = "</title>" /\ t = t0 + 1
    BY <1>7, <1>8, <1>9
  <2> QED
    BY <2>1, <1>10
<1>15. doc[t1] = "<content>"
  <2>1. Stands(doc, t, h) /\ Len(h) = 1 /\ h[1] = "<content>" /\ t1 = t + 1
    BY <1>7, <1>8, <1>9
  <2> QED
    BY <2>1, <1>10
<1>16. doc[1] = "<doc>" /\ doc[2] = "<docid>" /\ doc[3] = num /\ doc[4] = "</docid>"
  <2>1. \A i \in 1 .. 4 : doc[0 + i] = first[i]
    BY <1>3, <1>9 DEF Stands
  <2> QED
    BY <1>5, <2>1
<1>17. doc[c] = "</content>" /\ doc[c + 1] = "</doc>" /\ Len(doc) = c + 1
  <2>1. 1 \in 1 .. 2 /\ 2 \in 1 .. 2 /\ c0 + 1 = c /\ c0 + 2 = c + 1
    BY <1>7
  <2>2. doc[c0 + 1] = last[1] /\ doc[c0 + 2] = last[2]
    BY <1>3, <1>9, <2>1 DEF Stands
  <2> QED
    BY <1>5, <1>9, <2>1, <2>2
<1>18. Stands(doc, 2, one(num))
  <2>1. 2 + 1 <= Len(doc) /\ \A i \in 1 .. 1 : i = 1 /\ 2 + i = 3
    <3>1. 4 <= Len(doc)
      BY <1>3, <1>9 DEF Stands
    <3> QED
      BY <1>7, <1>17, <3>1
  <2>2. Len(one(num)) = 1 /\ one(num)[1] = num
    BY <1>4
  <2> QED
    BY <1>16, <2>1, <2>2 DEF Stands
<1> QED
  BY <1>9, <1>11, <1>12, <1>13, <1>14, <1>15, <1>16, <1>17, <1>18 DEF TextOf, one, u1, t1, u, t, c

\* A text without tags in its fields is taken apart as it was put together:
\* each tag is in it once.
LEMMA TakenApart ==
    ASSUME NEW S, NEW doc \in Seq(S), NEW num, num \notin Tags, NEW L \in Seq(S), NEW T \in Seq(S), NEW C \in Seq(S),
           num \in S, \A x \in Range(L) \union Range(T) \union Range(C) : x \notin Tags, TextOf(doc, num, L, T, C)
    PROVE  LET page == processDoc(doc) IN
           page.docId = <<num>> /\ page.url = L /\ page.title = T /\ page.content = C
<1> DEFINE u == 6 + Len(L)
           u1 == u + 1
           t == u + 2 + Len(T)
           t1 == t + 1
           c == t + 2 + Len(C)
           Tagged(i) == i \in {1, 2, 4, 5, u, u1, t, t1, c, c + 1}
<1>1. /\ u \in Nat /\ u1 \in Nat /\ t \in Nat /\ t1 \in Nat /\ c \in Nat
      /\ Len(L) \in Nat /\ Len(T) \in Nat /\ Len(C) \in Nat
      /\ 5 < u /\ u1 = u + 1 /\ u1 < t /\ t1 = t + 1 /\ t1 < c
      /\ u - 1 = 5 + Len(L) /\ t - 1 = u1 + Len(T) /\ c - 1 = t1 + Len(C)
  OBVIOUS
<1>2. /\ Len(doc) = c + 1
      /\ doc[1] = "<doc>" /\ doc[2] = "<docid>" /\ doc[3] = num /\ doc[4] = "</docid>" /\ doc[5] = "<url>"
      /\ doc[u] = "</url>" /\ doc[u1] = "<title>" /\ doc[t] = "</title>" /\ doc[t1] = "<content>"
      /\ doc[c] = "</content>" /\ doc[c + 1] = "</doc>"
      /\ Stands(doc, 2, <<num>>) /\ Stands(doc, 5, L) /\ Stands(doc, u1, T) /\ Stands(doc, t1, C)
  BY DEF TextOf
<1> HIDE DEF u, u1, t, t1, c
<1>3. ASSUME NEW s \in Seq(S), NEW k \in Nat, Stands(doc, k, s), \A x \in Range(s) : x \notin Tags,
             NEW i \in k + 1 .. k + Len(s)
      PROVE  doc[i] \notin Tags
  <2>1. i - k \in 1 .. Len(s) /\ k + (i - k) = i
    OBVIOUS
  <2>2. doc[k + (i - k)] = s[i - k]
    BY <1>3, <2>1 DEF Stands
  <2>3. s[i - k] \in Range(s)
    BY <2>1 DEF Range
  <2> QED
    BY <1>3, <2>1, <2>2, <2>3
<1>4. ASSUME NEW i \in 1 .. Len(doc), ~Tagged(i) PROVE doc[i] \notin Tags
  <2>1. i = 3 \/ i \in 5 + 1 .. 5 + Len(L) \/ i \in u1 + 1 .. u1 + Len(T) \/ i \in t1 + 1 .. t1 + Len(C)
    <3>1. i \in 1 .. c + 1 /\ i # 1 /\ i # 2 /\ i # 4 /\ i # 5 /\ i # u /\ i # u1 /\ i # t /\ i # t1 /\ i # c /\ i # c + 1
      BY <1>2, <1>4
    <3>2. i \in 1 .. 5 => i = 3
      BY <3>1
    <3>3. i \in 1 .. 5 \/ i \in 6 .. u1 \/ i \in u1 + 1 .. t1 \/ i \in t1 + 1 .. c + 1
      BY <1>1, <3>1
    <3>4. i \in 6 .. u1 => i \in 6 .. u - 1
      BY <1>1, <3>1
    <3>5. ASSUME NEW a \in Nat, NEW b \in Nat, i \in a + 1 .. b + 1, i # b, i # b + 1 PROVE i \in a + 1 .. b - 1
      BY <3>1, <3>5
    <3>6. /\ i \in u1 + 1 .. t1 => i \in u1 + 1 .. t - 1
          /\ i \in t1 + 1 .. c + 1 => i \in t1 + 1 .. c - 1
      BY <1>1, <3>1, <3>5
    <3> QED
      BY <1>1, <3>2, <3>3, <3>4, <3>5, <3>6
  <2>2. CASE i = 3
    BY <1>2, <2>2
  <2>3. CASE i \in 5 + 1 .. 5 + Len(L)
    BY <1>2, <1>3, <2>3
  <2>4. CASE i \in u1 + 1 .. u1 + Len(T)
    BY <1>1, <1>2, <1>3, <2>4
  <2>5. CASE i \in t1 + 1 .. t1 + Len(C)
    BY <1>1, <1>2, <1>3, <2>5
  <2> QED
    BY <2>1, <2>2, <2>3, <2>4, <2>5
<1>5. \A i \in 1 .. Len(doc) :
        /\ doc[i] = "<docid>" => i = 2
        /\ doc[i] = "</docid>" => i = 4
        /\ doc[i] = "<url>" => i = 5
        /\ doc[i] = "</url>" => i = u
        /\ doc[i] = "<title>" => i = u1
        /\ doc[i] = "</title>" => i = t
        /\ doc[i] = "<content>" => i = t1
        /\ doc[i] = "</content>" => i = c
  <2> SUFFICES ASSUME NEW i \in 1 .. Len(doc), doc[i] \in Tags
               PROVE  /\ doc[i] = "<docid>" => i = 2
                      /\ doc[i] = "</docid>" => i = 4
                      /\ doc[i] = "<url>" => i = 5
                      /\ doc[i] = "</url>" => i = u
                      /\ doc[i] = "<title>" => i = u1
                      /\ doc[i] = "</title>" => i = t
                      /\ doc[i] = "<content>" => i = t1
                      /\ doc[i] = "</content>" => i = c
    BY DEF Tags
  <2>1. i \in {1, 2, 4, 5, u, u1, t, t1, c, c + 1}
    BY <1>4
  <2> QED
    BY <1>2, <2>1
<1>6. /\ 2 \in 1 .. Len(doc) /\ 4 \in 1 .. Len(doc) /\ 5 \in 1 .. Len(doc) /\ u \in 1 .. Len(doc)
      /\ u1 \in 1 .. Len(doc) /\ t \in 1 .. Len(doc) /\ t1 \in 1 .. Len(doc) /\ c \in 1 .. Len(doc)
  <2>1. /\ 2 \in 1 .. c + 1 /\ 4 \in 1 .. c + 1 /\ 5 \in 1 .. c + 1 /\ u \in 1 .. c + 1
        /\ u1 \in 1 .. c + 1 /\ t \in 1 .. c + 1 /\ t1 \in 1 .. c + 1 /\ c \in 1 .. c + 1
    BY <1>1
  <2> QED
    BY <1>2, <2>1
<1>7. /\ Position(doc, "<docid>") = 2 /\ Position(doc, "</docid>") = 4
      /\ Position(doc, "<url>") = 5 /\ Position(doc, "</url>") = u
      /\ Position(doc, "<title>") = u1 /\ Position(doc, "</title>") = t
      /\ Position(doc, "<content>") = t1 /\ Position(doc, "</content>") = c
  <2>1. ASSUME NEW tag, NEW i \in 1 .. Len(doc), doc[i] = tag, \A j \in 1 .. Len(doc) : doc[j] = tag => j = i
        PROVE  Position(doc, tag) = i
    <3>1. \A j \in 1 .. Len(doc) : doc[j] = tag => i <= j
      BY <2>1
    <3> QED
      BY <2>1, <3>1, FirstOne
  <2>2. Position(doc, "<docid>") = 2 /\ Position(doc, "</docid>") = 4
    BY <1>2, <1>5, <1>6, <2>1
  <2>3. Position(doc, "<url>") = 5 /\ Position(doc, "</url>") = u
    BY <1>2, <1>5, <1>6, <2>1
  <2>4. Position(doc, "<title>") = u1 /\ Position(doc, "</title>") = t
    BY <1>2, <1>5, <1>6, <2>1
  <2>5. Position(doc, "<content>") = t1 /\ Position(doc, "</content>") = c
    BY <1>2, <1>5, <1>6, <2>1
  <2> QED
    BY <2>2, <2>3, <2>4, <2>5
<1>8. ASSUME NEW begin, NEW end, NEW s \in Seq(S), NEW k \in Nat, NEW m \in Nat,
             Position(doc, begin) = k, Position(doc, end) = m, m - 1 = k + Len(s), Stands(doc, k, s)
      PROVE  Between(doc, begin, end) = s
  <2>1. k < m /\ Len(s) \in Nat
    BY <1>8
  <2>2. SubSeq(doc, k + 1, m - 1) = s
    BY <1>8, Cutout
  <2> QED
    BY <1>8, <2>1, <2>2 DEF Between
<1>9. Between(doc, "<docid>", "</docid>") = <<num>>
  <2>1. <<num>> \in Seq(S) /\ Len(<<num>>) = 1 /\ 4 - 1 = 2 + 1
    OBVIOUS
  <2> QED
    BY <1>2, <1>7, <1>8, <2>1
<1>10. Between(doc, "<url>", "</url>") = L
  BY <1>1, <1>2, <1>7, <1>8
<1>11. Between(doc, "<title>", "</title>") = T
  BY <1>1, <1>2, <1>7, <1>8
<1>12. Between(doc, "<content>", "</content>") = C
  BY <1>1, <1>2, <1>7, <1>8
<1> QED
  BY <1>9, <1>10, <1>11, <1>12 DEF processDoc

\* The page that the engine makes of an article's text.
LEMMA PageIsShown ==
    ASSUME NEW article \in Items, Plain(article), NEW d, ToString(d) \notin Tags
    PROVE  LET page == processDoc(Text(d, article)) IN
           /\ page.docId = <<ToString(d)>> /\ page.title = article.title /\ page.url = article.link
           /\ \A w \in Words(article) : summary(page, {w}) # <<>>
<1> DEFINE L == article.link
           T == article.title
           C == WithoutTags(article.content)
           num == ToString(d)
           S == Tags \union {num} \union Range(L) \union Range(T) \union Range(article.content)
           doc == Text(d, article)
<1>1. L \in Seq(Range(L)) /\ T \in Seq(Range(T)) /\ article.content \in Seq(Range(article.content))
  BY CorporaAssumption
<1>2. C \in Seq(Range(article.content)) /\ Range(C) = Range(article.content) \ Tags
  <2> DEFINE X == article.content
             R == Range(X) \ Tags
  <2>1. C = Only(X, R)
    BY DEF WithoutTags
  <2> HIDE DEF X, R, C
  <2>2. C \in Seq(Range(X)) /\ Range(C) = Range(X) \cap R
    BY <1>1, <2>1, OnlyIs DEF X
  <2> QED
    BY <2>2 DEF X, R
<1>3. L \in Seq(S) /\ T \in Seq(S) /\ C \in Seq(S) /\ Tags \subseteq S /\ num \in S
  <2>1. Range(L) \subseteq S /\ Range(T) \subseteq S /\ Range(article.content) \subseteq S
    OBVIOUS
  <2> HIDE DEF S, L, T, C
  <2>2. \A R \in SUBSET S : \A s \in Seq(R) : s \in Seq(S)
    OBVIOUS
  <2>3. Tags \subseteq S /\ num \in S
    BY DEF S
  <2> QED
    BY <1>1, <1>2, <2>1, <2>2, <2>3 DEF L, T
<1>4. \A x \in Range(L) \union Range(T) \union Range(C) : x \notin Tags
  <2>1. Range(L) \union Range(T) \subseteq Range(L \o T)
    <3> DEFINE s == L
               r == T
    <3>1. s \in Seq(Range(s)) /\ r \in Seq(Range(r))
      BY <1>1
    <3> HIDE DEF s, r
    <3>2. ASSUME NEW i \in DOMAIN s PROVE s[i] \in Range(s \o r)
      <4>1. i \in DOMAIN (s \o r) /\ (s \o r)[i] = s[i]
        BY <3>1
      <4> QED
        BY <4>1 DEF Range
    <3>3. ASSUME NEW i \in DOMAIN r PROVE r[i] \in Range(s \o r)
      <4>1. Len(s) + i \in DOMAIN (s \o r) /\ (s \o r)[Len(s) + i] = r[i]
        BY <3>1
      <4> QED
        BY <4>1 DEF Range
    <3> QED
      BY <3>2, <3>3 DEF Range, s, r
  <2> QED
    BY <1>2, <2>1 DEF Plain
<1>5. doc \in Seq(S) /\ TextOf(doc, num, L, T, C)
  <2>1. doc = <<"<doc>", "<docid>", num, "</docid>">>
                 \o <<"<url>">> \o L \o <<"</url>">>
                 \o <<"<title>">> \o T \o <<"</title>">>
                 \o <<"<content>">> \o C \o <<"</content>", "</doc>">>
    BY DEF Text
  <2> HIDE DEF doc, num, L, T, C, S
  <2> QED
    BY <1>3, <2>1, Fields
<1> DEFINE page == processDoc(doc)
<1>6. page.docId = <<num>> /\ page.url = L /\ page.title = T /\ page.content = C
  <2> HIDE DEF doc, L, T, C, S, num
  <2>1. num \notin Tags
    BY DEF num
  <2> QED
    BY <1>3, <1>4, <1>5, <2>1, TakenApart
<1>7. ASSUME NEW w \in Words(article) PROVE summary(page, {w}) # <<>>
  <2> DEFINE lines == Only(C, {w})
             n == IF Len(lines) < MaxLines THEN Len(lines) ELSE MaxLines
  <2>1. w \in Range(C)
    BY DEF Words
  <2>2. lines \in Seq(S) /\ Range(lines) = Range(C) \cap {w}
    <3> HIDE DEF C, S
    <3> QED
      BY <1>3, OnlyIs
  <2>3. summary(page, {w}) = SubSeq(lines, 1, n)
    <3> HIDE DEF C, page
    <3> QED
      BY <1>6 DEF summary
  <2> HIDE DEF lines
  <2>4. lines # <<>>
    BY <2>1, <2>2 DEF Range
  <2>5. Len(lines) \in Nat \ {0}
    BY <2>2, <2>4
  <2>6. n \in 1 .. Len(lines)
    BY <2>5 DEF MaxLines
  <2> HIDE DEF n
  <2>7. Len(SubSeq(lines, 1, n)) = n
    BY <2>2, <2>6
  <2> QED
    BY <2>3, <2>6, <2>7
<1> QED
  BY <1>6, <1>7

\* A page found by a word is shown with its title and link, and with a line of
\* its content that has the word (rssreader.cc:146-155, webpage.cc:33-87).
THEOREM FoundPagesAreComplete == Spec => []FoundPagesAreShown
<1>1. ASSUME IInv PROVE FoundPagesAreShown
  <2>1. SUFFICES ASSUME server = "serving", ~disturbed, NEW run \in Dumps, IsWhole(loaded, run),
                        NEW p \in index, Plain(Pages(runs[run])[p[2]])
                 PROVE  LET article == Pages(runs[run])[p[2]]
                            page == processDoc(Text(p[2], article))
                        IN  /\ page.docId = <<ToString(p[2])>>
                            /\ page.title = article.title /\ page.url = article.link
                            /\ summary(page, {p[3]}) # <<>>
    BY DEF FoundPagesAreShown
  <2> DEFINE items == runs[run]
             pages == Pages(items)
  <2>2. items \in Corpora /\ ~Fatal(items)
    BY <1>1, RunsAre DEF IInv
  <2>3. PICK q \in Content("index", items) : p = <<run, q[1], q[2]>>
    BY <1>1, <2>1, WholeLibrary
  <2> HIDE DEF items
  <2>4. PICK d \in DOMAIN pages : q \in {d} \X Words(pages[d])
    BY <2>3 DEF Content
  <2>5. p[2] = d /\ p[3] \in Words(pages[d])
    BY <2>3, <2>4
  <2>6. pages \in Seq(Items) /\ Len(pages) \in 1 .. Len(items) /\ items \in Seq(Items)
    BY <2>2, PagesAre, CorporaAssumption
  <2> HIDE DEF pages
  <2>7. pages[d] \in Items /\ d \in DOMAIN items
    BY <2>4, <2>6
  <2>8. ToString(d) \notin Tags
    BY <2>2, <2>7, NumberAssumption
  <2> QED
    BY <2>1, <2>5, <2>7, <2>8, PageIsShown DEF pages, items
<1> QED
  BY <1>1, Invariance, PTL
==============================================================================
