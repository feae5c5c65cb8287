------------------------- MODULE ExecuteQueryProofs -------------------------
(***************************************************************************)
(* For any documents, words and lists: no iterator overruns its list, and  *)
(* the result is what the first minIterNum entries of the lists share.     *)
(***************************************************************************)
EXTENDS ExecuteQuery, FiniteSetTheorems, WellFoundedInduction, TLAPS

USE QueryAssumption DEF QueryAssumption

-----------------------------------------------------------------------------
(* Posting lists                                                           *)

LEMMA FunctionLen ==
    ASSUME NEW S, NEW n \in Nat, NEW s \in [1 .. n -> S]
    PROVE  s \in Seq(S) /\ Len(s) = n
OBVIOUS

LEMMA PostingList ==
    ASSUME NEW s \in PostingLists
    PROVE  /\ Len(s) \in 0 .. MaxPostings
           /\ DOMAIN s = 1 .. Len(s)
           /\ \A k \in 1 .. Len(s) : s[k] \in DocIds
           /\ \A j, k \in 1 .. Len(s) : j < k => s[j] < s[k]
<1>1. PICK n \in 0 .. MaxPostings : s \in [1 .. n -> DocIds] /\ Ascending(s)
  BY DEF PostingLists
<1>2. n \in Nat /\ Len(s) = n
  BY <1>1, FunctionLen
<1> QED
  BY <1>1, <1>2 DEF Ascending

\* What the steps use of a query: how many words, and lists in order.
LEMMA Lists ==
    ASSUME postings \in Queries
    PROVE  /\ \E n \in 0 .. MaxWords : words = 1 .. n
           /\ \A i \in words :
                /\ Len(postings[i]) \in 0 .. MaxPostings
                /\ DOMAIN postings[i] = 1 .. Len(postings[i])
                /\ \A k \in 1 .. Len(postings[i]) : postings[i][k] \in DocIds
                /\ \A j, k \in 1 .. Len(postings[i]) :
                      j < k => postings[i][j] < postings[i][k]
<1>1. PICK n \in 0 .. MaxWords : postings \in [1 .. n -> PostingLists]
  BY DEF Queries
<1>2. words = 1 .. n /\ \A i \in words : postings[i] \in PostingLists
  BY <1>1 DEF words
<1> QED
  BY <1>2, PostingList

-----------------------------------------------------------------------------
(* The merge                                                               *)

Merging == pc \in {"merge", "true"}

\* Each iterator has made as many steps as its position shows, and none has
\* passed the size of the shortest list; the merge ends when one reaches it.
Positions ==
    /\ iterVec \in [words -> [first : Nat, second : Nat]]
    /\ minIterNum \in 1 .. MaxPostings
    /\ \A i \in words :
         /\ minIterNum <= Len(postings[i])
         /\ iterVec[i].first = iterVec[i].second + 1
         /\ iterVec[i].second <= minIterNum
         /\ ~isExit => iterVec[i].second < minIterNum
    /\ words # {}
    /\ isExit => \E i \in words : iterVec[i].second = minIterNum

\* What has been found is behind every iterator.
FoundIsPassed ==
    \A k \in DOMAIN resultVec : \A i \in words :
        \E j \in 1 .. (iterVec[i].first - 1) : postings[i][j] = resultVec[k]

\* A document of all lists that one iterator has left behind has been found.
PassedIsFound ==
    \A i \in words : \A j \in 1 .. (iterVec[i].first - 1) :
        (\A h \in words : Contains(h, postings[i][j])) => Found(postings[i][j])

Merge ==
    /\ postings \in Queries
    /\ pc \in {"sizes", "merge", "true", "false"}
    /\ isExit \in BOOLEAN
    /\ resultVec \in Seq(DocIds)
    /\ ~Merging => minIterNum = IntMax /\ iterVec = <<>> /\ ~isExit /\ resultVec = <<>>
    /\ pc = "true" => isExit
    /\ Merging => Positions /\ FoundIsPassed /\ PassedIsFound
    /\ AnswersAscend

\* Every inhabited set of naturals has a least element: the intervals below
\* its elements are finite sets, and those have one that is minimal.
LEMMA LeastNatural ==
    ASSUME NEW T, T \subseteq Nat, T # {}
    PROVE  \E m \in T : \A k \in T : m <= k
<1> DEFINE D == {1 .. m : m \in T}
<1>1. \A m \in Nat : 1 .. m \in FiniteSubsetsOf(Nat)
  BY FS_Interval DEF FiniteSubsetsOf
<1>2. D \subseteq FiniteSubsetsOf(Nat) /\ D # {}
  BY <1>1
<1> HIDE DEF D
<1>3. \E A \in D : \A B \in D : <<B, A>> \notin StrictSubsetOrdering(Nat)
  BY <1>2, FS_StrictSubsetOrderingWellFounded, WFMin
<1>4. PICK m \in T : \A k \in T : <<1 .. k, 1 .. m>> \notin StrictSubsetOrdering(Nat)
  BY <1>3 DEF D
<1>5. ASSUME NEW k \in T, k < m PROVE FALSE
  <2>1. 1 .. k \subseteq 1 .. m /\ m \in 1 .. m /\ m \notin 1 .. k
    BY <1>5
  <2>2. 1 .. k \in SUBSET Nat /\ 1 .. m \in SUBSET Nat
    OBVIOUS
  <2>3. <<1 .. k, 1 .. m>> \in StrictSubsetOrdering(Nat)
    BY <2>1, <2>2 DEF StrictSubsetOrdering
  <2> QED
    BY <1>4, <2>3
<1> QED
  BY <1>5

\* Comparing neighbours compares all: take the first word that disagrees with
\* the first one.
LEMMA NeighboursSuffice ==
    ASSUME NEW n \in Nat, words = 1 .. n, AllEqual
    PROVE  \A i \in words : DocId(i) = DocId(1)
<1> DEFINE Bad == {i \in words : DocId(i) # DocId(1)}
<1> SUFFICES ASSUME Bad # {} PROVE FALSE
  OBVIOUS
<1>1. Bad \subseteq Nat /\ Bad \subseteq words
  OBVIOUS
<1>2. PICK i \in Bad : \A j \in Bad : i <= j
  <2> HIDE DEF Bad
  <2> QED
    BY <1>1, LeastNatural
<1>3. i \in 1 .. n /\ i # 1
  BY <1>2
<1>4. i - 1 \in words /\ i - 1 \notin Bad
  BY <1>2, <1>3
<1>5. DocId(i - 1) = DocId(i - 1 + 1)
  BY <1>3, <1>4 DEF AllEqual
<1> QED
  BY <1>2, <1>3, <1>4, <1>5

LEMMA InitMerge == Init => Merge
<1> SUFFICES ASSUME Init PROVE Merge
  OBVIOUS
<1>1. resultVec \in Seq(DocIds) /\ AnswersAscend
  BY DEF Init, AnswersAscend, Ascending
<1> QED
  BY <1>1 DEF Init, Merge, Merging

\* The iterators stand inside their lists while the merge goes on.
LEMMA Inside ==
    ASSUME Merge, pc = "merge", ~isExit
    PROVE  \A i \in words : /\ iterVec[i].first \in DOMAIN postings[i]
                           /\ DocId(i) \in DocIds
<1>1. Positions
  BY DEF Merge, Merging
<1> SUFFICES ASSUME NEW i \in words
             PROVE  iterVec[i].first \in DOMAIN postings[i] /\ DocId(i) \in DocIds
  OBVIOUS
<1>2. iterVec[i].first \in 1 .. Len(postings[i])
  BY <1>1, Lists DEF Positions, Merge
<1> QED
  BY <1>2, Lists DEF DocId, Merge

\* An answer: every iterator moves past the document they all stand on.
LEMMA MatchStep == Merge /\ Match => Merge'
<1> SUFFICES ASSUME Merge, Match PROVE Merge'
  OBVIOUS
<1>1. /\ Positions /\ FoundIsPassed /\ PassedIsFound /\ Merging /\ Merging'
      /\ postings \in Queries /\ pc = "merge" /\ pc' = "merge"
  BY DEF Merge, Merging, Match
<1>2. PICK n \in 0 .. MaxWords : words = 1 .. n
  BY Lists DEF Merge
<1>3. 1 \in words
  BY <1>1, <1>2 DEF Positions
<1> DEFINE d == DocId(1)
<1>4. /\ \A i \in words : iterVec[i].first \in DOMAIN postings[i]
      /\ \A i \in words : postings[i][iterVec[i].first] = d
      /\ d \in DocIds
  <2>1. ~isExit /\ AllEqual
    BY DEF Match
  <2>2. \A i \in words : DocId(i) = DocId(1)
    BY <1>2, <2>1, NeighboursSuffice
  <2> QED
    BY <1>1, <1>3, <2>1, <2>2, Inside DEF DocId
<1> HIDE DEF d
<1>5. /\ UNCHANGED <<postings, pc, minIterNum>> /\ words' = words
      /\ resultVec \in Seq(DocIds)
      /\ resultVec' = Append(resultVec, d)
      /\ iterVec' = [i \in words |-> Stepped(iterVec[i])]
      /\ isExit' = \E i \in words : iterVec'[i].second = minIterNum
  BY DEF Match, Merge, words, d
<1>6. /\ iterVec' \in [words -> [first : Nat, second : Nat]]
      /\ \A i \in words : /\ iterVec'[i].first = iterVec[i].first + 1
                          /\ iterVec'[i].second = iterVec[i].second + 1
  BY <1>1, <1>5 DEF Stepped, Positions
<1>7. Positions'
  BY <1>1, <1>5, <1>6, Lists DEF Positions, Match
<1>8. /\ resultVec' \in Seq(DocIds)
      /\ Len(resultVec) \in Nat
      /\ DOMAIN resultVec = 1 .. Len(resultVec)
      /\ DOMAIN resultVec' = 1 .. Len(resultVec) + 1
      /\ \A k \in 1 .. Len(resultVec) : resultVec'[k] = resultVec[k]
      /\ resultVec'[Len(resultVec) + 1] = d
  BY <1>4, <1>5
<1>9. FoundIsPassed'
  <2> SUFFICES ASSUME NEW k \in DOMAIN resultVec', NEW i \in words
               PROVE  \E j \in 1 .. (iterVec'[i].first - 1) : postings[i][j] = resultVec'[k]
    BY <1>5 DEF FoundIsPassed
  <2>1. iterVec[i].first \in Nat /\ iterVec[i].first >= 1
    BY <1>1 DEF Positions
  <2>2. CASE k \in 1 .. Len(resultVec)
    <3>1. PICK j \in 1 .. (iterVec[i].first - 1) : postings[i][j] = resultVec[k]
      BY <1>1, <1>8, <2>2 DEF FoundIsPassed
    <3> QED
      BY <1>6, <1>8, <2>1, <2>2, <3>1
  <2>3. CASE k = Len(resultVec) + 1
    BY <1>4, <1>6, <1>8, <2>1, <2>3
  <2> QED
    BY <1>8, <2>2, <2>3
<1>10. PassedIsFound'
  <2> DEFINE FoundNext(e) == \E k \in DOMAIN resultVec' : resultVec'[k] = e
  <2>1. \A e : Found(e) => FoundNext(e)
    BY <1>8 DEF Found
  <2>2. FoundNext(d)
    BY <1>8
  <2> HIDE DEF FoundNext
  <2>3. ASSUME NEW i \in words, NEW j \in 1 .. (iterVec'[i].first - 1),
               \A h \in words : Contains(h, postings[i][j])
        PROVE  FoundNext(postings[i][j])
    <3>1. j \in 1 .. (iterVec[i].first - 1) \/ j = iterVec[i].first
      BY <1>1, <1>6 DEF Positions
    <3>2. CASE j \in 1 .. (iterVec[i].first - 1)
      BY <1>1, <2>1, <2>3, <3>2 DEF PassedIsFound
    <3>3. CASE j = iterVec[i].first
      BY <1>4, <2>2, <3>3
    <3> QED
      BY <3>1, <3>2, <3>3
  <2>4. \A i \in words : \A j \in 1 .. (iterVec'[i].first - 1) :
           (\A h \in words : \E k \in DOMAIN postings[h] : postings[h][k] = postings[i][j])
           => \E k \in DOMAIN resultVec' : resultVec'[k] = postings[i][j]
    BY <2>3 DEF Contains, FoundNext
  <2>5. words' = words /\ postings' = postings
    BY <1>5
  <2> QED
    BY <2>4, <2>5 DEF PassedIsFound, Contains, Found
<1>11. AnswersAscend'
  <2> SUFFICES ASSUME NEW j \in 1 .. Len(resultVec) + 1, NEW k \in 1 .. Len(resultVec) + 1, j < k
               PROVE  resultVec'[j] < resultVec'[k]
    BY <1>8 DEF AnswersAscend, Ascending
  <2>1. j \in 1 .. Len(resultVec)
    BY <1>8
  <2>2. CASE k \in 1 .. Len(resultVec)
    BY <1>8, <2>1, <2>2 DEF Merge, AnswersAscend, Ascending
  <2>3. CASE k = Len(resultVec) + 1
    <3>1. PICK p \in 1 .. (iterVec[1].first - 1) : postings[1][p] = resultVec[j]
      BY <1>1, <1>3, <1>8, <2>1 DEF FoundIsPassed
    <3>2. iterVec[1].first \in Nat /\ p < iterVec[1].first
      BY <1>1, <1>3, <3>1 DEF Positions
    <3>3. postings[1][p] < postings[1][iterVec[1].first]
      <4>1. /\ DOMAIN postings[1] = 1 .. Len(postings[1])
            /\ \A a, b \in 1 .. Len(postings[1]) : a < b => postings[1][a] < postings[1][b]
        BY <1>1, <1>3, Lists
      <4>2. Len(postings[1]) \in Nat
        BY <1>1, <1>3, Lists
      <4>3. iterVec[1].first \in 1 .. Len(postings[1])
        BY <1>3, <1>4, <4>1
      <4> QED
        BY <3>1, <3>2, <4>1, <4>2, <4>3
    <3> QED
      BY <1>3, <1>4, <1>8, <2>1, <2>3, <3>1, <3>3
  <2> QED
    BY <2>2, <2>3
<1>12. isExit' \in BOOLEAN
  BY <1>5
<1> QED
  BY <1>1, <1>5, <1>7, <1>8, <1>9, <1>10, <1>11, <1>12 DEF Merge, Merging

\* The smallest document is left behind: some other list lacks it, or holds it
\* behind its iterator.
LEMMA AdvanceStep == Merge /\ Advance => Merge'
<1> SUFFICES ASSUME Merge, Advance PROVE Merge'
  OBVIOUS
<1>1. /\ Positions /\ FoundIsPassed /\ PassedIsFound /\ Merging /\ Merging'
      /\ postings \in Queries /\ pc = "merge" /\ pc' = "merge" /\ ~isExit
      /\ UNCHANGED <<postings, pc, minIterNum, resultVec>> /\ words' = words
  BY DEF Merge, Merging, Advance, words
<1>2. /\ \A i \in words : iterVec[i].first \in 1 .. Len(postings[i])
      /\ \A i \in words : DocId(i) \in Nat
      /\ \A i \in words : DocId(i) = postings[i][iterVec[i].first]
      /\ \A i \in words : Len(postings[i]) \in Nat
  <2>1. \A i \in words : iterVec[i].first \in DOMAIN postings[i] /\ DocId(i) \in DocIds
    BY <1>1, Inside
  <2>2. \A i \in words : DOMAIN postings[i] = 1 .. Len(postings[i])
    BY <1>1, Lists
  <2>3. \A i \in words : Len(postings[i]) \in Nat
    BY <1>1, Lists
  <2>4. DocIds \subseteq Nat
    OBVIOUS
  <2> QED
    <3>1. \A i \in words : DocId(i) \in Nat
      BY <2>1, <2>4
    <3>2. \A i \in words : iterVec[i].first \in 1 .. Len(postings[i])
      BY <2>1, <2>2
    <3>3. \A i \in words : DocId(i) = postings[i][iterVec[i].first]
      BY DEF DocId
    <3> QED
      BY <2>3, <3>1, <3>2, <3>3
<1>3. PICK i \in words :
        /\ \A j \in words : DocId(j) >= DocId(i)
        /\ iterVec' = [iterVec EXCEPT ![i] = Stepped(@)]
        /\ isExit' <=> iterVec'[i].second = minIterNum
  <2>1. PICK i \in words :
          /\ \A j \in words : IF j < i THEN DocId(j) > DocId(i) ELSE DocId(j) >= DocId(i)
          /\ iterVec' = [iterVec EXCEPT ![i] = Stepped(@)]
          /\ isExit' = (iterVec'[i].second = minIterNum)
    BY DEF Advance
  <2>2. \A j \in words : DocId(j) > DocId(i) => DocId(j) >= DocId(i)
    BY <1>2
  <2>3. \A j \in words : DocId(j) >= DocId(i)
    BY <2>1, <2>2
  <2>4. isExit' <=> iterVec'[i].second = minIterNum
    BY <2>1
  <2> QED
    BY <2>1, <2>3, <2>4
<1>4. /\ iterVec' \in [words -> [first : Nat, second : Nat]]
      /\ iterVec'[i].first = iterVec[i].first + 1
      /\ iterVec'[i].second = iterVec[i].second + 1
      /\ \A j \in words : j # i => iterVec'[j] = iterVec[j]
  BY <1>1, <1>3 DEF Stepped, Positions
<1>5. Positions'
  <2>1. /\ minIterNum \in Nat
        /\ \A j \in words : iterVec[j].first \in Nat /\ iterVec[j].second \in Nat
        /\ iterVec[i].second < minIterNum
    BY <1>1, <1>2, <1>3 DEF Positions
  <2>2. \A j \in words :
          /\ minIterNum <= Len(postings[j])
          /\ iterVec'[j].first = iterVec'[j].second + 1
          /\ iterVec'[j].second <= minIterNum
          /\ ~isExit' => iterVec'[j].second < minIterNum
    <3> SUFFICES ASSUME NEW j \in words
                 PROVE  /\ minIterNum <= Len(postings[j])
                        /\ iterVec'[j].first = iterVec'[j].second + 1
                        /\ iterVec'[j].second <= minIterNum
                        /\ ~isExit' => iterVec'[j].second < minIterNum
      OBVIOUS
    <3>1. /\ minIterNum <= Len(postings[j])
          /\ iterVec[j].first = iterVec[j].second + 1
          /\ iterVec[j].second <= minIterNum
          /\ iterVec[j].second < minIterNum
      BY <1>1 DEF Positions
    <3>2. CASE j = i
      BY <1>3, <1>4, <2>1, <3>1, <3>2
    <3>3. CASE j # i
      BY <1>4, <2>1, <3>1, <3>3
    <3> QED
      BY <3>2, <3>3
  <2>3. isExit' => \E j \in words : iterVec'[j].second = minIterNum
    BY <1>3
  <2>4. words # {} /\ minIterNum \in 1 .. MaxPostings
    BY <1>1 DEF Positions
  <2> QED
    BY <1>1, <1>4, <2>2, <2>3, <2>4 DEF Positions
<1>6. FoundIsPassed'
  <2> SUFFICES ASSUME NEW k \in DOMAIN resultVec, NEW j \in words
               PROVE  \E p \in 1 .. (iterVec'[j].first - 1) : postings[j][p] = resultVec[k]
    BY <1>1 DEF FoundIsPassed
  <2>1. PICK p \in 1 .. (iterVec[j].first - 1) : postings[j][p] = resultVec[k]
    BY <1>1 DEF FoundIsPassed
  <2>2. p \in 1 .. (iterVec'[j].first - 1)
    <3>1. iterVec[j].first \in Nat
      BY <1>1 DEF Positions
    <3>2. iterVec'[j].first = iterVec[j].first \/ iterVec'[j].first = iterVec[j].first + 1
      BY <1>4
    <3> QED
      BY <2>1, <3>1, <3>2
  <2> QED
    BY <2>1, <2>2
<1>7. \E h \in words : DocId(h) > DocId(i)
  <2>1. PICK h \in words : h + 1 \in words /\ DocId(h) # DocId(h + 1)
    BY DEF Advance, AllEqual
  <2> QED
    BY <1>2, <1>3, <2>1
<1>8. (\A h \in words : Contains(h, DocId(i))) => Found(DocId(i))
  <2> SUFFICES ASSUME \A h \in words : Contains(h, DocId(i)) PROVE Found(DocId(i))
    OBVIOUS
  <2>1. PICK h \in words : DocId(h) > DocId(i)
    BY <1>7
  <2>2. PICK k \in 1 .. Len(postings[h]) : postings[h][k] = DocId(i)
    BY <1>1, Lists DEF Contains
  <2>3. k < iterVec[h].first
    <3>1. \A p, q \in 1 .. Len(postings[h]) : p < q => postings[h][p] < postings[h][q]
      BY <1>1, Lists
    <3>2. /\ iterVec[h].first \in 1 .. Len(postings[h]) /\ Len(postings[h]) \in Nat
          /\ DocId(h) \in Nat /\ DocId(i) \in Nat /\ postings[h][iterVec[h].first] = DocId(h)
      BY <1>2
    <3>3. k = iterVec[h].first \/ k < iterVec[h].first \/ iterVec[h].first < k
      BY <2>2, <3>2
    <3>4. k # iterVec[h].first
      BY <2>1, <2>2, <3>2
    <3>5. iterVec[h].first < k => DocId(h) < DocId(i)
      BY <2>2, <3>1, <3>2
    <3> QED
      BY <2>1, <3>2, <3>3, <3>4, <3>5
  <2>4. k \in 1 .. (iterVec[h].first - 1)
    BY <1>2, <2>2, <2>3
  <2> QED
    BY <1>1, <2>2, <2>4 DEF PassedIsFound
<1>9. PassedIsFound'
  <2> SUFFICES ASSUME NEW j \in words, NEW p \in 1 .. (iterVec'[j].first - 1),
                      \A h \in words : Contains(h, postings[j][p])
               PROVE  Found(postings[j][p])
    BY <1>1 DEF PassedIsFound, Contains, Found
  <2>1. CASE p \in 1 .. (iterVec[j].first - 1)
    BY <1>1, <2>1 DEF PassedIsFound
  <2>2. CASE j = i /\ p = iterVec[i].first
    BY <1>2, <1>8, <2>2
  <2> QED
    BY <1>2, <1>4, <2>1, <2>2
<1>10. isExit' \in BOOLEAN /\ AnswersAscend'
  <2>1. isExit' \in BOOLEAN
    BY DEF Advance
  <2> QED
    BY <1>1, <2>1 DEF AnswersAscend, Merge, Ascending
<1> QED
  BY <1>1, <1>5, <1>6, <1>9, <1>10 DEF Merge, Merging

LEMMA StepMerge == Merge /\ [Next]_vars => Merge'
<1> SUFFICES ASSUME Merge, [Next]_vars PROVE Merge'
  OBVIOUS
<1>1. CASE NoAnswer
  BY <1>1 DEF NoAnswer, Merge, Merging, AnswersAscend, Ascending
<1>2. CASE Sizes
  <2>1. PICK i \in words :
          /\ minIterNum' = Len(postings[i])
          /\ \A j \in words : Len(postings[i]) <= Len(postings[j])
    BY <1>2 DEF Sizes
  <2>2. /\ pc' = "merge" /\ words # {} /\ UNCHANGED <<postings, isExit, resultVec>>
        /\ ~isExit /\ resultVec = <<>> /\ words' = words /\ postings \in Queries
        /\ iterVec' = [j \in words |-> [first |-> 1, second |-> 0]]
        /\ \A j \in words : Len(postings[j]) > 0
    BY <1>2 DEF Sizes, Merge, Merging, words
  <2>3. /\ iterVec' \in [words -> [first : Nat, second : Nat]]
        /\ \A j \in words : iterVec'[j].first = 1 /\ iterVec'[j].second = 0
    BY <2>2
  <2>4. \A j \in words : Len(postings[j]) \in 1 .. MaxPostings
    BY <2>2, Lists
  <2>5. Positions'
    BY <2>1, <2>2, <2>3, <2>4 DEF Positions
  <2>6. FoundIsPassed' /\ PassedIsFound' /\ AnswersAscend'
    BY <2>2, <2>3 DEF FoundIsPassed, PassedIsFound, AnswersAscend, Ascending
  <2> QED
    BY <2>2, <2>5, <2>6 DEF Merge, Merging
<1>3. CASE Match
  BY <1>3, MatchStep
<1>4. CASE Advance
  BY <1>4, AdvanceStep
<1>5. CASE Return
  <2>1. UNCHANGED <<postings, minIterNum, iterVec, isExit, resultVec>> /\ words' = words
    BY <1>5 DEF Return, words
  <2>2. (Positions /\ FoundIsPassed /\ PassedIsFound) /\ pc' = "true" /\ isExit
    BY <1>5 DEF Return, Merge, Merging
  <2>3. Positions' /\ FoundIsPassed'
    BY <2>1, <2>2 DEF Positions, FoundIsPassed
  <2>4. PassedIsFound'
    BY <2>1, <2>2 DEF PassedIsFound, Contains, Found
  <2> QED
    BY <2>1, <2>2, <2>3, <2>4 DEF Merge, Merging, AnswersAscend, Ascending
<1>6. CASE UNCHANGED vars
  <2>1. words' = words
    BY <1>6 DEF vars, words
  <2> QED
    BY <1>6, <2>1 DEF vars, Merge, Merging, Positions, FoundIsPassed, PassedIsFound,
                      Contains, Found, AnswersAscend, Ascending
<1> QED
  BY <1>1, <1>2, <1>3, <1>4, <1>5, <1>6 DEF Next

LEMMA AlwaysMerge == Spec => []Merge
<1> QED
  BY InitMerge, StepMerge, PTL DEF Spec
-----------------------------------------------------------------------------
\* The merge never dereferences or moves an iterator at the end of its list.
THEOREM StaysInside == Spec => []IteratorsInside
<1>1. Merge => IteratorsInside
  BY Inside DEF IteratorsInside
<1> QED
  BY <1>1, AlwaysMerge, PTL

\* Every document of the result contains all words of the query.
THEOREM AnswersContainWords == Spec => []AnswersMatch
<1>1. Merge => AnswersMatch
  <2> SUFFICES ASSUME Merge, NEW k \in DOMAIN resultVec, NEW i \in words
               PROVE  Contains(i, resultVec[k])
    BY DEF AnswersMatch
  <2>1. Positions /\ FoundIsPassed
    BY DEF Merge
  <2>2. PICK j \in 1 .. (iterVec[i].first - 1) : postings[i][j] = resultVec[k]
    BY <2>1 DEF FoundIsPassed
  <2>3. DOMAIN postings[i] = 1 .. Len(postings[i]) /\ Len(postings[i]) \in Nat
    BY Lists DEF Merge
  <2>4. /\ minIterNum \in Nat /\ minIterNum <= Len(postings[i])
        /\ iterVec[i].second \in Nat /\ iterVec[i].second <= minIterNum
        /\ iterVec[i].first = iterVec[i].second + 1
    BY <2>1 DEF Positions
  <2>5. j \in 1 .. Len(postings[i])
    BY <2>3, <2>4
  <2> QED
    BY <2>2, <2>3, <2>5 DEF Contains
<1> QED
  BY <1>1, AlwaysMerge, PTL

\* The result lists each document once, by docId.
THEOREM AnswersInOrder == Spec => []AnswersAscend
<1>1. Merge => AnswersAscend
  BY DEF Merge
<1> QED
  BY <1>1, AlwaysMerge, PTL

\* What is returned is what the lists share in their first minIterNum entries,
\* minIterNum being the size of the shortest.
THEOREM AnswersExactly == Spec => []AnswersAreCommonPrefix
<1>1. Merge => AnswersAreCommonPrefix
  <2> SUFFICES ASSUME Merge, pc = "true", NEW d \in DocIds
               PROVE  Found(d) <=> \A i \in words : \E k \in 1 .. minIterNum : postings[i][k] = d
    BY DEF AnswersAreCommonPrefix
  <2>1. Positions /\ FoundIsPassed /\ PassedIsFound /\ isExit
    BY DEF Merge, Merging
  <2>2. /\ minIterNum \in Nat
        /\ \A i \in words : /\ iterVec[i].first \in Nat
                            /\ iterVec[i].first <= minIterNum + 1
                            /\ minIterNum <= Len(postings[i])
                            /\ DOMAIN postings[i] = 1 .. Len(postings[i])
                            /\ Len(postings[i]) \in Nat
    <3>1. postings \in Queries
      BY DEF Merge
    <3>2. \A i \in words : /\ DOMAIN postings[i] = 1 .. Len(postings[i])
                           /\ Len(postings[i]) \in Nat
      BY <3>1, Lists
    <3>3. minIterNum \in Nat /\ \A i \in words : iterVec[i].second \in Nat
      BY <2>1 DEF Positions
    <3>4. \A i \in words : /\ iterVec[i].first \in Nat
                           /\ iterVec[i].first <= minIterNum + 1
                           /\ minIterNum <= Len(postings[i])
      BY <2>1, <3>3 DEF Positions
    <3> QED
      BY <3>2, <3>3, <3>4
  <2>3. ASSUME Found(d), NEW i \in words
        PROVE  \E k \in 1 .. minIterNum : postings[i][k] = d
    <3>1. PICK j \in 1 .. (iterVec[i].first - 1) : postings[i][j] = d
      BY <2>1, <2>3 DEF Found, FoundIsPassed
    <3> QED
      BY <2>2, <3>1
  <2>4. ASSUME \A i \in words : \E k \in 1 .. minIterNum : postings[i][k] = d
        PROVE  Found(d)
    <3>1. PICK i \in words : iterVec[i].second = minIterNum
      BY <2>1 DEF Positions
    <3>2. iterVec[i].first = minIterNum + 1
      BY <2>1, <3>1 DEF Positions
    <3>3. PICK k \in 1 .. (iterVec[i].first - 1) : postings[i][k] = d
      BY <2>2, <2>4, <3>2
    <3>4. \A h \in words : Contains(h, d)
      BY <2>2, <2>4 DEF Contains
    <3> QED
      BY <2>1, <3>3, <3>4 DEF PassedIsFound
  <2> QED
    BY <2>3, <2>4
<1> QED
  BY <1>1, AlwaysMerge, PTL

\* Types, the counts of steps bounded by the shortest list included.
THEOREM QueryTypes == Spec => []TypeOK
<1>1. Merge => TypeOK
  <2> SUFFICES ASSUME Merge PROVE TypeOK
    OBVIOUS
  <2>1. CASE Merging
    <3>1. Positions
      BY <2>1 DEF Merge
    <3>2. minIterNum \in 0 .. IntMax
      BY <3>1 DEF Positions
    <3>3. \A i \in words : iterVec[i] \in [first : Nat, second : 0 .. minIterNum]
      <4> SUFFICES ASSUME NEW i \in words
                   PROVE  iterVec[i] \in [first : Nat, second : 0 .. minIterNum]
        OBVIOUS
      <4>1. iterVec[i] \in [first : Nat, second : Nat] /\ iterVec[i].second <= minIterNum
        BY <3>1 DEF Positions
      <4> QED
        BY <3>2, <4>1
    <3>4. iterVec \in [words -> [first : Nat, second : 0 .. minIterNum]]
      BY <3>1, <3>3 DEF Positions
    <3> QED
      BY <3>2, <3>4 DEF TypeOK, Merge
  <2>2. CASE ~Merging
    BY <2>2 DEF TypeOK, Merge
  <2> QED
    BY <2>1, <2>2
<1> QED
  BY <1>1, AlwaysMerge, PTL
=============================================================================
