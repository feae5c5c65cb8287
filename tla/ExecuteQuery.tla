---------------------------- MODULE ExecuteQuery ----------------------------
(***************************************************************************)
(* RssSearch::executeQuery: the documents that contain the words of a      *)
(* query, found by walking one iterator over the posting list of each word *)
(* (its entry of _invertIndexTable, ordered by docId).                     *)
(*                                                                         *)
(* The weights that travel with a docId are left out: nothing here depends *)
(* on them.  A word the index lacks has the empty list, which operator[]   *)
(* gives it.                                                               *)
(***************************************************************************)
EXTENDS Integers, Sequences

CONSTANTS
    DocIds,       \* the ids of the indexed documents
    MaxWords,     \* bound: words of a query
    MaxPostings,  \* bound: documents of one posting list
    IntMax        \* 0x7FFFFFFF: above every docId and every size

ASSUME QueryAssumption ==
    /\ IntMax \in Nat
    /\ DocIds \subseteq 0 .. (IntMax - 1)
    /\ MaxWords \in Nat
    /\ MaxPostings \in 0 .. (IntMax - 1)

VARIABLES
    postings,     \* the posting list of each query word
    pc,           \* "sizes", "merge", or the value returned: "true", "false"
    minIterNum,
    iterVec,      \* for each word: its iterator's position, and its steps
    isExit,
    resultVec     \* the docIds found

vars == <<postings, pc, minIterNum, iterVec, isExit, resultVec>>

Ascending(s) == \A i, j \in DOMAIN s : i < j => s[i] < s[j]

PostingLists == UNION {{s \in [1 .. n -> DocIds] : Ascending(s)} : n \in 0 .. MaxPostings}

Queries == UNION {[1 .. n -> PostingLists] : n \in 0 .. MaxWords}

words == DOMAIN postings

\* The docId under the iterator of word i.
DocId(i) == postings[i][iterVec[i].first]

Contains(i, d) == \E k \in DOMAIN postings[i] : postings[i][k] = d

Found(d) == \E k \in DOMAIN resultVec : resultVec[k] = d
-----------------------------------------------------------------------------
Init ==
    /\ postings \in Queries
    /\ pc = "sizes"
    /\ minIterNum = IntMax
    /\ iterVec = <<>>
    /\ isExit = FALSE
    /\ resultVec = <<>>

\* A query without words, or with a word no document has.
NoAnswer ==
    /\ pc = "sizes"
    /\ words = {} \/ \E i \in words : Len(postings[i]) = 0
    /\ pc' = "false"
    /\ UNCHANGED <<postings, minIterNum, iterVec, isExit, resultVec>>

\* Faulty variant: the longest list bounds the merge.
SizesLongest ==
    /\ pc = "sizes"
    /\ words # {}
    /\ \A i \in words : Len(postings[i]) > 0
    /\ \E i \in words :
         /\ minIterNum' = Len(postings[i])
         /\ \A j \in words : Len(postings[i]) >= Len(postings[j])
    /\ iterVec' = [i \in words |-> [first |-> 1, second |-> 0]]
    /\ pc' = "merge"
    /\ UNCHANGED <<postings, isExit, resultVec>>

\* Every iterator at the start of its list, and the size of the shortest one.
Sizes ==
    /\ pc = "sizes"
    /\ words # {}
    /\ \A i \in words : Len(postings[i]) > 0
    /\ \E i \in words :
         /\ minIterNum' = Len(postings[i])
         /\ \A j \in words : Len(postings[i]) <= Len(postings[j])
    /\ iterVec' = [i \in words |-> [first |-> 1, second |-> 0]]
    /\ pc' = "merge"
    /\ UNCHANGED <<postings, isExit, resultVec>>

\* One step of an iterator, counted.
Stepped(it) == [first |-> it.first + 1, second |-> it.second + 1]

\* Neighbours are compared, so all iterators stand on the same document.
AllEqual == \A i \in words : i + 1 \in words => DocId(i) = DocId(i + 1)

\* All iterators on one document: it is an answer, and they all move on.
Match ==
    /\ pc = "merge" /\ ~isExit
    /\ AllEqual
    /\ resultVec' = Append(resultVec, DocId(1))
    /\ iterVec' = [i \in words |-> Stepped(iterVec[i])]
    /\ isExit' = \E i \in words : iterVec'[i].second = minIterNum
    /\ UNCHANGED <<postings, pc, minIterNum>>

\* Faulty variant: the iterator on the largest docId moves.
AdvanceLargest ==
    /\ pc = "merge" /\ ~isExit
    /\ ~AllEqual
    /\ \E i \in words :
         /\ \A j \in words : DocId(i) >= DocId(j)
         /\ iterVec' = [iterVec EXCEPT ![i] = Stepped(@)]
         /\ isExit' = (iterVec'[i].second = minIterNum)
    /\ UNCHANGED <<postings, pc, minIterNum, resultVec>>

\* Faulty variant: the iterator found is not moved.
AdvanceStays ==
    /\ pc = "merge" /\ ~isExit
    /\ ~AllEqual
    /\ UNCHANGED vars

\* The first iterator on the smallest docId moves on.
Advance ==
    /\ pc = "merge" /\ ~isExit
    /\ ~AllEqual
    /\ \E i \in words :
         /\ DocId(i) < IntMax
         /\ \A j \in words : IF j < i THEN DocId(j) > DocId(i) ELSE DocId(j) >= DocId(i)
         /\ iterVec' = [iterVec EXCEPT ![i] = Stepped(@)]
         /\ isExit' = (iterVec'[i].second = minIterNum)
    /\ UNCHANGED <<postings, pc, minIterNum, resultVec>>

Return ==
    /\ pc = "merge" /\ isExit
    /\ pc' = "true"
    /\ UNCHANGED <<postings, minIterNum, iterVec, isExit, resultVec>>

Next == NoAnswer \/ Sizes \/ Match \/ Advance \/ Return

Spec == Init /\ [][Next]_vars

\* A function that has been called runs on.
FairSpec == Spec /\ WF_vars(Next)
-----------------------------------------------------------------------------
TypeOK ==
    /\ postings \in Queries
    /\ pc \in {"sizes", "merge", "true", "false"}
    /\ minIterNum \in 0 .. IntMax
    /\ iterVec = <<>> \/ iterVec \in [words -> [first : Nat, second : 0 .. minIterNum]]
    /\ isExit \in BOOLEAN
    /\ resultVec \in Seq(DocIds)

\* No iterator is dereferenced or moved at the end of its list: the count of
\* steps stops the merge before the shortest list is overrun, and no other
\* list can be overrun first (rsssearch.cc:290-328).
IteratorsInside ==
    pc = "merge" /\ ~isExit => \A i \in words : iterVec[i].first \in DOMAIN postings[i]

\* Every document in the result contains every word of the query.
AnswersMatch ==
    \A k \in DOMAIN resultVec : \A i \in words : Contains(i, resultVec[k])

\* The result lists each document once, in the order of docId, although the
\* iterators move at different times; the stable_sort of doQuery then ranks
\* documents of equal similarity by docId.
AnswersAscend == Ascending(resultVec)

\* What the merge computes when it returns true: the documents that stand, in
\* every list, among the first minIterNum entries, minIterNum being the size of
\* the shortest list.  Any iterator that has made minIterNum steps ends the
\* merge, not only that of the shortest list (rsssearch.cc:308 and 325).
AnswersAreCommonPrefix ==
    pc = "true" =>
        \A d \in DocIds :
            Found(d) <=> \A i \in words : \E k \in 1 .. minIterNum : postings[i][k] = d

\* The merge ends, whatever the lists.
Returns == <>(pc \in {"true", "false"})

\* "make intersection" (rsssearch.cc:288): when the function returns true, the
\* result is the intersection of the lists.
MakesIntersection ==
    pc = "true" => \A d \in DocIds : (\A i \in words : Contains(i, d)) => Found(d)
=============================================================================
