\* Three words can exhaust three iterators in any order; with five documents
\* the shortest list ends before, at and after the exit test of the others.
CONSTANTS
    DocIds <- MCDocIds
    MaxWords = 3
    MaxPostings = 5
    IntMax = 7
SPECIFICATION FairSpec
INVARIANTS IteratorsInside AnswersAreCommonPrefix
PROPERTY Returns
\* A function that has returned takes no more steps.
CHECK_DEADLOCK FALSE
