\* The claim of the comment over the merge; two words and three documents
\* are enough to refute it.
CONSTANTS
    DocIds <- MCDocIds
    MaxWords = 2
    MaxPostings = 2
    IntMax = 7
SPECIFICATION Spec
INVARIANT MakesIntersection
CHECK_DEADLOCK FALSE
