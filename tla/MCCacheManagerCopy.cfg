\* The claim of the comments over the copy constructor; one thread and two
\* keys refute it.
CONSTANTS
    Keys = {k1, files}
    Data <- MCData
    line = line
    answer = answer
    files = files
    Lines <- MCLines
    Capacity = 2
    CacheNum = 1
    MaxUses = 2
SPECIFICATION Spec
INVARIANT CopyIsDuplicate
