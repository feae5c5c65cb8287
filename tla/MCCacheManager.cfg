\* Three keys and caches of two, so that uses, merges and copies evict; three
\* threads, so that a merge meets keys that an earlier one brought or evicted.
CONSTANTS
    Keys = {k1, k2, files}
    Data <- MCData
    line = line
    answer = answer
    files = files
    Lines <- MCLines
    Capacity = 2
    CacheNum = 3
    MaxUses = 3
SPECIFICATION Spec
SYMMETRY KeySymmetry
INVARIANTS MapMatchesList KeepsMostRecent CachesAgree NothingForgotten
PROPERTY StartKeepsOrder
