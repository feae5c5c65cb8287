\* A queue of one makes addTask block; one spurious wakeup.  No symmetry: the
\* properties are liveness properties.
SPECIFICATION FairSpec
CONSTANTS
    Workers = {w1, w2}
    Io = io
    NoThread = none
    NoTask = null
    QueSize = 1
    MaxTasks = 3
    MaxSpurious = 1
\* The pool stops after stop(), or hangs in join when a broadcast was missed.
CHECK_DEADLOCK FALSE
PROPERTIES
    EveryTaskRuns
    StopReturns
    ImplementsFairService
