\* Three workers, a queue of two, five tasks: the queue fills, the owner
\* sleeps in push, signals are overtaken, stop meets busy and idle workers.
SPECIFICATION Spec
CONSTANTS
    Workers = {w1, w2, w3}
    Io = io
    NoThread = none
    NoTask = null
    QueSize = 2
    MaxTasks = 5
    MaxSpurious = 2
SYMMETRY WorkerSymmetry
\* The pool stops after stop(), or hangs in join when a broadcast was missed.
CHECK_DEADLOCK FALSE
INVARIANTS
    NoPopFromEmpty
    NoStrandedTask
    ExactlyOnce
    DrainedOnStop
    OnlyLateSleepers
PROPERTY
    ImplementsService
