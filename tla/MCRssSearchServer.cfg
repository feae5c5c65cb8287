\* More clients than descriptors, so that accept fails and descriptors are used
\* again; two tasks, so that functors of two workers meet; one event at a time
\* from epoll_wait or all, as its list grows.
SPECIFICATION Spec
CONSTANTS
    Clients = {c1, c2, c3}
    Workers = {w1, w2}
    Fds = {1, 2}
    NoFd = nofd
    NoClient = noclient
    NoTask = null
    Listen = listen
    Event = event
    ListSize = 1
    Capacity = 1
    MaxRequests = 2
    MaxTasks = 2
SYMMETRY ServerSymmetry
\* When the clients have no more to say the server waits for events for ever.
CHECK_DEADLOCK FALSE
INVARIANTS
    NoLostFunctor
    FunctorsInOrder
    ConnMapAgrees
    TaskKeepsConnection
    HarmOnlyFromEarlyLeave
    AnswersToAsker
