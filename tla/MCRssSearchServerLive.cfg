\* One worker with a task, one task in the queue, and a third, for which the
\* reactor waits in addTask with the events of the other client before it.  No
\* symmetry: the property is a liveness property.
SPECIFICATION FairSpec
CONSTANTS
    Clients = {c1, c2}
    Workers = {w1}
    Fds = {1, 2}
    NoFd = nofd
    NoClient = noclient
    NoTask = null
    Listen = listen
    Event = event
    ListSize = 1
    Capacity = 1
    MaxRequests = 2
    MaxTasks = 3
\* When the clients have no more to say the server waits for events for ever.
CHECK_DEADLOCK FALSE
PROPERTY
    RequestAnswered
