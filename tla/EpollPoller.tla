----------------------------- MODULE EpollPoller -----------------------------
(***************************************************************************)
(* net/epollpoller.cc and net/tcpconnection.cc: the reactor that runs in   *)
(* one thread, the connections it owns, and runInLoop, by which other      *)
(* threads hand it functors.  Sockets, epoll and eventfd belong to the     *)
(* kernel and are modelled from how the code uses them: level-triggered    *)
(* readiness, the lowest free descriptor for a new socket, an eventfd that *)
(* adds up writes and is reset by a read.                                  *)
(*                                                                         *)
(* A client is one TCP connection: it connects once, sends requests and    *)
(* leaves.  The TcpConnection object of client c exists while c has a      *)
(* descriptor, that is while fd[c] # NoFd.                                 *)
(***************************************************************************)
EXTENDS Integers, Sequences, FiniteSets

CONSTANTS Clients,
          Fds,          \* descriptors for accepted sockets, a set of naturals
          NoFd,         \* no TcpConnection object
          NoClient,     \* no entry in _connMap
          ListSize,     \* initial _eventsList.size(): 1024 in the code
          Listen,       \* _listenfd
          Event         \* _eventfd

VARIABLES
    io,         \* where the reactor's thread is
    current,    \* the connection whose message callback runs
    events,     \* what epoll_wait returned and the for loop has not reached
    listSize,   \* _eventsList.size()
    count,      \* the eventfd's counter
    pending,    \* _pendingFunctors
    batch,      \* functors, local to doPendingFunctors, still to run
    connMap,    \* _connMap: descriptor to connection
    fd,         \* _sockfd of each client's TcpConnection
    backlog,    \* clients whose connection waits for accept
    peer,       \* each client's end: "out", "in" or "left"
    inbox       \* per client: requests received by the kernel, unread

loopVars == <<io, events, listSize, count, pending, batch>>
connVars == <<connMap, fd, current>>
netVars  == <<backlog, peer, inbox>>

\* The reactor's control points: blocked in epoll_wait; in the for loop over the
\* events; between handleRead and the swap; running functors; in the message
\* callback of the connection in current.
IoPoints == {"wait", "dispatch", "swap", "run", "message"}

OpenFds == {fd[c] : c \in Clients} \ {NoFd}

\* Where the for loop goes on: the next event, or the next epoll_wait.
Resume(left) == IF left = {} THEN "wait" ELSE "dispatch"

-----------------------------------------------------------------------------
(* waitEpollfd                                                             *)

\* recvPeek returns 0: everything was read and the peer has closed its end.
isConnectionClosed(c) == inbox[c] = <<>> /\ peer[c] = "left"

Readable ==
    {f \in Fds : connMap[f] # NoClient
                 /\ (inbox[connMap[f]] # <<>> \/ peer[connMap[f]] = "left")}
    \cup (IF backlog # <<>> THEN {Listen} ELSE {})
    \cup (IF count > 0 THEN {Event} ELSE {})

\* epoll_wait returns as many ready descriptors as the list holds, and a list
\* that was filled is doubled.  A timeout or EINTR changes nothing.
WaitEpollfd ==
    /\ io = "wait"
    /\ Readable # {}
    /\ \E ready \in SUBSET Readable :
         /\ ready # {}
         /\ Cardinality(ready) = listSize \/ ready = Readable
         /\ Cardinality(ready) <= listSize
         /\ events' = ready
         /\ listSize' = IF Cardinality(ready) = listSize THEN 2 * listSize ELSE listSize
    /\ io' = "dispatch"
    /\ UNCHANGED <<count, pending, batch, connVars, netVars>>

-----------------------------------------------------------------------------
(* The events                                                              *)

\* handleConnection: accept gives the lowest free descriptor; the connection
\* enters _connMap.  The connection callback's greeting is not modelled.
HandleConnection ==
    /\ io = "dispatch"
    /\ Listen \in events
    /\ \E f \in Fds \ OpenFds :
         /\ \A g \in Fds \ OpenFds : f <= g
         /\ fd' = [fd EXCEPT ![Head(backlog)] = f]
         /\ connMap' = [connMap EXCEPT ![f] = Head(backlog)]
    /\ backlog' = Tail(backlog)
    /\ events' = events \ {Listen}
    /\ io' = Resume(events')
    /\ UNCHANGED <<current, listSize, count, pending, batch, peer, inbox>>

\* With no descriptor left accept returns -1, addEpollReadFd refuses it and
\* exits the process.
HandleConnectionFails ==
    /\ io = "dispatch"
    /\ Listen \in events
    /\ Fds \subseteq OpenFds
    /\ UNCHANGED <<loopVars, connVars, netVars>>

\* handleMessage of an open connection: receive() takes one request and the
\* message callback goes on with it.
HandleMessage(f) ==
    /\ io = "dispatch"
    /\ f \in events \cap Fds
    /\ ~isConnectionClosed(connMap[f])
    /\ inbox' = [inbox EXCEPT ![connMap[f]] = Tail(@)]
    /\ events' = events \ {f}
    /\ io' = "message"
    /\ current' = connMap[f]
    /\ UNCHANGED <<listSize, count, pending, batch, connMap, fd, backlog, peer>>

\* Faulty variants: _connMap keeps the entry; the object goes though a task
\* still refers to it.
HandleCloseKeepsEntry(f, referenced) ==
    /\ io = "dispatch"
    /\ f \in events \cap Fds
    /\ isConnectionClosed(connMap[f])
    /\ fd' = IF referenced THEN fd ELSE [fd EXCEPT ![connMap[f]] = NoFd]
    /\ events' = events \ {f}
    /\ io' = Resume(events')
    /\ UNCHANGED <<current, listSize, count, pending, batch, connMap, netVars>>

HandleCloseFrees(f, referenced) ==
    /\ io = "dispatch"
    /\ f \in events \cap Fds
    /\ isConnectionClosed(connMap[f])
    /\ connMap' = [connMap EXCEPT ![f] = NoClient]
    /\ fd' = [fd EXCEPT ![connMap[f]] = NoFd]
    /\ events' = events \ {f}
    /\ io' = Resume(events')
    /\ UNCHANGED <<current, listSize, count, pending, batch, netVars>>

\* handleMessage of a closed one: the close callback only prints; epoll and
\* _connMap forget the descriptor, and the object goes with its last reference
\* (referenced: some task still holds one).
HandleClose(f, referenced) ==
    /\ io = "dispatch"
    /\ f \in events \cap Fds
    /\ isConnectionClosed(connMap[f])
    /\ connMap' = [connMap EXCEPT ![f] = NoClient]
    /\ fd' = IF referenced THEN fd ELSE [fd EXCEPT ![connMap[f]] = NoFd]
    /\ events' = events \ {f}
    /\ io' = Resume(events')
    /\ UNCHANGED <<current, listSize, count, pending, batch, netVars>>

\* The eventfd is readable: handleRead resets it.
HandleRead ==
    /\ io = "dispatch"
    /\ Event \in events
    /\ count' = 0
    /\ events' = events \ {Event}
    /\ io' = "swap"
    /\ UNCHANGED <<listSize, pending, batch, connVars, netVars>>

\* Faulty variant: the pending functors are copied out and stay.
CopyFunctors ==
    /\ io = "swap"
    /\ batch' = pending
    /\ io' = "run"
    /\ UNCHANGED <<events, listSize, count, pending, connVars, netVars>>

\* doPendingFunctors: under _mutex, swap the pending functors out.
SwapFunctors ==
    /\ io = "swap"
    /\ batch' = pending
    /\ pending' = <<>>
    /\ io' = "run"
    /\ UNCHANGED <<events, listSize, count, connVars, netVars>>

\* One functor of the batch; what it does is the caller's.
NextFunctor ==
    /\ io = "run"
    /\ batch # <<>>
    /\ batch' = Tail(batch)
    /\ UNCHANGED <<io, events, listSize, count, pending, netVars>>

EndFunctors ==
    /\ io = "run"
    /\ batch = <<>>
    /\ io' = Resume(events)
    /\ UNCHANGED <<events, listSize, count, pending, batch, connVars, netVars>>

-----------------------------------------------------------------------------
(* The message callback has returned.                                      *)

EndMessage ==
    /\ io = "message"
    /\ io' = Resume(events)
    /\ current' = NoClient
    /\ UNCHANGED <<events, listSize, count, pending, batch, connMap, fd, netVars>>

-----------------------------------------------------------------------------
(* runInLoop, called by other threads, in its two steps                    *)

\* Faulty variant: it waits for a mutex that the reactor keeps in its callbacks.
PushFunctorLocked(functor) ==
    /\ io # "message"
    /\ pending' = Append(pending, functor)
    /\ UNCHANGED <<io, events, listSize, count, batch>>

PushFunctor(functor) ==
    /\ pending' = Append(pending, functor)
    /\ UNCHANGED <<io, events, listSize, count, batch>>

\* Faulty variant: the write is saved when the reactor is not in epoll_wait.
WakeupIfWaiting ==
    /\ count' = IF io = "wait" THEN count + 1 ELSE count
    /\ UNCHANGED <<io, events, listSize, pending, batch>>

Wakeup ==
    /\ count' = count + 1
    /\ UNCHANGED <<io, events, listSize, pending, batch>>
==============================================================================
