--------------------------- MODULE RssSearchServer ---------------------------
(***************************************************************************)
(* rsssearchserver.cc: the reactor of EpollPoller, its callbacks, and the  *)
(* computing threads, here the abstract TaskService that Threadpool        *)
(* implements.  A request travels from the reactor to a worker with a      *)
(* shared_ptr to its connection; the answer travels back as a functor that *)
(* holds only the connection's raw address.                                *)
(*                                                                         *)
(* What doTask computes, and Redis, are not in this module: an answer is   *)
(* named by its request.  start() never returns and unloop is never called *)
(* while it runs, so the loop has no exit.                                 *)
(***************************************************************************)
EXTENDS EpollPoller

CONSTANTS Workers,
          Capacity,     \* of the task queue
          MaxRequests,  \* bound on the requests of one client
          MaxTasks,     \* bound on the requests of all clients
          NoTask

Requests == [client : Clients, number : 1 .. MaxRequests]

ASSUME ServerAssumption ==
    /\ IsFiniteSet(Clients) /\ IsFiniteSet(Workers) /\ IsFiniteSet(Fds)
    /\ Workers # {}
    /\ Fds \subseteq Nat
    /\ Capacity \in Nat /\ MaxRequests \in Nat /\ MaxTasks \in Nat /\ ListSize \in Nat \ {0}
    /\ NoFd \notin Fds /\ NoClient \notin Clients
    /\ Listen \notin Fds /\ Event \notin Fds /\ Listen # Event
    /\ NoTask \notin Nat

VARIABLES accepted, waiting, running, finished, closed,   \* the TaskService
          asked,    \* asked[k]: the request that task k answers
          wpc,      \* where each worker is in doTask
          sent,     \* requests each client has sent
          answers,  \* what each client has received
          up,       \* the process is alive
          early,    \* clients that left before their last answer
          dangling, \* connections a functor used after their end
          handed    \* every functor given to runInLoop so far

taskVars == <<accepted, waiting, running, finished, closed>>
vars == <<loopVars, connVars, netVars, taskVars, asked, wpc, sent, answers, up,
          early, dangling, handed>>

Tasks == INSTANCE TaskService

Init ==
    /\ io = "wait"
    /\ current = NoClient
    /\ events = {}
    /\ listSize = ListSize
    /\ count = 0
    /\ pending = <<>>
    /\ batch = <<>>
    /\ connMap = [f \in Fds |-> NoClient]
    /\ fd = [c \in Clients |-> NoFd]
    /\ backlog = <<>>
    /\ peer = [c \in Clients |-> "out"]
    /\ inbox = [c \in Clients |-> <<>>]
    /\ Tasks!Init
    /\ asked = <<>>
    /\ wpc = [w \in Workers |-> "idle"]
    /\ sent = [c \in Clients |-> 0]
    /\ answers = [c \in Clients |-> <<>>]
    /\ up = TRUE
    /\ early = {}
    /\ dangling = {}
    /\ handed = <<>>

-----------------------------------------------------------------------------
(* Clients                                                                 *)

Received(c) == {answers[c][i] : i \in 1 .. Len(answers[c])}
RequestsOf(c) == {[client |-> c, number |-> n] : n \in 1 .. sent[c]}

Connect(c) ==
    /\ peer[c] = "out"
    /\ peer' = [peer EXCEPT ![c] = "in"]
    /\ backlog' = Append(backlog, c)
    /\ UNCHANGED <<loopVars, connVars, inbox, taskVars, asked, wpc, sent, answers,
                   up, early, dangling, handed>>

Send(c) ==
    /\ peer[c] = "in"
    /\ sent[c] < MaxRequests
    /\ Cardinality(UNION {RequestsOf(d) : d \in Clients}) < MaxTasks
    /\ sent' = [sent EXCEPT ![c] = @ + 1]
    /\ inbox' = [inbox EXCEPT ![c] = Append(@, [client |-> c, number |-> sent[c] + 1])]
    /\ UNCHANGED <<loopVars, connVars, backlog, peer, taskVars, asked, wpc, answers,
                   up, early, dangling, handed>>

\* A client may leave at any time; one that leaves with an answer outstanding
\* is remembered.
Leave(c) ==
    /\ peer[c] = "in"
    /\ peer' = [peer EXCEPT ![c] = "left"]
    /\ early' = IF RequestsOf(c) \subseteq Received(c) THEN early ELSE early \cup {c}
    /\ UNCHANGED <<loopVars, connVars, backlog, inbox, taskVars, asked, wpc, sent,
                   answers, up, dangling, handed>>

-----------------------------------------------------------------------------
(* The reactor's thread                                                    *)

\* The connections that queued or running tasks hold a shared_ptr to.
TasksOf(c) ==
    {k \in 1 .. accepted : asked[k].client = c
       /\ (k \in {waiting[i] : i \in 1 .. Len(waiting)} \/ \E w \in Workers : running[w] = k)}

Referenced(c) == TasksOf(c) # {}

Poll ==
    /\ WaitEpollfd \/ HandleConnection \/ HandleRead \/ SwapFunctors
       \/ EndFunctors
       \/ \E f \in Fds : HandleClose(f, Referenced(connMap[f]))
    /\ UNCHANGED <<taskVars, asked, wpc, sent, answers, up, early, dangling, handed>>

OutOfDescriptors ==
    /\ HandleConnectionFails
    /\ up' = FALSE
    /\ UNCHANGED <<taskVars, asked, wpc, sent, answers, early, dangling, handed>>

\* onMessage: receive, and addTask with the connection and the request.  The
\* thread waits in addTask while the queue is full.
Receive(f) ==
    /\ HandleMessage(f)
    /\ asked' = Append(asked, Head(inbox[connMap[f]]))
    /\ UNCHANGED <<taskVars, wpc, sent, answers, up, early, dangling, handed>>

AddTask ==
    /\ EndMessage
    /\ Tasks!Accept
    /\ UNCHANGED <<asked, wpc, sent, answers, up, early, dangling, handed>>

\* TcpConnection::send in the loop.  A peer that is there gets the answer.  To
\* one that has left, the write is lost, or raises SIGPIPE, which ends the
\* process: the code neither ignores it nor passes MSG_NOSIGNAL.
SendTo(c, request) ==
    \/ /\ peer[c] = "in"
       /\ answers' = [answers EXCEPT ![c] = Append(@, request)]
       /\ UNCHANGED up
    \/ /\ peer[c] = "left"
       /\ up' \in BOOLEAN
       /\ UNCHANGED answers

\* A functor whose connection object is gone reads freed memory: what it writes
\* to is undefined.  The process may die, the answer may vanish, or reach the
\* client whose connection now has that memory or that descriptor.
SendThroughFreed(request) ==
    \/ /\ up' \in BOOLEAN
       /\ UNCHANGED answers
    \/ \E d \in {c \in Clients : fd[c] # NoFd} : SendTo(d, request)

RunFunctor ==
    /\ NextFunctor
    /\ LET request == Head(batch) IN
       IF fd[request.client] # NoFd
       THEN /\ SendTo(request.client, request)
            /\ UNCHANGED dangling
       ELSE /\ SendThroughFreed(request)
            /\ dangling' = dangling \cup {request.client}
    /\ UNCHANGED <<connVars, taskVars, asked, wpc, sent, early, handed>>

IoStep == up /\ (Poll \/ OutOfDescriptors \/ (\E f \in Fds : Receive(f)) \/ AddTask \/ RunFunctor)

-----------------------------------------------------------------------------
(* A worker: doTask                                                        *)

BeginTask(w) ==
    /\ Tasks!Begin(w)
    /\ wpc' = [wpc EXCEPT ![w] = "compute"]
    /\ UNCHANGED <<loopVars, connVars, netVars, asked, sent, answers, up, early,
                   dangling, handed>>

\* sendInLoop, with the answer from Redis or from doQuery: push the functor...
SendInLoop(w) ==
    /\ wpc[w] = "compute"
    /\ PushFunctor(asked[running[w]])
    /\ handed' = Append(handed, asked[running[w]])
    /\ wpc' = [wpc EXCEPT ![w] = "wakeup"]
    /\ UNCHANGED <<connVars, netVars, taskVars, asked, sent, answers, up, early, dangling>>

\* ... and write to the eventfd.
WakeupLoop(w) ==
    /\ wpc[w] = "wakeup"
    /\ Wakeup
    /\ wpc' = [wpc EXCEPT ![w] = "release"]
    /\ UNCHANGED <<connVars, netVars, taskVars, asked, sent, answers, up, early,
                   dangling, handed>>

\* Faulty variant: the connection goes with its last task, as if _connMap held
\* no reference.
EndTaskFrees(w) ==
    /\ wpc[w] = "release"
    /\ Tasks!Finish(w)
    /\ LET c == asked[running[w]].client IN
       fd' = IF TasksOf(c) = {running[w]} THEN [fd EXCEPT ![c] = NoFd] ELSE fd
    /\ wpc' = [wpc EXCEPT ![w] = "idle"]
    /\ UNCHANGED <<loopVars, current, connMap, netVars, asked, sent, answers, up, early,
                   dangling, handed>>

\* The task object is destroyed, and its reference to the connection; a
\* connection that _connMap no longer holds goes with the last one.
EndTask(w) ==
    /\ wpc[w] = "release"
    /\ Tasks!Finish(w)
    /\ LET c == asked[running[w]].client IN
       fd' = IF TasksOf(c) = {running[w]} /\ connMap[fd[c]] # c
             THEN [fd EXCEPT ![c] = NoFd] ELSE fd
    /\ wpc' = [wpc EXCEPT ![w] = "idle"]
    /\ UNCHANGED <<loopVars, current, connMap, netVars, asked, sent, answers, up, early,
                   dangling, handed>>

WorkerStep(w) == up /\ (BeginTask(w) \/ SendInLoop(w) \/ WakeupLoop(w) \/ EndTask(w))

-----------------------------------------------------------------------------

ClientStep(c) == Connect(c) \/ Send(c) \/ Leave(c)

Next ==
    \/ IoStep
    \/ \E w \in Workers : WorkerStep(w)
    \/ \E c \in Clients : ClientStep(c)

Spec == Init /\ [][Next]_vars

\* The reactor's thread and the workers are scheduled; some worker begins a
\* waiting task (TaskService).  Clients owe nothing.
Fairness ==
    /\ WF_vars(IoStep)
    /\ WF_vars(\E w \in Workers : up /\ BeginTask(w))
    /\ \A w \in Workers : WF_vars(up /\ (SendInLoop(w) \/ WakeupLoop(w) \/ EndTask(w)))

FairSpec == Spec /\ Fairness

-----------------------------------------------------------------------------
(* Properties                                                              *)

TypeOK ==
    /\ io \in IoPoints /\ current \in Clients \cup {NoClient}
    /\ events \subseteq Fds \cup {Listen, Event}
    /\ listSize \in Nat /\ count \in Nat
    /\ pending \in Seq(Requests) /\ batch \in Seq(Requests) /\ handed \in Seq(Requests)
    /\ accepted \in Nat /\ waiting \in Seq(Nat)
    /\ running \in [Workers -> Nat \cup {NoTask}]
    /\ connMap \in [Fds -> Clients \cup {NoClient}]
    /\ fd \in [Clients -> Fds \cup {NoFd}]
    /\ backlog \in Seq(Clients)
    /\ peer \in [Clients -> {"out", "in", "left"}]
    /\ inbox \in [Clients -> Seq(Requests)]
    /\ asked \in Seq(Requests)
    /\ wpc \in [Workers -> {"idle", "compute", "wakeup", "release"}]
    /\ sent \in [Clients -> 0 .. MaxRequests]
    /\ answers \in [Clients -> Seq(Requests)]
    /\ up \in BOOLEAN
    /\ early \subseteq Clients /\ dangling \subseteq Clients

\* A functor that lies in _pendingFunctors will be run without any further
\* call: the eventfd is readable, or the thread that pushed it has still to
\* write, or the reactor has reset the counter and not yet swapped.
NoLostFunctor ==
    pending # <<>> =>
        count > 0 \/ io = "swap" \/ \E w \in Workers : wpc[w] = "wakeup"

\* The functors run once each and in the order of runInLoop, across swaps.
FunctorsInOrder ==
    LET ran == Len(handed) - Len(batch) - Len(pending) IN
    /\ ran >= 0
    /\ \A i \in 1 .. Len(batch) : batch[i] = handed[ran + i]
    /\ \A i \in 1 .. Len(pending) : pending[i] = handed[ran + Len(batch) + i]

\* The assertions of handleConnection and handleMessage: a new descriptor is
\* not in _connMap, though descriptors are reused and a task may keep a closed
\* connection's open; and a descriptor epoll reported is in _connMap when its
\* turn comes, whatever the events before it did.
ConnMapAgrees ==
    /\ \A f \in Fds : connMap[f] # NoClient => fd[connMap[f]] = f
    /\ \A f \in events \cap Fds : connMap[f] # NoClient
    /\ \A c, d \in Clients : c # d /\ fd[c] # NoFd => fd[c] # fd[d]

\* The connection a task holds is alive while the task is queued or runs.
TaskKeepsConnection == \A c \in Clients : Referenced(c) => fd[c] # NoFd

\* sendInLoop's raw pointer is safe for the connection of every client that
\* waits for its answers; and the process lives as long as it has descriptors
\* and no client leaves early, the cases accept and SIGPIPE end it.
HarmOnlyFromEarlyLeave ==
    /\ dangling \subseteq early
    /\ ~up => early # {} \/ Fds \subseteq OpenFds

\* Until a functor has outlived its connection, an answer reaches the client
\* that asked, and once.
AnswersToAsker ==
    dangling = {} =>
        \A c \in Clients :
            /\ Received(c) \subseteq RequestsOf(c)
            /\ Cardinality(Received(c)) = Len(answers[c])

\* Every request of a client that stays is answered, though the reactor waits
\* in addTask while the queue is full and every worker has an answer to hand to
\* it (rsssearchserver.cc:81, 114; epollpoller.cc:50-57), unless the process has
\* ended.
RequestAnswered ==
    \A c \in Clients : \A n \in 1 .. MaxRequests :
        sent[c] >= n ~>
            [client |-> c, number |-> n] \in Received(c) \/ c \in early \/ ~up
==============================================================================
