------------------------ MODULE RssSearchServerProofs ------------------------
(***************************************************************************)
(* For any number of clients, workers, descriptors and requests: the maps  *)
(* of the reactor agree with the connections, no functor is lost or run    *)
(* out of order, and a queued task keeps its connection.  Answers go to    *)
(* the client that asked, once, and through a connection that is there,    *)
(* unless a client has left before its last answer.                        *)
(***************************************************************************)
EXTENDS RssSearchServer, Integers, FiniteSetTheorems, TLAPS

USE ServerAssumption DEF ServerAssumption

-----------------------------------------------------------------------------
(* Connections                                                             *)

NetTypes ==
    /\ io \in IoPoints
    /\ current \in Clients \cup {NoClient}
    /\ events \subseteq Fds \cup {Listen, Event}
    /\ connMap \in [Fds -> Clients \cup {NoClient}]
    /\ fd \in [Clients -> Fds \cup {NoFd}]
    /\ backlog \in Seq(Clients)
    /\ peer \in [Clients -> {"out", "in", "left"}]
    /\ inbox \in [Clients -> Seq(Requests)]
    /\ sent \in [Clients -> 0 .. MaxRequests]

\* The clients in the backlog are different ones, and have no connection yet.
Backlog ==
    /\ \A i \in 1 .. Len(backlog) : peer[backlog[i]] # "out" /\ fd[backlog[i]] = NoFd
    /\ \A i, j \in 1 .. Len(backlog) : i # j => backlog[i] # backlog[j]
    /\ \A c \in Clients : peer[c] = "out" => fd[c] = NoFd

\* What epoll_wait reported stays true until its turn comes.
EventsStand ==
    /\ Listen \in events => backlog # <<>>
    /\ \A f \in events \cap Fds :
          inbox[connMap[f]] # <<>> \/ peer[connMap[f]] = "left"

Net ==
    /\ NetTypes
    /\ ConnMapAgrees
    /\ Backlog
    /\ EventsStand
    /\ \A c \in Clients : \A i \in 1 .. Len(inbox[c]) : inbox[c][i].client = c
    /\ io = "message" => \E f \in Fds : connMap[f] = current /\ current # NoClient

\* A new element at the end of a sequence without repetitions.
LEMMA AppendKeepsDistinct ==
    ASSUME NEW S, NEW s \in Seq(S), NEW x \in S,
           \A i, j \in 1 .. Len(s) : i # j => s[i] # s[j],
           \A i \in 1 .. Len(s) : s[i] # x
    PROVE  \A i, j \in 1 .. Len(Append(s, x)) : i # j => Append(s, x)[i] # Append(s, x)[j]
<1> SUFFICES ASSUME NEW i \in 1 .. Len(Append(s, x)), NEW j \in 1 .. Len(Append(s, x)), i # j
             PROVE  Append(s, x)[i] # Append(s, x)[j]
  OBVIOUS
<1>1. Len(Append(s, x)) = Len(s) + 1 /\ Len(s) \in Nat
  OBVIOUS
<1>2. /\ \A k \in 1 .. Len(s) : Append(s, x)[k] = s[k]
      /\ Append(s, x)[Len(s) + 1] = x
  OBVIOUS
<1>3. CASE i \in 1 .. Len(s) /\ j \in 1 .. Len(s)
  BY <1>2, <1>3
<1>4. CASE i = Len(s) + 1 /\ j \in 1 .. Len(s)
  BY <1>2, <1>4
<1>5. CASE i \in 1 .. Len(s) /\ j = Len(s) + 1
  BY <1>2, <1>5
<1> QED
  BY <1>1, <1>3, <1>4, <1>5

LEMMA InitNet == Init => Net
<1> SUFFICES ASSUME Init PROVE Net
  OBVIOUS
<1>1. NetTypes
  <2>1. backlog \in Seq(Clients) /\ inbox \in [Clients -> Seq(Requests)]
    BY DEF Init
  <2> QED
    BY <2>1 DEF Init, NetTypes, IoPoints
<1> QED
  BY <1>1 DEF Init, Net, ConnMapAgrees, Backlog, EventsStand

netState == <<io, current, events, connMap, fd, backlog, peer, inbox, sent>>

LEMMA StepNet == Net /\ [Next]_vars => Net'
<1> SUFFICES ASSUME Net, [Next]_vars PROVE Net'
  OBVIOUS
<1> USE DEF Net, NetTypes, ConnMapAgrees, Backlog, EventsStand, IoPoints, connVars,
            loopVars, netVars, taskVars, isConnectionClosed, Resume
<1>1. CASE UNCHANGED netState
  BY <1>1 DEF netState
<1>2. CASE Poll
  <2>1. CASE WaitEpollfd /\ UNCHANGED sent
    <3>1. events' \subseteq Readable
      BY <2>1 DEF WaitEpollfd
    <3>2. /\ events' \subseteq Fds \cup {Listen, Event}
          /\ Listen \in events' => backlog # <<>>
          /\ \A f \in events' \cap Fds :
               /\ connMap[f] # NoClient
               /\ inbox[connMap[f]] # <<>> \/ peer[connMap[f]] = "left"
      BY <3>1 DEF Readable
    <3> QED
      BY <2>1, <3>2 DEF WaitEpollfd
  <2>2. CASE HandleConnection /\ UNCHANGED sent
    <3>1. backlog # <<>> /\ Len(backlog) \in Nat \ {0} /\ Head(backlog) = backlog[1]
      BY <2>2 DEF HandleConnection
    <3>2. /\ Tail(backlog) \in Seq(Clients)
          /\ Len(Tail(backlog)) = Len(backlog) - 1
          /\ \A i \in 1 .. Len(Tail(backlog)) : Tail(backlog)[i] = backlog[i + 1]
      BY <3>1
    <3>3. PICK f \in Fds \ OpenFds :
            /\ fd' = [fd EXCEPT ![Head(backlog)] = f]
            /\ connMap' = [connMap EXCEPT ![f] = Head(backlog)]
      BY <2>2 DEF HandleConnection
    <3>4. \A c \in Clients : fd[c] # f
      BY <3>3 DEF OpenFds
    <3>5. connMap[f] = NoClient
      BY <3>3, <3>4
    <3>6. Backlog'
      BY <2>2, <3>1, <3>2, <3>3 DEF HandleConnection
    <3>7. ConnMapAgrees'
      <4>1. Head(backlog) \in Clients /\ fd[Head(backlog)] = NoFd
        BY <3>1
      <4>2. /\ \A g \in Fds : connMap'[g] # NoClient => fd'[connMap'[g]] = g
            /\ \A c, d \in Clients : c # d /\ fd'[c] # NoFd => fd'[c] # fd'[d]
        BY <3>3, <3>4, <3>5, <4>1
      <4>3. \A g \in events' \cap Fds : connMap'[g] # NoClient
        BY <2>2, <3>3, <4>1 DEF HandleConnection
      <4> QED
        BY <4>2, <4>3
    <3>8. EventsStand'
      <4>1. \A g \in events' \cap Fds : g # f /\ connMap'[g] = connMap[g]
        BY <2>2, <3>3, <3>5 DEF HandleConnection
      <4> QED
        BY <2>2, <4>1 DEF HandleConnection
    <3>9. NetTypes'
      BY <2>2, <3>1, <3>2, <3>3 DEF HandleConnection
    <3> QED
      BY <2>2, <3>6, <3>7, <3>8, <3>9 DEF HandleConnection
  <2>3. CASE HandleRead /\ UNCHANGED sent
    BY <2>3 DEF HandleRead
  <2>4. CASE SwapFunctors /\ UNCHANGED sent
    BY <2>4 DEF SwapFunctors
  <2>5. CASE EndFunctors /\ UNCHANGED sent
    BY <2>5 DEF EndFunctors
  <2>6. ASSUME NEW f \in Fds, HandleClose(f, Referenced(connMap[f])), UNCHANGED sent
        PROVE  Net'
    <3> DEFINE c == connMap[f]
    <3>1. /\ io = "dispatch" /\ f \in events /\ c \in Clients
          /\ connMap' = [connMap EXCEPT ![f] = NoClient]
          /\ fd' = fd \/ fd' = [fd EXCEPT ![c] = NoFd]
          /\ events' = events \ {f}
          /\ io' \in {"wait", "dispatch"}
          /\ UNCHANGED <<current, netVars, sent>>
      BY <2>6 DEF HandleClose
    <3>2. \A g \in Fds : g # f => connMap[g] # c \/ connMap[g] = NoClient
      BY <3>1
    <3>3. /\ \A g \in Fds : connMap'[g] = IF g = f THEN NoClient ELSE connMap[g]
          /\ \A d \in Clients : fd'[d] = fd[d] \/ (d = c /\ fd'[d] = NoFd)
          /\ connMap' \in [Fds -> Clients \cup {NoClient}]
          /\ fd' \in [Clients -> Fds \cup {NoFd}]
      BY <3>1
    <3> HIDE DEF c
    <3>4. NetTypes'
      BY <3>1, <3>3
    <3>5. Backlog'
      <4>1. \A i \in 1 .. Len(backlog) : backlog[i] \in Clients
        OBVIOUS
      <4>2. backlog' = backlog /\ peer' = peer
        BY <3>1
      <4> QED
        BY <3>3, <4>1, <4>2 DEF Backlog
    <3>6. ConnMapAgrees'
      BY <3>1, <3>2, <3>3
    <3>7. EventsStand'
      BY <3>1, <3>3
    <3> QED
      BY <3>1, <3>4, <3>5, <3>6, <3>7
  <2> QED
    BY <1>2, <2>1, <2>2, <2>3, <2>4, <2>5, <2>6 DEF Poll
<1>3. ASSUME NEW f \in Fds, Receive(f) PROVE Net'
  <2>1. connMap[f] \in Clients /\ inbox[connMap[f]] # <<>>
    <3>1. f \in events \cap Fds /\ ~isConnectionClosed(connMap[f])
      BY <1>3 DEF Receive, HandleMessage
    <3>2. connMap[f] \in Clients
      BY <3>1
    <3> QED
      BY <3>1, <3>2
  <2>2. /\ Tail(inbox[connMap[f]]) \in Seq(Requests)
        /\ Len(Tail(inbox[connMap[f]])) = Len(inbox[connMap[f]]) - 1
        /\ \A i \in 1 .. Len(Tail(inbox[connMap[f]])) :
             Tail(inbox[connMap[f]])[i] = inbox[connMap[f]][i + 1]
    BY <2>1
  <2>3. /\ connMap' = connMap /\ fd' = fd /\ backlog' = backlog /\ peer' = peer
        /\ sent' = sent /\ events' = events \ {f}
        /\ inbox' = [inbox EXCEPT ![connMap[f]] = Tail(inbox[connMap[f]])]
        /\ io' = "message" /\ current' = connMap[f]
    BY <1>3 DEF Receive, HandleMessage
  <2>4. \A g \in events' \cap Fds : connMap[g] # connMap[f]
    BY <2>1, <2>3
  <2>5. NetTypes' /\ ConnMapAgrees' /\ Backlog'
    BY <2>1, <2>2, <2>3
  <2>6. EventsStand'
    BY <2>1, <2>3, <2>4
  <2>7. \A c \in Clients : \A i \in 1 .. Len(inbox'[c]) : inbox'[c][i].client = c
    BY <2>1, <2>2, <2>3
  <2> QED
    BY <2>1, <2>3, <2>5, <2>6, <2>7
<1>4. CASE AddTask
  BY <1>4 DEF AddTask, EndMessage, Tasks!Accept
<1>5. CASE RunFunctor
  BY <1>1, <1>5 DEF RunFunctor, NextFunctor, netState
<1>6. CASE OutOfDescriptors
  BY <1>1, <1>6 DEF OutOfDescriptors, HandleConnectionFails, netState
<1>7. ASSUME NEW w \in Workers, WorkerStep(w) PROVE Net'
  <2>1. CASE BeginTask(w)
    BY <1>1, <2>1 DEF BeginTask, netState
  <2>2. CASE SendInLoop(w)
    BY <1>1, <2>2 DEF SendInLoop, PushFunctor, netState
  <2>3. CASE WakeupLoop(w)
    BY <1>1, <2>3 DEF WakeupLoop, Wakeup, netState
  <2>4. CASE EndTask(w)
    <3> DEFINE c == asked[running[w]].client
    <3>1. /\ fd' = fd \/ (fd' = [fd EXCEPT ![c] = NoFd] /\ connMap[fd[c]] # c)
          /\ UNCHANGED <<loopVars, current, connMap, netVars, sent>>
      BY <2>4 DEF EndTask
    <3>2. /\ \A d \in Clients : fd'[d] = fd[d]
               \/ (d = c /\ fd'[d] = NoFd /\ connMap[fd[d]] # d)
          /\ fd' \in [Clients -> Fds \cup {NoFd}]
      BY <3>1
    <3> HIDE DEF c
    <3>3. NetTypes' /\ EventsStand'
      BY <3>1, <3>2
    <3>4. Backlog'
      BY <3>1, <3>2
    <3>5. ConnMapAgrees'
      BY <3>1, <3>2
    <3> QED
      BY <3>1, <3>3, <3>4, <3>5
  <2> QED
    BY <1>7, <2>1, <2>2, <2>3, <2>4 DEF WorkerStep
<1>8. ASSUME NEW c \in Clients, ClientStep(c) PROVE Net'
  <2>1. CASE Connect(c)
    <3>1. \A i \in 1 .. Len(backlog) : backlog[i] # c
      BY <2>1 DEF Connect
    <3>2. backlog' = Append(backlog, c) /\ Len(backlog') = Len(backlog) + 1
          /\ backlog' \in Seq(Clients)
          /\ \A i \in 1 .. Len(backlog) : backlog'[i] = backlog[i]
          /\ backlog'[Len(backlog) + 1] = c
      BY <2>1 DEF Connect
    <3>3. Backlog'
      <4>1. fd' = fd /\ fd[c] = NoFd /\ peer' = [peer EXCEPT ![c] = "in"]
        BY <2>1 DEF Connect
      <4>2. \A i \in 1 .. Len(backlog') : i \in 1 .. Len(backlog) \/ i = Len(backlog) + 1
        BY <3>2
      <4>3. \A i \in 1 .. Len(backlog') : peer'[backlog'[i]] # "out" /\ fd'[backlog'[i]] = NoFd
        BY <3>1, <3>2, <4>1, <4>2
      <4>4. \A i, j \in 1 .. Len(backlog') : i # j => backlog'[i] # backlog'[j]
        BY <3>1, <3>2, AppendKeepsDistinct
      <4> QED
        BY <4>1, <4>3, <4>4
    <3>4. \A g \in Fds : connMap[g] # c
      <4>1. peer[c] = "out" /\ fd[c] = NoFd
        BY <2>1 DEF Connect
      <4>2. ConnMapAgrees /\ c # NoClient /\ NoFd \notin Fds
        OBVIOUS
      <4> HIDE DEF Net, NetTypes, Backlog, EventsStand
      <4> QED
        BY <4>1, <4>2
    <3>5. \A d \in Clients : d # c => peer'[d] = peer[d]
      BY <2>1 DEF Connect
    <3>6. EventsStand'
      BY <2>1, <3>2, <3>4, <3>5 DEF Connect
    <3>7. ConnMapAgrees'
      BY <2>1 DEF Connect
    <3> QED
      BY <2>1, <3>2, <3>3, <3>6, <3>7 DEF Connect
  <2>2. CASE Send(c)
    <3> DEFINE r == [client |-> c, number |-> sent[c] + 1]
               s == Append(inbox[c], r)
    <3>1. r \in Requests /\ r.client = c /\ sent[c] + 1 \in 0 .. MaxRequests
      <4>1. sent[c] \in Nat /\ sent[c] < MaxRequests
        BY <2>2 DEF Send
      <4> QED
        BY <4>1 DEF Requests
    <3>2. inbox' = [inbox EXCEPT ![c] = s] /\ sent' = [sent EXCEPT ![c] = sent[c] + 1]
      BY <2>2 DEF Send
    <3> HIDE DEF r
    <3>3. /\ s \in Seq(Requests) /\ Len(s) = Len(inbox[c]) + 1
          /\ \A i \in 1 .. Len(inbox[c]) : s[i] = inbox[c][i]
          /\ s[Len(inbox[c]) + 1] = r
      BY <3>1
    <3> HIDE DEF s
    <3>4. s # <<>> /\ \A i \in 1 .. Len(s) : s[i].client = c
      <4> DEFINE n == Len(inbox[c])
      <4>1. n \in Nat /\ \A i \in 1 .. n : inbox[c][i].client = c
        OBVIOUS
      <4>2. /\ s[n + 1].client = c /\ Len(s) = n + 1
            /\ \A i \in 1 .. n : s[i].client = c
        BY <3>1, <3>3, <4>1
      <4> HIDE DEF n
      <4>3. \A i \in 1 .. n + 1 : i \in 1 .. n \/ i = n + 1
        BY <4>1
      <4>4. s # <<>>
        BY <4>1, <4>2
      <4> QED
        BY <4>2, <4>3, <4>4
    <3>5. UNCHANGED <<io, current, events, connMap, fd, backlog, peer>>
      BY <2>2 DEF Send
    <3>6. \A d \in Clients : inbox'[d] = IF d = c THEN s ELSE inbox[d]
      BY <3>2
    <3>7. NetTypes'
      BY <3>1, <3>2, <3>3, <3>5
    <3>8. EventsStand'
      BY <3>4, <3>5, <3>6
    <3>9. ConnMapAgrees' /\ Backlog'
      BY <3>5
    <3>10. \A d \in Clients : \A i \in 1 .. Len(inbox'[d]) : inbox'[d][i].client = d
      BY <3>4, <3>6
    <3> QED
      BY <3>5, <3>7, <3>8, <3>9, <3>10 DEF Net
  <2>3. CASE Leave(c)
    BY <2>3 DEF Leave
  <2> QED
    BY <1>8, <2>1, <2>2, <2>3 DEF ClientStep
<1>9. CASE UNCHANGED vars
  BY <1>1, <1>9 DEF vars, netState
<1> QED
  BY <1>2, <1>3, <1>4, <1>5, <1>6, <1>7, <1>8, <1>9 DEF Next, IoStep
-----------------------------------------------------------------------------
(* Tasks                                                                   *)

\* Tasks are numbered in the order of receipt; the queue holds the latest, in
\* order; the workers run different earlier ones.
TaskOrder ==
    LET begun == accepted - Len(waiting) IN
    /\ begun \in Nat
    /\ \A i \in 1 .. Len(waiting) : waiting[i] = begun + i
    /\ \A w \in Workers : running[w] # NoTask => running[w] \in 1 .. begun
    /\ \A v, w \in Workers : v # w /\ running[v] # NoTask => running[v] # running[w]

\* The request just received is the last one asked, and becomes the next task.
AskedAgrees ==
    /\ Len(asked) = IF io = "message" THEN accepted + 1 ELSE accepted
    /\ io = "message" => asked[accepted + 1].client = current

TaskInv ==
    /\ accepted \in Nat
    /\ asked \in Seq(Requests)
    /\ waiting \in Seq(Nat)
    /\ running \in [Workers -> Nat \cup {NoTask}]
    /\ wpc \in [Workers -> {"idle", "compute", "wakeup", "release"}]
    /\ \A w \in Workers : wpc[w] = "idle" <=> running[w] = NoTask
    /\ TaskOrder
    /\ AskedAgrees

LEMMA InitTaskInv == Init => TaskInv
<1> SUFFICES ASSUME Init PROVE TaskInv
  OBVIOUS
<1>1. asked \in Seq(Requests) /\ waiting \in Seq(Nat) /\ Len(asked) = 0 /\ Len(waiting) = 0
  BY DEF Init, Tasks!Init
<1> QED
  BY <1>1 DEF Init, Tasks!Init, TaskInv, TaskOrder, AskedAgrees

taskState == <<io, current, accepted, waiting, running, asked, wpc>>

LEMMA StepTaskInv == Net /\ TaskInv /\ [Next]_vars => TaskInv'
<1> SUFFICES ASSUME Net, TaskInv, [Next]_vars PROVE TaskInv'
  OBVIOUS
<1> USE DEF TaskInv, TaskOrder, AskedAgrees, loopVars, connVars, netVars, taskVars
<1>1. CASE /\ UNCHANGED <<accepted, waiting, running, asked>>
           /\ io # "message" /\ io' # "message"
           /\ wpc' \in [Workers -> {"idle", "compute", "wakeup", "release"}]
           /\ \A w \in Workers : wpc'[w] = "idle" <=> wpc[w] = "idle"
  BY <1>1
<1>2. CASE UNCHANGED taskState
  BY <1>2 DEF taskState
<1>3. CASE Poll
  <2>1. CASE HandleConnection \/ HandleRead \/ SwapFunctors \/ EndFunctors \/ WaitEpollfd
    BY <1>1, <1>3, <2>1 DEF Poll, HandleConnection, HandleRead, SwapFunctors,
       EndFunctors, WaitEpollfd, Resume
  <2>2. ASSUME NEW f \in Fds, HandleClose(f, Referenced(connMap[f])) PROVE TaskInv'
    BY <1>1, <1>3, <2>2 DEF Poll, HandleClose, Resume
  <2> QED
    BY <1>3, <2>1, <2>2 DEF Poll
<1>4. ASSUME NEW f \in Fds, Receive(f) PROVE TaskInv'
  <2> DEFINE r == Head(inbox[connMap[f]])
  <2>1. connMap[f] \in Clients /\ inbox[connMap[f]] # <<>>
    BY <1>4 DEF Receive, HandleMessage, Net, NetTypes, ConnMapAgrees, EventsStand,
       isConnectionClosed
  <2>2. /\ r = inbox[connMap[f]][1] /\ r \in Requests
        /\ 1 \in 1 .. Len(inbox[connMap[f]])
    BY <2>1 DEF Net, NetTypes
  <2>3. r.client = connMap[f]
    BY <2>1, <2>2 DEF Net
  <2>4. /\ asked' = Append(asked, r) /\ io = "dispatch" /\ io' = "message"
        /\ current' = connMap[f] /\ UNCHANGED <<accepted, waiting, running, wpc>>
    BY <1>4 DEF Receive, HandleMessage
  <2> HIDE DEF r
  <2>5. /\ asked' \in Seq(Requests) /\ Len(asked') = accepted + 1
        /\ asked'[accepted + 1] = r
    BY <2>2, <2>4
  <2> QED
    BY <2>3, <2>4, <2>5
<1>5. CASE AddTask
  <2>1. /\ io = "message" /\ io' # "message" /\ accepted' = accepted + 1
        /\ waiting' = Append(waiting, accepted + 1)
        /\ UNCHANGED <<running, asked, wpc>>
    BY <1>5 DEF AddTask, EndMessage, Resume, Tasks!Accept
  <2>2. /\ waiting' \in Seq(Nat) /\ Len(waiting') = Len(waiting) + 1
        /\ Len(waiting) \in Nat
        /\ \A i \in 1 .. Len(waiting) : waiting'[i] = waiting[i]
        /\ waiting'[Len(waiting) + 1] = accepted + 1
    BY <2>1
  <2>3. TaskOrder'
    <3>1. accepted' - Len(waiting') = accepted - Len(waiting)
      BY <2>1, <2>2
    <3>2. ASSUME NEW i \in 1 .. Len(waiting')
          PROVE  waiting'[i] = accepted - Len(waiting) + i
      <4>1. CASE i \in 1 .. Len(waiting)
        BY <2>2, <4>1
      <4>2. CASE i = Len(waiting) + 1
        BY <2>2, <4>2
      <4> QED
        BY <2>2, <4>1, <4>2
    <3> QED
      BY <2>1, <3>1, <3>2
  <2>4. AskedAgrees'
    BY <2>1
  <2> QED
    BY <2>1, <2>2, <2>3, <2>4
<1>6. CASE RunFunctor
  BY <1>2, <1>6 DEF RunFunctor, NextFunctor, taskState
<1>7. CASE OutOfDescriptors
  BY <1>2, <1>7 DEF OutOfDescriptors, HandleConnectionFails, taskState
<1>8. ASSUME NEW w \in Workers, WorkerStep(w) PROVE TaskInv'
  <2>1. CASE BeginTask(w)
    <3>1. /\ running[w] = NoTask /\ waiting # <<>>
          /\ running' = [running EXCEPT ![w] = Head(waiting)]
          /\ waiting' = Tail(waiting)
          /\ wpc' = [wpc EXCEPT ![w] = "compute"]
          /\ UNCHANGED <<io, current, accepted, asked>>
      BY <2>1 DEF BeginTask, Tasks!Begin
    <3>2. /\ Len(waiting') = Len(waiting) - 1 /\ Len(waiting) \in Nat \ {0}
          /\ waiting' \in Seq(Nat)
          /\ \A i \in 1 .. Len(waiting') : waiting'[i] = waiting[i + 1]
          /\ Head(waiting) = waiting[1]
      BY <3>1
    <3>3. Head(waiting) = accepted - Len(waiting) + 1 /\ Head(waiting) # NoTask
      BY <3>2
    <3> QED
      BY <3>1, <3>2, <3>3
  <2>2. CASE SendInLoop(w)
    <3>1. /\ wpc[w] = "compute" /\ wpc' = [wpc EXCEPT ![w] = "wakeup"]
          /\ UNCHANGED <<io, current, accepted, waiting, running, asked>>
      BY <2>2 DEF SendInLoop, PushFunctor
    <3> QED
      BY <3>1
  <2>3. CASE WakeupLoop(w)
    <3>1. /\ wpc[w] = "wakeup" /\ wpc' = [wpc EXCEPT ![w] = "release"]
          /\ UNCHANGED <<io, current, accepted, waiting, running, asked>>
      BY <2>3 DEF WakeupLoop, Wakeup
    <3> QED
      BY <3>1
  <2>4. CASE EndTask(w)
    <3>1. /\ running' = [running EXCEPT ![w] = NoTask]
          /\ wpc' = [wpc EXCEPT ![w] = "idle"]
          /\ UNCHANGED <<io, current, accepted, waiting, asked>>
      BY <2>4 DEF EndTask, Tasks!Finish
    <3> QED
      BY <3>1
  <2> QED
    BY <1>8, <2>1, <2>2, <2>3, <2>4 DEF WorkerStep
<1>9. ASSUME NEW c \in Clients, ClientStep(c) PROVE TaskInv'
  BY <1>2, <1>9 DEF ClientStep, Connect, Send, Leave, taskState
<1>10. CASE UNCHANGED vars
  BY <1>2, <1>10 DEF vars, taskState
<1> QED
  BY <1>3, <1>4, <1>5, <1>6, <1>7, <1>8, <1>9, <1>10 DEF Next, IoStep
-----------------------------------------------------------------------------
(* Functors                                                                *)

FunctorInv ==
    /\ count \in Nat
    /\ pending \in Seq(Requests) /\ batch \in Seq(Requests) /\ handed \in Seq(Requests)
    /\ io # "run" => batch = <<>>
    /\ NoLostFunctor
    /\ FunctorsInOrder

LEMMA InitFunctorInv == Init => FunctorInv
<1> SUFFICES ASSUME Init PROVE FunctorInv
  OBVIOUS
<1>1. /\ pending \in Seq(Requests) /\ batch \in Seq(Requests) /\ handed \in Seq(Requests)
      /\ Len(pending) = 0 /\ Len(batch) = 0 /\ Len(handed) = 0
  BY DEF Init
<1> QED
  BY <1>1 DEF Init, FunctorInv, NoLostFunctor, FunctorsInOrder

functorState == <<count, pending, batch, handed>>

LEMMA StepFunctorInv ==
    Net /\ TaskInv /\ FunctorInv /\ [Next]_vars => FunctorInv'
<1> SUFFICES ASSUME Net, TaskInv, FunctorInv, [Next]_vars PROVE FunctorInv'
  OBVIOUS
<1> USE DEF FunctorInv, NoLostFunctor, FunctorsInOrder, loopVars, connVars, netVars,
            taskVars
<1>1. CASE /\ UNCHANGED functorState
           /\ io' = io \/ (io \notin {"run", "swap"} /\ io' # "run")
           /\ \A w \in Workers : wpc[w] = "wakeup" => wpc'[w] = "wakeup"
  BY <1>1 DEF functorState
<1>2. CASE Poll
  <2>1. CASE WaitEpollfd \/ HandleConnection
    BY <1>1, <1>2, <2>1 DEF Poll, WaitEpollfd, HandleConnection, Resume, functorState
  <2>2. ASSUME NEW f \in Fds, HandleClose(f, Referenced(connMap[f])) PROVE FunctorInv'
    BY <1>1, <1>2, <2>2 DEF Poll, HandleClose, Resume, functorState
  <2>3. CASE HandleRead
    BY <1>2, <2>3 DEF Poll, HandleRead
  <2>4. CASE SwapFunctors
    <3>1. /\ batch = <<>> /\ batch' = pending /\ pending' = <<>> /\ handed' = handed
          /\ io' = "run" /\ count' = count
      BY <1>2, <2>4 DEF Poll, SwapFunctors
    <3>2. Len(batch) = 0 /\ Len(pending') = 0
      BY <3>1
    <3> QED
      BY <3>1, <3>2
  <2>5. CASE EndFunctors
    BY <1>2, <2>5 DEF Poll, EndFunctors, Resume
  <2> QED
    BY <1>2, <2>1, <2>2, <2>3, <2>4, <2>5 DEF Poll
<1>3. ASSUME NEW f \in Fds, Receive(f) PROVE FunctorInv'
  BY <1>1, <1>3 DEF Receive, HandleMessage, functorState
<1>4. CASE AddTask
  BY <1>1, <1>4 DEF AddTask, EndMessage, Resume, functorState
<1>5. CASE RunFunctor
  <2>1. /\ io = "run" /\ batch # <<>> /\ batch' = Tail(batch)
        /\ UNCHANGED <<io, count, pending, handed, wpc>>
    BY <1>5 DEF RunFunctor, NextFunctor
  <2>2. /\ Len(batch) \in Nat \ {0} /\ Len(batch') = Len(batch) - 1
        /\ batch' \in Seq(Requests)
        /\ \A i \in 1 .. Len(batch') : batch'[i] = batch[i + 1]
    BY <2>1
  <2> QED
    BY <2>1, <2>2
<1>6. CASE OutOfDescriptors
  BY <1>1, <1>6 DEF OutOfDescriptors, HandleConnectionFails, functorState
<1>7. ASSUME NEW w \in Workers, WorkerStep(w) PROVE FunctorInv'
  <2>1. CASE BeginTask(w)
    BY <1>1, <2>1 DEF BeginTask, Tasks!Begin, TaskInv, functorState
  <2>2. CASE SendInLoop(w)
    <3> DEFINE r == asked[running[w]]
    <3>1. r \in Requests
      <4>1. running[w] # NoTask
        BY <2>2 DEF SendInLoop, TaskInv
      <4>2. running[w] \in 1 .. Len(asked)
        BY <4>1 DEF TaskInv, TaskOrder, AskedAgrees
      <4> QED
        BY <4>2 DEF TaskInv
    <3>2. /\ pending' = Append(pending, r) /\ handed' = Append(handed, r)
          /\ wpc' = [wpc EXCEPT ![w] = "wakeup"]
          /\ UNCHANGED <<io, count, batch>>
      BY <2>2 DEF SendInLoop, PushFunctor
    <3> HIDE DEF r
    <3>3. /\ Len(pending') = Len(pending) + 1 /\ Len(handed') = Len(handed) + 1
          /\ pending' \in Seq(Requests) /\ handed' \in Seq(Requests)
          /\ \A i \in 1 .. Len(pending) : pending'[i] = pending[i]
          /\ \A i \in 1 .. Len(handed) : handed'[i] = handed[i]
          /\ pending'[Len(pending) + 1] = r /\ handed'[Len(handed) + 1] = r
      BY <3>1, <3>2
    <3>4. FunctorsInOrder'
      <4> DEFINE ran == Len(handed) - Len(batch) - Len(pending)
      <4>1. /\ ran \in Nat /\ Len(batch) \in Nat /\ Len(pending) \in Nat
            /\ Len(handed) = ran + Len(batch) + Len(pending)
            /\ ran = Len(handed') - Len(batch') - Len(pending')
        BY <3>2, <3>3
      <4>2. ASSUME NEW i \in 1 .. Len(batch')
            PROVE  batch'[i] = handed'[ran + i]
        <5>1. i \in 1 .. Len(batch) /\ ran + i \in 1 .. Len(handed)
          BY <3>2, <4>1
        <5>2. batch[i] = handed[ran + i]
          BY <5>1
        <5> QED
          BY <3>2, <3>3, <5>1, <5>2
      <4>3. ASSUME NEW i \in 1 .. Len(pending')
            PROVE  pending'[i] = handed'[ran + Len(batch') + i]
        <5>1. CASE i \in 1 .. Len(pending)
          BY <3>2, <3>3, <4>1, <5>1
        <5>2. CASE i = Len(pending) + 1
          BY <3>2, <3>3, <4>1, <5>2
        <5> QED
          BY <3>3, <4>1, <5>1, <5>2
      <4> QED
        BY <4>1, <4>2, <4>3
    <3>5. NoLostFunctor'
      BY <3>2 DEF TaskInv
    <3> QED
      BY <3>2, <3>3, <3>4, <3>5
  <2>3. CASE WakeupLoop(w)
    BY <2>3 DEF WakeupLoop, Wakeup
  <2>4. CASE EndTask(w)
    BY <1>1, <2>4 DEF EndTask, TaskInv, functorState
  <2> QED
    BY <1>7, <2>1, <2>2, <2>3, <2>4 DEF WorkerStep
<1>8. ASSUME NEW c \in Clients, ClientStep(c) PROVE FunctorInv'
  BY <1>1, <1>8 DEF ClientStep, Connect, Send, Leave, functorState
<1>9. CASE UNCHANGED vars
  BY <1>1, <1>9 DEF vars, functorState
<1> QED
  BY <1>2, <1>3, <1>4, <1>5, <1>6, <1>7, <1>8, <1>9 DEF Next, IoStep
-----------------------------------------------------------------------------
(* Tasks and the connections they refer to                                 *)

\* A step that adds no task and ends no connection.
LEMMA KeepsOn ==
    ASSUME TaskKeepsConnection,
           \A c \in Clients : TasksOf(c)' \subseteq TasksOf(c),
           \A c \in Clients : fd[c] # NoFd /\ TasksOf(c)' # {} => fd'[c] # NoFd
    PROVE  TaskKeepsConnection'
BY DEF TaskKeepsConnection, Referenced

LEMMA SameTasks ==
    ASSUME UNCHANGED <<accepted, waiting, running>>,
           \A k \in 1 .. accepted : asked'[k] = asked[k],
           NEW c \in Clients
    PROVE  TasksOf(c)' = TasksOf(c)
BY DEF TasksOf

LEMMA StepKeepsConnection ==
    Net /\ TaskInv /\ TaskKeepsConnection /\ [Next]_vars => TaskKeepsConnection'
<1> SUFFICES ASSUME Net, TaskInv, TaskKeepsConnection, [Next]_vars
             PROVE  TaskKeepsConnection'
  OBVIOUS
<1> USE DEF loopVars, connVars, netVars, taskVars
<1>1. CASE UNCHANGED <<accepted, waiting, running, asked, fd>>
  BY <1>1, KeepsOn, SameTasks
<1>2. CASE Poll
  <2>1. CASE HandleConnection
    <3>1. PICK f \in Fds : fd' = [fd EXCEPT ![Head(backlog)] = f]
      BY <2>1 DEF HandleConnection
    <3>2. \A c \in Clients : fd[c] # NoFd => fd'[c] # NoFd
      BY <3>1 DEF Net, NetTypes
    <3>3. UNCHANGED <<accepted, waiting, running, asked>>
      BY <1>2 DEF Poll
    <3> QED
      BY <3>2, <3>3, KeepsOn, SameTasks
  <2>2. ASSUME NEW f \in Fds, HandleClose(f, Referenced(connMap[f]))
        PROVE  TaskKeepsConnection'
    <3>1. UNCHANGED <<accepted, waiting, running, asked>>
      BY <1>2 DEF Poll
    <3>2. \A c \in Clients : Referenced(c) => fd'[c] = fd[c]
      BY <2>2 DEF HandleClose, Net, NetTypes
    <3>3. \A c \in Clients : TasksOf(c)' = TasksOf(c)
      BY <3>1, SameTasks
    <3> QED
      BY <3>2, <3>3 DEF TaskKeepsConnection, Referenced
  <2>3. CASE HandleRead \/ SwapFunctors \/ EndFunctors \/ WaitEpollfd
    BY <1>1, <1>2, <2>3 DEF Poll, HandleRead, SwapFunctors, EndFunctors, WaitEpollfd
  <2> QED
    BY <1>2, <2>1, <2>2, <2>3 DEF Poll
<1>3. ASSUME NEW f \in Fds, Receive(f) PROVE TaskKeepsConnection'
  <2>1. /\ UNCHANGED <<accepted, waiting, running, fd>>
        /\ asked' = Append(asked, Head(inbox[connMap[f]]))
        /\ io # "message"
    BY <1>3 DEF Receive, HandleMessage
  <2>2. \A k \in 1 .. accepted : asked'[k] = asked[k]
    BY <2>1 DEF TaskInv, AskedAgrees
  <2> QED
    BY <2>1, <2>2, KeepsOn, SameTasks
<1>4. CASE AddTask
  \* The new task's connection is in _connMap, so it exists.
  <2>1. /\ io = "message" /\ accepted' = accepted + 1
        /\ waiting' = Append(waiting, accepted + 1)
        /\ UNCHANGED <<running, asked, fd>>
    BY <1>4 DEF AddTask, EndMessage, Tasks!Accept
  <2>2. asked[accepted + 1].client = current /\ fd[current] # NoFd
    BY <2>1 DEF Net, NetTypes, ConnMapAgrees, TaskInv, AskedAgrees
  <2>3. \A i \in 1 .. Len(waiting') :
           waiting'[i] = accepted + 1 \/ (i \in 1 .. Len(waiting) /\ waiting'[i] = waiting[i])
    BY <2>1 DEF TaskInv
  <2>4. \A c \in Clients : \A k \in TasksOf(c)' :
           k \in TasksOf(c) \/ (k = accepted + 1 /\ c = current)
    BY <2>1, <2>2, <2>3 DEF TasksOf, TaskInv
  <2> QED
    BY <2>1, <2>2, <2>4 DEF TaskKeepsConnection, Referenced
<1>5. CASE RunFunctor
  BY <1>1, <1>5 DEF RunFunctor, NextFunctor
<1>6. CASE OutOfDescriptors
  BY <1>1, <1>6 DEF OutOfDescriptors, HandleConnectionFails
<1>7. ASSUME NEW w \in Workers, WorkerStep(w) PROVE TaskKeepsConnection'
  <2>1. CASE BeginTask(w)
    <3>1. /\ waiting # <<>> /\ waiting' = Tail(waiting)
          /\ running' = [running EXCEPT ![w] = Head(waiting)]
          /\ UNCHANGED <<accepted, asked, fd>>
      BY <2>1 DEF BeginTask, Tasks!Begin
    <3>2. /\ \A i \in 1 .. Len(waiting') : i + 1 \in 1 .. Len(waiting)
                                           /\ waiting'[i] = waiting[i + 1]
          /\ Head(waiting) = waiting[1] /\ 1 \in 1 .. Len(waiting)
      BY <3>1 DEF TaskInv
    <3>3. \A v \in Workers : running'[v] = running[v] \/ running'[v] = waiting[1]
      BY <3>1, <3>2 DEF TaskInv
    <3>4. \A c \in Clients : TasksOf(c)' \subseteq TasksOf(c)
      BY <3>1, <3>2, <3>3 DEF TasksOf
    <3> QED
      BY <3>1, <3>4, KeepsOn
  <2>2. CASE SendInLoop(w)
    BY <1>1, <2>2 DEF SendInLoop, PushFunctor
  <2>3. CASE WakeupLoop(w)
    BY <1>1, <2>3 DEF WakeupLoop, Wakeup
  <2>4. CASE EndTask(w)
    <3> DEFINE k == running[w]
               d == asked[k].client
    <3>1. /\ k # NoTask /\ running' = [running EXCEPT ![w] = NoTask]
          /\ UNCHANGED <<accepted, waiting, asked>>
          /\ fd' = fd \/ (TasksOf(d) = {k} /\ fd' = [fd EXCEPT ![d] = NoFd])
      BY <2>4 DEF EndTask, Tasks!Finish
    <3>2. \A c \in Clients : TasksOf(c)' \subseteq TasksOf(c)
      BY <3>1 DEF TasksOf, TaskInv
    <3>3. \A c \in Clients : k \notin TasksOf(c)'
      <4>1. \A v \in Workers : running'[v] # k
        BY <3>1 DEF TaskInv, TaskOrder
      <4>2. \A i \in 1 .. Len(waiting) : waiting[i] # k
        BY <3>1 DEF TaskInv, TaskOrder
      <4> QED
        BY <3>1, <4>1, <4>2 DEF TasksOf
    <3> HIDE DEF k, d
    <3>4. \A c \in Clients : fd[c] # NoFd /\ TasksOf(c)' # {} => fd'[c] # NoFd
      BY <3>1, <3>2, <3>3 DEF Net, NetTypes
    <3> QED
      BY <3>2, <3>4, KeepsOn
  <2> QED
    BY <1>7, <2>1, <2>2, <2>3, <2>4 DEF WorkerStep
<1>8. ASSUME NEW c \in Clients, ClientStep(c) PROVE TaskKeepsConnection'
  BY <1>1, <1>8 DEF ClientStep, Connect, Send, Leave
<1>9. CASE UNCHANGED vars
  BY <1>1, <1>9 DEF vars
<1> QED
  BY <1>2, <1>3, <1>4, <1>5, <1>6, <1>7, <1>8, <1>9 DEF Next, IoStep

-----------------------------------------------------------------------------
(* The safety properties                                                   *)

IInv == Net /\ TaskInv /\ FunctorInv /\ TaskKeepsConnection

LEMMA Invariance == Spec => []IInv
<1>1. Init => IInv
  <2>1. Init => TaskKeepsConnection
    BY DEF Init, Tasks!Init, TaskKeepsConnection, Referenced, TasksOf
  <2> QED
    BY <2>1, InitNet, InitTaskInv, InitFunctorInv DEF IInv
<1>2. IInv /\ [Next]_vars => IInv'
  BY StepNet, StepTaskInv, StepFunctorInv, StepKeepsConnection DEF IInv
<1> QED
  BY <1>1, <1>2, PTL DEF Spec

\* A functor given to runInLoop always finds its way into the loop: whatever
\* the interleaving of workers and reactor, a write to the eventfd is due.
THEOREM FunctorNeverLost == Spec => []NoLostFunctor
<1>1. IInv => NoLostFunctor
  BY DEF IInv, FunctorInv
<1> QED
  BY <1>1, Invariance, PTL

\* Functors run once each, in the order in which the workers handed them over.
THEOREM FunctorsRunInOrder == Spec => []FunctorsInOrder
<1>1. IInv => FunctorsInOrder
  BY DEF IInv, FunctorInv
<1> QED
  BY <1>1, Invariance, PTL

\* The two assertions of the reactor never fail.
THEOREM AssertionsHold == Spec => []ConnMapAgrees
<1>1. IInv => ConnMapAgrees
  BY DEF IInv, Net
<1> QED
  BY <1>1, Invariance, PTL

\* A connection outlives the tasks that refer to it.
THEOREM ConnectionsOutliveTasks == Spec => []TaskKeepsConnection
<1>1. IInv => TaskKeepsConnection
  BY DEF IInv
<1> QED
  BY <1>1, Invariance, PTL

-----------------------------------------------------------------------------
(***************************************************************************)
(* A request on its way: sent, in inbox, asked, handed to the reactor,     *)
(* run, received.  At each station it is there once.                       *)
(***************************************************************************)
(* Requests that were read                                                 *)

\* What a client has sent and the server has not read are its latest requests,
\* in order; what was asked came before, once each, over a connection.
read == [c \in Clients |-> sent[c] - Len(inbox[c])]

Asked ==
    /\ \A c \in Clients : read[c] \in Nat
    /\ \A c \in Clients : \A i \in 1 .. Len(inbox[c]) : inbox[c][i].number = read[c] + i
    /\ \A k \in 1 .. Len(asked) : asked[k].number <= read[asked[k].client]
    /\ \A k, l \in 1 .. Len(asked) : k # l => asked[k] # asked[l]
    /\ \A k \in 1 .. Len(asked) :
         /\ peer[asked[k].client] # "out"
         /\ \A i \in 1 .. Len(backlog) : backlog[i] # asked[k].client

LEMMA InitAsked == Init => Asked
<1> SUFFICES ASSUME Init PROVE Asked
  OBVIOUS
<1>1. Len(asked) = 0 /\ \A c \in Clients : sent[c] = 0 /\ Len(inbox[c]) = 0
  BY DEF Init
<1> QED
  BY <1>1 DEF Asked, read

askedState == <<sent, inbox, asked, peer, backlog>>

\* What the invariants of RssSearchServerProofs say of the types here.
LEMMA AskedTypes ==
    ASSUME Net, TaskInv
    PROVE  /\ asked \in Seq(Requests) /\ backlog \in Seq(Clients)
           /\ inbox \in [Clients -> Seq(Requests)] /\ sent \in [Clients -> 0 .. MaxRequests]
           /\ peer \in [Clients -> {"out", "in", "left"}]
           /\ \A k \in 1 .. Len(asked) : asked[k] \in Requests /\ asked[k].client \in Clients
                                           /\ asked[k].number \in Nat \ {0}
           /\ \A c \in Clients : Len(inbox[c]) \in Nat /\ sent[c] \in Nat
<1>1. \A r \in Requests : r.client \in Clients /\ r.number \in Nat \ {0}
  BY DEF Requests
<1> QED
  BY <1>1 DEF Net, NetTypes, TaskInv

LEMMA StepAsked == Net /\ TaskInv /\ Asked /\ [Next]_vars => Asked'
<1> SUFFICES ASSUME Net, TaskInv, Asked, [Next]_vars PROVE Asked'
  OBVIOUS
<1>0. /\ asked \in Seq(Requests) /\ backlog \in Seq(Clients)
      /\ inbox \in [Clients -> Seq(Requests)] /\ sent \in [Clients -> 0 .. MaxRequests]
      /\ peer \in [Clients -> {"out", "in", "left"}]
      /\ \A k \in 1 .. Len(asked) : asked[k].client \in Clients /\ asked[k].number \in Nat \ {0}
      /\ \A c \in Clients : Len(inbox[c]) \in Nat /\ sent[c] \in Nat
  BY AskedTypes
<1> USE DEF loopVars, connVars, netVars, taskVars
<1>1. CASE UNCHANGED askedState
  BY <1>1 DEF askedState, Asked, read
<1>2. CASE Poll
  <2>1. CASE HandleConnection /\ UNCHANGED <<asked, sent>>
    <3>1. /\ backlog # <<>> /\ backlog' = Tail(backlog)
          /\ UNCHANGED <<sent, inbox, asked, peer>>
      BY <2>1 DEF HandleConnection, Net, EventsStand
    <3>2. \A i \in 1 .. Len(backlog') : i + 1 \in 1 .. Len(backlog) /\ backlog'[i] = backlog[i + 1]
      BY <1>0, <3>1
    <3> QED
      BY <3>1, <3>2 DEF Asked, read
  <2>2. CASE WaitEpollfd \/ HandleRead \/ SwapFunctors \/ EndFunctors
    BY <1>1, <1>2, <2>2 DEF Poll, WaitEpollfd, HandleRead, SwapFunctors, EndFunctors, askedState
  <2>3. ASSUME NEW f \in Fds, HandleClose(f, Referenced(connMap[f])) PROVE Asked'
    BY <1>1, <1>2, <2>3 DEF Poll, HandleClose, askedState
  <2> QED
    BY <1>2, <2>1, <2>2, <2>3 DEF Poll
<1>3. ASSUME NEW f \in Fds, Receive(f) PROVE Asked'
  <2> DEFINE c == connMap[f]
             r == Head(inbox[c])
  <2>1. /\ c \in Clients /\ inbox[c] # <<>> /\ fd[c] = f
    BY <1>3 DEF Receive, HandleMessage, Net, NetTypes, ConnMapAgrees, EventsStand,
       isConnectionClosed
  <2>2. /\ asked' = Append(asked, r) /\ inbox' = [inbox EXCEPT ![c] = Tail(inbox[c])]
        /\ UNCHANGED <<sent, peer, backlog>>
    BY <1>3 DEF Receive, HandleMessage
  <2>3. peer[c] # "out" /\ \A i \in 1 .. Len(backlog) : backlog[i] # c
    BY <2>1 DEF Net, Backlog
  <2>4. /\ 1 \in 1 .. Len(inbox[c]) /\ r = inbox[c][1] /\ r \in Requests
        /\ Len(Tail(inbox[c])) = Len(inbox[c]) - 1
        /\ \A i \in 1 .. Len(Tail(inbox[c])) :
             i + 1 \in 1 .. Len(inbox[c]) /\ Tail(inbox[c])[i] = inbox[c][i + 1]
    BY <1>0, <2>1
  <2>5. r.client = c /\ r.number = read[c] + 1 /\ read[c] \in Nat
    BY <2>1, <2>4 DEF Net, Asked
  <2> HIDE DEF c
  <2>6. /\ read'[c] = read[c] + 1
        /\ \A d \in Clients : d # c => read'[d] = read[d] /\ inbox'[d] = inbox[d]
    BY <1>0, <2>1, <2>2, <2>4 DEF read
  <2>7. ASSUME NEW d \in Clients, NEW i \in 1 .. Len(inbox'[d])
        PROVE  inbox'[d][i].number = read'[d] + i
    <3>1. CASE d = c
      <4>1. inbox'[c] = Tail(inbox[c])
        BY <1>0, <2>1, <2>2
      <4>2. inbox'[c][i] = inbox[c][i + 1] /\ i + 1 \in 1 .. Len(inbox[c]) /\ i \in Nat
        BY <2>4, <3>1, <4>1
      <4>3. inbox[c][i + 1].number = read[c] + (i + 1)
        BY <2>1, <4>2 DEF Asked
      <4>4. read[c] + (i + 1) = read'[c] + i
        BY <2>5, <2>6, <4>2
      <4> QED
        BY <3>1, <4>2, <4>3, <4>4
    <3>2. CASE d # c
      BY <2>6, <3>2 DEF Asked
    <3> QED
      BY <3>1, <3>2
  <2> HIDE DEF r
  <2>8. /\ Len(asked') = Len(asked) + 1 /\ Len(asked) \in Nat
        /\ \A k \in 1 .. Len(asked) : asked'[k] = asked[k]
        /\ asked'[Len(asked) + 1] = r
    BY <1>0, <2>2, <2>4
  <2>9. \A k \in 1 .. Len(asked) : asked[k].number <= read[asked[k].client] /\ asked[k] # r
    <3>1. \A k \in 1 .. Len(asked) : asked[k].number \in Nat /\ asked[k].number <= read[asked[k].client]
      BY <1>0 DEF Asked
    <3> QED
      BY <2>5, <3>1
  <2>10. \A k \in 1 .. Len(asked') : asked'[k].number <= read'[asked'[k].client]
    <3>1. ASSUME NEW k \in 1 .. Len(asked) PROVE asked[k].number <= read'[asked[k].client]
      <4>1. /\ asked[k].client \in Clients /\ asked[k].number \in Nat
            /\ read[asked[k].client] \in Nat
        BY <1>0 DEF Asked
      <4> QED
        BY <2>6, <2>9, <4>1
    <3>2. r.number <= read'[r.client]
      BY <2>5, <2>6
    <3>3. \A k \in 1 .. Len(asked') : k \in 1 .. Len(asked) \/ k = Len(asked) + 1
      BY <2>8
    <3> QED
      BY <2>8, <3>1, <3>2, <3>3
  <2>11. \A k, l \in 1 .. Len(asked') : k # l => asked'[k] # asked'[l]
    <3>1. \A k, l \in 1 .. Len(asked) : k # l => asked[k] # asked[l]
      BY DEF Asked
    <3>2. \A k \in 1 .. Len(asked) : asked[k] # r
      BY <2>9
    <3> QED
      BY <1>0, <2>2, <2>4, <3>1, <3>2, AppendKeepsDistinct
  <2>12. \A k \in 1 .. Len(asked') :
           /\ peer'[asked'[k].client] # "out"
           /\ \A i \in 1 .. Len(backlog') : backlog'[i] # asked'[k].client
    <3>1. \A k \in 1 .. Len(asked') : k \in 1 .. Len(asked) \/ k = Len(asked) + 1
      BY <2>8
    <3> QED
      BY <2>2, <2>3, <2>5, <2>8, <3>1 DEF Asked
  <2>13. \A d \in Clients : read'[d] \in Nat
    BY <2>5, <2>6 DEF Asked
  <2> QED
    BY <2>7, <2>10, <2>11, <2>12, <2>13 DEF Asked
<1>4. CASE AddTask
  BY <1>1, <1>4 DEF AddTask, EndMessage, askedState
<1>5. CASE RunFunctor
  BY <1>1, <1>5 DEF RunFunctor, NextFunctor, askedState
<1>6. CASE OutOfDescriptors
  BY <1>1, <1>6 DEF OutOfDescriptors, HandleConnectionFails, askedState
<1>7. ASSUME NEW w \in Workers, WorkerStep(w) PROVE Asked'
  BY <1>1, <1>7 DEF WorkerStep, BeginTask, SendInLoop, PushFunctor, WakeupLoop, Wakeup,
     EndTask, askedState
<1>8. ASSUME NEW c \in Clients, ClientStep(c) PROVE Asked'
  <2>1. CASE Connect(c)
    <3>1. /\ peer[c] = "out" /\ backlog' = Append(backlog, c)
          /\ peer' = [peer EXCEPT ![c] = "in"] /\ UNCHANGED <<sent, inbox, asked>>
      BY <2>1 DEF Connect
    <3>2. \A i \in 1 .. Len(backlog') :
            (i \in 1 .. Len(backlog) /\ backlog'[i] = backlog[i]) \/ backlog'[i] = c
      BY <1>0, <3>1
    <3>3. \A k \in 1 .. Len(asked) : asked[k].client # c
      BY <3>1 DEF Asked
    <3>4. ASSUME NEW k \in 1 .. Len(asked)
          PROVE  /\ peer'[asked[k].client] # "out"
                 /\ \A i \in 1 .. Len(backlog') : backlog'[i] # asked[k].client
      <4>1. /\ asked[k].client # c /\ peer[asked[k].client] # "out"
            /\ \A i \in 1 .. Len(backlog) : backlog[i] # asked[k].client
        BY <3>3 DEF Asked
      <4>2. peer'[asked[k].client] = peer[asked[k].client]
        BY <1>0, <3>1, <4>1
      <4> QED
        BY <3>2, <4>1, <4>2
    <3>5. read' = read
      BY <3>1 DEF read
    <3> QED
      BY <3>1, <3>4, <3>5 DEF Asked
  <2>2. CASE Send(c)
    <3> DEFINE r == [client |-> c, number |-> sent[c] + 1]
               s == Append(inbox[c], r)
    <3>1. /\ inbox' = [inbox EXCEPT ![c] = s] /\ sent' = [sent EXCEPT ![c] = sent[c] + 1]
          /\ UNCHANGED <<asked, peer, backlog>> /\ sent[c] < MaxRequests
      BY <2>2 DEF Send
    <3>2. r \in Requests /\ r.number = sent[c] + 1
      BY <1>0, <3>1 DEF Requests
    <3> HIDE DEF r
    <3>3. /\ Len(s) = Len(inbox[c]) + 1 /\ s[Len(inbox[c]) + 1] = r
          /\ \A i \in 1 .. Len(inbox[c]) : s[i] = inbox[c][i]
      BY <1>0, <3>2
    <3> HIDE DEF s
    <3>4. /\ inbox'[c] = s /\ \A d \in Clients : d # c => inbox'[d] = inbox[d]
          /\ \A d \in Clients : read'[d] = read[d]
      BY <1>0, <3>1, <3>3 DEF read
    <3>5. \A d \in Clients : \A i \in 1 .. Len(inbox'[d]) : inbox'[d][i].number = read'[d] + i
      <4>1. sent[c] + 1 = read[c] + (Len(inbox[c]) + 1)
        BY <1>0 DEF read
      <4>2. \A i \in 1 .. Len(s) : i \in 1 .. Len(inbox[c]) \/ i = Len(inbox[c]) + 1
        BY <1>0, <3>3
      <4>3. \A i \in 1 .. Len(s) : s[i].number = read[c] + i
        BY <3>2, <3>3, <4>1, <4>2 DEF Asked
      <4> QED
        BY <3>4, <4>3 DEF Asked
    <3>6. \A k \in 1 .. Len(asked) : read'[asked[k].client] = read[asked[k].client]
      BY <1>0, <3>4
    <3> QED
      BY <3>1, <3>4, <3>5, <3>6 DEF Asked
  <2>3. CASE Leave(c)
    <3>1. peer' = [peer EXCEPT ![c] = "left"] /\ UNCHANGED <<sent, inbox, asked, backlog>>
      BY <2>3 DEF Leave
    <3> QED
      BY <1>0, <3>1 DEF Asked, read
  <2> QED
    BY <1>8, <2>1, <2>2, <2>3 DEF ClientStep
<1>9. CASE UNCHANGED vars
  BY <1>1, <1>9 DEF vars, askedState
<1> QED
  BY <1>2, <1>3, <1>4, <1>5, <1>6, <1>7, <1>8, <1>9 DEF Next, IoStep

-----------------------------------------------------------------------------
(* Answers that were handed to the reactor                                 *)

\* Task k has come so far that its answer was handed over.
IsHanded(k) ==
    /\ k <= accepted - Len(waiting)
    /\ \A w \in Workers : running[w] = k => wpc[w] \in {"wakeup", "release"}

Handed ==
    /\ \A i \in 1 .. Len(handed) :
         \E k \in 1 .. Len(asked) : IsHanded(k) /\ handed[i] = asked[k]
    /\ \A i, j \in 1 .. Len(handed) : i # j => handed[i] # handed[j]

LEMMA InitHanded == Init => Handed
<1> SUFFICES ASSUME Init PROVE Handed
  OBVIOUS
<1>1. Len(handed) = 0
  BY DEF Init
<1> QED
  BY <1>1 DEF Handed

handedState == <<accepted, waiting, running, wpc, asked, handed>>

\* If no task that was handed over ceases to be one, and none is added.
LEMMA HandedStays ==
    ASSUME Handed, UNCHANGED <<asked, handed>>,
           \A k \in 1 .. Len(asked) : IsHanded(k) => IsHanded(k)'
    PROVE  Handed'
BY DEF Handed

LEMMA StepHanded == Net /\ TaskInv /\ FunctorInv /\ Asked /\ Handed /\ [Next]_vars => Handed'
<1> SUFFICES ASSUME Net, TaskInv, FunctorInv, Asked, Handed, [Next]_vars PROVE Handed'
  OBVIOUS
<1>0. /\ asked \in Seq(Requests) /\ handed \in Seq(Requests) /\ waiting \in Seq(Nat)
      /\ accepted \in Nat /\ accepted - Len(waiting) \in Nat
      /\ wpc \in [Workers -> {"idle", "compute", "wakeup", "release"}]
      /\ running \in [Workers -> Nat \cup {NoTask}]
      /\ accepted <= Len(asked) /\ Len(asked) \in Nat
  BY DEF TaskInv, TaskOrder, AskedAgrees, FunctorInv
<1> USE DEF loopVars, connVars, netVars, taskVars
<1>1. CASE UNCHANGED handedState
  BY <1>1 DEF handedState, Handed, IsHanded
<1>2. CASE Poll
  BY <1>1, <1>2 DEF Poll, WaitEpollfd, HandleConnection, HandleRead, SwapFunctors, EndFunctors,
     HandleClose, handedState
<1>3. ASSUME NEW f \in Fds, Receive(f) PROVE Handed'
  <2> DEFINE r == Head(inbox[connMap[f]])
  <2>1. /\ asked' = Append(asked, r)
        /\ UNCHANGED <<accepted, waiting, running, wpc, handed>>
    BY <1>3 DEF Receive, HandleMessage
  <2>2. asked' = Append(asked, r) => /\ Len(asked') = Len(asked) + 1
                                     /\ \A k \in 1 .. Len(asked) : asked'[k] = asked[k]
    BY <1>0
  <2>3. \A k \in 1 .. Len(asked) : IsHanded(k) => IsHanded(k)' /\ asked'[k] = asked[k]
    BY <2>1, <2>2 DEF IsHanded
  <2>4. \A k \in 1 .. Len(asked) : k \in 1 .. Len(asked')
    BY <1>0, <2>1, <2>2
  <2> QED
    BY <2>1, <2>3, <2>4 DEF Handed
<1>4. CASE AddTask
  <2>1. /\ accepted' = accepted + 1 /\ waiting' = Append(waiting, accepted + 1)
        /\ UNCHANGED <<running, wpc, asked, handed>>
    BY <1>4 DEF AddTask, EndMessage, Tasks!Accept
  <2>2. accepted' - Len(waiting') = accepted - Len(waiting)
    BY <1>0, <2>1
  <2> QED
    BY <2>1, <2>2, HandedStays DEF IsHanded
<1>5. CASE RunFunctor
  BY <1>1, <1>5 DEF RunFunctor, NextFunctor, handedState
<1>6. CASE OutOfDescriptors
  BY <1>1, <1>6 DEF OutOfDescriptors, HandleConnectionFails, handedState
<1>7. ASSUME NEW w \in Workers, WorkerStep(w) PROVE Handed'
  <2>1. CASE BeginTask(w)
    <3>1. /\ waiting # <<>> /\ running' = [running EXCEPT ![w] = Head(waiting)]
          /\ waiting' = Tail(waiting) /\ UNCHANGED <<accepted, asked, handed>>
          /\ wpc' = [wpc EXCEPT ![w] = "compute"]
      BY <2>1 DEF BeginTask, Tasks!Begin
    <3>2. /\ Len(waiting') = Len(waiting) - 1 /\ Len(waiting) \in Nat \ {0}
          /\ Head(waiting) = waiting[1] /\ 1 \in 1 .. Len(waiting)
      BY <1>0, <3>1
    <3>3. Head(waiting) = accepted - Len(waiting) + 1
      BY <3>2 DEF TaskInv, TaskOrder
    <3>4. ASSUME NEW k \in 1 .. Len(asked), IsHanded(k) PROVE IsHanded(k)'
      <4>1. k <= accepted - Len(waiting) /\ k # Head(waiting)
        BY <1>0, <3>2, <3>3, <3>4 DEF IsHanded
      <4>2. k <= accepted' - Len(waiting')
        BY <1>0, <3>1, <3>2, <4>1
      <4>3. \A v \in Workers : running'[v] = k => v # w /\ running[v] = k /\ wpc'[v] = wpc[v]
        BY <1>0, <3>1, <4>1
      <4> QED
        BY <3>4, <4>2, <4>3 DEF IsHanded
    <3> QED
      BY <3>1, <3>4, HandedStays
  <2>2. CASE SendInLoop(w)
    <3> DEFINE k == running[w]
               r == asked[k]
    <3>1. /\ wpc[w] = "compute" /\ wpc' = [wpc EXCEPT ![w] = "wakeup"]
          /\ handed' = Append(handed, r)
          /\ UNCHANGED <<accepted, waiting, running, asked>>
      BY <2>2 DEF SendInLoop, PushFunctor
    <3>2. /\ k \in 1 .. accepted - Len(waiting) /\ k # NoTask
          /\ \A v \in Workers : v # w => running[v] # k
      BY <3>1 DEF TaskInv, TaskOrder
    <3>3. k \in 1 .. Len(asked) /\ r \in Requests
      BY <1>0, <3>2
    <3>4. ~IsHanded(k)
      BY <3>1 DEF IsHanded
    <3>5. \A l \in 1 .. Len(asked) : IsHanded(l) => asked[l] # r /\ IsHanded(l)'
      <4>1. \A l \in 1 .. Len(asked) : IsHanded(l) => l # k
        BY <3>4
      <4>2. \A l \in 1 .. Len(asked) : l # k => asked[l] # r
        BY <3>3 DEF Asked
      <4>3. \A v \in Workers : v # w => wpc'[v] = wpc[v]
        BY <1>0, <3>1
      <4>4. wpc'[w] = "wakeup"
        BY <1>0, <3>1
      <4> QED
        BY <3>1, <4>1, <4>2, <4>3, <4>4 DEF IsHanded
    <3>6. IsHanded(k)'
      <4>1. wpc'[w] = "wakeup"
        BY <1>0, <3>1
      <4> HIDE DEF k
      <4> SUFFICES /\ k <= accepted' - Len(waiting')
                   /\ \A v \in Workers : running'[v] = k => wpc'[v] \in {"wakeup", "release"}
        BY <3>1 DEF IsHanded, k
      <4> QED
        BY <1>0, <3>1, <3>2, <4>1
    <3> HIDE DEF r
    <3>7. /\ Len(handed') = Len(handed) + 1 /\ Len(handed) \in Nat
          /\ \A i \in 1 .. Len(handed) : handed'[i] = handed[i]
          /\ handed'[Len(handed) + 1] = r
      BY <1>0, <3>1, <3>3
    <3>8. \A i \in 1 .. Len(handed') : i \in 1 .. Len(handed) \/ i = Len(handed) + 1
      BY <3>7
    <3>9. ASSUME NEW i \in 1 .. Len(handed')
          PROVE  \E l \in 1 .. Len(asked') : IsHanded(l)' /\ handed'[i] = asked'[l]
      <4>1. CASE i \in 1 .. Len(handed)
        BY <3>1, <3>5, <3>7, <4>1 DEF Handed
      <4>2. CASE i = Len(handed) + 1
        BY <3>1, <3>3, <3>6, <3>7, <4>2 DEF r
      <4> QED
        BY <3>8, <4>1, <4>2
    <3>10. \A i, j \in 1 .. Len(handed') : i # j => handed'[i] # handed'[j]
      <4>1. \A i \in 1 .. Len(handed) : handed[i] # r
        BY <3>5 DEF Handed
      <4>2. \A i, j \in 1 .. Len(handed) : i # j => handed[i] # handed[j]
        BY DEF Handed
      <4> QED
        BY <1>0, <3>1, <3>3, <4>1, <4>2, AppendKeepsDistinct
    <3> QED
      BY <3>9, <3>10 DEF Handed
  <2>3. CASE WakeupLoop(w)
    <3>1. /\ wpc' = [wpc EXCEPT ![w] = "release"]
          /\ UNCHANGED <<accepted, waiting, running, asked, handed>>
      BY <2>3 DEF WakeupLoop, Wakeup
    <3> QED
      BY <1>0, <3>1, HandedStays DEF IsHanded
  <2>4. CASE EndTask(w)
    <3>1. /\ running' = [running EXCEPT ![w] = NoTask] /\ wpc' = [wpc EXCEPT ![w] = "idle"]
          /\ UNCHANGED <<accepted, waiting, asked, handed>>
      BY <2>4 DEF EndTask, Tasks!Finish
    <3> QED
      BY <1>0, <3>1, HandedStays DEF IsHanded
  <2> QED
    BY <1>7, <2>1, <2>2, <2>3, <2>4 DEF WorkerStep
<1>8. ASSUME NEW c \in Clients, ClientStep(c) PROVE Handed'
  BY <1>1, <1>8 DEF ClientStep, Connect, Send, Leave, handedState
<1>9. CASE UNCHANGED vars
  BY <1>1, <1>9 DEF vars, handedState
<1> QED
  BY <1>2, <1>3, <1>4, <1>5, <1>6, <1>7, <1>8, <1>9 DEF Next, IoStep

-----------------------------------------------------------------------------
(* Clients and their connections                                           *)

\* A client that is there has a connection or waits for accept; only of one
\* that has left does _connMap forget the connection before its tasks do.
Connected ==
    /\ \A c \in Clients :
         peer[c] = "in" => fd[c] # NoFd \/ \E i \in 1 .. Len(backlog) : backlog[i] = c
    /\ \A c \in Clients : fd[c] # NoFd /\ connMap[fd[c]] # c => peer[c] = "left"

LEMMA InitConnected == Init => Connected
BY DEF Init, Connected

LEMMA StepConnected == Net /\ TaskInv /\ Connected /\ [Next]_vars => Connected'
<1> SUFFICES ASSUME Net, TaskInv, Connected, [Next]_vars PROVE Connected'
  OBVIOUS
<1>0. /\ backlog \in Seq(Clients) /\ fd \in [Clients -> Fds \cup {NoFd}]
      /\ connMap \in [Fds -> Clients \cup {NoClient}]
      /\ peer \in [Clients -> {"out", "in", "left"}] /\ ConnMapAgrees
  BY DEF Net, NetTypes
<1> USE DEF loopVars, connVars, netVars, taskVars
<1>1. CASE UNCHANGED <<fd, connMap, backlog, peer>>
  BY <1>1 DEF Connected
<1>2. CASE Poll
  <2>1. CASE HandleConnection
    <3> DEFINE c == Head(backlog)
    <3>1. /\ backlog # <<>> /\ backlog' = Tail(backlog) /\ peer' = peer
      BY <2>1 DEF HandleConnection, Net, EventsStand
    <3>2. c \in Clients
      BY <1>0, <3>1
    <3>3. PICK f \in Fds : /\ fd' = [fd EXCEPT ![c] = f]
                           /\ connMap' = [connMap EXCEPT ![f] = c]
                           /\ f \notin OpenFds
      BY <2>1 DEF HandleConnection
    <3>4. \A i \in 1 .. Len(backlog) :
            backlog[i] = c \/ \E j \in 1 .. Len(backlog') : backlog'[j] = backlog[i]
      <4>1. ASSUME NEW i \in 1 .. Len(backlog), i # 1
            PROVE  i - 1 \in 1 .. Len(backlog') /\ backlog'[i - 1] = backlog[i]
        BY <1>0, <3>1, <4>1
      <4>2. backlog[1] = c
        BY <1>0, <3>1
      <4> QED
        BY <4>1, <4>2
    <3>5. \A d \in Clients : fd[d] # f
      BY <3>3 DEF OpenFds
    <3> HIDE DEF c
    <3>6. \A d \in Clients : d # c => fd'[d] = fd[d] /\ (fd[d] # NoFd => connMap'[fd[d]] = connMap[fd[d]])
      BY <1>0, <3>2, <3>3, <3>5
    <3>7. fd'[c] = f /\ connMap'[f] = c
      BY <1>0, <3>2, <3>3
    <3>8. ASSUME NEW d \in Clients, peer'[d] = "in"
          PROVE  fd'[d] # NoFd \/ \E i \in 1 .. Len(backlog') : backlog'[i] = d
      BY <3>1, <3>4, <3>6, <3>7, <3>8 DEF Connected
    <3>9. ASSUME NEW d \in Clients, fd'[d] # NoFd, connMap'[fd'[d]] # d
          PROVE  peer'[d] = "left"
      BY <3>1, <3>6, <3>7, <3>9 DEF Connected
    <3> QED
      BY <3>8, <3>9 DEF Connected
  <2>2. ASSUME NEW f \in Fds, HandleClose(f, Referenced(connMap[f])) PROVE Connected'
    <3> DEFINE c == connMap[f]
    <3>1. /\ c # NoClient /\ c \in Clients /\ fd[c] = f
      BY <1>0, <2>2 DEF HandleClose, ConnMapAgrees
    <3>2. /\ peer[c] = "left" /\ UNCHANGED <<peer, backlog>>
          /\ connMap' = [connMap EXCEPT ![f] = NoClient]
          /\ fd' = fd \/ fd' = [fd EXCEPT ![c] = NoFd]
      BY <2>2 DEF HandleClose, isConnectionClosed
    <3> HIDE DEF c
    <3>3. \A d \in Clients : d # c => /\ fd'[d] = fd[d]
                                      /\ fd[d] # NoFd => fd[d] # f /\ connMap'[fd[d]] = connMap[fd[d]]
      BY <1>0, <3>1, <3>2 DEF ConnMapAgrees
    <3> QED
      BY <3>1, <3>2, <3>3 DEF Connected
  <2>3. CASE WaitEpollfd \/ HandleRead \/ SwapFunctors \/ EndFunctors
    BY <1>1, <2>3 DEF WaitEpollfd, HandleRead, SwapFunctors, EndFunctors
  <2> QED
    BY <1>2, <2>1, <2>2, <2>3 DEF Poll
<1>3. ASSUME NEW f \in Fds, Receive(f) PROVE Connected'
  BY <1>1, <1>3 DEF Receive, HandleMessage
<1>4. CASE AddTask
  BY <1>1, <1>4 DEF AddTask, EndMessage
<1>5. CASE RunFunctor
  BY <1>1, <1>5 DEF RunFunctor, NextFunctor
<1>6. CASE OutOfDescriptors
  BY <1>1, <1>6 DEF OutOfDescriptors, HandleConnectionFails
<1>7. ASSUME NEW w \in Workers, WorkerStep(w) PROVE Connected'
  <2>1. CASE BeginTask(w) \/ SendInLoop(w) \/ WakeupLoop(w)
    BY <1>1, <2>1 DEF BeginTask, SendInLoop, PushFunctor, WakeupLoop, Wakeup
  <2>2. CASE EndTask(w)
    <3> DEFINE c == asked[running[w]].client
    <3>1. /\ UNCHANGED <<connMap, peer, backlog>>
          /\ fd' = fd \/ (TasksOf(c) # {} /\ connMap[fd[c]] # c /\ fd' = [fd EXCEPT ![c] = NoFd])
      BY <2>2 DEF EndTask
    <3> HIDE DEF c
    <3>2. \A d \in Clients : fd'[d] = fd[d] \/ (fd'[d] = NoFd /\ connMap[fd[d]] # d)
      BY <1>0, <3>1
    <3>3. \A d \in Clients : fd[d] # NoFd /\ fd'[d] # fd[d] => peer[d] = "left"
      BY <3>2 DEF Connected
    <3> QED
      BY <1>0, <3>1, <3>2, <3>3 DEF Connected
  <2> QED
    BY <1>7, <2>1, <2>2 DEF WorkerStep
<1>8. ASSUME NEW c \in Clients, ClientStep(c) PROVE Connected'
  <2>1. CASE Connect(c)
    <3>1. /\ peer[c] = "out" /\ backlog' = Append(backlog, c)
          /\ peer' = [peer EXCEPT ![c] = "in"] /\ UNCHANGED <<fd, connMap>>
      BY <2>1 DEF Connect
    <3>2. fd[c] = NoFd
      BY <3>1 DEF Net, Backlog
    <3>3. /\ Len(backlog') = Len(backlog) + 1 /\ backlog'[Len(backlog) + 1] = c
          /\ Len(backlog) \in Nat /\ \A i \in 1 .. Len(backlog) : backlog'[i] = backlog[i]
      BY <1>0, <3>1
    <3>4. \E i \in 1 .. Len(backlog') : backlog'[i] = c
      BY <3>3
    <3>5. \A d \in Clients : d # c => peer'[d] = peer[d]
      BY <1>0, <3>1
    <3>6. \A i \in 1 .. Len(backlog) : i \in 1 .. Len(backlog')
      BY <3>3
    <3> QED
      BY <3>1, <3>2, <3>3, <3>4, <3>5, <3>6 DEF Connected
  <2>2. CASE Send(c)
    BY <1>1, <2>2 DEF Send
  <2>3. CASE Leave(c)
    BY <1>0, <2>3 DEF Leave, Connected
  <2> QED
    BY <1>8, <2>1, <2>2, <2>3 DEF ClientStep
<1>9. CASE UNCHANGED vars
  BY <1>1, <1>9 DEF vars
<1> QED
  BY <1>2, <1>3, <1>4, <1>5, <1>6, <1>7, <1>8, <1>9 DEF Next, IoStep

-----------------------------------------------------------------------------
(* Answers that were sent                                                  *)

Run == Len(handed) - Len(batch) - Len(pending)

Ran(r) == \E i \in 1 .. Run : handed[i] = r

\* A client's own request is answered to it by a functor that has run; one that
\* left in time had all its answers.
Answered ==
    /\ answers \in [Clients -> Seq(Requests)]
    /\ \A c \in Clients : \A r \in Received(c) : r.client = c => Ran(r)
    /\ \A c \in Clients : peer[c] = "left" /\ c \notin early => RequestsOf(c) \subseteq Received(c)

Harmless ==
    /\ up \in BOOLEAN /\ early \subseteq Clients /\ dangling \subseteq Clients
    /\ HarmOnlyFromEarlyLeave

ToAsker ==
    dangling = {} =>
        \A c \in Clients :
            /\ Received(c) \subseteq RequestsOf(c)
            /\ IsFiniteSet(Received(c)) /\ Cardinality(Received(c)) = Len(answers[c])

-----------------------------------------------------------------------------
\* The functor that the reactor runs next is for a request that was not
\* answered yet; its client is not a newcomer, and has left early if at all.
LEMMA NextAnswer ==
    ASSUME Net, TaskInv, FunctorInv, Asked, Handed, Answered, batch # <<>>
    PROVE  LET r == Head(batch) IN
           /\ r \in Requests /\ r.client \in Clients
           /\ r \in RequestsOf(r.client) /\ r \notin Received(r.client)
           /\ Run \in Nat /\ Run + 1 \in 1 .. Len(handed) /\ handed[Run + 1] = r
           /\ peer[r.client] # "out" /\ \A i \in 1 .. Len(backlog) : backlog[i] # r.client
           /\ peer[r.client] = "left" => r.client \in early
<1> DEFINE r == Head(batch)
<1>1. /\ Len(batch) \in Nat \ {0} /\ Len(pending) \in Nat /\ Len(handed) \in Nat
      /\ r = batch[1] /\ 1 \in 1 .. Len(batch)
  BY DEF FunctorInv
<1>2. Run \in Nat /\ handed[Run + 1] = r
  BY <1>1 DEF FunctorInv, FunctorsInOrder, Run
<1>3. Run + 1 \in 1 .. Len(handed)
  BY <1>1, <1>2 DEF Run
<1> HIDE DEF r
<1>4. PICK k \in 1 .. Len(asked) : r = asked[k]
  BY <1>2, <1>3 DEF Handed
<1>5. /\ r \in Requests /\ r.client \in Clients /\ r.number \in Nat \ {0}
      /\ r = [client |-> r.client, number |-> r.number]
  BY <1>4, AskedTypes DEF Requests
<1>6. r.number <= sent[r.client]
  <2>1. r.number <= read[r.client]
    BY <1>4 DEF Asked
  <2>2. Len(inbox[r.client]) \in Nat /\ sent[r.client] \in Nat
    BY <1>5, AskedTypes
  <2> QED
    BY <1>5, <2>1, <2>2 DEF read
<1>7. r \in RequestsOf(r.client)
  <2>1. r.number \in 1 .. sent[r.client]
    BY <1>5, <1>6, AskedTypes
  <2> QED
    BY <1>5, <2>1 DEF RequestsOf
<1>8. ~Ran(r)
  <2>1. \A i \in 1 .. Run : i \in 1 .. Len(handed) /\ i # Run + 1
    BY <1>1, <1>2, <1>3
  <2> QED
    BY <1>2, <1>3, <2>1 DEF Ran, Handed
<1>9. r \notin Received(r.client)
  BY <1>5, <1>8 DEF Answered
<1>10. peer[r.client] # "out" /\ \A i \in 1 .. Len(backlog) : backlog[i] # r.client
  BY <1>4 DEF Asked
<1>11. peer[r.client] = "left" => r.client \in early
  BY <1>5, <1>7, <1>9 DEF Answered
<1> QED
  BY <1>2, <1>3, <1>5, <1>7, <1>9, <1>10, <1>11 DEF r

\* A client's answers with one more.
LEMMA OneMore ==
    ASSUME answers \in [Clients -> Seq(Requests)], NEW d \in Clients, NEW r \in Requests,
           answers' = [answers EXCEPT ![d] = Append(@, r)]
    PROVE  /\ answers' \in [Clients -> Seq(Requests)]
           /\ Len(answers'[d]) = Len(answers[d]) + 1 /\ Len(answers[d]) \in Nat
           /\ Received(d)' = Received(d) \cup {r}
           /\ \A c \in Clients : c # d => answers'[c] = answers[c] /\ Received(c)' = Received(c)
<1> DEFINE s == Append(answers[d], r)
<1>1. answers' = [answers EXCEPT ![d] = s]
  OBVIOUS
<1>2. /\ s \in Seq(Requests) /\ Len(s) = Len(answers[d]) + 1 /\ Len(answers[d]) \in Nat
      /\ s[Len(answers[d]) + 1] = r /\ \A i \in 1 .. Len(answers[d]) : s[i] = answers[d][i]
  OBVIOUS
<1> HIDE DEF s
<1>3. answers'[d] = s /\ \A c \in Clients : c # d => answers'[c] = answers[c]
  BY <1>1
<1>4. {s[i] : i \in 1 .. Len(s)} = {answers[d][i] : i \in 1 .. Len(answers[d])} \cup {r}
  <2> DEFINE n == Len(answers[d])
  <2>1. n \in Nat /\ \A i \in 1 .. n + 1 : i \in 1 .. n \/ i = n + 1
    BY <1>2
  <2>2. \A i \in 1 .. n : i \in 1 .. n + 1
    BY <2>1
  <2>3. n + 1 \in 1 .. n + 1
    BY <2>1
  <2> HIDE DEF n
  <2>4. Len(s) = n + 1 /\ s[n + 1] = r /\ \A i \in 1 .. n : s[i] = answers[d][i]
    BY <1>2 DEF n
  <2>5. {s[i] : i \in 1 .. n + 1} = {answers[d][i] : i \in 1 .. n} \cup {r}
    BY <2>1, <2>2, <2>3, <2>4
  <2> QED
    BY <2>4, <2>5 DEF n
<1> QED
  BY <1>1, <1>2, <1>3, <1>4 DEF Received

\* What the functor does to the answers.
LEMMA FunctorAnswers ==
    ASSUME Net, TaskInv, FunctorInv, Asked, Handed, Connected, Answered, RunFunctor
    PROVE  LET r == Head(batch) IN
           /\ Run' = Run + 1
           /\ UNCHANGED <<handed, peer, sent, early, fd>>
           /\ \/ answers' = answers /\ r.client \in early
              \/ fd[r.client] # NoFd /\ answers' = [answers EXCEPT ![r.client] = Append(@, r)]
              \/ /\ fd[r.client] = NoFd
                 /\ \E d \in Clients : fd[d] # NoFd /\ answers' = [answers EXCEPT ![d] = Append(@, r)]
           /\ up' = up \/ r.client \in early
           /\ up' \in BOOLEAN \/ up' = up
           /\ IF fd[r.client] # NoFd THEN dangling' = dangling
              ELSE dangling' = dangling \cup {r.client} /\ r.client \in early
<1> DEFINE r == Head(batch)
<1>1. /\ batch # <<>> /\ batch' = Tail(batch) /\ UNCHANGED <<pending, handed, peer, sent, early, fd>>
  BY DEF RunFunctor, NextFunctor, netVars, connVars
<1>2. /\ r.client \in Clients /\ peer[r.client] \in {"in", "left"}
      /\ peer[r.client] = "left" => r.client \in early
      /\ \A i \in 1 .. Len(backlog) : backlog[i] # r.client
  <2>1. peer \in [Clients -> {"out", "in", "left"}]
    BY DEF Net, NetTypes
  <2> QED
    BY <1>1, <2>1, NextAnswer
<1>3. Run' = Run + 1
  <2>1. /\ Len(batch') = Len(batch) - 1 /\ Len(batch) \in Nat /\ Len(pending) \in Nat
        /\ Len(handed) \in Nat
    BY <1>1 DEF FunctorInv
  <2> QED
    BY <1>1, <2>1 DEF Run
<1>4. CASE fd[r.client] # NoFd
  <2>1. SendTo(r.client, r) /\ dangling' = dangling
    BY <1>4 DEF RunFunctor
  <2> HIDE DEF r
  <2>2. \/ /\ answers' = [answers EXCEPT ![r.client] = Append(@, r)] /\ up' = up
        \/ /\ peer[r.client] = "left" /\ up' \in BOOLEAN /\ answers' = answers
    BY <2>1 DEF SendTo
  <2> QED
    BY <1>1, <1>2, <1>3, <1>4, <2>1, <2>2 DEF r
<1>5. CASE fd[r.client] = NoFd
  <2>1. SendThroughFreed(r) /\ dangling' = dangling \cup {r.client}
    BY <1>5 DEF RunFunctor
  <2> HIDE DEF r
  <2>2. r.client \in early
    BY <1>2, <1>5 DEF Connected
  <2>3. \/ /\ up' \in BOOLEAN /\ answers' = answers
        \/ \E d \in Clients : /\ fd[d] # NoFd /\ up' = up
                             /\ answers' = [answers EXCEPT ![d] = Append(@, r)]
    BY <2>1 DEF SendThroughFreed, SendTo
  <2> QED
    BY <1>1, <1>3, <1>5, <2>1, <2>2, <2>3 DEF r
<1> QED
  BY <1>4, <1>5

LEMMA InitAnswered == Init => Answered /\ Harmless /\ ToAsker
<1> SUFFICES ASSUME Init PROVE Answered /\ Harmless /\ ToAsker
  OBVIOUS
<1>1. /\ answers = [c \in Clients |-> <<>>] /\ dangling = {} /\ up = TRUE /\ early = {}
      /\ \A c \in Clients : peer[c] = "out"
  BY DEF Init
<1>2. \A c \in Clients : Received(c) = {} /\ Len(answers[c]) = 0
  BY <1>1 DEF Received
<1>3. answers \in [Clients -> Seq(Requests)]
  BY <1>1
<1>4. IsFiniteSet({}) /\ Cardinality({}) = 0
  BY FS_EmptySet
<1> QED
  BY <1>1, <1>2, <1>3, <1>4 DEF Answered, Harmless, HarmOnlyFromEarlyLeave, ToAsker

\* Every step but that of a functor leaves what was received and what ran.
LEMMA RanStays ==
    ASSUME Net, TaskInv, FunctorInv, [Next]_vars, ~RunFunctor, NEW r, Ran(r)
    PROVE  Ran(r)'
<1>0. /\ Len(batch) \in Nat /\ Len(pending) \in Nat /\ Len(handed) \in Nat
      /\ handed \in Seq(Requests) /\ pending \in Seq(Requests)
  BY DEF FunctorInv
<1> USE DEF loopVars, connVars, netVars, taskVars
<1>1. CASE UNCHANGED <<pending, batch, handed>>
  BY <1>1 DEF Ran, Run
<1>2. CASE Poll
  <2>1. CASE SwapFunctors
    <3>1. batch = <<>> /\ batch' = pending /\ pending' = <<>> /\ handed' = handed
      BY <1>2, <2>1 DEF Poll, SwapFunctors, FunctorInv
    <3>2. Run' = Run
      BY <1>0, <3>1 DEF Run
    <3> QED
      BY <3>1, <3>2 DEF Ran
  <2>2. CASE WaitEpollfd \/ HandleConnection \/ HandleRead \/ EndFunctors
    BY <1>1, <1>2, <2>2 DEF Poll, WaitEpollfd, HandleConnection, HandleRead, EndFunctors
  <2>3. ASSUME NEW f \in Fds, HandleClose(f, Referenced(connMap[f])) PROVE Ran(r)'
    BY <1>1, <1>2, <2>3 DEF Poll, HandleClose
  <2> QED
    BY <1>2, <2>1, <2>2, <2>3 DEF Poll
<1>3. ASSUME NEW f \in Fds, Receive(f) PROVE Ran(r)'
  BY <1>1, <1>3 DEF Receive, HandleMessage
<1>4. CASE AddTask
  BY <1>1, <1>4 DEF AddTask, EndMessage
<1>5. CASE OutOfDescriptors
  BY <1>1, <1>5 DEF OutOfDescriptors, HandleConnectionFails
<1>6. ASSUME NEW w \in Workers, WorkerStep(w) PROVE Ran(r)'
  <2>1. CASE SendInLoop(w)
    <3> DEFINE x == asked[running[w]]
    <3>1. pending' = Append(pending, x) /\ handed' = Append(handed, x) /\ batch' = batch
      BY <2>1 DEF SendInLoop, PushFunctor
    <3> HIDE DEF x
    <3>2. /\ Len(pending') = Len(pending) + 1 /\ Len(handed') = Len(handed) + 1
          /\ \A i \in 1 .. Len(handed) : handed'[i] = handed[i]
      BY <1>0, <3>1
    <3>3. Run' = Run /\ \A i \in 1 .. Run : i \in 1 .. Len(handed)
      BY <1>0, <3>1, <3>2 DEF Run
    <3> QED
      BY <3>2, <3>3 DEF Ran
  <2>2. CASE BeginTask(w) \/ WakeupLoop(w) \/ EndTask(w)
    BY <1>1, <2>2 DEF BeginTask, WakeupLoop, Wakeup, EndTask
  <2> QED
    BY <1>6, <2>1, <2>2 DEF WorkerStep
<1>7. ASSUME NEW c \in Clients, ClientStep(c) PROVE Ran(r)'
  BY <1>1, <1>7 DEF ClientStep, Connect, Send, Leave
<1>8. CASE UNCHANGED vars
  BY <1>1, <1>8 DEF vars
<1> QED
  BY <1>2, <1>3, <1>4, <1>5, <1>6, <1>7, <1>8 DEF Next, IoStep

LEMMA StepAnswered ==
    /\ Net /\ TaskInv /\ FunctorInv /\ Asked /\ Handed /\ Connected /\ Answered /\ [Next]_vars
    => Answered'
<1> SUFFICES ASSUME Net, TaskInv, FunctorInv, Asked, Handed, Connected, Answered, [Next]_vars
             PROVE  Answered'
  OBVIOUS
<1>0. answers \in [Clients -> Seq(Requests)] /\ peer \in [Clients -> {"out", "in", "left"}]
  BY DEF Answered, Net, NetTypes
<1>1. CASE RunFunctor
  <2>0. PICK r \in Requests : r = Head(batch)
    BY <1>1, NextAnswer DEF RunFunctor, NextFunctor
  <2>1. /\ Run' = Run + 1 /\ UNCHANGED <<handed, peer, sent, early>>
        /\ \/ answers' = answers
           \/ fd[r.client] # NoFd /\ answers' = [answers EXCEPT ![r.client] = Append(@, r)]
           \/ /\ fd[r.client] = NoFd
              /\ \E d \in Clients : fd[d] # NoFd /\ answers' = [answers EXCEPT ![d] = Append(@, r)]
    BY <1>1, <2>0, FunctorAnswers
  <2>2. r.client \in Clients /\ Run \in Nat /\ handed[Run + 1] = r
    BY <1>1, <2>0, NextAnswer DEF RunFunctor, NextFunctor
  <2>3. Ran(r)' /\ \A x : Ran(x) => Ran(x)'
    <3>1. Run + 1 \in 1 .. Run' /\ \A i \in 1 .. Run : i \in 1 .. Run'
      BY <2>1, <2>2
    <3>2. Ran(r)'
      BY <2>1, <2>2, <3>1 DEF Ran
    <3>3. ASSUME NEW x, Ran(x) PROVE Ran(x)'
      BY <2>1, <3>1, <3>3 DEF Ran
    <3> QED
      BY <3>2, <3>3
  <2>4. CASE answers' = answers
    BY <2>1, <2>3, <2>4 DEF Answered, Received, RequestsOf
  <2>5. ASSUME NEW d \in Clients, answers' = [answers EXCEPT ![d] = Append(@, r)] PROVE Answered'
    <3>1. /\ answers' \in [Clients -> Seq(Requests)]
          /\ Received(d)' = Received(d) \cup {r}
          /\ \A c \in Clients : c # d => Received(c)' = Received(c)
      BY <1>0, <2>2, <2>5, OneMore
    <3>2. ASSUME NEW c \in Clients, NEW x \in Received(c)', x.client = c PROVE Ran(x)'
      <4>1. x \in Received(c) \/ x = r
        BY <3>1, <3>2
      <4>2. x \in Received(c) => Ran(x)
        BY <3>2 DEF Answered
      <4> QED
        BY <2>3, <4>1, <4>2
    <3>3. \A c \in Clients : Received(c) \subseteq Received(c)' /\ RequestsOf(c)' = RequestsOf(c)
      BY <2>1, <3>1 DEF RequestsOf
    <3> QED
      BY <2>1, <3>1, <3>2, <3>3 DEF Answered
  <2> QED
    BY <2>1, <2>2, <2>4, <2>5
<1>2. CASE ~RunFunctor
  <2>1. \A x : Ran(x) => Ran(x)'
    BY <1>2, RanStays
  <2>2. answers' = answers
    BY <1>2 DEF Next, IoStep, Poll, Receive, AddTask, OutOfDescriptors, WorkerStep, BeginTask,
       SendInLoop, WakeupLoop, EndTask, ClientStep, Connect, Send, Leave, vars
  <2>3. \A c \in Clients : Received(c)' = Received(c)
    BY <2>2 DEF Received
  <2>4. ASSUME NEW c \in Clients, peer'[c] = "left", c \notin early'
        PROVE  RequestsOf(c)' \subseteq Received(c)'
    <3>1. CASE UNCHANGED <<peer, early, sent>>
      BY <2>3, <2>4, <3>1 DEF Answered, RequestsOf
    <3>2. ASSUME NEW d \in Clients, ClientStep(d) PROVE RequestsOf(c)' \subseteq Received(c)'
      <4>1. CASE Connect(d)
        <5>1. peer' = [peer EXCEPT ![d] = "in"] /\ UNCHANGED <<early, sent>>
          BY <4>1 DEF Connect
        <5>2. peer[c] = "left"
          BY <1>0, <2>4, <5>1
        <5> QED
          BY <2>3, <2>4, <5>1, <5>2 DEF Answered, RequestsOf
      <4>2. CASE Send(d)
        <5>1. /\ peer[d] = "in" /\ sent' = [sent EXCEPT ![d] = sent[d] + 1]
              /\ UNCHANGED <<peer, early>>
          BY <4>2 DEF Send
        <5>2. c # d /\ sent'[c] = sent[c]
          BY <2>4, <5>1 DEF Net, NetTypes
        <5> QED
          BY <2>3, <2>4, <5>1, <5>2 DEF Answered, RequestsOf
      <4>3. CASE Leave(d)
        <5>1. /\ peer' = [peer EXCEPT ![d] = "left"] /\ sent' = sent
              /\ IF RequestsOf(d) \subseteq Received(d) THEN early' = early ELSE early' = early \cup {d}
          BY <4>3 DEF Leave
        <5>2. CASE c = d
          BY <2>3, <2>4, <5>1, <5>2 DEF RequestsOf
        <5>3. CASE c # d
          BY <1>0, <2>3, <2>4, <5>1, <5>3 DEF Answered, RequestsOf
        <5> QED
          BY <5>2, <5>3
      <4> QED
        BY <3>2, <4>1, <4>2, <4>3 DEF ClientStep
    <3>3. CASE IoStep
      BY <1>2, <3>1, <3>3 DEF IoStep, Poll, WaitEpollfd, HandleConnection, HandleRead, SwapFunctors,
         EndFunctors, HandleClose, OutOfDescriptors, HandleConnectionFails, Receive, HandleMessage,
         AddTask, EndMessage, netVars
    <3>4. ASSUME NEW w \in Workers, WorkerStep(w) PROVE UNCHANGED <<peer, early, sent>>
      BY <3>4 DEF WorkerStep, BeginTask, SendInLoop, WakeupLoop, EndTask, netVars
    <3>5. CASE UNCHANGED vars
      BY <3>1, <3>5 DEF vars, netVars
    <3> QED
      BY <3>1, <3>2, <3>3, <3>4, <3>5 DEF Next
  <2> QED
    BY <1>0, <2>1, <2>2, <2>3, <2>4 DEF Answered
<1> QED
  BY <1>1, <1>2

LEMMA StepHarmless ==
    /\ Net /\ TaskInv /\ FunctorInv /\ Asked /\ Handed /\ Connected /\ Answered /\ Harmless
    /\ [Next]_vars
    => Harmless'
<1> SUFFICES ASSUME Net, TaskInv, FunctorInv, Asked, Handed, Connected, Answered, Harmless,
                    [Next]_vars
             PROVE  Harmless'
  OBVIOUS
<1> USE DEF Harmless, HarmOnlyFromEarlyLeave
<1>1. CASE RunFunctor
  <2> DEFINE r == Head(batch)
  <2>1. /\ UNCHANGED <<early, fd>> /\ r.client \in Clients
        /\ up' = up \/ r.client \in early
        /\ up' \in BOOLEAN \/ up' = up
        /\ IF fd[r.client] # NoFd THEN dangling' = dangling
           ELSE dangling' = dangling \cup {r.client} /\ r.client \in early
    BY <1>1, FunctorAnswers, NextAnswer DEF RunFunctor, NextFunctor
  <2> HIDE DEF r
  <2> QED
    BY <2>1 DEF OpenFds
<1>2. CASE OutOfDescriptors
  BY <1>2 DEF OutOfDescriptors, HandleConnectionFails, connVars, OpenFds
<1>3. CASE UNCHANGED <<up, dangling, early>> /\ up
  BY <1>3
<1>4. CASE IoStep
  BY <1>1, <1>2, <1>3, <1>4 DEF IoStep, Poll, Receive, AddTask
<1>5. ASSUME NEW w \in Workers, WorkerStep(w) PROVE Harmless'
  BY <1>3, <1>5 DEF WorkerStep, BeginTask, SendInLoop, WakeupLoop, EndTask
<1>6. ASSUME NEW c \in Clients, ClientStep(c) PROVE Harmless'
  <2>1. UNCHANGED <<up, dangling, fd>> /\ (early' = early \/ early' = early \cup {c})
    BY <1>6 DEF ClientStep, Connect, Send, Leave, connVars
  <2> QED
    BY <2>1 DEF OpenFds
<1>7. CASE UNCHANGED vars
  BY <1>7 DEF vars, connVars, OpenFds
<1> QED
  BY <1>4, <1>5, <1>6, <1>7 DEF Next

LEMMA StepToAsker ==
    /\ Net /\ TaskInv /\ FunctorInv /\ Asked /\ Handed /\ Connected /\ Answered /\ ToAsker
    /\ [Next]_vars
    => ToAsker'
<1> SUFFICES ASSUME Net, TaskInv, FunctorInv, Asked, Handed, Connected, Answered, ToAsker,
                    [Next]_vars, dangling' = {}
             PROVE  \A c \in Clients :
                        /\ Received(c)' \subseteq RequestsOf(c)'
                        /\ IsFiniteSet(Received(c)') /\ Cardinality(Received(c)') = Len(answers'[c])
  BY DEF ToAsker
<1>1. CASE RunFunctor
  <2>0. PICK r \in Requests, d \in Clients : r = Head(batch) /\ d = r.client
    BY <1>1, NextAnswer DEF RunFunctor, NextFunctor
  <2>1. /\ dangling = {} /\ UNCHANGED sent
        /\ answers' = answers \/ answers' = [answers EXCEPT ![d] = Append(@, r)]
    BY <1>1, <2>0, FunctorAnswers
  <2>2. r \in RequestsOf(d) /\ r \notin Received(d)
    BY <1>1, <2>0, NextAnswer DEF RunFunctor, NextFunctor
  <2>3. \A c \in Clients : /\ RequestsOf(c)' = RequestsOf(c) /\ Received(c) \subseteq RequestsOf(c)
                           /\ IsFiniteSet(Received(c)) /\ Cardinality(Received(c)) = Len(answers[c])
    BY <2>1 DEF ToAsker, RequestsOf
  <2>4. CASE answers' = answers
    <3>1. \A c \in Clients : Received(c)' = Received(c)
      BY <2>4 DEF Received
    <3> QED
      BY <2>3, <2>4, <3>1
  <2>5. CASE answers' = [answers EXCEPT ![d] = Append(@, r)]
    <3>1. /\ Len(answers'[d]) = Len(answers[d]) + 1 /\ Received(d)' = Received(d) \cup {r}
          /\ \A c \in Clients : c # d => answers'[c] = answers[c] /\ Received(c)' = Received(c)
      BY <2>2, <2>5, OneMore DEF Answered
    <3>2. /\ IsFiniteSet(Received(d) \cup {r})
          /\ Cardinality(Received(d) \cup {r}) = Cardinality(Received(d)) + 1
      BY <2>2, <2>3, FS_AddElement
    <3> QED
      BY <2>2, <2>3, <3>1, <3>2
  <2> QED
    BY <2>1, <2>4, <2>5
<1>2. CASE ~RunFunctor
  <2>1. UNCHANGED <<answers, dangling>>
    BY <1>2 DEF Next, IoStep, Poll, Receive, AddTask, OutOfDescriptors, WorkerStep, BeginTask,
       SendInLoop, WakeupLoop, EndTask, ClientStep, Connect, Send, Leave, vars
  <2>2. \A c \in Clients : Received(c)' = Received(c) /\ answers'[c] = answers[c]
    BY <2>1 DEF Received
  <2>3. sent' = sent \/ \E d \in Clients : sent' = [sent EXCEPT ![d] = sent[d] + 1]
    BY <1>2 DEF Next, IoStep, Poll, Receive, AddTask, OutOfDescriptors, WorkerStep, BeginTask,
       SendInLoop, WakeupLoop, EndTask, ClientStep, Connect, Send, Leave, vars
  <2>4. sent \in [Clients -> Nat]
    BY DEF Net, NetTypes
  <2>5. \A c \in Clients : sent'[c] \in Nat /\ sent[c] \in Nat /\ sent[c] <= sent'[c]
    BY <2>3, <2>4
  <2>6. \A c \in Clients : RequestsOf(c) \subseteq RequestsOf(c)'
    BY <2>5 DEF RequestsOf
  <2> QED
    BY <2>1, <2>2, <2>6 DEF ToAsker
<1> QED
  BY <1>1, <1>2

-----------------------------------------------------------------------------
Way == Asked /\ Handed /\ Connected /\ Answered /\ Harmless /\ ToAsker

LEMMA WayInvariance == Spec => [](IInv /\ Way)
<1>1. Init => Way
  BY InitAsked, InitHanded, InitConnected, InitAnswered DEF Way
<1>2. IInv /\ Way /\ [Next]_vars => Way'
  BY StepAsked, StepHanded, StepConnected, StepAnswered, StepHarmless, StepToAsker DEF IInv, Way
<1> QED
  BY <1>1, <1>2, Invariance, PTL DEF Spec

\* The list of events only grows.
LEMMA ListSizeInvariance == Spec => [](listSize \in Nat)
<1>1. Init => listSize \in Nat
  BY DEF Init
<1>2. listSize \in Nat /\ [Next]_vars => (listSize \in Nat)'
  <2> SUFFICES ASSUME listSize \in Nat, [Next]_vars PROVE listSize' \in {listSize, 2 * listSize}
    OBVIOUS
  <2> USE DEF loopVars
  <2>1. CASE IoStep
    <3>1. CASE Poll
      BY <3>1 DEF Poll, WaitEpollfd, HandleConnection, HandleRead, SwapFunctors, EndFunctors, HandleClose
    <3>2. CASE OutOfDescriptors \/ AddTask \/ RunFunctor \/ \E f \in Fds : Receive(f)
      BY <3>2 DEF OutOfDescriptors, HandleConnectionFails, AddTask, EndMessage, RunFunctor,
         NextFunctor, Receive, HandleMessage
    <3> QED
      BY <2>1, <3>1, <3>2 DEF IoStep
  <2>2. ASSUME NEW w \in Workers, WorkerStep(w) PROVE listSize' = listSize
    BY <2>2 DEF WorkerStep, BeginTask, SendInLoop, PushFunctor, WakeupLoop, Wakeup, EndTask
  <2>3. ASSUME NEW c \in Clients, ClientStep(c) PROVE listSize' = listSize
    BY <2>3 DEF ClientStep, Connect, Send, Leave
  <2> QED
    BY <2>1, <2>2, <2>3 DEF Next, vars
<1> QED
  BY <1>1, <1>2, PTL DEF Spec

\* Every variable of the server keeps its type.
THEOREM ServerTypes == Spec => []TypeOK
<1>1. IInv /\ Way /\ listSize \in Nat => TypeOK
  BY DEF IInv, Net, NetTypes, TaskInv, FunctorInv, Way, Answered, Harmless, TypeOK
<1> QED
  BY <1>1, WayInvariance, ListSizeInvariance, PTL

\* The raw pointer that sendInLoop hands over (tcpconnection.cc:53) is only used
\* after its connection's end, and the process only ends, when a client has
\* left before its last answer or the descriptors are exhausted.
THEOREM HarmComesFromLeaving == Spec => []HarmOnlyFromEarlyLeave
<1>1. Way => HarmOnlyFromEarlyLeave
  BY DEF Way, Harmless
<1> QED
  BY <1>1, WayInvariance, PTL

\* As long as no functor has outlived its connection, a client receives answers
\* to its own requests only, and one to each at most.
THEOREM AnswersFindAsker == Spec => []AnswersToAsker
<1>1. Way => AnswersToAsker
  BY DEF Way, ToAsker, AnswersToAsker
<1> QED
  BY <1>1, WayInvariance, PTL
==============================================================================
