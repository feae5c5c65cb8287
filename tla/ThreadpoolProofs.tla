--------------------------- MODULE ThreadpoolProofs ---------------------------
(***************************************************************************)
(* The safety properties of Threadpool hold for every set of workers, every *)
(* queue size (zero included), any number of tasks and of spurious wakeups. *)
(***************************************************************************)
EXTENDS Threadpool, Integers, TLAPS

USE ThreadpoolAssumption DEF ThreadpoolAssumption, Threads

-----------------------------------------------------------------------------
(* The inductive invariant, in layers                                      *)

\* The mutex is held by the one thread that is inside a locked region.
Mutex == \A t \in Threads : pc[t] \in LockedPoints <=> mutex = t

\* The owner carries the task it pushes from addTask to the end of push; a
\* worker carries one from the end of pop to the end of the call.
Carries ==
    /\ elem[Io] = IF pc[Io] \in PushPoints THEN added ELSE NoTask
    /\ pc[Io] \in PushPoints => added > 0
    /\ added <= MaxTasks
    /\ \A w \in Workers : elem[w] # NoTask => pc[w] = "ret"

Base == TypeOK /\ Mutex /\ Carries /\ NoPopFromEmpty

-----------------------------------------------------------------------------

\* pthread_cond_signal only ever takes threads out of the wait set, and takes
\* one out when somebody sleeps.
LEMMA SignalWakesOne ==
    ASSUME NEW S, NEW T \in NotifyOne(S)
    PROVE  /\ T \subseteq S
           /\ S # {} => \E t \in S : t \notin T
BY Zenon DEF NotifyOne

LEMMA InitBase == Init => Base
<1> SUFFICES ASSUME Init PROVE Base
  OBVIOUS
<1>1. TypeOK
  <2>1. que \in Seq(Nat)
    BY DEF Init
  <2>2. /\ pc \in [Threads -> WorkerPoints \cup IoPoints]
        /\ pc[Io] \in IoPoints
        /\ \A w \in Workers : pc[w] \in WorkerPoints
    BY DEF Init, IoPoints, WorkerPoints
  <2> QED
    BY <2>1, <2>2 DEF Init, TypeOK
<1>2. Mutex /\ Carries /\ NoPopFromEmpty
  BY DEF Init, Mutex, Carries, NoPopFromEmpty, LockedPoints, PushPoints
<1> QED
  BY <1>1, <1>2 DEF Base

\* Every step keeps the types, the mutex, the carried tasks, and the fact that
\* a worker about to take the front finds one.
LEMMA StepBase == Base /\ [Next]_vars => Base'
<1> SUFFICES ASSUME Base, [Next]_vars PROVE Base'
  OBVIOUS
<1> USE DEF Base, TypeOK, Mutex, Carries, NoPopFromEmpty, LockedPoints, IoPoints,
            WorkerPoints, PushPoints, PopPoints, GoTo, queueVars, poolVars,
            Lock, Unlock, empty
<1>1. CASE AddTask
  BY <1>1 DEF AddTask
<1>2. CASE Stop
  BY <1>2 DEF Stop
<1>3. ASSUME NEW w \in Workers, StartThread(w) PROVE Base'
  BY <1>3 DEF StartThread
<1>4. CASE Push
  <2>1. CASE PushLock(Io)
    BY <1>4, <2>1 DEF Push, PushLock
  <2>2. CASE PushWait(Io)
    BY <1>4, <2>2 DEF Push, PushWait
  <2>3. CASE PushWake(Io)
    BY <1>4, <2>3 DEF Push, PushWake
  <2>4. CASE PushAppend(Io, "idle")
    <3>1. notEmpty' \subseteq notEmpty
      BY <2>4, SignalWakesOne DEF PushAppend
    <3>2. que' \in Seq(Nat)
      BY <2>4 DEF PushAppend
    <3> QED
      BY <1>4, <2>4, <3>1, <3>2 DEF Push, PushAppend
  <2> QED
    BY <1>4, <2>1, <2>2, <2>3, <2>4 DEF Push
<1>5. CASE StopDrained \/ StopExit \/ StopWakeUp \/ StopJoin
  <2>1. CASE StopDrained
    BY <2>1 DEF StopDrained
  <2>2. CASE StopExit
    BY <2>2 DEF StopExit
  <2>3. CASE StopWakeUp
    <3>1. CASE WakeUpFlag(Io, "stopFlag", "stopNotify")
      BY <2>3, <3>1 DEF StopWakeUp, WakeUpFlag
    <3>2. CASE WakeUpNotifyAll(Io, "stopNotify", "stopJoin")
      BY <2>3, <3>2 DEF StopWakeUp, WakeUpNotifyAll
    <3> QED
      BY <2>3, <3>1, <3>2 DEF StopWakeUp
  <2>4. CASE StopJoin
    BY <2>4 DEF StopJoin
  <2> QED
    BY <1>5, <2>1, <2>2, <2>3, <2>4
<1>6. ASSUME NEW w \in Workers, WorkerStep(w) PROVE Base'
  <2>1. CASE LoopTest(w)
    BY <2>1 DEF LoopTest
  <2>2. CASE Pop(w)
    <3>1. CASE PopLock(w)
      BY <2>2, <3>1 DEF Pop, PopLock
    <3>2. CASE PopTest(w)
      BY <2>2, <3>2 DEF Pop, PopTest
    <3>3. CASE PopWake(w)
      BY <2>2, <3>3 DEF Pop, PopWake
    <3>4. CASE PopTake(w, "ret")
      <4>1. notFull' \subseteq notFull
        BY <3>4, SignalWakesOne DEF PopTake
      <4>2. que' \in Seq(Nat) /\ Head(que) \in Nat
        BY <3>4 DEF PopTake
      <4> QED
        BY <2>2, <3>4, <4>1, <4>2 DEF Pop, PopTake
    <3>5. CASE PopNull(w, "ret")
      BY <2>2, <3>5 DEF Pop, PopNull
    <3> QED
      BY <2>2, <3>1, <3>2, <3>3, <3>4, <3>5 DEF Pop
  <2>3. CASE Sleep(w)
    BY <2>3 DEF Sleep, PopSleep
  <2>4. CASE RunTask(w)
    BY <2>4 DEF RunTask
  <2>5. CASE SkipNull(w)
    BY <2>5 DEF SkipNull
  <2> QED
    BY <1>6, <2>1, <2>2, <2>3, <2>4, <2>5 DEF WorkerStep
<1>7. ASSUME NEW t \in Threads, Spurious(t) PROVE Base'
  BY <1>7 DEF Spurious, SpuriousWake
<1>8. CASE UNCHANGED vars
  BY <1>8 DEF vars
<1> QED
  BY <1>1, <1>2, <1>3, <1>4, <1>5, <1>6, <1>7, <1>8 DEF Next, IoCall

-----------------------------------------------------------------------------
(* The phases of start and stop                                            *)

\* _flag and _isExit follow the owner through stop; the queue is empty before
\* the pool has started and once the drain loop has ended; workers leave only
\* when _isExit is set, and all of them have left when stop has returned.
Phases ==
    /\ flag <=> pc[Io] \notin {"stopNotify", "stopJoin", "stopped"}
    /\ isExit <=> pc[Io] \in {"stopFlag", "stopNotify", "stopJoin", "stopped"}
    /\ pc[Io] \in {"start", "stopExit", "stopFlag", "stopNotify", "stopJoin", "stopped"}
        => que = <<>>
    /\ \A w \in Workers : pc[w] = "exited" => isExit
    /\ pc[Io] = "stopped" => \A w \in Workers : pc[w] = "exited"

LEMMA InitPhases == Init => Phases
BY DEF Init, Phases

LEMMA StepPhases == Base /\ Phases /\ [Next]_vars => Phases'
<1> SUFFICES ASSUME Base, Phases, [Next]_vars PROVE Phases'
  OBVIOUS
<1> USE DEF Base, TypeOK, Phases, IoPoints, PushPoints, GoTo, queueVars, poolVars, empty
<1>1. CASE AddTask \/ Stop
  BY <1>1 DEF AddTask, Stop
<1>2. ASSUME NEW w \in Workers, StartThread(w) PROVE Phases'
  BY <1>2 DEF StartThread
<1>3. CASE Push
  <2>1. CASE PushLock(Io) \/ PushWait(Io) \/ PushWake(Io)
    BY <1>3, <2>1 DEF Push, PushLock, PushWait, PushWake
  <2>2. CASE PushAppend(Io, "idle")
    BY <1>3, <2>2 DEF Push, PushAppend
  <2> QED
    BY <1>3, <2>1, <2>2 DEF Push
<1>4. CASE StopDrained \/ StopExit
  BY <1>4 DEF StopDrained, StopExit
<1>5. CASE StopWakeUp
  BY <1>5 DEF StopWakeUp, WakeUpFlag, WakeUpNotifyAll
<1>6. CASE StopJoin
  BY <1>6 DEF StopJoin
<1>7. ASSUME NEW w \in Workers, WorkerStep(w) PROVE Phases'
  <2>1. CASE LoopTest(w)
    BY <2>1 DEF LoopTest
  <2>2. CASE PopTake(w, "ret") /\ UNCHANGED poolVars
    \* flag excludes the phases after the broadcast, the front taken those
    \* with an empty queue before it.
    BY <2>2 DEF PopTake, NoPopFromEmpty
  <2>3. CASE Pop(w) /\ ~PopTake(w, "ret")
    BY <2>3 DEF Pop, PopLock, PopTest, PopWake, PopNull
  <2>4. CASE Sleep(w)
    BY <2>4 DEF Sleep, PopSleep
  <2>5. CASE RunTask(w) \/ SkipNull(w)
    BY <2>5 DEF RunTask, SkipNull
  <2> QED
    BY <1>7, <2>1, <2>2, <2>3, <2>4, <2>5 DEF WorkerStep, Pop
<1>8. ASSUME NEW t \in Threads, Spurious(t) PROVE Phases'
  BY <1>8 DEF Spurious, SpuriousWake
<1>9. CASE UNCHANGED vars
  BY <1>9 DEF vars
<1> QED
  BY <1>1, <1>2, <1>3, <1>4, <1>5, <1>6, <1>7, <1>8, <1>9 DEF Next, IoCall

-----------------------------------------------------------------------------
(* Sleepers                                                                *)

\* Who is asleep, and that a worker about to sleep leaves an empty queue.
Sleepers ==
    /\ Io \in notFull => pc[Io] = "pushWait"
    /\ \A w \in notEmpty : pc[w] = "popWait"
    /\ \A w \in Workers : pc[w] = "popSleep" => empty
    /\ NoStrandedTask
    /\ QueueBounded
    /\ OnlyLateSleepers

LEMMA InitSleepers == Init => Sleepers
BY DEF Init, Sleepers, NoStrandedTask, QueueBounded, OnlyLateSleepers, empty

LEMMA StepSleepers == Base /\ Phases /\ Sleepers /\ [Next]_vars => Sleepers'
<1> SUFFICES ASSUME Base, Phases, Sleepers, [Next]_vars PROVE Sleepers'
  OBVIOUS
<1> USE DEF Base, TypeOK, Mutex, Sleepers, NoStrandedTask, QueueBounded,
            OnlyLateSleepers, IoPoints, PushPoints, LockedPoints, GoTo, Lock, Unlock,
            queueVars, poolVars, empty, full
<1>1. CASE AddTask \/ Stop
  BY <1>1 DEF AddTask, Stop
<1>2. ASSUME NEW w \in Workers, StartThread(w) PROVE Sleepers'
  BY <1>2 DEF StartThread, Phases
<1>3. CASE Push
  <2>1. CASE PushLock(Io) \/ PushWake(Io)
    BY <1>3, <2>1 DEF Push, PushLock, PushWake
  <2>2. CASE PushWait(Io)
    BY <1>3, <2>2 DEF Push, PushWait
  <2>3. CASE PushAppend(Io, "idle")
    <3>1. /\ notEmpty' \subseteq notEmpty
          /\ notEmpty # {} => \E w \in notEmpty : w \notin notEmpty'
      BY <2>3, SignalWakesOne DEF PushAppend
    <3>2. \E w \in Workers : w \notin notEmpty'
      BY <3>1
    <3>3. Len(que') = Len(que) + 1 /\ Io \notin notFull
      BY <2>3 DEF PushAppend
    <3> QED
      BY <1>3, <2>3, <3>1, <3>2, <3>3 DEF Push, PushAppend, Carries
  <2> QED
    BY <1>3, <2>1, <2>2, <2>3 DEF Push
<1>4. CASE StopDrained \/ StopExit \/ StopJoin
  BY <1>4 DEF StopDrained, StopExit, StopJoin
<1>5. CASE StopWakeUp
  BY <1>5 DEF StopWakeUp, WakeUpFlag, WakeUpNotifyAll
<1>6. ASSUME NEW w \in Workers, WorkerStep(w) PROVE Sleepers'
  <2>1. CASE LoopTest(w) \/ RunTask(w) \/ SkipNull(w)
    BY <2>1 DEF LoopTest, RunTask, SkipNull
  <2>2. CASE PopTake(w, "ret") /\ UNCHANGED poolVars
    <3>1. notFull' = {}
      <4>1. notFull' \in NotifyOne(notFull)
        BY <2>2 DEF PopTake
      <4> QED
        BY <4>1, SignalWakesOne
    <3>2. Len(que') = Len(que) - 1
      BY <2>2 DEF PopTake, NoPopFromEmpty
    <3> QED
      BY <2>2, <3>1, <3>2 DEF PopTake
  <2>3. CASE Pop(w) /\ ~PopTake(w, "ret")
    BY <2>3 DEF Pop, PopLock, PopTest, PopWake, PopNull
  <2>4. CASE Sleep(w)
    BY <2>4 DEF Sleep, PopSleep
  <2> QED
    BY <1>6, <2>1, <2>2, <2>3, <2>4 DEF WorkerStep, Pop
<1>7. ASSUME NEW t \in Threads, Spurious(t) PROVE Sleepers'
  BY <1>7 DEF Spurious, SpuriousWake
<1>8. CASE UNCHANGED vars
  BY <1>8 DEF vars
<1> QED
  BY <1>1, <1>2, <1>3, <1>4, <1>5, <1>6, <1>7, <1>8 DEF Next, IoCall
-----------------------------------------------------------------------------
(* Where each task is                                                      *)

LEMMA InitExactlyOnce == Init => ExactlyOnce /\ added = 0
<1> SUFFICES ASSUME Init PROVE ExactlyOnce /\ added = 0
  OBVIOUS
<1>1. Held = {} /\ Pushed = 0 /\ Len(que) = 0
  BY DEF Init, Held, Pushed, PushPoints
<1> QED
  BY <1>1 DEF Init, ExactlyOnce

\* A step that moves no task: the places of the tasks are as before.
LEMMA NothingMoves ==
    ASSUME ExactlyOnce, que' = que, done' = done, Pushed' = Pushed,
           \A w \in Workers : elem'[w] = elem[w]
    PROVE  ExactlyOnce'
<1>1. Held' = Held
  BY DEF Held
<1> QED
  BY <1>1 DEF ExactlyOnce

LEMMA StepExactlyOnce ==
    Base /\ ExactlyOnce /\ [Next]_vars => ExactlyOnce'
<1> SUFFICES ASSUME Base, ExactlyOnce, [Next]_vars PROVE ExactlyOnce'
  OBVIOUS
<1> USE DEF Base, TypeOK, Carries, PushPoints, GoTo, queueVars, poolVars
<1>1. CASE AddTask
  <2>1. Pushed' = Pushed
    BY <1>1 DEF AddTask, Pushed
  <2> QED
    BY <1>1, <2>1, NothingMoves DEF AddTask
<1>2. CASE PushAppend(Io, "idle") /\ UNCHANGED poolVars
  \* The task carried in is the next number, and goes to the end.
  <2>1. Pushed' = Pushed + 1 /\ elem[Io] = Pushed + 1 /\ Pushed \in Nat
    BY <1>2 DEF PushAppend, Pushed
  <2>2. que' = Append(que, Pushed + 1) /\ Len(que') = Len(que) + 1
    BY <1>2, <2>1 DEF PushAppend
  <2>3. Held' = Held /\ \A w \in Workers : elem'[w] = elem[w]
    BY <1>2 DEF PushAppend, Held
  <2>4. \A i \in 1 .. Len(que') : que'[i] = Pushed' - Len(que') + i
    BY <2>1, <2>2 DEF ExactlyOnce
  <2> QED
    BY <1>2, <2>1, <2>2, <2>3, <2>4 DEF ExactlyOnce
<1>3. ASSUME NEW w \in Workers, PopTake(w, "ret") /\ UNCHANGED poolVars PROVE ExactlyOnce'
  \* The front is the next number to be taken, held by nobody and not done.
  <2> DEFINE taken == Pushed - Len(que)
  <2>1. que # <<>> /\ Len(que') = Len(que) - 1 /\ Len(que) \in Nat \ {0}
    BY <1>3 DEF PopTake, NoPopFromEmpty, empty
  <2>2. Pushed' = Pushed /\ Pushed \in Int
    BY <1>3 DEF PopTake, Pushed
  <2>3. Head(que) = taken + 1
    BY <2>1 DEF ExactlyOnce
  <2>4. elem[w] = NoTask /\ elem' = [elem EXCEPT ![w] = taken + 1]
    BY <1>3, <2>3 DEF PopTake
  <2>5. taken + 1 \in Int /\ taken + 1 # NoTask
    BY <2>1, <2>3
  <2>6. Held' = Held \cup {taken + 1}
    BY <2>4, <2>5 DEF Held
  <2>7. Held \cup done = 1 .. taken /\ taken \in Int
    BY <2>1, <2>2 DEF ExactlyOnce
  <2>8. taken \in Nat /\ Pushed' - Len(que') = taken + 1
    BY <2>1, <2>2 DEF ExactlyOnce
  <2>9. \A i \in 1 .. Len(que') : que'[i] = taken + 1 + i
    <3>1. \A i \in 1 .. Len(que') : que'[i] = que[i + 1]
      BY <1>3, <2>1 DEF PopTake
    <3> QED
      BY <2>1, <2>2, <3>1 DEF ExactlyOnce
  <2>10. Held' \cup done' = 1 .. taken + 1
    BY <1>3, <2>6, <2>7, <2>8
  <2>11. Held' \cap done' = {}
    BY <1>3, <2>6, <2>7, <2>8 DEF ExactlyOnce
  <2>12. \A u, v \in Workers : u # v /\ elem'[u] # NoTask => elem'[u] # elem'[v]
    <3>1. taken + 1 \notin Held
      BY <2>7, <2>8
    <3> QED
      BY <2>4, <3>1, <2>5 DEF ExactlyOnce, Held
  <2> QED
    BY <2>1, <2>2, <2>8, <2>9, <2>10, <2>11, <2>12 DEF ExactlyOnce
<1>4. ASSUME NEW w \in Workers, RunTask(w) PROVE ExactlyOnce'
  <2>1. Held' = Held \ {elem[w]} /\ done' = done \cup {elem[w]} /\ elem[w] \in Held
    BY <1>4 DEF RunTask, Held, ExactlyOnce
  <2>2. Pushed' = Pushed
    BY <1>4 DEF RunTask, Pushed
  <2>3. \A u, v \in Workers : u # v /\ elem'[u] # NoTask => elem'[u] # elem'[v]
    BY <1>4 DEF RunTask, ExactlyOnce
  <2> QED
    BY <1>4, <2>1, <2>2, <2>3 DEF RunTask, ExactlyOnce
<1>5. CASE /\ que' = que /\ done' = done /\ added' = added
           /\ \A w \in Workers : elem'[w] = elem[w]
           /\ pc'[Io] \in PushPoints <=> pc[Io] \in PushPoints
  <2>1. Pushed' = Pushed
    BY <1>5 DEF Pushed
  <2> QED
    BY <1>5, <2>1, NothingMoves
<1>6. CASE Stop \/ StopDrained \/ StopExit \/ StopWakeUp \/ StopJoin
  BY <1>5, <1>6
     DEF Stop, StopDrained, StopExit, StopWakeUp, WakeUpFlag, WakeUpNotifyAll, StopJoin
<1>7. ASSUME NEW w \in Workers, StartThread(w) PROVE ExactlyOnce'
  BY <1>5, <1>7 DEF StartThread
<1>8. CASE Push
  BY <1>2, <1>5, <1>8 DEF Push, PushLock, PushWait, PushWake
<1>9. ASSUME NEW w \in Workers, WorkerStep(w) PROVE ExactlyOnce'
  <2>1. CASE LoopTest(w) \/ SkipNull(w)
    BY <1>5, <2>1 DEF LoopTest, SkipNull
  <2>2. CASE Sleep(w)
    BY <1>5, <2>2 DEF Sleep, PopSleep
  <2>3. CASE Pop(w) /\ ~PopTake(w, "ret")
    BY <1>5, <2>3 DEF Pop, PopLock, PopTest, PopWake, PopNull
  <2> QED
    BY <1>3, <1>4, <1>9, <2>1, <2>2, <2>3 DEF WorkerStep, Pop
<1>10. ASSUME NEW t \in Threads, Spurious(t) PROVE ExactlyOnce'
  BY <1>5, <1>10 DEF Spurious, SpuriousWake
<1>11. CASE UNCHANGED vars
  BY <1>5, <1>11 DEF vars
<1> QED
  BY <1>1, <1>6, <1>7, <1>8, <1>9, <1>10, <1>11 DEF Next, IoCall
-----------------------------------------------------------------------------
(* The safety properties                                                   *)

IInv == Base /\ Phases /\ Sleepers /\ ExactlyOnce

LEMMA Invariance == Spec => []IInv
<1>1. Init => IInv
  BY InitBase, InitPhases, InitSleepers, InitExactlyOnce DEF IInv
<1>2. IInv /\ [Next]_vars => IInv'
  BY StepBase, StepPhases, StepSleepers, StepExactlyOnce DEF IInv
<1> QED
  BY <1>1, <1>2, PTL DEF Spec

\* Every variable stays in its type.
THEOREM TypeCorrect == Spec => []TypeOK
<1>1. IInv => TypeOK
  BY DEF IInv, Base
<1> QED
  BY <1>1, Invariance, PTL

\* No worker takes the front of an empty queue, whenever wakeUp comes.
THEOREM NeverPopsFromEmpty == Spec => []NoPopFromEmpty
<1>1. IInv => NoPopFromEmpty
  BY DEF IInv, Base
<1> QED
  BY <1>1, Invariance, PTL

\* The queue keeps its bound, so that full()'s test for equality suffices.
THEOREM NeverOverfull == Spec => []QueueBounded
<1>1. IInv => QueueBounded
  BY DEF IInv, Sleepers
<1> QED
  BY <1>1, Invariance, PTL

\* No task lies in the queue with every worker asleep, and the owner does not
\* sleep beside free room.
THEOREM NobodySleepsInVain == Spec => []NoStrandedTask
<1>1. IInv => NoStrandedTask
  BY DEF IInv, Sleepers
<1> QED
  BY <1>1, Invariance, PTL

\* Every task is in one place, and tasks are taken in the order of addTask.
THEOREM NoTaskLostOrTwice == Spec => []ExactlyOnce
<1>1. IInv => ExactlyOnce
  BY DEF IInv
<1> QED
  BY <1>1, Invariance, PTL

\* A worker that stop's join waits for in vain fell asleep after the broadcast.
THEOREM SleepersMissedBroadcast == Spec => []OnlyLateSleepers
<1>1. IInv => OnlyLateSleepers
  BY DEF IInv, Sleepers
<1> QED
  BY <1>1, Invariance, PTL

\* When stop has returned, every task ever added has run.
THEOREM StopDrains == Spec => []DrainedOnStop
<1>1. IInv => DrainedOnStop
  <2> SUFFICES ASSUME IInv, pc[Io] = "stopped" PROVE done = 1 .. added
    BY DEF DrainedOnStop
  <2>1. que = <<>> /\ \A w \in Workers : pc[w] = "exited"
    BY DEF IInv, Phases
  <2>2. Held = {}
    BY <2>1 DEF IInv, Base, Carries, Held
  <2>3. Pushed = added /\ Len(que) = 0
    BY <2>1 DEF Pushed, PushPoints
  <2> QED
    BY <2>2, <2>3 DEF IInv, ExactlyOnce, Base, TypeOK
<1> QED
  BY <1>1, Invariance, PTL
-----------------------------------------------------------------------------
(* The pool implements the abstract service                                *)

LEMMA InitRefines == Init => Service!Init
BY DEF Init, Service!Init, Pushed, PushPoints

\* The end of push is Accept, the end of pop Begin, the end of the call Finish,
\* the return of stop Close; every other step is invisible to the callers.
LEMMA StepRefines == IInv /\ [Next]_vars => [Service!Next]_(Service!vars)
<1> SUFFICES ASSUME IInv, [Next]_vars PROVE [Service!Next]_(Service!vars)
  OBVIOUS
<1> DEFINE running == [w \in Workers |-> elem[w]]
<1> USE DEF IInv, Base, TypeOK, Carries, PushPoints, GoTo, queueVars, poolVars
<1>1. CASE PushAppend(Io, "idle") /\ UNCHANGED poolVars
  <2>1. Pushed = added - 1 /\ Pushed' = added /\ elem[Io] = added
    BY <1>1 DEF PushAppend, Pushed
  <2>2. Len(que) < QueSize
    BY <1>1 DEF PushAppend, full, Sleepers, QueueBounded
  <2>3. running' = running
    BY <1>1 DEF PushAppend
  <2>4. Service!Accept
    BY <1>1, <2>1, <2>2, <2>3 DEF PushAppend, Service!Accept
  <2> QED
    BY <2>4 DEF Service!Next
<1>2. ASSUME NEW w \in Workers, PopTake(w, "ret") /\ UNCHANGED poolVars
      PROVE  Service!Next
  <2>1. pc[Io] # "stopped" /\ (pc'[Io] = "stopped" <=> pc[Io] = "stopped")
    BY <1>2 DEF PopTake, Phases
  <2>2. Pushed' = Pushed
    BY <1>2 DEF PopTake, Pushed
  <2>3. running[w] = NoTask /\ running' = [running EXCEPT ![w] = Head(que)]
    BY <1>2 DEF PopTake
  <2>4. Service!Begin(w)
    BY <1>2, <2>1, <2>2, <2>3 DEF PopTake, NoPopFromEmpty, empty, Service!Begin
  <2> QED
    BY <2>4 DEF Service!Next
<1>3. ASSUME NEW w \in Workers, RunTask(w) PROVE Service!Next
  <2>1. Pushed' = Pushed /\ pc'[Io] = pc[Io]
    BY <1>3 DEF RunTask, Pushed
  <2>2. running[w] = elem[w] /\ running' = [running EXCEPT ![w] = NoTask]
    BY <1>3 DEF RunTask
  <2>3. Service!Finish(w)
    BY <1>3, <2>1, <2>2 DEF RunTask, Service!Finish
  <2> QED
    BY <2>3 DEF Service!Next
<1>4. CASE StopJoin
  <2>1. \A w \in Workers : elem[w] = NoTask
    BY <1>4 DEF StopJoin
  <2>2. Held = {} /\ que = <<>>
    BY <1>4, <2>1 DEF StopJoin, Held, Phases
  <2>3. done = 1 .. Pushed
    BY <2>2 DEF ExactlyOnce, Pushed
  <2>4. Pushed' = Pushed
    BY <1>4 DEF StopJoin, Pushed
  <2>5. Service!Close
    BY <1>4, <2>3, <2>4 DEF StopJoin, Service!Close
  <2> QED
    BY <2>5 DEF Service!Next
<1>5. CASE /\ que' = que /\ done' = done /\ Pushed' = Pushed
           /\ \A w \in Workers : elem'[w] = elem[w]
           /\ pc'[Io] = "stopped" <=> pc[Io] = "stopped"
  <2>1. running' = running
    BY <1>5
  <2> QED
    BY <1>5, <2>1 DEF Service!vars
<1>6. CASE AddTask \/ Stop \/ StopDrained \/ StopExit \/ StopWakeUp
  BY <1>5, <1>6 DEF AddTask, Stop, StopDrained, StopExit, StopWakeUp, WakeUpFlag,
     WakeUpNotifyAll, Pushed
<1>7. ASSUME NEW w \in Workers, StartThread(w) PROVE [Service!Next]_(Service!vars)
  BY <1>5, <1>7 DEF StartThread, Pushed
<1>8. CASE Push
  BY <1>1, <1>5, <1>8 DEF Push, PushLock, PushWait, PushWake, Pushed
<1>9. ASSUME NEW w \in Workers, WorkerStep(w) PROVE [Service!Next]_(Service!vars)
  <2>1. CASE LoopTest(w) \/ SkipNull(w)
    BY <1>5, <2>1 DEF LoopTest, SkipNull, Pushed
  <2>2. CASE Sleep(w)
    BY <1>5, <2>2 DEF Sleep, PopSleep, Pushed
  <2>3. CASE Pop(w) /\ ~PopTake(w, "ret")
    BY <1>5, <2>3 DEF Pop, PopLock, PopTest, PopWake, PopNull, Pushed
  <2> QED
    BY <1>2, <1>3, <1>9, <2>1, <2>2, <2>3 DEF WorkerStep, Pop
<1>10. ASSUME NEW t \in Threads, Spurious(t) PROVE [Service!Next]_(Service!vars)
  BY <1>5, <1>10 DEF Spurious, SpuriousWake, Pushed
<1>11. CASE UNCHANGED vars
  BY <1>5, <1>11 DEF vars, Pushed
<1> QED
  BY <1>4, <1>6, <1>7, <1>8, <1>9, <1>10, <1>11 DEF Next, IoCall

\* Callers cannot tell the pool from the abstract service.
THEOREM Refinement == Spec => ImplementsService
<1>1. Spec => []IInv
  BY Invariance
<1> QED
  BY <1>1, InitRefines, StepRefines, PTL DEF Spec, ImplementsService, Service!Spec
==============================================================================
