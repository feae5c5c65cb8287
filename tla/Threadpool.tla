------------------------------ MODULE Threadpool ------------------------------
(***************************************************************************)
(* bo_threadpool/threadpool.cc over TaskQueue: worker threads that loop in *)
(* threadFunc, and the thread that owns the pool (in the server, the one   *)
(* that runs the reactor), the only caller of start, addTask and stop.     *)
(*                                                                         *)
(* _flag and _isExit are plain bools shared without the mutex; a read sees *)
(* the value before or after the write (the calls into pthread between two *)
(* reads keep the compiler from caching them).                             *)
(***************************************************************************)
EXTENDS TaskQueue

CONSTANTS Workers,      \* the threads of the pool
          Io,           \* the thread that owns the pool
          MaxTasks,     \* bound on the calls of addTask
          MaxSpurious   \* bound on the spurious wakeups

Threads == Workers \cup {Io}

ASSUME ThreadpoolAssumption ==
    /\ QueSize \in Nat
    /\ MaxTasks \in Nat
    /\ MaxSpurious \in Nat
    /\ Workers # {}
    /\ IsFiniteSet(Workers)
    /\ Io \notin Workers
    /\ NoThread \notin Workers \cup {Io}
    /\ NoTask \notin Nat

VARIABLES isExit,       \* Threadpool::_isExit
          added,        \* calls of addTask so far; the tasks are 1..added
          done,         \* tasks whose call has returned
          late,         \* workers that fell asleep after wakeUp's broadcast
          spurious      \* spurious wakeups so far

poolVars == <<isExit, added, done, late, spurious>>
vars == <<queueVars, pc, elem, poolVars>>

\* A worker's points outside pop, and the owner's outside push.
WorkerPoints == PopPoints \cup {"unborn", "loop", "ret", "exited"}
IoPoints ==
    PushPoints \cup {"start", "idle", "stopDrain", "stopExit", "stopFlag",
                     "stopNotify", "stopJoin", "stopped"}

Init ==
    /\ que = <<>>
    /\ flag = TRUE
    /\ mutex = NoThread
    /\ notFull = {}
    /\ notEmpty = {}
    /\ pc = [t \in Threads |-> IF t = Io THEN "start" ELSE "unborn"]
    /\ elem = [t \in Threads |-> NoTask]
    /\ isExit = FALSE
    /\ added = 0
    /\ done = {}
    /\ late = {}
    /\ spurious = 0

-----------------------------------------------------------------------------
(* The owner: start, addTask, stop                                         *)

\* start: one Thread::start per worker; the last one ends the loop.
StartThread(w) ==
    /\ pc[Io] = "start"
    /\ pc[w] = "unborn"
    /\ pc' = [pc EXCEPT ![w] = "loop",
                        ![Io] = IF \A v \in Workers \ {w} : pc[v] # "unborn"
                                THEN "idle" ELSE "start"]
    /\ UNCHANGED <<queueVars, elem, poolVars>>

AddTask ==
    /\ pc[Io] = "idle"
    /\ added < MaxTasks
    /\ added' = added + 1
    /\ elem' = [elem EXCEPT ![Io] = added + 1]
    /\ GoTo(Io, "pushLock")
    /\ UNCHANGED <<queueVars, isExit, done, late, spurious>>

Push ==
    /\ \/ PushLock(Io)
       \/ PushWait(Io)
       \/ PushWake(Io)
       \/ PushAppend(Io, "idle")
    /\ UNCHANGED poolVars

\* stop: its guard on _isExit, then poll empty() without the mutex until it
\* holds.
Stop ==
    /\ pc[Io] = "idle"
    /\ ~isExit
    /\ GoTo(Io, "stopDrain")
    /\ UNCHANGED <<queueVars, elem, poolVars>>

\* Faulty variant: stop does not wait for the queue to drain.
StopDrainedAtOnce ==
    /\ pc[Io] = "stopDrain"
    /\ GoTo(Io, "stopExit")
    /\ UNCHANGED <<queueVars, elem, poolVars>>

StopDrained ==
    /\ pc[Io] = "stopDrain"
    /\ empty
    /\ GoTo(Io, "stopExit")
    /\ UNCHANGED <<queueVars, elem, poolVars>>

\* Faulty variant: stop never sets _isExit.
StopExitForgotten ==
    /\ pc[Io] = "stopExit"
    /\ GoTo(Io, "stopFlag")
    /\ UNCHANGED <<queueVars, elem, poolVars>>

StopExit ==
    /\ pc[Io] = "stopExit"
    /\ isExit' = TRUE
    /\ GoTo(Io, "stopFlag")
    /\ UNCHANGED <<queueVars, elem, added, done, late, spurious>>

StopWakeUp ==
    /\ \/ WakeUpFlag(Io, "stopFlag", "stopNotify")
       \/ WakeUpNotifyAll(Io, "stopNotify", "stopJoin")
    /\ UNCHANGED poolVars

\* Faulty variant: stop does not join.
StopJoinAtOnce ==
    /\ pc[Io] = "stopJoin"
    /\ GoTo(Io, "stopped")
    /\ UNCHANGED <<queueVars, elem, poolVars>>

\* The loop of joins returns once every worker has left threadFunc.
StopJoin ==
    /\ pc[Io] = "stopJoin"
    /\ \A w \in Workers : pc[w] = "exited"
    /\ GoTo(Io, "stopped")
    /\ UNCHANGED <<queueVars, elem, poolVars>>

-----------------------------------------------------------------------------
(* A worker: threadFunc                                                    *)

\* while (!_isExit): go and get a task, or leave.
LoopTest(w) ==
    /\ pc[w] = "loop"
    /\ GoTo(w, IF isExit THEN "exited" ELSE "popLock")
    /\ UNCHANGED <<queueVars, elem, poolVars>>

Pop(w) ==
    /\ \/ PopLock(w)
       \/ PopTest(w)
       \/ PopWake(w)
       \/ PopTake(w, "ret")
       \/ PopNull(w, "ret")
    /\ UNCHANGED poolVars

\* A worker that falls asleep after the broadcast is remembered in late.
Sleep(w) ==
    /\ PopSleep(w)
    /\ late' = IF pc[Io] = "stopJoin" THEN late \cup {w} ELSE late
    /\ UNCHANGED <<isExit, added, done, spurious>>

\* if (task) task(); the call returns.
RunTask(w) ==
    /\ pc[w] = "ret"
    /\ elem[w] # NoTask
    /\ done' = done \cup {elem[w]}
    /\ elem' = [elem EXCEPT ![w] = NoTask]
    /\ GoTo(w, "loop")
    /\ UNCHANGED <<queueVars, isExit, added, late, spurious>>

SkipNull(w) ==
    /\ pc[w] = "ret"
    /\ elem[w] = NoTask
    /\ GoTo(w, "loop")
    /\ UNCHANGED <<queueVars, elem, poolVars>>

-----------------------------------------------------------------------------

Spurious(t) ==
    /\ spurious < MaxSpurious
    /\ SpuriousWake(t)
    /\ spurious' = spurious + 1
    /\ late' = late \ {t}
    /\ UNCHANGED <<isExit, added, done>>

WorkerStep(w) == LoopTest(w) \/ Pop(w) \/ Sleep(w) \/ RunTask(w) \/ SkipNull(w)

\* What the owner goes on doing once it is inside a call of the pool.
IoCall ==
    \/ \E w \in Workers : StartThread(w)
    \/ Push
    \/ StopDrained \/ StopExit \/ StopWakeUp \/ StopJoin

Next ==
    \/ AddTask
    \/ Stop
    \/ IoCall
    \/ \E w \in Workers : WorkerStep(w)
    \/ \E t \in Threads : Spurious(t)

Spec == Init /\ [][Next]_vars

\* The kernel schedules every runnable thread, and a waiter for the mutex gets
\* it: the lock is held for a bounded time, and with finitely many tasks the
\* others cannot take it for ever.  Nobody has to call addTask or stop, and
\* no wakeup is owed that nobody signalled.
Fairness == WF_vars(IoCall) /\ \A w \in Workers : WF_vars(WorkerStep(w))

FairSpec == Spec /\ Fairness
-----------------------------------------------------------------------------
(* Properties                                                              *)

Pushed == IF pc[Io] \in PushPoints THEN added - 1 ELSE added

\* The tasks workers hold: popped, their call not yet returned.
Held == {elem[w] : w \in {v \in Workers : elem[v] # NoTask}}

\* Every variable stays in its type: the shape the other properties rely on.
TypeOK ==
    /\ que \in Seq(Nat)
    /\ flag \in BOOLEAN
    /\ isExit \in BOOLEAN
    /\ mutex \in Threads \cup {NoThread}
    /\ notFull \in SUBSET {Io}
    /\ notEmpty \in SUBSET Workers
    /\ late \in SUBSET Workers
    /\ pc \in [Threads -> WorkerPoints \cup IoPoints]
    /\ pc[Io] \in IoPoints
    /\ \A w \in Workers : pc[w] \in WorkerPoints
    /\ elem \in [Threads -> Nat \cup {NoTask}]
    /\ added \in Nat
    /\ done \in SUBSET Nat
    /\ spurious \in Nat

\* pop reads _flag a second time after its loop, outside the loop's test; a
\* worker about to take the front must never find the queue empty, although
\* wakeUp can change _flag between the two reads.
NoPopFromEmpty == \A w \in Workers : pc[w] = "popTake" /\ flag => ~empty

\* full() tests for equality, so one element too many would switch the bound
\* off for good: spurious wakeups and signals must not let push overshoot.
QueueBounded == Len(que) <= QueSize

\* Nobody sleeps in vain.  Once the workers run, a task in the queue has a
\* worker that will come for it, never all of them asleep on _notEmpty; and
\* the owner asleep in push has no free room beside it.  A signal given to a
\* thread that another one overtakes must not be lost.
NoStrandedTask ==
    /\ pc[Io] # "start" /\ ~empty => \E w \in Workers : w \notin notEmpty
    /\ Io \in notFull => full

\* Every task handed over is in exactly one place: in the queue, in the order
\* of addTask, in the hands of one worker, or done.
ExactlyOnce ==
    LET taken == Pushed - Len(que) IN
    /\ Len(que) <= Pushed
    /\ \A i \in 1 .. Len(que) : que[i] = taken + i
    /\ Held \cap done = {}
    /\ Held \cup done = 1 .. taken
    /\ \A v, w \in Workers : v # w /\ elem[v] # NoTask => elem[v] # elem[w]

\* stop gives up no task: at its return, every task ever added has run to its
\* end, although the drain loop looks at the queue without the mutex and at
\* nothing that a worker holds.
DrainedOnStop == pc[Io] = "stopped" => done = 1 .. added

\* A worker asleep when stop joins missed the broadcast: wakeUp's clearing of
\* _flag fell between that worker's test of _flag and its wait, and the
\* broadcast before the wait.  No other interleaving leaves a sleeper behind.
OnlyLateSleepers == pc[Io] = "stopJoin" => notEmpty \subseteq late

\* Each task handed to addTask is eventually run, whether or not stop follows.
EveryTaskRuns == \A k \in 1 .. MaxTasks : added >= k ~> k \in done

\* A stop that has begun returns, unless a worker missed the broadcast: wakeUp
\* takes no mutex, and nothing signals that worker again.
StopReturns == pc[Io] = "stopDrain" ~> (pc[Io] = "stopped" \/ late # {})

-----------------------------------------------------------------------------
(* The pool implements the abstract service.                               *)

Service == INSTANCE TaskService WITH
    Capacity <- QueSize,
    accepted <- Pushed,
    waiting  <- que,
    running  <- [w \in Workers |-> elem[w]],
    finished <- done,
    closed   <- pc[Io] = "stopped"

\* Through the lock, the condition variables and the stop protocol, callers
\* see the abstract service: bounded, first come first begun, closed when all
\* is done.
ImplementsService == Service!Spec

\* With the threads scheduled fairly, tasks do not wait beside a free worker.
ImplementsFairService == Service!FairSpec
==============================================================================
