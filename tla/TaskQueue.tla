------------------------------ MODULE TaskQueue ------------------------------
(***************************************************************************)
(* bo_threadpool/taskqueue.cc on top of mutexlock.cc and condition.cc: a   *)
(* bounded queue guarded by one mutex, with the condition variables        *)
(* _notFull and _notEmpty, and wakeUp, which clears _flag and broadcasts   *)
(* WITHOUT taking the mutex.                                               *)
(*                                                                         *)
(* An action is what a thread does between two points where another thread *)
(* can act.  Everything done under the mutex is one action, except where   *)
(* wakeUp can come in between: pop tests _flag (popTest), goes to sleep    *)
(* (popSleep) and reads _flag a second time (popTake).  pthread_cond_wait  *)
(* puts the caller in the condition's wait set and releases the mutex in   *)
(* one step; a thread taken out of the set has still to get the mutex.     *)
(***************************************************************************)
EXTENDS Naturals, Sequences, FiniteSets

CONSTANTS QueSize,      \* TaskQueue::_size
          NoTask,       \* the NULL callback
          NoThread      \* the mutex is free

VARIABLES que,          \* TaskQueue::_que
          flag,         \* TaskQueue::_flag
          mutex,        \* the thread that holds TaskQueue::_mutex
          notFull,      \* threads asleep on _notFull
          notEmpty,     \* threads asleep on _notEmpty
          pc,           \* pc[t]: where thread t is
          elem          \* elem[t]: the argument of its push, the result of its pop

queueVars == <<que, flag, mutex, notFull, notEmpty>>

PushPoints == {"pushLock", "pushTest", "pushWait"}
PopPoints  == {"popLock", "popTest", "popSleep", "popWait", "popTake"}

\* The points of push and pop at which the caller holds the mutex.
LockedPoints == {"pushTest", "popTest", "popSleep", "popTake"}

full  == Len(que) = QueSize
empty == Len(que) = 0

GoTo(t, l) == pc' = [pc EXCEPT ![t] = l]

\* pthread_mutex_lock and pthread_mutex_unlock.
Lock(t) == mutex = NoThread /\ mutex' = t
Unlock(t) == mutex = t /\ mutex' = NoThread

\* pthread_cond_signal: what is left of the wait set, one sleeper fewer; the
\* faulty variant wakes nobody.
NotifyNobody(sleepers) == {sleepers}
NotifyOne(sleepers) ==
    IF sleepers = {} THEN {{}} ELSE {sleepers \ {t} : t \in sleepers}

-----------------------------------------------------------------------------
(* push                                                                    *)

PushLock(t) ==
    /\ pc[t] = "pushLock"
    /\ Lock(t)
    /\ GoTo(t, "pushTest")
    /\ UNCHANGED <<que, flag, notFull, notEmpty, elem>>

PushWait(t) ==
    /\ pc[t] = "pushTest"
    /\ full
    /\ notFull' = notFull \cup {t}
    /\ Unlock(t)
    /\ GoTo(t, "pushWait")
    /\ UNCHANGED <<que, flag, notEmpty, elem>>

PushWake(t) ==
    /\ pc[t] = "pushWait"
    /\ t \notin notFull
    /\ Lock(t)
    /\ GoTo(t, "pushTest")
    /\ UNCHANGED <<que, flag, notFull, notEmpty, elem>>

\* Append, signal one sleeper of _notEmpty, and leave the guard's scope; the
\* caller goes on at point "ret".
PushAppend(t, ret) ==
    /\ pc[t] = "pushTest"
    /\ ~full
    /\ que' = Append(que, elem[t])
    /\ notEmpty' \in NotifyOne(notEmpty)
    /\ Unlock(t)
    /\ GoTo(t, ret)
    /\ elem' = [elem EXCEPT ![t] = NoTask]
    /\ UNCHANGED <<flag, notFull>>

-----------------------------------------------------------------------------
(* pop                                                                     *)

PopLock(t) ==
    /\ pc[t] = "popLock"
    /\ Lock(t)
    /\ GoTo(t, "popTest")
    /\ UNCHANGED <<que, flag, notFull, notEmpty, elem>>

\* while (_flag && empty())
PopTest(t) ==
    /\ pc[t] = "popTest"
    /\ GoTo(t, IF flag /\ empty THEN "popSleep" ELSE "popTake")
    /\ UNCHANGED <<queueVars, elem>>

PopSleep(t) ==
    /\ pc[t] = "popSleep"
    /\ notEmpty' = notEmpty \cup {t}
    /\ Unlock(t)
    /\ GoTo(t, "popWait")
    /\ UNCHANGED <<que, flag, notFull, elem>>

\* Faulty variant: pop tests with "if" where it needs "while".
PopWakeNoRetest(t) ==
    /\ pc[t] = "popWait"
    /\ t \notin notEmpty
    /\ Lock(t)
    /\ GoTo(t, "popTake")
    /\ UNCHANGED <<que, flag, notFull, notEmpty, elem>>

PopWake(t) ==
    /\ pc[t] = "popWait"
    /\ t \notin notEmpty
    /\ Lock(t)
    /\ GoTo(t, "popTest")
    /\ UNCHANGED <<que, flag, notFull, notEmpty, elem>>

\* Faulty variant: pop does not remove the front.
PopTakeKeeps(t, ret) ==
    /\ pc[t] = "popTake"
    /\ flag
    /\ elem' = [elem EXCEPT ![t] = Head(que)]
    /\ notFull' \in NotifyOne(notFull)
    /\ Unlock(t)
    /\ GoTo(t, ret)
    /\ UNCHANGED <<que, flag, notEmpty>>

\* if (_flag): take the front and signal one sleeper of _notFull.
PopTake(t, ret) ==
    /\ pc[t] = "popTake"
    /\ flag
    /\ elem' = [elem EXCEPT ![t] = Head(que)]
    /\ que' = Tail(que)
    /\ notFull' \in NotifyOne(notFull)
    /\ Unlock(t)
    /\ GoTo(t, ret)
    /\ UNCHANGED <<flag, notEmpty>>

\* else return NULL.
PopNull(t, ret) ==
    /\ pc[t] = "popTake"
    /\ ~flag
    /\ elem' = [elem EXCEPT ![t] = NoTask]
    /\ Unlock(t)
    /\ GoTo(t, ret)
    /\ UNCHANGED <<que, flag, notFull, notEmpty>>

-----------------------------------------------------------------------------
(* wakeUp, in two steps: neither holds the mutex.                          *)

WakeUpFlag(t, at, next) ==
    /\ pc[t] = at
    /\ flag' = FALSE
    /\ GoTo(t, next)
    /\ UNCHANGED <<que, mutex, notFull, notEmpty, elem>>

\* Faulty variant: wakeUp signals one sleeper only.
WakeUpNotifyOne(t, at, next) ==
    /\ pc[t] = at
    /\ notEmpty' \in NotifyOne(notEmpty)
    /\ GoTo(t, next)
    /\ UNCHANGED <<que, flag, mutex, notFull, elem>>

WakeUpNotifyAll(t, at, next) ==
    /\ pc[t] = at
    /\ notEmpty' = {}
    /\ GoTo(t, next)
    /\ UNCHANGED <<que, flag, mutex, notFull, elem>>

\* POSIX lets pthread_cond_wait return though nobody signalled.
SpuriousWake(t) ==
    /\ t \in notFull \cup notEmpty
    /\ notFull' = notFull \ {t}
    /\ notEmpty' = notEmpty \ {t}
    /\ UNCHANGED <<que, flag, mutex, pc, elem>>
==============================================================================
