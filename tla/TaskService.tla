----------------------------- MODULE TaskService -----------------------------
(***************************************************************************)
(* What the computing side of the server promises to its reactor: a task   *)
(* that was accepted is begun in the order of acceptance, by one worker,   *)
(* once, and the service closes only when every accepted task is finished. *)
(* The queue, the lock, the condition variables and the stop protocol of   *)
(* bo_threadpool/ are hidden here; Threadpool.tla is shown to implement    *)
(* this specification.                                                     *)
(***************************************************************************)
EXTENDS Naturals, Sequences

CONSTANTS Workers,      \* the threads that run tasks
          Capacity,     \* accepted tasks that may wait
          MaxTasks,     \* bound on the tasks offered (a TLC bound)
          NoTask        \* what a free worker runs

VARIABLES accepted,     \* number of tasks accepted; tasks are 1..accepted
          waiting,      \* accepted tasks nobody has begun, oldest first
          running,      \* running[w]: the task worker w runs
          finished,     \* the tasks run to their end
          closed        \* the service is shut

vars == <<accepted, waiting, running, finished, closed>>

Init ==
    /\ accepted = 0
    /\ waiting = <<>>
    /\ running = [w \in Workers |-> NoTask]
    /\ finished = {}
    /\ closed = FALSE

Accept ==
    /\ ~closed
    /\ accepted < MaxTasks
    /\ Len(waiting) < Capacity
    /\ accepted' = accepted + 1
    /\ waiting' = Append(waiting, accepted + 1)
    /\ UNCHANGED <<running, finished, closed>>

Begin(w) ==
    /\ ~closed
    /\ running[w] = NoTask
    /\ waiting # <<>>
    /\ running' = [running EXCEPT ![w] = Head(waiting)]
    /\ waiting' = Tail(waiting)
    /\ UNCHANGED <<accepted, finished, closed>>

Finish(w) ==
    /\ running[w] # NoTask
    /\ finished' = finished \cup {running[w]}
    /\ running' = [running EXCEPT ![w] = NoTask]
    /\ UNCHANGED <<accepted, waiting, closed>>

Close ==
    /\ ~closed
    /\ finished = 1 .. accepted
    /\ closed' = TRUE
    /\ UNCHANGED <<accepted, waiting, running, finished>>

Next ==
    \/ Accept
    \/ Close
    \/ \E w \in Workers : Begin(w) \/ Finish(w)

Spec == Init /\ [][Next]_vars

\* A waiting task does not wait for ever while a worker is free, and a task
\* that was begun ends.
Fairness ==
    /\ WF_vars(\E w \in Workers : Begin(w))
    /\ \A w \in Workers : WF_vars(Finish(w))

FairSpec == Spec /\ Fairness
==============================================================================
