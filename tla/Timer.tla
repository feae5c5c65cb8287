-------------------------------- MODULE Timer --------------------------------
(***************************************************************************)
(* timer/timer.cc and timer/timerthread.cc: a thread that polls a timerfd  *)
(* and calls back, and its owner, which starts and stops it.  stop works   *)
(* on the thread's variables and descriptor without a lock: it clears      *)
(* _isStarted, disarms the timer, closes the descriptor, and joins.        *)
(*                                                                         *)
(* The kernel's side: a descriptor is a number, which means another file   *)
(* once it was closed and given away; poll and read look it up when they   *)
(* are called and keep the file they found; settime forgets an expiration; *)
(* a read of a timerfd without one waits, as _timefd is a blocking one.    *)
(***************************************************************************)
EXTENDS Naturals

VARIABLES
    isStarted,  \* Timer::_isStarted
    thread,     \* where the timer's thread is
    owner,      \* where the owner is
    armed,      \* the timerfd is running
    expired,    \* the timerfd has an expiration to read
    timefd,     \* what the number _timefd means: "timer", "free", "socket";
                \* "none" if it is -1, which is no number of a file
    polled,     \* what it meant when poll was called
    readable,   \* the socket that has got the number has data
    early,      \* history: stop found _isStarted not yet set
    late,       \* history: callbacks begun after stop cleared _isStarted
    thefts      \* history: reads from the socket

stopVars == <<owner, early>>
kernelVars == <<armed, expired, timefd, readable>>
history == <<late, thefts>>
vars == <<isStarted, thread, polled, stopVars, kernelVars, history>>

Files == {"timer", "free", "socket", "none"}

\* What timerfd_create may return: the constructor only reports its -1.
Created == {"timer", "none"}

Init ==
    /\ isStarted = FALSE
    /\ thread = "unborn"
    /\ owner = "new"
    /\ armed = FALSE
    /\ expired = FALSE
    /\ timefd \in Created
    /\ polled = "free"
    /\ readable = FALSE
    /\ early = FALSE
    /\ late = 0
    /\ thefts = 0
-----------------------------------------------------------------------------
(* The owner: TimerThread::start and stop                                  *)

StartThread ==
    /\ owner = "new"
    /\ owner' = "running"
    /\ thread' = "start"
    /\ UNCHANGED <<isStarted, polled, early, kernelVars, history>>

\* Timer::stop with its test of _isStarted: one that comes before the thread
\* has set it does nothing, and the owner goes on to join.
Stop ==
    /\ owner = "running"
    /\ owner' = IF isStarted THEN "disarm" ELSE "join"
    /\ early' = ~isStarted
    /\ isStarted' = FALSE
    /\ UNCHANGED <<thread, polled, kernelVars, history>>

\* setTimerfd(0, 0)
Disarm ==
    /\ owner = "disarm"
    /\ owner' = "close"
    /\ armed' = FALSE
    /\ expired' = FALSE
    /\ UNCHANGED <<isStarted, thread, polled, early, timefd, readable, history>>

\* close of -1 fails, and changes nothing.
Close ==
    /\ owner = "close"
    /\ owner' = "join"
    /\ timefd' = IF timefd = "none" THEN "none" ELSE "free"
    /\ UNCHANGED <<isStarted, thread, polled, early, armed, expired, readable, history>>

Join ==
    /\ owner = "join"
    /\ thread \in {"ended", "failed"}
    /\ owner' = "stopped"
    /\ UNCHANGED <<isStarted, thread, polled, early, kernelVars, history>>
-----------------------------------------------------------------------------
(* The timer's thread: Timer::start                                        *)

Begin ==
    /\ thread = "start"
    /\ thread' = "arm"
    /\ isStarted' = TRUE
    /\ UNCHANGED <<polled, stopVars, kernelVars, history>>

\* setTimerfd(_initialTime, _intervalTime), which fails on another file.
SetTimerfdToZero == armed
SetTimerfd == armed \/ timefd = "timer"

Arm ==
    /\ thread = "arm"
    /\ thread' = "loop"
    /\ armed' = SetTimerfd
    /\ UNCHANGED <<isStarted, polled, stopVars, expired, timefd, readable, history>>

\* while (_isStarted)
WhileTrue == TRUE
WhileStarted == isStarted

LoopTest ==
    /\ thread = "loop"
    /\ thread' = IF WhileStarted THEN "call" ELSE "ended"
    /\ UNCHANGED <<isStarted, polled, stopVars, kernelVars, history>>

CallPoll ==
    /\ thread = "call"
    /\ thread' = "poll"
    /\ polled' = timefd
    /\ UNCHANGED <<isStarted, stopVars, kernelVars, history>>

\* revents & POLLIN; the faulty variant forgets to test it.
PollReadyAnyway == TRUE
PollReady == (polled = "timer" /\ expired) \/ (polled = "socket" /\ readable)

\* The timeout of 5000 ms; the faulty variant waits without one.
PollTimesOutNot == FALSE
PollTimesOut == TRUE

\* poll returns with POLLIN; or after its timeout, which is all that it does of
\* -1; or, of a descriptor that is not open, with POLLNVAL, or early with EINTR,
\* both of which lead back to the test of the loop.
PollReturns ==
    /\ thread = "poll"
    /\ PollReady \/ PollTimesOut
    /\ thread' = IF PollReady THEN "read" ELSE "loop"
    /\ UNCHANGED <<isStarted, polled, stopVars, kernelVars, history>>

\* Any other error of poll ends the loop, and the thread with it, while
\* _isStarted stays set.
PollFails ==
    /\ thread = "poll"
    /\ thread' = "failed"
    /\ UNCHANGED <<isStarted, polled, stopVars, kernelVars, history>>

\* handleRead of the timerfd.  Without an expiration read waits, for ever:
\* nobody else would arm the timer.
HandleRead ==
    /\ thread = "read" /\ timefd = "timer"
    /\ thread' = IF expired THEN "callback" ELSE "blocked"
    /\ expired' = FALSE
    /\ UNCHANGED <<isStarted, polled, stopVars, armed, timefd, readable, history>>

\* The number is free, and read fails; or it is a socket's, and read takes
\* bytes that were meant for others.  Both are only reported.
HandleReadOther ==
    /\ thread = "read" /\ timefd # "timer"
    /\ thread' = "callback"
    /\ IF timefd = "socket" /\ readable
       THEN thefts' = thefts + 1 /\ readable' \in BOOLEAN
       ELSE UNCHANGED <<thefts, readable>>
    /\ UNCHANGED <<isStarted, polled, stopVars, armed, expired, timefd, late>>

\* _cb()
Callback ==
    /\ thread = "callback"
    /\ thread' = "loop"
    /\ late' = IF isStarted THEN late ELSE late + 1
    /\ UNCHANGED <<isStarted, polled, stopVars, kernelVars, thefts>>
-----------------------------------------------------------------------------
(* The kernel and the other threads                                        *)

Expire ==
    /\ armed /\ ~expired
    /\ expired' = TRUE
    /\ UNCHANGED <<isStarted, thread, polled, stopVars, armed, timefd, readable, history>>

\* accept gives the number to a connection, which gets data and ends.
Accept ==
    /\ timefd = "free"
    /\ timefd' = "socket"
    /\ UNCHANGED <<isStarted, thread, polled, stopVars, armed, expired, readable, history>>

Receive ==
    /\ timefd = "socket" /\ ~readable
    /\ readable' = TRUE
    /\ UNCHANGED <<isStarted, thread, polled, stopVars, armed, expired, timefd, history>>

CloseSocket ==
    /\ timefd = "socket"
    /\ timefd' = "free"
    /\ readable' = FALSE
    /\ UNCHANGED <<isStarted, thread, polled, stopVars, armed, expired, history>>

ThreadStep ==
    \/ Begin \/ Arm \/ LoopTest \/ CallPoll \/ PollReturns
    \/ HandleRead \/ HandleReadOther \/ Callback

StopStep == Disarm \/ Close \/ Join

Next ==
    \/ StartThread \/ Stop \/ StopStep
    \/ ThreadStep \/ PollFails
    \/ Expire \/ Accept \/ Receive \/ CloseSocket

Spec == Init /\ [][Next]_vars

\* The kernel schedules both threads and keeps the time; nobody has to stop
\* the timer.  poll returns after five seconds at the latest, and need not fail.
Fairness == WF_vars(StopStep) /\ WF_vars(ThreadStep) /\ WF_vars(Expire)

FairSpec == Spec /\ Fairness
-----------------------------------------------------------------------------
TypeOK ==
    /\ isStarted \in BOOLEAN /\ armed \in BOOLEAN /\ expired \in BOOLEAN
    /\ readable \in BOOLEAN /\ early \in BOOLEAN
    /\ thread \in {"unborn", "start", "arm", "loop", "call", "poll", "read", "blocked",
                   "callback", "ended", "failed"}
    /\ thread = "unborn" <=> owner = "new"
    /\ owner \in {"new", "running", "disarm", "close", "join", "stopped"}
    /\ timefd \in Files /\ polled \in Files
    /\ late \in Nat /\ thefts \in Nat

\* A stop lets the thread begin one callback more at most (it may have passed
\* the test of _isStarted), and with it one read at most from a socket that
\* was given the closed descriptor's number (timer.cc:69-75).
OneLateCallback == late <= 1 /\ thefts <= 1

\* The read of handleRead finds the expiration that poll reported and does not
\* block the thread, unless stop has disarmed the timer in between.
BlocksOnlyInStop == thread = "blocked" => ~isStarted /\ owner # "running"

\* stop returns, unless it came before the thread had set _isStarted, or
\* disarmed the timer between poll and read: then it joins for ever.
StopReturns ==
    owner \notin {"new", "running"} ~> owner = "stopped" \/ early \/ thread = "blocked"

\* A timer that was started calls back again and again until it is stopped,
\* unless its descriptor was never made or poll has failed, which nobody is
\* told of: then it does so no more (timer.cc:43-62, 73-80).
Fires ==
    owner = "running" ~>
        thread = "callback" \/ owner # "running" \/ timefd = "none" \/ thread = "failed"
==============================================================================
