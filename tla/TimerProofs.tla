---------------------------- MODULE TimerProofs ----------------------------
(***************************************************************************)
(* Timer keeps its types; a stop lets through one callback at most; and    *)
(* the thread blocks in read only because of a stop.                       *)
(***************************************************************************)
EXTENDS Timer, TLAPS

\* The thread has set _isStarted, and it can never be set again.
Begun == thread \notin {"unborn", "start"}
Stopped == Begun /\ ~isStarted

\* Until stop closes it the descriptor is what timerfd_create returned; stop is
\* the only way from started to not started.
Descriptor ==
    /\ isStarted => Begun
    /\ owner = "new" => ~isStarted
    /\ owner = "running" => (isStarted <=> Begun)
    /\ owner \in {"disarm", "close"} => Stopped
    /\ timefd \notin Created => Stopped
    /\ polled = "socket" => Stopped
    /\ isStarted /\ thread = "read" => expired

\* One late callback takes the thread to the test of _isStarted.
OnceLate ==
    /\ late = 0 \/ (late = 1 /\ Stopped /\ thread \in {"loop", "ended"})
    /\ thefts = 0 \/ (thefts = 1 /\ Stopped /\ thread \in {"callback", "loop", "ended"})

Inv == TypeOK /\ Descriptor /\ OnceLate /\ BlocksOnlyInStop

USE DEF TypeOK, Files, Created, Begun, Stopped, Descriptor, OnceLate, BlocksOnlyInStop, Inv,
        stopVars, kernelVars, history

LEMMA InitInv == Init => Inv
<1> SUFFICES ASSUME Init PROVE Inv
  OBVIOUS
<1>1. TypeOK
  BY DEF Init
<1>2. Descriptor
  BY DEF Init
<1>3. OnceLate /\ BlocksOnlyInStop
  BY DEF Init
<1> QED
  BY <1>1, <1>2, <1>3

\* The thread's steps keep the invariant.
LEMMA ThreadStepInv == Inv /\ (ThreadStep \/ PollFails) => Inv'
<1> SUFFICES ASSUME Inv, ThreadStep \/ PollFails PROVE Inv'
  OBVIOUS
<1>1. CASE Begin
  BY <1>1 DEF Begin
<1>2. CASE Arm
  BY <1>2 DEF Arm, SetTimerfd
<1>3. CASE LoopTest
  BY <1>3 DEF LoopTest, WhileStarted
<1>4. CASE CallPoll
  BY <1>4 DEF CallPoll
<1>5. CASE PollReturns
  BY <1>5 DEF PollReturns, PollReady
<1>6. CASE HandleRead
  BY <1>6 DEF HandleRead
<1>7. CASE HandleReadOther
  BY <1>7 DEF HandleReadOther
<1>8. CASE Callback
  BY <1>8 DEF Callback
<1>9. CASE PollFails
  BY <1>9 DEF PollFails
<1> QED
  BY <1>1, <1>2, <1>3, <1>4, <1>5, <1>6, <1>7, <1>8, <1>9 DEF ThreadStep

\* So do the owner's.
LEMMA OwnerStepInv == Inv /\ (StartThread \/ Stop \/ StopStep) => Inv'
<1> SUFFICES ASSUME Inv, StartThread \/ Stop \/ StopStep PROVE Inv'
  OBVIOUS
<1>1. CASE StartThread
  BY <1>1 DEF StartThread
<1>2. CASE Stop
  BY <1>2 DEF Stop
<1>3. CASE Disarm
  BY <1>3 DEF Disarm
<1>4. CASE Close
  BY <1>4 DEF Close
<1>5. CASE Join
  BY <1>5 DEF Join
<1> QED
  BY <1>1, <1>2, <1>3, <1>4, <1>5 DEF StopStep

\* And those of the kernel and of the other threads.
LEMMA KernelStepInv == Inv /\ (Expire \/ Accept \/ Receive \/ CloseSocket) => Inv'
<1> SUFFICES ASSUME Inv, Expire \/ Accept \/ Receive \/ CloseSocket PROVE Inv'
  OBVIOUS
<1>1. CASE Expire
  BY <1>1 DEF Expire
<1>2. CASE Accept
  BY <1>2 DEF Accept
<1>3. CASE Receive
  BY <1>3 DEF Receive
<1>4. CASE CloseSocket
  <2> USE <1>4 DEF CloseSocket
  <2>1. TypeOK'
    OBVIOUS
  <2>2. Descriptor'
    OBVIOUS
  <2>3. OnceLate' /\ BlocksOnlyInStop'
    OBVIOUS
  <2> QED
    BY <2>1, <2>2, <2>3
<1> QED
  BY <1>1, <1>2, <1>3, <1>4

\* A stuttering step keeps it as well.
LEMMA StutterInv == Inv /\ UNCHANGED vars => Inv'
<1> SUFFICES ASSUME Inv, UNCHANGED vars PROVE Inv'
  OBVIOUS
<1> USE DEF vars
<1>1. TypeOK'
  OBVIOUS
<1>2. Descriptor'
  OBVIOUS
<1>3. OnceLate' /\ BlocksOnlyInStop'
  OBVIOUS
<1> QED
  BY <1>1, <1>2, <1>3

HIDE DEF TypeOK, Descriptor, OnceLate, BlocksOnlyInStop, Inv

\* The invariant of every behaviour.
THEOREM Invariant == Spec => []Inv
<1>1. Inv /\ [Next]_vars => Inv'
  <2> SUFFICES ASSUME Inv, [Next]_vars PROVE Inv'
    OBVIOUS
  <2>1. CASE Next
    BY <2>1, ThreadStepInv, OwnerStepInv, KernelStepInv DEF Next
  <2>2. CASE UNCHANGED vars
    BY <2>2, StutterInv
  <2> QED
    BY <2>1, <2>2
<1> QED
  BY <1>1, InitInv, PTL DEF Spec

\* Every variable of the timer keeps its type.
THEOREM TimerTypes == Spec => []TypeOK
<1>1. Inv => TypeOK
  BY DEF Inv
<1> QED
  BY <1>1, Invariant, PTL

\* A stop lets the thread begin one callback more at most, and take bytes of
\* another file once at most (timer.cc:69-75).
THEOREM AtMostOneLate == Spec => []OneLateCallback
<1>1. Inv => OneLateCallback
  BY DEF Inv, OnceLate, OneLateCallback
<1> QED
  BY <1>1, Invariant, PTL

\* Only a stop between poll and read can block the thread.
THEOREM NeverBlocksRunning == Spec => []BlocksOnlyInStop
<1>1. Inv => BlocksOnlyInStop
  BY DEF Inv
<1> QED
  BY <1>1, Invariant, PTL
==============================================================================
