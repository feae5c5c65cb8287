------------------------------ MODULE SocketIO ------------------------------
(***************************************************************************)
(* net/socketio.cc and its callers in TcpConnection and RssSearchServer:   *)
(* one connection's streams of bytes, and how the reactor makes requests   *)
(* of the one and puts answers into the other.  The socket does not block. *)
(*                                                                         *)
(* Bytes are of three kinds: a newline, a zero, which ends the C string    *)
(* that receive makes of its buffer, and all others.  They arrive in       *)
(* segments.  Of an answer only the length matters.  How tasks travel      *)
(* through the pool and back is in RssSearchServer.                        *)
(***************************************************************************)
EXTENDS Naturals, Sequences

CONSTANTS
    Segments,   \* what may arrive at once, a set of sequences of bytes
    MaxBytes,   \* bound: how many bytes the client sends
    Limit,      \* maxLen - 1 in readLine
    AnswerLen,  \* bytes of an answer
    SendBuffer  \* bytes that the kernel takes before the client reads any

Byte == {"nl", "nul", "char"}

ASSUME SegmentsAssumption == Segments \subseteq Seq(Byte) \ {<<>>}
ASSUME SizesAssumption ==
    /\ MaxBytes \in Nat /\ Limit \in Nat \ {0}
    /\ AnswerLen \in Nat \ {0} /\ SendBuffer \in Nat \ {0} /\ AnswerLen <= SendBuffer

VARIABLES
    received,  \* all bytes that have arrived
    cuts,      \* history: where segments ended
    closed,    \* the client has closed the connection
    reset,     \* its kernel has answered bytes that came after that
    reactor,   \* what the reactor does with the connection
    taken,     \* how many bytes read() has taken from the socket
    start,     \* where the line in the buffer of receive begins
    requests,  \* the tasks made of the bytes from + 1 .. to
    owed,      \* tasks whose answer is not sent yet
    left,      \* bytes of the answer that writeN has to write
    room,      \* bytes that the socket takes
    dropped,   \* history: an answer was not sent whole
    patient,   \* history: the client sends single lines and awaits each answer
    hasty      \* history: it closed before all was answered

clientVars == <<received, cuts, closed, patient, hasty>>
readVars == <<taken, start, requests>>
writeVars == <<left, room, dropped>>
vars == <<clientVars, reset, reactor, readVars, owed, writeVars>>

Init ==
    /\ received = <<>>
    /\ cuts = {0}
    /\ closed = FALSE
    /\ reset = FALSE
    /\ reactor = "idle"
    /\ taken = 0
    /\ start = 0
    /\ requests = <<>>
    /\ owed = 0
    /\ left = 0
    /\ room = SendBuffer
    /\ dropped = FALSE
    /\ patient = TRUE
    /\ hasty = FALSE
-----------------------------------------------------------------------------
(* The client and the kernels                                              *)

Quiet == reactor = "idle" /\ taken = Len(received) /\ owed = 0

IsLine(s) == \A k \in 1 .. Len(s) : s[k] = "nl" <=> k = Len(s)

Arrive(s) ==
    /\ ~closed /\ Len(received) + Len(s) <= MaxBytes
    /\ received' = received \o s
    /\ cuts' = cuts \union {Len(received) + Len(s)}
    /\ patient' = (patient /\ Quiet /\ room = SendBuffer /\ IsLine(s) /\ Len(s) <= Limit)
    /\ UNCHANGED <<closed, hasty, reset, reactor, readVars, owed, writeVars>>

Close ==
    /\ ~closed
    /\ closed' = TRUE
    /\ hasty' = ~Quiet
    /\ UNCHANGED <<received, cuts, patient, reset, reactor, readVars, owed, writeVars>>

\* The client reads; what it has not read keeps the socket full.
Drain ==
    /\ ~closed /\ room < SendBuffer
    /\ room' \in room + 1 .. SendBuffer
    /\ UNCHANGED <<clientVars, reset, reactor, readVars, owed, left, dropped>>

\* Bytes that reach a closed socket are answered with RST.
Reset ==
    /\ closed /\ room < SendBuffer /\ ~reset
    /\ reset' = TRUE
    /\ UNCHANGED <<clientVars, reactor, readVars, owed, writeVars>>
-----------------------------------------------------------------------------
(* EpollPoller::handleMessage                                              *)

HandleMessage ==
    /\ reactor = "idle" /\ taken < Len(received)
    /\ reactor' = "reading"
    /\ start' = taken
    /\ UNCHANGED <<clientVars, reset, taken, requests, owed, writeVars>>

HandleClose ==
    /\ reactor = "idle" /\ taken = Len(received) /\ closed
    /\ reactor' = "gone"
    /\ UNCHANGED <<clientVars, reset, readVars, owed, writeVars>>
-----------------------------------------------------------------------------
(* SocketIO::readLine.  A turn of its loop peeks, and reads what it has    *)
(* seen, or up to the newline.                                             *)

\* recv_peek sees the bytes taken + 1 .. Seen.
Seen == IF Len(received) <= start + Limit THEN Len(received) ELSE start + Limit

NewlineAt(k) == k \in taken + 1 .. Seen /\ received[k] = "nl"
SomeNewline(k) == NewlineAt(k)
FirstNewline(k) == NewlineAt(k) /\ \A j \in taken + 1 .. k - 1 : received[j] # "nl"

\* receive makes a C string of the buffer, which onMessage shortens by one
\* with pop_back, whatever that is; of an empty string it is undefined.
MakeRequest(to) ==
    IF received[start + 1] = "nul"
    THEN /\ reactor' = "undefined"
         /\ UNCHANGED <<requests, owed>>
    ELSE /\ reactor' = "idle"
         /\ requests' = Append(requests, [from |-> start, to |-> to])
         /\ owed' = owed + 1

TakeLine ==
    /\ reactor = "reading"
    /\ \E k \in 1 .. Len(received) : FirstNewline(k) /\ taken' = k /\ MakeRequest(k)
    /\ UNCHANGED <<clientVars, reset, start, writeVars>>

\* nleft = 0, which ends the loop.
Full == Seen = start + Limit

\* readN of what was seen; the faulty variant leaves it there.
ReadNone == taken' = taken
ReadSeen == taken' = Seen

TakeSeen ==
    /\ reactor = "reading" /\ taken < Seen
    /\ ~\E k \in 1 .. Len(received) : NewlineAt(k)
    /\ ReadSeen
    /\ IF Full THEN MakeRequest(Seen) ELSE UNCHANGED <<reactor, requests, owed>>
    /\ UNCHANGED <<clientVars, reset, start, writeVars>>

\* Nothing is there: readLine returns -1, which receive takes as well as any
\* number but 0.  At the end of the stream it returns 0, whatever it has read,
\* receive an empty string, and pop_back of that is undefined.
EmptyAnyway == TRUE
AtEnd == closed

WouldBlock ==
    /\ reactor = "reading" /\ taken = Seen /\ (~AtEnd \/ reset)
    /\ MakeRequest(taken)
    /\ UNCHANGED <<clientVars, reset, taken, start, writeVars>>

EndOfStream ==
    /\ reactor = "reading" /\ taken = Seen /\ AtEnd
    /\ reactor' = "undefined"
    /\ UNCHANGED <<clientVars, reset, readVars, owed, writeVars>>
-----------------------------------------------------------------------------
(* TcpConnection::send, SocketIO::writeN                                   *)

\* msg.size(); the faulty variant writes the final zero as well.
SizeWithZero == AnswerLen + 1
Size == AnswerLen

BeginSend ==
    /\ reactor = "idle" /\ owed > 0
    /\ reactor' = "writing"
    /\ owed' = owed - 1
    /\ left' = Size
    /\ UNCHANGED <<clientVars, reset, readVars, room, dropped>>

\* One write.  A full socket makes writeN return, with the rest unsent.
Write ==
    /\ reactor = "writing" /\ ~reset
    /\ LET n == IF left <= room THEN left ELSE room IN
       /\ left' = IF room = 0 THEN 0 ELSE left - n
       /\ room' = room - n
       /\ dropped' = (dropped \/ room = 0)
       /\ reactor' = IF left' = 0 THEN "idle" ELSE "writing"
    /\ UNCHANGED <<clientVars, reset, readVars, owed>>

\* SIGPIPE, which ends the process: nothing ignores it.
WriteToReset ==
    /\ reactor = "writing" /\ reset
    /\ reactor' = "killed"
    /\ UNCHANGED <<clientVars, reset, readVars, owed, writeVars>>
-----------------------------------------------------------------------------
ReadStep == HandleMessage \/ HandleClose \/ TakeLine \/ TakeSeen \/ WouldBlock \/ EndOfStream

WriteStep == BeginSend \/ Write \/ WriteToReset

Next ==
    \/ \E s \in Segments : Arrive(s)
    \/ Close \/ Drain \/ Reset
    \/ ReadStep \/ WriteStep

Spec == Init /\ [][Next]_vars

\* The reactor's loop goes on, and epoll_wait reports a socket as long as it
\* has bytes.  Nobody has to drain the answers.
FairSpec == Spec /\ WF_vars(ReadStep) /\ WF_vars(WriteStep)
-----------------------------------------------------------------------------
\* Types; the buffer holds at most Limit bytes, and between two calls of
\* readLine all that was taken is in requests.
TypeOK ==
    /\ received \in Seq(Byte) /\ cuts \subseteq Nat
    /\ closed \in BOOLEAN /\ reset \in BOOLEAN /\ dropped \in BOOLEAN
    /\ patient \in BOOLEAN /\ hasty \in BOOLEAN
    /\ reactor \in {"idle", "reading", "writing", "gone", "undefined", "killed"}
    /\ taken \in 0 .. Len(received)
    /\ start \in 0 .. taken /\ (reactor = "reading" => taken < start + Limit)
    /\ requests \in Seq([from : Nat, to : Nat])
    /\ owed \in Nat /\ left \in Nat /\ room \in 0 .. SendBuffer

\* The requests follow one another without a gap; none has a newline but at
\* its end; and one that does not end with a newline is as long as the buffer,
\* or ends where a segment did and the rest had not come (socketio.cc:62).
RequestsAreLines ==
    \A i \in 1 .. Len(requests) : LET r == requests[i] IN
        /\ r.from = IF i = 1 THEN 0 ELSE requests[i - 1].to
        /\ r.from < r.to /\ r.to <= r.from + Limit /\ r.to <= taken
        /\ \A k \in r.from + 1 .. r.to - 1 : received[k] # "nl"
        /\ received[r.to] = "nl" \/ r.to = r.from + Limit \/ r.to \in cuts

\* Only a client that closes before all is answered, or sends a line that
\* begins with a zero, makes the process run into pop_back of an empty string
\* or SIGPIPE (rsssearchserver.cc:78, socketio.cc:43).
OnlyHastyClientsHarm ==
    reactor \in {"undefined", "killed"} => hasty \/ received[start + 1] = "nul"

\* A client that sends one line and waits for its answer has every answer
\* whole (socketio.cc:44-47).
PatientIsServed == patient => ~dropped

\* What has arrived is read, also when the client has closed since.
BytesAreTaken ==
    \A n \in 1 .. MaxBytes :
        Len(received) >= n ~> taken >= n \/ reactor \in {"undefined", "killed"}
=============================================================================
