--------------------------- MODULE SocketIOProofs ---------------------------
(***************************************************************************)
(* For streams, segments and buffers of any size: requests are lines,      *)
(* except where readLine cannot do better, only a client that leaves early *)
(* brings the process down, and one that waits is served.                  *)
(***************************************************************************)
EXTENDS SocketIO, TLAPS

LEMMA Sizes == /\ MaxBytes \in Nat /\ Limit \in Nat /\ Limit > 0
               /\ AnswerLen \in Nat /\ AnswerLen > 0 /\ SendBuffer \in Nat /\ AnswerLen <= SendBuffer
BY SizesAssumption

\* What of the stream the requests so far account for.
LastTo == IF requests = <<>> THEN 0 ELSE requests[Len(requests)].to

\* The line in the buffer begins where the last request ended, has no newline
\* in it yet, and something was there to read when it was begun.
Lines ==
    /\ LastTo = IF reactor \in {"reading", "undefined"} THEN start ELSE taken
    /\ reactor = "reading" => start < Len(received)
    /\ reactor = "reading" => \A k \in start + 1 .. taken : received[k] # "nl"
    /\ Len(received) \in cuts

\* A client that was not hasty has left a connection at rest.
Harm ==
    /\ closed /\ ~hasty => reactor \in {"idle", "gone"} /\ taken = Len(received) /\ owed = 0
    /\ reset => closed
    /\ reactor = "killed" => reset
    /\ reactor = "undefined" /\ ~hasty => start < Len(received) /\ received[start + 1] = "nul"

LineWaits ==
    /\ Len(received) <= taken + Limit
    /\ \A k \in taken + 1 .. Len(received) : received[k] = "nl" <=> k = Len(received)

\* A patient client's line, request or answer is in one place at a time.
Served ==
    patient =>
        /\ ~dropped
        /\ reactor = "idle" =>
            \/ taken = Len(received) /\ owed = 0
            \/ taken = Len(received) /\ owed = 1 /\ room = SendBuffer
            \/ owed = 0 /\ room = SendBuffer /\ LineWaits
        /\ reactor = "reading" => taken = start /\ owed = 0 /\ room = SendBuffer /\ LineWaits
        /\ reactor = "writing" => taken = Len(received) /\ owed = 0 /\ 0 < left /\ left <= room

Inv == TypeOK /\ RequestsAreLines /\ Lines /\ Harm /\ Served

-----------------------------------------------------------------------------
(* Facts about sequences                                                   *)

LEMMA Concat ==
    ASSUME NEW r \in Seq(Byte), NEW s \in Seq(Byte)
    PROVE  /\ r \o s \in Seq(Byte)
           /\ Len(r \o s) = Len(r) + Len(s)
           /\ \A k \in 1 .. Len(r) : (r \o s)[k] = r[k]
           /\ \A k \in 1 .. Len(s) : (r \o s)[Len(r) + k] = s[k]
OBVIOUS

LEMMA Element ==
    ASSUME NEW T, NEW q \in Seq(T), NEW i \in 1 .. Len(q)
    PROVE  q[i] \in T
OBVIOUS

LEMMA AppendOne ==
    ASSUME NEW T, NEW q \in Seq(T), NEW e \in T
    PROVE  /\ Append(q, e) \in Seq(T)
           /\ Len(Append(q, e)) = Len(q) + 1
           /\ \A i \in 1 .. Len(q) : Append(q, e)[i] = q[i]
           /\ Append(q, e)[Len(q) + 1] = e
           /\ Append(q, e) # <<>>
OBVIOUS

-----------------------------------------------------------------------------
(* The initial state, and the steps of the client and the kernels          *)

LEMMA Types ==
    ASSUME Inv
    PROVE  /\ received \in Seq(Byte) /\ Len(received) \in Nat
           /\ taken \in Nat /\ taken <= Len(received)
           /\ start \in Nat /\ start <= taken
           /\ requests \in Seq([from : Nat, to : Nat]) /\ Len(requests) \in Nat
           /\ \A i \in 1 .. Len(requests) : requests[i].from \in Nat /\ requests[i].to \in Nat
           /\ owed \in Nat /\ left \in Nat
           /\ room \in Nat /\ room <= SendBuffer
<1>1. requests \in Seq([from : Nat, to : Nat])
  BY DEF Inv, TypeOK
<1>2. \A i \in 1 .. Len(requests) : requests[i] \in [from : Nat, to : Nat]
  BY <1>1, Element
<1>3. \A i \in 1 .. Len(requests) : requests[i].from \in Nat /\ requests[i].to \in Nat
  BY <1>2
<1> QED
  BY <1>3, Sizes DEF Inv, TypeOK

LEMMA InitInv == Init => Inv
<1> SUFFICES ASSUME Init PROVE Inv
  OBVIOUS
<1>1. TypeOK
  <2>1. <<>> \in Seq(Byte) /\ <<>> \in Seq([from : Nat, to : Nat]) /\ Len(<<>>) = 0
    OBVIOUS
  <2>2. 0 \in 0 .. 0 /\ SendBuffer \in 0 .. SendBuffer /\ {0} \subseteq Nat
    BY Sizes
  <2> QED
    BY <2>1, <2>2 DEF Init, TypeOK
<1>2. RequestsAreLines
  BY DEF Init, RequestsAreLines
<1>3. Lines /\ Harm
  BY DEF Init, Lines, LastTo, Harm
<1>4. Served
  BY DEF Init, Served
<1> QED
  BY <1>1, <1>2, <1>3, <1>4 DEF Inv

LEMMA ArriveInv ==
    ASSUME Inv, NEW s \in Segments, Arrive(s)
    PROVE  Inv'
<1>0. /\ received \in Seq(Byte) /\ Len(received) \in Nat
      /\ taken \in Nat /\ taken <= Len(received)
      /\ start \in Nat /\ start <= taken
  BY Types
<1>1. /\ s \in Seq(Byte) /\ s # <<>> /\ Len(s) \in Nat /\ Len(s) > 0
  BY SegmentsAssumption
<1>2. /\ received' \in Seq(Byte)
      /\ Len(received') = Len(received) + Len(s)
      /\ \A k \in 1 .. Len(received) : received'[k] = received[k]
      /\ \A k \in 1 .. Len(s) : received'[Len(received) + k] = s[k]
  BY <1>0, <1>1, Concat DEF Arrive
<1>3. UNCHANGED <<closed, hasty, reset, reactor, taken, start, requests, owed, left, room, dropped>>
  BY DEF Arrive, readVars, writeVars
<1>4. ~closed /\ cuts' = cuts \union {Len(received) + Len(s)}
  BY DEF Arrive
<1>5. TypeOK'
  <2>1. cuts' \subseteq Nat
    <3>1. Len(received) + Len(s) \in Nat /\ cuts \subseteq Nat
      BY <1>0, <1>1 DEF Inv, TypeOK
    <3> QED
      BY <3>1, <1>4
  <2>2. taken' \in 0 .. Len(received')
    BY <1>0, <1>1, <1>2, <1>3
  <2>3. patient' \in BOOLEAN
    BY DEF Arrive
  <2> QED
    BY <1>2, <1>3, <2>1, <2>2, <2>3 DEF Inv, TypeOK
<1>6. RequestsAreLines'
  <2> SUFFICES ASSUME NEW i \in 1 .. Len(requests)
               PROVE  LET r == requests[i] IN
                      /\ r.from = IF i = 1 THEN 0 ELSE requests[i - 1].to
                      /\ r.from < r.to /\ r.to <= r.from + Limit /\ r.to <= taken
                      /\ \A k \in r.from + 1 .. r.to - 1 : received'[k] # "nl"
                      /\ received'[r.to] = "nl" \/ r.to = r.from + Limit \/ r.to \in cuts'
    BY <1>3 DEF RequestsAreLines
  <2> DEFINE r == requests[i]
  <2>1. /\ r.from = IF i = 1 THEN 0 ELSE requests[i - 1].to
        /\ r.from < r.to /\ r.to <= r.from + Limit /\ r.to <= taken
        /\ \A k \in r.from + 1 .. r.to - 1 : received[k] # "nl"
        /\ received[r.to] = "nl" \/ r.to = r.from + Limit \/ r.to \in cuts
    BY DEF Inv, RequestsAreLines
  <2>2. r.from \in Nat /\ r.to \in Nat
    BY Types
  <2> HIDE DEF r
  <2>3. \A k \in r.from + 1 .. r.to : received'[k] = received[k]
    <3>1. r.to <= taken
      BY <2>1
    <3>2. \A k \in r.from + 1 .. r.to : k \in 1 .. Len(received)
      BY <3>1, <2>2, <1>0
    <3> QED
      BY <3>2, <1>2
  <2>4. received'[r.to] = received[r.to] /\ \A k \in r.from + 1 .. r.to - 1 : received'[k] # "nl"
    BY <2>1, <2>2, <2>3
  <2> QED
    BY <2>1, <2>4, <1>4 DEF r
<1>7. Lines'
  <2>1. LastTo' = IF reactor' \in {"reading", "undefined"} THEN start' ELSE taken'
    BY <1>3 DEF Inv, Lines, LastTo
  <2>2. reactor' = "reading" => start' < Len(received')
    BY <1>0, <1>1, <1>2, <1>3 DEF Inv, Lines
  <2>3. reactor' = "reading" => \A k \in start' + 1 .. taken' : received'[k] # "nl"
    <3>1. \A k \in start + 1 .. taken : k \in 1 .. Len(received)
      BY <1>0
    <3> QED
      BY <1>2, <1>3, <3>1 DEF Inv, Lines
  <2>4. Len(received') \in cuts'
    BY <1>2, <1>4
  <2> QED
    BY <2>1, <2>2, <2>3, <2>4 DEF Lines
<1>8. Harm'
  <2>1. start < Len(received) => start < Len(received') /\ received'[start + 1] = received[start + 1]
    BY <1>0, <1>1, <1>2
  <2> QED
    BY <2>1, <1>3, <1>4 DEF Inv, Harm
<1>9. Served'
  <2> SUFFICES ASSUME patient' PROVE Served'
    BY DEF Served
  <2>1. patient /\ Quiet /\ room = SendBuffer /\ IsLine(s) /\ Len(s) <= Limit
    BY DEF Arrive
  <2>2. ~dropped /\ reactor = "idle" /\ taken = Len(received) /\ owed = 0
    BY <2>1 DEF Inv, Served, Quiet
  <2>3. \A k \in 1 .. Len(s) : received'[Len(received) + k] = "nl" <=> k = Len(s)
    BY <2>1, <1>2 DEF IsLine
  <2>4. \A k \in taken + 1 .. Len(received') : received'[k] = "nl" <=> k = Len(received')
    <3> TAKE k \in taken + 1 .. Len(received')
    <3>0. k \in Nat
      BY <1>0, <1>1, <1>2, <2>2
    <3> DEFINE j == k - Len(received)
    <3>1. j \in 1 .. Len(s) /\ k = Len(received) + j /\ (j = Len(s) <=> k = Len(received'))
      BY <3>0, <2>2, <1>0, <1>1, <1>2
    <3> HIDE DEF j
    <3> QED
      BY <3>0, <3>1, <2>3, <2>2, <1>0, <1>1, <1>2
  <2>5. LineWaits'
    BY <2>1, <2>2, <2>4, <1>0, <1>1, <1>2, <1>3, Sizes DEF LineWaits
  <2> QED
    BY <2>1, <2>2, <2>5, <1>3 DEF Served
<1> QED
  BY <1>5, <1>6, <1>7, <1>8, <1>9 DEF Inv

\* Steps that leave the stream and what was read of it alone.
LEMMA SameLines ==
    ASSUME Inv, UNCHANGED <<received, cuts, taken, start, requests>>,
           reactor # "reading" => reactor' # "reading",
           reactor' \in {"reading", "undefined"} <=> reactor \in {"reading", "undefined"}
    PROVE  RequestsAreLines' /\ Lines'
<1>1. RequestsAreLines'
  BY DEF Inv, RequestsAreLines
<1>2. Lines'
  BY DEF Inv, Lines, LastTo
<1> QED
  BY <1>1, <1>2

LEMMA ClientInv == Inv /\ (Close \/ Drain \/ Reset) => Inv'
<1> SUFFICES ASSUME Inv, Close \/ Drain \/ Reset PROVE Inv'
  OBVIOUS
<1> USE DEF readVars, writeVars, clientVars
<1>1. UNCHANGED <<received, cuts, taken, start, requests, reactor, owed, left, dropped, patient>>
  BY DEF Close, Drain, Reset
<1>2. RequestsAreLines' /\ Lines'
  BY <1>1, SameLines
<1>3. TypeOK'
  <2>1. closed' \in BOOLEAN /\ hasty' \in BOOLEAN /\ reset' \in BOOLEAN
    BY DEF Close, Drain, Reset, Inv, TypeOK
  <2>2. room' \in 0 .. SendBuffer
    BY Types, Sizes DEF Close, Drain, Reset
  <2> QED
    BY <1>1, <2>1, <2>2 DEF Inv, TypeOK
<1>4. Harm'
  <2>1. CASE Close
    BY <1>1, <2>1 DEF Close, Quiet, Inv, Harm
  <2>2. CASE Drain \/ Reset
    BY <1>1, <2>2 DEF Drain, Reset, Inv, Harm
  <2> QED
    BY <2>1, <2>2
<1>5. Served'
  <2>1. room' = room \/ (room' > room /\ room' <= SendBuffer /\ room # SendBuffer)
    BY Types, Sizes DEF Close, Drain, Reset
  <2>2. LineWaits' <=> LineWaits
    BY <1>1 DEF LineWaits
  <2>3. room \in Nat /\ left \in Nat /\ room' \in Nat
    BY <1>3, <1>1 DEF Inv, TypeOK
  <2> QED
    BY <1>1, <2>1, <2>2, <2>3 DEF Inv, Served
<1> QED
  BY <1>2, <1>3, <1>4, <1>5 DEF Inv
-----------------------------------------------------------------------------
(* handleMessage                                                           *)

LEMMA HandleInv == Inv /\ (HandleMessage \/ HandleClose) => Inv'
<1> SUFFICES ASSUME Inv, HandleMessage \/ HandleClose PROVE Inv'
  OBVIOUS
<1> USE DEF readVars, writeVars, clientVars
<1>1. CASE HandleMessage
  <2>1. /\ UNCHANGED <<received, cuts, taken, requests, owed, left, room, dropped>>
        /\ UNCHANGED <<closed, reset, patient, hasty>>
        /\ reactor = "idle" /\ reactor' = "reading"
        /\ start' = taken /\ taken < Len(received)
    BY <1>1 DEF HandleMessage
  <2>2. /\ taken \in Nat /\ start' \in 0 .. taken' /\ taken' < start' + Limit
    BY <2>1, Types, Sizes
  <2>3. TypeOK'
    BY <2>1, <2>2 DEF Inv, TypeOK
  <2>4. RequestsAreLines'
    BY <2>1 DEF Inv, RequestsAreLines
  <2>5. Lines'
    <3>1. \A k \in start' + 1 .. taken' : FALSE
      BY <2>1, <2>2
    <3> QED
      BY <2>1, <3>1 DEF Inv, Lines, LastTo
  <2>6. Harm'
    BY <2>1, Types DEF Inv, Harm
  <2>7. Served'
    <3>1. LineWaits' <=> LineWaits
      BY <2>1 DEF LineWaits
    <3>2. taken # Len(received)
      BY <2>1, Types
    <3> QED
      BY <2>1, <3>1, <3>2 DEF Inv, Served
  <2> QED
    BY <2>3, <2>4, <2>5, <2>6, <2>7 DEF Inv
<1>2. CASE HandleClose
  <2>1. /\ UNCHANGED <<received, cuts, taken, start, requests, owed, left, room, dropped>>
        /\ UNCHANGED <<closed, reset, patient, hasty>>
        /\ reactor = "idle" /\ reactor' = "gone" /\ taken = Len(received)
    BY <1>2 DEF HandleClose
  <2>2. RequestsAreLines' /\ Lines'
    BY <2>1, SameLines
  <2>3. TypeOK'
    BY <2>1 DEF Inv, TypeOK
  <2>4. Harm' /\ Served'
    BY <2>1 DEF Inv, Harm, Served
  <2> QED
    BY <2>2, <2>3, <2>4 DEF Inv
<1> QED
  BY <1>1, <1>2

-----------------------------------------------------------------------------
(* writeN                                                                  *)

LEMMA WriteInv == Inv /\ WriteStep => Inv'
<1> SUFFICES ASSUME Inv, WriteStep PROVE Inv'
  OBVIOUS
<1> USE DEF readVars, writeVars, clientVars
<1>1. UNCHANGED <<received, cuts, taken, start, requests, closed, reset, patient, hasty>>
  BY DEF WriteStep, BeginSend, Write, WriteToReset
<1>2. /\ reactor \in {"idle", "writing"} /\ reactor' \in {"idle", "writing", "killed"}
      /\ reactor = "idle" => owed > 0 /\ reactor' = "writing"
  BY DEF WriteStep, BeginSend, Write, WriteToReset
<1>3. RequestsAreLines' /\ Lines'
  BY <1>1, <1>2, SameLines
<1>4. /\ owed' \in Nat /\ left' \in Nat /\ room' \in 0 .. SendBuffer /\ dropped' \in BOOLEAN
  <2>1. CASE BeginSend
    BY <2>1, Types, Sizes DEF BeginSend, Size, Inv, TypeOK
  <2>2. CASE Write
    <3> DEFINE n == IF left <= room THEN left ELSE room
    <3>1. n \in Nat /\ n <= left /\ n <= room
      BY Types
    <3>2. /\ left' = IF room = 0 THEN 0 ELSE left - n
          /\ room' = room - n
      BY <2>2 DEF Write
    <3>3. left' \in Nat /\ room' \in 0 .. SendBuffer
      BY <3>1, <3>2, Types, Sizes
    <3>4. owed' = owed /\ dropped' \in BOOLEAN
      BY <2>2 DEF Write
    <3> QED
      BY <3>3, <3>4, Types
  <2>3. CASE WriteToReset
    BY <2>3 DEF WriteToReset, Inv, TypeOK
  <2> QED
    BY <2>1, <2>2, <2>3 DEF WriteStep
<1>5. TypeOK'
  BY <1>1, <1>2, <1>4 DEF Inv, TypeOK
<1>6. Harm'
  <2>1. closed => hasty
    BY <1>2, Types DEF Inv, Harm
  <2>2. reactor' = "killed" => reset
    BY <1>2 DEF WriteStep, BeginSend, Write, WriteToReset
  <2> QED
    BY <2>1, <2>2, <1>1, <1>2 DEF Inv, Harm
<1>7. Served'
  <2> SUFFICES ASSUME patient' PROVE Served'
    BY DEF Served
  <2>0. LineWaits' <=> LineWaits
    BY <1>1 DEF LineWaits
  <2>1. CASE BeginSend
    <3>1. /\ reactor = "idle" /\ owed > 0 /\ owed' = owed - 1 /\ left' = AnswerLen
          /\ UNCHANGED <<room, dropped>> /\ reactor' = "writing"
      BY <2>1 DEF BeginSend, Size
    <3>2. taken = Len(received) /\ owed = 1 /\ room = SendBuffer /\ ~dropped
      BY <3>1, <1>1 DEF Inv, Served
    <3> QED
      BY <3>1, <3>2, <1>1, Sizes DEF Served
  <2>2. CASE Write
    <3>1. /\ ~dropped /\ taken = Len(received) /\ owed = 0 /\ 0 < left /\ left <= room
          /\ owed' = owed
      BY <2>2, <1>1 DEF Write, Inv, Served
    <3>2. left' = 0 /\ reactor' = "idle" /\ ~dropped'
      <4>1. room # 0 /\ left - left = 0 /\ left <= room
        BY <3>1, Types
      <4>2. left' = 0
        BY <4>1, <2>2 DEF Write
      <4>3. dropped' <=> dropped \/ room = 0
        BY <2>2 DEF Write
      <4>4. reactor' = "idle"
        BY <4>2, <2>2 DEF Write
      <4> QED
        BY <3>1, <4>1, <4>2, <4>3, <4>4
    <3> QED
      BY <3>1, <3>2, <1>1 DEF Served
  <2>3. CASE WriteToReset
    BY <2>3, <1>1 DEF WriteToReset, Inv, Served
  <2> QED
    BY <2>1, <2>2, <2>3 DEF WriteStep
<1> QED
  BY <1>3, <1>5, <1>6, <1>7 DEF Inv
-----------------------------------------------------------------------------
(* readLine                                                                *)

\* A request made of the line so far, which is one of the kinds that
\* RequestsAreLines allows.
LEMMA MakeRequestInv ==
    ASSUME Inv, reactor = "reading", UNCHANGED <<clientVars, reset, start, writeVars>>,
           NEW to \in Nat, start < to, taken <= to, to <= Len(received), to <= start + Limit,
           \A k \in start + 1 .. to - 1 : received[k] # "nl",
           received[to] = "nl" \/ to = start + Limit \/ to \in cuts,
           patient => to = Len(received),
           MakeRequest(to), taken' = to
    PROVE  Inv'
<1>0. /\ UNCHANGED <<received, cuts, closed, patient, hasty, reset, start, left, room, dropped>>
      /\ taken \in Nat /\ start \in Nat /\ start <= taken /\ owed \in Nat
  BY Types DEF clientVars, writeVars
<1>1. CASE received[start + 1] = "nul"
  <2>1. UNCHANGED <<requests, owed>> /\ reactor' = "undefined"
    BY <1>1 DEF MakeRequest
  <2>2. taken' \in 0 .. Len(received') /\ start' \in 0 .. taken'
    BY <1>0, Types
  <2>3. TypeOK'
    BY <1>0, <2>1, <2>2 DEF Inv, TypeOK
  <2>4. RequestsAreLines'
    <3>1. \A i \in 1 .. Len(requests) : requests[i].to <= taken'
      BY <1>0, Types DEF Inv, RequestsAreLines
    <3> QED
      BY <1>0, <2>1, <3>1 DEF Inv, RequestsAreLines
  <2>5. Lines'
    BY <1>0, <2>1 DEF Inv, Lines, LastTo
  <2>6. Harm'
    <3>1. start < Len(received)
      BY <1>0, Types
    <3> QED
      BY <1>0, <1>1, <2>1, <3>1 DEF Inv, Harm
  <2>7. Served'
    BY <1>0, <2>1 DEF Inv, Served
  <2> QED
    BY <2>3, <2>4, <2>5, <2>6, <2>7 DEF Inv
<1>2. CASE received[start + 1] # "nul"
  <2> DEFINE new == [from |-> start, to |-> to]
  <2>1. requests' = Append(requests, new) /\ owed' = owed + 1 /\ reactor' = "idle"
    BY <1>2 DEF MakeRequest
  <2>2. new \in [from : Nat, to : Nat] /\ new.from = start /\ new.to = to
    BY <1>0
  <2>3. requests \in Seq([from : Nat, to : Nat]) /\ Len(requests) \in Nat
    BY Types
  <2> HIDE DEF new
  <2>4. /\ requests' \in Seq([from : Nat, to : Nat]) /\ requests' # <<>>
        /\ Len(requests') = Len(requests) + 1
        /\ \A i \in 1 .. Len(requests) : requests'[i] = requests[i]
        /\ requests'[Len(requests) + 1] = new
    BY <2>1, <2>2, <2>3, AppendOne
  <2>5. TypeOK'
    <3>1. taken' \in 0 .. Len(received') /\ start' \in 0 .. taken' /\ owed' \in Nat
      BY <1>0, <2>1, Types
    <3> QED
      BY <1>0, <2>1, <2>4, <3>1 DEF Inv, TypeOK
  <2>6. LastTo = start /\ LastTo = IF Len(requests) = 0 THEN 0 ELSE requests[Len(requests)].to
    <3>1. requests = <<>> <=> Len(requests) = 0
      BY <2>3
    <3> QED
      BY <3>1 DEF Inv, Lines, LastTo
  <2>7. RequestsAreLines'
    <3> SUFFICES ASSUME NEW i \in 1 .. Len(requests')
                 PROVE  LET r == requests'[i] IN
                        /\ r.from = IF i = 1 THEN 0 ELSE requests'[i - 1].to
                        /\ r.from < r.to /\ r.to <= r.from + Limit /\ r.to <= taken'
                        /\ \A k \in r.from + 1 .. r.to - 1 : received'[k] # "nl"
                        /\ received'[r.to] = "nl" \/ r.to = r.from + Limit \/ r.to \in cuts'
      BY DEF RequestsAreLines
    <3>1. CASE i = Len(requests) + 1
      <4>1. requests'[i] = new
        BY <3>1, <2>4
      <4>2. i = 1 <=> Len(requests) = 0
        BY <3>1, <2>3
      <4>3. i # 1 => i - 1 = Len(requests) /\ requests'[i - 1] = requests[i - 1]
        <5>1. i # 1 => i - 1 = Len(requests) /\ i - 1 \in 1 .. Len(requests)
          BY <3>1, <2>3
        <5> QED
          BY <5>1, <2>4
      <4>4. start = IF i = 1 THEN 0 ELSE requests'[i - 1].to
        BY <2>6, <4>2, <4>3
      <4> QED
        BY <1>0, <2>2, <4>1, <4>4
    <3>2. CASE i \in 1 .. Len(requests)
      <4>1. requests'[i] = requests[i]
        BY <3>2, <2>4
      <4>2. i # 1 => i - 1 \in 1 .. Len(requests)
        BY <3>2, <2>3
      <4>3. i # 1 => requests'[i - 1] = requests[i - 1]
        BY <4>2, <2>4
      <4>4. requests[i].to \in Nat /\ (requests[i].to <= taken => requests[i].to <= taken')
        BY <3>2, <1>0, Types
      <4> QED
        BY <1>0, <3>2, <4>1, <4>3, <4>4 DEF Inv, RequestsAreLines
    <3> QED
      BY <3>1, <3>2, <2>3, <2>4
  <2>8. Lines'
    <3>1. requests'[Len(requests')].to = to
      BY <2>2, <2>4
    <3> QED
      BY <1>0, <2>1, <2>4, <3>1 DEF Inv, Lines, LastTo
  <2>9. Harm'
    BY <1>0, <2>1 DEF Inv, Harm
  <2>10. Served'
    <3> SUFFICES ASSUME patient' PROVE Served'
      BY DEF Served
    <3>1. ~dropped /\ owed = 0 /\ room = SendBuffer /\ to = Len(received)
      BY <1>0 DEF Inv, Served
    <3>2. ~dropped' /\ owed' = 1 /\ room' = SendBuffer /\ taken' = Len(received')
      BY <1>0, <2>1, <3>1
    <3> QED
      BY <2>1, <3>2 DEF Served
  <2> QED
    BY <2>5, <2>7, <2>8, <2>9, <2>10 DEF Inv
<1> QED
  BY <1>1, <1>2

LEMMA TakeLineInv == Inv /\ TakeLine => Inv'
<1> SUFFICES ASSUME Inv, TakeLine PROVE Inv'
  OBVIOUS
<1>1. PICK k \in 1 .. Len(received) : FirstNewline(k) /\ taken' = k /\ MakeRequest(k)
  BY DEF TakeLine
<1>2. reactor = "reading" /\ UNCHANGED <<clientVars, reset, start, writeVars>>
  BY DEF TakeLine
<1>3. /\ taken \in Nat /\ start \in Nat /\ start <= taken /\ Len(received) \in Nat
  BY Types
<1>4. /\ k \in taken + 1 .. Seen /\ received[k] = "nl"
      /\ \A j \in taken + 1 .. k - 1 : received[j] # "nl"
  BY <1>1 DEF FirstNewline, NewlineAt
<1>5. Seen \in Nat /\ Seen <= Len(received) /\ Seen <= start + Limit
  BY <1>3, Sizes DEF Seen
<1>6. k \in Nat /\ start < k /\ taken <= k /\ k <= Len(received) /\ k <= start + Limit
  BY <1>3, <1>4, <1>5, Sizes
<1>7. \A j \in start + 1 .. k - 1 : received[j] # "nl"
  <2>1. \A j \in start + 1 .. k - 1 : j \in start + 1 .. taken \/ j \in taken + 1 .. k - 1
    BY <1>3, <1>6
  <2> QED
    BY <2>1, <1>2, <1>4 DEF Inv, Lines
<1>8. patient => k = Len(received)
  BY <1>2, <1>3, <1>4, <1>6 DEF Inv, Served, LineWaits
<1> QED
  BY <1>1, <1>2, <1>4, <1>6, <1>7, <1>8, MakeRequestInv

LEMMA TakeSeenInv == Inv /\ TakeSeen => Inv'
<1> SUFFICES ASSUME Inv, TakeSeen PROVE Inv'
  OBVIOUS
<1>1. /\ reactor = "reading" /\ taken < Seen /\ taken' = Seen
      /\ UNCHANGED <<clientVars, reset, start, writeVars>>
      /\ Full => MakeRequest(Seen)
      /\ ~Full => UNCHANGED <<reactor, requests, owed>>
  BY DEF TakeSeen, ReadSeen
<1>2. /\ taken \in Nat /\ start \in Nat /\ start <= taken /\ Len(received) \in Nat
  BY Types
<1>3. Seen \in Nat /\ Seen <= Len(received) /\ Seen <= start + Limit
  BY <1>2, Sizes DEF Seen
<1>4. \A k \in taken + 1 .. Seen : received[k] # "nl"
  <2>1. \A k \in taken + 1 .. Seen : k \in 1 .. Len(received)
    BY <1>2, <1>3
  <2> QED
    BY <2>1 DEF TakeSeen, NewlineAt
<1>5. \A k \in start + 1 .. Seen : received[k] # "nl"
  <2>1. \A j \in start + 1 .. Seen : j \in start + 1 .. taken \/ j \in taken + 1 .. Seen
    BY <1>2, <1>3
  <2> QED
    BY <2>1, <1>1, <1>4 DEF Inv, Lines
<1>6. ~patient
  <2> SUFFICES ASSUME patient PROVE FALSE
    OBVIOUS
  <2>1. taken = start /\ LineWaits
    BY <1>1 DEF Inv, Served
  <2>2. Seen = Len(received)
    BY <2>1, <1>2, Sizes DEF Seen, LineWaits
  <2>3. Len(received) \in taken + 1 .. Len(received)
    BY <1>1, <1>2, <2>2
  <2> QED
    BY <2>1, <2>2, <2>3, <1>4 DEF LineWaits
<1>7. CASE Full
  <2>1. Seen = start + Limit /\ start < Seen /\ taken <= Seen
    BY <1>7, <1>1, <1>2, <1>3 DEF Full
  <2>2. \A k \in start + 1 .. Seen - 1 : k \in start + 1 .. Seen
    BY <1>2, <1>3
  <2>3. \A k \in start + 1 .. Seen - 1 : received[k] # "nl"
    BY <2>2, <1>5
  <2> HIDE DEF Seen
  <2>4. MakeRequest(Seen)
    BY <1>7, <1>1
  <2> QED
    BY <1>1, <1>3, <2>1, <2>3, <1>6, <2>4, MakeRequestInv
<1>8. CASE ~Full
  <2>1. /\ UNCHANGED <<received, cuts, closed, patient, hasty, reset, start, left, room, dropped>>
        /\ UNCHANGED <<reactor, requests, owed>>
    BY <1>1, <1>8 DEF clientVars, writeVars
  <2>2. taken' \in 0 .. Len(received') /\ start' \in 0 .. taken' /\ taken' < start' + Limit
    BY <1>1, <1>2, <1>3, <1>8, <2>1, Sizes DEF Full
  <2>3. TypeOK'
    BY <2>1, <2>2 DEF Inv, TypeOK
  <2>4. RequestsAreLines'
    <3>1. \A i \in 1 .. Len(requests) : requests[i].to <= taken'
      BY <1>1, <1>2, <1>3, Types DEF Inv, RequestsAreLines
    <3> QED
      BY <2>1, <3>1 DEF Inv, RequestsAreLines
  <2>5. Lines'
    BY <1>1, <2>1, <1>5 DEF Inv, Lines, LastTo
  <2>6. Harm' /\ Served'
    BY <1>1, <1>6, <2>1 DEF Inv, Harm, Served
  <2> QED
    BY <2>3, <2>4, <2>5, <2>6 DEF Inv
<1> QED
  BY <1>7, <1>8

LEMMA WouldBlockInv == Inv /\ WouldBlock => Inv'
<1> SUFFICES ASSUME Inv, WouldBlock PROVE Inv'
  OBVIOUS
<1>1. /\ reactor = "reading" /\ taken = Seen /\ MakeRequest(taken) /\ taken' = taken
      /\ UNCHANGED <<clientVars, reset, start, writeVars>>
  BY DEF WouldBlock
<1>2. /\ taken \in Nat /\ start \in Nat /\ start <= taken /\ Len(received) \in Nat
      /\ taken < start + Limit /\ start < Len(received)
  BY <1>1, Types DEF Inv, TypeOK, Lines
<1>3. taken = Len(received)
  BY <1>1, <1>2, Sizes DEF Seen
<1>4. Len(received) \in cuts
  BY DEF Inv, Lines
<1>5. \A k \in start + 1 .. taken - 1 : received[k] # "nl"
  <2>1. \A k \in start + 1 .. taken - 1 : k \in start + 1 .. taken
    BY <1>2
  <2> QED
    BY <2>1, <1>1 DEF Inv, Lines
<1> QED
  BY <1>1, <1>2, <1>3, <1>4, <1>5, Sizes, MakeRequestInv

LEMMA EndOfStreamInv == Inv /\ EndOfStream => Inv'
<1> SUFFICES ASSUME Inv, EndOfStream PROVE Inv'
  OBVIOUS
<1>1. /\ reactor = "reading" /\ closed /\ reactor' = "undefined" /\ taken = Seen
      /\ UNCHANGED <<received, cuts, closed, patient, hasty, reset, taken, start, requests, owed,
                     left, room, dropped>>
  BY DEF EndOfStream, AtEnd, clientVars, readVars, writeVars
<1>2. TypeOK'
  BY <1>1 DEF Inv, TypeOK
<1>3. RequestsAreLines'
  BY <1>1 DEF Inv, RequestsAreLines
<1>4. Lines' /\ Harm' /\ Served'
  BY <1>1 DEF Inv, Lines, LastTo, Harm, Served
<1> QED
  BY <1>2, <1>3, <1>4 DEF Inv

-----------------------------------------------------------------------------
THEOREM Invariant == Spec => []Inv
<1>1. Inv /\ [Next]_vars => Inv'
  <2> SUFFICES ASSUME Inv, [Next]_vars PROVE Inv'
    OBVIOUS
  <2>1. CASE Next
    BY <2>1, ArriveInv, ClientInv, HandleInv, TakeLineInv, TakeSeenInv, WouldBlockInv,
       EndOfStreamInv, WriteInv DEF Next, ReadStep
  <2>2. CASE UNCHANGED vars
    <3>1. TypeOK' /\ RequestsAreLines' /\ Lines'
      BY <2>2 DEF vars, clientVars, readVars, writeVars, Inv, TypeOK, RequestsAreLines, Lines, LastTo
    <3>2. Harm' /\ Served'
      BY <2>2 DEF vars, clientVars, readVars, writeVars, Inv, Harm, Served, LineWaits
    <3> QED
      BY <3>1, <3>2 DEF Inv
  <2> QED
    BY <2>1, <2>2
<1> QED
  BY <1>1, InitInv, PTL DEF Spec

\* Types of the connection's streams; no more is in the buffer than it holds.
THEOREM StreamTypes == Spec => []TypeOK
<1>1. Inv => TypeOK
  BY DEF Inv
<1> QED
  BY <1>1, Invariant, PTL

\* Requests tile the stream and are lines, but where the buffer is full or a
\* segment has ended (socketio.cc:55-86).
THEOREM EveryRequestALine == Spec => []RequestsAreLines
<1>1. Inv => RequestsAreLines
  BY DEF Inv
<1> QED
  BY <1>1, Invariant, PTL

\* A client that awaits its answers, and sends no zeros, never meets the end of
\* the stream in a line or makes the process write to a reset connection.
THEOREM AwaitingIsHarmless == Spec => []OnlyHastyClientsHarm
<1>1. Inv => OnlyHastyClientsHarm
  BY DEF Inv, Harm, OnlyHastyClientsHarm
<1> QED
  BY <1>1, Invariant, PTL

\* A client that sends line by line has every answer whole, for every buffer
\* that holds one.
THEOREM PatientHasWholeAnswers == Spec => []PatientIsServed
<1>1. Inv => PatientIsServed
  <2> SUFFICES ASSUME Inv, patient PROVE ~dropped
    BY DEF PatientIsServed
  <2> QED
    BY DEF Inv, Served
<1> QED
  BY <1>1, Invariant, PTL
=============================================================================
