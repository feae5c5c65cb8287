---------------------------- MODULE DoTaskProofs ----------------------------
(***************************************************************************)
(* DoTask keeps its types; answers do not go back to an older library; and *)
(* the workers race for the table over unknown words only.                 *)
(***************************************************************************)
EXTENDS DoTask, TLAPS

\* The assumptions in the form in which the steps below use them.
LEMMA Constants ==
    /\ MaxVersion \in Nat \ {0}
    /\ \A v \in 1 .. MaxVersion : v \in Versions /\ Lexicon[v] \subseteq Vocabulary
    /\ \A q \in Queries : Words[q] \subseteq Vocabulary
    /\ Null \in Versions
  BY BoundsAssumption, WordsAssumption DEF Vocabulary, Versions, Null

LEMMA SentTypes ==
  ASSUME TypeOK, NEW w \in Workers, task[w].at = "set"
  PROVE  Sent(w) \in Command
<1>1. task[w] \in Task
  BY DEF TypeOK
<1> QED
  BY <1>1 DEF Task, Sent, Command

LEMMA EndTypes == TypeOK /\ End => TypeOK'
<1> SUFFICES ASSUME TypeOK, End PROVE TypeOK'
  OBVIOUS
<1>2. late' \subseteq Command
  BY SentTypes DEF TypeOK, End
<1>3. task' \in [Workers -> Task \union [at : {"idle", "hung"}]]
  BY DEF End, Idle
<1> QED
  BY <1>2, <1>3 DEF TypeOK, End

LEMMA StepTypes ==
  ASSUME TypeOK, NEW w \in Workers, Step(w) \/ Hang(w) \/ (\E q \in Queries : Ask(w, q))
  PROVE  TypeOK'
<1> DEFINE Tasks == Task \union [at : {"idle", "hung"}]
<1>t. task \in [Workers -> Tasks]
  BY DEF TypeOK
<1>u. task[w].at \notin {"idle", "hung"} => task[w] \in Task
  BY <1>t
<1>1. ASSUME NEW q \in Queries, Ask(w, q) PROVE TypeOK'
  <2>1. NewTask(q) \in Task
    BY Constants DEF NewTask, Task, TypeOK
  <2> QED
    BY <1>1, <2>1, EndTypes DEF Ask, Connect, TypeOK
<1>2. CASE GetReply(w)
  <2>1. task[w] \in Task
    BY <1>2, <1>u DEF GetReply, At
  <2>2. Words[task[w].query] \subseteq Vocabulary /\ store[task[w].query] \in Versions
    BY <2>1, Constants DEF Task, TypeOK
  <2>3. task' \in [Workers -> Tasks]
    <3>1. [task[w] EXCEPT !.at = "weigh", !.todo = Words[task[w].query]] \in Task
      BY <2>1, <2>2 DEF Task
    <3>2. [task[w] EXCEPT !.at = "reply", !.answer = store[task[w].query]] \in Task
      BY <2>1, <2>2 DEF Task
    <3>3. [task[w] EXCEPT !.at = "reply"] \in Task
      BY <2>1 DEF Task
    <3> QED
      BY <1>2, <1>t, <3>1, <3>2, <3>3 DEF GetReply
  <2> QED
    BY <1>2, <2>3 DEF GetReply, TypeOK
<1>3. CASE LookUp(w)
  <2>1. task[w] \in Task
    BY <1>3, <1>u DEF LookUp, At
  <2>2. ASSUME NEW x \in task[w].todo
        PROVE  [task[w] EXCEPT !.at = "lookup", !.word = {x}] \in Task
    BY <2>1 DEF Task
  <2>3. task' \in [Workers -> Tasks]
    BY <1>3, <1>t, <2>2 DEF LookUp, Enter
  <2> QED
    BY <1>3, <2>3 DEF LookUp, Enter, At, TypeOK
<1>4. CASE LookedUp(w)
  <2>1. task[w] \in Task
    BY <1>4, <1>u DEF LookedUp, At
  <2>2. [task[w] EXCEPT !.at = "weigh", !.todo = @ \ task[w].word, !.word = {}] \in Task
    BY <2>1 DEF Task
  <2>3. task' \in [Workers -> Tasks]
    BY <1>4, <1>t, <2>2 DEF LookedUp
  <2>4. table' \subseteq Vocabulary
    BY <1>4, <2>1 DEF LookedUp, WithInserted, Task, TypeOK
  <2> QED
    BY <1>4, <2>3, <2>4 DEF LookedUp, TypeOK
<1>5. CASE ExecuteQuery(w)
  <2>1. task[w] \in Task
    BY <1>5, <1>u DEF ExecuteQuery, At
  <2>2. [task[w] EXCEPT !.at = "execute"] \in Task
    BY <2>1 DEF Task
  <2>3. task' \in [Workers -> Tasks]
    BY <1>5, <1>t, <2>2 DEF ExecuteQuery, Enter
  <2> QED
    BY <1>5, <2>3 DEF ExecuteQuery, Enter, At, TypeOK
<1>6. CASE Executed(w)
  <2>1. task[w] \in Task
    BY <1>6, <1>u DEF Executed, At
  <2>2. [task[w] EXCEPT !.at = "set", !.answer = version] \in Task
    BY <2>1, Constants DEF Task, TypeOK
  <2> QED
    BY <1>6, <1>t, <2>2, EndTypes DEF Executed, Connect, TypeOK
<1>7. CASE AwaitSet(w)
  <2>1. task[w] \in Task
    BY <1>7, <1>u DEF AwaitSet, SetReply, At
  <2>2. [task[w] EXCEPT !.at = "reply"] \in Task
    BY <2>1 DEF Task
  <2>3. store' \in [Queries -> Versions]
    BY <1>7, <2>1 DEF AwaitSet, SetReply, Task, TypeOK
  <2>4. late' \subseteq Command
    BY <1>7, SentTypes DEF AwaitSet, SetReply, Abandon, At, TypeOK
  <2> QED
    BY <1>7, <1>t, <2>2, <2>3, <2>4 DEF AwaitSet, SetReply, TypeOK
<1>8. CASE Reply(w)
  <2>1. task[w] \in Task
    BY <1>8, <1>u DEF Reply, At
  <2>2. best' \in [Queries -> Versions] /\ wentBack' \in BOOLEAN
    BY <1>8, <2>1 DEF Reply, Task, TypeOK
  <2>3. task' \in [Workers -> Tasks]
    BY <1>8, <1>t DEF Reply
  <2> QED
    BY <1>8, <2>2, <2>3 DEF Reply, TypeOK
<1>9. CASE Hang(w)
  <2>1. late' \subseteq Command
    BY <1>9, SentTypes DEF Hang, Abandon, At, TypeOK
  <2>2. task' \in [Workers -> Tasks]
    BY <1>9, <1>t DEF Hang
  <2> QED
    BY <1>9, <2>1, <2>2 DEF Hang, TypeOK
<1> QED
  BY <1>1, <1>2, <1>3, <1>4, <1>5, <1>6, <1>7, <1>8, <1>9 DEF Step

LEMMA OtherTypes ==
  ASSUME TypeOK, Kill \/ Restart \/ (\E q \in Queries : Forget(q)) \/ (\E c \in late : LateSet(c))
  PROVE  TypeOK'
<1>1. CASE Kill
  BY <1>1, EndTypes DEF Kill
<1>2. CASE Restart
  BY <1>2, Constants DEF Restart, TypeOK
<1>3. ASSUME NEW q \in Queries, Forget(q) PROVE TypeOK'
  BY <1>3, Constants DEF Forget, TypeOK
<1>4. ASSUME NEW c \in late, LateSet(c) PROVE TypeOK'
  <2>1. c \in Command
    BY DEF TypeOK
  <2>2. store' \in [Queries -> Versions] /\ overtaken' \in BOOLEAN
    BY <1>4, <2>1 DEF LateSet, Overtaken, Command, TypeOK
  <2>3. best' \in [Queries -> Versions]
    BY <1>4, Constants DEF LateSet, TypeOK, Null
  <2> QED
    BY <1>4, <2>2, <2>3 DEF LateSet, TypeOK
<1> QED
  BY <1>1, <1>2, <1>3, <1>4

LEMMA NextTypes == TypeOK /\ [Next]_vars => TypeOK'
<1>1. TypeOK /\ Next => TypeOK'
  BY StepTypes, OtherTypes DEF Next
<1>2. TypeOK /\ UNCHANGED vars => TypeOK'
  BY DEF TypeOK, vars
<1> QED
  BY <1>1, <1>2

LEMMA InitTypes == Init => TypeOK
<1> SUFFICES ASSUME Init PROVE TypeOK
  OBVIOUS
<1>1. 1 \in 1 .. MaxVersion /\ table \subseteq Vocabulary
  BY Constants DEF Init
<1>2. task \in [Workers -> Task \union [at : {"idle", "hung"}]]
  BY DEF Init, Idle
<1>3. store \in [Queries -> Versions] /\ best \in [Queries -> Versions]
  BY Constants DEF Init, Null
<1> QED
  BY <1>1, <1>2, <1>3 DEF Init, TypeOK

\* Every variable keeps its type.
THEOREM TaskTypes == Spec => []TypeOK
  BY InitTypes, NextTypes, PTL DEF Spec
-----------------------------------------------------------------------------
(* The table                                                               *)

\* What a worker has weighed, and what the library has, is in the table; a
\* worker that looks up a word looks up one of its query; and a process that
\* has ended has no tasks.
Weighed(w) ==
    /\ task[w].at \in {"weigh", "lookup"} =>
        Words[task[w].query] \ task[w].todo \subseteq table
    /\ task[w].at \in {"weigh", "lookup"} => task[w].todo \subseteq Words[task[w].query]
    /\ task[w].at = "lookup" => task[w].word \subseteq Words[task[w].query]
    /\ task[w].at = "execute" => Words[task[w].query] \subseteq table

TableInv ==
    /\ \A w \in Workers : Weighed(w)
    /\ Lexicon[version] \subseteq table
    /\ process = "down" => \A w \in Workers : task[w].at = "idle"
    /\ OnlyUnknownWordsRace

\* The task of one worker is the only one to change.
Others(w) == \A v \in Workers \ {w} : task'[v] = task[v]

\* If the table does not shrink and the process does not end, one worker's step
\* disturbs only what is said of that worker.
LEMMA TableStep ==
  ASSUME TypeOK, TableInv, NEW w \in Workers, At(w, task[w].at), Others(w),
         process' = "up", version' = version, table \subseteq table', Weighed(w)'
  PROVE  TableInv'
<1>1. \A v \in Workers \ {w} : Weighed(v)'
  BY DEF TableInv, Weighed, Others
<1>2. \A v \in Workers : Weighed(v)'
  BY <1>1
<1>3. OnlyUnknownWordsRace'
  BY <1>2 DEF Weighed, OnlyUnknownWordsRace
<1>4. Lexicon[version'] \subseteq table'
  BY DEF TableInv
<1> QED
  BY <1>2, <1>3, <1>4 DEF TableInv

\* A race has a worker that meets a word which the library does not have.
LEMMA Race ==
  ASSUME TypeOK, TableInv, NEW w \in Workers, task[w].at = "weigh", NEW inserts \in BOOLEAN,
         NEW place, Enter(w, inserts, place), process' # process,
         inserts => ~(Words[task[w].query] \subseteq table),
         UNCHANGED <<version, table>>
  PROVE  TableInv'
<1>1. process' = "undefined" /\ task' = task
  BY DEF Enter
<1>2. \E v \in Workers : task[v].at \in {"weigh", "lookup"} /\ ~(Words[task[v].query] \subseteq table)
  <2>1. CASE inserts
    BY <2>1
  <2>2. CASE ~inserts
    <3>1. PICK v \in Workers \ {w} : Inserting(v)
      BY <2>2 DEF Enter
    <3>2. task[v].word \subseteq Words[task[v].query]
      BY <3>1 DEF TableInv, Weighed, Inserting
    <3> QED
      BY <3>1, <3>2 DEF Inserting
  <2> QED
    BY <2>1, <2>2
<1>3. \E v \in Workers : task[v].at \in {"weigh", "lookup"} /\ ~(Words[task[v].query] \subseteq Lexicon[version])
  BY <1>2 DEF TableInv
<1>4. \A v \in Workers : Weighed(v)'
  BY <1>1 DEF TableInv, Weighed
<1>5. OnlyUnknownWordsRace'
  BY <1>1, <1>3, <1>4 DEF OnlyUnknownWordsRace, Weighed
<1> QED
  BY <1>1, <1>4, <1>5 DEF TableInv

LEMMA EndTable == TableInv /\ End => TableInv'
  BY DEF TableInv, End, Idle, Weighed, OnlyUnknownWordsRace

LEMMA StepTable ==
  ASSUME TypeOK, TableInv, NEW w \in Workers,
         Step(w) \/ Hang(w) \/ (\E q \in Queries : Ask(w, q))
  PROVE  TableInv'
<1>t. task \in [Workers -> Task \union [at : {"idle", "hung"}]]
  BY DEF TypeOK
<1>u. task[w].at \notin {"idle", "hung"} => task[w] \in Task
  BY <1>t
<1>w. Weighed(w)
  BY DEF TableInv
<1>1. ASSUME NEW q \in Queries, Ask(w, q) PROVE TableInv'
  <2>1. CASE End
    BY <2>1, EndTable
  <2>2. CASE ~End
    <3>1. At(w, task[w].at) /\ Others(w) /\ task'[w] = NewTask(q)
      BY <1>1, <2>2, <1>t DEF Ask, Connect, At, Others
    <3>2. Weighed(w)'
      BY <3>1 DEF Weighed, NewTask
    <3> QED
      BY <1>1, <2>2, <3>1, <3>2, TableStep DEF Ask, Connect, At
  <2> QED
    BY <2>1, <2>2
<1>2. CASE GetReply(w)
  <2>1. At(w, task[w].at) /\ Others(w)
    BY <1>2, <1>t DEF GetReply, At, Others
  <2>2. task[w] \in Task
    BY <1>2, <1>u DEF GetReply, At
  <2>5. Weighed(w)'
    <3>3. CASE task' = [task EXCEPT ![w].at = "weigh", ![w].todo = Words[task[w].query]]
      <4>1. /\ task'[w].at = "weigh" /\ task'[w].query = task[w].query
            /\ task'[w].todo = Words[task[w].query]
        BY <2>2, <3>3, <1>t DEF Task
      <4> QED
        BY <4>1 DEF Weighed
    <3>4. CASE task' # [task EXCEPT ![w].at = "weigh", ![w].todo = Words[task[w].query]]
      <4>1. task'[w].at = "reply"
        BY <1>2, <2>2, <3>4, <1>t DEF GetReply, Task
      <4> QED
        BY <4>1 DEF Weighed
    <3> QED
      BY <3>3, <3>4
  <2> QED
    BY <1>2, <2>1, <2>5, TableStep DEF GetReply, At
<1>3. CASE LookUp(w)
  <2>1. PICK x \in task[w].todo :
            Enter(w, x \notin table, [task EXCEPT ![w].at = "lookup", ![w].word = {x}])
    BY <1>3 DEF LookUp
  <2>2. x \in Words[task[w].query] /\ task[w].at = "weigh"
    BY <1>3, <1>w DEF LookUp, At, Weighed
  <2>3. CASE process' = process
    <3>1. task' = [task EXCEPT ![w].at = "lookup", ![w].word = {x}]
      BY <1>3, <2>1, <2>3 DEF Enter, LookUp, At
    <3>2. At(w, task[w].at) /\ Others(w) /\ Weighed(w)'
      BY <1>3, <3>1, <2>2, <1>t, <1>w DEF LookUp, At, Others, Weighed
    <3> QED
      BY <1>3, <2>3, <3>2, TableStep DEF LookUp, At
  <2>4. CASE process' # process
    BY <1>3, <2>1, <2>2, <2>4, Race DEF LookUp
  <2> QED
    BY <2>3, <2>4
<1>4. CASE LookedUp(w)
  <2>1. At(w, task[w].at) /\ Others(w)
    BY <1>4, <1>t DEF LookedUp, At, Others
  <2>2. Weighed(w)'
    <3>1. task[w] \in Task
      BY <1>4, <1>u DEF LookedUp, At
    <3>2. /\ task'[w].at = "weigh" /\ task'[w].query = task[w].query
          /\ task'[w].todo = task[w].todo \ task[w].word
      BY <1>4, <3>1, <1>t DEF LookedUp, Task
    <3>3. /\ Words[task[w].query] \ task[w].todo \subseteq table
          /\ task[w].todo \subseteq Words[task[w].query]
      BY <1>4, <1>w DEF LookedUp, At, Weighed
    <3>4. table' = table \union task[w].word
      BY <1>4 DEF LookedUp, WithInserted
    <3> QED
      BY <3>2, <3>3, <3>4 DEF Weighed
  <2> QED
    BY <1>4, <2>1, <2>2, TableStep DEF LookedUp, At, WithInserted
<1>5. CASE ExecuteQuery(w)
  <2>1. task[w].at = "weigh" /\ Words[task[w].query] \subseteq table
    BY <1>5, <1>w DEF ExecuteQuery, At, Weighed
  <2>2. Enter(w, FALSE, [task EXCEPT ![w].at = "execute"])
    BY <1>5, <2>1 DEF ExecuteQuery, Enter
  <2>3. CASE process' = process
    <3>1. task' = [task EXCEPT ![w].at = "execute"]
      BY <1>5, <2>2, <2>3 DEF Enter, ExecuteQuery, At
    <3>2. At(w, task[w].at) /\ Others(w) /\ Weighed(w)'
      BY <1>5, <3>1, <2>1, <1>t DEF ExecuteQuery, At, Others, Weighed
    <3> QED
      BY <1>5, <2>3, <3>2, TableStep DEF ExecuteQuery, At
  <2>4. CASE process' # process
    BY <1>5, <2>1, <2>2, <2>4, Race DEF ExecuteQuery
  <2> QED
    BY <2>3, <2>4
<1>6. CASE Executed(w)
  <2>1. CASE End
    BY <2>1, EndTable
  <2>2. CASE ~End
    <3>0. task[w] \in Task
      BY <1>6, <1>u DEF Executed, At
    <3>1. At(w, task[w].at) /\ Others(w) /\ task'[w].at = "set"
      <4>1. task' = [task EXCEPT ![w] = [task[w] EXCEPT !.at = "set", !.answer = version]]
        BY <1>6, <2>2 DEF Executed, Connect
      <4>2. [task[w] EXCEPT !.at = "set", !.answer = version].at = "set"
        BY <3>0 DEF Task
      <4> QED
        BY <1>6, <1>t, <4>1, <4>2 DEF Executed, At, Others
    <3>2. Weighed(w)'
      BY <3>1 DEF Weighed
    <3> QED
      BY <1>6, <2>2, <3>1, <3>2, TableStep DEF Executed, Connect, At
  <2> QED
    BY <2>1, <2>2
<1>7. CASE AwaitSet(w) \/ Reply(w) \/ Hang(w)
  <2>1. At(w, task[w].at) /\ Others(w) /\ task'[w].at \in {"reply", "idle", "hung"}
    <3>1. CASE AwaitSet(w)
      <4>1. task[w] \in Task
        BY <3>1, <1>u DEF AwaitSet, SetReply, At
      <4> QED
        BY <3>1, <4>1, <1>t DEF AwaitSet, SetReply, At, Others, Task
    <3>2. CASE Reply(w) \/ Hang(w)
      BY <3>2, <1>t DEF Reply, Hang, At, Others
    <3> QED
      BY <1>7, <3>1, <3>2
  <2>2. Weighed(w)'
    BY <2>1 DEF Weighed
  <2> QED
    BY <1>7, <2>1, <2>2, TableStep DEF AwaitSet, SetReply, Reply, Hang, At
<1> QED
  BY <1>1, <1>2, <1>3, <1>4, <1>5, <1>6, <1>7 DEF Step

LEMMA OtherTable ==
  ASSUME TypeOK, TableInv,
         Kill \/ Restart \/ (\E q \in Queries : Forget(q)) \/ (\E c \in late : LateSet(c))
  PROVE  TableInv'
<1>1. CASE Kill
  BY <1>1, EndTable DEF Kill
<1>2. CASE Restart
  <2>1. \A w \in Workers : task'[w].at = "idle"
    BY <1>2 DEF Restart, TableInv
  <2> QED
    BY <1>2, <2>1 DEF Restart, TableInv, Weighed, OnlyUnknownWordsRace
<1>3. CASE (\E q \in Queries : Forget(q)) \/ (\E c \in late : LateSet(c))
  BY <1>3 DEF Forget, LateSet, TableInv, Weighed, OnlyUnknownWordsRace
<1> QED
  BY <1>1, <1>2, <1>3

\* The table in every behaviour.
THEOREM TableInvariant == Spec => []TableInv
<1>1. Init => TableInv
  BY DEF Init, Idle, TableInv, Weighed, OnlyUnknownWordsRace
<1>2. TypeOK /\ TableInv /\ [Next]_vars => TableInv'
  <2>1. TypeOK /\ TableInv /\ Next => TableInv'
    BY StepTable, OtherTable DEF Next
  <2>2. TableInv /\ UNCHANGED vars => TableInv'
    BY DEF vars, TableInv, Weighed, OnlyUnknownWordsRace
  <2> QED
    BY <2>1, <2>2
<1> QED
  BY <1>1, <1>2, TaskTypes, PTL DEF Spec

\* The look-ups of executeQuery find their words, and only words that the
\* library does not have are raced for (rsssearch.cc:235).
THEOREM RacesForUnknownWords == Spec => []OnlyUnknownWordsRace
<1>1. TableInv => OnlyUnknownWordsRace
  BY DEF TableInv
<1> QED
  BY <1>1, TableInvariant, PTL
-----------------------------------------------------------------------------
(* The answers                                                             *)

\* Commands on their way are those of workers that awaited them, of libraries
\* that there have been.
LateInv == \A c \in late : c.awaited /\ c.answer <= version

\* What Redis has is no older than the answers given.
StoreInv ==
    \A q \in Queries :
        /\ best[q] <= version
        /\ store[q] # Null => best[q] <= store[q] /\ store[q] <= version

\* A worker found nothing or has an answer, which nothing older replaces.
Answering(w) ==
    /\ task[w].at \notin {"idle", "hung"} => task[w].floor <= best[task[w].query]
    /\ task[w].at \in {"weigh", "lookup", "execute", "set"} =>
        store[task[w].query] \in {Null, version}
    /\ task[w].at = "reply" /\ task[w].answer # Null =>
        /\ task[w].floor <= task[w].answer /\ task[w].answer <= version
        /\ store[task[w].query] # Null => task[w].answer <= store[task[w].query]

\* Nothing is an answer yet, or the library just asked has made it.
Pending(w) ==
    /\ task[w].at = "get" => task[w].answer = Null
    /\ task[w].at = "set" => task[w].answer = version

AnswerInv ==
    /\ \A w \in Workers : Pending(w)
    /\ LateInv
    /\ ~overtaken => StoreInv /\ \A w \in Workers : Answering(w)
    /\ AnswersNeverGoBack

LEMMA SentAnswers ==
  ASSUME TypeOK, AnswerInv, NEW w \in Workers, task[w].at = "set"
  PROVE  Sent(w).awaited /\ Sent(w).answer <= version
<1>1. task[w].answer = version /\ version \in Nat
  BY Constants DEF AnswerInv, Pending, TypeOK
<1> QED
  BY <1>1 DEF Sent

LEMMA EndAnswers == TypeOK /\ AnswerInv /\ End => AnswerInv'
<1> SUFFICES ASSUME TypeOK, AnswerInv, End PROVE AnswerInv'
  OBVIOUS
<1>1. \A w \in Workers : task'[w].at = "idle"
  BY DEF End, Idle
<1>3. LateInv'
  BY SentAnswers DEF End, AnswerInv, LateInv
<1>4. StoreInv => StoreInv'
  BY DEF End, StoreInv
<1>5. \A w \in Workers : Answering(w)'
  BY <1>1 DEF Answering
<1> QED
  BY <1>1, <1>3, <1>4, <1>5 DEF AnswerInv, Pending, AnswersNeverGoBack, End

\* If a worker's step leaves Redis and the answers given alone, only what is
\* said of that worker and of the commands on their way has to be shown again.
LEMMA AnswerStep ==
  ASSUME TypeOK, AnswerInv, NEW w \in Workers, Others(w),
         UNCHANGED <<version, store, best, wentBack, overtaken>>,
         LateInv',
         Pending(w)',
         ~overtaken => Answering(w)'
  PROVE  AnswerInv'
<1>1. ASSUME NEW v \in Workers \ {w}, Answering(v) PROVE Answering(v)'
  BY <1>1 DEF Answering, Others
<1>2. StoreInv => StoreInv'
  BY DEF StoreInv
<1>3. \A v \in Workers : Pending(v)'
  BY DEF AnswerInv, Pending, Others
<1> QED
  BY <1>1, <1>2, <1>3 DEF AnswerInv, AnswersNeverGoBack

LEMMA StepAnswers ==
  ASSUME TypeOK, AnswerInv, NEW w \in Workers,
         Step(w) \/ Hang(w) \/ (\E q \in Queries : Ask(w, q))
  PROVE  AnswerInv'
<1>t. task \in [Workers -> Task \union [at : {"idle", "hung"}]]
  BY DEF TypeOK
<1>u. task[w].at \notin {"idle", "hung"} => task[w] \in Task
  BY <1>t
<1>n. version \in Nat /\ \A q \in Queries : store[q] \in Nat /\ best[q] \in Nat
  BY Constants DEF TypeOK, Versions
<1>i. Pending(w) /\ (~overtaken => StoreInv /\ Answering(w))
  BY DEF AnswerInv
<1>l. UNCHANGED <<version, late>> => LateInv'
  BY DEF AnswerInv, LateInv
<1>a. At(w, "set") /\ Abandon(w) /\ UNCHANGED version => LateInv'
  BY SentAnswers DEF At, Abandon, AnswerInv, LateInv
<1>1. ASSUME NEW q \in Queries, Ask(w, q) PROVE AnswerInv'
  <2>1. CASE End
    BY <2>1, EndAnswers
  <2>2. CASE ~End
    <3>1. Others(w) /\ task'[w] = NewTask(q)
      BY <1>1, <2>2, <1>t DEF Ask, Connect, Others
    <3>2. best' = best
      BY <1>1, <2>2 DEF Ask, Connect
    <3>3. Answering(w)'
      BY <3>1, <3>2, <1>n DEF Answering, NewTask
    <3>4. Pending(w)'
      BY <3>1 DEF Pending, NewTask
    <3> QED
      BY <1>1, <2>2, <3>1, <3>3, <3>4, <1>l, AnswerStep DEF Ask, Connect
  <2> QED
    BY <2>1, <2>2
<1>2. CASE GetReply(w)
  <2>1. task[w] \in Task /\ task[w].at = "get" /\ Others(w)
    BY <1>2, <1>u, <1>t DEF GetReply, At, Others
  <2>q. task[w].query \in Queries /\ task[w].floor \in Nat
    BY <2>1 DEF Task, Versions
  <2>2. /\ task'[w].query = task[w].query /\ task'[w].floor = task[w].floor
        /\ \/ task'[w].at = "weigh" /\ store[task[w].query] = Null
           \/ /\ task'[w].at = "reply" /\ store[task[w].query] # Null
              /\ task'[w].answer = store[task[w].query]
           \/ task'[w].at = "reply" /\ task'[w].answer = task[w].answer
    BY <1>2, <2>1, <1>t DEF GetReply, Task
  <2>3. Pending(w)'
    BY <2>2 DEF Pending
  <2>4. ASSUME ~overtaken PROVE Answering(w)'
    <3>1. StoreInv /\ task[w].floor <= best[task[w].query] /\ task[w].answer = Null
      BY <2>1, <2>4, <1>i DEF Answering, Pending
    <3>2. UNCHANGED <<store, best, version>>
      BY <1>2 DEF GetReply
    <3> QED
      BY <3>1, <3>2, <2>2, <2>q, <1>n DEF StoreInv, Answering
  <2> QED
    BY <1>2, <2>1, <2>3, <2>4, <1>l, AnswerStep DEF GetReply
<1>3. CASE LookUp(w) \/ LookedUp(w) \/ ExecuteQuery(w)
  <2>1. task[w] \in Task /\ Others(w)
    BY <1>3, <1>u, <1>t DEF LookUp, LookedUp, ExecuteQuery, Enter, At, Others
  <2>2. /\ task[w].at \in {"weigh", "lookup"}
        /\ task'[w].at \in {"weigh", "lookup", "execute"}
        /\ task'[w].query = task[w].query /\ task'[w].floor = task[w].floor
    BY <1>3, <2>1, <1>t DEF LookUp, LookedUp, ExecuteQuery, Enter, At, Task
  <2>3. UNCHANGED <<version, store, late, best, wentBack, overtaken>>
    BY <1>3 DEF LookUp, LookedUp, ExecuteQuery
  <2>4. Pending(w)' /\ (~overtaken => Answering(w)')
    BY <2>2, <2>3, <1>i DEF Pending, Answering
  <2> QED
    BY <2>1, <2>3, <2>4, <1>l, AnswerStep
<1>4. CASE Executed(w)
  <2>1. CASE End
    BY <2>1, EndAnswers
  <2>2. CASE ~End
    <3>1. task[w] \in Task /\ task[w].at = "execute"
      BY <1>4, <1>u DEF Executed, At
    <3>2. task' = [task EXCEPT ![w] = [task[w] EXCEPT !.at = "set", !.answer = version]]
      BY <1>4, <2>2 DEF Executed, Connect
    <3>3. /\ Others(w) /\ task'[w].at = "set" /\ task'[w].answer = version
          /\ task'[w].query = task[w].query /\ task'[w].floor = task[w].floor
      BY <3>1, <3>2, <1>t DEF Others, Task
    <3>4. UNCHANGED <<version, store, late, best, wentBack, overtaken>>
      BY <1>4, <2>2 DEF Executed, Connect
    <3>5. Pending(w)' /\ (~overtaken => Answering(w)')
      BY <3>1, <3>3, <3>4, <1>i DEF Pending, Answering
    <3> QED
      BY <3>3, <3>4, <3>5, <1>l, AnswerStep
  <2> QED
    BY <2>1, <2>2
<1>5. CASE AwaitSet(w)
  <2>1. task[w] \in Task /\ task[w].at = "set" /\ task[w].answer = version
    BY <1>5, <1>u, <1>i DEF AwaitSet, SetReply, At, Pending
  <2>2. task[w].query \in Queries /\ task[w].floor \in Nat
    BY <2>1 DEF Task, Versions
  <2>3. /\ Others(w) /\ task'[w].at = "reply" /\ task'[w].answer = version
        /\ task'[w].query = task[w].query /\ task'[w].floor = task[w].floor
    BY <1>5, <2>1, <1>t DEF AwaitSet, SetReply, Others, Task
  <2>4. store' = store \/ store' = [store EXCEPT ![task[w].query] = version]
    BY <1>5, <2>1 DEF AwaitSet, SetReply
  <2>5. UNCHANGED <<version, best, wentBack, overtaken>>
    BY <1>5 DEF AwaitSet, SetReply
  <2>l. LateInv'
    BY <1>5, <1>l, <1>a DEF AwaitSet, SetReply
  <2>6. store \in [Queries -> Versions]
    BY DEF TypeOK
  <2>7. \A q \in Queries : store'[q] \in {store[q], version}
    BY <2>4, <2>6
  <2>8. ASSUME ~overtaken, NEW v \in Workers \ {w} PROVE Answering(v)'
    <3>1. Answering(v) /\ StoreInv /\ task'[v] = task[v]
      BY <2>8, <2>3 DEF AnswerInv, Others
    <3>2. task[v].at \notin {"idle", "hung"} => task[v].query \in Queries
      BY <1>t DEF Task
    <3> QED
      BY <3>1, <3>2, <2>5, <2>7, <1>n DEF Answering
  <2>9. ASSUME ~overtaken PROVE Answering(w)'
    <3>1. StoreInv /\ task[w].floor <= best[task[w].query] /\ best[task[w].query] <= version
          /\ store[task[w].query] \in {Null, version}
      BY <2>9, <2>1, <2>2, <1>i DEF Answering, StoreInv
    <3>2. store'[task[w].query] \in {Null, version}
      BY <3>1, <2>2, <2>7
    <3> QED
      BY <3>1, <3>2, <2>2, <2>3, <2>5, <1>n DEF Answering
  <2>10. ~overtaken => StoreInv'
    BY <2>5, <2>7, <1>n, <1>i DEF StoreInv
  <2>11. \A v \in Workers : Pending(v)'
    BY <2>3, <2>5 DEF AnswerInv, Pending, Others
  <2> QED
    BY <2>5, <2>l, <2>8, <2>9, <2>10, <2>11 DEF AnswerInv, AnswersNeverGoBack
<1>6. CASE Reply(w)
  <2>1. task[w] \in Task /\ task[w].at = "reply"
    BY <1>6, <1>u DEF Reply, At
  <2>2. task[w].query \in Queries /\ task[w].answer \in Nat
    BY <2>1, Constants DEF Task, Versions
  <2>3. /\ Others(w) /\ task'[w] = [at |-> "idle"]
        /\ UNCHANGED <<version, store, late, overtaken>>
    BY <1>6, <1>t DEF Reply, Others
  <2>4. best \in [Queries -> Versions]
    BY DEF TypeOK
  <2>5. ASSUME ~overtaken PROVE StoreInv' /\ \A v \in Workers : Answering(v)'
    <3>1. StoreInv /\ Answering(w)
      BY <2>5, <1>i
    <3>2. \A q \in Queries : /\ best'[q] = best[q] \/ (q = task[w].query /\ best'[q] = task[w].answer)
                             /\ best[q] <= best'[q]
      BY <1>6, <2>2, <2>4, <2>5, <1>n DEF Reply
    <3>3. task[w].answer <= version
          /\ (store[task[w].query] # Null => task[w].answer <= store[task[w].query])
      BY <2>1, <2>2, <3>1, <1>n DEF Answering, Null
    <3>4. StoreInv'
      BY <3>1, <3>2, <3>3, <2>2, <2>3, <1>n DEF StoreInv
    <3>5. ASSUME NEW v \in Workers \ {w} PROVE Answering(v)'
      <4>1. Answering(v) /\ task'[v] = task[v]
        BY <2>5, <2>3 DEF AnswerInv, Others
      <4>2. task[v].at \notin {"idle", "hung"} =>
                task[v].query \in Queries /\ task[v].floor \in Nat
        BY <1>t DEF Task, Versions
      <4>3. \A q \in Queries : best'[q] \in Nat
        BY <3>2, <2>2, <1>n
      <4> QED
        BY <4>1, <4>2, <4>3, <3>2, <2>3, <1>n DEF Answering
    <3>6. Answering(w)'
      BY <2>3 DEF Answering
    <3> QED
      BY <3>4, <3>5, <3>6
  <2>6. ~wentBack'
    <3>1. ~wentBack
      BY DEF AnswerInv, AnswersNeverGoBack
    <3>2. task[w].floor \in Nat
      BY <2>1 DEF Task, Versions
    <3>3. ~overtaken /\ task[w].answer # Null => ~(task[w].answer < task[w].floor)
      BY <3>2, <2>1, <2>2, <1>i DEF Answering
    <3> QED
      BY <1>6, <3>1, <3>3 DEF Reply
  <2>7. \A v \in Workers : Pending(v)'
    BY <2>3 DEF AnswerInv, Pending, Others
  <2> QED
    BY <2>3, <2>5, <2>6, <2>7 DEF AnswerInv, LateInv, AnswersNeverGoBack
<1>7. CASE Hang(w)
  <2>1. Others(w) /\ task'[w].at = "hung"
    BY <1>7, <1>t DEF Hang, Others
  <2>2. Pending(w)' /\ Answering(w)'
    BY <2>1 DEF Pending, Answering
  <2> QED
    BY <1>7, <1>l, <1>a, <2>1, <2>2, AnswerStep DEF Hang
<1> QED
  BY <1>1, <1>2, <1>3, <1>4, <1>5, <1>6, <1>7 DEF Step

LEMMA OtherAnswers ==
  ASSUME TypeOK, TableInv, AnswerInv,
         Kill \/ Restart \/ (\E q \in Queries : Forget(q)) \/ (\E c \in late : LateSet(c))
  PROVE  AnswerInv'
<1>n. version \in Nat /\ \A q \in Queries : store[q] \in Nat /\ best[q] \in Nat
  BY Constants DEF TypeOK, Versions
<1>s. store \in [Queries -> Versions]
  BY DEF TypeOK
<1>q. \A w \in Workers : task[w].at \notin {"idle", "hung"} =>
        task[w].query \in Queries /\ task[w].answer \in Nat
  BY Constants DEF TypeOK, Task, Versions
<1>1. CASE Kill
  BY <1>1, EndAnswers DEF Kill
<1>2. CASE Restart
  <2>1. \A w \in Workers : task'[w].at = "idle"
    BY <1>2 DEF Restart, TableInv
  <2>2. version' \in Nat /\ version <= version'
    BY <1>2, <1>n DEF Restart
  <2>3. LateInv'
    <3>1. \A c \in late : c.answer \in Nat
      BY Constants DEF TypeOK, Command, Versions
    <3> QED
      BY <1>2, <2>2, <3>1, <1>n DEF Restart, AnswerInv, LateInv
  <2>4. StoreInv => StoreInv'
    BY <1>2, <2>2, <1>n DEF Restart, StoreInv
  <2> QED
    BY <1>2, <2>1, <2>3, <2>4 DEF Restart, AnswerInv, Pending, Answering, AnswersNeverGoBack
<1>3. ASSUME NEW q \in Queries, Forget(q) PROVE AnswerInv'
  <2>1. \A p \in Queries : store'[p] \in {store[p], Null}
    BY <1>3, <1>s DEF Forget
  <2>2. UNCHANGED <<version, task, late, best, wentBack, overtaken>>
    BY <1>3 DEF Forget
  <2>3. StoreInv => StoreInv'
    BY <2>1, <2>2 DEF StoreInv
  <2>4. ASSUME NEW w \in Workers, Answering(w) PROVE Answering(w)'
    BY <2>1, <2>2, <2>4, <1>q DEF Answering
  <2> QED
    BY <2>2, <2>3, <2>4 DEF AnswerInv, LateInv, Pending, AnswersNeverGoBack
<1>4. ASSUME NEW c \in late, LateSet(c) PROVE AnswerInv'
  <2>1. c.awaited /\ c.answer <= version
    BY DEF AnswerInv, LateInv
  <2>2. late' \subseteq late /\ UNCHANGED <<version, task, wentBack>>
    BY <1>4 DEF LateSet
  <2>3. ASSUME ~overtaken' PROVE StoreInv' /\ \A w \in Workers : Answering(w)'
    <3>1. ~overtaken /\ c.answer = version /\ best' = best
      BY <1>4, <2>1, <2>3 DEF LateSet, Overtaken
    <3>2. \A p \in Queries : store'[p] \in {store[p], version}
      BY <1>4, <3>1, <1>s DEF LateSet
    <3>3. StoreInv'
      BY <2>2, <3>1, <3>2, <1>n DEF AnswerInv, StoreInv
    <3>4. ASSUME NEW w \in Workers PROVE Answering(w)'
      <4>1. Answering(w)
        BY <3>1 DEF AnswerInv
      <4> QED
        BY <2>2, <3>1, <3>2, <4>1, <1>q, <1>n DEF Answering
    <3> QED
      BY <3>3, <3>4
  <2> QED
    BY <2>2, <2>3 DEF AnswerInv, LateInv, Pending, AnswersNeverGoBack
<1> QED
  BY <1>1, <1>2, <1>3, <1>4

\* No answer is of an older library than an answer that was given before its
\* question (rsssearch.cc:102-107).
THEOREM NeverBack == Spec => []AnswersNeverGoBack
<1>1. Init => AnswerInv
  <2> SUFFICES ASSUME Init PROVE AnswerInv
    OBVIOUS
  <2>1. \A w \in Workers : Pending(w) /\ Answering(w)
    BY DEF Init, Idle, Pending, Answering
  <2>2. StoreInv /\ LateInv
    BY DEF Init, StoreInv, LateInv, Null
  <2> QED
    BY <2>1, <2>2 DEF Init, AnswerInv, AnswersNeverGoBack
<1>2. TypeOK /\ TableInv /\ AnswerInv /\ [Next]_vars => AnswerInv'
  <2>1. TypeOK /\ TableInv /\ AnswerInv /\ Next => AnswerInv'
    BY StepAnswers, OtherAnswers DEF Next
  <2>2. AnswerInv /\ UNCHANGED vars => AnswerInv'
    BY DEF vars, AnswerInv, Pending, LateInv, StoreInv, Answering, AnswersNeverGoBack
  <2> QED
    BY <2>1, <2>2
<1>3. AnswerInv => AnswersNeverGoBack
  BY DEF AnswerInv
<1> QED
  BY <1>1, <1>2, <1>3, TaskTypes, TableInvariant, PTL DEF Spec
=============================================================================
