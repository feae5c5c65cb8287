------------------------------- MODULE DoTask -------------------------------
(***************************************************************************)
(* What a worker does with a query: RssSearchServer::doTask and            *)
(* RssSearch::doQuery, with the table of words that the workers share and  *)
(* the Redis server that outlives the process.  ExecuteQuery has the merge *)
(* itself; here an answer is the library that it was made from.            *)
(*                                                                         *)
(* cpp_redis throws if it cannot connect, which ends the process; it turns *)
(* a lost connection into an error reply, whose text as_string returns     *)
(* like any other; and it waits without a timeout.                         *)
(***************************************************************************)
EXTENDS Naturals, FiniteSets

CONSTANTS
    Workers,
    Queries,
    Words,       \* the words of a query that are no stop words
    Lexicon,     \* the words in the index of each library
    MaxVersion,  \* bound: how many libraries there are
    MaxLate      \* bound: how many commands are done after their worker gave up

ASSUME BoundsAssumption == MaxVersion \in Nat \ {0} /\ MaxLate \in Nat

Vocabulary == UNION {Words[q] : q \in Queries}

ASSUME WordsAssumption ==
    /\ DOMAIN Words = Queries
    /\ Lexicon \in [1 .. MaxVersion -> SUBSET Vocabulary]

Null == 0   \* no entry in Redis; as an answer, the text of an error

VARIABLES
    process,    \* "up", "down", or "undefined" after a data race
    version,    \* the library that it has loaded
    table,      \* the words in _invertIndexTable
    task,       \* what each worker does
    store,      \* what Redis has for each query
    late,       \* SET commands on their way that nobody waits for any more
    overtaken,  \* history: a late SET was done under a later library
    best,       \* history: the newest library a query was answered from, and
    wentBack    \* whether an answer was of an older one than an answer that was
                \* there before its question; both until a SET was overtaken

vars == <<process, version, table, task, store, late, best, wentBack, overtaken>>

\* at: where the worker is; todo: words still to weigh; word: the one it looks
\* up; answer: what doTask sends; floor: history, best when the task began.
NewTask(q) == [at |-> "get", query |-> q, todo |-> {}, word |-> {}, answer |-> Null, floor |-> best[q]]

Idle == [w \in Workers |-> [at |-> "idle"]]

Init ==
    /\ process = "up"
    /\ version = 1
    /\ table = Lexicon[1]
    /\ task = Idle
    /\ store = [q \in Queries |-> Null]
    /\ late = {}
    /\ best = [q \in Queries |-> 0]
    /\ wentBack = FALSE
    /\ overtaken = FALSE
-----------------------------------------------------------------------------
At(w, place) == process = "up" /\ task[w].at = place

\* The SET of a worker.  awaited: the worker gives its answer to nobody before
\* it has a reply to the command, or an error instead.
Sent(w) == [query |-> task[w].query, answer |-> task[w].answer, awaited |-> TRUE]

\* A command that got no reply is lost, or is done later.
Abandon(w) ==
    /\ late' \in {late, late \union {Sent(w)}}
    /\ Cardinality(late') <= MaxLate

\* The process ends, and some of the SET commands it has sent are still on
\* their way.
End ==
    /\ process' = "down"
    /\ task' = Idle
    /\ late' \in SUBSET (late \union {Sent(w) : w \in {v \in Workers : task[v].at = "set"}})
    /\ Cardinality(late') <= MaxLate
    /\ UNCHANGED <<version, table, store, best, wentBack, overtaken>>

\* client.connect, in doTask and again in doQuery, throws or not.
Connect(w, place) ==
    \/ End
    \/ /\ task' = [task EXCEPT ![w] = place]
       /\ UNCHANGED <<process, version, table, store, late, best, wentBack, overtaken>>

Ask(w, q) == At(w, "idle") /\ Connect(w, NewTask(q))

\* sync_commit; without it the command would not be sent.
NotCommitted == FALSE
Committed == TRUE

\* The reply to GET: what is stored, nil, or an error.
GetReply(w) ==
    /\ At(w, "get") /\ Committed
    /\ LET q == task[w].query IN
       \/ /\ store[q] = Null
          /\ task' = [task EXCEPT ![w].at = "weigh", ![w].todo = Words[q]]
       \/ /\ store[q] # Null
          /\ task' = [task EXCEPT ![w].at = "reply", ![w].answer = store[q]]
       \/ task' = [task EXCEPT ![w].at = "reply"]
    /\ UNCHANGED <<process, version, table, store, late, best, wentBack, overtaken>>
-----------------------------------------------------------------------------
(* doQuery: the table has no lock.  A worker that looks up a word which is *)
(* not there inserts it, which no other may meet.                          *)

Inserting(v) == task[v].at = "lookup" /\ ~(task[v].word \subseteq table)
InTable(v) == task[v].at \in {"lookup", "execute"}

\* Worker w comes to the table, to insert a word or only to read.
Enter(w, inserts, place) ==
    IF \E v \in Workers \ {w} : Inserting(v) \/ (InTable(v) /\ inserts)
    THEN process' = "undefined" /\ UNCHANGED task
    ELSE process' = process /\ task' = place

\* getQueryWordsWeightVector takes the number of documents with each word.
LookUp(w) ==
    /\ At(w, "weigh")
    /\ \E x \in task[w].todo :
        Enter(w, x \notin table, [task EXCEPT ![w].at = "lookup", ![w].word = {x}])
    /\ UNCHANGED <<version, table, store, late, best, wentBack, overtaken>>

\* operator[], which leaves the word there; the faulty variant uses find.
OnlyFound(words) == table
WithInserted(words) == table \union words

LookedUp(w) ==
    /\ At(w, "lookup")
    /\ table' = WithInserted(task[w].word)
    /\ task' = [task EXCEPT ![w].at = "weigh", ![w].todo = @ \ task[w].word, ![w].word = {}]
    /\ UNCHANGED <<process, version, store, late, best, wentBack, overtaken>>

\* executeQuery looks the words up once more.
ExecuteQuery(w) ==
    /\ At(w, "weigh") /\ task[w].todo = {}
    /\ Enter(w, ~(Words[task[w].query] \subseteq table), [task EXCEPT ![w].at = "execute"])
    /\ UNCHANGED <<version, table, store, late, best, wentBack, overtaken>>

\* makeJson or noAnswer, and the second client.
Executed(w) ==
    /\ At(w, "execute")
    /\ Connect(w, [task[w] EXCEPT !.at = "set", !.answer = version])

\* The reply to SET, which is OK, or the error that stands for a connection
\* lost before the reply; doQuery does not look at it.
SetReply(w) ==
    /\ At(w, "set")
    /\ task' = [task EXCEPT ![w].at = "reply"]
    /\ \/ store' = [store EXCEPT ![task[w].query] = task[w].answer] /\ UNCHANGED late
       \/ Abandon(w) /\ UNCHANGED store
    /\ UNCHANGED <<process, version, table, best, wentBack, overtaken>>

\* Faulty variant: SET without sync_commit, which is done some time later.
AwaitNothing(w) ==
    /\ At(w, "set")
    /\ task' = [task EXCEPT ![w].at = "reply"]
    /\ late' = late \union {[query |-> task[w].query, answer |-> task[w].answer, awaited |-> FALSE]}
    /\ UNCHANGED <<process, version, table, store, best, wentBack, overtaken>>

AwaitSet(w) == SetReply(w)

\* sendInLoop
Reply(w) ==
    /\ At(w, "reply")
    /\ task' = [task EXCEPT ![w] = [at |-> "idle"]]
    /\ LET q == task[w].query  a == task[w].answer IN
       /\ best' = [best EXCEPT ![q] = IF a > @ /\ ~overtaken THEN a ELSE @]
       /\ wentBack' = (wentBack \/ (a # Null /\ a < task[w].floor /\ ~overtaken))
    /\ UNCHANGED <<process, version, table, store, late, overtaken>>
-----------------------------------------------------------------------------
(* The process ends and starts again, maybe with a new library; Redis      *)
(* hangs, and forgets; a late SET comes through.                           *)

Kill ==
    /\ process # "down"
    /\ End

Restart ==
    /\ process = "down"
    /\ process' = "up"
    /\ version' \in {v \in 1 .. MaxVersion : v \in {version, version + 1}}
    /\ table' = Lexicon[version']
    /\ UNCHANGED <<task, store, late, best, wentBack, overtaken>>

\* No reply comes: the worker waits for ever.
Hang(w) ==
    /\ \/ At(w, "get") /\ UNCHANGED late
       \/ At(w, "set") /\ Abandon(w)
    /\ task' = [task EXCEPT ![w] = [at |-> "hung"]]
    /\ UNCHANGED <<process, version, table, store, best, wentBack, overtaken>>

Forget(q) ==
    /\ store[q] # Null
    /\ store' = [store EXCEPT ![q] = Null]
    /\ UNCHANGED <<process, version, table, task, late, best, wentBack, overtaken>>

\* A SET that its worker awaited, done when another library has been loaded.
Overtaken(c) == c.awaited /\ c.answer # version

LateSet(c) ==
    /\ store' = [store EXCEPT ![c.query] = c.answer]
    /\ late' = late \ {c}
    /\ overtaken' = (overtaken \/ Overtaken(c))
    /\ best' = IF Overtaken(c) THEN [q \in Queries |-> 0] ELSE best
    /\ UNCHANGED <<process, version, table, task, wentBack>>

Step(w) ==
    \/ GetReply(w)
    \/ LookUp(w) \/ LookedUp(w) \/ ExecuteQuery(w) \/ Executed(w)
    \/ AwaitSet(w) \/ Reply(w)

Next ==
    \/ \E w \in Workers : Step(w) \/ Hang(w) \/ (\E q \in Queries : Ask(w, q))
    \/ Kill \/ Restart
    \/ \E q \in Queries : Forget(q)
    \/ \E c \in late : LateSet(c)

Spec == Init /\ [][Next]_vars

\* The threads are scheduled, and a Redis that does not hang replies.
FairSpec == Spec /\ \A w \in Workers : WF_vars(Step(w))
-----------------------------------------------------------------------------
Versions == 0 .. MaxVersion
Command == [query : Queries, answer : Versions, awaited : BOOLEAN]
Task == [at : {"get", "weigh", "lookup", "execute", "set", "reply"}, query : Queries,
         todo : SUBSET Vocabulary, word : SUBSET Vocabulary, answer : Versions, floor : Versions]

TypeOK ==
    /\ process \in {"up", "down", "undefined"}
    /\ version \in 1 .. MaxVersion /\ table \subseteq Vocabulary
    /\ task \in [Workers -> Task \union [at : {"idle", "hung"}]]
    /\ store \in [Queries -> Versions] /\ best \in [Queries -> Versions]
    /\ late \subseteq Command
    /\ wentBack \in BOOLEAN /\ overtaken \in BOOLEAN

\* The answers to a query never go back to an older library, although Redis
\* keeps them from one process to the next, unless a SET comes through when a
\* newer library has been loaded whose worker was killed while it waited, or had
\* an error or no reply at all (rsssearch.cc:102-107).
AnswersNeverGoBack == ~wentBack

\* The table is only written while words are weighed (rsssearch.cc:235): the
\* look-ups of executeQuery find every word there, and queries all of whose
\* words the library has never race, with whichever they run.
OnlyUnknownWordsRace ==
    /\ \A w \in Workers : task[w].at = "execute" => Words[task[w].query] \subseteq table
    /\ process = "undefined" =>
        \E w \in Workers : task[w].at \in {"weigh", "lookup"} /\ ~(Words[task[w].query] \subseteq Lexicon[version])

\* Every task ends, as long as Redis does not hang and the process lives.
EveryTaskEnds ==
    \A w \in Workers :
        task[w].at # "idle" ~> task[w].at \in {"idle", "hung"} \/ process # "up"
=============================================================================
