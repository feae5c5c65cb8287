# RSSearch, specified

TLA+ specifications of the search engine in `src/src`: what its threads,
connections, caches, timer and queries do, and what becomes of the library
between its builder and the engine, model-checked with TLC on small instances;
and the safety properties of pool, server, query loop, worker's task, caches, timer
and socket streams proved with TLAPS for every instance.

RSSearch is two programs. `createlib` (`preparation/`) reads RSS files, drops
near-duplicates and dumps a page library, an offset library and an inverted
index. `searchengined` loads them and answers queries over TCP: one thread runs
an epoll loop and owns the connections, a pool of computing threads answers the
requests, a timer thread merges and saves caches.

1. [Inventory](#1-inventory)
2. [Modules and how they follow the code](#2-modules-and-how-they-follow-the-code)
3. [Runs, bounds, what they show](#3-runs-bounds-what-they-show)
4. [Where code and comments disagree](#4-where-code-and-comments-disagree)
5. [Fairness](#5-fairness)
6. [Proofs](#6-proofs)
7. [Abstractions and what is left out](#7-abstractions-and-what-is-left-out)
8. [Plan](#8-plan)

To run: `tlc -config MCThreadpool.cfg MCThreadpool` (likewise for the other cfg
files, each names the module it begins with), `tlapm ThreadpoolProofs.tla`.

## 1. Inventory

Paths are under `src/src`. "Right when" is what the component has to keep.

### Components

| component | state | operations | hard about it | right when |
|---|---|---|---|---|
| thread pool (`bo_threadpool/taskqueue`, `threadpool`) | `_que`, `_flag`, `_isExit`, mutex, two conditions, threads | `start`, `addTask`, `getTask`, `stop`, `threadFunc`; `push`, `pop`, `wakeUp`, `full`, `empty` | `wakeUp`, `empty` in `stop` and both bools work without the mutex; one signal per push and pop | each task runs once, first come first taken; the queue stays within its size; nobody sleeps beside work; `stop` drains, and returns |
| wrappers (`mutexlock`, `condition`, `thread`) | pthread objects, `_isLocking`, `_isRunning` | lock, wait, notify, start, join | spurious wakeups | as POSIX says |
| reactor (`net/epollpoller`) | `_eventsList`, `_connMap`, `_pendingFunctors`, `_eventfd`'s counter, `_isLooping` | `loop`, `waitEpollfd`, `handleConnection`, `handleMessage`, `handleRead`, `runInLoop`, `doPendingFunctors`, `wakeup` | other threads push functors at any point; descriptors are reused | a functor never lies without a wakeup; functors run once and in order; the assertions on `_connMap` hold |
| connection (`net/tcpconnection`) | `_sockfd`, callbacks, `_isShutdownWrite` | `receive`, `send`, `sendInLoop`, `shutdown` | kept by `shared_ptr`s in `_connMap` and in tasks, used by functors through a raw pointer | no task or functor uses it after its end |
| search server (`rsssearchserver`) | the parts above | `start`, `onConnection`, `onMessage`, `doTask`, `onClose` | the reactor waits for the workers in `addTask`, the workers need the reactor for their answers | each request of a client that stays is answered, to that client, once |
| query evaluation (`rsssearch`) | `_pageLib`, `_offsetLib`, `_invertIndexTable` | `loadLibrary`, `doQuery`, `executeQuery`, `makeJson`, `noAnswer` | one iterator for each word, an exit by counting | iterators stay inside; what is returned contains all words; nothing of the intersection is lost |
| LRU cache (`cache/lrucache`) | `_hashMap`, `_lruList`, `_capacity` | `setLRUCache`, `getLRUCache`, `update`, copy, `initFromFile`, `dumpToFile` | a list and iterators into it, changed together | list and map agree; the least recently used goes first |
| cache manager (`cache/cachemanager`) | `_cacheMap`, the file | `initCache`, `getCache`, `periodicUpdateCaches` | the process may end during a dump; merges evict | caches alike after a round; a restart finds what was saved |
| timer (`timer/`) | timerfd, `_isStarted` | `start`, `stop`, `handleRead` | `stop` closes what `start` polls, without a lock | it calls back again and again; after `stop` once more at most; `stop` returns |
| socket I/O (`net/socketio`) | none | `readLine`, `writeN`, `readN` | fragments, `EINTR`, `EAGAIN`, end of stream, a peer that is gone | requests are lines, buffers or what had come; who waits gets answers whole |
| sockets, acceptor, TCP server (`net/`) | descriptors | bind, listen, accept, options | failures end the process | |
| web page (`webpage`) | the fields of a page, its top words (never read) | `processDoc`, `summary`, `statistic`, `calcTopK` | fields are found by searching for tags | title, link and summary are those of the item |
| configuration | a map, stop words | `init`, getters | missing keys | |
| word segmentation | cppjieba | `cut` | | |
| library builder (`preparation/rssreader`) | articles, three files | parse, deduplicate, dump | three files that belong together, written one by one; an empty corpus | what `loadLibrary` reads fits together; no two pages are alike |
| main program (`searchengined.cc`) | | | | |
| Redis through cpp_redis (external) | an answer for each query | GET, SET | outlives the process; no timeout | an answer is never older than one given before |
| external | tinyxml2, jsoncpp, cppjieba, simhash, boost | | | |

### Interactions

- A request: kernel → `handleMessage` → `onMessage` → `Threadpool::addTask`
  (which blocks the reactor's thread while the queue is full) → a worker's
  `doTask` → Redis, or `doQuery` → `TcpConnection::sendInLoop` →
  `EpollPoller::runInLoop` → `_eventfd` → `handleRead` → `doPendingFunctors` →
  `TcpConnection::send`.
- The task holds a `shared_ptr` to the connection; the functor only its `this`.
- The timer's thread calls `periodicUpdateCaches`. The calls by which workers
  would use the caches are commented out (`rsssearch.cc:74-90`,
  `rsssearchserver.cc:91-98`); Redis took their place.
- Workers share `_invertIndexTable`; `operator[]` on an unknown word inserts
  into it without a lock.
- Workers share Redis with one another and with the processes before and after
  theirs.
- `createlib` and `searchengined` share only the three files.

The hazards in `PROJECT.json` list the places at which this goes wrong easily,
each with the properties that look after it or the reason why none does.

## 2. Modules and how they follow the code

| module | models | grain |
|---|---|---|
| `TaskService` | what callers of the pool may rely on: bounded, first come first begun, closed when all is done | (abstract) |
| `TaskQueue` | `taskqueue.cc` on the pthread wrappers | one action for each stretch between two points where another thread can act |
| `Threadpool` | `threadpool.cc`; EXTENDS `TaskQueue`; implements `TaskService` | |
| `EpollPoller` | `epollpoller.cc`, `tcpconnection.cc`, and the kernel's side | one action for each handler, two for `runInLoop` |
| `RssSearchServer` | `rsssearchserver.cc`; EXTENDS `EpollPoller`, INSTANCEs `TaskService` in the pool's place | |
| `ExecuteQuery` | `RssSearch::executeQuery` | one action for each turn of a loop |
| `DoTask` | `doTask` and `doQuery` around the merge: Redis, the shared table, a process that ends | one action for each call that another worker or Redis can come between |
| `SocketIO` | `socketio.cc` and its callers, for one connection | one action for each turn of a loop |
| `LRUCache` | `lrucache.cc` as operators on values | |
| `CacheManager` | `cachemanager.cc` with file and process; EXTENDS `LRUCache` | one action for each turn of a loop |
| `Timer` | `timer.cc`, `timerthread.cc`, and the descriptor's life in the kernel | one action for each system call or access of `_isStarted` |
| `WebPage` | `webpage.cc` and the page's text in `RssReader::dump`, as operators | |
| `Library` | `rssreader.cc`, `createlib.cc` and `loadLibrary`; EXTENDS `WebPage` | one action for each piece that reaches the disk, and each file read |
| `MC...` | constants and symmetry for TLC | |
| `...Proofs` | theorems, each module EXTENDS the one it is named after, and `TLAPS` | |

The server does not carry the pool's mutexes: it uses the abstract service, and
`Threadpool` is shown to implement that service (runs `pool_safety`,
`pool_liveness`, theorem `Refinement`).

**TaskQueue, Threadpool.** `que`, `flag`, `isExit` are the fields; `mutex` is the
holder; `notFull` and `notEmpty` are the wait sets; `pc[t]` is where thread `t`
stands in `push`, `pop`, `threadFunc` or `stop`; `elem[t]` is the argument of its
push or the result of its pop. `PushLock`..`PushAppend`, `PopLock`..`PopNull`,
`WakeUpFlag`, `WakeUpNotifyAll` follow the statements. What is done under the
mutex is one step unless `wakeUp`, which ignores the mutex, can fall in between:
hence `pop` is split at both of its reads of `_flag` and before its wait.
`added`, `done`, `late`, `spurious` are history variables or bounds.

**EpollPoller, RssSearchServer.** `io` is where the reactor's thread is; `events`
is what `epoll_wait` returned and the loop has not reached; `count` is the
eventfd; `pending` and `batch` are `_pendingFunctors` before and after the swap;
`connMap[f]` is `_connMap`; `fd[c]` is the `_sockfd` of client `c`'s
`TcpConnection` as long as that object exists. The object exists while `_connMap`
or a queued or running task refers to it. `RunFunctor` on a connection that is
gone is undefined behaviour: the process may die, the answer may vanish, or reach
whoever has that memory or descriptor now. A write to a client that has left may
raise SIGPIPE, which nothing ignores.

**ExecuteQuery.** `postings[i]` is the posting list of word `i`; `iterVec[i]` its
iterator's position and its count of steps. `Sizes` is the first loop,
`Match` and `Advance` are the branches of the second, `NoAnswer` and `Return` the
two returns.

**LRUCache, CacheManager.** A cache is a record of the list and the keys of the
map. `initFromFile` reads what `dumpToFile` wrote line by line, not entry by
entry: data of several lines (the program's own answers are styled JSON) comes
back as several entries. `Lines` says what an entry turns into.

**DoTask.** `task[w]` is where worker `w` is between the calls of `doTask` and
`doQuery`. `Ask` is the connection and GET, `GetReply` what `get.get()` returns
(an answer, nil, or an error, whose text is sent like an answer), `LookUp` and
`LookedUp` one turn of `getQueryWordsWeightVector` with its `operator[]`,
`ExecuteQuery` the second round of look-ups, `Executed` the second client,
`SetReply` the `sync_commit` of SET, `Reply` the `sendInLoop`. An answer is the
number of the library that it was computed from. Two look-ups at a time of which
one inserts are a data race, after which nothing is said (`undefined`). `End` is
the end of the process, by an exception of `connect` or from outside. A SET command
whose worker got no reply, because the process ended, the connection was lost (an error
reply) or Redis hung, may be done at any later time, or never (`late`).

**SocketIO.** `received` is the client's stream so far and `taken` how much of it
`read` has removed; `start` is where the buffer of `receive` begins in it, so the
buffer is `start + 1 .. taken`. `TakeLine`, `TakeSeen`, `WouldBlock` and
`EndOfStream` are the ways a turn of `readLine` can go, and `MakeRequest` is what
`receive` and `onMessage` make of the result. `BeginSend` and `Write` are `send`
and the turns of `writeN`; `room` is what the socket takes.

**Timer.** `thread` and `owner` are where `Timer::start` and `TimerThread::stop`
are. `timefd` is what the number `_timefd` means: the timer, nothing after the
close, or the socket of a connection accepted since; it is `none` for the -1 of a
failed `timerfd_create`, which the constructor only reports and which `poll` ignores, so
that it times out. `PollFails` is the error return of `poll`, after which the thread is
`failed`. `armed` and `expired` are the timerfd's.

**WebPage, Library.** A text is a sequence of words and tags. `runs[n]` is what
the `n`th run of `createlib` read, which determines what it writes; a file on
`disk` is a run and the part of its content that was written. `Fatal` runs end
before they open a file. `pageLib` is `_pageLib`, each page as the pieces of
`pagelib` that `substr` cut for it; `index` is `_invertIndexTable`.

## 3. Runs, bounds, what they show

| run | instance | distinct states | shows |
|---|---|---|---|
| `pool_safety` | 3 workers, queue of 2, 5 tasks, 2 spurious wakeups | 26 thousand | `NoPopFromEmpty`, `NoStrandedTask`, `ExactlyOnce`, `DrainedOnStop`, `OnlyLateSleepers`, and the abstract service |
| `pool_liveness` | 2 workers, queue of 1, 3 tasks | 5 thousand | `EveryTaskRuns`; `StopReturns` unless a worker missed the broadcast; the fair abstract service |
| `server_safety` | 3 clients, 2 descriptors, 2 workers, 2 requests | 400 thousand | `NoLostFunctor`, `FunctorsInOrder`, `ConnMapAgrees`, `TaskKeepsConnection`, `HarmOnlyFromEarlyLeave`, `AnswersToAsker` |
| `server_liveness` | 2 clients, 1 worker, task queue of 1, 3 requests | 243 thousand | `RequestAnswered` |
| `query_merge` | up to 3 words, every choice of lists over 5 documents | 172 thousand | `IteratorsInside`, `AnswersAreCommonPrefix`, `Returns` |
| `query_intersection` | up to 2 words, 5 documents | | `MakesIntersection` is false |
| `cache_rounds` | 3 threads, 3 keys, caches of 2, 3 uses between starts | 245 thousand | `MapMatchesList`, `KeepsMostRecent`, `CachesAgree`, `NothingForgotten`, `StartKeepsOrder` |
| `cache_copy` | 1 thread, 2 keys | | `CopyIsDuplicate` is false |
| `timer` | one timer, one owner, one other file | 265 | `OneLateCallback`, `BlocksOnlyInStop`, `StopReturns`, `Fires` |
| `socket_io` | 5 bytes in 6 kinds of segments, a buffer of 2, answers of 2, room for one | 217 thousand | `RequestsAreLines`, `OnlyHastyClientsHarm`, `PatientIsServed`, `BytesAreTaken` |
| `library` | 2 runs over 5 corpora of up to 4 items | 414 thousand | `TypeOK`, `ServesWholeLibrary`, `InterruptedRunIsSafe`, `PagesAreDistinct`, `FoundPagesAreShown` |
| `do_task` | 2 workers, 2 queries, 2 libraries, 1 late SET | 379 thousand | `AnswersNeverGoBack`, `OnlyUnknownWordsRace`, `EveryTaskEnds` |

Why these bounds:

- Pool: two workers suffice for one to overtake the signal given to another; the
  third leaves one asleep meanwhile. Five tasks fill a queue of two while all
  three workers are busy, so the owner sleeps in `push`.
- Server: with more clients than descriptors `accept` can fail and a
  descriptor is used again while a task of its former connection is under way;
  two tasks put two functors in one batch or one on each side of the swap. The
  list of events begins with one entry, so that it fills and doubles.
- Answers: the hazard is a reactor that waits in `addTask` while nobody takes from
  the queue, as every worker has an answer to hand to that reactor. This needs one
  request more than workers and queue hold, hence three for one worker in
  `server_liveness`, with the events of another client and of the eventfd before the
  reactor meanwhile. If the worker needed a mutex that the reactor keeps in its
  callbacks (`PushFunctorLocked`), the run fails; with two requests it would not. A
  second worker would need a fourth request, which with both clients is too many states
  for a liveness property; functors of two workers meet in `server_safety`.
- Query: with lists of up to five documents the shortest one ends before, at and
  after the exit test of the others; three words give three-way ties and a middle
  iterator. The proofs (section 6) lift this bound.
- Caches: three keys in caches of two evict in uses, merges and copies; the third
  cache meets keys that the second one's merge brought or evicted. A dump can be
  cut off after 0, 1 or 2 entries, and a file of two answers is read as four
  lines into a cache of two.
- Timer: the specification is finite as it stands. `timerfd_create` may fail, and
  `poll` at any call.
- Streams: a buffer of two against segments of up to four bytes gives lines that
  fit, that fill the buffer, that overrun it and that come in two parts; a second
  answer meets a full socket, or one with room for its first half. The proofs lift
  this bound.
- Library: a second run overwrites the first at every stage, with pages of other
  sizes, and the engine loads at every stage of both; one corpus has fingerprints
  near one another in a chain, one a tag in a title, one an empty element, one no
  complete item.
- Tasks: the second library has a word of the second query that the first lacks, so
  words are known, unknown, and known only after a restart; one late SET suffices to
  go back. The proofs lift the numbers.

Every property of a passing run also fails on a faulty variant of the code that
is written beside the action (`NotifyNobody`, `WakeupIfWaiting`,
`HandleCloseFrees`, `AdvanceLargest`, `setForgetsKey`, `AfterIndexEarly`, ...). The variants are
not part of any `Next`.

What the runs say about the program, beyond "it holds":

- **`stop` may hang.** `wakeUp` clears `_flag` and broadcasts without the mutex. A
  worker that has read `_flag` as true and not yet gone to sleep misses the only
  broadcast, and `join` waits for it for ever. `OnlyLateSleepers` and
  `StopReturns` say that this is the only way: every other stop returns.
- **An early leave is dangerous.** A client that closes its connection before its
  answer is sent can make `sendInLoop`'s functor run on a freed `TcpConnection`.
  `HarmOnlyFromEarlyLeave` says that no other client can.
- **The blocking `addTask` is safe** for answers: `runInLoop` never waits for the
  reactor, so a full queue drains even when all workers are about to answer
  (`RequestAnswered`).
- **A query may lose answers**, see the next section; what is returned is exactly
  the documents that stand among the first `minIterNum` entries of every list
  (`AnswersAreCommonPrefix`), `minIterNum` being the length of the shortest.
- **A stopped timer calls back once more**, or reads from a connection that got its
  descriptor's number, once. Its `stop` may hang in two ways, and `StopReturns`
  says that there is no third: it came before the thread had set `_isStarted`, or
  disarmed the timer between `poll` and the blocking `read`.
- **A timer may die in silence.** An error of `poll` other than `EINTR` ends its thread
  with `_isStarted` still set, and a descriptor that `timerfd_create` could not make is
  polled for ever without a callback. `Fires` says that until a stop there is no third
  way to miss a callback; `StopReturns` covers a stop of such a timer too.
- **A request is a line only if it arrives in one piece.** `RequestsAreLines` says
  what else it can be: as much as the buffer holds, or what had arrived. A client that
  closes in the middle of a line, or sends a zero first, makes `onMessage` call
  `pop_back` on an empty string. `OnlyHastyClientsHarm` says that a client that waits
  for its answers does nothing of this kind, and `PatientIsServed` that it gets them
  whole.
- **An interrupted first `createlib` is harmless** (`InterruptedRunIsSafe`), if it was
  killed or could not open a file: the
  order pages, offsets, index, and the engine's stop at the first missing file keep
  it so. Over an older library, or while the engine loads, it is not: the engine
  then serves pages cut at the offsets of others, or dies.
- **Redis may answer from an old library**, but never from an older one than it has
  answered from before (`AnswersNeverGoBack`), unless a SET without a reply (its process
  was killed, its connection was lost, or Redis hung) is done after another library was
  loaded.
- **Unknown words race.** A query with a word that the library lacks inserts into the
  table that other workers read. `OnlyUnknownWordsRace` says that known words never do,
  and that `executeQuery`'s own look-ups insert nothing.
- **The order in a cache turns round** with each copy, load and merge. Start turns
  it twice and so keeps it (`StartKeepsOrder`).

## 4. Where code and comments disagree

- `rsssearch.cc:288` says `make intersection`. The loop below ends as soon as *any*
  iterator has made as many steps as the shortest list has entries. With the lists
  `<2>` and `<1, 2>` the second iterator steps over document 1 and the loop ends:
  the result is empty although document 2 contains both words. Run
  `query_intersection`.
- `lrucache.cc:23` says `duplicate a LRU cache`. The copy constructor sets the
  entries front to back, each before the former, so the copy has them in the
  opposite order, and evicts first what was used last. Run `cache_copy`. Making
  the copy alone keep the order would turn the order round at every restart.

## 5. Fairness

- Pool: weak fairness of each worker's step and of the steps of a call the owner is
  inside. The kernel schedules every runnable thread. A waiter for the mutex gets it:
  the lock is only held for a few statements, and with finitely many tasks the other
  threads cannot take it for ever. Nobody has to call `addTask` or `stop`, and
  no spurious wakeup is owed.
- Server: weak fairness of the reactor's step, of the steps of each worker inside a
  task, and of *some* worker beginning a waiting task, which is the fairness of
  `TaskService` that `ImplementsFairService` shows of the pool. Clients owe nothing.
  `doTask` is taken to end there, which is `EveryTaskEnds` of `DoTask`.
- Tasks: weak fairness of each worker's step. Redis need not reply: `Hang` may come
  instead at any wait, as there is no timeout, and the task then never ends;
  `EveryTaskEnds` names that case. The process need not start again, and Redis need
  not forget or do what is late.
- Streams: weak fairness of the reactor's reads and of its writes: `epoll_wait` is
  level-triggered and reports a socket as long as it has bytes. The client need
  not read, write or close.
- Timer: weak fairness of the thread's step, of a begun stop, and of the expiration
  of an armed timer. `poll` has a timeout of five seconds, and no fairness makes it
  fail. Nobody has to stop the timer.
- Query: weak fairness of the next step: a function that was called runs on.
- Caches and library: no liveness is stated; nothing in the code owes a further round
  or run.

## 6. Proofs

All are of the form `Spec => []P` or `Spec => A!Spec`, for all constants that satisfy
the named assumptions (`ThreadpoolAssumption`, `ServerAssumption`,
`QueryAssumption`, `CacheAssumption`, `ManagerAssumption`, `BoundsAssumption`, `WordsAssumption`, `SegmentsAssumption`,
`SizesAssumption`, `CorporaAssumption`, `NumberAssumption`, `NearAssumption`,
`MaxRunsAssumption`; the timer has no constants), which TLC evaluates in every run.

**ThreadpoolProofs**: `TypeCorrect`, `NeverPopsFromEmpty`, `NeverOverfull`,
`NobodySleepsInVain`, `NoTaskLostOrTwice`, `SleepersMissedBroadcast`,
`StopDrains`, `Refinement`. The inductive invariant joins four parts. `Base`:
the types, the mutex held by exactly the thread that is inside a locked region,
who carries which task, and `NoPopFromEmpty`, which survives the unprotected
second read of `_flag` because `_flag` only goes from true to false: a worker
let through by an unempty queue holds the mutex until it has taken the front,
and one let through by a cleared `_flag` will not look at the queue. `Phases`:
how `_flag`, `_isExit`, the empty queue and the departed workers go with the
steps of `start` and `stop`. `Sleepers`: a sleeper stands in the wait of its
condition, a worker about to sleep leaves an empty queue (without this
`NoStrandedTask` is not inductive), `QueueBounded` and `OnlyLateSleepers`. And
`ExactlyOnce`. `Refinement` maps each step to one of `TaskService` or to a
stutter: `PushAppend` is Accept, `PopTake` is Begin, `RunTask` is Finish.

**RssSearchServerProofs**: `FunctorNeverLost`, `FunctorsRunInOrder`, `AssertionsHold`,
`ConnectionsOutliveTasks`, `ServerTypes`, `HarmComesFromLeaving`, `AnswersFindAsker`.
The invariant joins `Net` (types, `ConnMapAgrees`, the backlog has different clients
without a connection, and what `epoll_wait` reported stays true until its turn comes,
which is why no handler meets an entry of `_connMap` that an earlier one removed),
`TaskInv` (the queue holds the latest tasks in order, the workers earlier and different
ones, and each has its entry in `asked`), `FunctorInv` and `TaskKeepsConnection`. They
hold for any number of clients, workers, descriptors and requests. On top of it each
request is followed on its way (`Way`): sent and in the client's inbox, read and in
`asked` (`Asked`), given to the reactor by a worker that ends (`Handed`), run as a
functor and received (`Answered`). It is at each station once, and a client that left in
time has all its answers, so a functor that finds no connection belongs to one that left
early (`Harmless`). `Connected` says that a client with neither a connection nor a place
in the backlog has left: this is what makes an answer's way end at its asker.

**ExecuteQueryProofs**: `QueryTypes`, `StaysInside`, `AnswersContainWords`,
`AnswersInOrder`, `AnswersExactly`, for lists of any length and any number of
words. The invariant `Merge` says that an iterator has made as many steps as its
position shows, and no more than the shortest list has entries (`Positions`),
that what was found is behind every iterator (`FoundIsPassed`), and that a
document of all lists that *one* iterator has left behind was found
(`PassedIsFound`). That an ascending list needs comparing only neighbours is an
induction over naturals; it is obtained from the well-foundedness of strict
subsets (`LeastNatural`), since theorems with an operator parameter cannot be
instantiated with the provers at hand.

**TimerProofs**: `TimerTypes`, `AtMostOneLate`, `NeverBlocksRunning`. The invariant
says how the thread, the owner and the descriptor go together (`Descriptor`): what the
number means, made or not, changes only after `_isStarted` was cleared, and a callback or a foreign
read that begins then leads straight to the test that ends the loop (`OnceLate`).

**SocketIOProofs**: `StreamTypes`, `EveryRequestALine`, `AwaitingIsHarmless`,
`PatientHasWholeAnswers`, for any segments, sizes and streams. `Lines` says that the
buffer begins where the last request ended and holds no newline; `Harm` that a client
which closed at rest leaves nothing to read or write; `Served` that a patient client's
line is in the socket, in the buffer, in the pool, or in `writeN`, one at a time, with
room for the answer.

**DoTaskProofs**: `TaskTypes`, `RacesForUnknownWords`, `NeverBack`, for any number of
workers, queries and libraries and any words. `TableInv`: the words a task has
weighed are in the table, which never shrinks, so only the weighing inserts.
`AnswerInv`: what Redis has for a query is no older than the best answer given
(`StoreInv`), a worker that computes found nothing there or something of its own
library, and an answer about to be sent is no newer than what Redis has
(`Answering`); all this until a late SET overtakes a new library.

**CacheManagerProofs**: `MapsMatch`, `RoundMakesAlike`, `RoundKeepsKeys`,
`LastUsedAreKept`, `StartsInOrder`, for caches of any size and number and files of any content. `Effect` says what one `setLRUCache`
does: the entry comes to the front, those before its node move one back, and a key is
forgotten only if the list is full then. `AllEffect` says the same of a whole list set
entry by entry, and `Update` of a cache merged into another: the other's entries stand
in front in reverse. `Round` follows the keys a round began with: all in the first
cache or in one still to come, then all in the first, unless it is full; a merge of
such a first cache leaves nothing else in the others (`SpreadAlike`). `SetAll` and
`FlattenSeq` are recursive functions; that their values exist, and keep what one step
keeps, is shown by a least counterexample (`LeastNatural`), as for the query.

`LastUsedAreKept` compares each cache with `recent`, every key it has ever been given
with its latest data and none forgotten, the last used first: the cache is the first
`Capacity` entries of it (`FirstOf`). The heart is `UsedInFront`: to use an entry and
then keep the first ones is the same as to keep the first ones and call `setLRUCache`.
If the key is among them, both take it from its place; if it is further back or new,
`recent` moves what was last of the kept ones just out, and the cache evicts just that.
`UsedAllWay` carries this over a merge, and `EmptyRecent` over a copy, which is a merge
into an empty cache. `StartsInOrder` follows: a load and a copy are two reversals
(`DuplicateReverses`).

**LibraryProofs**: `LibraryTypes`, `WholeLibraryIsServed`, `InterruptedRunsAreSafe`,
`ServedPagesAreDistinct`, `FoundPagesAreComplete`, for any items and texts, any
reflexive and symmetric nearness and any number of runs. The invariant says of the
files, on the disk and as they were loaded, that of two that are of one run the one
`dump` writes first is whole (`Ordered`). For this to be kept it must be known what a
run has behind and before it (`Building`): the file it is at is of this run once it is
open, no later one is, and the earlier ones are whole or, where they did not open, of
another run. `Loading` says that undisturbed, `pageLib` and `index` are a function of
the loaded files (`Cut`, `Postings`), and that the engine ends only if these are of
different runs. With whole pages each line of the offsets cuts out exactly its page
(`WholePages`), since the ends of pages ascend (`Ends`, `PiecesInside`); a posting
without a page is of a run whose offsets are not there (`MissingPage`).
`Deduplication` shows what the loop over the articles leaves: pages that are not near
each other, and one near each article. `TakenApart` shows that the text of a page is
taken apart as it was put together: as no field has a tag in it, each tag is found where
it was written, and `summary` finds a line for each word of the content (`OnlyIs`).

Only model-checked:

- everything under fairness (`EveryTaskRuns`, `StopReturns` of pool and timer,
  `ImplementsFairService`, `RequestAnswered`, `Returns`, `Fires`, `BytesAreTaken`,
  `EveryTaskEnds`): TLAPS handles neither ENABLED nor fairness here.

Functions that recurse over a sequence (`Only`, `deduplication`, `Offset`, `SetAll`) are
`CHOOSE`s to the provers. That they exist is `Recursion`, and what each step keeps holds
of the result by `UpTo`, both from `LeastNatural`. `CacheManagerProofs` and
`LibraryProofs` have these three of their own, as neither is about the other's module.

## 7. Abstractions and what is left out

- `_flag`, `_isExit` and `_isStarted` are plain bools read by other threads without a
  lock. A read returns the value before or after the write; the calls between two
  reads keep the compiler from holding one in a register. `empty()` without the
  mutex in `stop` reads the size of a `std::queue` as one step.
- A timeout of `epoll_wait` and `EINTR` change nothing and are stuttering steps.
- `unloop` is never called before `loop` returns, so the loop has no exit and the
  server's `stop` does not occur. The pool's own `stop` is modelled in full, and so is
  the timer's, which nothing in the program calls.
- In `RssSearchServer` an answer is named by its request and a request arrives whole:
  what Redis or `doQuery` says is in `DoTask`, fragments are in `SocketIO`. The greeting
  that `onConnection` sends is left out: it is sent by the reactor itself before any
  answer, and to an empty socket.
- `HandleConnectionFails` ends the process, as `addEpollReadFd` does.
- `ExecuteQuery` leaves out the weights. Posting lists ascend by docId because they
  are `std::set`s; docIds are numbers of pages in one file and stay below
  `0x7FFFFFFF`, so `iterIdx` is always set.
- `DoTask` takes the segmentation of a query as given (`Words`), and leaves out the
  weights and the order of the answer. One connection at a time is enough: `client`
  is a local variable. That a GET sees the SETs done before it is Redis' promise.
- In `SocketIO` an answer is its length. The order in which tasks end is free.
- In `Timer` the clock is `Expire`, and an expiration missed by a slow thread is
  merged with the next, as `read` of a timerfd does. `EINTR` leads back to the test of
  the loop, as a time-out does, and is the same step.
- `Library` takes items as tinyxml2 delivers them and fingerprints as numbers; `Near`
  need only be reflexive and symmetric. A stream hands its bytes on in order, in as
  many pieces as the item's `size`; the words of the index in any order, a posting at
  a time, its weight left out; a line of the offsets whole (`std::endl`). What
  `substr` and `WebPage` make of a page that was cut or mixed is anything or an
  exception. Writes to an open file succeed: `dump`, `dumpOffset` and `dumpInvert` check
  only that the file opened (`rssreader.cc:52`, `181`), so a full disk would leave a
  short file in a run that goes on, with offsets of -1 after it, of which
  `InterruptedRunIsSafe` says nothing. `summary` takes a word of the content for a piece of it. The number of a
  page is none of the tags (`NumberAssumption`); `int2str` writes digits.
- `CacheManager` takes uses of the caches between rounds only. In the program as it
  is there are none, and no lock would order them. A file that cannot be opened
  for reading counts as empty; one that cannot be opened for writing keeps its content. An entry
  reaches the file whole (`std::endl` flushes after each); one longer than the stream's
  buffer could be cut. `operator=` of `LRUCache`, which keeps the entries of
  its target, is called by nothing.
- Printing is left out everywhere.

### Not modelled

- The configuration: a map filled from one file before any thread starts. A missing key
  gives an uninitialised number, of which nothing can be stated.
- The segmentation wrapper, `processWords`, and the numbers of the weights: they decide
  which words a query has and how answers are sorted, not what happens to them.
- `statistic` and `calcTopK` of a page: nothing reads their result.
- The main program and the start of the TCP server: straight-line code of single
  system calls.
- Third-party code: tinyxml2, jsoncpp, cppjieba, simhash, boost, cpp_redis and Redis,
  but for what `DoTask` assumes of the last two.

## 8. Plan

Order: what decides whether answers arrive came first (pool, reactor, server), then
what decides which answers (query), the caches, and then what is around them (task,
streams, timer, library). What is left, by value:

| module | models | properties |
|---|---|---|
| `DoQuery` | stop words dropped, weights as ranks, stable sort, first 20, `noAnswer` | the answer is `noAnswer`, or its pages hold all words, best first |

An abstract specification still worth stating is an atomic library (the files change
all at once, or the reader refuses): the code implements it only for a first run and
an engine started after it, which is what `ServesWholeLibrary` and
`InterruptedRunIsSafe` say directly.
