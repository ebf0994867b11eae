# A verification project for izenelib

izenelib is a C++ library of access methods, information retrieval and
utilities. Most of it is sequential data structures and vendored code. Three
parts have state that several threads change and rules that are hard to test,
and these are modelled:

* the **index manager** (`ir/index_manager`), a file based inverted index with a
  background merge thread: how it runs (`IndexMerge`, `BTPolicy`, `DocIndex`) and
  what it keeps on disk over stops and crashes (`BarrelStore`);
* the **distributed SF1R driver** (`net/sf1r`), which routes requests to servers
  registered in ZooKeeper through pools of connections (`ZooKeeperRouter`);
* the **scheduler** of periodic jobs and its timers (`util/scheduler.cpp`,
  `util/timer.cpp`), which the driver uses (`JobScheduler`).

TLC checks the models and TLAPS proves parts of them. Paths below are relative
to `src/`. `index/` stands for `source/ir/index_manager/index/`.

## 1. Inventory

### The index manager

| Part | State | Operations |
|---|---|---|
| `Indexer` (`index/Indexer.cpp`) | `dirty_`, `indexMutex_`, `mutex_` | insert, update, remove, flush, optimize, close, `getIndexReader`, `setDirty` |
| `IndexWriter` | `pCurBarrelInfo_`, the barrel being filled | `indexDocument`, `removeDocument`, `flush`, `optimizeIndex`, `close` |
| `BarrelsInfo`, `BarrelInfo` | list of barrels; per barrel its document range, count, "in memory" (`pBarrelWriter`), `searchable`, `isRemoved_` | `addBarrel`, `removeBarrel`, `sort`, `deleteDocument`, `updateMaxDoc` |
| `IndexMergeManager` | task queue, merge thread, pause flag | `addToMerge`, `optimizeIndex`, `pauseMerge`, `resumeMerge`, `waitForMergeFinish`, destructor |
| `IndexMerger` | `triggerMerge_`, the queue being merged | `addToMerge`, `mergeBarrels`, `mergeBarrel`, `updateBarrels` |
| `BTPolicy`, `OptimizePolicy` | layers of barrels and their sizes | `addBarrel`, `triggerMerge`, `combineLayer`, `endMerge` |
| `IndexReader` | the open barrel readers, the filter of deleted documents | `reopen`, `getTermReader`, `delDocument`, `delDocFilter`, `flush` |

How they interact: callers go through `Indexer`, whose `indexMutex_` serialises
insert, update, remove, flush and optimize. `IndexWriter::flush()` writes the
current barrel to disk, makes it searchable, reopens the reader and hands the
barrel to `IndexMergeManager`. The merge thread takes tasks from a queue; the
*add merger* asks `BTPolicy` what to merge, an *optimizing merger* merges
everything that is on disk. Merging reads the old barrels without a lock, then
replaces them by the new one in one critical section. Searching threads reopen
the reader whenever it is dirty. Other threads pause and resume merging or wait
for it to finish.

What makes it correct: a document is in exactly one barrel; a removed document
stays removed; counts and `maxDocId()` are right; the mergers never open files
that are gone; readers do not stay on barrels that are gone; nothing is removed
while merging is paused; every blocking call returns.

What is hard: the document filter, the list of barrels, the dirty flag and the
pause flag have four different mutexes, and operations hold them one after the
other. `hazards` in `PROJECT.json` lists the places, with the property for each.

What is on disk: the files of every barrel (`<name>.fdi` and others), the file
`barrels` with the list of barrels and the counter of names, the saved document
filter, and in real-time mode a binlog of the documents of the barrel in memory.
`IndexWriter::flush()` and the merge thread write them in several steps;
`BarrelsInfo::sort()` gives all barrels new names. What makes it correct: a barrel
finds its own files, a stopped index finds every flushed document again, and a
crash does not lose documents without anybody noticing.

### The distributed driver

| Part | State | Operations |
|---|---|---|
| `Sf1DistributedDriver`, `Releaser` | the connections a call holds | `call`: dispatch to one node or broadcast to all |
| `ZooKeeperRouter` | topology and backup topology, `pools`, `waiting_update_path_`; `shared_mutex`, `condition` | `getConnection(s)`, `releaseConnection`, `addSf1Node`, `removeSf1Node`, `updateNodeData`, `clearSf1Nodes`, `updateNodeDataOnTimer`, destructor |
| `ConnectionPool` | `available`, `reserved`, `size` | `acquire`, `release`, `isBusy`, destructor |
| `RawClient` | `status`: Idle, Busy, Invalid | `sendRequest`, `getResponse` |
| `Sf1Watcher` | - | events of the ZooKeeper client |

Callers take connections under the read lock, use them without a lock and give
them back under the write lock. The event thread adds, updates, removes and
clears nodes; a caller removes a node that it cannot reach and that is not
registered any more; a timer applies deferred updates. A node whose pool is in
use is removed by waiting on a condition variable, with the lock given up. What
makes it correct: nobody loses a connection, or its pool, while using it; the
assertions on the status of connections do not abort the process; pools count
right; node and pool go together; waiting removals end; changed data arrives.

### The scheduler

`SchedulerImpl` keeps a map of jobs under a mutex; a `ScheduleOP` owns a `Timer`,
whose `TimerThread` holds a `shared_ptr` to the job in its callback. Callers add
jobs, run one immediately, remove one (waiting for the timer or not) or all. What
makes it correct: a job does not run twice at a time; after `removeJob(wait)` the
timer does not fire; no timer thread destroys the object it runs in; calls
return.

## 2. Modules

| Module | What it is |
|---|---|
| `BTPolicy` | state and steps of the merge policy |
| `BarrelMerge` | `BTPolicy` driven sequentially: flushes of given sizes, merges, deletions |
| `DocIndex` | abstract specification: the index as a set of documents |
| `IndexMerge` | the running index manager, composed with `BTPolicy`; refines `DocIndex` |
| `BarrelStore` | barrel names and files, the file `barrels`, the binlog; stops, crashes, opening |
| `ZooKeeperRouter` | router, pools, callers, event thread, timer, owner |
| `JobScheduler` | scheduler, callers, timer threads |
| `IndexMergeProofs` | theorems about `IndexMerge` |
| `IndexReaderProofs` | theorems about what a search sees of `IndexMerge` |
| `BarrelMergeProofs` | theorems about `BarrelMerge` |
| `BarrelStoreProofs` | theorems about `BarrelStore` |
| `DataFacts` | lemmas about naturals, sequences and sums that the proofs share |
| `ZooKeeperRouterProofs` | theorems about `ZooKeeperRouter` |
| `JobSchedulerProofs` | theorems about `JobScheduler` |
| `IndexRefinementProofs` | the proofs that `IndexMerge` implements `DocIndex` and counts its documents |

### IndexMerge and the code

A step of `IndexMerge` is one critical section of the code, or a stretch that
touches nothing another thread can see. Each thread has a program counter:

* `wpc` is whoever holds `indexMutex_`. `InsertDocument` ... `InsertAddDocument`
  are `IndexWriter::indexDocument()`; `RemoveTestFilter`, `RemoveCountDown` and
  `RemoveSetBit` are the unlocked test of the filter, the count under
  `BarrelsInfo::mutex_` and the bit under `docFilterMutex_`; `Flush` ...
  `FlushDocFilter` are `Indexer::flush(true)`; `OptimizeIndex`, `OptimizePush`
  and `OptimizeReturn` are `optimizeIndex()` with its final spin; `Close`,
  `CloseLock` and `CloseJoin` are `Indexer::close()`.
* `mpc` is the merge thread: `PopAdd`, `PopOptimize` and `PopExit` take a task;
  `AddToPolicy`, `PolicyStep` and `PolicyMerge` are the add merger;
  `OptimizeOpen` ... `OptimizeReopen` are `optimizeIndexImpl()`; both share
  `OutputNewBarrel`, `CreateCheckPause`, `CreateNewBarrelInfo`,
  `UpdateBarrelsSort` and `UpdateBarrelsSetDirty`. Without `isAsync_` the same
  steps are taken while the indexing thread waits for `mpc = "pop"`.
* `qpc` is a thread in `waitForMergeFinish()`; `PauseMerge`, `ResumeMerge`,
  `SearchGetIndexReader` and `SearchGetTermReader` are single steps of others.

`docFilterMutex_`, `pauseMergeMutex_` and `mergeThreadMutex_` are variables
because they are held over several steps; `Indexer::mutex_` and
`BarrelsInfo::mutex_` are released within a step.

Abstractions. A document is its id; a barrel holds a set of ids, so merging
postings is union, minus the filter for the optimizing merger. Ids are handed
out in increasing order, as the callers do (`updateDocument` inserts a new id
and removes the old one). Only one collection is modelled. A barrel is an index
into the history of `BarrelInfo` objects, which the code keeps in
`rubbishBarrelInfos` until close. File and barrel names, the file `barrels` and
the binlog are in `BarrelStore`; document lengths and the B-tree index are left
out; `Init` is a new, empty index. A full cache in real time mode may happen at any document but
the first of a barrel. The tail of `Indexer::flush()` (`setDirty`, saving the
filter) runs after `indexMutex_` is released; one indexing caller is assumed,
so that nothing else overlaps it on that side. `getIndexReader()` and
`createBarrelReader()` are single steps: `Indexer::mutex_` orders them against
merges, and a barrel added while they run is read as if it came earlier or later.

`Usage` names liberties of callers: removing a document before it is flushed
(`removeUnflushed`), removing it twice (`removeAgain`), and closing while
merging is paused (`closePaused`). The runs turn on those they are about.

### BTPolicy and the code

`addBarrel`, `combineLayer` and `getLevel` translate the functions of that name.
The loop of `triggerMerge()` over upper levels is `CombineUpper`/`StartPass`, its
pass over all layers `PassLayer`/`EndPass`; they are steps because documents may
be removed, and the counts change, while the policy runs. The recursion
`triggerMerge` -> `mergeBarrel` -> `addBarrel` is a loop here: the call in
`mergeBarrel()` is the last thing that touches the policy. `getLevel` counts the
powers of `LevelBase` up to the size, which is what the C++ loop returns as long
as its `int` does not overflow (below 3^19 documents).

### BarrelStore and the code

`files` maps the names that exist on disk to the documents of the barrel; `list`
is the file `barrels`, `Torn` from `createOutput()` until it is written; `binlog`
is the set of documents in the binlog. `wpc` is the thread with `indexMutex_`, and
`next` what it does after `IndexWriter::flush()`: return, `deletebinlog()` (full
cache), `optimizeIndex()` or `close()`. `mpc` is the merge thread. `lock` is
`BarrelsInfo::mutex_`, which `removeBarrel()`/`addBarrel()`, `sort()` and `write()`
hold over several steps, so that a crash (`Kill`, possible in every state) finds
the files in every intermediate state. `sort` ... `SortDone` rename one barrel
per step, to a temporary and then to the final name, and stop at a name that
exists (`FSDirectory::renameFile()` throws). `open` is what
`setIndexManagerConfig()` finds: `BarrelsInfo::read()`,
`tryResumeExistingBarrels()` and `checkBinlog()`.

Abstractions. A `BarrelInfo` is identified by its base document id, which no two
share. The files of a barrel change together: one that lacks some cannot be
opened, as `.fdi` comes last. Which barrels the policy merges is any choice
(`BTPolicy` says which). Removed documents are not followed (`IndexMerge` does).
Merging runs in its own thread; without one, it is the schedule in which the task
is done at once. `acked` is history: the documents of flushes that have returned.
`flush()` of a real-time index is `flush(false)`; an owner that closes has flushed
(`Saved`), as the tests do: `IndexWriter::close()` does not write a barrel in
memory, so a batch index that is closed unflushed loses those documents, and a
real-time one finds them in the binlog only if the barrel was ever listed.

### ZooKeeperRouter and the code

The threads are the callers, `"watcher"` (the ZooKeeper client's event thread),
`"timer"` and `"owner"`; `pc` says in which function each is, `path` and `todo`
hold its node and what is left of its loop. `shared_mutex` is `writer`,
`upgrader` and `readers`; it is held across steps only by `removeNodeFromPools()`,
whose wait is `RemovePool`, `asleep` and `Relock`, by `getConnections()`, which
acquires one connection per step, and by `addSf1Node()`. That one looks for the
node and reads its data under the upgrade lock (`addSf1Node`), which lets readers
in, and adds node and pool once the lock is exclusive (`addNode`). All else under
one lock is one step. `TakeEvent` delivers
the oldest event and includes the first half of `updateNodeData()`, under the
read lock; `updateNodeData` is the second, under the write lock. The nodes are
those a router may know; `Backup` are the ones that go to the backup topology. A
connection is a slot `<<n, i>>` of the pool of node `n`.

Abstractions. A node's data is a number, and `State` what of it (service state,
collections) makes an update immediate. Collections are left out: a request can
go to every node of the topology in use. `RoundRobinPolicy` picks any of them;
its counters of slow nodes only change which. `acquire()` may fail to connect at
any time. Sending and receiving succeed or fail, by what they do to the status of
the connection. An error of the network makes it `Invalid`. The constant `Faults`
adds what else can happen: `"exception"`, any other exception (no memory for the
response, an empty response, something thrown while reading), which leaves it
`Busy`; `"deadline"`, a deadline that expires just when what it bounds completes,
so that `check_deadline()`, run by any thread of the shared `io_service`, makes the
connection `Invalid` under a caller that requires it to be busy. A `CHECK` that
fails aborts the process: all threads are `"aborted"`. ZooKeeper delivers every
change in order (the code sets its watches again whenever it reads). `reconnect()`
and `reloadTopology()` are both `clearSf1Nodes()` and `loadTopology()`. Two places
where C++ leaves the behaviour undefined end in `"undefined"`: `addConnection()`
at a node without a pool, and a release without a reserved connection; the
theorems show that the second is never reached. `Init` is a router that has loaded
all registered nodes.

### JobScheduler and the code

`jobs`, `mutex`, `running`, `immediatly`, `stop` are the fields of those names;
`callback` says whether `callback_` still refers to the job. `cpc`, `job` and
`wait` are a caller's position, the job its `shared_ptr` refers to and the
argument of `removeJob()`; `tpc` is the timer thread. `Removals` says how jobs are
removed: `"wait"` and `"nowait"` are the two forms of `removeJob()`, `"all"` is
`removeAllJobs()`. Time passes at any speed:
a timer that waits may fire at any moment. `Reset` is `callback_ = NULL`: without another
reference the thread destroys its own timer, under `mutex_` (then it waits for
itself in `~TimerThread()`, `"stuck"`) or not (`"destroyed"`). Callbacks end and do
not call the scheduler, as `include/util/timer.h` asks ("Be sure that signal
handler never be blocked"). `waited` is history: jobs that `removeJob()` has
waited for.

## 3. Runs

Passing:

* `index_async` (1.6 million states): 3 documents, one optimization, a collision
  factor of 2 so that two flushed barrels already trigger a merge.
  Three documents are the least with which a merge, a merge of its result and a
  barrel that escapes an optimization occur together. Checks `TypeOK`,
  `DocsInOneBarrel`, `MergerHoldsLiveBarrels`, `NumDocsExact`, `MaxDocCovers`,
  `ReaderCoherent`, and that the system implements `DocIndex` (`IsDocIndex`).
  With `MaxPause = 1` it has 4.4 million states and shows nothing more.
* `index_realtime` (260 thousand states): real time mode with 2 documents,
  flushes of a full cache and a pause included, under fairness:
  `ReaderCoherent`, `NoRemovalWhilePaused`, `IsDocIndex` and the liveness
  properties `OptimizeReturns`, `WaitReturns` and `CloseReturns`.
* `bt_policy` (206 thousand states): the code's own collision factor 3 and base
  3, seven flushes of 1, 3 or 9 documents and one deletion at any moment, enough
  for cascades over three levels. `NoLayerFull`, `LayersPartitionBarrels`,
  `LevelSizeAccounts`. The run stops when the flushes are used up, hence
  `CHECK_DEADLOCK FALSE`.

* `store` (550 thousand states): four documents, three openings, batch and
  real-time, a crash at any step; optimizing in batch mode. Four documents are the
  least for which three barrels are sorted while a fourth is in memory. `TypeOK`,
  `FilesMatch`, `StopKeepsDocs`, `CrashNoticed`.
* `scheduler` (96 thousand states): two callers, two names, two jobs, one-shot and
  periodic, removed in any way: enough for two callers and a timer to meet at one
  job while a second job's timer runs, and for one name to be used again.
  `TypeOK`, `OneAtATime`, `NoCallbackAfterWait`, and under fairness `CallsReturn`
  and `RemovedRunsOut`.
* `zk_router` (350 thousand states): two callers, two nodes, pools of one
  connection, one call each and two changes in ZooKeeper, every interleaving with
  the timer and the owner, and all `Faults`. A broadcast holds two connections and
  can leak one. Two changes remove a node and register it again, or change its data
  and remove it. `TypeOK`, `ConnectionsOwned`, `SizeExact`, `NodeLeavesWithPool` and,
  under fairness, `RemovalReturns`, which allows for a leaked connection: that does
  block a removal for ever.
* `zk_data` (305 thousand states): one caller with two calls, one node, three
  versions of the data (two of them with the same state, so that an update is
  deferred) and three changes, enough to delete a node, create it again and change
  its data, or to clear the topology while the timer loads it. No `Faults`.
  `AssertionsHold`, `NodeLeavesWithPool` and, under fairness, `DataCatchesUp`. The
  second call may get a connection that the first one gave back. `Threshold` is 3
  for the code's 100.

In the other passing runs deadlock is checked: a closed index, a stopped store
and a closed router stutter, nothing else stops.

Fairness. `WF` of the steps of the indexing thread, of the merger and of the
waiting thread: a thread that can run does run, and the code's mutexes and
condition variables hand over as long as their holder goes on. `WF(ResumeMerge)`:
whoever pauses merging resumes it. Nothing is assumed of callers (they may stop
calling), of searching threads or of pauses. In `JobScheduler` the callers that
are inside a call and the timer threads go on, in particular every callback
ends; in `ZooKeeperRouter` every caller inside a call, the event thread, the timer
and an owner that is destroying the router go on. Weak fairness suffices there
because the number of calls is bounded: with endless calls a removal could
starve behind ever new connections.

Violations, each a disagreement between the code and its comments:

* `scheduler_nowait`: `include/util/timer.h` says that `~Timer()` blocks until the
  timer's thread is over. After `removeJob()` without waiting, its default, the
  timer thread has the last reference to its job and destroys, with it, the
  `TimerThread` it runs in: it waits for its own mutex for ever, or goes on in an
  object that is gone. `DestructionWaits` forbids both; a theorem shows that it
  holds if every removal waits.
* `index_resurrect`: with a merge thread, `optimizeIndex()` returns at once if
  there is at most one barrel, with the task still queued. A document inserted
  then is in memory; if it is removed before it is flushed, the optimization
  skips its barrel and then clears the whole document filter, so the document
  comes back. Clearing only the bits of merged barrels would avoid it.
* `index_close_paused`: the destructor wakes the paused merge thread and does
  not clear `isPauseMerge_`; the thread waits again and the join never returns.
* `bt_overlap`: with nine flushes the pass of `triggerMerge()` leaves a barrel
  inside the range of the merged one, because the range grows after that
  barrel's layer was passed. `BarrelsInfo::deleteDocument()` may then count down
  the wrong barrel.

* `store_realtime`: `optimizeIndex()` on a real-time index flushes its barrel and
  deletes the binlog, but leaves the barrel marked as real-time (only the path of
  a full cache clears the mark). If it is the only barrel nothing is merged, and
  the next start takes it for the barrel in memory, to be filled from a binlog
  that is gone: the documents are not found.

Each property of a passing run has a mutant in `PROJECT.json`: a "Faulty variant"
definition in the module, with which TLC finds the property violated.

Seen while modelling and not among the runs: with `removeAgain`, a document
removed again after an optimization is counted down twice; without a merge
thread but with an add merger, an optimization leaves stale barrels in the
policy (`PopOptimize` renews the add merger, the synchronous path does not).

In the store: a crash between `sort()` and the end of `write()` leaves a list with
the names of other barrels; the index then opens and misses documents, which is
why `CrashNoticed` leaves that window out. `flush(true)` on a real-time index, and
a crash between a flush and `deletebinlog()`, bring documents in twice. After a
crash, files that no list names make a later rename fail ("already exist").

In the driver: `broadcastRequest()` stops at the first failure, and
`getConnections()` throws, with connections reserved that nobody releases;
`clearSf1Nodes()` deletes pools one by one and empties the topology at the end, so
a broadcast in between dereferences `pools.end()`, and a node registered in
between is forgotten while its pool stays; an `updateNodeData()` that waited can
put a removed node back without a pool (`getConnection()` then throws).
`addSf1Node()` reads a node's data before it has the exclusive lock; an event that
is handled in between finds the node absent and is lost, so that the older data,
or a node that has been deleted, is added and stays until the next change. (TLC
finds this if `DataCatchesUp` is asked for every difference between topology and
ZooKeeper; it is stated for changes that are notified once the node is known.)
`release()` keeps a connection that is `Busy`, as an exception other than an error
of the network leaves it (`RawClient.cpp:325`, `341`, `355`); the next
`sendRequest()` on it, or its destruction, fails a `CHECK` and aborts the process,
and so does a deadline that expires at the wrong moment (lines `279`, `292`): with
either fault in `Faults`, TLC finds `AssertionsHold` violated. No comment promises
otherwise, so these are not among the violation runs.

In the scheduler: `removeAllJobs()` stops jobs without waiting too;
`runJobImmediatly()` may run a job after `removeJob(wait)` returned.

## 4. Proofs

For every value of the constants (any number of documents, levels,
optimizations and pauses, batch or real time, any `Usage`):

* `TypeCorrect`: `Spec => []TypeOK`. The types are inductive once it is added
  where the indexing thread has a current barrel, an id left and a document to
  remove, and where the merger has an entry (`Typing`).
* `EachDocInOneBarrel`: `Spec => []DocsInOneBarrel`, and `MergerSafe`:
  `Spec => []MergerHoldsLiveBarrels`, both assuming `IsAsync \/ ~UseAddMerger`,
  the configurations in which an optimization starts with an empty policy.

Neither invariant is inductive. `IndexInv` strengthens them by five parts.
`BarrelInv`: no barrel is listed twice, a barrel in memory is in the index, and
the current barrel is in memory exactly until it is written. `DocInv`: ids not
yet given are in no barrel. `LayerInv`: layers are disjoint, hold barrels of the
index on disk, and are empty while an optimization runs. `HandoverInv`: a barrel
is on its way to the policy in one place only, as the current barrel, in one
task, as the merger's entry, or in a layer; this is what keeps a barrel from
being merged twice. `MergerInv`: what the merger merges is a layer of the policy
or a snapshot of the barrels on disk, and what it has written comes from there.
`IndexInvStep` shows that every action keeps it, one step per action; TLC checked
the invariant on the runs before it was proved.

The lemmas below it are about the operators of the model: `Min` and `Max` of sets
of naturals (`LeastNatural`, `MinOfNaturals`, `MaxOfNaturals`), the level of a
size, combining layers, what `createNewBarrelInfo()` and `sort()` leave in the
index (`ReplacedBarrels`, `SortTypes`). Those about naturals and sequences are in
`DataFacts`; `LeastNatural`, from which the others of its kind follow, comes from
the well-foundedness of the initial segments under inclusion.

`PausedKeepsBarrels`: `Spec => NoRemovalWhilePaused`, for every configuration.
`PauseInv` says that the merger has `pauseMergeMutex_`, and merging is not
paused, from the end of its wait to the removal of the barrels; `LiveStep` that
nothing but `createNewBarrelInfo()` takes a barrel out of the index.

`ImplementsDocIndex` (module `IndexRefinementProofs`): `Spec => IsDocIndex`, the
index is a set of documents for its callers, assuming `IsAsync \/ ~UseAddMerger`
and that no document is removed before it is flushed (`"removeUnflushed" \notin
Usage`; run `index_resurrect` shows that this one is needed). The difficult steps
are the optimizing merger's: `createNewBarrelInfo()` drops deleted documents and
`delDocFilter()` clears all bits later, so no bit may be set for a document that
the merge has not dropped. `StoreInv` carries the argument. `RangeInv`: only
documents with an id already given are deleted. `RemovalInv`: the document being
removed is not in the current barrel, the only one in memory. `FilterInv`: while
the merger has `docFilterMutex_`, the barrels it does not merge have no deleted
document, and before `delDocFilter()` no barrel has. `OutputInv`: the merged
barrel has just the documents of its sources, less the deleted ones in an
optimization. `StoredStep` then shows what every action does to the set: one adds
the next document, one removes one, the others leave it alone.

### IndexReaderProofs

`MaxDocCorrect` and `ReaderCorrect`, for `MaxDocCovers` and `ReaderCoherent`, again
assuming `IsAsync \/ ~UseAddMerger`. Both rest on `IndexInv`.

`updateMaxDoc()` lowers `maxDoc` to the greatest end of a barrel's range, which
may not be below a document: `MaxDocInv` says that ranges include their documents,
the one being inserted too, whose id goes into the range before it goes into the
barrel. For the reader, `ReaderInv` says which flag will make it read again: from
`createNewBarrelInfo()` on, `triggerMerge_` is set until the reader is dirty, and a
reader that is not dirty has the barrel being flushed as soon as it is announced,
not only once it ceases to be the current one. `ReaderCoherent` alone does not
survive that last step.

### The document counts

`CountsExact` (module `IndexRefinementProofs`): `Spec => []NumDocsExact`, batch or
real time, with or without a merge thread, assuming that there is no add merger and
that documents are removed once and after they are flushed (`"removeUnflushed"` and
`"removeAgain"` are not in `Usage`). `RemoveCountDown` decides by the barrels' ranges
of ids which count to lower, and `RemoveSetBit` is a later step, so the optimizing
merger may rewrite the barrel in between. `NumInv` adds: the ranges
are disjoint and include their documents, the barrel in memory comes last, and what
the optimizing merger takes comes before what it leaves (`SpanInv`); the document to
be removed is in some barrel until it has been counted (`PendingInv`). The lock the
merger has on the filter does the rest: a document counted down but not yet marked
is still in the index when it is marked (`FilterInv`, `OutputInv`).

The assumptions mark real limits. With an add merger the ranges of two barrels may
overlap (run `bt_overlap`), and the count of the wrong barrel may be lowered; run
`index_async` checks the property for as many documents as it has. The bit of a
document that is not flushed may be cleared by an optimization that does not merge
its barrel (run `index_resurrect`), and the count stays low. A document removed
again after an optimization has cleared its bit may be counted twice.

### BarrelMergeProofs

`LayersPartition`, `LayersBelowFactor` and `SizesAccountedFor`, for
`LayersPartitionBarrels`, `NoLayerFull` and `LevelSizeAccounts`, for every collision
factor, number of levels, base and sequence of flushes and deletions. `PolicyInv`
adds the control of the policy and `OneLayerFull`: while `triggerMerge()` runs, the
layer it works on is the only one that may be full. `combineLayer()` may fill a
higher layer, but it goes on with that one (`CombinedLayers`), and the merge empties
it.

A layer's size may exceed the documents it has by the deletions since, and
`LevelSizeAccounts` bounds the excess of each layer by all deletions there were.
That is not inductive: `combineLayer()` adds the sizes of two layers, and with them
the excesses. `SizeInv` therefore says that every deletion is missed by one layer at
most: there are disjoint sets of deletions, one for each layer, whose sizes are the
excesses. Combining two layers unites their sets.

`MapThenSumSet`, the sum of the specification, is a fold, so what it computes is
not there to be expanded. `DataFacts` shows that a sum over a finite set satisfies
its recursive equation, that the equation has one solution (`SumUnique`, from a
smallest set on which two would differ) and that the solution is the size of a set
of as many units (`SumCounts`); how a sum changes with its set follows from
cardinalities.

### BarrelStoreProofs

`TypeCorrect`, `FilesAlwaysMatch`, `StopAlwaysKeepsDocs` and `CrashAlwaysNoticed`,
for `TypeOK`, `FilesMatch`, `StopKeepsDocs` and `CrashNoticed`: for any number of
documents and openings, with or without crashes, assuming that a real-time index
is not optimized (`"realtime" \notin Optimizing`). The assumption is needed: run
`store_realtime` shows the documents that are lost otherwise.

None of the properties is inductive, and `TypeOK` is not either: it bounds the
numbers in the names, and these depend on how many barrels there are. `StoreInv`
says what an open index is (`OpenInv`, fourteen parts) and what a stopped one has
left on disk (`StopInv`). The argument:

* Names. `sort()` names barrels from 0 on without setting `nBarrelCounter`, so the
  next name is free only because there are never more barrels than the counter
  (`BoundInv`), which in turn needs that a merge leaves fewer barrels. The
  intermediate name of a merge is free because its number is the depth of the
  merges since the last `sort()` (`NameInv`, `MidIn`), and that depth is bounded
  because every merge leaves the policy fewer barrels (`Layer` in `BoundInv`).
  Temporary names do not meet the names still to be replaced (`SortInv`). Hence no
  rename finds a file in its way (`RenameStep`).
* Files. The files are those of the barrels on disk and of the merged barrel that
  is about to be added, each with its documents (`FileInv`), and the barrels
  partition the documents (`CoverInv`).
* Memory and binlog. At most one barrel is in memory, and in real-time mode the
  binlog has just its documents (`MemoryInv`, `BinlogInv`); the binlog of a full
  cache is deleted only after the list no longer has that barrel as a real-time
  one.
* The list. Until the next `sort()` a listed name is that of the listed barrel, or
  that of no file at all (`ListInv`): names are not given twice. So if every listed
  barrel has its files, all of them are still in the index, and then they hold
  every flushed document (`ClaimInv`); this is `CrashNoticed`. When no flush and
  no merge is under way the list is that of the index (`AgreeInv`), which gives
  `StopInv`, and `OpenStep` shows that what is opened from it satisfies `OpenInv`
  again.

TLC checked `StoreInv` on the instance of run `store` before it was proved.

### ZooKeeperRouterProofs

For any nodes, callers, versions, pool size, threshold, bounds and faults
(`RouterAssumption` says only that the names differ and the numbers are natural):
`TypeCorrect`, `CallersOwnConnections`, `PoolSizesExact` and
`RemovedNodesLeaveWithPool`, for the properties `TypeOK`, `ConnectionsOwned`,
`SizeExact` and `NodeLeavesWithPool`; and, if `RawClient` meets nothing but errors
of the network (`Faults = {}`), `StatusAssertionsHold` for `AssertionsHold`.

The inductive invariant is `TypeOK /\ Control /\ ConnectionsOwned /\ FaultFree /\
SizeExact`. The parts need each other: that `size` does not
fall below 0 needs its being exact, that a deleted pool takes no one's connection
away needs ownership, and an exact count needs that a grown pool had a free slot.
`FaultFree` says what holds without faults: no process is aborted, available and
held connections are idle, and a connection is busy just while some caller waits
for its response (`StatusDiscipline`); this is what the `CHECK`s need, and it rests
on ownership. `Control` adds what the positions of the threads mean: whoever
removes or adds a node has its path (`PathKnown`), only the event thread updates
and clears (`WatcherUpdates`), a caller has a current connection just while it uses
it (`CurrentInUse`), only removing threads keep the write lock (`WriterRemoves`),
nobody writes while another is about to upgrade its lock (`UpgraderAlone`), and a
removing thread has its pool still to delete or holds the lock since it did
(`PoolPending`). The last two are what `RemovedNodesLeaveWithPool` rests on: no
node is added between the deletion of its pool and its leaving the topology. What
the operations of a pool do is proved once each (`AcquireStep`, `SendStep`,
`ResponseStep`, `ReleaseStep`, `DeleteStep`, `AddPoolStep`), `QuietStep` covers
the actions that touch no pool and `AbortStep` those that abort. A pool is finite
because its connections are slots.

### JobSchedulerProofs

For any names, callers, number of jobs and ways of removal: `TypeCorrect`,
`CallbackExclusive` and `WaitEndsTimer`, for `TypeOK`, `OneAtATime` and
`NoCallbackAfterWait`; and `WaitedRemovalsDestroyInOrder`: if jobs are removed only
by `removeJob()` that waits, `DestructionWaits` holds. For the last one the
strengthening is `HeldUntilDone`: as long as a timer thread may still drop its
`callback_`, the scheduler refers to the job. The invariant adds that jobs still to be
added are untouched (`Fresh`), that a thread that was waited for has ended
(`WaitedDone`, which also keeps it ended) and what the two flags of a job mean
(`FlagsTell`): `running` is set just while the timer is in the callback,
`immediatly` just while a caller is, never both. The flags are tested and set
under one lock, so the earlier look without it does no harm.

### Not proved

Only model-checked: all liveness (`OptimizeReturns`, `WaitReturns`,
`CloseReturns`, `RemovalReturns`, `DataCatchesUp`, `CallsReturn`,
`RemovedRunsOut`), which is out of the prover's reach. Every invariant of a passing
run is stated by a theorem, but some theorems assume more than a run does:
`NumDocsExact` is also checked with an add merger (`index_async`). Conversely
the configuration without a merge thread, whose interleavings are few, is in the
theorems and in no run.

## 5. Not modelled

* Within the modelled parts: postings, term dictionaries and the B-tree index;
  deleting a whole index; the synchronous add merger; requests, responses and
  sockets (so not the static buffer that all responses share); `Sf1Driver`, the driver for a single server; a callback
  that calls the scheduler.
* `util/concurrent_queue.h` beyond the FIFO use in `IndexMerge`, and the SEDA
  stages (`net/seda`): templates without another user in the repository.
* The aggregator, `net/distribute` and the message framework: remote calls and
  file transfer over third-party libraries.
* Access methods (`am/`, `hdb/`, `sdb/`), caches, the other retrieval engines
  (`ir/Zambezi`, `ir/be_index`, `ir/id_manager`, `ir/DupDetector`), strings,
  external sorting: sequential code whose behaviour is its data; unit tests reach
  it better than a model.
* Integer compression (`util/compression`), character tables (`util/ustring`) and
  vendored libraries, by far most of the repository's 445 thousand lines:
  unrolled or generated code and tables with no state to model. For the same
  reason the mapped lines are a small share of the repository; they are most of
  the concurrent code of the modelled parts.

## 6. Plan

Done: the index manager in memory and on disk, the router with its pools, the
scheduler, and the theorems above. Left, in this order:

1. `IsDocIndex` and `NumDocsExact` for removals of unflushed documents without a
   merge thread, checked and proved.
2. `BarrelStore` and `IndexMerge` for the synchronous configuration with an add
   merger.
3. A bounded queue (`concurrent_queue`) with the SEDA stages, and a fixed-width
   model of `getLevel()`.
