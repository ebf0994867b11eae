----------------------------- MODULE IndexMerge -----------------------------
(***************************************************************************)
(* The index manager of izenelib while it runs: Indexer, IndexWriter,      *)
(* IndexMergeManager, IndexMerger, BarrelsInfo and IndexReader.            *)
(*                                                                         *)
(* Four kinds of threads meet here:                                        *)
(*   - the indexing thread, the holder of Indexer::indexMutex_: insert,    *)
(*     update, remove, flush, optimize and close are serialised by it, so  *)
(*     one program counter, wpc, stands for all callers of these;          *)
(*   - the merge thread (mpc), which takes tasks from the queue and merges *)
(*     barrels; without isAsync_ the indexing thread runs the same code    *)
(*     itself and waits for it;                                            *)
(*   - searching threads, which reopen the reader when it is dirty;        *)
(*   - threads that pause and resume merging, and one that calls           *)
(*     waitForMergeFinish() (qpc).                                         *)
(*                                                                         *)
(* A step is a critical section of the code, or a stretch that touches     *)
(* nothing another thread can see.  Indexer::mutex_ and BarrelsInfo::mutex_*)
(* are held within one step only and need no variable; docFilterMutex_,    *)
(* pauseMergeMutex_ and mergeThreadMutex_ are held over several.           *)
(*                                                                         *)
(* A barrel is known by its index in the history of allocated BarrelInfo   *)
(* objects, which the code never frees before close().  A document is its  *)
(* id; ids are handed out in increasing order, as the callers do.          *)
(***************************************************************************)
EXTENDS BTPolicy, Sequences, FiniteSetsExt

CONSTANTS
  MaxDoc,        \* bound: documents 1 .. MaxDoc are inserted
  MaxOptimize,   \* bound: calls of optimizeIndex()
  MaxPause,      \* bound: calls of pauseMerge()
  IsAsync,       \* mergeStrategy_.isAsync_
  UseAddMerger,  \* mergeStrategy_.param_ is not "no"
  RealTime,      \* indexMode_ is "realtime"
  Usage          \* liberties of the callers, see Usages

\* What callers may do beyond the plain use of the API: remove a document before
\* it is flushed, remove it a second time, close the index while merging is paused.
Usages == {"removeUnflushed", "removeAgain", "closePaused"}

ASSUME IndexMergeAssumption ==
  /\ MaxDoc \in Nat
  /\ MaxOptimize \in Nat
  /\ MaxPause \in Nat
  /\ IsAsync \in BOOLEAN
  /\ UseAddMerger \in BOOLEAN
  /\ RealTime \in BOOLEAN
  /\ Usage \subseteq Usages

Docs == 1 .. MaxDoc

\* getBaseDocID() of a barrel without documents, greater than every document id.
BAD_DOCID == MaxDoc + 1

VARIABLES
  barrels,      \* all BarrelInfo objects, in the order of their allocation
  nNumDocs,     \* nNumDocs[b]: the document count of barrels[b]
  barrelInfos,  \* BarrelsInfo::barrelInfos, a sequence of indices into barrels
  maxDoc,       \* BarrelsInfo::maxDoc
  filter,       \* the bits set in IndexReader::pDocFilter_
  filterOn,     \* pDocFilter_ is not NULL
  filterLock,   \* docFilterMutex_ is held by the merger
  dirty,        \* Indexer::dirty_
  readerOpen,   \* IndexReader::pBarrelReader_ is not NULL
  readers,      \* the barrels pBarrelReader_ reads
  tasks,        \* IndexMergeManager::tasks_
  paused,       \* isPauseMerge_
  pauseLock,    \* pauseMergeMutex_ is held by the merger
  mtLock,       \* mergeThreadMutex_: "free", or held by "wait" or "close"
  nextDoc,      \* the id of the next document
  cur,          \* IndexWriter::pCurBarrelInfo_, 0 for NULL
  wpc, wdoc, wret,         \* indexing thread: program counter, document, return point
  mpc, mjob, mentry, mq,   \* merger: program counter, task, entry to add, barrels to merge
  mout, triggerMerge_,     \* documents of the merged barrel; IndexMerger::triggerMerge_
  qpc,          \* the thread in waitForMergeFinish(): "idle" or "join"
  optimizes, pauses        \* calls so far

indexVars  == <<barrels, nNumDocs, barrelInfos, maxDoc, nextDoc, cur>>
filterVars == <<filter, filterOn, filterLock>>
readerVars == <<dirty, readerOpen, readers>>
lockVars   == <<paused, pauseLock, mtLock>>
writerVars == <<wpc, wdoc, wret>>
mergerVars == <<mpc, mjob, mentry, mq, mout, triggerMerge_>>
countVars  == <<optimizes, pauses>>

vars == <<btvars, indexVars, filterVars, readerVars, lockVars, tasks,
          writerVars, mergerVars, qpc, countVars>>

Barrel == [docs : SUBSET Docs, base : 1 .. BAD_DOCID, max : 0 .. MaxDoc,
           inMemory : BOOLEAN, searchable : BOOLEAN]

ADD_BARREL(b) == [op |-> "add", b |-> b]
OPTIMIZE_ALL  == [op |-> "optimize", b |-> 0]
EXIT_MERGE    == [op |-> "exit", b |-> 0]

\* The barrels of the index; a BarrelInfo outside has isRemoved_ set.
Live == {barrelInfos[i] : i \in DOMAIN barrelInfos}

baseDocID == [b \in DOMAIN barrels |-> barrels[b].base]

Init ==
  /\ BTInit
  /\ barrels = <<>> /\ nNumDocs = <<>> /\ barrelInfos = <<>> /\ maxDoc = 0
  /\ filter = {} /\ filterOn = FALSE /\ filterLock = FALSE
  /\ dirty = FALSE /\ readerOpen = FALSE /\ readers = {}
  /\ tasks = <<>>
  /\ paused = FALSE /\ pauseLock = FALSE /\ mtLock = "free"
  /\ nextDoc = 1 /\ cur = 0
  /\ wpc = "idle" /\ wdoc = 0 /\ wret = "idle"
  /\ mpc = "pop" /\ mjob = "add" /\ mentry = 0 /\ mq = {} /\ mout = {}
  /\ triggerMerge_ = FALSE
  /\ qpc = "idle"
  /\ optimizes = 0 /\ pauses = 0

------------------------------------------------------------------------------
(* IndexReader *)

\* A barrel createBarrelReader() opens.
Readable(b) == barrels[b].searchable /\ nNumDocs[b] > 0

\* IndexReader::createBarrelReader(): one barrel is read by itself or not at
\* all, several are read by a MultiIndexBarrelReader.
createBarrelReader ==
  /\ readers' = {b \in Live : Readable(b)}
  /\ readerOpen' = (Len(barrelInfos) > 1 \/ \E b \in Live : Readable(b))

\* Indexer::getIndexReader() reopens the reader if it is dirty.
getIndexReader ==
  IF dirty THEN createBarrelReader /\ dirty' = FALSE
           ELSE UNCHANGED readerVars

\* A searching thread asks for the reader.
SearchGetIndexReader ==
  /\ wpc # "closed"
  /\ dirty
  /\ getIndexReader
  /\ UNCHANGED <<btvars, indexVars, filterVars, lockVars, tasks, writerVars, mergerVars, qpc, countVars>>

\* getTermReader() of a reader that has no barrel reader yet.
SearchGetTermReader ==
  /\ wpc # "closed"
  /\ ~readerOpen
  /\ createBarrelReader
  /\ UNCHANGED <<dirty, btvars, indexVars, filterVars, lockVars, tasks, writerVars, mergerVars, qpc, countVars>>

------------------------------------------------------------------------------
(* IndexWriter, called with Indexer::indexMutex_ held *)

NewBarrel ==
  [docs |-> {}, base |-> BAD_DOCID, max |-> 0,
   inMemory |-> TRUE, searchable |-> RealTime]

\* IndexWriter::createBarrelInfo()
createBarrelInfo ==
  /\ barrels' = Append(barrels, NewBarrel)
  /\ nNumDocs' = Append(nNumDocs, 0)
  /\ barrelInfos' = Append(barrelInfos, Len(barrels) + 1)
  /\ cur' = Len(barrels) + 1
  /\ UNCHANGED <<maxDoc, nextDoc>>

Unflushed(d) == cur # 0 /\ d \in barrels[cur].docs

\* Some caller may remove document d now.
MayRemove(d) ==
  /\ Unflushed(d) => "removeUnflushed" \in Usage
  /\ d \in filter \/ (d < nextDoc /\ \A b \in Live : d \notin barrels[b].docs)
       => "removeAgain" \in Usage

\* insertDocument() (old = 0), or updateDocument(), which removes old afterwards.
InsertDocument(old) ==
  /\ wpc = "idle" /\ nextDoc <= MaxDoc
  /\ old # 0 => old < nextDoc /\ MayRemove(old)
  /\ wdoc' = old
  /\ wpc' = IF RealTime THEN "ins_realtime" ELSE "ins_base"
  /\ IF cur = 0 THEN createBarrelInfo ELSE UNCHANGED indexVars
  /\ UNCHANGED <<wret, btvars, filterVars, readerVars, lockVars, tasks, mergerVars, qpc, countVars>>

\* The reader has a barrel in memory.  It was opened after the last flush, so what
\* was in memory then still is.
hasMemBarrelReader == readerOpen /\ \E b \in readers : barrels[b].inMemory

\* Real time: a new in-memory barrel makes the reader dirty, and a full cache is
\* flushed before the document is added.
InsertRealTime ==
  /\ wpc = "ins_realtime"
  /\ dirty' = (dirty \/ ~hasMemBarrelReader)
  /\ \/ wpc' = "ins_base" /\ UNCHANGED wret
     \/ barrels[cur].docs # {} /\ wpc' = "fl_write" /\ wret' = "ins_create"
  /\ UNCHANGED <<readerOpen, readers, wdoc, btvars, indexVars, filterVars, lockVars, tasks, mergerVars, qpc, countVars>>

\* The barrel that follows the one flushed because the cache was full.
InsertCreateBarrel ==
  /\ wpc = "ins_create"
  /\ createBarrelInfo
  /\ wpc' = "ins_base"
  /\ UNCHANGED <<wdoc, wret, btvars, filterVars, readerVars, lockVars, tasks, mergerVars, qpc, countVars>>

\* Faulty variant: the range of the barrel is taken to end after the document.
InsertBaseDocID_PastEnd ==
  /\ wpc = "ins_base"
  /\ barrels' = [barrels EXCEPT ![cur].base = IF @ > nextDoc THEN nextDoc ELSE @,
                                ![cur].max = nextDoc + 1]
  /\ wpc' = "ins_count"
  /\ UNCHANGED <<nNumDocs, barrelInfos, maxDoc, nextDoc, cur, wdoc, wret, btvars, filterVars, readerVars, lockVars, tasks, mergerVars, qpc, countVars>>

\* The document range of the barrel grows, without a lock.
InsertBaseDocID ==
  /\ wpc = "ins_base"
  /\ barrels' = [barrels EXCEPT ![cur].base = IF @ > nextDoc THEN nextDoc ELSE @,
                                ![cur].max = IF nextDoc > @ THEN nextDoc ELSE @]
  /\ wpc' = "ins_count"
  /\ UNCHANGED <<nNumDocs, barrelInfos, maxDoc, nextDoc, cur, wdoc, wret, btvars, filterVars, readerVars, lockVars, tasks, mergerVars, qpc, countVars>>

\* BarrelsInfo::updateMaxDoc(), ++nNumDocs and addDocument().
InsertAddDocument ==
  /\ wpc = "ins_count"
  /\ maxDoc' = IF nextDoc > maxDoc THEN nextDoc ELSE maxDoc
  /\ barrels' = [barrels EXCEPT ![cur].docs = @ \cup {nextDoc}]
  /\ nNumDocs' = [nNumDocs EXCEPT ![cur] = @ + 1]
  /\ nextDoc' = nextDoc + 1
  /\ wpc' = IF wdoc = 0 THEN "idle" ELSE "rem_test"
  /\ UNCHANGED <<barrelInfos, cur, wdoc, wret, btvars, filterVars, readerVars, lockVars, tasks, mergerVars, qpc, countVars>>

RemoveDocument(d) ==
  /\ wpc = "idle" /\ MayRemove(d)
  /\ wdoc' = d
  /\ wpc' = "rem_test"
  /\ UNCHANGED <<wret, btvars, indexVars, filterVars, readerVars, lockVars, tasks, mergerVars, qpc, countVars>>

WriterReturns == wpc' = "idle" /\ wdoc' = 0 /\ wret' = "idle"

\* removeDocument() returns at once if the document is marked as deleted; the
\* bit is read without docFilterMutex_.
RemoveTestFilter ==
  /\ wpc = "rem_test"
  /\ getIndexReader
  /\ IF wdoc \in filter THEN WriterReturns
                        ELSE wpc' = "rem_count" /\ UNCHANGED <<wdoc, wret>>
  /\ UNCHANGED <<btvars, indexVars, filterVars, lockVars, tasks, mergerVars, qpc, countVars>>

\* The positions of the barrels whose document range includes d.
Covering(d) ==
  {i \in DOMAIN barrelInfos : barrels[barrelInfos[i]].base <= d /\ d <= barrels[barrelInfos[i]].max}

\* IndexReader::delDocument() of the reader, which is opened anew if it has become
\* dirty, calls BarrelsInfo::deleteDocument(): the last barrel in order whose range
\* includes the document counts one document less.
RemoveCountDown ==
  /\ wpc = "rem_count"
  /\ getIndexReader
  /\ LET found == Covering(wdoc)
         b == barrelInfos[Max(found)]
     IN IF found # {} /\ nNumDocs[b] > 0
          THEN /\ nNumDocs' = [nNumDocs EXCEPT ![b] = @ - 1]
               /\ wpc' = "rem_bit"
               /\ UNCHANGED <<wdoc, wret>>
          ELSE WriterReturns /\ UNCHANGED nNumDocs
  /\ UNCHANGED <<barrels, barrelInfos, maxDoc, nextDoc, cur, btvars, filterVars, lockVars, tasks, mergerVars, qpc, countVars>>

\* Faulty variant: the bit is set without docFilterMutex_.
RemoveSetBit_Unlocked ==
  /\ wpc = "rem_bit"
  /\ filter' = filter \cup {wdoc}
  /\ filterOn' = TRUE
  /\ WriterReturns
  /\ UNCHANGED <<filterLock, btvars, indexVars, readerVars, lockVars, tasks, mergerVars, qpc, countVars>>

\* The bit of the document is set under docFilterMutex_.  The getIndexReader() that
\* may follow is a SearchGetIndexReader of this thread.
RemoveSetBit ==
  /\ wpc = "rem_bit"
  /\ ~filterLock
  /\ filter' = filter \cup {wdoc}
  /\ filterOn' = TRUE
  /\ WriterReturns
  /\ UNCHANGED <<filterLock, btvars, indexVars, readerVars, lockVars, tasks, mergerVars, qpc, countVars>>

\* Indexer::flush(true); without a current barrel only the file "barrels" is
\* written, and the reader is made dirty all the same.
Flush ==
  /\ wpc = "idle"
  /\ wpc' = IF cur = 0 THEN "fl_dirty" ELSE "fl_write"
  /\ wret' = "fl_dirty"
  /\ UNCHANGED <<wdoc, btvars, indexVars, filterVars, readerVars, lockVars, tasks, mergerVars, qpc, countVars>>

\* BarrelInfo::write(): the files are written and the barrel is not in memory
\* any more, which makes it visible to a merger.
FlushWrite ==
  /\ wpc = "fl_write"
  /\ barrels' = [barrels EXCEPT ![cur].inMemory = FALSE]
  /\ wpc' = "fl_searchable"
  /\ UNCHANGED <<nNumDocs, barrelInfos, maxDoc, nextDoc, cur, wdoc, wret, btvars, filterVars, readerVars, lockVars, tasks, mergerVars, qpc, countVars>>

\* Faulty variant: the barrel becomes searchable and the reader is not made dirty.
FlushSetSearchable_Clean ==
  /\ wpc = "fl_searchable"
  /\ barrels' = [barrels EXCEPT ![cur].searchable = TRUE]
  /\ UNCHANGED dirty
  /\ wpc' = "fl_reopen"
  /\ UNCHANGED <<readerOpen, readers, nNumDocs, barrelInfos, maxDoc, nextDoc, cur, wdoc, wret, btvars, filterVars, lockVars, tasks, mergerVars, qpc, countVars>>

FlushSetSearchable ==
  /\ wpc = "fl_searchable"
  /\ barrels' = [barrels EXCEPT ![cur].searchable = TRUE]
  /\ dirty' = TRUE
  /\ wpc' = "fl_reopen"
  /\ UNCHANGED <<readerOpen, readers, nNumDocs, barrelInfos, maxDoc, nextDoc, cur, wdoc, wret, btvars, filterVars, lockVars, tasks, mergerVars, qpc, countVars>>

FlushReopen ==
  /\ wpc = "fl_reopen"
  /\ getIndexReader
  /\ wpc' = "fl_add"
  /\ UNCHANGED <<wdoc, wret, btvars, indexVars, filterVars, lockVars, tasks, mergerVars, qpc, countVars>>

------------------------------------------------------------------------------
(* IndexMergeManager: handing work to the merger *)

\* IndexMerger::addToMerge() starts on barrel b; a removed barrel is skipped.
StartAdd(b) ==
  /\ mpc' = "add" /\ mjob' = "add" /\ mentry' = b
  /\ triggerMerge_' = FALSE
  /\ UNCHANGED <<mq, mout>>

\* IndexMergeManager::addToMerge() at the end of IndexWriter::flush().
FlushAddToMerge ==
  /\ wpc = "fl_add"
  /\ IF IsAsync
       THEN /\ tasks' = Append(tasks, ADD_BARREL(cur))
            /\ UNCHANGED mergerVars
       ELSE /\ IF UseAddMerger /\ cur \in Live THEN StartAdd(cur) ELSE UNCHANGED mergerVars
            /\ UNCHANGED tasks
  /\ wpc' = "fl_end"
  /\ UNCHANGED <<wdoc, wret, btvars, indexVars, filterVars, readerVars, lockVars, qpc, countVars>>

\* The merger does not run in the indexing thread, or has returned to it.
MergerReturned == IsAsync \/ mpc = "pop"

FlushEnd ==
  /\ wpc = "fl_end"
  /\ MergerReturned
  /\ cur' = 0
  /\ wpc' = wret
  /\ wret' = "idle"
  /\ UNCHANGED <<barrels, nNumDocs, barrelInfos, maxDoc, nextDoc, wdoc, btvars, filterVars, readerVars, lockVars, tasks, mergerVars, qpc, countVars>>

\* Indexer::flush() makes the reader dirty once more after indexMutex_ is released,
FlushSetDirty ==
  /\ wpc = "fl_dirty"
  /\ dirty' = TRUE
  /\ wpc' = "fl_filter"
  /\ UNCHANGED <<wdoc, wret, readerOpen, readers, btvars, indexVars, filterVars, lockVars, tasks, mergerVars, qpc, countVars>>

\* and saves the deleted documents, for which IndexReader::flush() needs
\* docFilterMutex_.
FlushDocFilter ==
  /\ wpc = "fl_filter"
  /\ filterOn => ~filterLock
  /\ WriterReturns
  /\ UNCHANGED <<btvars, indexVars, filterVars, readerVars, lockVars, tasks, mergerVars, qpc, countVars>>

\* IndexWriter::optimizeIndex() flushes first.
OptimizeIndex ==
  /\ wpc = "idle" /\ optimizes < MaxOptimize
  /\ optimizes' = optimizes + 1
  /\ wpc' = IF cur = 0 THEN "opt_push" ELSE "fl_write"
  /\ wret' = "opt_push"
  /\ UNCHANGED <<wdoc, pauses, btvars, indexVars, filterVars, readerVars, lockVars, tasks, mergerVars, qpc>>

StartOptimize ==
  /\ mpc' = "opt_open" /\ mjob' = "optimize" /\ mentry' = 0
  /\ triggerMerge_' = FALSE
  /\ UNCHANGED <<mq, mout>>

\* IndexMergeManager::optimizeIndex() replaces all pending tasks.
OptimizePush ==
  /\ wpc = "opt_push"
  /\ IF IsAsync THEN /\ mtLock = "free"
                     /\ tasks' = <<OPTIMIZE_ALL>>
                     /\ UNCHANGED mergerVars
                ELSE StartOptimize /\ UNCHANGED tasks
  /\ wpc' = "opt_spin"
  /\ UNCHANGED <<wdoc, wret, btvars, indexVars, filterVars, readerVars, lockVars, qpc, countVars>>

\* The caller spins until the index has at most one barrel.
OptimizeReturn ==
  /\ wpc = "opt_spin"
  /\ MergerReturned
  /\ Len(barrelInfos) <= 1
  /\ WriterReturns
  /\ UNCHANGED <<btvars, indexVars, filterVars, readerVars, lockVars, tasks, mergerVars, qpc, countVars>>

\* Indexer::close(): IndexWriter::close() drops the current barrel, then the
\* destructor of IndexMergeManager runs.
Close ==
  /\ wpc = "idle"
  /\ paused => "closePaused" \in Usage
  /\ cur' = 0
  /\ wpc' = "cls_lock"
  /\ UNCHANGED <<barrels, nNumDocs, barrelInfos, maxDoc, nextDoc, wdoc, wret, btvars, filterVars, readerVars, lockVars, tasks, mergerVars, qpc, countVars>>

\* Faulty variant: EXIT_MERGE is pushed before the queue is cleared.
CloseLock_PushFirst ==
  /\ wpc = "cls_lock"
  /\ mtLock = "free"
  /\ mtLock' = IF IsAsync THEN "close" ELSE "free"
  /\ tasks' = IF IsAsync THEN <<>> ELSE tasks
  /\ wpc' = "cls_join"
  /\ UNCHANGED <<paused, pauseLock, wdoc, wret, btvars, indexVars, filterVars, readerVars, mergerVars, qpc, countVars>>

\* ~IndexMergeManager(): all pending tasks are replaced by EXIT_MERGE.  Its
\* notify_all() wakes a paused merger, which finds isPauseMerge_ still set.
CloseLock ==
  /\ wpc = "cls_lock"
  /\ mtLock = "free"
  /\ mtLock' = IF IsAsync THEN "close" ELSE "free"
  /\ tasks' = IF IsAsync THEN <<EXIT_MERGE>> ELSE tasks
  /\ wpc' = "cls_join"
  /\ UNCHANGED <<paused, pauseLock, wdoc, wret, btvars, indexVars, filterVars, readerVars, mergerVars, qpc, countVars>>

CloseJoin ==
  /\ wpc = "cls_join"
  /\ IsAsync => mpc = "exited"
  /\ mtLock' = "free"
  /\ wpc' = "closed"
  /\ UNCHANGED <<paused, pauseLock, wdoc, wret, tasks, btvars, indexVars, filterVars, readerVars, mergerVars, qpc, countVars>>

Closing == wpc \in {"cls_lock", "cls_join", "closed"}

\* Faulty variant: mergeThreadMutex_ is not held while the thread is joined.
WaitForMergeFinish_Unlocked ==
  /\ IsAsync /\ ~Closing
  /\ qpc = "idle" /\ mtLock = "free"
  /\ UNCHANGED mtLock
  /\ tasks' = Append(tasks, EXIT_MERGE)
  /\ qpc' = "join"
  /\ UNCHANGED <<paused, pauseLock, btvars, indexVars, filterVars, readerVars, writerVars, mergerVars, countVars>>

\* waitForMergeFinish(): EXIT_MERGE goes behind the pending tasks, and a new
\* merge thread replaces the one that has left.
WaitForMergeFinish ==
  /\ IsAsync /\ ~Closing
  /\ qpc = "idle" /\ mtLock = "free"
  /\ mtLock' = "wait"
  /\ tasks' = Append(tasks, EXIT_MERGE)
  /\ qpc' = "join"
  /\ UNCHANGED <<paused, pauseLock, btvars, indexVars, filterVars, readerVars, writerVars, mergerVars, countVars>>

WaitJoin ==
  /\ qpc = "join"
  /\ mpc = "exited"
  /\ mpc' = "pop"
  /\ mtLock' = "free"
  /\ qpc' = "idle"
  /\ UNCHANGED <<mjob, mentry, mq, mout, triggerMerge_, paused, pauseLock, tasks, btvars, indexVars, filterVars, readerVars, writerVars, countVars>>

\* Faulty variant: isPauseMerge_ is set without pauseMergeMutex_.
PauseMerge_Unlocked ==
  /\ IsAsync /\ ~Closing
  /\ pauses < MaxPause /\ ~paused
  /\ paused' = TRUE
  /\ pauses' = pauses + 1
  /\ UNCHANGED <<optimizes, pauseLock, mtLock, tasks, btvars, indexVars, filterVars, readerVars, writerVars, mergerVars, qpc>>

\* pauseMerge() and resumeMerge() do nothing without isAsync_.
PauseMerge ==
  /\ IsAsync /\ ~Closing
  /\ pauses < MaxPause /\ ~paused /\ ~pauseLock
  /\ paused' = TRUE
  /\ pauses' = pauses + 1
  /\ UNCHANGED <<optimizes, pauseLock, mtLock, tasks, btvars, indexVars, filterVars, readerVars, writerVars, mergerVars, qpc>>

ResumeMerge ==
  /\ ~Closing
  /\ paused /\ ~pauseLock
  /\ paused' = FALSE
  /\ UNCHANGED <<pauseLock, mtLock, tasks, btvars, indexVars, filterVars, readerVars, writerVars, mergerVars, qpc, countVars>>

------------------------------------------------------------------------------
(* IndexMergeManager::mergeIndex(), the loop of the merge thread *)

PopAdd ==
  /\ IsAsync /\ mpc = "pop"
  /\ tasks # <<>> /\ Head(tasks).op = "add"
  /\ tasks' = Tail(tasks)
  /\ IF UseAddMerger /\ Head(tasks).b \in Live
       THEN StartAdd(Head(tasks).b)
       ELSE UNCHANGED mergerVars
  /\ UNCHANGED <<btvars, indexVars, filterVars, readerVars, lockVars, writerVars, qpc, countVars>>

\* Faulty variant: the add merger is not renewed before an optimization.
PopOptimize_KeepMerger ==
  /\ IsAsync /\ mpc = "pop"
  /\ tasks # <<>> /\ Head(tasks).op = "optimize"
  /\ tasks' = Tail(tasks)
  /\ StartOptimize
  /\ UNCHANGED <<btvars, indexVars, filterVars, readerVars, lockVars, writerVars, qpc, countVars>>

\* "to clear the status of add merger, renew it"
PopOptimize ==
  /\ IsAsync /\ mpc = "pop"
  /\ tasks # <<>> /\ Head(tasks).op = "optimize"
  /\ tasks' = Tail(tasks)
  /\ queue' = [l \in Levels |-> {}]
  /\ levelSize' = [l \in Levels |-> 0]
  /\ StartOptimize
  /\ UNCHANGED <<btpc, pLevel1, iter2, indexVars, filterVars, readerVars, lockVars, writerVars, qpc, countVars>>

PopExit ==
  /\ IsAsync /\ mpc = "pop"
  /\ tasks # <<>> /\ Head(tasks).op = "exit"
  /\ tasks' = Tail(tasks)
  /\ mpc' = "exited"
  /\ UNCHANGED <<mjob, mentry, mq, mout, triggerMerge_, btvars, indexVars, filterVars, readerVars, lockVars, writerVars, qpc, countVars>>

------------------------------------------------------------------------------
(* IndexMerger *)

\* addToMerge() and mergeBarrel() hand a barrel to the policy.  Without a merge
\* in this task there is nothing to update.
AddToPolicy ==
  /\ mpc = "add"
  /\ addBarrel(mentry, nNumDocs[mentry])
  /\ mpc' = IF btpc' = "up" THEN "policy" ELSE IF triggerMerge_ THEN "sort" ELSE "pop"
  /\ mentry' = 0
  /\ UNCHANGED <<mjob, mq, mout, triggerMerge_, tasks, indexVars, filterVars, readerVars, lockVars, writerVars, qpc, countVars>>

PolicyStep ==
  /\ mpc = "policy"
  /\ triggerMerge(baseDocID)
  /\ UNCHANGED <<mergerVars, tasks, indexVars, filterVars, readerVars, lockVars, writerVars, qpc, countVars>>

\* mergeBarrel() receives the queue of the layer the policy has chosen.
PolicyMerge ==
  /\ mpc = "policy"
  /\ btpc = "merge"
  /\ mq' = queue[pLevel1]
  /\ triggerMerge_' = TRUE
  /\ mpc' = "output"
  /\ UNCHANGED <<mjob, mentry, mout, btvars, tasks, indexVars, filterVars, readerVars, lockVars, writerVars, qpc, countVars>>

\* mergeBarrels() of the optimizing merger opens the reader.
OptimizeOpen ==
  /\ mpc = "opt_open"
  /\ getIndexReader
  /\ mpc' = "opt_lock"
  /\ UNCHANGED <<mjob, mentry, mq, mout, triggerMerge_, btvars, tasks, indexVars, filterVars, lockVars, writerVars, qpc, countVars>>

\* Faulty variant: one barrel or no filter is taken for nothing to do.
OptimizeLock_Or ==
  /\ mpc = "opt_lock"
  /\ ~filterLock
  /\ IF Len(barrelInfos) <= 1 \/ ~filterOn
       THEN mpc' = "opt_reader" /\ UNCHANGED filterLock
       ELSE mpc' = "opt_snapshot" /\ filterLock' = TRUE
  /\ UNCHANGED <<filter, filterOn, mjob, mentry, mq, mout, triggerMerge_, btvars, tasks, indexVars, readerVars, lockVars, writerVars, qpc, countVars>>

\* It takes docFilterMutex_ and keeps it until delDocFilter(), unless there is
\* nothing to do.
OptimizeLock ==
  /\ mpc = "opt_lock"
  /\ ~filterLock
  /\ IF Len(barrelInfos) <= 1 /\ ~filterOn
       THEN mpc' = "opt_reader" /\ UNCHANGED filterLock
       ELSE mpc' = "opt_snapshot" /\ filterLock' = TRUE
  /\ UNCHANGED <<filter, filterOn, mjob, mentry, mq, mout, triggerMerge_, btvars, tasks, indexVars, readerVars, lockVars, writerVars, qpc, countVars>>

\* Faulty variant: barrels that are still being written are queued as well.
OptimizeSnapshot_InMemory ==
  /\ mpc = "opt_snapshot"
  /\ mq' = Live
  /\ triggerMerge_' = TRUE
  /\ mpc' = "output"
  /\ UNCHANGED <<mjob, mentry, mout, btvars, tasks, indexVars, filterVars, readerVars, lockVars, writerVars, qpc, countVars>>

\* All barrels that are not in memory are put into the queue.
OptimizeSnapshot ==
  /\ mpc = "opt_snapshot"
  /\ mq' = {b \in Live : ~barrels[b].inMemory}
  /\ triggerMerge_' = TRUE
  /\ mpc' = "output"
  /\ UNCHANGED <<mjob, mentry, mout, btvars, tasks, indexVars, filterVars, readerVars, lockVars, writerVars, qpc, countVars>>

\* Faulty variant: the merged postings keep the deleted documents.
OutputNewBarrel_NoFilter ==
  /\ mpc = "output"
  /\ mout' = UNION {barrels[b].docs : b \in mq}
  /\ mpc' = "pause"
  /\ UNCHANGED <<mjob, mentry, mq, triggerMerge_, btvars, tasks, indexVars, filterVars, readerVars, lockVars, writerVars, qpc, countVars>>

\* outputNewBarrel(): the postings of the queued barrels are merged.  Only the
\* optimizing merger has a document filter and leaves deleted documents out.
OutputNewBarrel ==
  /\ mpc = "output"
  /\ mout' = (UNION {barrels[b].docs : b \in mq}) \ (IF mjob = "optimize" THEN filter ELSE {})
  /\ mpc' = "pause"
  /\ UNCHANGED <<mjob, mentry, mq, triggerMerge_, btvars, tasks, indexVars, filterVars, readerVars, lockVars, writerVars, qpc, countVars>>

\* createNewBarrelInfo() waits, with pauseMergeMutex_, until merging is not paused.
CreateCheckPause ==
  /\ mpc = "pause"
  /\ ~paused
  /\ pauseLock' = TRUE
  /\ mpc' = "replace"
  /\ UNCHANGED <<paused, mtLock, mjob, mentry, mq, mout, triggerMerge_, btvars, tasks, indexVars, filterVars, readerVars, writerVars, qpc, countVars>>

\* The BarrelInfo of the merged barrels; without any, it has no base document id.
Merged ==
  [docs |-> mout,
   base |-> Min({BAD_DOCID} \cup {barrels[b].base : b \in mq}),
   max |-> Max({0} \cup {barrels[b].max : b \in mq}),
   inMemory |-> FALSE, searchable |-> TRUE]

\* Faulty variant: the loop over the queue stops one entry early.
RemovedByMerge_OffByOne(b) == b \in mq /\ b # Max(mq)

\* The loop over the queue in createNewBarrelInfo() removes barrel b.
RemovedByMerge(b) == b \in mq

\* The barrels that stay.
Kept == {b \in Live : ~RemovedByMerge(b)}

\* Barrel a comes before barrel b in barrelInfos.
Precedes(a, b) ==
  \E k, l \in DOMAIN barrelInfos : k < l /\ barrelInfos[k] = a /\ barrelInfos[l] = b

\* s lists the barrels of S in the order they have in barrelInfos.
IsInOrder(s, S) ==
  /\ {s[i] : i \in DOMAIN s} = S
  /\ \A i, j \in DOMAIN s : i < j => Precedes(s[i], s[j])

\* createNewBarrelInfo(): the merged barrels and their files are removed and the
\* new barrel is added, in one critical section.
CreateNewBarrelInfo ==
  /\ mpc = "replace"
  /\ barrels' = Append([b \in DOMAIN barrels |->
                          IF RemovedByMerge(b) THEN [barrels[b] EXCEPT !.docs = {}] ELSE barrels[b]],
                       Merged)
  /\ nNumDocs' = Append(nNumDocs, MapThenSumSet(LAMBDA b : nNumDocs[b], mq))
  /\ \E s \in [1 .. Cardinality(Kept) -> Kept] :
       IsInOrder(s, Kept) /\ barrelInfos' = Append(s, Len(barrels) + 1)
  /\ pauseLock' = FALSE
  /\ IF mjob = "add" THEN mpc' = "add" /\ mentry' = Len(barrels) + 1 /\ ClearMerged
                     ELSE mpc' = "opt_clear" /\ UNCHANGED <<mentry, btvars>>
  /\ mq' = {} /\ mout' = {}
  /\ UNCHANGED <<maxDoc, nextDoc, cur, paused, mtLock, mjob, triggerMerge_, tasks, filterVars, readerVars, writerVars, qpc, countVars>>

\* IndexReader::delDocFilter() clears every bit; docFilterMutex_ is released.
OptimizeDelDocFilter ==
  /\ mpc = "opt_clear"
  /\ filter' = {}
  /\ filterLock' = FALSE
  /\ mpc' = "sort"
  /\ UNCHANGED <<filterOn, mjob, mentry, mq, mout, triggerMerge_, btvars, tasks, indexVars, readerVars, lockVars, writerVars, qpc, countVars>>

\* BarrelInfo::greater, the order of BarrelsInfo::sort().
Before(a, b) ==
  IF barrels[a].base # barrels[b].base THEN barrels[a].base < barrels[b].base
                                       ELSE nNumDocs[a] > nNumDocs[b]

\* s is barrelInfos after BarrelsInfo::sort(), which is stable.
IsSorted(s) ==
  /\ {s[i] : i \in DOMAIN s} = Live
  /\ \A i, j \in DOMAIN s : i < j =>
       /\ s[i] # s[j]
       /\ Before(s[i], s[j]) \/ (~Before(s[j], s[i]) /\ Precedes(s[i], s[j]))

\* updateBarrels(): the barrels are sorted ...
UpdateBarrelsSort ==
  /\ mpc = "sort"
  /\ \E s \in [DOMAIN barrelInfos -> Live] : IsSorted(s) /\ barrelInfos' = s
  /\ mpc' = "dirty"
  /\ UNCHANGED <<barrels, nNumDocs, maxDoc, nextDoc, cur, mjob, mentry, mq, mout, triggerMerge_, btvars, tasks, filterVars, readerVars, lockVars, writerVars, qpc, countVars>>

\* Faulty variant: Indexer::setDirty() is not called after a merge.
UpdateBarrelsSetDirty_Forgotten ==
  /\ mpc = "dirty"
  /\ UNCHANGED dirty
  /\ mpc' = IF mjob = "add" THEN "pop" ELSE "opt_maxdoc"
  /\ UNCHANGED <<readerOpen, readers, mjob, mentry, mq, mout, triggerMerge_, btvars, tasks, indexVars, filterVars, lockVars, writerVars, qpc, countVars>>

\* ... and the reader is made dirty.
UpdateBarrelsSetDirty ==
  /\ mpc = "dirty"
  /\ dirty' = TRUE
  /\ mpc' = IF mjob = "add" THEN "pop" ELSE "opt_maxdoc"
  /\ UNCHANGED <<readerOpen, readers, mjob, mentry, mq, mout, triggerMerge_, btvars, tasks, indexVars, filterVars, lockVars, writerVars, qpc, countVars>>

\* Faulty variant: barrels in memory are skipped, as they are when the queue is filled.
OptimizeMaxDoc_DiskOnly ==
  /\ mpc = "opt_maxdoc"
  /\ LET m == Max({0} \cup {barrels[b].max : b \in {c \in Live : ~barrels[c].inMemory}})
     IN maxDoc' = IF m < maxDoc THEN m ELSE maxDoc
  /\ mpc' = "opt_reader"
  /\ UNCHANGED <<barrels, nNumDocs, barrelInfos, nextDoc, cur, mjob, mentry, mq, mout, triggerMerge_, btvars, tasks, filterVars, readerVars, lockVars, writerVars, qpc, countVars>>

\* mergeBarrels() lowers maxDoc to the greatest one of the barrels.
OptimizeMaxDoc ==
  /\ mpc = "opt_maxdoc"
  /\ LET m == Max({0} \cup {barrels[b].max : b \in Live})
     IN maxDoc' = IF m < maxDoc THEN m ELSE maxDoc
  /\ mpc' = "opt_reader"
  /\ UNCHANGED <<barrels, nNumDocs, barrelInfos, nextDoc, cur, mjob, mentry, mq, mout, triggerMerge_, btvars, tasks, filterVars, readerVars, lockVars, writerVars, qpc, countVars>>

\* optimizeIndexImpl() ends by reopening the reader.
OptimizeReopen ==
  /\ mpc = "opt_reader"
  /\ getIndexReader
  /\ mpc' = "pop"
  /\ UNCHANGED <<mjob, mentry, mq, mout, triggerMerge_, btvars, tasks, indexVars, filterVars, lockVars, writerVars, qpc, countVars>>

------------------------------------------------------------------------------
Terminated == wpc = "closed" /\ UNCHANGED vars

WriterCall ==
  \/ \E old \in {0} \cup Docs : InsertDocument(old)
  \/ \E d \in Docs : RemoveDocument(d)
  \/ Flush \/ OptimizeIndex \/ Close

WriterStep ==
  \/ InsertRealTime \/ InsertCreateBarrel \/ InsertBaseDocID \/ InsertAddDocument
  \/ RemoveTestFilter \/ RemoveCountDown \/ RemoveSetBit
  \/ FlushWrite \/ FlushSetSearchable \/ FlushReopen \/ FlushAddToMerge \/ FlushEnd \/ FlushSetDirty \/ FlushDocFilter
  \/ OptimizePush \/ OptimizeReturn \/ CloseLock \/ CloseJoin

MergerStep ==
  \/ PopAdd \/ PopOptimize \/ PopExit
  \/ AddToPolicy \/ PolicyStep \/ PolicyMerge
  \/ OptimizeOpen \/ OptimizeLock \/ OptimizeSnapshot
  \/ OutputNewBarrel \/ CreateCheckPause \/ CreateNewBarrelInfo
  \/ OptimizeDelDocFilter \/ UpdateBarrelsSort \/ UpdateBarrelsSetDirty
  \/ OptimizeMaxDoc \/ OptimizeReopen

SearchStep == SearchGetIndexReader \/ SearchGetTermReader

Next ==
  \/ WriterCall \/ WriterStep \/ MergerStep \/ SearchStep
  \/ WaitForMergeFinish \/ WaitJoin \/ PauseMerge \/ ResumeMerge
  \/ Terminated

Spec == Init /\ [][Next]_vars

\* A thread that can run does run, and whoever has paused merging resumes it.
Fairness ==
  /\ WF_vars(WriterStep)
  /\ WF_vars(MergerStep)
  /\ WF_vars(WaitJoin)
  /\ WF_vars(ResumeMerge)

FairSpec == Spec /\ Fairness

------------------------------------------------------------------------------
(* Properties *)

WriterPC == {"idle", "ins_realtime", "ins_create", "ins_base", "ins_count",
             "rem_test", "rem_count", "rem_bit",
             "fl_write", "fl_searchable", "fl_reopen", "fl_add", "fl_end", "fl_dirty", "fl_filter",
             "opt_push", "opt_spin", "cls_lock", "cls_join", "closed"}

MergerPC == {"pop", "exited", "add", "policy", "output", "pause", "replace", "sort", "dirty",
             "opt_open", "opt_lock", "opt_snapshot", "opt_clear", "opt_maxdoc", "opt_reader"}

Task == [op : {"add", "optimize", "exit"}, b : Nat]

\* Types of all variables but the document counts (see NumDocsExact) and the
\* sizes of the layers.
BarrelTypes ==
  /\ barrels \in Seq(Barrel)
  /\ barrelInfos \in Seq(DOMAIN barrels)
  /\ readers \subseteq DOMAIN barrels
  /\ cur \in {0} \cup DOMAIN barrels
  /\ mentry \in {0} \cup DOMAIN barrels
  /\ mq \subseteq DOMAIN barrels
  /\ queue \in [Levels -> SUBSET DOMAIN barrels]

DocTypes ==
  /\ nextDoc \in 1 .. MaxDoc + 1
  /\ maxDoc \in 0 .. MaxDoc
  /\ wdoc \in {0} \cup Docs
  /\ filter \subseteq Docs
  /\ mout \subseteq Docs

FlagTypes ==
  /\ filterOn \in BOOLEAN /\ filterLock \in BOOLEAN
  /\ dirty \in BOOLEAN /\ readerOpen \in BOOLEAN
  /\ paused \in BOOLEAN /\ pauseLock \in BOOLEAN
  /\ triggerMerge_ \in BOOLEAN

ControlTypes ==
  /\ tasks \in Seq(Task)
  /\ mtLock \in {"free", "wait", "close"}
  /\ wpc \in WriterPC /\ wret \in {"idle", "fl_dirty", "ins_create", "opt_push"}
  /\ mpc \in MergerPC /\ mjob \in {"add", "optimize"}
  /\ qpc \in {"idle", "join"}
  /\ optimizes \in Nat /\ pauses \in Nat
  /\ btpc \in {"idle", "up", "pass", "merge"}
  /\ pLevel1 \in Levels /\ iter2 \in 0 .. MaxLevel + 1

TypeOK == BarrelTypes /\ DocTypes /\ FlagTypes /\ ControlTypes

\* No document is stored by two barrels of the index: a merge takes the merged
\* barrels out in the same critical section that puts the new one in, so a search
\* never returns a document twice.
DocsInOneBarrel ==
  \A a, b \in Live : a # b => barrels[a].docs \cap barrels[b].docs = {}

\* Every barrel a merger has chosen, or the policy keeps for a later merge, is a
\* barrel of the index whose files exist: load() never opens the files of a
\* barrel that another task has merged away.
MergerHoldsLiveBarrels ==
  \A b \in mq \cup UNION {queue[l] : l \in Levels} : b \in Live /\ ~barrels[b].inMemory

\* The document of a removeDocument() that has been counted but not marked yet.
CountedNotMarked == IF wpc = "rem_bit" THEN {wdoc} ELSE {}

\* nNumDocs of a barrel is the number of its documents that are not deleted, also
\* while a removal and a merge of the same barrel overlap.
NumDocsExact ==
  \A b \in Live :
    nNumDocs[b] = Cardinality(barrels[b].docs \ (filter \cup CountedNotMarked))

\* maxDocId() covers every document of the index although the optimizing merger
\* lowers it from the barrels while a document is being inserted.
MaxDocCovers ==
  \A b \in Live : \A d \in barrels[b].docs : d <= maxDoc

\* The merger has changed the barrels and not yet made the reader dirty.
MergerUpdating ==
  \/ mpc \in {"opt_clear", "sort", "dirty"}
  \/ triggerMerge_ /\ mpc \in {"add", "policy", "output", "pause", "replace"}

\* A reader that is not dirty reads every flushed barrel that has documents, and
\* no barrel whose files are gone, except while a merge is completing.
ReaderCoherent ==
  ~dirty /\ readerOpen /\ ~MergerUpdating =>
    /\ readers \subseteq Live
    /\ \A b \in Live : Readable(b) /\ ~barrels[b].inMemory /\ b # cur => b \in readers

\* "if merging thread is removing barrel files currently, [pauseMerge()] would
\* wait": from its return to resumeMerge() no barrel is removed from the index.
NoRemovalWhilePaused == [][paused => Live \subseteq Live']_vars

\* The documents a search can find once the reader is up to date.
Stored == (UNION {barrels[b].docs : b \in Live}) \ filter

\* For a caller the index is a set of documents that insertDocument() adds to and
\* removeDocument() takes from, whatever is flushed, merged or optimized meanwhile.
Index == INSTANCE DocIndex WITH used <- nextDoc - 1, contents <- Stored
IsDocIndex == Index!Spec

\* "mark a document as deleted": no step brings back a document that is not in
\* the index, only new ones appear.
NoResurrection == [][\A d \in Stored' \ Stored : d >= nextDoc]_vars

\* optimizeIndex() comes back: the merge thread brings the barrels down to one.
OptimizeReturns == (wpc = "opt_spin") ~> (wpc = "idle")

\* waitForMergeFinish() comes back when the tasks before it are done.
WaitReturns == (qpc = "join") ~> (qpc = "idle")

\* ~IndexMergeManager() "block[s] the calling thread until the merge thread
\* finishes its current task", and not for ever.
CloseReturns == (wpc = "cls_lock") ~> (wpc = "closed")
=============================================================================
