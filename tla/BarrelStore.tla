---------------------------- MODULE BarrelStore ----------------------------
(***************************************************************************)
(* What the index manager keeps on disk, and what is found there again:    *)
(* the files of the barrels, the file "barrels" (BarrelsInfo::read() and   *)
(* write()) and the binlog of a real-time index, changed by the thread     *)
(* that indexes documents (IndexWriter) and by the merge thread            *)
(* (IndexMerger), which gives barrels new names (BarrelsInfo::sort()); the *)
(* index may be stopped, killed and opened again.                          *)
(*                                                                         *)
(* A BarrelInfo is identified by its base doc id: no two barrels of an     *)
(* index share a document, and ids are given to documents in the order in  *)
(* which they are indexed.  The files of a barrel appear, disappear and    *)
(* change their name in one step: a barrel lacking some of them cannot be  *)
(* opened (".fdi" is written last).  Merging is asynchronous; which of its *)
(* barrels the policy merges is any choice here (BTPolicy says which).     *)
(* Removed documents are not followed (IndexMerge follows them).           *)
(***************************************************************************)
EXTENDS Naturals, FiniteSets, FiniteSetsExt

CONSTANTS
  MaxDoc,      \* bound: documents that are indexed
  MaxOpens,    \* bound: times the index is opened
  Optimizing,  \* the modes in which optimizeIndex() is called
  Crashes      \* whether the process may be killed

Modes == {"default", "realtime"}
Docs == 1..MaxDoc
None == 0

ASSUME StoreAssumption ==
  /\ MaxDoc \in Nat /\ MaxOpens \in Nat \ {0}
  /\ Optimizing \subseteq Modes /\ Crashes \in BOOLEAN

VARIABLES
  \* on disk
  files,     \* file name -> documents, for the barrel files that exist
  list,      \* the file "barrels"
  binlog,    \* documents in the binlog
  \* Indexer and BarrelsInfo
  phase, mode, barrels, nBarrelCounter, cur, lock,
  \* IndexWriter, and what it is to do after flush()
  wpc, next,
  \* IndexMergeManager and the merge thread
  optimize,  \* the next task is OPTIMIZE_ALL
  mpc, sources, new, depth, todo,
  \* bounds and history
  docs, opens, acked,
  end        \* how the last process ended: "stopped", "sorting" or "working"

diskVars == <<files, list, binlog>>
openVars == <<phase, mode, opens, end>>
infoVars == <<barrels, nBarrelCounter, cur>>
writerVars == <<wpc, next, docs, acked>>
mergerVars == <<optimize, mpc, sources, new, depth, todo>>
vars == <<diskVars, openVars, infoVars, lock, writerVars, mergerVars>>

(* Names of barrels: "_i", "_mid_i", and the temporary ones of sort().     *)
Final(i) == <<"_", i>>
Mid(i) == <<"_mid_", i>>
Tmp(name) == <<"tmp", name>>

\* The file "barrels" if there is none, and after createOutput() emptied it.
Absent == [whole |-> TRUE, counter |-> 0, barrels |-> <<>>]
Torn == [whole |-> FALSE, counter |-> 0, barrels |-> <<>>]

bases == DOMAIN barrels
InMemory(b) == barrels[b].writer
OnDisk == {b \in bases : ~InMemory(b)}

(* What the other variables of a process are when it starts.               *)
Idle ==
  /\ lock' = "none" /\ wpc' = "idle" /\ next' = "idle"
  /\ optimize' = FALSE /\ mpc' = "idle" /\ sources' = {} /\ new' = None
  /\ depth' = 0 /\ todo' = {}

Init ==
  /\ files = <<>> /\ list = Absent /\ binlog = {}
  /\ phase = "open" /\ mode \in Modes /\ opens = 1 /\ end = "stopped"
  /\ barrels = <<>> /\ nBarrelCounter = 0 /\ cur = None /\ lock = "none"
  /\ wpc = "idle" /\ next = "idle" /\ docs = 0 /\ acked = {}
  /\ optimize = FALSE /\ mpc = "idle" /\ sources = {} /\ new = None
  /\ depth = 0 /\ todo = {}

Put(f, x, v) == [y \in DOMAIN f \cup {x} |-> IF y = x THEN v ELSE f[y]]
Drop(f, S) == [y \in DOMAIN f \ S |-> f[y]]

-----------------------------------------------------------------------------
(***************************************************************************)
(* IndexWriter, with Indexer::indexMutex_                                  *)
(***************************************************************************)
WriterAt(l) == phase = "open" /\ wpc = l

(* createBarrelInfo() and the rest of indexDocument().  The binlog of a    *)
(* real-time index is written document by document.                        *)
newBarrel(d) ==
  [name |-> Final(nBarrelCounter), docs |-> {d}, num |-> 1, writer |-> TRUE,
   rt |-> mode = "realtime", merge |-> "none"]

AddDocument ==
  LET d == docs + 1
  IN /\ docs' = d
     /\ IF cur = None
        THEN /\ barrels' = Put(barrels, d, newBarrel(d))
             /\ nBarrelCounter' = nBarrelCounter + 1
             /\ cur' = d
        ELSE /\ barrels' = [barrels EXCEPT ![cur].docs = @ \cup {d}, ![cur].num = @ + 1]
             /\ UNCHANGED <<nBarrelCounter, cur>>

indexDocument ==
  /\ WriterAt("idle") /\ docs < MaxDoc /\ lock = "none"
  /\ AddDocument
  /\ binlog' = IF mode = "realtime" THEN binlog \cup {docs'} ELSE binlog
  /\ UNCHANGED <<files, list, openVars, lock, wpc, next, acked, mergerVars>>

(* Faulty variant: the binlog is deleted before the barrel is flushed.     *)
CacheFullDeletesFirst ==
  /\ WriterAt("idle") /\ docs < MaxDoc /\ cur # None /\ mode = "realtime"
  /\ barrels' = [barrels EXCEPT ![cur].rt = FALSE]
  /\ binlog' = {}
  /\ wpc' = "flush" /\ next' = "deletebinlog"
  /\ UNCHANGED <<files, list, openVars, nBarrelCounter, cur, lock, docs, acked, mergerVars>>

(* A real-time index whose cache is full is flushed before the document is *)
(* added to a new barrel.                                                  *)
CacheFull ==
  /\ WriterAt("idle") /\ docs < MaxDoc /\ cur # None /\ mode = "realtime"
  /\ barrels' = [barrels EXCEPT ![cur].rt = FALSE]
  /\ wpc' = "flush" /\ next' = "deletebinlog"
  /\ UNCHANGED <<diskVars, openVars, nBarrelCounter, cur, lock, docs, acked, mergerVars>>

(* Indexer::flush(): of a real-time index, flush(false).                   *)
Flush ==
  /\ WriterAt("idle")
  /\ wpc' = (IF cur = None \/ mode = "realtime" THEN "write" ELSE "flush")
  /\ next' = "idle"
  /\ UNCHANGED <<diskVars, openVars, infoVars, lock, docs, acked, mergerVars>>

optimizeIndex ==
  /\ WriterAt("idle") /\ mode \in Optimizing
  /\ wpc' = (IF cur = None THEN "write" ELSE "flush")
  /\ next' = "optimize"
  /\ UNCHANGED <<diskVars, openVars, infoVars, lock, docs, acked, mergerVars>>

(* flush(): BarrelInfo::write(), which excludes BarrelInfo::rename().      *)
BarrelWrite ==
  /\ WriterAt("flush")
  /\ files' = Put(files, barrels[cur].name, barrels[cur].docs)
  /\ barrels' = [barrels EXCEPT ![cur].writer = FALSE]
  /\ wpc' = "addToMerge"
  /\ UNCHANGED <<list, binlog, openVars, nBarrelCounter, cur, lock, next, docs, acked, mergerVars>>

addToMerge ==
  /\ WriterAt("addToMerge")
  /\ barrels' = [b \in bases |-> IF b = cur THEN [barrels[b] EXCEPT !.merge = "queued"]
                                            ELSE barrels[b]]
  /\ wpc' = "write"
  /\ UNCHANGED <<diskVars, openVars, nBarrelCounter, cur, lock, next, docs, acked, mergerVars>>

(* BarrelsInfo::write(): the file is created anew, then written.           *)
Contents ==
  [whole |-> TRUE, counter |-> nBarrelCounter,
   barrels |-> [b \in bases |-> [name |-> barrels[b].name, num |-> barrels[b].num,
                                 rt |-> barrels[b].rt]]]

(* With no current barrel, an index that has none is not written; the      *)
(* barrels are counted without the lock.                                   *)
writeSkipped ==
  /\ WriterAt("write") /\ cur = None /\ bases = {}
  /\ wpc' = (IF next = "closing" THEN "closing" ELSE "written")
  /\ UNCHANGED <<diskVars, openVars, infoVars, lock, next, docs, acked, mergerVars>>

createOutput ==
  /\ WriterAt("write") /\ (cur = None => bases # {}) /\ lock = "none"
  /\ lock' = "writer" /\ list' = Torn
  /\ wpc' = "writing"
  /\ UNCHANGED <<files, binlog, openVars, infoVars, next, docs, acked, mergerVars>>

write ==
  /\ WriterAt("writing")
  /\ lock' = "none" /\ list' = Contents
  /\ wpc' = (IF next = "closing" THEN "closing" ELSE "written")
  /\ UNCHANGED <<files, binlog, openVars, infoVars, next, docs, acked, mergerVars>>

(* The end of flush(), and of the call it was part of: every document that *)
(* was indexed so far is flushed.                                          *)
written ==
  /\ WriterAt("written")
  /\ acked' = 1..docs
  /\ cur' = IF mode = "realtime" /\ next = "idle" THEN cur ELSE None
  /\ wpc' = next
  /\ UNCHANGED <<diskVars, openVars, barrels, nBarrelCounter, lock, next, docs, mergerVars>>

(* Faulty variant: the binlog is not deleted.                              *)
keepbinlog ==
  /\ WriterAt("deletebinlog") /\ lock = "none"
  /\ AddDocument
  /\ binlog' = binlog \cup {docs'}
  /\ wpc' = "idle"
  /\ UNCHANGED <<files, list, openVars, lock, next, acked, mergerVars>>

(* The rest of indexDocument() with a full cache: deletebinlog(), and the  *)
(* document goes to a new barrel.                                          *)
deletebinlog ==
  /\ WriterAt("deletebinlog") /\ lock = "none"
  /\ AddDocument
  /\ binlog' = {docs'}
  /\ wpc' = "idle"
  /\ UNCHANGED <<files, list, openVars, lock, next, acked, mergerVars>>

(* The rest of optimizeIndex(): the queued tasks are dropped for the new   *)
(* one, and the thread waits until one barrel is left.                     *)
Unqueued == [b \in bases |-> IF barrels[b].merge = "queued"
                             THEN [barrels[b] EXCEPT !.merge = "none"] ELSE barrels[b]]

requestOptimize ==
  /\ WriterAt("optimize")
  /\ binlog' = {}
  /\ barrels' = Unqueued /\ optimize' = TRUE
  /\ wpc' = "waiting"
  /\ UNCHANGED <<files, list, openVars, nBarrelCounter, cur, lock, next, docs, acked,
                 mpc, sources, new, depth, todo>>

waitOptimize ==
  /\ WriterAt("waiting") /\ Cardinality(bases) <= 1
  /\ wpc' = "idle"
  /\ UNCHANGED <<diskVars, openVars, infoVars, lock, next, docs, acked, mergerVars>>

-----------------------------------------------------------------------------
(***************************************************************************)
(* The merge thread.  A task either adds a barrel to the policy or merges  *)
(* all of them; OPTIMIZE_ALL is the first task, for optimizeIndex() has    *)
(* dropped the earlier ones.                                               *)
(***************************************************************************)
MergerAt(l) == phase = "open" /\ mpc = l

TakeBarrel(b) ==
  /\ MergerAt("idle") /\ ~optimize
  /\ b \in bases /\ barrels[b].merge = "queued"
  /\ barrels' = [barrels EXCEPT ![b].merge = "layer"]
  /\ mpc' = "policy" /\ depth' = 1
  /\ UNCHANGED <<diskVars, openVars, nBarrelCounter, cur, lock, writerVars,
                 optimize, sources, new, todo>>

(* addBarrel() that merges nothing (more).                                 *)
PolicyDone ==
  /\ MergerAt("policy")
  /\ mpc' = (IF depth = 1 THEN "idle" ELSE "sort")
  /\ UNCHANGED <<diskVars, openVars, infoVars, lock, writerVars, optimize, sources, new, depth, todo>>

(* mergeBarrel(), outputNewBarrel(): the new barrel's files are written.   *)
outputNewBarrel(S, name) ==
  /\ LET all == UNION {barrels[b].docs : b \in S}
     IN /\ files' = Put(files, name, all)
        /\ new' = [name |-> name, docs |-> all, num |-> 0, writer |-> FALSE, rt |-> FALSE,
                   merge |-> IF name = Mid(0) THEN "none" ELSE "layer"]
  /\ sources' = S /\ todo' = S
  /\ mpc' = "output"
  /\ UNCHANGED <<list, binlog, openVars, nBarrelCounter, cur, lock, writerVars>>

(* The policy merges some of its barrels.                                  *)
MergeLayers ==
  /\ MergerAt("policy")
  /\ \E S \in SUBSET {b \in bases : barrels[b].merge = "layer"} :
       /\ Cardinality(S) > 1
       /\ outputNewBarrel(S, Mid(depth))
  /\ depth' = depth + 1
  /\ UNCHANGED <<barrels, optimize>>

(* OPTIMIZE_ALL: the policy forgets its barrels, and all barrels that are  *)
(* not in memory are merged, unless there is only one barrel.              *)
Renewed == [b \in bases |-> IF barrels[b].merge = "layer"
                            THEN [barrels[b] EXCEPT !.merge = "none"] ELSE barrels[b]]

mergeBarrels ==
  /\ MergerAt("idle") /\ optimize /\ lock = "none"
  /\ optimize' = FALSE /\ depth' = 0
  /\ barrels' = Renewed
  /\ IF Cardinality(bases) > 1 THEN outputNewBarrel(OnDisk, Mid(0))
     ELSE UNCHANGED <<diskVars, openVars, nBarrelCounter, cur, lock, writerVars,
                      mpc, sources, new, todo>>

(* createNewBarrelInfo(): with BarrelsInfo::mutex_ the merged barrels are  *)
(* deleted one by one and the new one is added.                            *)
removeBarrel(b) ==
  /\ MergerAt("output") /\ b \in todo /\ lock \in {"none", "merger"}
  /\ lock' = "merger"
  /\ files' = Drop(files, {barrels[b].name})
  /\ barrels' = Drop(barrels, {b})
  /\ new' = [new EXCEPT !.num = @ + barrels[b].num]
  /\ todo' = todo \ {b}
  /\ UNCHANGED <<list, binlog, openVars, nBarrelCounter, cur, writerVars,
                 optimize, mpc, sources, depth>>

addBarrel ==
  /\ MergerAt("output") /\ todo = {}
  /\ barrels' = Put(barrels, Min(sources), new)
  /\ lock' = "none" /\ sources' = {} /\ new' = None
  /\ mpc' = (IF new.merge = "layer" THEN "policy" ELSE "sort")
  /\ UNCHANGED <<diskVars, openVars, nBarrelCounter, cur, writerVars, optimize, depth, todo>>

(* sort(): with BarrelsInfo::mutex_ every barrel gets a temporary name and *)
(* then its final one, in the order of the base doc ids.  Only the files   *)
(* of barrels that are not in memory are renamed; an existing file is not  *)
(* overwritten ("clash": the exception ends the thread).                   *)
sort ==
  /\ MergerAt("sort") /\ lock = "none"
  /\ lock' = "merger" /\ todo' = bases
  /\ mpc' = (IF Cardinality(bases) > 1 THEN "tmp" ELSE "final")
  /\ UNCHANGED <<diskVars, openVars, infoVars, writerVars, optimize, sources, new, depth>>

renameFiles(from, to) ==
  [n \in (DOMAIN files \ {from}) \cup {to} |-> IF n = to THEN files[from] ELSE files[n]]

rename(b, to) ==
  LET from == barrels[b].name
      clash == ~InMemory(b) /\ from # to /\ to \in DOMAIN files
  IN /\ files' = IF InMemory(b) \/ clash THEN files ELSE renameFiles(from, to)
     /\ barrels' = IF clash THEN barrels ELSE [barrels EXCEPT ![b].name = to]
     /\ todo' = todo \ {b}
     /\ UNCHANGED <<list, binlog, openVars, nBarrelCounter, cur, lock, writerVars,
                    optimize, sources, new, depth>>
     /\ mpc' = IF clash THEN "clash" ELSE mpc

renameTmp(b) ==
  /\ MergerAt("tmp") /\ b \in todo /\ b = Min(todo)
  /\ rename(b, Tmp(barrels[b].name))

TmpDone ==
  /\ MergerAt("tmp") /\ todo = {}
  /\ todo' = bases /\ mpc' = "final"
  /\ UNCHANGED <<diskVars, openVars, infoVars, lock, writerVars, optimize, sources, new, depth>>

(* Faulty variants: the names start at 1, or a barrel in memory keeps its  *)
(* temporary name.                                                         *)
renameFinalFrom1(b) ==
  /\ MergerAt("final") /\ b \in todo /\ b = Min(todo)
  /\ rename(b, Final(Cardinality(bases \ todo) + 1))

renameFinalOnDisk(b) ==
  /\ MergerAt("final") /\ b \in todo /\ b = Min(todo)
  /\ rename(b, IF InMemory(b) THEN barrels[b].name ELSE Final(Cardinality(bases \ todo)))

renameFinal(b) ==
  /\ MergerAt("final") /\ b \in todo /\ b = Min(todo)
  /\ rename(b, Final(Cardinality(bases \ todo)))

SortDone ==
  /\ MergerAt("final") /\ todo = {}
  /\ lock' = "none" /\ mpc' = "write"
  /\ UNCHANGED <<diskVars, openVars, infoVars, writerVars, optimize, sources, new, depth, todo>>

(* BarrelsInfo::write() by the merge thread.                               *)
mergerCreateOutput ==
  /\ MergerAt("write") /\ lock = "none"
  /\ lock' = "merger" /\ list' = Torn
  /\ mpc' = "writing"
  /\ UNCHANGED <<files, binlog, openVars, infoVars, writerVars, optimize, sources, new, depth, todo>>

mergerWrite ==
  /\ MergerAt("writing")
  /\ lock' = "none" /\ list' = Contents
  /\ mpc' = "idle"
  /\ UNCHANGED <<files, binlog, openVars, infoVars, writerVars, optimize, sources, new, depth, todo>>

-----------------------------------------------------------------------------
(***************************************************************************)
(* Indexer::close(): IndexWriter::close() writes the file "barrels" if no  *)
(* barrel is in memory; the merge thread ends its task and no other.  The  *)
(* owner flushes the index first, as every test does: a barrel in memory   *)
(* is one of a real-time index and has been listed since it was created.   *)
(***************************************************************************)
Saved == cur = None \/ (mode = "realtime" /\ cur \in DOMAIN list.barrels)

close ==
  /\ WriterAt("idle") /\ Saved
  /\ wpc' = (IF cur = None THEN "write" ELSE "closing")
  /\ next' = "closing" /\ cur' = None
  /\ UNCHANGED <<diskVars, openVars, barrels, nBarrelCounter, lock, docs, acked, mergerVars>>

dropTasks ==
  /\ WriterAt("closing")
  /\ barrels' = Unqueued /\ optimize' = FALSE
  /\ wpc' = "joining"
  /\ UNCHANGED <<diskVars, openVars, nBarrelCounter, cur, lock, next, docs, acked,
                 mpc, sources, new, depth, todo>>

(* What is in memory is gone once the process has ended.                   *)
Down ==
  /\ phase' = "down"
  /\ barrels' = <<>> /\ nBarrelCounter' = 0 /\ cur' = None
  /\ Idle
  /\ UNCHANGED <<diskVars, mode, opens, docs, acked>>

join ==
  /\ WriterAt("joining") /\ mpc = "idle"
  /\ Down /\ end' = "stopped"

(* The process is killed.  If no thread is inside an operation and the     *)
(* index is flushed this is as good as close(); from sort() to the end of  *)
(* write() the file "barrels" has names that may be those of other barrels.*)
Kill ==
  /\ Crashes /\ phase = "open"
  /\ Down
  /\ end' = IF wpc = "idle" /\ mpc = "idle" /\ Saved THEN "stopped"
            ELSE IF mpc \in {"tmp", "final", "write"} THEN "sorting" ELSE "working"

(* What Indexer::setIndexManagerConfig() finds: tryResumeExistingBarrels() *)
(* makes the last real-time barrel the current one, with nothing in memory *)
(* but what checkbinlog() puts there; the others are read from their       *)
(* files.  A barrel without documents, as it counts them, is not searched. *)
Listed == list.barrels
RealTimeBarrels == {b \in DOMAIN Listed : Listed[b].rt}
Current == IF RealTimeBarrels = {} THEN None ELSE Max(RealTimeBarrels)

Readable ==
  /\ list.whole
  /\ \A b \in DOMAIN Listed \ {Current} : Listed[b].name \in DOMAIN files

DocsOf(b) == IF b = Current THEN binlog ELSE files[Listed[b].name]

read(b) ==
  [name |-> Listed[b].name, docs |-> DocsOf(b), num |-> Listed[b].num,
   writer |-> b = Current, rt |-> Listed[b].rt,
   merge |-> IF Listed[b].rt THEN "none" ELSE "queued"]

open ==
  /\ phase = "down" /\ end = "stopped" /\ opens < MaxOpens /\ Readable
  /\ phase' = "open" /\ opens' = opens + 1
  /\ \E m \in Modes : mode' = IF binlog # {} THEN "realtime" ELSE m
  /\ LET loaded == [b \in DOMAIN Listed |-> read(b)]
         replay == binlog # {} /\ Current = None
     IN /\ barrels' = IF replay
                      THEN Put(loaded, Min(binlog),
                               [name |-> Final(list.counter), docs |-> binlog, num |-> 0,
                                writer |-> TRUE, rt |-> TRUE, merge |-> "none"])
                      ELSE loaded
        /\ nBarrelCounter' = list.counter + (IF replay THEN 1 ELSE 0)
        /\ cur' = IF replay THEN Min(binlog) ELSE Current
  /\ UNCHANGED <<diskVars, lock, wpc, next, docs, acked, mergerVars, end>>

Stopped == phase = "down" /\ UNCHANGED vars

-----------------------------------------------------------------------------
WriterStep ==
  \/ BarrelWrite \/ addToMerge \/ writeSkipped \/ createOutput \/ write \/ written
  \/ deletebinlog \/ requestOptimize \/ waitOptimize \/ dropTasks \/ join

Calls == indexDocument \/ CacheFull \/ Flush \/ optimizeIndex \/ close

MergerStep ==
  \/ PolicyDone \/ MergeLayers \/ mergeBarrels \/ addBarrel \/ sort \/ TmpDone \/ SortDone
  \/ mergerCreateOutput \/ mergerWrite
  \/ \E b \in bases : TakeBarrel(b) \/ removeBarrel(b) \/ renameTmp(b) \/ renameFinal(b)

Next == WriterStep \/ Calls \/ MergerStep \/ Kill \/ open \/ Stopped

Spec == Init /\ [][Next]_vars
-----------------------------------------------------------------------------
Names ==
  LET plain == {Final(i) : i \in 0..MaxDoc} \cup {Mid(i) : i \in 0..MaxDoc}
  IN plain \cup {Tmp(n) : n \in plain}

Info == [name : Names, docs : SUBSET Docs, num : Nat, writer : BOOLEAN, rt : BOOLEAN,
         merge : {"none", "queued", "layer"}]

(***************************************************************************)
(* The types of the variables.  The names that newBarrel(), the mergers    *)
(* and sort() give barrels stay within those of the documents indexed.     *)
(***************************************************************************)
TypeOK ==
  /\ DOMAIN files \subseteq Names /\ \A n \in DOMAIN files : files[n] \subseteq Docs
  /\ list.counter \in Nat /\ DOMAIN list.barrels \subseteq Docs
  /\ binlog \subseteq Docs
  /\ phase \in {"open", "down"} /\ mode \in Modes /\ opens \in 1..MaxOpens
  /\ bases \subseteq Docs /\ \A b \in bases : barrels[b] \in Info
  /\ nBarrelCounter \in Nat /\ cur \in Docs \cup {None}
  /\ lock \in {"none", "writer", "merger"}
  /\ sources \subseteq Docs /\ todo \subseteq Docs /\ depth \in 0..MaxDoc
  /\ docs \in 0..MaxDoc /\ acked \subseteq Docs

(***************************************************************************)
(* Between the operations on files the files agree with the list of        *)
(* barrels in memory: the names of the barrels are distinct, the name the  *)
(* next barrel gets is free although sort() does not set the counter, and  *)
(* a barrel that is not in memory finds its own documents in its files.    *)
(***************************************************************************)
FilesMatch ==
  /\ \A b, c \in bases : b # c => barrels[b].name # barrels[c].name
  /\ \A b \in bases : barrels[b].name # Final(nBarrelCounter)
  /\ \A b \in OnDisk : /\ barrels[b].name \in DOMAIN files
                        /\ files[barrels[b].name] = barrels[b].docs
  /\ mpc # "clash"

Found == UNION {DocsOf(b) : b \in {c \in DOMAIN Listed : Listed[c].num > 0}}

(***************************************************************************)
(* After close(), or after the process was killed outside an operation,    *)
(* the index can be opened again and every document that a flush has       *)
(* returned for is found, in one barrel only.                              *)
(***************************************************************************)
StopKeepsDocs ==
  phase = "down" /\ end = "stopped" =>
    /\ Readable /\ acked \subseteq Found
    /\ \A b, c \in DOMAIN Listed : b # c => DocsOf(b) \cap DocsOf(c) = {}

(***************************************************************************)
(* A crash anywhere in a flush or a merge, before sort() gives barrels the *)
(* names of others, either keeps the documents of every flush that has     *)
(* returned or leaves an index that cannot be opened: the documents are    *)
(* not lost unnoticed.                                                     *)
(***************************************************************************)
CrashNoticed ==
  phase = "down" /\ end # "sorting" /\ Readable => acked \subseteq Found
=============================================================================
