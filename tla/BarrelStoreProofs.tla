------------------------- MODULE BarrelStoreProofs -------------------------
(***************************************************************************)
(* Proofs that the index manager finds on disk what it has put there: the  *)
(* files of the barrels, the file "barrels" and the binlog agree, and a    *)
(* stop or a crash loses no flushed document unnoticed.  They hold for     *)
(* every number of documents and of openings, and without optimizeIndex()  *)
(* of a real-time index, which does lose documents (store_realtime.cfg).   *)
(***************************************************************************)
EXTENDS BarrelStore, DataFacts, FiniteSetTheorems, TLAPS

-----------------------------------------------------------------------------
(* Names of barrels *)

Plain == {Final(i) : i \in 0..MaxDoc} \cup {Mid(i) : i \in 0..MaxDoc}

\* Names of different kinds, or with different numbers, differ.
LEMMA NamesDiffer ==
  /\ \A i, j : Final(i) = Final(j) => i = j
  /\ \A i, j : Mid(i) = Mid(j) => i = j
  /\ \A m, n : Tmp(m) = Tmp(n) => m = n
  /\ \A i, j : Final(i) # Mid(j)
  /\ \A i, n : Final(i) # Tmp(n) /\ Mid(i) # Tmp(n)
BY DEF Final, Mid, Tmp

\* The names of the type: plain ones, and temporary ones made from them.
LEMMA NamesAre == Names = Plain \cup {Tmp(n) : n \in Plain}
BY DEF Names, Plain

-----------------------------------------------------------------------------
(* The inductive invariant *)

WriterPC == {"idle", "flush", "addToMerge", "write", "writing", "written", "deletebinlog",
             "optimize", "waiting", "closing", "joining"}
MergerPC == {"idle", "policy", "output", "sort", "tmp", "final", "write", "writing"}

\* What is in the file "barrels".
ListTypes ==
  /\ list.whole \in BOOLEAN /\ list.counter \in Nat /\ DOMAIN Listed \subseteq Docs
  /\ \A b \in DOMAIN Listed : Listed[b].num \in Nat \ {0} /\ Listed[b].rt \in BOOLEAN

\* TypeOK, and the types it leaves out; the merge thread never meets a name clash.
Types ==
  /\ TypeOK /\ ListTypes
  /\ wpc \in WriterPC /\ next \in {"idle", "deletebinlog", "optimize", "closing"}
  /\ mpc \in MergerPC /\ optimize \in BOOLEAN
  /\ mpc = "output" => new \in Info

\* The writer: what it is to do after a flush, and when it has a current barrel
\* and the lock.
WriterInv ==
  /\ cur \in {None} \cup 1 .. docs
  /\ lock = "writer" <=> wpc = "writing"
  /\ wpc \in {"flush", "addToMerge"} =>
       cur # None /\ next # "closing" /\ (mode = "realtime" => next = "deletebinlog")
  /\ wpc = "written" => next # "closing"
  /\ wpc \in {"deletebinlog", "optimize"} => next = wpc
  /\ wpc \in {"write", "writing"} /\ next = "deletebinlog" => cur # None
  /\ wpc \in {"deletebinlog", "optimize", "waiting", "closing", "joining"} => cur = None
  /\ wpc \in {"write", "writing"} /\ next = "closing" => cur = None
  /\ mode = "realtime" => next # "optimize" /\ ~optimize
  /\ next = "deletebinlog" => mode = "realtime" /\ (wpc # "idle" => docs < MaxDoc)

\* The merger has removed some of the barrels it merges, but not yet added the new one.
Removing == mpc = "output" /\ todo # sources

\* The merger: when it has the lock, and what it knows of the new barrel.
MergerInv ==
  /\ lock = "merger" <=> (Removing \/ mpc \in {"tmp", "final", "writing"})
  /\ mpc = "policy" => depth # 0
  /\ mpc \in {"output", "sort"} => depth # 1
  /\ mpc = "output" =>
       /\ todo \subseteq sources /\ sources \subseteq 1 .. docs /\ sources # {}
       /\ \A b \in todo : b \in bases /\ ~InMemory(b)
       /\ \A b \in sources \ todo : b \notin bases
       /\ new.name = Mid(IF depth = 0 THEN 0 ELSE depth - 1)
       /\ new.merge = (IF depth = 0 THEN "none" ELSE "layer")
       /\ ~new.writer /\ ~new.rt
       /\ todo # sources => new.num # 0
  /\ mpc \in {"tmp", "final"} => todo \subseteq bases

\* The barrels of the policy.
Layer == {b \in bases : barrels[b].merge = "layer"}

\* How many barrels there are: nBarrelCounter is not below, although sort() gives
\* names from 0 on and does not set it, and a merge leaves the policy fewer
\* barrels, so that the number of an intermediate name is bounded.
BoundInv ==
  /\ bases \subseteq 1 .. docs
  /\ nBarrelCounter <= docs
  /\ Cardinality(bases) <= nBarrelCounter
  /\ mpc = "output" => Cardinality(bases \ todo) < nBarrelCounter
  /\ mpc = "policy" => Cardinality(Layer) + depth <= MaxDoc + 1
  /\ mpc = "output" /\ depth # 0 => Cardinality(Layer \ todo) + depth <= MaxDoc

\* An index without documents has nothing to merge, and its list is empty.
EmptyInv ==
  docs = 0 => mpc = "idle" /\ wpc # "writing" /\ list.whole /\ DOMAIN Listed = {}

\* flush(false) of a real-time index, which leaves the barrel in memory.
FlushKeeps == wpc \in {"write", "writing", "written"} /\ mode = "realtime" /\ next = "idle"

\* At most one barrel is in memory: the current one until it is flushed.
MemoryInv ==
  /\ \A b, c \in bases : InMemory(b) /\ InMemory(c) => b = c
  /\ \A b \in bases : InMemory(b) =>
       /\ barrels[b].merge = "none"
       /\ b = cur \/ (wpc \in {"closing", "joining"} /\ mode = "realtime")
       /\ wpc # "addToMerge"
       /\ wpc \in {"write", "writing", "written"} => FlushKeeps
  /\ cur # None /\ (wpc \in {"idle", "flush"} \/ FlushKeeps) => cur \in bases /\ InMemory(cur)

\* The binlog of a real-time index that is flushed, but not yet deleted.
Obsolete ==
  next = "deletebinlog" /\ wpc \in {"addToMerge", "write", "writing", "written", "deletebinlog"}

\* The binlog has the documents of the real-time barrel in memory, and of none
\* otherwise; it is deleted after the list no longer has that barrel as such.
BinlogInv ==
  /\ mode = "default" => binlog = {}
  /\ \A b \in bases : barrels[b].rt => InMemory(b) /\ mode = "realtime"
  /\ \A b \in bases : InMemory(b) /\ mode = "realtime" =>
       binlog = barrels[b].docs /\ (barrels[b].rt <=> wpc # "flush")
  /\ (\A b \in bases : ~InMemory(b)) => binlog = {} \/ Obsolete
  /\ wpc \in {"written", "deletebinlog"} /\ next = "deletebinlog" => RealTimeBarrels = {}
  /\ \A b, c \in RealTimeBarrels : b = c

\* The numbers of the intermediate names that barrels of the index have: those of
\* the merges since the last sort().
MidIn(k) ==
  \/ mpc = "policy" /\ 1 <= k /\ k < depth
  \/ mpc = "output" /\ 1 <= k /\ k + 1 < depth
  \/ mpc = "sort" /\ ((depth = 0 /\ k = 0) \/ (1 <= k /\ k < depth))

PlainName(n, counter) ==
  \/ \E i \in Nat : i < counter /\ n = Final(i)
  \/ \E k \in Nat : MidIn(k) /\ n = Mid(k)

\* No two barrels have the same name, and the number of a final name is one that
\* was given out.
NameInv ==
  /\ \A b, c \in bases : b # c => barrels[b].name # barrels[c].name
  /\ \A b \in bases, i \in Nat : barrels[b].name = Final(i) => i < nBarrelCounter
  /\ mpc \notin {"tmp", "final"} => \A b \in bases : PlainName(barrels[b].name, nBarrelCounter)

\* sort(): a temporary name is not that of a barrel which is yet to be renamed,
\* and the final names given so far are "_0", "_1" ...
SortInv ==
  /\ mpc = "tmp" =>
       /\ \A b \in todo : barrels[b].name \in Plain
       /\ \A c \in bases \ todo : \E n \in Plain : barrels[c].name = Tmp(n)
       /\ \A b \in todo, c \in bases \ todo : barrels[c].name # Tmp(barrels[b].name)
  /\ mpc = "final" =>
       /\ \A c \in bases \ todo :
            \E i \in Nat : i < Cardinality(bases \ todo) /\ barrels[c].name = Final(i)
       /\ \A b \in todo : bases = {b} \/ \E n \in Plain : barrels[b].name = Tmp(n)

\* The files are those of the barrels that are not in memory and of the new barrel.
FileInv ==
  /\ \A n \in DOMAIN files :
       \/ \E b \in bases : ~InMemory(b) /\ barrels[b].name = n
       \/ mpc = "output" /\ n = new.name
  /\ \A b \in bases : ~InMemory(b) =>
       barrels[b].name \in DOMAIN files /\ files[barrels[b].name] = barrels[b].docs
  /\ mpc = "output" => new.name \in DOMAIN files /\ files[new.name] = new.docs

\* Every document is in one barrel, or in the new one, and every barrel has its
\* base document.
CoverInv ==
  /\ \A b \in bases :
       b \in barrels[b].docs /\ barrels[b].docs \subseteq 1 .. docs /\ barrels[b].num # 0
  /\ \A b, c \in bases : b # c => barrels[b].docs \cap barrels[c].docs = {}
  /\ \A d \in 1 .. docs :
       (\E b \in bases : d \in barrels[b].docs) \/ (mpc = "output" /\ d \in new.docs)
  /\ mpc = "output" =>
       /\ sources \subseteq new.docs /\ new.docs \subseteq 1 .. docs
       /\ \A b \in todo : barrels[b].docs \subseteq new.docs
       /\ \A b \in bases \ todo : barrels[b].docs \cap new.docs = {}
       /\ todo = sources => \A d \in new.docs : \E b \in todo : d \in barrels[b].docs

Flushing == wpc \in {"addToMerge", "write", "writing", "written"} /\ cur # None

\* A document on disk is one a flush has returned for, or is being flushed.
AckInv ==
  /\ acked \subseteq 1 .. docs
  /\ ~Flushing => /\ \A b \in bases : ~InMemory(b) => barrels[b].docs \subseteq acked
                  /\ mpc = "output" => new.docs \subseteq acked

Renaming == mpc \in {"tmp", "final", "write"}

\* A barrel of the list is still in the index.
Alive(b) == b \in bases /\ barrels[b].name = Listed[b].name

\* The list, while no barrel may have the name of another: the name of a listed
\* barrel is its own or that of no barrel.
ListInv ==
  list.whole =>
    /\ list.counter <= nBarrelCounter /\ Cardinality(DOMAIN Listed) <= list.counter
    /\ ~Renaming => \A b \in DOMAIN Listed :
         /\ PlainName(Listed[b].name, list.counter)
         /\ \/ Alive(b)
            \/ /\ \A c \in bases : barrels[c].name # Listed[b].name
               /\ mpc = "output" => new.name # Listed[b].name

\* If all listed barrels are still in the index, they have the documents of every
\* flush that has returned, with those of the binlog.
ClaimInv ==
  list.whole /\ ~Renaming /\ (\A b \in DOMAIN Listed \ {Current} : Alive(b)) =>
    \A d \in 1 .. docs : d \in acked \/ wpc = "written" =>
      \/ \E b \in DOMAIN Listed \ {Current} : d \in barrels[b].docs
      \/ Current # None /\ d \in binlog

\* No flush and no merge is under way.
Agreeing ==
  /\ wpc \in {"idle", "written", "deletebinlog", "optimize", "waiting", "closing", "joining"}
  /\ mpc = "idle" \/ (mpc = "policy" /\ depth = 1)

\* Then the list is that of the barrels of the index, but for the barrel in memory.
AgreeInv ==
  Agreeing =>
    /\ list.whole
    /\ \A b \in DOMAIN Listed : Alive(b) /\ Listed[b].rt = barrels[b].rt
    /\ \A b \in bases : b \in DOMAIN Listed \/ (InMemory(b) /\ wpc \notin {"closing", "joining"})

\* An index that is open.
OpenInv ==
  /\ WriterInv /\ MergerInv /\ BoundInv /\ EmptyInv /\ MemoryInv /\ BinlogInv
  /\ NameInv /\ SortInv /\ FileInv /\ CoverInv /\ AckInv /\ ListInv /\ ClaimInv /\ AgreeInv

\* An index that was stopped: what open() finds on disk.
StopInv ==
  /\ list.whole /\ list.counter <= docs /\ Cardinality(DOMAIN Listed) <= list.counter
  /\ DOMAIN Listed \subseteq 1 .. docs
  /\ \A b \in DOMAIN Listed : \E i \in Nat : i < list.counter /\ Listed[b].name = Final(i)
  /\ \A b, c \in DOMAIN Listed : b # c => Listed[b].name # Listed[c].name
  /\ \A b, c \in DOMAIN Listed : b # c => DocsOf(b) \cap DocsOf(c) = {}
  /\ \A n \in DOMAIN files : \E b \in DOMAIN Listed : b # Current /\ n = Listed[b].name
  /\ \A b \in DOMAIN Listed : b # Current => Listed[b].name \in DOMAIN files /\ DocsOf(b) \subseteq acked
  /\ \A b \in DOMAIN Listed : b \in DocsOf(b) /\ DocsOf(b) \subseteq 1 .. docs
  /\ \A d \in 1 .. docs : \E b \in DOMAIN Listed : d \in DocsOf(b)
  /\ \A b, c \in RealTimeBarrels : b = c
  /\ binlog # {} <=> Current # None
  /\ acked \subseteq 1 .. docs

\* An index that is not open.
DownInv ==
  /\ barrels = <<>> /\ nBarrelCounter = 0 /\ cur = None
  /\ lock = "none" /\ wpc = "idle" /\ next = "idle" /\ ~optimize /\ mpc = "idle"
  /\ sources = {} /\ todo = {} /\ depth = 0
  /\ CrashNoticed
  /\ end = "stopped" => StopInv

StoreInv ==
  /\ Types
  /\ phase = "open" => OpenInv
  /\ phase = "down" => DownInv

-----------------------------------------------------------------------------
(* What the steps leave alone *)

\* The barrels are finitely many, and typed.
LEMMA TypedBarrels ==
  ASSUME Types
  PROVE  /\ IsFiniteSet(bases) /\ bases \in SUBSET Docs /\ None \notin bases
         /\ \A S : S \subseteq bases => IsFiniteSet(S) /\ Cardinality(S) \in Nat
         /\ \A b \in bases : barrels[b] \in Info
         /\ mode \in {"default", "realtime"}
<1>1. IsFiniteSet(Docs)
  BY StoreAssumption, FS_Interval DEF Docs
<1>2. bases \in SUBSET Docs /\ IsFiniteSet(bases)
  BY <1>1, FS_Subset DEF Types, TypeOK
<1>3. \A S : S \subseteq bases => IsFiniteSet(S) /\ Cardinality(S) \in Nat
  BY <1>2, FS_Subset, FS_CardinalityType
<1>4. None \notin bases
  BY <1>2, StoreAssumption DEF Docs, None
<1>. QED  BY <1>2, <1>3, <1>4 DEF Types, TypeOK, Modes

\* The fields of a barrel.
LEMMA InfoFields ==
  ASSUME NEW r \in Info
  PROVE  /\ r.name \in Names /\ r.docs \in SUBSET Docs /\ r.num \in Nat
         /\ r.writer \in BOOLEAN /\ r.rt \in BOOLEAN /\ r.merge \in {"none", "queued", "layer"}
         /\ r = [name |-> r.name, docs |-> r.docs, num |-> r.num, writer |-> r.writer,
                 rt |-> r.rt, merge |-> r.merge]
BY DEF Info

\* The barrel that is no longer a real-time one, and the one with one more document.
LEMMA RealTimeChanged ==
  ASSUME NEW r \in Info, NEW s, s = [r EXCEPT !.rt = FALSE]
  PROVE  /\ s \in Info /\ s.name = r.name /\ s.docs = r.docs /\ s.num = r.num
         /\ s.writer = r.writer /\ s.rt = FALSE /\ s.merge = r.merge
BY DEF Info

LEMMA DocumentAdded ==
  ASSUME NEW r \in Info, NEW d \in Docs, NEW s,
         s = [name |-> r.name, docs |-> r.docs \cup {d}, num |-> r.num + 1, writer |-> r.writer,
              rt |-> r.rt, merge |-> r.merge]
  PROVE  /\ s \in Info /\ s.name = r.name /\ s.docs = r.docs \cup {d} /\ s.num = r.num + 1
         /\ s.writer = r.writer /\ s.rt = r.rt /\ s.merge = r.merge
<1>1. r.docs \cup {d} \in SUBSET Docs /\ r.num + 1 \in Nat
  BY InfoFields
<1>. QED  BY <1>1, InfoFields DEF Info

\* Steps that keep the barrels, their names and their documents.
SameNames ==
  /\ bases' = bases
  /\ \A b \in bases :
       /\ barrels'[b].name = barrels[b].name /\ barrels'[b].docs = barrels[b].docs
       /\ barrels'[b].num = barrels[b].num /\ barrels'[b] \in Info

\* Steps that also keep them in memory or on disk.
SameBarrels ==
  /\ SameNames
  /\ \A b \in bases : /\ barrels'[b].writer = barrels[b].writer
                      /\ barrels[b].writer => barrels'[b].merge = "none"

SameRealTime == \A b \in bases : barrels'[b].rt = barrels[b].rt

LEMMA SameIfUnchanged ==
  ASSUME Types, MemoryInv, barrels' = barrels
  PROVE  SameNames /\ SameBarrels /\ SameRealTime /\ Layer' = Layer
<1>1. \A b \in bases : barrels[b] \in Info
  BY TypedBarrels
<1>. QED  BY <1>1 DEF SameNames, SameBarrels, SameRealTime, MemoryInv, InMemory, bases, Layer

LEMMA ListSame ==
  ASSUME list' = list
  PROVE  Listed' = Listed /\ RealTimeBarrels' = RealTimeBarrels /\ Current' = Current
BY DEF Listed, RealTimeBarrels, Current

\* Steps of the writer that change neither the documents, the files nor the state
\* of the merger.
MergerSame == UNCHANGED <<mpc, sources, new, depth, todo>>

LEMMA NamesFrame ==
  ASSUME Types, OpenInv, SameNames, MergerSame, Layer' \subseteq Layer,
         UNCHANGED <<nBarrelCounter, docs>>
  PROVE  BoundInv' /\ NameInv' /\ SortInv' /\ CoverInv'
<1>. USE DEF MergerSame
<1>1. BoundInv'
  <2>1. Cardinality(Layer') <= Cardinality(Layer) /\ Cardinality(Layer' \ todo) <= Cardinality(Layer \ todo)
    <3>1. IsFiniteSet(Layer) /\ IsFiniteSet(Layer \ todo)
      BY TypedBarrels DEF Layer
    <3>. QED  BY <3>1, FS_Subset
  <2>2. /\ Cardinality(Layer) \in Nat /\ Cardinality(Layer \ todo) \in Nat
        /\ Cardinality(Layer') \in Nat /\ Cardinality(Layer' \ todo) \in Nat
    <3>1. Layer \subseteq bases /\ Layer' \subseteq bases
      BY DEF Layer
    <3>. QED  BY <3>1, TypedBarrels
  <2>3. depth \in Nat
    BY StoreAssumption DEF Types, TypeOK
  <2>. QED  BY <2>1, <2>2, <2>3, StoreAssumption DEF OpenInv, BoundInv, SameNames
<1>2. NameInv'
  BY DEF OpenInv, NameInv, PlainName, MidIn, SameNames
<1>3. SortInv'
  <2>1. CASE mpc = "tmp"
    <3>1. /\ todo \subseteq bases
          /\ \A b \in todo : barrels[b].name \in Plain
          /\ \A c \in bases \ todo : \E n \in Plain : barrels[c].name = Tmp(n)
          /\ \A b \in todo, c \in bases \ todo : barrels[c].name # Tmp(barrels[b].name)
      BY <2>1 DEF OpenInv, SortInv, MergerInv
    <3>2. bases' = bases /\ \A b \in bases : barrels'[b].name = barrels[b].name
      BY DEF SameNames
    <3>. QED  BY <2>1, <3>1, <3>2 DEF SortInv
  <2>2. CASE mpc = "final"
    <3>1. /\ todo \subseteq bases
          /\ \A c \in bases \ todo :
               \E i \in Nat : i < Cardinality(bases \ todo) /\ barrels[c].name = Final(i)
          /\ \A b \in todo : bases = {b} \/ \E n \in Plain : barrels[b].name = Tmp(n)
      BY <2>2 DEF OpenInv, SortInv, MergerInv
    <3>2. bases' = bases /\ \A b \in bases : barrels'[b].name = barrels[b].name
      BY DEF SameNames
    <3>. QED  BY <2>2, <3>1, <3>2 DEF SortInv
  <2>. QED  BY <2>1, <2>2 DEF SortInv
<1>4. CoverInv'
  BY DEF OpenInv, CoverInv, SameNames, MergerInv
<1>. QED  BY <1>1, <1>2, <1>3, <1>4

LEMMA WriterFrame ==
  ASSUME Types, OpenInv, SameNames, SameBarrels, MergerSame, Layer' \subseteq Layer,
         UNCHANGED <<files, nBarrelCounter, docs>>, lock' = "merger" <=> lock = "merger"
  PROVE  MergerInv' /\ BoundInv' /\ NameInv' /\ SortInv' /\ FileInv' /\ CoverInv'
<1>1. MergerInv'
  BY DEF OpenInv, MergerInv, Removing, SameNames, SameBarrels, InMemory, MergerSame
<1>2. FileInv'
  BY DEF OpenInv, FileInv, SameNames, SameBarrels, InMemory, MergerSame
<1>. QED  BY <1>1, <1>2, NamesFrame

LEMMA TypesFrame ==
  ASSUME Types, SameNames, UNCHANGED <<files, openVars, nBarrelCounter, docs>>,
         list' = list \/ ListTypes',
         MergerSame, binlog' \subseteq Docs, cur' \in Docs \cup {None},
         lock' \in {"none", "writer", "merger"}, acked' \subseteq Docs,
         wpc' \in WriterPC, next' \in {"idle", "deletebinlog", "optimize", "closing"},
         optimize' \in BOOLEAN
  PROVE  Types'
<1>1. ListTypes'
  BY ListSame DEF Types, ListTypes
<1>2. TypeOK'
  BY <1>1 DEF Types, TypeOK, ListTypes, Listed, SameNames, MergerSame, openVars
<1>. QED  BY <1>1, <1>2 DEF Types, MergerSame

LEMMA ListFrame ==
  ASSUME OpenInv, SameNames, MergerSame, UNCHANGED <<list, nBarrelCounter>>
  PROVE  ListInv'
<1>1. Listed' = Listed
  BY ListSame
<1>. QED  BY <1>1 DEF OpenInv, ListInv, PlainName, MidIn, Renaming, Alive, SameNames, MergerSame

LEMMA ClaimFrame ==
  ASSUME OpenInv, SameNames, MergerSame, UNCHANGED <<list, binlog, docs>>,
         \A d \in 1 .. docs : d \in acked' \/ wpc' = "written" => d \in acked \/ wpc = "written"
  PROVE  ClaimInv'
<1>1. Listed' = Listed /\ Current' = Current
  BY ListSame
<1>2. \A b \in DOMAIN Listed : Alive(b)' <=> Alive(b)
  BY <1>1 DEF Alive, SameNames
<1>3. \A b \in DOMAIN Listed : Alive(b) => barrels'[b].docs = barrels[b].docs
  BY DEF Alive, SameNames
<1>. QED  BY <1>1, <1>2, <1>3 DEF OpenInv, ClaimInv, Renaming, MergerSame

LEMMA AgreeFrame ==
  ASSUME OpenInv, SameNames, SameBarrels, SameRealTime, list' = list,
         Agreeing' => Agreeing /\ (wpc' \in {"closing", "joining"} => wpc \in {"closing", "joining"})
  PROVE  AgreeInv'
<1>1. Listed' = Listed
  BY ListSame
<1>. QED  BY <1>1 DEF OpenInv, AgreeInv, Alive, SameNames, SameBarrels, SameRealTime, InMemory

\* The barrel that open() makes the current one is a real-time barrel.
LEMMA LastRealTime ==
  ASSUME NEW R \in SUBSET Docs, NEW c, c = (IF R = {} THEN None ELSE Max(R))
  PROVE  (c = None /\ R = {}) \/ (c # None /\ c \in R)
<1>1. CASE R # {}
  <2>1. Max(R) \in R
    <3>1. R \in SUBSET (0 .. MaxDoc)
      BY StoreAssumption DEF Docs
    <3>. QED  BY <1>1, <3>1, MaxOfNaturals, StoreAssumption
  <2>. QED  BY <1>1, <2>1, StoreAssumption DEF Docs, None
<1>. QED  BY <1>1

LEMMA CurrentIs ==
  ASSUME ListTypes
  PROVE  \/ Current = None /\ RealTimeBarrels = {}
         \/ Current # None /\ Current \in RealTimeBarrels
<1>1. RealTimeBarrels \in SUBSET Docs
  BY DEF RealTimeBarrels, ListTypes
<1>. QED  BY <1>1, LastRealTime DEF Current

\* What write() writes.
LEMMA WrittenList ==
  ASSUME Types, OpenInv, list' = Contents
  PROVE  /\ list'.whole /\ list'.counter = nBarrelCounter /\ DOMAIN Listed' = bases
         /\ \A b \in bases : Listed'[b].name = barrels[b].name /\ Listed'[b].rt = barrels[b].rt
         /\ ListTypes'
<1>1. /\ list'.whole = TRUE /\ list'.counter = nBarrelCounter /\ DOMAIN Listed' = bases
      /\ \A b \in bases : /\ Listed'[b].name = barrels[b].name /\ Listed'[b].rt = barrels[b].rt
                          /\ Listed'[b].num = barrels[b].num
  BY DEF Contents, Listed
<1>2. \A b \in bases : barrels[b].num \in Nat \ {0} /\ barrels[b].rt \in BOOLEAN
  BY TypedBarrels, InfoFields DEF OpenInv, CoverInv
<1>. QED  BY <1>1, <1>2 DEF Types, TypeOK, ListTypes

\* A list just written agrees with the barrels.
LEMMA ListWritten ==
  ASSUME Types, OpenInv, SameNames, SameBarrels, SameRealTime, ~Removing, list' = Contents,
         MergerSame \/ (mpc = "writing" /\ mpc' = "idle"),
         UNCHANGED <<nBarrelCounter, docs, binlog>>
  PROVE  /\ ListInv' /\ ClaimInv' /\ AgreeInv'
         /\ RealTimeBarrels' = {b \in bases : barrels[b].rt}
         /\ \A b, c \in RealTimeBarrels' : b = c
<1>1. /\ list'.whole /\ list'.counter = nBarrelCounter /\ DOMAIN Listed' = bases /\ ListTypes'
      /\ \A b \in bases : Listed'[b].name = barrels[b].name /\ Listed'[b].rt = barrels[b].rt
  BY WrittenList
<1>2. /\ bases' = bases
      /\ \A b \in bases : /\ barrels'[b].name = barrels[b].name /\ barrels'[b].docs = barrels[b].docs
                          /\ barrels'[b].writer = barrels[b].writer /\ barrels'[b].rt = barrels[b].rt
  BY DEF SameNames, SameBarrels, SameRealTime
<1>3. \A b \in bases : Alive(b)'
  BY <1>1, <1>2 DEF Alive
<1>4. RealTimeBarrels' = {b \in bases : barrels[b].rt}
  BY <1>1 DEF RealTimeBarrels
<1>5. \A b, c \in RealTimeBarrels' : b = c
  BY <1>4 DEF OpenInv, MemoryInv, BinlogInv
<1>6. AgreeInv'
  BY <1>1, <1>2, <1>3 DEF AgreeInv
<1>7. ListInv'
  <2>1. ~Renaming' => \A b \in bases : PlainName(barrels[b].name, nBarrelCounter)'
    <3>1. ASSUME ~Renaming' PROVE \A b \in bases : PlainName(barrels[b].name, nBarrelCounter)
      BY <3>1 DEF OpenInv, NameInv, Renaming, MergerSame
    <3>2. \A k : MidIn(k) => MidIn(k)'
      BY DEF MidIn, MergerSame
    <3>. QED  BY <1>2, <3>1, <3>2 DEF PlainName
  <2>2. \A b \in bases : ~Renaming' => PlainName(Listed[b].name, list.counter)'
    BY <1>1, <1>2, <2>1 DEF PlainName
  <2>3. list'.counter <= nBarrelCounter' /\ Cardinality(DOMAIN Listed') <= list'.counter
    BY <1>1 DEF OpenInv, BoundInv, Types, TypeOK
  <2>. QED  BY <1>1, <1>3, <2>2, <2>3 DEF ListInv
<1>8. ClaimInv'
  <2>. SUFFICES ASSUME NEW d \in 1 .. docs
                PROVE  \/ \E b \in bases \ {Current'} : d \in barrels[b].docs
                       \/ Current' # None /\ d \in binlog
    BY <1>1, <1>2 DEF ClaimInv
  <2>1. PICK b \in bases : d \in barrels[b].docs
    BY DEF OpenInv, CoverInv, MergerInv, Removing
  <2>2. CASE b = Current'
    <3>1. b \in RealTimeBarrels' /\ Current' # None
      <4>1. RealTimeBarrels' \in SUBSET Docs /\ None \notin bases
        BY <1>4, TypedBarrels
      <4>2. Current' = (IF RealTimeBarrels' = {} THEN None ELSE Max(RealTimeBarrels'))
        BY DEF Current
      <4>. QED  BY <2>2, <4>1, <4>2, LastRealTime
    <3>. QED  BY <2>1, <2>2, <3>1, <1>4 DEF OpenInv, BinlogInv
  <2>. QED  BY <2>1, <2>2
<1>. QED  BY <1>4, <1>5, <1>6, <1>7, <1>8

-----------------------------------------------------------------------------
(* The steps of the writer that do not change the documents *)

\* Flush() begins.
LEMMA FlushStep ==
  ASSUME Types, OpenInv, Flush
  PROVE  Types' /\ OpenInv'
<1>0. None \notin bases /\ mode \in {"default", "realtime"}
  BY TypedBarrels
<1>1. SameNames /\ SameBarrels /\ SameRealTime /\ Layer' = Layer /\ MergerSame
  BY SameIfUnchanged DEF OpenInv, Flush, infoVars, mergerVars, MergerSame
<1>2. /\ UNCHANGED <<files, list, binlog, nBarrelCounter, docs, acked, cur, lock, mode, optimize>> /\ UNCHANGED openVars /\ next' = "idle"
      /\ wpc = "idle" /\ wpc' = (IF cur = None \/ mode = "realtime" THEN "write" ELSE "flush")
  BY DEF Flush, WriterAt, diskVars, infoVars, mergerVars, openVars
<1>3. Types'
  BY <1>1, <1>2, TypesFrame DEF Types, TypeOK, WriterPC
<1>4. MergerInv' /\ BoundInv' /\ NameInv' /\ SortInv' /\ FileInv' /\ CoverInv'
  BY <1>1, <1>2, WriterFrame
<1>5. WriterInv'
  BY <1>2 DEF OpenInv, WriterInv
<1>10. EmptyInv'
  BY <1>1, <1>2, ListSame DEF OpenInv, EmptyInv, MergerSame
<1>6. MemoryInv'
  BY <1>0, <1>1, <1>2 DEF OpenInv, WriterInv, MemoryInv, FlushKeeps, SameNames, SameBarrels, InMemory
<1>7. BinlogInv'
  BY <1>1, <1>2, ListSame DEF OpenInv, WriterInv, MemoryInv, FlushKeeps, BinlogInv, Obsolete, SameNames, SameBarrels, SameRealTime, InMemory
<1>8. AckInv'
  BY <1>1, <1>2 DEF OpenInv, WriterInv, AckInv, Flushing, SameNames, SameBarrels, InMemory, MergerSame
<1>9. ListInv' /\ ClaimInv' /\ AgreeInv'
  BY <1>1, <1>2, ListFrame, ClaimFrame, AgreeFrame DEF Agreeing, MergerSame
<1>. QED  BY <1>3, <1>4, <1>5, <1>6, <1>7, <1>8, <1>9, <1>10 DEF OpenInv

\* optimizeIndex() begins; the index is not a real-time one.
LEMMA OptimizeIndexStep ==
  ASSUME Types, OpenInv, optimizeIndex, mode # "realtime"
  PROVE  Types' /\ OpenInv'
<1>0. None \notin bases /\ mode \in {"default", "realtime"}
  BY TypedBarrels
<1>1. SameNames /\ SameBarrels /\ SameRealTime /\ Layer' = Layer /\ MergerSame
  BY SameIfUnchanged DEF OpenInv, optimizeIndex, infoVars, mergerVars, MergerSame
<1>2. /\ UNCHANGED <<files, list, binlog, nBarrelCounter, docs, acked, cur, lock, mode, optimize>> /\ UNCHANGED openVars /\ next' = "optimize"
      /\ wpc = "idle" /\ mode \in Optimizing
      /\ wpc' = (IF cur = None THEN "write" ELSE "flush")
  BY DEF optimizeIndex, WriterAt, diskVars, infoVars, mergerVars, openVars
<1>3. Types'
  BY <1>1, <1>2, TypesFrame DEF Types, TypeOK, WriterPC
<1>4. MergerInv' /\ BoundInv' /\ NameInv' /\ SortInv' /\ FileInv' /\ CoverInv'
  BY <1>1, <1>2, WriterFrame
<1>5. WriterInv'
  BY <1>2 DEF OpenInv, WriterInv
<1>10. EmptyInv'
  BY <1>1, <1>2, ListSame DEF OpenInv, EmptyInv, MergerSame
<1>6. MemoryInv'
  BY <1>0, <1>1, <1>2 DEF OpenInv, WriterInv, MemoryInv, FlushKeeps, SameNames, SameBarrels, InMemory
<1>7. BinlogInv'
  BY <1>1, <1>2, ListSame DEF OpenInv, WriterInv, MemoryInv, FlushKeeps, BinlogInv, Obsolete, SameNames, SameBarrels, SameRealTime, InMemory
<1>8. AckInv'
  BY <1>1, <1>2 DEF OpenInv, WriterInv, AckInv, Flushing, SameNames, SameBarrels, InMemory, MergerSame
<1>9. ListInv' /\ ClaimInv' /\ AgreeInv'
  BY <1>1, <1>2, ListFrame, ClaimFrame, AgreeFrame DEF Agreeing, MergerSame
<1>. QED  BY <1>3, <1>4, <1>5, <1>6, <1>7, <1>8, <1>9, <1>10 DEF OpenInv

\* The flushed barrel is queued for the merger.
LEMMA AddToMergeStep ==
  ASSUME Types, OpenInv, addToMerge
  PROVE  Types' /\ OpenInv'
<1>0. None \notin bases /\ mode \in {"default", "realtime"}
  BY TypedBarrels
<1>1. SameNames /\ SameBarrels /\ SameRealTime /\ Layer' \subseteq Layer /\ MergerSame
  <2>1. /\ bases' = bases
        /\ \A b \in bases : barrels'[b] = IF b = cur THEN [barrels[b] EXCEPT !.merge = "queued"] ELSE barrels[b]
    BY DEF addToMerge, bases
  <2>2. \A b \in bases : barrels[b] \in Info /\ ~barrels[b].writer
    BY TypedBarrels DEF OpenInv, MemoryInv, InMemory, addToMerge, WriterAt
  <2>. QED  BY <2>1, <2>2 DEF SameNames, SameBarrels, SameRealTime, Layer, Info, MergerSame, mergerVars, addToMerge
<1>2. /\ UNCHANGED <<files, list, binlog, nBarrelCounter, docs, acked, cur, lock, mode, optimize, next>> /\ UNCHANGED openVars
      /\ wpc = "addToMerge" /\ wpc' = "write"
  BY DEF addToMerge, WriterAt, diskVars, infoVars, mergerVars, openVars
<1>3. Types'
  BY <1>1, <1>2, TypesFrame DEF Types, TypeOK, WriterPC
<1>4. MergerInv' /\ BoundInv' /\ NameInv' /\ SortInv' /\ FileInv' /\ CoverInv'
  BY <1>1, <1>2, WriterFrame
<1>5. WriterInv'
  BY <1>2 DEF OpenInv, WriterInv
<1>10. EmptyInv'
  BY <1>1, <1>2, ListSame DEF OpenInv, EmptyInv, MergerSame
<1>6. MemoryInv'
  BY <1>0, <1>1, <1>2 DEF OpenInv, WriterInv, MemoryInv, FlushKeeps, SameNames, SameBarrels, InMemory
<1>7. BinlogInv'
  BY <1>1, <1>2, ListSame DEF OpenInv, WriterInv, MemoryInv, FlushKeeps, BinlogInv, Obsolete, SameNames, SameBarrels, SameRealTime, InMemory
<1>8. AckInv'
  BY <1>1, <1>2 DEF OpenInv, WriterInv, AckInv, Flushing, SameNames, SameBarrels, InMemory, MergerSame
<1>9. ListInv' /\ ClaimInv' /\ AgreeInv'
  BY <1>1, <1>2, ListFrame, ClaimFrame, AgreeFrame DEF Agreeing, MergerSame
<1>. QED  BY <1>3, <1>4, <1>5, <1>6, <1>7, <1>8, <1>9, <1>10 DEF OpenInv

\* An index without barrels is not written: every document of a flush is in the
\* barrel that a merge makes.
LEMMA WriteSkippedStep ==
  ASSUME Types, OpenInv, writeSkipped
  PROVE  Types' /\ OpenInv'
<1>0. None \notin bases /\ mode \in {"default", "realtime"}
  BY TypedBarrels
<1>1. SameNames /\ SameBarrels /\ SameRealTime /\ Layer' = Layer /\ MergerSame
  BY SameIfUnchanged DEF OpenInv, writeSkipped, infoVars, mergerVars, MergerSame
<1>2. /\ UNCHANGED <<files, list, binlog, nBarrelCounter, docs, acked, cur, lock, mode, optimize, next>> /\ UNCHANGED openVars
      /\ wpc = "write" /\ cur = None /\ bases = {}
      /\ wpc' = (IF next = "closing" THEN "closing" ELSE "written")
  BY DEF writeSkipped, WriterAt, diskVars, infoVars, mergerVars, openVars
<1>3. Types'
  BY <1>1, <1>2, TypesFrame DEF Types, TypeOK, WriterPC
<1>4. MergerInv' /\ BoundInv' /\ NameInv' /\ SortInv' /\ FileInv' /\ CoverInv'
  BY <1>1, <1>2, WriterFrame
<1>5. WriterInv'
  BY <1>2 DEF OpenInv, WriterInv
<1>10. EmptyInv'
  BY <1>1, <1>2, ListSame DEF OpenInv, EmptyInv, MergerSame
<1>6. MemoryInv'
  BY <1>0, <1>1, <1>2 DEF OpenInv, WriterInv, MemoryInv, FlushKeeps, SameNames, SameBarrels, InMemory
<1>7. BinlogInv'
  BY <1>1, <1>2, ListSame DEF OpenInv, WriterInv, MemoryInv, FlushKeeps, BinlogInv, Obsolete, SameNames, SameBarrels, SameRealTime, InMemory
<1>8. AckInv'
  BY <1>1, <1>2 DEF OpenInv, WriterInv, AckInv, Flushing, SameNames, SameBarrels, InMemory, MergerSame
<1>9. ListInv' /\ ClaimInv' /\ AgreeInv'
  <2>1. mpc = "output" \/ docs = 0
    BY <1>2 DEF OpenInv, CoverInv, Types, TypeOK
  <2>2. \A d \in 1 .. docs : d \in acked
    BY <1>2 DEF OpenInv, CoverInv, AckInv, Flushing
  <2>3. ListInv' /\ ClaimInv'
    BY <1>1, <1>2, <2>2, ListFrame, ClaimFrame
  <2>4. AgreeInv'
    BY <1>1, <1>2, <2>1, ListSame DEF OpenInv, EmptyInv, AgreeInv, Agreeing, Alive, SameNames, SameBarrels, MergerSame
  <2>. QED  BY <2>3, <2>4
<1>. QED  BY <1>3, <1>4, <1>5, <1>6, <1>7, <1>8, <1>9, <1>10 DEF OpenInv

\* The list is emptied.
LEMMA CreateOutputStep ==
  ASSUME Types, OpenInv, createOutput
  PROVE  Types' /\ OpenInv'
<1>0. None \notin bases /\ mode \in {"default", "realtime"}
  BY TypedBarrels
<1>1. SameNames /\ SameBarrels /\ SameRealTime /\ Layer' = Layer /\ MergerSame
  BY SameIfUnchanged DEF OpenInv, createOutput, infoVars, mergerVars, MergerSame
<1>2. /\ UNCHANGED <<files, binlog, nBarrelCounter, docs, acked, cur, mode, optimize, next>> /\ UNCHANGED openVars
      /\ wpc = "write" /\ (cur = None => bases # {}) /\ lock = "none"
      /\ lock' = "writer" /\ list' = Torn /\ wpc' = "writing"
  BY DEF createOutput, WriterAt, diskVars, infoVars, mergerVars, openVars
<1>a. list'.whole = FALSE /\ DOMAIN Listed' = {} /\ RealTimeBarrels' = {}
  BY <1>2 DEF Torn, Listed, RealTimeBarrels
<1>b. ListTypes'
  BY <1>a, <1>2 DEF Torn, ListTypes, Listed
<1>3. Types'
  BY <1>1, <1>2, <1>b, TypesFrame DEF Types, TypeOK, WriterPC
<1>4. MergerInv' /\ BoundInv' /\ NameInv' /\ SortInv' /\ FileInv' /\ CoverInv'
  BY <1>1, <1>2, WriterFrame
<1>5. WriterInv'
  BY <1>2 DEF OpenInv, WriterInv
<1>10. EmptyInv'
  <2>1. docs = 0 => 1 .. docs = {}
    OBVIOUS
  <2>. QED  BY <1>2, <2>1 DEF OpenInv, WriterInv, BoundInv, EmptyInv
<1>6. MemoryInv'
  BY <1>0, <1>1, <1>2 DEF OpenInv, WriterInv, MemoryInv, FlushKeeps, SameNames, SameBarrels, InMemory
<1>7. BinlogInv'
  BY <1>1, <1>2, <1>a DEF OpenInv, MemoryInv, FlushKeeps, BinlogInv, Obsolete, SameNames, SameBarrels, SameRealTime, InMemory
<1>8. AckInv'
  BY <1>1, <1>2 DEF OpenInv, WriterInv, AckInv, Flushing, SameNames, SameBarrels, InMemory, MergerSame
<1>9. ListInv' /\ ClaimInv' /\ AgreeInv'
  BY <1>2, <1>a DEF ListInv, ClaimInv, AgreeInv, Agreeing
<1>. QED  BY <1>3, <1>4, <1>5, <1>6, <1>7, <1>8, <1>9, <1>10 DEF OpenInv

\* The list is written.
LEMMA WriteStep ==
  ASSUME Types, OpenInv, write
  PROVE  Types' /\ OpenInv'
<1>0. None \notin bases /\ mode \in {"default", "realtime"}
  BY TypedBarrels
<1>1. SameNames /\ SameBarrels /\ SameRealTime /\ Layer' = Layer /\ MergerSame
  BY SameIfUnchanged DEF OpenInv, write, infoVars, mergerVars, MergerSame
<1>2. /\ UNCHANGED <<files, binlog, nBarrelCounter, docs, acked, cur, mode, optimize, next>> /\ UNCHANGED openVars
      /\ wpc = "writing" /\ lock' = "none" /\ list' = Contents
      /\ wpc' = (IF next = "closing" THEN "closing" ELSE "written")
  BY DEF write, WriterAt, diskVars, infoVars, mergerVars, openVars
<1>a. lock = "writer" /\ ~Removing
  BY <1>2 DEF OpenInv, WriterInv, MergerInv
<1>b. /\ ListInv' /\ ClaimInv' /\ AgreeInv' /\ RealTimeBarrels' = {b \in bases : barrels[b].rt}
      /\ \A b, c \in RealTimeBarrels' : b = c
  BY <1>1, <1>2, <1>a, ListWritten
<1>3. Types'
  BY <1>1, <1>2, TypesFrame, WrittenList DEF Types, TypeOK, WriterPC
<1>4. MergerInv' /\ BoundInv' /\ NameInv' /\ SortInv' /\ FileInv' /\ CoverInv'
  BY <1>1, <1>2, <1>a, WriterFrame
<1>5. WriterInv'
  BY <1>2 DEF OpenInv, WriterInv
<1>10. EmptyInv'
  BY <1>2 DEF OpenInv, EmptyInv
<1>6. MemoryInv'
  BY <1>0, <1>1, <1>2 DEF OpenInv, WriterInv, MemoryInv, FlushKeeps, SameNames, SameBarrels, InMemory
<1>7. BinlogInv'
  BY <1>0, <1>1, <1>2, <1>b DEF OpenInv, WriterInv, MemoryInv, FlushKeeps, BinlogInv, Obsolete, SameNames, SameBarrels, SameRealTime, InMemory
<1>8. AckInv'
  BY <1>1, <1>2 DEF OpenInv, WriterInv, AckInv, Flushing, SameNames, SameBarrels, InMemory, MergerSame
<1>9. ListInv' /\ ClaimInv' /\ AgreeInv'
  BY <1>b
<1>. QED  BY <1>3, <1>4, <1>5, <1>6, <1>7, <1>8, <1>9, <1>10 DEF OpenInv

\* flush() returns.
LEMMA WrittenStep ==
  ASSUME Types, OpenInv, written
  PROVE  Types' /\ OpenInv'
<1>0. None \notin bases /\ mode \in {"default", "realtime"}
  BY TypedBarrels
<1>1. SameNames /\ SameBarrels /\ SameRealTime /\ Layer' = Layer /\ MergerSame
  BY SameIfUnchanged DEF OpenInv, written, infoVars, mergerVars, MergerSame
<1>2. /\ UNCHANGED <<files, list, binlog, nBarrelCounter, docs, lock, mode, optimize, next>> /\ UNCHANGED openVars
      /\ wpc = "written" /\ wpc' = next /\ acked' = 1 .. docs
      /\ cur' = (IF mode = "realtime" /\ next = "idle" THEN cur ELSE None)
  BY DEF written, WriterAt, diskVars, infoVars, mergerVars, openVars
<1>a. next \in {"idle", "deletebinlog", "optimize"}
  BY <1>2 DEF OpenInv, WriterInv, Types
<1>3. Types'
  BY <1>1, <1>2, <1>a, TypesFrame, StoreAssumption DEF Types, TypeOK, WriterPC, Docs
<1>4. MergerInv' /\ BoundInv' /\ NameInv' /\ SortInv' /\ FileInv' /\ CoverInv'
  BY <1>1, <1>2, WriterFrame
<1>5. WriterInv'
  BY <1>2, <1>a DEF OpenInv, WriterInv
<1>10. EmptyInv'
  BY <1>1, <1>2, <1>a, ListSame DEF OpenInv, EmptyInv, MergerSame
<1>6. MemoryInv'
  BY <1>0, <1>1, <1>2 DEF OpenInv, WriterInv, MemoryInv, FlushKeeps, SameNames, SameBarrels, InMemory
<1>7. BinlogInv'
  BY <1>1, <1>2, ListSame DEF OpenInv, WriterInv, MemoryInv, FlushKeeps, BinlogInv, Obsolete, SameNames, SameBarrels, SameRealTime, InMemory
<1>8. AckInv'
  BY <1>1, <1>2 DEF OpenInv, CoverInv, AckInv, SameNames, SameBarrels, MergerSame
<1>9. ListInv' /\ ClaimInv' /\ AgreeInv'
  BY <1>1, <1>2, <1>a, ListFrame, ClaimFrame, AgreeFrame DEF Agreeing, MergerSame
<1>. QED  BY <1>3, <1>4, <1>5, <1>6, <1>7, <1>8, <1>9, <1>10 DEF OpenInv

\* OPTIMIZE_ALL is queued for the merger.
LEMMA RequestOptimizeStep ==
  ASSUME Types, OpenInv, requestOptimize
  PROVE  Types' /\ OpenInv'
<1>0. None \notin bases /\ mode \in {"default", "realtime"}
  BY TypedBarrels
<1>1. SameNames /\ SameBarrels /\ SameRealTime /\ Layer' \subseteq Layer /\ MergerSame
  <2>1. /\ bases' = bases
        /\ \A b \in bases : barrels'[b] = IF barrels[b].merge = "queued"
                                          THEN [barrels[b] EXCEPT !.merge = "none"] ELSE barrels[b]
    BY DEF requestOptimize, Unqueued, bases
  <2>2. \A b \in bases : barrels[b] \in Info /\ (barrels[b].writer => barrels[b].merge = "none")
    BY TypedBarrels DEF OpenInv, MemoryInv, InMemory
  <2>. QED  BY <2>1, <2>2 DEF SameNames, SameBarrels, SameRealTime, Layer, Info, MergerSame, mergerVars, requestOptimize
<1>2. /\ UNCHANGED <<files, list, nBarrelCounter, docs, acked, cur, lock, mode, next>> /\ UNCHANGED openVars /\ binlog' = {}
      /\ wpc = "optimize" /\ wpc' = "waiting" /\ optimize' = TRUE
  BY DEF requestOptimize, WriterAt, diskVars, infoVars, mergerVars, openVars
<1>a. mode = "default" /\ binlog' = binlog
  BY <1>0, <1>2 DEF OpenInv, WriterInv, BinlogInv
<1>3. Types'
  BY <1>1, <1>2, TypesFrame DEF Types, TypeOK, WriterPC
<1>4. MergerInv' /\ BoundInv' /\ NameInv' /\ SortInv' /\ FileInv' /\ CoverInv'
  BY <1>1, <1>2, WriterFrame
<1>5. WriterInv'
  BY <1>2, <1>a DEF OpenInv, WriterInv
<1>10. EmptyInv'
  BY <1>1, <1>2, ListSame DEF OpenInv, EmptyInv, MergerSame
<1>6. MemoryInv'
  BY <1>0, <1>1, <1>2 DEF OpenInv, WriterInv, MemoryInv, FlushKeeps, SameNames, SameBarrels, InMemory
<1>7. BinlogInv'
  BY <1>1, <1>2, <1>a, ListSame DEF OpenInv, WriterInv, MemoryInv, FlushKeeps, BinlogInv, Obsolete, SameNames, SameBarrels, SameRealTime, InMemory
<1>8. AckInv'
  BY <1>1, <1>2 DEF OpenInv, WriterInv, AckInv, Flushing, SameNames, SameBarrels, InMemory, MergerSame
<1>9. ListInv' /\ ClaimInv' /\ AgreeInv'
  BY <1>1, <1>2, <1>a, ListFrame, ClaimFrame, AgreeFrame DEF Agreeing, MergerSame
<1>. QED  BY <1>3, <1>4, <1>5, <1>6, <1>7, <1>8, <1>9, <1>10 DEF OpenInv

\* optimizeIndex() returns.
LEMMA WaitOptimizeStep ==
  ASSUME Types, OpenInv, waitOptimize
  PROVE  Types' /\ OpenInv'
<1>0. None \notin bases /\ mode \in {"default", "realtime"}
  BY TypedBarrels
<1>1. SameNames /\ SameBarrels /\ SameRealTime /\ Layer' = Layer /\ MergerSame
  BY SameIfUnchanged DEF OpenInv, waitOptimize, infoVars, mergerVars, MergerSame
<1>2. /\ UNCHANGED <<files, list, binlog, nBarrelCounter, docs, acked, cur, lock, mode, optimize, next>> /\ UNCHANGED openVars
      /\ wpc = "waiting" /\ wpc' = "idle"
  BY DEF waitOptimize, WriterAt, diskVars, infoVars, mergerVars, openVars
<1>3. Types'
  BY <1>1, <1>2, TypesFrame DEF Types, TypeOK, WriterPC
<1>4. MergerInv' /\ BoundInv' /\ NameInv' /\ SortInv' /\ FileInv' /\ CoverInv'
  BY <1>1, <1>2, WriterFrame
<1>5. WriterInv'
  BY <1>2 DEF OpenInv, WriterInv
<1>10. EmptyInv'
  BY <1>1, <1>2, ListSame DEF OpenInv, EmptyInv, MergerSame
<1>6. MemoryInv'
  BY <1>0, <1>1, <1>2 DEF OpenInv, WriterInv, MemoryInv, FlushKeeps, SameNames, SameBarrels, InMemory
<1>7. BinlogInv'
  BY <1>1, <1>2, ListSame DEF OpenInv, WriterInv, MemoryInv, FlushKeeps, BinlogInv, Obsolete, SameNames, SameBarrels, SameRealTime, InMemory
<1>8. AckInv'
  BY <1>1, <1>2 DEF OpenInv, WriterInv, AckInv, Flushing, SameNames, SameBarrels, InMemory, MergerSame
<1>9. ListInv' /\ ClaimInv' /\ AgreeInv'
  BY <1>1, <1>2, ListFrame, ClaimFrame, AgreeFrame DEF Agreeing, MergerSame
<1>. QED  BY <1>3, <1>4, <1>5, <1>6, <1>7, <1>8, <1>9, <1>10 DEF OpenInv

\* close() begins.
LEMMA CloseStep ==
  ASSUME Types, OpenInv, close
  PROVE  Types' /\ OpenInv'
<1>0. None \notin bases /\ mode \in {"default", "realtime"}
  BY TypedBarrels
<1>1. SameNames /\ SameBarrels /\ SameRealTime /\ Layer' = Layer /\ MergerSame
  BY SameIfUnchanged DEF OpenInv, close, infoVars, mergerVars, MergerSame
<1>2. /\ UNCHANGED <<files, list, binlog, nBarrelCounter, docs, acked, lock, mode, optimize>> /\ UNCHANGED openVars
      /\ wpc = "idle" /\ Saved /\ next' = "closing" /\ cur' = None
      /\ wpc' = (IF cur = None THEN "write" ELSE "closing")
  BY DEF close, WriterAt, diskVars, infoVars, mergerVars, openVars
<1>3. Types'
  BY <1>1, <1>2, TypesFrame DEF Types, TypeOK, WriterPC
<1>4. MergerInv' /\ BoundInv' /\ NameInv' /\ SortInv' /\ FileInv' /\ CoverInv'
  BY <1>1, <1>2, WriterFrame
<1>5. WriterInv'
  BY <1>2 DEF OpenInv, WriterInv
<1>10. EmptyInv'
  BY <1>1, <1>2, ListSame DEF OpenInv, EmptyInv, MergerSame
<1>6. MemoryInv'
  BY <1>0, <1>1, <1>2 DEF OpenInv, WriterInv, MemoryInv, FlushKeeps, SameNames, SameBarrels, InMemory, Saved
<1>7. BinlogInv'
  BY <1>1, <1>2, ListSame DEF OpenInv, WriterInv, MemoryInv, FlushKeeps, BinlogInv, Obsolete, SameNames, SameBarrels, SameRealTime, InMemory
<1>8. AckInv'
  BY <1>1, <1>2 DEF OpenInv, WriterInv, AckInv, Flushing, SameNames, SameBarrels, InMemory, MergerSame
<1>9. ListInv' /\ ClaimInv' /\ AgreeInv'
  <2>1. ListInv' /\ ClaimInv'
    BY <1>1, <1>2, ListFrame, ClaimFrame
  <2>2. CASE cur = None
    BY <1>1, <1>2, <2>1, <2>2, AgreeFrame DEF Agreeing
  <2>3. CASE cur # None
    <3>1. cur \in DOMAIN Listed /\ \A b \in bases : InMemory(b) => b = cur
      BY <1>2, <2>3 DEF Saved, Listed, OpenInv, MemoryInv
    <3>. QED  BY <1>1, <1>2, <2>1, <3>1, ListSame DEF OpenInv, AgreeInv, Agreeing, Alive, SameNames, SameBarrels, SameRealTime, InMemory, MergerSame
  <2>. QED  BY <2>1, <2>2, <2>3
<1>. QED  BY <1>3, <1>4, <1>5, <1>6, <1>7, <1>8, <1>9, <1>10 DEF OpenInv

\* close() drops the tasks of the merger.
LEMMA DropTasksStep ==
  ASSUME Types, OpenInv, dropTasks
  PROVE  Types' /\ OpenInv'
<1>0. None \notin bases /\ mode \in {"default", "realtime"}
  BY TypedBarrels
<1>1. SameNames /\ SameBarrels /\ SameRealTime /\ Layer' \subseteq Layer /\ MergerSame
  <2>1. /\ bases' = bases
        /\ \A b \in bases : barrels'[b] = IF barrels[b].merge = "queued"
                                          THEN [barrels[b] EXCEPT !.merge = "none"] ELSE barrels[b]
    BY DEF dropTasks, Unqueued, bases
  <2>2. \A b \in bases : barrels[b] \in Info /\ (barrels[b].writer => barrels[b].merge = "none")
    BY TypedBarrels DEF OpenInv, MemoryInv, InMemory
  <2>. QED  BY <2>1, <2>2 DEF SameNames, SameBarrels, SameRealTime, Layer, Info, MergerSame, mergerVars, dropTasks
<1>2. /\ UNCHANGED <<files, list, binlog, nBarrelCounter, docs, acked, cur, lock, mode, next>> /\ UNCHANGED openVars
      /\ wpc = "closing" /\ wpc' = "joining" /\ optimize' = FALSE
  BY DEF dropTasks, WriterAt, diskVars, infoVars, mergerVars, openVars
<1>3. Types'
  BY <1>1, <1>2, TypesFrame DEF Types, TypeOK, WriterPC
<1>4. MergerInv' /\ BoundInv' /\ NameInv' /\ SortInv' /\ FileInv' /\ CoverInv'
  BY <1>1, <1>2, WriterFrame
<1>5. WriterInv'
  BY <1>2 DEF OpenInv, WriterInv
<1>10. EmptyInv'
  BY <1>1, <1>2, ListSame DEF OpenInv, EmptyInv, MergerSame
<1>6. MemoryInv'
  BY <1>0, <1>1, <1>2 DEF OpenInv, WriterInv, MemoryInv, FlushKeeps, SameNames, SameBarrels, InMemory
<1>7. BinlogInv'
  BY <1>1, <1>2, ListSame DEF OpenInv, WriterInv, MemoryInv, FlushKeeps, BinlogInv, Obsolete, SameNames, SameBarrels, SameRealTime, InMemory
<1>8. AckInv'
  BY <1>1, <1>2 DEF OpenInv, WriterInv, AckInv, Flushing, SameNames, SameBarrels, InMemory, MergerSame
<1>9. ListInv' /\ ClaimInv' /\ AgreeInv'
  BY <1>1, <1>2, ListFrame, ClaimFrame, AgreeFrame DEF Agreeing, MergerSame
<1>. QED  BY <1>3, <1>4, <1>5, <1>6, <1>7, <1>8, <1>9, <1>10 DEF OpenInv

\* A real-time index whose cache is full is to be flushed.
LEMMA CacheFullStep ==
  ASSUME Types, OpenInv, CacheFull
  PROVE  Types' /\ OpenInv'
<1>0. None \notin bases /\ mode \in {"default", "realtime"}
  BY TypedBarrels
<1>1. SameNames /\ SameBarrels /\ Layer' = Layer /\ MergerSame /\ cur \in bases /\ barrels'[cur].rt = FALSE
  <2>1. cur \in bases
    BY DEF CacheFull, WriterAt, OpenInv, MemoryInv
  <2>2. /\ bases' = bases
        /\ \A b \in bases : barrels'[b] = IF b = cur THEN [barrels[b] EXCEPT !.rt = FALSE] ELSE barrels[b]
    BY <2>1 DEF CacheFull, bases
  <2>3. \A b \in bases : barrels[b] \in Info /\ (barrels[b].writer => barrels[b].merge = "none")
    BY TypedBarrels DEF OpenInv, MemoryInv, InMemory
  <2>4. SameNames /\ SameBarrels /\ Layer' = Layer /\ barrels'[cur].rt = FALSE
    <3>1. barrels[cur] \in Info /\ barrels'[cur] = [barrels[cur] EXCEPT !.rt = FALSE]
      BY <2>1, <2>2, <2>3
    <3>2. /\ barrels'[cur] \in Info /\ barrels'[cur].name = barrels[cur].name
          /\ barrels'[cur].docs = barrels[cur].docs /\ barrels'[cur].num = barrels[cur].num
          /\ barrels'[cur].writer = barrels[cur].writer /\ barrels'[cur].rt = FALSE
          /\ barrels'[cur].merge = barrels[cur].merge
      BY <3>1, RealTimeChanged
    <3>3. \A b \in bases : b # cur => barrels'[b] = barrels[b]
      BY <2>2
    <3>. QED  BY <2>1, <2>2, <2>3, <3>2, <3>3 DEF SameNames, SameBarrels, Layer
  <2>. QED  BY <2>1, <2>4 DEF MergerSame, mergerVars, CacheFull
<1>2. /\ UNCHANGED <<files, list, binlog, nBarrelCounter, docs, acked, cur, lock, mode, optimize>> /\ UNCHANGED openVars
      /\ wpc = "idle" /\ cur # None /\ mode = "realtime" /\ docs < MaxDoc
      /\ wpc' = "flush" /\ next' = "deletebinlog"
  BY DEF CacheFull, WriterAt, diskVars, infoVars, mergerVars, openVars
<1>3. Types'
  BY <1>1, <1>2, TypesFrame DEF Types, TypeOK, WriterPC
<1>4. MergerInv' /\ BoundInv' /\ NameInv' /\ SortInv' /\ FileInv' /\ CoverInv'
  BY <1>1, <1>2, WriterFrame
<1>5. WriterInv'
  BY <1>2 DEF OpenInv, WriterInv
<1>10. EmptyInv'
  BY <1>1, <1>2, ListSame DEF OpenInv, EmptyInv, MergerSame
<1>6. MemoryInv'
  BY <1>0, <1>1, <1>2 DEF OpenInv, WriterInv, MemoryInv, FlushKeeps, SameNames, SameBarrels, InMemory
<1>7. BinlogInv'
  <2>1. \A b \in bases : InMemory(b) => b = cur
    BY <1>2 DEF OpenInv, MemoryInv
  <2>2. \A b \in bases : b # cur => barrels'[b].rt = barrels[b].rt
    BY DEF CacheFull, bases
  <2>. QED  BY <1>1, <1>2, <2>1, <2>2, ListSame DEF OpenInv, BinlogInv, Obsolete, SameNames, SameBarrels, InMemory
<1>8. AckInv'
  BY <1>1, <1>2 DEF OpenInv, WriterInv, AckInv, Flushing, SameNames, SameBarrels, InMemory, MergerSame
<1>9. ListInv' /\ ClaimInv' /\ AgreeInv'
  BY <1>1, <1>2, ListFrame, ClaimFrame DEF AgreeInv, Agreeing
<1>. QED  BY <1>3, <1>4, <1>5, <1>6, <1>7, <1>8, <1>9, <1>10 DEF OpenInv

-----------------------------------------------------------------------------
(* The steps of the writer that change the documents or the files *)

\* What a barrel becomes when a document is added to it.
LEMMA AddedDocument ==
  ASSUME Types, OpenInv, AddDocument, docs < MaxDoc, wpc \in {"idle", "deletebinlog"}
  PROVE  /\ docs \in Nat /\ docs' = docs + 1 /\ docs + 1 \in Docs /\ docs + 1 \notin bases
         /\ cur = None =>
              /\ bases' = bases \cup {docs + 1} /\ cur' = docs + 1
              /\ barrels'[docs + 1] = newBarrel(docs + 1) /\ newBarrel(docs + 1) \in Info
              /\ \A b \in bases : barrels'[b] = barrels[b]
              /\ nBarrelCounter' = nBarrelCounter + 1
         /\ cur # None =>
              /\ cur \in bases /\ bases' = bases
              /\ \A b \in bases : b # cur => barrels'[b] = barrels[b]
              /\ barrels'[cur] \in Info
              /\ barrels'[cur].docs = barrels[cur].docs \cup {docs + 1}
              /\ barrels'[cur].num = barrels[cur].num + 1
              /\ barrels'[cur].name = barrels[cur].name /\ barrels'[cur].writer = barrels[cur].writer
              /\ barrels'[cur].rt = barrels[cur].rt /\ barrels'[cur].merge = barrels[cur].merge
              /\ UNCHANGED <<nBarrelCounter, cur>>
<1>1. docs \in Nat /\ docs + 1 \in Docs /\ docs + 1 \notin bases /\ docs' = docs + 1
  BY StoreAssumption DEF Types, TypeOK, OpenInv, BoundInv, Docs, AddDocument
<1>2. CASE cur = None
  <2>1. barrels' = Put(barrels, docs + 1, newBarrel(docs + 1)) /\ nBarrelCounter' = nBarrelCounter + 1 /\ cur' = docs + 1
    BY <1>2 DEF AddDocument
  <2>2. /\ bases' = bases \cup {docs + 1} /\ barrels'[docs + 1] = newBarrel(docs + 1)
        /\ \A b \in bases : barrels'[b] = barrels[b]
    BY <1>1, <2>1 DEF Put, bases
  <2>3. newBarrel(docs + 1) \in Info
    <3>1. nBarrelCounter \in 0 .. MaxDoc
      BY <1>1, StoreAssumption DEF OpenInv, BoundInv, Types, TypeOK
    <3>2. Final(nBarrelCounter) \in Names
      BY <3>1, NamesAre DEF Plain
    <3>. QED  BY <1>1, <3>2 DEF newBarrel, Info
  <2>. QED  BY <1>1, <1>2, <2>1, <2>2, <2>3
<1>3. CASE cur # None
  <2>1. cur \in bases /\ barrels[cur] \in Info
    BY <1>3, TypedBarrels DEF OpenInv, WriterInv, MemoryInv
  <2>2. barrels' = [barrels EXCEPT ![cur].docs = @ \cup {docs + 1}, ![cur].num = @ + 1] /\ UNCHANGED <<nBarrelCounter, cur>>
    BY <1>3 DEF AddDocument
  <2>3. /\ bases' = bases /\ \A b \in bases : b # cur => barrels'[b] = barrels[b]
        /\ barrels'[cur] = [barrels[cur] EXCEPT !.docs = @ \cup {docs + 1}, !.num = @ + 1]
    BY <2>1, <2>2 DEF bases, Info
  <2>4. /\ barrels'[cur] \in Info /\ barrels'[cur].docs = barrels[cur].docs \cup {docs + 1}
        /\ barrels'[cur].num = barrels[cur].num + 1 /\ barrels'[cur].name = barrels[cur].name
        /\ barrels'[cur].writer = barrels[cur].writer /\ barrels'[cur].rt = barrels[cur].rt
        /\ barrels'[cur].merge = barrels[cur].merge
    <3>. DEFINE d == docs + 1  r == barrels[cur]  s == barrels'[cur]
    <3>1. d \in Docs /\ r \in Info /\ s = [r EXCEPT !.docs = @ \cup {d}, !.num = @ + 1]
      BY <1>1, <2>1, <2>3
    <3>. HIDE DEF d, r, s
    <3>2. s = [name |-> r.name, docs |-> r.docs \cup {d}, num |-> r.num + 1, writer |-> r.writer,
               rt |-> r.rt, merge |-> r.merge]
      <4>1. r = [name |-> r.name, docs |-> r.docs, num |-> r.num, writer |-> r.writer, rt |-> r.rt, merge |-> r.merge]
        BY <3>1, InfoFields
      <4>. QED  BY <3>1, <4>1
    <3>3. /\ s \in Info /\ s.name = r.name /\ s.docs = r.docs \cup {d} /\ s.num = r.num + 1
          /\ s.writer = r.writer /\ s.rt = r.rt /\ s.merge = r.merge
      BY <3>1, <3>2, DocumentAdded
    <3>. QED  BY <3>3 DEF d, r, s
  <2>. QED  BY <1>1, <1>3, <2>1, <2>2, <2>3, <2>4
<1>. QED  BY <1>2, <1>3

\* Adding a document to the current barrel, or to a new one, keeps the invariant.
LEMMA AddStep ==
  ASSUME Types, OpenInv, AddDocument, docs < MaxDoc, lock = "none",
         wpc \in {"idle", "deletebinlog"}, wpc' = "idle",
         binlog' = IF mode = "default" THEN {}
                   ELSE IF wpc = "idle" THEN binlog \cup {docs + 1} ELSE {docs + 1},
         UNCHANGED <<files, list, openVars, lock, next, acked, mergerVars>>
  PROVE  Types' /\ OpenInv'
<1>. DEFINE d == docs + 1
<1>0. None \notin bases /\ mode \in {"default", "realtime"} /\ \A b \in bases : barrels[b] \in Info
  BY TypedBarrels
<1>1. /\ docs \in Nat /\ docs' = d /\ d = docs + 1 /\ d \in Docs /\ d \notin bases
      /\ cur = None =>
           /\ bases' = bases \cup {d} /\ cur' = d /\ nBarrelCounter' = nBarrelCounter + 1
           /\ \A b \in bases : barrels'[b] = barrels[b]
           /\ barrels'[d] \in Info /\ barrels'[d].name = Final(nBarrelCounter)
           /\ barrels'[d].docs = {d} /\ barrels'[d].num = 1 /\ barrels'[d].writer = TRUE
           /\ barrels'[d].rt = (mode = "realtime") /\ barrels'[d].merge = "none"
  BY AddedDocument DEF newBarrel
<1>2. cur # None =>
        /\ cur \in bases /\ bases' = bases /\ UNCHANGED <<nBarrelCounter, cur>>
        /\ \A b \in bases : b # cur => barrels'[b] = barrels[b]
        /\ barrels'[cur] \in Info /\ barrels'[cur].docs = barrels[cur].docs \cup {d}
        /\ barrels'[cur].num = barrels[cur].num + 1
        /\ barrels'[cur].name = barrels[cur].name /\ barrels'[cur].writer = barrels[cur].writer
        /\ barrels'[cur].rt = barrels[cur].rt /\ barrels'[cur].merge = barrels[cur].merge
  BY AddedDocument
<1>3. /\ UNCHANGED <<mode, mpc, sources, new, depth, todo, optimize>>
      /\ mpc \notin {"tmp", "final", "writing"} /\ (mpc = "output" => todo = sources)
      /\ Listed' = Listed /\ RealTimeBarrels' = RealTimeBarrels /\ Current' = Current
  BY ListSame DEF openVars, mergerVars, OpenInv, MergerInv, Removing
<1>. HIDE DEF d
\* What both cases have in common.
<1>4. /\ bases \subseteq bases'
      /\ \A b \in bases' : b \in bases \/ (b = d /\ cur = None)
      /\ \A b \in bases : /\ barrels'[b].name = barrels[b].name /\ barrels'[b].writer = barrels[b].writer
                          /\ barrels'[b].rt = barrels[b].rt /\ barrels'[b].merge = barrels[b].merge
  BY <1>0, <1>1, <1>2
<1>8. /\ \A b \in bases : b # cur => barrels'[b].docs = barrels[b].docs
      /\ cur # None => barrels'[cur].docs = barrels[cur].docs \cup {d}
      /\ cur = None => barrels'[d].docs = {d}
  BY <1>0, <1>1, <1>2
<1>5. cur # None => cur \in bases /\ InMemory(cur)
  BY DEF OpenInv, MemoryInv, WriterInv
<1>6. 1 .. docs' = (1 .. docs) \cup {d}
  BY <1>1
<1>7. nBarrelCounter \in Nat /\ nBarrelCounter' \in Nat /\ nBarrelCounter <= nBarrelCounter'
  BY <1>1, <1>2 DEF Types, TypeOK
<1>9. /\ cur' \in bases' /\ barrels'[cur'].writer
      /\ \A b \in bases : InMemory(b) => b = cur
      /\ \A b \in bases' : barrels'[b].writer => b = cur'
  <2>1. \A b \in bases : InMemory(b) => b = cur
    BY <1>5 DEF OpenInv, MemoryInv
  <2>2. CASE cur = None
    <3>1. bases' = bases \cup {d} /\ cur' = d /\ barrels'[d].writer = TRUE
      BY <1>1, <2>2
    <3>. QED  BY <1>0, <1>4, <2>1, <2>2, <3>1 DEF InMemory
  <2>3. CASE cur # None
    <3>1. bases' = bases /\ cur' = cur
      BY <1>2, <2>3
    <3>. QED  BY <1>4, <1>5, <2>1, <2>3, <3>1 DEF InMemory
  <2>. QED  BY <2>1, <2>2, <2>3
<1>10. d \in Docs /\ d \notin bases /\ d \notin 1 .. docs
  BY <1>1
<1>11. Types'
  <2>1. bases' \subseteq Docs /\ \A b \in bases' : barrels'[b] \in Info
    BY <1>0, <1>1, <1>2, <1>4 DEF Types, TypeOK
  <2>2. binlog' \subseteq Docs /\ cur' \in Docs \cup {None}
    BY <1>9, <1>10, <2>1 DEF Types, TypeOK, d
  <2>3. docs' \in 0 .. MaxDoc
    BY <1>1, StoreAssumption
  <2>4. TypeOK'
    BY <1>3, <1>7, <2>1, <2>2, <2>3 DEF Types, TypeOK, openVars
  <2>. QED  BY <1>3, <2>4 DEF Types, ListTypes, WriterPC, mergerVars
<1>12. WriterInv'
  BY <1>1, <1>2, <1>3, <1>6 DEF OpenInv, WriterInv
<1>13. MergerInv'
  <2>1. mpc = "output" => \A b \in todo : b \in bases' /\ ~barrels'[b].writer
    BY <1>4 DEF OpenInv, MergerInv, InMemory
  <2>. QED  BY <1>3, <1>6, <2>1 DEF OpenInv, MergerInv, Removing, InMemory
<1>14. BoundInv'
  <2>1. Layer' = Layer
    BY <1>1, <1>2, <1>4 DEF Layer
  <2>2. CASE cur # None
    <3>1. bases' = bases /\ nBarrelCounter' = nBarrelCounter
      BY <1>2, <2>2
    <3>2. docs \in Nat /\ docs' = docs + 1 /\ nBarrelCounter \in Nat
      BY <1>1, <1>7
    <3>. QED  BY <1>3, <2>1, <3>1, <3>2 DEF OpenInv, BoundInv
  <2>3. CASE cur = None
    <3>1. IsFiniteSet(bases) /\ IsFiniteSet(bases \ todo) /\ Cardinality(bases) \in Nat /\ Cardinality(bases \ todo) \in Nat
      BY TypedBarrels
    <3>2. /\ Cardinality(bases \cup {d}) = Cardinality(bases) + 1
          /\ Cardinality((bases \ todo) \cup {d}) = Cardinality(bases \ todo) + 1
      BY <1>10, <3>1, FS_AddElement
    <3>3. bases' = bases \cup {d} /\ nBarrelCounter' = nBarrelCounter + 1
      BY <1>1, <2>3
    <3>4. mpc = "output" => bases' \ todo = (bases \ todo) \cup {d}
      BY <1>10, <3>3 DEF OpenInv, MergerInv
    <3>5. docs \in Nat /\ docs' = docs + 1 /\ nBarrelCounter \in Nat /\ 1 .. docs' = (1 .. docs) \cup {d}
      BY <1>1, <1>6, <1>7
    <3>6. bases' \subseteq 1 .. docs' /\ nBarrelCounter' <= docs' /\ Cardinality(bases') <= nBarrelCounter'
      <4>1. bases \subseteq 1 .. docs /\ nBarrelCounter <= docs /\ Cardinality(bases) <= nBarrelCounter
        BY DEF OpenInv, BoundInv
      <4>2. bases' \subseteq 1 .. docs'
        BY <3>3, <3>5, <4>1
      <4>3. nBarrelCounter' <= docs' /\ Cardinality(bases') <= nBarrelCounter'
        BY <3>1, <3>2, <3>3, <3>5, <4>1
      <4>. QED  BY <4>2, <4>3
    <3>7. mpc = "output" => Cardinality(bases' \ todo) < nBarrelCounter'
      BY <3>1, <3>2, <3>3, <3>4, <3>5 DEF OpenInv, BoundInv
    <3>. QED  BY <1>3, <2>1, <3>6, <3>7 DEF OpenInv, BoundInv
  <2>. QED  BY <2>2, <2>3
<1>15. EmptyInv'
  BY <1>1 DEF EmptyInv
<1>16. MemoryInv'
  <2>1. barrels'[cur'].merge = "none"
    <3>1. CASE cur = None
      BY <1>1, <3>1
    <3>2. CASE cur # None
      BY <1>2, <1>5, <3>2 DEF OpenInv, MemoryInv
    <3>. QED  BY <3>1, <3>2
  <2>. QED  BY <1>9, <2>1 DEF MemoryInv, InMemory
<1>17. BinlogInv'
  <2>2. wpc = "idle" /\ cur = None => binlog = {}
    BY <1>0, <1>9 DEF OpenInv, BinlogInv, Obsolete
  <2>3. wpc = "deletebinlog" => cur = None /\ mode = "realtime"
    BY DEF OpenInv, WriterInv
  <2>5. mode = "realtime" => binlog' = barrels'[cur'].docs
    <3>1. CASE cur = None
      BY <1>1, <1>8, <2>2, <3>1 DEF d
    <3>2. CASE cur # None
      <4>1. mode = "realtime" => binlog = barrels[cur].docs /\ wpc = "idle"
        BY <1>5, <2>3, <3>2 DEF OpenInv, BinlogInv
      <4>2. cur' = cur
        BY <1>2, <3>2
      <4>. QED  BY <1>8, <3>2, <4>1, <4>2 DEF d
    <3>. QED  BY <3>1, <3>2
  <2>6. \A b \in bases' : barrels'[b].rt => barrels'[b].writer /\ mode = "realtime"
    BY <1>0, <1>1, <1>4 DEF OpenInv, BinlogInv, InMemory
  <2>7. mode = "realtime" => barrels'[cur'].rt
    BY <1>0, <1>1, <1>2, <1>5, <2>3 DEF OpenInv, BinlogInv
  <2>. QED  BY <1>3, <1>9, <2>5, <2>6, <2>7 DEF OpenInv, BinlogInv, InMemory
<1>18. NameInv' /\ SortInv'
  <2>1. \A b \in bases' : b \in bases \/ barrels'[b].name = Final(nBarrelCounter)
    BY <1>1, <1>4
  <2>2. \A b \in bases : barrels[b].name # Final(nBarrelCounter)
    BY <1>7 DEF OpenInv, NameInv
  <2>3. \A b, c \in bases' : b # c => barrels'[b].name # barrels'[c].name
    BY <1>4, <2>1, <2>2 DEF OpenInv, NameInv
  <2>4. \A b \in bases', i \in Nat : barrels'[b].name = Final(i) => i < nBarrelCounter'
    BY <1>1, <1>4, <1>7, NamesDiffer DEF OpenInv, NameInv
  <2>5. ASSUME NEW b \in bases'
        PROVE  \/ \E i \in Nat : i < nBarrelCounter' /\ barrels'[b].name = Final(i)
               \/ \E k \in Nat : MidIn(k) /\ barrels'[b].name = Mid(k)
    <3>1. CASE b \in bases
      <4>1. PlainName(barrels[b].name, nBarrelCounter)
        BY <1>3, <3>1 DEF OpenInv, NameInv
      <4>. QED  BY <1>4, <1>7, <3>1, <4>1 DEF PlainName
    <3>2. CASE b \notin bases
      <4>1. nBarrelCounter < nBarrelCounter' /\ barrels'[b].name = Final(nBarrelCounter)
        BY <1>1, <1>4, <1>7, <3>2
      <4>. QED  BY <1>7, <4>1
    <3>. QED  BY <3>1, <3>2
  <2>6. \A k : MidIn(k)' <=> MidIn(k)
    BY <1>3 DEF MidIn
  <2>. QED  BY <1>3, <2>3, <2>4, <2>5, <2>6 DEF NameInv, PlainName, SortInv
<1>19. FileInv'
  <2>1. \A b \in bases' : ~barrels'[b].writer => /\ b \in bases /\ ~barrels[b].writer
                                                  /\ barrels'[b].name = barrels[b].name /\ barrels'[b].docs = barrels[b].docs
    BY <1>1, <1>4, <1>5, <1>8 DEF InMemory
  <2>2. \A b \in bases : ~barrels[b].writer => b \in bases' /\ ~barrels'[b].writer /\ barrels'[b].name = barrels[b].name
    BY <1>4
  <2>. QED  BY <1>3, <2>1, <2>2 DEF OpenInv, FileInv, InMemory
<1>20. CoverInv'
  <2>1. \A b \in bases : barrels[b].docs \subseteq 1 .. docs /\ b \in barrels[b].docs /\ barrels[b].num \in Nat \ {0}
    BY <1>0, InfoFields DEF OpenInv, CoverInv
  <2>2. \A b \in bases' : b \in barrels'[b].docs /\ barrels'[b].docs \subseteq 1 .. docs' /\ barrels'[b].num # 0
    BY <1>0, <1>1, <1>2, <1>4, <1>6, <2>1
  <2>3. /\ \A b \in bases, c \in bases : b # c => barrels'[b].docs \cap barrels'[c].docs = {}
        /\ cur = None => \A b \in bases : barrels'[b].docs \cap barrels'[d].docs = {}
    <3>1. \A b, c \in bases : b # c => barrels[b].docs \cap barrels[c].docs = {}
      BY DEF OpenInv, CoverInv
    <3>. QED  BY <1>0, <1>8, <1>10, <2>1, <3>1
  <2>4. \A b, c \in bases' : b # c => barrels'[b].docs \cap barrels'[c].docs = {}
    BY <1>4, <2>3
  <2>5. \A e \in 1 .. docs' : (\E b \in bases' : e \in barrels'[b].docs) \/ (mpc = "output" /\ e \in new.docs)
    <3>1. \E b \in bases' : d \in barrels'[b].docs
      BY <1>1, <1>2
    <3>2. \A b \in bases : b \in bases' /\ barrels[b].docs \subseteq barrels'[b].docs
      BY <1>0, <1>4, <1>8
    <3>3. \A e \in 1 .. docs : (\E b \in bases : e \in barrels[b].docs) \/ (mpc = "output" /\ e \in new.docs)
      BY DEF OpenInv, CoverInv
    <3>. QED  BY <1>6, <3>1, <3>2, <3>3
  <2>6. CASE mpc = "output"
    <3>1. /\ sources \subseteq new.docs /\ new.docs \subseteq 1 .. docs
          /\ \A b \in todo : b \in bases /\ b # cur /\ barrels[b].docs \subseteq new.docs
          /\ \A b \in bases \ todo : barrels[b].docs \cap new.docs = {}
          /\ todo = sources => \A e \in new.docs : \E b \in todo : e \in barrels[b].docs
      <4>1. \A b \in todo : b \in bases /\ b # cur
        BY <1>0, <1>5, <2>6 DEF OpenInv, MergerInv
      <4>. QED  BY <2>6, <4>1 DEF OpenInv, CoverInv
    <3>2. \A b \in todo : barrels'[b].docs = barrels[b].docs
      BY <1>8, <3>1
    <3>3. /\ \A b \in bases \ todo : barrels'[b].docs \cap new.docs = {}
          /\ cur = None => barrels'[d].docs \cap new.docs = {}
      BY <1>0, <1>8, <1>10, <3>1
    <3>4. \A b \in bases' \ todo : barrels'[b].docs \cap new.docs = {}
      BY <1>4, <3>3
    <3>5. new.docs \subseteq 1 .. docs'
      BY <1>6, <3>1
    <3>. QED  BY <1>3, <2>2, <2>4, <2>5, <3>1, <3>2, <3>4, <3>5 DEF CoverInv
  <2>7. CASE mpc # "output"
    BY <1>3, <2>2, <2>4, <2>5, <2>7 DEF CoverInv
  <2>. QED  BY <2>6, <2>7
<1>21. AckInv'
  <2>1. acked \subseteq 1 .. docs'
    BY <1>6 DEF OpenInv, AckInv
  <2>2. \A b \in bases' : ~barrels'[b].writer => b \in bases /\ ~barrels[b].writer /\ barrels'[b].docs = barrels[b].docs
    BY <1>1, <1>4, <1>5, <1>8 DEF InMemory
  <2>. QED  BY <1>3, <2>1, <2>2 DEF OpenInv, AckInv, Flushing, InMemory
<1>22. ListInv'
  <2>1. list.whole => list.counter <= nBarrelCounter' /\ Cardinality(DOMAIN Listed) <= list.counter
    BY <1>7 DEF OpenInv, ListInv, Types, ListTypes
  <2>2. \A b \in DOMAIN Listed : Alive(b) => Alive(b)'
    BY <1>3, <1>4 DEF Alive
  <2>3. ASSUME list.whole, ~Renaming, NEW b \in DOMAIN Listed
        PROVE  Listed[b].name # Final(nBarrelCounter)
    <3>1. PlainName(Listed[b].name, list.counter) /\ list.counter <= nBarrelCounter /\ list.counter \in Nat
      BY <2>3 DEF OpenInv, ListInv, Types, ListTypes
    <3>. QED  BY <1>7, <3>1, NamesDiffer DEF PlainName
  <2>4. \A b : PlainName(Listed[b].name, list.counter) => PlainName(Listed[b].name, list.counter)'
    BY <1>3 DEF PlainName, MidIn
  <2>5. \A b \in bases' : b \in bases \/ barrels'[b].name = Final(nBarrelCounter)
    BY <1>1, <1>4
  <2>6. ASSUME list.whole, ~Renaming, NEW b \in DOMAIN Listed, ~Alive(b)
        PROVE  (\A c \in bases' : barrels'[c].name # Listed[b].name) /\ (mpc = "output" => new.name # Listed[b].name)
    BY <1>4, <2>3, <2>5, <2>6 DEF OpenInv, ListInv
  <2>. QED  BY <1>3, <2>1, <2>2, <2>4, <2>6 DEF OpenInv, ListInv, Renaming
<1>23. ClaimInv'
  <2>1. ASSUME list.whole, ~Renaming, NEW b \in DOMAIN Listed, Alive(b)'
        PROVE  Alive(b) /\ barrels[b].docs \subseteq barrels'[b].docs
    <3>1. b \in bases' /\ barrels'[b].name = Listed[b].name
      BY <1>3, <2>1 DEF Alive
    <3>2. Listed[b].name # Final(nBarrelCounter)
      <4>1. PlainName(Listed[b].name, list.counter) /\ list.counter <= nBarrelCounter /\ list.counter \in Nat
        BY <2>1 DEF OpenInv, ListInv, Types, ListTypes
      <4>. QED  BY <1>7, <4>1, NamesDiffer DEF PlainName
    <3>3. b \in bases
      BY <1>1, <1>4, <3>1, <3>2
    <3>4. barrels[b].docs \subseteq barrels'[b].docs
      BY <1>0, <1>8, <3>3
    <3>. QED  BY <1>4, <3>1, <3>3, <3>4 DEF Alive
  <2>2. Current # None => binlog \subseteq binlog'
    <3>1. wpc = "deletebinlog" => Current = None
      BY DEF OpenInv, WriterInv, BinlogInv, Current
    <3>. QED  BY <1>0, <3>1 DEF OpenInv, BinlogInv
  <2>. QED  BY <1>3, <1>6, <2>1, <2>2 DEF OpenInv, ClaimInv, Renaming, AckInv
<1>24. AgreeInv'
  <2>1. Agreeing' => Agreeing /\ wpc' \notin {"closing", "joining"}
    BY <1>3 DEF Agreeing
  <2>. QED  BY <1>1, <1>3, <1>4, <2>1 DEF OpenInv, AgreeInv, Alive, InMemory
<1>. QED  BY <1>11, <1>12, <1>13, <1>14, <1>15, <1>16, <1>17, <1>18, <1>19, <1>20, <1>21, <1>22,
             <1>23, <1>24 DEF OpenInv

LEMMA IndexDocumentStep ==
  ASSUME Types, OpenInv, indexDocument
  PROVE  Types' /\ OpenInv'
<1>1. mode \in {"default", "realtime"} /\ (mode = "default" => binlog = {})
  BY TypedBarrels DEF OpenInv, BinlogInv
<1>2. /\ wpc = "idle" /\ wpc' = "idle" /\ docs < MaxDoc /\ lock = "none" /\ AddDocument /\ docs' = docs + 1
      /\ UNCHANGED <<files, list, openVars, lock, next, acked, mergerVars>>
  BY DEF indexDocument, WriterAt, AddDocument
<1>3. binlog' = IF mode = "default" THEN {}
                ELSE IF wpc = "idle" THEN binlog \cup {docs + 1} ELSE {docs + 1}
  BY <1>1, <1>2 DEF indexDocument
<1>. QED  BY <1>2, <1>3, AddStep

LEMMA DeletebinlogStep ==
  ASSUME Types, OpenInv, deletebinlog
  PROVE  Types' /\ OpenInv'
<1>1. mode = "realtime" /\ docs < MaxDoc
  BY DEF OpenInv, WriterInv, deletebinlog, WriterAt
<1>2. /\ wpc = "deletebinlog" /\ wpc' = "idle" /\ lock = "none" /\ AddDocument /\ docs' = docs + 1
      /\ UNCHANGED <<files, list, openVars, lock, next, acked, mergerVars>>
  BY DEF deletebinlog, WriterAt, AddDocument
<1>3. binlog' = IF mode = "default" THEN {}
                ELSE IF wpc = "idle" THEN binlog \cup {docs + 1} ELSE {docs + 1}
  BY <1>1, <1>2 DEF deletebinlog
<1>. QED  BY <1>1, <1>2, <1>3, AddStep

\* The barrel is written: its files appear under its name.
LEMMA BarrelWriteStep ==
  ASSUME Types, OpenInv, BarrelWrite
  PROVE  Types' /\ OpenInv'
<1>. DEFINE n == barrels[cur].name
<1>0. /\ mode \in {"default", "realtime"} /\ \A b \in bases : barrels[b] \in Info
      /\ wpc = "flush" /\ cur \in bases /\ InMemory(cur) /\ \A b \in bases : InMemory(b) <=> b = cur
  BY TypedBarrels DEF BarrelWrite, WriterAt, OpenInv, WriterInv, MemoryInv
<1>1. /\ UNCHANGED <<list, binlog, nBarrelCounter, docs, acked, cur, lock, mode, optimize, next>>
      /\ UNCHANGED openVars /\ MergerSame /\ wpc' = "addToMerge"
      /\ Listed' = Listed /\ RealTimeBarrels' = RealTimeBarrels
  BY ListSame DEF BarrelWrite, openVars, mergerVars, MergerSame
<1>2. /\ SameNames /\ SameRealTime /\ Layer' = Layer
      /\ \A b \in bases : ~barrels'[b].writer
  <2>1. /\ bases' = bases /\ \A b \in bases : b # cur => barrels'[b] = barrels[b]
        /\ barrels'[cur] = [barrels[cur] EXCEPT !.writer = FALSE]
    BY <1>0 DEF BarrelWrite, bases, Info
  <2>2. \A r \in Info : LET s == [r EXCEPT !.writer = FALSE]
                        IN /\ s \in Info /\ s.name = r.name /\ s.docs = r.docs /\ s.num = r.num
                           /\ s.writer = FALSE /\ s.rt = r.rt /\ s.merge = r.merge
    BY DEF Info
  <2>3. /\ barrels'[cur] \in Info /\ barrels'[cur].name = barrels[cur].name
        /\ barrels'[cur].docs = barrels[cur].docs /\ barrels'[cur].num = barrels[cur].num
        /\ barrels'[cur].writer = FALSE /\ barrels'[cur].rt = barrels[cur].rt
        /\ barrels'[cur].merge = barrels[cur].merge
    BY <1>0, <2>1, <2>2
  <2>4. \A b \in bases : b # cur => ~barrels'[b].writer /\ barrels[b] \in Info
    BY <1>0, <2>1 DEF InMemory
  <2>5. SameNames /\ SameRealTime
    BY <2>1, <2>3, <2>4 DEF SameNames, SameRealTime
  <2>6. Layer' = Layer
    BY <2>1, <2>3 DEF Layer
  <2>. QED  BY <2>3, <2>4, <2>5, <2>6
<1>3. n \in Names /\ barrels[cur].docs \subseteq Docs
  BY <1>0, InfoFields
<1>4. /\ DOMAIN files' = DOMAIN files \cup {n} /\ files'[n] = barrels[cur].docs
      /\ \A m \in DOMAIN files : m # n => files'[m] = files[m]
  BY DEF BarrelWrite, Put
<1>. HIDE DEF n
<1>5. Types'
  <2>1. DOMAIN files' \subseteq Names /\ \A m \in DOMAIN files' : files'[m] \subseteq Docs
    BY <1>3, <1>4 DEF Types, TypeOK
  <2>2. TypeOK'
    BY <1>1, <1>2, <2>1 DEF Types, TypeOK, SameNames, MergerSame, openVars
  <2>. QED  BY <1>1, <2>2 DEF Types, ListTypes, WriterPC, MergerSame
<1>6. BoundInv' /\ NameInv' /\ SortInv' /\ CoverInv'
  BY <1>1, <1>2, NamesFrame
<1>7. MergerInv'
  BY <1>1, <1>2 DEF OpenInv, MergerInv, Removing, MergerSame, SameNames, InMemory
<1>8. FileInv'
  <2>1. \A b \in bases : b # cur => barrels[b].name # n
    BY <1>0 DEF OpenInv, NameInv, n
  <2>2. mpc = "output" => new.name # n
    <3>1. mpc = "output" => PlainName(n, nBarrelCounter) /\ new.name = Mid(IF depth = 0 THEN 0 ELSE depth - 1)
      BY <1>0 DEF OpenInv, NameInv, MergerInv, n
    <3>2. depth \in Nat
      BY StoreAssumption DEF Types, TypeOK
    <3>. QED  BY <3>1, <3>2, NamesDiffer DEF PlainName, MidIn
  <2>3. \A b \in bases : b # cur => barrels[b].name \in DOMAIN files /\ files[barrels[b].name] = barrels[b].docs
    BY <1>0 DEF OpenInv, FileInv
  <2>4. \A b \in bases : barrels'[b].name \in DOMAIN files' /\ files'[barrels'[b].name] = barrels'[b].docs
    BY <1>2, <1>4, <2>1, <2>3 DEF SameNames, n
  <2>5. \A m \in DOMAIN files' : (\E b \in bases : barrels'[b].name = m) \/ (mpc = "output" /\ m = new.name)
    BY <1>0, <1>2, <1>4 DEF OpenInv, FileInv, SameNames, n
  <2>6. mpc = "output" => new.name \in DOMAIN files' /\ files'[new.name] = new.docs
    BY <1>4, <2>2 DEF OpenInv, FileInv
  <2>. QED  BY <1>1, <1>2, <2>4, <2>5, <2>6 DEF FileInv, MergerSame, SameNames, InMemory
<1>9. WriterInv' /\ EmptyInv'
  BY <1>0, <1>1 DEF OpenInv, WriterInv, EmptyInv, MergerSame
<1>10. MemoryInv'
  BY <1>1, <1>2 DEF MemoryInv, FlushKeeps, SameNames, InMemory
<1>11. BinlogInv'
  <2>1. \A b \in bases : ~barrels[b].rt
    BY <1>0 DEF OpenInv, BinlogInv, InMemory
  <2>2. mode = "realtime" => next = "deletebinlog"
    BY <1>0 DEF OpenInv, WriterInv
  <2>. QED  BY <1>0, <1>1, <1>2, <2>1, <2>2 DEF OpenInv, BinlogInv, Obsolete, SameNames, SameRealTime, InMemory
<1>12. AckInv'
  BY <1>0, <1>1 DEF OpenInv, AckInv, Flushing, WriterInv
<1>13. ListInv' /\ ClaimInv'
  BY <1>0, <1>1, <1>2, ListFrame, ClaimFrame
<1>14. AgreeInv'
  BY <1>1 DEF AgreeInv, Agreeing
<1>. QED  BY <1>5, <1>6, <1>7, <1>8, <1>9, <1>10, <1>11, <1>12, <1>13, <1>14 DEF OpenInv

-----------------------------------------------------------------------------
(* The steps of the merger that neither make a barrel nor rename one *)

WriterSame == UNCHANGED <<files, binlog, mode, nBarrelCounter, cur, wpc, next, docs, acked>>

LEMMA MergerFrame ==
  ASSUME Types, OpenInv, SameNames, SameBarrels, SameRealTime, WriterSame,
         mpc # "output", mpc' # "output", lock' = "writer" <=> lock = "writer",
         optimize' => optimize
  PROVE  WriterInv' /\ MemoryInv' /\ FileInv' /\ CoverInv' /\ AckInv'
<1>. USE DEF WriterSame
<1>1. WriterInv'
  BY DEF OpenInv, WriterInv
<1>2. MemoryInv'
  BY DEF OpenInv, MemoryInv, FlushKeeps, SameNames, SameBarrels, InMemory
<1>3. FileInv'
  BY DEF OpenInv, FileInv, SameNames, SameBarrels, InMemory
<1>4. CoverInv'
  BY DEF OpenInv, CoverInv, SameNames
<1>5. AckInv'
  BY DEF OpenInv, AckInv, Flushing, SameNames, SameBarrels, InMemory
<1>. QED  BY <1>1, <1>2, <1>3, <1>4, <1>5

LEMMA BinlogFrame ==
  ASSUME OpenInv, SameNames, SameBarrels, SameRealTime, WriterSame,
         RealTimeBarrels' = RealTimeBarrels \/ RealTimeBarrels' = {}
  PROVE  BinlogInv'
BY DEF OpenInv, BinlogInv, Obsolete, SameNames, SameBarrels, SameRealTime, InMemory, WriterSame

\* The list stays as it is, while intermediate names remain those of merges.
LEMMA ListKept ==
  ASSUME OpenInv, SameNames, SameBarrels, SameRealTime, WriterSame, list' = list, mpc' # "output",
         ~Renaming' => ~Renaming /\ \A k \in Nat : MidIn(k) => MidIn(k)',
         Agreeing' => Agreeing
  PROVE  ListInv' /\ ClaimInv' /\ AgreeInv' /\ BinlogInv'
<1>. USE DEF WriterSame
<1>1. Listed' = Listed /\ Current' = Current /\ RealTimeBarrels' = RealTimeBarrels
  BY ListSame
<1>2. \A b \in DOMAIN Listed : Alive(b)' <=> Alive(b)
  BY <1>1 DEF Alive, SameNames
<1>3. ~Renaming' => \A b : PlainName(Listed[b].name, list.counter) => PlainName(Listed[b].name, list.counter)'
  BY <1>1 DEF PlainName
<1>4. ListInv'
  BY <1>1, <1>2, <1>3 DEF OpenInv, ListInv, SameNames
<1>5. ClaimInv'
  <2>1. \A b \in DOMAIN Listed : Alive(b) => barrels'[b].docs = barrels[b].docs
    BY DEF Alive, SameNames
  <2>. QED  BY <1>1, <1>2, <2>1 DEF OpenInv, ClaimInv
<1>6. AgreeInv'
  BY <1>1, <1>2 DEF OpenInv, AgreeInv, SameNames, SameBarrels, SameRealTime, InMemory, Alive
<1>. QED  BY <1>1, <1>4, <1>5, <1>6, BinlogFrame

LEMMA TypesKept ==
  ASSUME Types, SameNames, WriterSame, UNCHANGED openVars, list' = list \/ ListTypes',
         lock' \in {"none", "writer", "merger"}, mpc' \in MergerPC, mpc' # "output",
         sources' \subseteq Docs, todo' \subseteq Docs, depth' \in 0 .. MaxDoc, optimize' \in BOOLEAN
  PROVE  Types'
<1>. USE DEF WriterSame
<1>1. ListTypes'
  BY ListSame DEF Types, ListTypes
<1>2. TypeOK'
  BY <1>1 DEF Types, TypeOK, ListTypes, Listed, SameNames, openVars
<1>. QED  BY <1>1, <1>2 DEF Types

\* Barrels keep their names and their number, and no merge is under way.
LEMMA NamesKept ==
  ASSUME OpenInv, SameNames, WriterSame, mpc \notin {"tmp", "final"}, \A k \in Nat : MidIn(k) => MidIn(k)'
  PROVE  NameInv'
<1>1. \A b \in bases : PlainName(barrels[b].name, nBarrelCounter)'
  BY DEF OpenInv, NameInv, PlainName, SameNames, WriterSame
<1>. QED  BY <1>1 DEF OpenInv, NameInv, SameNames, WriterSame

LEMMA BoundKept ==
  ASSUME OpenInv, SameNames, WriterSame, mpc' \notin {"policy", "output"}
  PROVE  BoundInv'
BY DEF OpenInv, BoundInv, SameNames, WriterSame

\* The policy merges no more barrels.
LEMMA PolicyDoneStep ==
  ASSUME Types, OpenInv, PolicyDone
  PROVE  Types' /\ OpenInv'
<1>0. None \notin bases /\ mode \in {"default", "realtime"}
  BY TypedBarrels
<1>1. SameNames /\ SameBarrels /\ SameRealTime /\ Layer' = Layer
  BY SameIfUnchanged DEF OpenInv, PolicyDone, infoVars
<1>2. /\ WriterSame /\ UNCHANGED openVars
      /\ UNCHANGED <<list, lock, optimize, sources, new, depth, todo>>
      /\ mpc = "policy" /\ mpc' = (IF depth = 1 THEN "idle" ELSE "sort")
  BY DEF PolicyDone, MergerAt, WriterSame, diskVars, openVars, infoVars, writerVars
<1>3. Types'
  BY <1>0, <1>1, <1>2, TypesKept DEF Types, TypeOK, MergerPC
<1>4. WriterInv' /\ MemoryInv' /\ FileInv' /\ CoverInv' /\ AckInv'
  BY <1>1, <1>2, MergerFrame DEF OpenInv, WriterInv, MergerInv, Removing
<1>5. MergerInv'
  BY <1>2 DEF OpenInv, MergerInv, Removing
<1>6. BoundInv'
  BY <1>1, <1>2, BoundKept
<1>7. EmptyInv'
  BY <1>2, ListSame DEF OpenInv, EmptyInv, WriterSame
<1>8. NameInv'
  BY <1>1, <1>2, NamesKept DEF MidIn
<1>9. SortInv'
  BY <1>2 DEF SortInv
<1>10. ListInv' /\ ClaimInv' /\ AgreeInv' /\ BinlogInv'
  <2>1. ~Renaming' => ~Renaming
    BY <1>2 DEF Renaming
  <2>2. ~Renaming' => \A k \in Nat : MidIn(k) => MidIn(k)'
    BY <1>2 DEF Renaming, MidIn
  <2>3. Agreeing' => Agreeing
    BY <1>2 DEF Agreeing, WriterSame
  <2>. QED  BY <1>1, <1>2, <2>1, <2>2, <2>3, ListKept
<1>. QED  BY <1>3, <1>4, <1>5, <1>6, <1>7, <1>8, <1>9, <1>10 DEF OpenInv

\* sort() begins: the barrels have plain names.
LEMMA SortStep ==
  ASSUME Types, OpenInv, sort
  PROVE  Types' /\ OpenInv'
<1>0. None \notin bases /\ mode \in {"default", "realtime"}
  BY TypedBarrels
<1>1. SameNames /\ SameBarrels /\ SameRealTime /\ Layer' = Layer
  BY SameIfUnchanged DEF OpenInv, sort, infoVars
<1>2. /\ WriterSame /\ UNCHANGED openVars
      /\ UNCHANGED <<list, optimize, sources, new, depth>>
      /\ lock = "none" /\ lock' = "merger" /\ todo' = bases
      /\ mpc = "sort" /\ mpc' = (IF Cardinality(bases) > 1 THEN "tmp" ELSE "final")
  BY DEF sort, MergerAt, WriterSame, diskVars, openVars, infoVars, writerVars
<1>3. Types'
  BY <1>0, <1>1, <1>2, TypesKept DEF Types, TypeOK, MergerPC
<1>4. WriterInv' /\ MemoryInv' /\ FileInv' /\ CoverInv' /\ AckInv'
  BY <1>1, <1>2, MergerFrame DEF OpenInv, WriterInv, MergerInv, Removing
<1>5. MergerInv'
  BY <1>1, <1>2 DEF OpenInv, MergerInv, Removing, SameNames
<1>6. BoundInv'
  BY <1>1, <1>2, BoundKept
<1>7. EmptyInv'
  BY <1>2, ListSame DEF OpenInv, EmptyInv, WriterSame
<1>8. NameInv'
  BY <1>1, <1>2 DEF OpenInv, NameInv, SameNames, WriterSame
<1>9. SortInv'
  <2>1. \A b \in bases : barrels[b].name \in Plain
    <3>1. nBarrelCounter \in Nat /\ nBarrelCounter <= MaxDoc /\ depth \in 0 .. MaxDoc /\ MaxDoc \in Nat
      BY StoreAssumption DEF Types, TypeOK, OpenInv, BoundInv
    <3>2. \A b \in bases : PlainName(barrels[b].name, nBarrelCounter)
      BY <1>2 DEF OpenInv, NameInv
    <3>. QED  BY <1>2, <3>1, <3>2 DEF PlainName, MidIn, Plain
  <2>2. Cardinality(bases) > 1 \/ \A b \in bases : bases = {b}
    <3>1. ASSUME NEW b \in bases, ~(Cardinality(bases) > 1) PROVE bases = {b}
      <4>1. /\ IsFiniteSet(bases \ {b}) /\ Cardinality(bases \ {b}) = Cardinality(bases) - 1
            /\ Cardinality(bases) \in Nat /\ Cardinality(bases \ {b}) \in Nat
        BY TypedBarrels, FS_RemoveElement
      <4>2. Cardinality(bases \ {b}) = 0
        BY <3>1, <4>1
      <4>. QED  BY <4>1, <4>2, FS_EmptySet
    <3>. QED  BY <3>1
  <2>. QED  BY <1>1, <1>2, <2>1, <2>2 DEF SortInv, SameNames
<1>10. ListInv' /\ ClaimInv' /\ AgreeInv' /\ BinlogInv'
  <2>1. ~Renaming' => ~Renaming
    BY <1>2 DEF Renaming
  <2>2. ~Renaming' => \A k \in Nat : MidIn(k) => MidIn(k)'
    BY <1>2 DEF Renaming, MidIn
  <2>3. Agreeing' => Agreeing
    BY <1>2 DEF Agreeing, WriterSame
  <2>. QED  BY <1>1, <1>2, <2>1, <2>2, <2>3, ListKept
<1>. QED  BY <1>3, <1>4, <1>5, <1>6, <1>7, <1>8, <1>9, <1>10 DEF OpenInv

\* Every barrel has a temporary name.
LEMMA TmpDoneStep ==
  ASSUME Types, OpenInv, TmpDone
  PROVE  Types' /\ OpenInv'
<1>0. None \notin bases /\ mode \in {"default", "realtime"}
  BY TypedBarrels
<1>1. SameNames /\ SameBarrels /\ SameRealTime /\ Layer' = Layer
  BY SameIfUnchanged DEF OpenInv, TmpDone, infoVars
<1>2. /\ WriterSame /\ UNCHANGED openVars
      /\ UNCHANGED <<list, lock, optimize, sources, new, depth>>
      /\ todo = {} /\ todo' = bases /\ mpc = "tmp" /\ mpc' = "final"
  BY DEF TmpDone, MergerAt, WriterSame, diskVars, openVars, infoVars, writerVars
<1>3. Types'
  BY <1>0, <1>1, <1>2, TypesKept DEF Types, TypeOK, MergerPC
<1>4. WriterInv' /\ MemoryInv' /\ FileInv' /\ CoverInv' /\ AckInv'
  BY <1>1, <1>2, MergerFrame DEF OpenInv, WriterInv, MergerInv, Removing
<1>5. MergerInv'
  BY <1>1, <1>2 DEF OpenInv, MergerInv, Removing, SameNames
<1>6. BoundInv'
  BY <1>1, <1>2, BoundKept
<1>7. EmptyInv'
  BY <1>2, ListSame DEF OpenInv, EmptyInv, WriterSame
<1>8. NameInv'
  BY <1>1, <1>2 DEF OpenInv, NameInv, SameNames, WriterSame
<1>9. SortInv'
  BY <1>1, <1>2 DEF OpenInv, SortInv, SameNames
<1>10. ListInv' /\ ClaimInv' /\ AgreeInv' /\ BinlogInv'
  <2>1. ~Renaming' => ~Renaming
    BY <1>2 DEF Renaming
  <2>2. ~Renaming' => \A k \in Nat : MidIn(k) => MidIn(k)'
    BY <1>2 DEF Renaming, MidIn
  <2>3. Agreeing' => Agreeing
    BY <1>2 DEF Agreeing, WriterSame
  <2>. QED  BY <1>1, <1>2, <2>1, <2>2, <2>3, ListKept
<1>. QED  BY <1>3, <1>4, <1>5, <1>6, <1>7, <1>8, <1>9, <1>10 DEF OpenInv

\* Every barrel has its final name: there are no more than nBarrelCounter.
LEMMA SortDoneStep ==
  ASSUME Types, OpenInv, SortDone
  PROVE  Types' /\ OpenInv'
<1>0. None \notin bases /\ mode \in {"default", "realtime"}
  BY TypedBarrels
<1>1. SameNames /\ SameBarrels /\ SameRealTime /\ Layer' = Layer
  BY SameIfUnchanged DEF OpenInv, SortDone, infoVars
<1>2. /\ WriterSame /\ UNCHANGED openVars
      /\ UNCHANGED <<list, optimize, sources, new, depth, todo>>
      /\ todo = {} /\ lock' = "none" /\ mpc = "final" /\ mpc' = "write"
  BY DEF SortDone, MergerAt, WriterSame, diskVars, openVars, infoVars, writerVars
<1>3. Types'
  BY <1>0, <1>1, <1>2, TypesKept DEF Types, TypeOK, MergerPC
<1>4. WriterInv' /\ MemoryInv' /\ FileInv' /\ CoverInv' /\ AckInv'
  BY <1>1, <1>2, MergerFrame DEF OpenInv, WriterInv, MergerInv, Removing
<1>5. MergerInv'
  BY <1>2 DEF OpenInv, MergerInv, Removing
<1>6. BoundInv'
  BY <1>1, <1>2, BoundKept
<1>7. EmptyInv'
  BY <1>2, ListSame DEF OpenInv, EmptyInv, WriterSame
<1>8. NameInv'
  <2>1. \A b \in bases : \E i \in Nat : i < nBarrelCounter /\ barrels[b].name = Final(i)
    <3>1. /\ \A b \in bases : \E i \in Nat : i < Cardinality(bases \ {}) /\ barrels[b].name = Final(i)
          /\ Cardinality(bases) <= nBarrelCounter
      BY <1>2 DEF OpenInv, SortInv, BoundInv
    <3>2. bases \ {} = bases /\ Cardinality(bases) \in Nat /\ nBarrelCounter \in Nat
      BY TypedBarrels DEF Types, TypeOK
    <3>. QED  BY <3>1, <3>2
  <2>. QED  BY <1>1, <1>2, <2>1 DEF OpenInv, NameInv, PlainName, SameNames, WriterSame
<1>9. SortInv'
  BY <1>2 DEF SortInv
<1>10. ListInv' /\ ClaimInv' /\ AgreeInv' /\ BinlogInv'
  <2>1. ~Renaming' => ~Renaming
    BY <1>2 DEF Renaming
  <2>2. ~Renaming' => \A k \in Nat : MidIn(k) => MidIn(k)'
    BY <1>2 DEF Renaming, MidIn
  <2>3. Agreeing' => Agreeing
    BY <1>2 DEF Agreeing, WriterSame
  <2>. QED  BY <1>1, <1>2, <2>1, <2>2, <2>3, ListKept
<1>. QED  BY <1>3, <1>4, <1>5, <1>6, <1>7, <1>8, <1>9, <1>10 DEF OpenInv

\* The merge thread empties the list.
LEMMA MergerCreateOutputStep ==
  ASSUME Types, OpenInv, mergerCreateOutput
  PROVE  Types' /\ OpenInv'
<1>0. None \notin bases /\ mode \in {"default", "realtime"}
  BY TypedBarrels
<1>1. SameNames /\ SameBarrels /\ SameRealTime /\ Layer' = Layer
  BY SameIfUnchanged DEF OpenInv, mergerCreateOutput, infoVars
<1>2. /\ WriterSame /\ UNCHANGED openVars
      /\ UNCHANGED <<optimize, sources, new, depth, todo>>
      /\ lock = "none" /\ lock' = "merger" /\ list' = Torn /\ mpc = "write" /\ mpc' = "writing"
  BY DEF mergerCreateOutput, MergerAt, WriterSame, diskVars, openVars, infoVars, writerVars
<1>a. list'.whole = FALSE /\ DOMAIN Listed' = {} /\ RealTimeBarrels' = {}
  BY <1>2 DEF Torn, Listed, RealTimeBarrels
<1>b. ListTypes'
  BY <1>a, <1>2 DEF Torn, ListTypes, Listed
<1>3. Types'
  BY <1>0, <1>1, <1>2, <1>b, TypesKept DEF Types, TypeOK, MergerPC
<1>4. WriterInv' /\ MemoryInv' /\ FileInv' /\ CoverInv' /\ AckInv'
  BY <1>1, <1>2, MergerFrame DEF OpenInv, WriterInv, MergerInv, Removing
<1>5. MergerInv'
  BY <1>2 DEF OpenInv, MergerInv, Removing
<1>6. BoundInv'
  BY <1>1, <1>2, BoundKept
<1>7. EmptyInv'
  BY <1>2 DEF OpenInv, EmptyInv, WriterSame
<1>8. NameInv'
  BY <1>1, <1>2, NamesKept DEF MidIn
<1>9. SortInv'
  BY <1>2 DEF SortInv
<1>10. ListInv' /\ ClaimInv' /\ AgreeInv' /\ BinlogInv'
  BY <1>1, <1>2, <1>a, BinlogFrame DEF ListInv, ClaimInv, AgreeInv, Agreeing
<1>. QED  BY <1>3, <1>4, <1>5, <1>6, <1>7, <1>8, <1>9, <1>10 DEF OpenInv

\* The merge thread writes the list.
LEMMA MergerWriteStep ==
  ASSUME Types, OpenInv, mergerWrite
  PROVE  Types' /\ OpenInv'
<1>0. None \notin bases /\ mode \in {"default", "realtime"}
  BY TypedBarrels
<1>1. SameNames /\ SameBarrels /\ SameRealTime /\ Layer' = Layer
  BY SameIfUnchanged DEF OpenInv, mergerWrite, infoVars
<1>2. /\ WriterSame /\ UNCHANGED openVars
      /\ UNCHANGED <<optimize, sources, new, depth, todo>>
      /\ lock' = "none" /\ list' = Contents /\ mpc = "writing" /\ mpc' = "idle"
  BY DEF mergerWrite, MergerAt, WriterSame, diskVars, openVars, infoVars, writerVars
<1>3. Types'
  BY <1>0, <1>1, <1>2, TypesKept, WrittenList DEF Types, TypeOK, MergerPC
<1>4. WriterInv' /\ MemoryInv' /\ FileInv' /\ CoverInv' /\ AckInv'
  BY <1>1, <1>2, MergerFrame DEF OpenInv, WriterInv, MergerInv, Removing
<1>5. MergerInv'
  BY <1>2 DEF OpenInv, MergerInv, Removing
<1>6. BoundInv'
  BY <1>1, <1>2, BoundKept
<1>7. EmptyInv'
  BY <1>2 DEF OpenInv, EmptyInv, WriterSame
<1>8. NameInv'
  BY <1>1, <1>2, NamesKept DEF MidIn
<1>9. SortInv'
  BY <1>2 DEF SortInv
<1>10. ListInv' /\ ClaimInv' /\ AgreeInv' /\ BinlogInv'
  <2>1. /\ ListInv' /\ ClaimInv' /\ AgreeInv' /\ RealTimeBarrels' = {b \in bases : barrels[b].rt}
        /\ \A b, c \in RealTimeBarrels' : b = c
    BY <1>1, <1>2, ListWritten DEF Removing, WriterSame
  <2>2. wpc \in {"written", "deletebinlog"} /\ next = "deletebinlog" => \A b \in bases : ~InMemory(b)
    BY <1>0 DEF OpenInv, MemoryInv, WriterInv, FlushKeeps
  <2>3. \A b \in bases : barrels[b].rt => InMemory(b)
    BY DEF OpenInv, BinlogInv
  <2>4. wpc \in {"written", "deletebinlog"} /\ next = "deletebinlog" => RealTimeBarrels' = {}
    BY <2>1, <2>2, <2>3
  <2>. QED  BY <1>1, <1>2, <2>1, <2>4 DEF OpenInv, BinlogInv, Obsolete, SameNames, SameBarrels, SameRealTime, InMemory, WriterSame
<1>. QED  BY <1>3, <1>4, <1>5, <1>6, <1>7, <1>8, <1>9, <1>10 DEF OpenInv

\* A queued barrel is given to the policy.
LEMMA TakeBarrelStep ==
  ASSUME Types, OpenInv, NEW b, TakeBarrel(b)
  PROVE  Types' /\ OpenInv'
<1>0. None \notin bases /\ mode \in {"default", "realtime"}
  BY TypedBarrels
<1>1. SameNames /\ SameBarrels /\ SameRealTime /\ b \in bases
  <2>1. /\ bases' = bases /\ b \in bases /\ barrels[b].merge = "queued"
        /\ \A c \in bases : barrels'[c] = IF c = b THEN [barrels[c] EXCEPT !.merge = "layer"] ELSE barrels[c]
    BY DEF TakeBarrel, bases
  <2>2. \A c \in bases : barrels[c] \in Info /\ (barrels[c].writer => barrels[c].merge = "none")
    BY TypedBarrels DEF OpenInv, MemoryInv, InMemory
  <2>3. \A r \in Info : LET s == [r EXCEPT !.merge = "layer"]
                        IN /\ s \in Info /\ s.name = r.name /\ s.docs = r.docs /\ s.num = r.num
                           /\ s.writer = r.writer /\ s.rt = r.rt
    BY DEF Info
  <2>4. \A c \in bases : /\ barrels'[c] \in Info /\ barrels'[c].name = barrels[c].name
                         /\ barrels'[c].docs = barrels[c].docs /\ barrels'[c].num = barrels[c].num
                         /\ barrels'[c].writer = barrels[c].writer /\ barrels'[c].rt = barrels[c].rt
    BY <2>1, <2>2, <2>3
  <2>5. \A c \in bases : barrels[c].writer => barrels'[c].merge = "none"
    BY <2>1, <2>2
  <2>. QED  BY <2>1, <2>4, <2>5 DEF SameNames, SameBarrels, SameRealTime
<1>2. /\ WriterSame /\ UNCHANGED openVars
      /\ UNCHANGED <<list, lock, optimize, sources, new, todo>>
      /\ mpc = "idle" /\ ~optimize /\ mpc' = "policy" /\ depth' = 1
  BY DEF TakeBarrel, MergerAt, WriterSame, diskVars, openVars, infoVars, writerVars
<1>a. docs \in Nat /\ docs # 0 /\ docs <= MaxDoc /\ MaxDoc \in Nat
  BY <1>1, StoreAssumption DEF Types, TypeOK, OpenInv, BoundInv
<1>3. Types'
  BY <1>0, <1>1, <1>2, <1>a, TypesKept DEF Types, TypeOK, MergerPC
<1>4. WriterInv' /\ MemoryInv' /\ FileInv' /\ CoverInv' /\ AckInv'
  BY <1>1, <1>2, MergerFrame DEF OpenInv, WriterInv, MergerInv, Removing
<1>5. MergerInv'
  BY <1>2 DEF OpenInv, MergerInv, Removing
<1>6. BoundInv'
  <2>1. Layer' \subseteq bases
    BY <1>1 DEF Layer, SameNames
  <2>2. Cardinality(Layer') <= Cardinality(bases) /\ Cardinality(Layer') \in Nat /\ Cardinality(bases) \in Nat
    BY <2>1, TypedBarrels, FS_Subset
  <2>3. Cardinality(Layer') + depth' <= MaxDoc + 1
    BY <1>2, <1>a, <2>2 DEF OpenInv, BoundInv, Types, TypeOK
  <2>. QED  BY <1>1, <1>2, <2>3 DEF OpenInv, BoundInv, SameNames, WriterSame
<1>7. EmptyInv'
  BY <1>2, <1>a DEF EmptyInv, WriterSame
<1>8. NameInv'
  BY <1>1, <1>2, NamesKept DEF MidIn
<1>9. SortInv'
  BY <1>2 DEF SortInv
<1>10. ListInv' /\ ClaimInv' /\ AgreeInv' /\ BinlogInv'
  <2>1. ~Renaming' => ~Renaming
    BY <1>2 DEF Renaming
  <2>2. ~Renaming' => \A k \in Nat : MidIn(k) => MidIn(k)'
    BY <1>2 DEF Renaming, MidIn
  <2>3. Agreeing' => Agreeing
    BY <1>2 DEF Agreeing, WriterSame
  <2>. QED  BY <1>1, <1>2, <2>1, <2>2, <2>3, ListKept
<1>. QED  BY <1>3, <1>4, <1>5, <1>6, <1>7, <1>8, <1>9, <1>10 DEF OpenInv

-----------------------------------------------------------------------------
(* The steps of the merger that make a barrel *)

\* The files of the new barrel are written under a name no barrel has.
LEMMA OutputStep ==
  ASSUME Types, OpenInv, SameNames, SameBarrels, SameRealTime,
         NEW S, S \subseteq bases, S # {}, \A b \in S : ~InMemory(b),
         NEW k, k \in 0 .. MaxDoc, (mpc = "idle" /\ k = 0) \/ (mpc = "policy" /\ k = depth),
         depth' = (IF k = 0 THEN 0 ELSE k + 1), depth' \in 0 .. MaxDoc,
         outputNewBarrel(S, Mid(k)), optimize' \in BOOLEAN, optimize' => optimize,
         depth' # 0 => Cardinality(Layer' \ S) + depth' <= MaxDoc
  PROVE  Types' /\ OpenInv'
<1>. DEFINE all == UNION {barrels[b].docs : b \in S}
<1>0. /\ None \notin bases /\ mode \in {"default", "realtime"} /\ \A b \in bases : barrels[b] \in Info
      /\ k \in Nat /\ depth \in Nat /\ MaxDoc \in Nat /\ nBarrelCounter \in Nat
  BY TypedBarrels, StoreAssumption DEF Types, TypeOK
<1>1. /\ UNCHANGED <<list, binlog, openVars, mode, nBarrelCounter, cur, lock, wpc, next, docs, acked>>
      /\ mpc' = "output" /\ sources' = S /\ todo' = S
      /\ new' = [name |-> Mid(k), docs |-> all, num |-> 0, writer |-> FALSE, rt |-> FALSE,
                 merge |-> IF Mid(k) = Mid(0) THEN "none" ELSE "layer"]
      /\ files' = Put(files, Mid(k), all)
  BY DEF outputNewBarrel, openVars, writerVars
<1>2. /\ new'.name = Mid(k) /\ new'.docs = all /\ new'.num = 0 /\ ~new'.writer /\ ~new'.rt
      /\ new'.merge = (IF k = 0 THEN "none" ELSE "layer")
  BY <1>0, <1>1, NamesDiffer
<1>3. /\ DOMAIN files' = DOMAIN files \cup {Mid(k)} /\ files'[Mid(k)] = all
      /\ \A n \in DOMAIN files : n # Mid(k) => files'[n] = files[n]
  BY <1>1 DEF Put
<1>4. Listed' = Listed /\ RealTimeBarrels' = RealTimeBarrels /\ Current' = Current
  BY <1>1, ListSame
<1>5. \A x : x \in all <=> \E b \in S : x \in barrels[b].docs
  OBVIOUS
<1>. HIDE DEF all
<1>6. mpc # "output" /\ ~Renaming /\ ~Renaming' /\ mpc \notin {"tmp", "final"} /\ lock # "merger"
  BY <1>1 DEF Renaming, OpenInv, MergerInv, Removing
<1>7. /\ \A j \in Nat : MidIn(j) => MidIn(j)' /\ j # k
      /\ mpc = "policy" => k # 0
  BY <1>0, <1>1 DEF MidIn, OpenInv, MergerInv
<1>8. /\ \A b \in bases : barrels[b].name # Mid(k)
      /\ list.whole => \A b \in DOMAIN Listed : Listed[b].name # Mid(k)
  <2>1. \A b \in bases : PlainName(barrels[b].name, nBarrelCounter)
    BY <1>6 DEF OpenInv, NameInv
  <2>2. list.whole => \A b \in DOMAIN Listed : PlainName(Listed[b].name, list.counter)
    BY <1>6 DEF OpenInv, ListInv
  <2>. QED  BY <1>0, <1>7, <2>1, <2>2, NamesDiffer DEF PlainName
<1>9. all \subseteq Docs /\ all \subseteq 1 .. docs
  BY <1>0, <1>5, InfoFields DEF OpenInv, CoverInv
<1>11. Types'
  <2>1. new' \in Info
    <3>1. Mid(k) \in Names
      BY NamesAre DEF Plain
    <3>. QED  BY <1>1, <1>9, <3>1 DEF Info
  <2>2. DOMAIN files' \subseteq Names /\ \A n \in DOMAIN files' : files'[n] \subseteq Docs
    <3>1. Mid(k) \in Names
      BY NamesAre DEF Plain
    <3>. QED  BY <1>3, <1>9, <3>1 DEF Types, TypeOK
  <2>3. S \subseteq Docs
    BY TypedBarrels
  <2>4. TypeOK'
    BY <1>1, <2>2, <2>3 DEF Types, TypeOK, SameNames, openVars
  <2>. QED  BY <1>1, <1>4, <2>1, <2>4 DEF Types, ListTypes, MergerPC
<1>12. WriterInv' /\ EmptyInv'
  <2>1. docs # 0
    <3>1. PICK s \in S : TRUE
      OBVIOUS
    <3>2. s \in 1 .. docs
      BY <3>1 DEF OpenInv, BoundInv
    <3>. QED  BY <3>2
  <2>. QED  BY <1>1, <2>1 DEF OpenInv, WriterInv, EmptyInv
<1>13. MergerInv'
  <2>1. \A b \in S : b \in bases' /\ ~barrels'[b].writer
    BY DEF SameNames, SameBarrels, InMemory
  <2>2. S \subseteq 1 .. docs
    BY DEF OpenInv, BoundInv
  <2>3. new'.name = Mid(IF depth' = 0 THEN 0 ELSE depth' - 1) /\ depth' # 1
    BY <1>0, <1>2
  <2>4. new'.merge = (IF depth' = 0 THEN "none" ELSE "layer")
    BY <1>0, <1>2
  <2>. QED  BY <1>1, <1>2, <1>6, <2>1, <2>2, <2>3, <2>4 DEF MergerInv, Removing, InMemory
<1>14. BoundInv'
  <2>1. PICK s \in S : TRUE
    OBVIOUS
  <2>2. Cardinality(bases \ S) < Cardinality(bases) /\ Cardinality(bases) \in Nat /\ Cardinality(bases \ S) \in Nat
    <3>1. /\ IsFiniteSet(bases) /\ IsFiniteSet(bases \ {s}) /\ Cardinality(bases) \in Nat
          /\ Cardinality(bases \ {s}) = Cardinality(bases) - 1 /\ Cardinality(bases \ S) \in Nat
      BY TypedBarrels, FS_RemoveElement
    <3>2. Cardinality(bases \ S) <= Cardinality(bases \ {s})
      <4>1. bases \ S \subseteq bases \ {s}
        OBVIOUS
      <4>. QED  BY <3>1, <4>1, FS_Subset
    <3>3. Cardinality(bases \ {s}) \in Nat
      BY TypedBarrels
    <3>. QED  BY <3>1, <3>2, <3>3
  <2>3. bases \subseteq 1 .. docs /\ nBarrelCounter <= docs /\ Cardinality(bases) <= nBarrelCounter
    BY DEF OpenInv, BoundInv
  <2>. QED  BY <1>0, <1>1, <2>2, <2>3 DEF BoundInv, SameNames
<1>15. MemoryInv'
  BY <1>1 DEF OpenInv, MemoryInv, FlushKeeps, SameNames, SameBarrels, InMemory
<1>16. BinlogInv'
  BY <1>1, <1>4 DEF OpenInv, BinlogInv, Obsolete, SameNames, SameBarrels, SameRealTime, InMemory
<1>17. NameInv' /\ SortInv'
  <2>1. \A b \in bases : PlainName(barrels[b].name, nBarrelCounter)'
    BY <1>1, <1>6, <1>7 DEF OpenInv, NameInv, PlainName, SameNames
  <2>. QED  BY <1>1, <2>1 DEF OpenInv, NameInv, SameNames, SortInv
<1>18. FileInv'
  <2>1. \A n \in DOMAIN files' : (\E b \in bases : ~barrels[b].writer /\ barrels[b].name = n) \/ n = Mid(k)
    BY <1>3, <1>6 DEF OpenInv, FileInv, InMemory
  <2>2. \A b \in bases : ~barrels[b].writer =>
          barrels[b].name \in DOMAIN files' /\ files'[barrels[b].name] = barrels[b].docs
    BY <1>3, <1>8 DEF OpenInv, FileInv, InMemory
  <2>. QED  BY <1>1, <1>2, <1>3, <2>1, <2>2 DEF FileInv, SameNames, SameBarrels, InMemory
<1>19. CoverInv'
  <2>1. /\ S \subseteq all /\ \A b \in S : barrels[b].docs \subseteq all
        /\ \A d \in all : \E b \in S : d \in barrels[b].docs
    BY <1>5 DEF OpenInv, CoverInv
  <2>2. \A b \in bases \ S : barrels[b].docs \cap all = {}
    BY <1>5 DEF OpenInv, CoverInv
  <2>3. /\ \A b \in bases :
             b \in barrels[b].docs /\ barrels[b].docs \subseteq 1 .. docs /\ barrels[b].num # 0
        /\ \A b, c \in bases : b # c => barrels[b].docs \cap barrels[c].docs = {}
        /\ \A d \in 1 .. docs : \E b \in bases : d \in barrels[b].docs
    BY <1>6 DEF OpenInv, CoverInv
  <2>. QED  BY <1>1, <1>2, <1>9, <2>1, <2>2, <2>3 DEF CoverInv, SameNames
<1>20. AckInv'
  <2>1. ~Flushing => all \subseteq acked
    BY <1>5 DEF OpenInv, AckInv
  <2>. QED  BY <1>1, <1>2, <2>1 DEF OpenInv, AckInv, Flushing, SameNames, SameBarrels, InMemory
<1>21. ListInv'
  <2>1. \A b : PlainName(Listed[b].name, list.counter) => PlainName(Listed[b].name, list.counter)'
    BY <1>1, <1>4, <1>7 DEF PlainName
  <2>2. \A b \in DOMAIN Listed : Alive(b) => Alive(b)'
    BY <1>4 DEF Alive, SameNames
  <2>. QED  BY <1>1, <1>2, <1>4, <1>6, <1>8, <2>1, <2>2 DEF OpenInv, ListInv, SameNames
<1>22. ClaimInv'
  <2>1. \A b \in DOMAIN Listed : Alive(b)' => Alive(b) /\ barrels'[b].docs = barrels[b].docs
    BY <1>4 DEF Alive, SameNames
  <2>. QED  BY <1>1, <1>4, <1>6, <2>1 DEF OpenInv, ClaimInv
<1>23. AgreeInv'
  BY <1>1 DEF AgreeInv, Agreeing
<1>. QED  BY <1>11, <1>12, <1>13, <1>14, <1>15, <1>16, <1>17, <1>18, <1>19, <1>20, <1>21, <1>22,
             <1>23 DEF OpenInv

\* The policy merges some of its barrels: it is left with fewer.
LEMMA MergeLayersStep ==
  ASSUME Types, OpenInv, MergeLayers
  PROVE  Types' /\ OpenInv'
<1>1. PICK S \in SUBSET Layer : Cardinality(S) > 1 /\ outputNewBarrel(S, Mid(depth))
  BY DEF MergeLayers, Layer
<1>2. mpc = "policy" /\ depth' = depth + 1 /\ UNCHANGED <<barrels, optimize>>
  BY DEF MergeLayers, MergerAt
<1>3. SameNames /\ SameBarrels /\ SameRealTime /\ Layer' = Layer
  BY <1>2, SameIfUnchanged DEF OpenInv
<1>4. S \subseteq bases /\ Layer \subseteq bases /\ \A b \in S : ~InMemory(b)
  BY <1>1 DEF Layer, OpenInv, MemoryInv
<1>5. depth \in Nat /\ depth # 0 /\ MaxDoc \in Nat /\ Cardinality(Layer) + depth <= MaxDoc + 1
  BY <1>2, StoreAssumption DEF Types, TypeOK, OpenInv, MergerInv, BoundInv
<1>6. /\ IsFiniteSet(S) /\ IsFiniteSet(Layer) /\ Cardinality(S) \in Nat /\ Cardinality(Layer) \in Nat
      /\ Cardinality(Layer \ S) \in Nat
  BY <1>4, TypedBarrels
<1>7. Cardinality(Layer \ S) = Cardinality(Layer) - Cardinality(S)
  <2>1. S = Layer \cap S
    BY <1>1
  <2>. QED  BY <1>6, <2>1, FS_Difference
<1>8. depth \in 0 .. MaxDoc /\ depth' \in 0 .. MaxDoc /\ Cardinality(Layer' \ S) + depth' <= MaxDoc
  BY <1>1, <1>2, <1>3, <1>5, <1>6, <1>7
<1>9. S # {}
  BY <1>1, FS_EmptySet
<1>10. depth' = (IF depth = 0 THEN 0 ELSE depth + 1) /\ optimize' \in BOOLEAN /\ (optimize' => optimize)
  BY <1>2, <1>5 DEF Types
<1>. QED  BY <1>1, <1>2, <1>3, <1>4, <1>8, <1>9, <1>10, OutputStep

\* OPTIMIZE_ALL: all barrels that are on disk are merged.
LEMMA MergeBarrelsStep ==
  ASSUME Types, OpenInv, mergeBarrels
  PROVE  Types' /\ OpenInv'
<1>0. None \notin bases /\ mode \in {"default", "realtime"}
  BY TypedBarrels
<1>1. mpc = "idle" /\ optimize /\ lock = "none" /\ optimize' = FALSE /\ depth' = 0 /\ barrels' = Renewed
  BY DEF mergeBarrels, MergerAt
<1>2. SameNames /\ SameBarrels /\ SameRealTime
  <2>1. /\ bases' = bases
        /\ \A b \in bases : barrels'[b] = IF barrels[b].merge = "layer"
                                          THEN [barrels[b] EXCEPT !.merge = "none"] ELSE barrels[b]
    BY <1>1 DEF Renewed, bases
  <2>2. \A b \in bases : barrels[b] \in Info /\ (barrels[b].writer => barrels[b].merge = "none")
    BY TypedBarrels DEF OpenInv, MemoryInv, InMemory
  <2>3. \A r \in Info : LET s == [r EXCEPT !.merge = "none"]
                        IN /\ s \in Info /\ s.name = r.name /\ s.docs = r.docs /\ s.num = r.num
                           /\ s.writer = r.writer /\ s.rt = r.rt /\ s.merge = "none"
    BY DEF Info
  <2>4. ASSUME NEW b \in bases
        PROVE  /\ barrels'[b] \in Info /\ barrels'[b].name = barrels[b].name
               /\ barrels'[b].docs = barrels[b].docs /\ barrels'[b].num = barrels[b].num
               /\ barrels'[b].writer = barrels[b].writer /\ barrels'[b].rt = barrels[b].rt
               /\ barrels[b].writer => barrels'[b].merge = "none"
    <3>1. CASE barrels[b].merge = "layer"
      <4>1. barrels'[b] = [barrels[b] EXCEPT !.merge = "none"] /\ barrels[b] \in Info
        BY <2>1, <2>2, <3>1
      <4>. QED  BY <2>3, <4>1
    <3>2. CASE barrels[b].merge # "layer"
      <4>1. barrels'[b] = barrels[b]
        BY <2>1, <3>2
      <4>. QED  BY <2>2, <4>1
    <3>. QED  BY <3>1, <3>2
  <2>. QED  BY <2>1, <2>4 DEF SameNames, SameBarrels, SameRealTime
<1>3. CASE Cardinality(bases) > 1
  <2>1. outputNewBarrel(OnDisk, Mid(0))
    BY <1>3 DEF mergeBarrels
  <2>2. OnDisk \subseteq bases /\ \A b \in OnDisk : ~InMemory(b)
    BY DEF OnDisk
  <2>3. OnDisk # {}
    <3>1. SUFFICES ASSUME OnDisk = {} PROVE FALSE
      OBVIOUS
    <3>2. \A b, c \in bases : b = c
      BY <3>1 DEF OnDisk, OpenInv, MemoryInv
    <3>3. PICK b \in bases : TRUE
      BY <1>3, FS_EmptySet
    <3>4. bases = {b}
      BY <3>2, <3>3
    <3>5. Cardinality({b}) = 1
      BY FS_Singleton
    <3>. QED  BY <1>3, <3>4, <3>5
  <2>4. 0 \in 0 .. MaxDoc /\ depth' = (IF 0 = 0 THEN 0 ELSE 0 + 1) /\ depth' \in 0 .. MaxDoc
    BY <1>1, StoreAssumption
  <2>5. optimize' \in BOOLEAN /\ (optimize' => optimize)
    BY <1>1
  <2>6. depth' # 0 => Cardinality(Layer' \ OnDisk) + depth' <= MaxDoc
    BY <1>1
  <2>. QED  BY <1>1, <1>2, <2>1, <2>2, <2>3, <2>4, <2>5, <2>6, OutputStep
<1>4. CASE ~(Cardinality(bases) > 1)
  <2>1. WriterSame /\ UNCHANGED <<list, openVars, lock, mpc, sources, new, todo>>
    BY <1>4 DEF mergeBarrels, WriterSame, diskVars, openVars, writerVars
  <2>2. Types'
    <3>1. depth' \in 0 .. MaxDoc
      <4>1. depth' = 0
        BY <1>1
      <4>. QED  BY <4>1, StoreAssumption
    <3>2. optimize' \in BOOLEAN
      BY <1>1
    <3>. QED  BY <1>1, <1>2, <2>1, <3>1, <3>2, TypesKept DEF Types, TypeOK, MergerPC
  <2>3. WriterInv' /\ MemoryInv' /\ FileInv' /\ CoverInv' /\ AckInv'
    BY <1>1, <1>2, <2>1, MergerFrame
  <2>4. MergerInv'
    BY <1>1, <2>1 DEF OpenInv, MergerInv, Removing
  <2>5. BoundInv'
    BY <1>1, <1>2, <2>1, BoundKept
  <2>6. EmptyInv'
    BY <2>1, ListSame DEF OpenInv, EmptyInv, WriterSame
  <2>7. NameInv' /\ SortInv'
    BY <1>1, <1>2, <2>1, NamesKept DEF MidIn, SortInv
  <2>8. ListInv' /\ ClaimInv' /\ AgreeInv' /\ BinlogInv'
    <3>1. ~Renaming /\ (\A k \in Nat : MidIn(k) => MidIn(k)') /\ (Agreeing' => Agreeing)
      BY <1>1, <2>1 DEF Renaming, MidIn, Agreeing, WriterSame
    <3>. QED  BY <1>1, <1>2, <2>1, <3>1, ListKept
  <2>. QED  BY <2>2, <2>3, <2>4, <2>5, <2>6, <2>7, <2>8 DEF OpenInv
<1>. QED  BY <1>3, <1>4

-----------------------------------------------------------------------------
(* createNewBarrelInfo() *)

\* While a merge is under way its new barrel has a name of its own.
LEMMA NewNameFree ==
  ASSUME Types, OpenInv, mpc = "output"
  PROVE  \A b \in bases : barrels[b].name # new.name
<1>1. \A b \in bases : PlainName(barrels[b].name, nBarrelCounter)
  BY DEF OpenInv, NameInv
<1>2. depth \in Nat /\ depth # 1 /\ new.name = Mid(IF depth = 0 THEN 0 ELSE depth - 1)
  BY StoreAssumption DEF Types, TypeOK, OpenInv, MergerInv
<1>3. \A k \in Nat : MidIn(k) => k # (IF depth = 0 THEN 0 ELSE depth - 1)
  BY <1>2 DEF MidIn
<1>. QED  BY <1>1, <1>2, <1>3, NamesDiffer DEF PlainName

\* A merged barrel is removed, with its files.
LEMMA RemoveBarrelStep ==
  ASSUME Types, OpenInv, NEW b, removeBarrel(b)
  PROVE  Types' /\ OpenInv'
<1>0. None \notin bases /\ mode \in {"default", "realtime"} /\ \A c \in bases : barrels[c] \in Info
  BY TypedBarrels
<1>1. /\ UNCHANGED <<list, binlog, openVars, mode, nBarrelCounter, cur, wpc, next, docs, acked,
                     optimize, mpc, sources, depth>>
      /\ mpc = "output" /\ b \in todo /\ lock \in {"none", "merger"} /\ lock' = "merger"
      /\ todo' = todo \ {b}
  BY DEF removeBarrel, MergerAt, openVars, writerVars
<1>2. /\ bases' = bases \ {b}
      /\ \A c \in bases' : barrels'[c] = barrels[c]
  BY DEF removeBarrel, Drop, bases
<1>3. /\ b \in bases /\ ~InMemory(b) /\ b \in sources /\ todo \subseteq sources
      /\ barrels[b].num \in Nat \ {0}
  BY <1>0, <1>1, InfoFields DEF OpenInv, MergerInv, CoverInv
<1>4. /\ new' \in Info /\ new'.name = new.name /\ new'.docs = new.docs /\ new'.merge = new.merge
      /\ new'.writer = new.writer /\ new'.rt = new.rt /\ new'.num # 0
  <2>1. new \in Info
    BY <1>1 DEF Types
  <2>2. new' = [name |-> new.name, docs |-> new.docs, num |-> new.num + barrels[b].num,
                writer |-> new.writer, rt |-> new.rt, merge |-> new.merge]
    <3>1. new' = [new EXCEPT !.num = @ + barrels[b].num]
      BY DEF removeBarrel
    <3>. QED  BY <2>1, <3>1 DEF Info
  <2>3. new.num + barrels[b].num \in Nat \ {0}
    BY <1>3, <2>1, InfoFields
  <2>. QED  BY <2>1, <2>2, <2>3, InfoFields DEF Info
<1>5. /\ DOMAIN files' = DOMAIN files \ {barrels[b].name}
      /\ \A n \in DOMAIN files' : files'[n] = files[n]
  BY DEF removeBarrel, Drop
<1>6. \A c \in bases : barrels[c].name # new.name
  BY <1>1, NewNameFree
<1>7. Listed' = Listed /\ RealTimeBarrels' = RealTimeBarrels /\ Current' = Current
  BY <1>1, ListSame
<1>8. todo' # sources /\ Removing'
  BY <1>1, <1>3 DEF Removing
<1>11. Types'
  <2>1. DOMAIN files' \subseteq Names /\ \A n \in DOMAIN files' : files'[n] \subseteq Docs
    BY <1>5 DEF Types, TypeOK
  <2>2. bases' \subseteq Docs /\ (\A c \in bases' : barrels'[c] \in Info) /\ todo' \subseteq Docs
    BY <1>1, <1>2 DEF Types, TypeOK
  <2>3. TypeOK'
    BY <1>1, <2>1, <2>2 DEF Types, TypeOK, openVars
  <2>. QED  BY <1>1, <1>4, <1>7, <2>3 DEF Types, ListTypes
<1>12. WriterInv' /\ EmptyInv' /\ SortInv'
  BY <1>1 DEF OpenInv, WriterInv, EmptyInv, SortInv
<1>13. MergerInv'
  <2>1. \A c \in todo' : c \in bases' /\ ~barrels'[c].writer
    BY <1>1, <1>2 DEF OpenInv, MergerInv, InMemory
  <2>2. \A c \in sources \ todo' : c \notin bases'
    BY <1>1, <1>2 DEF OpenInv, MergerInv
  <2>. QED  BY <1>1, <1>4, <1>8, <2>1, <2>2 DEF OpenInv, MergerInv, InMemory
<1>14. BoundInv'
  <2>1. bases' \ todo' = bases \ todo /\ Layer' \ todo' = Layer \ todo
    BY <1>1, <1>2 DEF Layer
  <2>2. Cardinality(bases') <= Cardinality(bases) /\ Cardinality(bases') \in Nat /\ Cardinality(bases) \in Nat
    BY <1>2, TypedBarrels, FS_Subset
  <2>3. /\ bases \subseteq 1 .. docs /\ nBarrelCounter <= docs /\ nBarrelCounter \in Nat
        /\ Cardinality(bases) <= nBarrelCounter /\ Cardinality(bases \ todo) < nBarrelCounter
        /\ depth # 0 => Cardinality(Layer \ todo) + depth <= MaxDoc
    BY <1>1 DEF OpenInv, BoundInv, Types, TypeOK
  <2>4. bases' \subseteq 1 .. docs
    BY <1>2, <2>3
  <2>5. Cardinality(bases') <= nBarrelCounter
    BY <2>2, <2>3
  <2>. QED  BY <1>1, <2>1, <2>3, <2>4, <2>5 DEF BoundInv
<1>15. MemoryInv'
  BY <1>1, <1>2, <1>3 DEF OpenInv, MemoryInv, FlushKeeps, InMemory
<1>16. BinlogInv'
  BY <1>1, <1>2, <1>3, <1>7 DEF OpenInv, BinlogInv, Obsolete, InMemory
<1>17. NameInv'
  <2>1. \A c \in bases' : PlainName(barrels[c].name, nBarrelCounter)'
    BY <1>1, <1>2 DEF OpenInv, NameInv, PlainName, MidIn
  <2>. QED  BY <1>1, <1>2, <2>1 DEF OpenInv, NameInv
<1>18. FileInv'
  <2>1. \A n \in DOMAIN files' :
          (\E c \in bases' : ~barrels'[c].writer /\ barrels'[c].name = n) \/ n = new.name
    BY <1>1, <1>2, <1>5 DEF OpenInv, FileInv, InMemory
  <2>2. \A c \in bases' : ~barrels'[c].writer =>
          barrels'[c].name \in DOMAIN files' /\ files'[barrels'[c].name] = barrels'[c].docs
    BY <1>2, <1>3, <1>5 DEF OpenInv, FileInv, NameInv, InMemory
  <2>3. new.name \in DOMAIN files' /\ files'[new.name] = new.docs
    BY <1>1, <1>3, <1>5, <1>6 DEF OpenInv, FileInv
  <2>. QED  BY <1>1, <1>4, <2>1, <2>2, <2>3 DEF FileInv, InMemory
<1>19. CoverInv'
  <2>1. \A d \in 1 .. docs : (\E c \in bases' : d \in barrels'[c].docs) \/ d \in new.docs
    BY <1>1, <1>2 DEF OpenInv, CoverInv
  <2>2. /\ \A c \in bases' : c \in barrels'[c].docs /\ barrels'[c].docs \subseteq 1 .. docs /\ barrels'[c].num # 0
        /\ \A c, e \in bases' : c # e => barrels'[c].docs \cap barrels'[e].docs = {}
    BY <1>2 DEF OpenInv, CoverInv
  <2>3. /\ sources \subseteq new.docs /\ new.docs \subseteq 1 .. docs
        /\ \A c \in todo : barrels[c].docs \subseteq new.docs
        /\ \A c \in bases \ todo : barrels[c].docs \cap new.docs = {}
        /\ todo \subseteq bases
    BY <1>1 DEF OpenInv, CoverInv, MergerInv
  <2>4. /\ \A c \in todo' : barrels'[c].docs \subseteq new.docs
        /\ \A c \in bases' \ todo' : barrels'[c].docs \cap new.docs = {}
    BY <1>1, <1>2, <2>3
  <2>. QED  BY <1>1, <1>4, <1>8, <2>1, <2>2, <2>3, <2>4 DEF CoverInv
<1>20. AckInv'
  BY <1>1, <1>2, <1>4 DEF OpenInv, AckInv, Flushing, InMemory
<1>21. ListInv'
  <2>1. \A c : PlainName(Listed[c].name, list.counter) => PlainName(Listed[c].name, list.counter)'
    BY <1>1, <1>7 DEF PlainName, MidIn
  <2>2. ASSUME NEW c \in DOMAIN Listed, list.whole
        PROVE  /\ PlainName(Listed[c].name, list.counter)
               /\ \/ Alive(c)'
                  \/ /\ \A e \in bases' : barrels'[e].name # Listed[c].name
                     /\ new.name # Listed[c].name
    <3>1. /\ PlainName(Listed[c].name, list.counter)
          /\ \/ Alive(c)
             \/ /\ \A e \in bases : barrels[e].name # Listed[c].name
                /\ new.name # Listed[c].name
      BY <1>1, <2>2 DEF OpenInv, ListInv, Renaming
    <3>2. CASE Alive(c) /\ c = b
      BY <1>2, <1>3, <1>6, <3>1, <3>2 DEF Alive, OpenInv, NameInv
    <3>3. CASE Alive(c) /\ c # b
      BY <1>2, <1>7, <3>1, <3>3 DEF Alive
    <3>. QED  BY <1>2, <3>1, <3>2, <3>3
  <2>3. list.whole => list.counter <= nBarrelCounter /\ Cardinality(DOMAIN Listed) <= list.counter
    BY DEF OpenInv, ListInv
  <2>. QED  BY <1>1, <1>4, <1>7, <2>1, <2>2, <2>3 DEF ListInv
<1>22. ClaimInv'
  <2>1. \A c \in DOMAIN Listed : Alive(c)' => Alive(c) /\ barrels'[c].docs = barrels[c].docs
    BY <1>2, <1>7 DEF Alive
  <2>. QED  BY <1>1, <1>7, <2>1 DEF OpenInv, ClaimInv, Renaming
<1>23. AgreeInv'
  BY <1>1 DEF AgreeInv, Agreeing
<1>. QED  BY <1>11, <1>12, <1>13, <1>14, <1>15, <1>16, <1>17, <1>18, <1>19, <1>20, <1>21, <1>22,
             <1>23 DEF OpenInv

\* The new barrel is added, under the least of the base documents it was made from.
LEMMA AddBarrelStep ==
  ASSUME Types, OpenInv, addBarrel
  PROVE  Types' /\ OpenInv'
<1>. DEFINE m == Min(sources)
<1>0. /\ None \notin bases /\ mode \in {"default", "realtime"} /\ \A c \in bases : barrels[c] \in Info
      /\ depth \in Nat /\ MaxDoc \in Nat
  BY TypedBarrels, StoreAssumption DEF Types, TypeOK
<1>1. /\ UNCHANGED <<files, list, binlog, openVars, mode, nBarrelCounter, cur, wpc, next, docs, acked,
                     optimize, depth, todo>>
      /\ mpc = "output" /\ todo = {} /\ lock' = "none" /\ sources' = {} /\ new' = None
      /\ mpc' = (IF new.merge = "layer" THEN "policy" ELSE "sort")
  BY DEF addBarrel, MergerAt, diskVars, openVars, writerVars
<1>2. m \in sources
  <2>1. sources \in SUBSET Nat /\ sources # {}
    BY <1>1, StoreAssumption DEF Types, TypeOK, Docs, OpenInv, MergerInv
  <2>. QED  BY <2>1, MinOfNaturals
<1>3. /\ bases' = bases \cup {m} /\ barrels'[m] = new
      /\ \A c \in bases : c # m => barrels'[c] = barrels[c]
  BY DEF addBarrel, Put, bases
<1>. HIDE DEF m
<1>4. m \notin bases /\ m \in Docs /\ m \in 1 .. docs /\ m # None
  <2>1. m \notin bases /\ m \in Docs /\ m \in 1 .. docs
    BY <1>1, <1>2 DEF OpenInv, MergerInv, Types, TypeOK
  <2>. QED  BY <2>1, StoreAssumption DEF Docs, None
<1>5. \A c \in bases : barrels'[c] = barrels[c]
  BY <1>3, <1>4
<1>6. /\ new \in Info /\ new.name = Mid(IF depth = 0 THEN 0 ELSE depth - 1)
      /\ new.merge = (IF depth = 0 THEN "none" ELSE "layer") /\ ~new.writer /\ ~new.rt /\ new.num # 0
      /\ lock = "merger" /\ depth # 1
  BY <1>1 DEF Types, OpenInv, MergerInv, Removing
<1>7. mpc' = (IF depth = 0 THEN "sort" ELSE "policy")
  BY <1>1, <1>6
<1>8. Listed' = Listed /\ RealTimeBarrels' = RealTimeBarrels /\ Current' = Current
  BY <1>1, ListSame
<1>9. \A c \in bases : barrels[c].name # new.name
  BY <1>1, NewNameFree
<1>10. /\ \A k \in Nat : MidIn(k) => MidIn(k)'
       /\ \E k \in Nat : MidIn(k)' /\ new.name = Mid(k)
  <2>1. \A k \in Nat : MidIn(k) => MidIn(k)'
    BY <1>0, <1>1, <1>7 DEF MidIn
  <2>2. CASE depth = 0
    BY <1>1, <1>6, <1>7, <2>2 DEF MidIn
  <2>3. CASE depth # 0
    <3>1. PICK k \in Nat : k = depth - 1
      BY <1>0, <2>3
    <3>2. 1 <= k /\ k < depth /\ new.name = Mid(k)
      BY <1>0, <1>6, <2>3, <3>1
    <3>3. MidIn(k)'
      BY <1>1, <1>7, <2>3, <3>2 DEF MidIn
    <3>. QED  BY <2>1, <3>2, <3>3
  <2>. QED  BY <2>1, <2>2, <2>3
<1>11. Types'
  <2>1. bases' \subseteq Docs /\ \A c \in bases' : barrels'[c] \in Info
    BY <1>0, <1>3, <1>4, <1>5, <1>6 DEF Types, TypeOK
  <2>2. TypeOK'
    BY <1>1, <2>1 DEF Types, TypeOK, openVars
  <2>. QED  BY <1>1, <1>7, <1>8, <2>2 DEF Types, ListTypes, MergerPC
<1>12. WriterInv' /\ EmptyInv' /\ SortInv'
  BY <1>1, <1>6, <1>7 DEF OpenInv, WriterInv, EmptyInv, SortInv
<1>13. MergerInv'
  BY <1>1, <1>6, <1>7 DEF OpenInv, MergerInv, Removing
<1>14. BoundInv'
  <2>1. /\ IsFiniteSet(bases) /\ IsFiniteSet(Layer) /\ Cardinality(bases) \in Nat /\ Cardinality(Layer) \in Nat
        /\ m \notin Layer
    BY <1>4, TypedBarrels DEF Layer
  <2>2. Cardinality(bases \cup {m}) = Cardinality(bases) + 1 /\ Cardinality(Layer \cup {m}) = Cardinality(Layer) + 1
    BY <1>4, <2>1, FS_AddElement
  <2>3. /\ bases \ {} = bases /\ Layer \ {} = Layer
        /\ Cardinality(bases \ {}) < nBarrelCounter
        /\ depth # 0 => Cardinality(Layer \ {}) + depth <= MaxDoc
        /\ bases \subseteq 1 .. docs /\ nBarrelCounter <= docs /\ nBarrelCounter \in Nat
    BY <1>1 DEF OpenInv, BoundInv, Types, TypeOK
  <2>4. Cardinality(bases') <= nBarrelCounter
    BY <1>3, <2>1, <2>2, <2>3
  <2>5. depth # 0 => Layer' = Layer \cup {m}
    BY <1>3, <1>4, <1>5, <1>6 DEF Layer
  <2>6. depth # 0 => Cardinality(Layer') + depth <= MaxDoc + 1
    BY <1>0, <2>1, <2>2, <2>3, <2>5
  <2>. QED  BY <1>1, <1>3, <1>4, <1>7, <2>3, <2>4, <2>6 DEF BoundInv
<1>15. MemoryInv'
  BY <1>1, <1>3, <1>4, <1>5, <1>6 DEF OpenInv, MemoryInv, FlushKeeps, InMemory
<1>16. BinlogInv'
  BY <1>1, <1>3, <1>4, <1>5, <1>6, <1>8 DEF OpenInv, BinlogInv, Obsolete, InMemory
<1>17. NameInv'
  <2>1. \A c \in bases : PlainName(barrels[c].name, nBarrelCounter)
    BY <1>1 DEF OpenInv, NameInv
  <2>2. \A c \in bases' : PlainName(barrels[c].name, nBarrelCounter)'
    BY <1>1, <1>3, <1>5, <1>10, <2>1 DEF PlainName
  <2>3. \A c, e \in bases' : c # e => barrels'[c].name # barrels'[e].name
    BY <1>3, <1>5, <1>9 DEF OpenInv, NameInv
  <2>4. \A c \in bases', i \in Nat : barrels'[c].name = Final(i) => i < nBarrelCounter
    BY <1>3, <1>5, <1>6, NamesDiffer DEF OpenInv, NameInv
  <2>. QED  BY <1>1, <2>2, <2>3, <2>4 DEF NameInv
<1>18. FileInv'
  <2>1. \A n \in DOMAIN files : \E c \in bases' : ~barrels'[c].writer /\ barrels'[c].name = n
    BY <1>1, <1>3, <1>5, <1>6 DEF OpenInv, FileInv, InMemory
  <2>2. \A c \in bases' : ~barrels'[c].writer =>
          barrels'[c].name \in DOMAIN files /\ files[barrels'[c].name] = barrels'[c].docs
    BY <1>1, <1>3, <1>5 DEF OpenInv, FileInv, InMemory
  <2>. QED  BY <1>1, <1>7, <2>1, <2>2 DEF FileInv, InMemory
<1>19. CoverInv'
  <2>1. /\ sources \subseteq new.docs /\ new.docs \subseteq 1 .. docs
        /\ \A c \in bases : barrels[c].docs \cap new.docs = {}
    BY <1>1 DEF OpenInv, CoverInv
  <2>2. \A c \in bases' : c \in barrels'[c].docs /\ barrels'[c].docs \subseteq 1 .. docs /\ barrels'[c].num # 0
    BY <1>2, <1>3, <1>5, <1>6, <2>1 DEF OpenInv, CoverInv
  <2>3. \A c, e \in bases' : c # e => barrels'[c].docs \cap barrels'[e].docs = {}
    BY <1>3, <1>5, <2>1 DEF OpenInv, CoverInv
  <2>4. \A d \in 1 .. docs : \E c \in bases' : d \in barrels'[c].docs
    BY <1>3, <1>5 DEF OpenInv, CoverInv
  <2>. QED  BY <1>1, <1>7, <2>2, <2>3, <2>4 DEF CoverInv
<1>20. AckInv'
  BY <1>1, <1>3, <1>5, <1>7 DEF OpenInv, AckInv, Flushing, InMemory
<1>a. ASSUME NEW c \in DOMAIN Listed, list.whole
      PROVE  /\ PlainName(Listed[c].name, list.counter)
             /\ \/ Alive(c) /\ Alive(c)'
                \/ /\ \A e \in bases' : barrels'[e].name # Listed[c].name
                   /\ ~Alive(c)'
  <2>1. /\ PlainName(Listed[c].name, list.counter)
        /\ \/ Alive(c)
           \/ /\ \A e \in bases : barrels[e].name # Listed[c].name
              /\ new.name # Listed[c].name
    BY <1>1, <1>a DEF OpenInv, ListInv, Renaming
  <2>. QED  BY <1>3, <1>5, <1>8, <2>1 DEF Alive
<1>21. ListInv'
  <2>1. \A c : PlainName(Listed[c].name, list.counter) => PlainName(Listed[c].name, list.counter)'
    BY <1>1, <1>8, <1>10 DEF PlainName
  <2>2. list.whole => list.counter <= nBarrelCounter /\ Cardinality(DOMAIN Listed) <= list.counter
    BY DEF OpenInv, ListInv
  <2>. QED  BY <1>1, <1>7, <1>8, <1>a, <2>1, <2>2 DEF ListInv
<1>22. ClaimInv'
  <2>1. ~Renaming
    BY <1>1 DEF Renaming
  <2>2. \A c \in DOMAIN Listed : Alive(c) => barrels'[c].docs = barrels[c].docs
    BY <1>5 DEF Alive
  <2>. QED  BY <1>1, <1>8, <1>a, <2>1, <2>2 DEF OpenInv, ClaimInv
<1>23. AgreeInv'
  BY <1>1, <1>6, <1>7 DEF AgreeInv, Agreeing
<1>. QED  BY <1>11, <1>12, <1>13, <1>14, <1>15, <1>16, <1>17, <1>18, <1>19, <1>20, <1>21, <1>22,
             <1>23 DEF OpenInv

-----------------------------------------------------------------------------
(* sort() *)

\* A barrel gets a name that no other barrel has: there are no files in the way.
LEMMA RenameStep ==
  ASSUME Types, OpenInv, NEW b, NEW to, rename(b, to), mpc \in {"tmp", "final"}, b \in todo,
         to \in Names, \A c \in bases : c # b => barrels[c].name # to,
         \A i \in Nat : to = Final(i) => i < nBarrelCounter
  PROVE  /\ b \in bases /\ bases' = bases /\ barrels'[b].name = to
         /\ \A c \in bases : c # b => barrels'[c] = barrels[c]
         /\ mpc' = mpc /\ todo' = todo \ {b}
         /\ Types' /\ (SortInv' => OpenInv')
<1>0. /\ None \notin bases /\ mode \in {"default", "realtime"} /\ b \in bases
      /\ \A c \in bases : barrels[c] \in Info
  BY TypedBarrels DEF OpenInv, MergerInv
<1>1. ~(~InMemory(b) /\ barrels[b].name # to /\ to \in DOMAIN files)
  BY <1>0 DEF OpenInv, FileInv
<1>2. /\ UNCHANGED <<list, binlog, openVars, mode, nBarrelCounter, cur, lock, wpc, next, docs, acked,
                     optimize, sources, new, depth>>
      /\ todo' = todo \ {b}
  BY DEF rename, openVars, writerVars
<1>3. /\ mpc' = mpc /\ barrels' = [barrels EXCEPT ![b].name = to]
      /\ files' = IF InMemory(b) THEN files ELSE renameFiles(barrels[b].name, to)
  BY <1>1 DEF rename
<1>4. /\ bases' = bases /\ (\A c \in bases : c # b => barrels'[c] = barrels[c])
      /\ barrels'[b] = [barrels[b] EXCEPT !.name = to]
  BY <1>0, <1>3 DEF bases
<1>5. /\ barrels'[b] \in Info /\ barrels'[b].name = to /\ barrels'[b].docs = barrels[b].docs
      /\ barrels'[b].num = barrels[b].num /\ barrels'[b].writer = barrels[b].writer
      /\ barrels'[b].rt = barrels[b].rt /\ barrels'[b].merge = barrels[b].merge
  <2>1. \A r \in Info : LET s == [r EXCEPT !.name = to]
                        IN /\ s \in Info /\ s.name = to /\ s.docs = r.docs /\ s.num = r.num
                           /\ s.writer = r.writer /\ s.rt = r.rt /\ s.merge = r.merge
    BY DEF Info
  <2>. QED  BY <1>0, <1>4, <2>1
<1>6. \A c \in bases : /\ barrels'[c].docs = barrels[c].docs /\ barrels'[c].num = barrels[c].num
                       /\ barrels'[c].writer = barrels[c].writer /\ barrels'[c].rt = barrels[c].rt
                       /\ barrels'[c].merge = barrels[c].merge /\ barrels'[c] \in Info
                       /\ barrels'[c].name = IF c = b THEN to ELSE barrels[c].name
  BY <1>0, <1>4, <1>5
<1>7. Listed' = Listed /\ RealTimeBarrels' = RealTimeBarrels /\ Current' = Current
  BY <1>2, ListSame
<1>8. Renaming /\ Renaming' /\ mpc # "output" /\ lock = "merger"
  BY <1>3 DEF Renaming, OpenInv, MergerInv
<1>9. FileInv' /\ DOMAIN files' \subseteq Names /\ \A n \in DOMAIN files' : files'[n] \subseteq Docs
  <2>1. CASE InMemory(b)
    <3>1. files' = files
      BY <1>3, <2>1
    <3>2. FileInv'
      BY <1>3, <1>4, <1>6, <1>8, <2>1, <3>1 DEF OpenInv, FileInv, InMemory
    <3>. QED  BY <3>1, <3>2 DEF Types, TypeOK
  <2>2. CASE ~InMemory(b)
    <3>1. /\ DOMAIN files' = (DOMAIN files \ {barrels[b].name}) \cup {to}
          /\ files'[to] = files[barrels[b].name]
          /\ \A n \in DOMAIN files' : n # to => files'[n] = files[n]
      BY <1>3, <2>2 DEF renameFiles
    <3>2. barrels[b].name \in DOMAIN files /\ files[barrels[b].name] = barrels[b].docs
      BY <1>0, <2>2 DEF OpenInv, FileInv
    <3>3. \A c \in bases : c # b => barrels[c].name # barrels[b].name
      BY <1>0 DEF OpenInv, NameInv
    <3>4. \A n \in DOMAIN files' : \E c \in bases : ~barrels'[c].writer /\ barrels'[c].name = n
      <4>. TAKE n \in DOMAIN files'
      <4>1. CASE n = to
        BY <1>0, <1>6, <2>2, <4>1 DEF InMemory
      <4>2. CASE n # to
        <5>1. n \in DOMAIN files /\ n # barrels[b].name
          BY <3>1, <4>2
        <5>2. PICK c \in bases : ~InMemory(c) /\ barrels[c].name = n
          BY <1>8, <5>1 DEF OpenInv, FileInv
        <5>. QED  BY <1>6, <5>1, <5>2 DEF InMemory
      <4>. QED  BY <4>1, <4>2
    <3>5. ASSUME NEW c \in bases, ~barrels'[c].writer
          PROVE  barrels'[c].name \in DOMAIN files' /\ files'[barrels'[c].name] = barrels'[c].docs
      <4>1. CASE c = b
        BY <1>5, <3>1, <3>2, <4>1
      <4>2. CASE c # b
        <5>1. barrels[c].name \in DOMAIN files /\ files[barrels[c].name] = barrels[c].docs
          BY <1>6, <3>5 DEF OpenInv, FileInv, InMemory
        <5>. QED  BY <1>6, <3>1, <3>3, <4>2, <5>1
      <4>. QED  BY <4>1, <4>2
    <3>6. FileInv'
      BY <1>3, <1>4, <1>8, <3>4, <3>5 DEF FileInv, InMemory
    <3>. QED  BY <3>1, <3>2, <3>6 DEF Types, TypeOK
  <2>. QED  BY <2>1, <2>2
<1>11. Types'
  <2>1. bases' \subseteq Docs /\ (\A c \in bases' : barrels'[c] \in Info) /\ todo' \subseteq Docs
    BY <1>2, <1>4, <1>6 DEF Types, TypeOK
  <2>2. TypeOK'
    BY <1>2, <1>9, <2>1 DEF Types, TypeOK, openVars
  <2>. QED  BY <1>2, <1>3, <1>7, <1>8, <2>2 DEF Types, ListTypes
<1>12. WriterInv' /\ EmptyInv'
  BY <1>2, <1>3, <1>7 DEF OpenInv, WriterInv, EmptyInv
<1>13. MergerInv'
  BY <1>2, <1>3, <1>4, <1>8 DEF OpenInv, MergerInv, Removing
<1>14. BoundInv'
  BY <1>2, <1>3, <1>4 DEF OpenInv, BoundInv
<1>15. MemoryInv'
  BY <1>2, <1>4, <1>6 DEF OpenInv, MemoryInv, FlushKeeps, InMemory
<1>16. BinlogInv'
  BY <1>2, <1>4, <1>6, <1>7 DEF OpenInv, BinlogInv, Obsolete, InMemory
<1>17. NameInv'
  BY <1>2, <1>3, <1>4, <1>6 DEF OpenInv, NameInv
<1>19. CoverInv'
  BY <1>2, <1>3, <1>4, <1>6, <1>8 DEF OpenInv, CoverInv
<1>20. AckInv'
  BY <1>2, <1>3, <1>4, <1>6, <1>8 DEF OpenInv, AckInv, Flushing, InMemory
<1>21. ListInv' /\ ClaimInv' /\ AgreeInv'
  BY <1>2, <1>3, <1>7, <1>8 DEF OpenInv, ListInv, ClaimInv, AgreeInv, Agreeing
<1>. QED  BY <1>0, <1>2, <1>3, <1>4, <1>5, <1>9, <1>11, <1>12, <1>13, <1>14, <1>15, <1>16, <1>17,
             <1>19, <1>20, <1>21 DEF OpenInv

\* sort() gives a barrel its temporary name.
LEMMA RenameTmpStep ==
  ASSUME Types, OpenInv, NEW b, renameTmp(b)
  PROVE  Types' /\ OpenInv'
<1>1. mpc = "tmp" /\ b \in todo /\ rename(b, Tmp(barrels[b].name))
  BY DEF renameTmp, MergerAt
<1>2. /\ todo \subseteq bases
      /\ \A c \in todo : barrels[c].name \in Plain
      /\ \A c \in bases \ todo : \E n \in Plain : barrels[c].name = Tmp(n)
      /\ \A c \in todo, e \in bases \ todo : barrels[e].name # Tmp(barrels[c].name)
      /\ \A c, e \in bases : c # e => barrels[c].name # barrels[e].name
  BY <1>1 DEF OpenInv, SortInv, MergerInv, NameInv
<1>. DEFINE to == Tmp(barrels[b].name)
<1>3. \A n \in Plain : \A x : n # Tmp(x)
  BY NamesDiffer DEF Plain
<1>4. to \in Names
  BY <1>1, <1>2, NamesAre
<1>5. \A c \in bases : c # b => barrels[c].name # to
  BY <1>1, <1>2, <1>3
<1>6. \A i \in Nat : to # Final(i)
  BY NamesDiffer
<1>. HIDE DEF to
<1>7. /\ b \in bases /\ bases' = bases /\ barrels'[b].name = to
      /\ \A c \in bases : c # b => barrels'[c] = barrels[c]
      /\ mpc' = mpc /\ todo' = todo \ {b}
      /\ Types' /\ (SortInv' => OpenInv')
  <2>1. rename(b, to)
    BY <1>1 DEF to
  <2>. QED  BY <1>1, <1>4, <1>5, <1>6, <2>1, RenameStep
<1>8. \A c \in todo' : barrels'[c].name = barrels[c].name /\ c \in todo /\ c # b
  BY <1>2, <1>7
<1>9. ASSUME NEW e \in bases \ todo'
      PROVE  /\ \E n \in Plain : barrels'[e].name = Tmp(n)
             /\ \A c \in todo' : barrels'[e].name # Tmp(barrels[c].name)
  <2>1. CASE e = b
    <3>1. barrels'[e].name = Tmp(barrels[b].name) /\ barrels[b].name \in Plain
      BY <1>1, <1>2, <1>7, <2>1 DEF to
    <3>2. \A c \in todo' : barrels[c].name # barrels[b].name
      BY <1>2, <1>7, <1>8
    <3>. QED  BY <3>1, <3>2, NamesDiffer
  <2>2. CASE e # b
    <3>1. e \in bases \ todo /\ barrels'[e].name = barrels[e].name
      BY <1>7, <2>2
    <3>. QED  BY <1>2, <1>8, <3>1
  <2>. QED  BY <2>1, <2>2
<1>10. SortInv'
  <2>1. \A c \in todo' : barrels'[c].name \in Plain
    BY <1>2, <1>8
  <2>2. \A c \in todo', e \in bases \ todo' : barrels'[e].name # Tmp(barrels'[c].name)
    BY <1>8, <1>9
  <2>. QED  BY <1>1, <1>7, <1>9, <2>1, <2>2 DEF SortInv
<1>. QED  BY <1>7, <1>10

\* sort() gives a barrel its final name.
LEMMA RenameFinalStep ==
  ASSUME Types, OpenInv, NEW b, renameFinal(b)
  PROVE  Types' /\ OpenInv'
<1>. DEFINE n == Cardinality(bases \ todo)
            to == Final(n)
<1>1. mpc = "final" /\ b \in todo /\ rename(b, to)
  BY DEF renameFinal, MergerAt
<1>2. /\ todo \subseteq bases
      /\ \A c \in bases \ todo : \E i \in Nat : i < n /\ barrels[c].name = Final(i)
      /\ \A c \in todo : bases = {c} \/ \E x \in Plain : barrels[c].name = Tmp(x)
  BY <1>1 DEF OpenInv, SortInv, MergerInv
<1>3. /\ IsFiniteSet(bases \ todo) /\ IsFiniteSet(bases) /\ n \in Nat /\ Cardinality(bases) \in Nat
      /\ bases \ (todo \ {b}) = (bases \ todo) \cup {b} /\ b \notin bases \ todo
  BY <1>1, <1>2, TypedBarrels
<1>4. Cardinality(bases \ (todo \ {b})) = n + 1
  BY <1>3, FS_AddElement
<1>. HIDE DEF n
<1>5. n + 1 <= Cardinality(bases)
  BY <1>3, <1>4, FS_Subset
<1>6. n < nBarrelCounter /\ n \in 0 .. MaxDoc
  BY <1>3, <1>5, StoreAssumption DEF OpenInv, BoundInv, Types, TypeOK
<1>7. to \in Names
  BY <1>6, NamesAre DEF Plain
<1>8. \A c \in bases : c # b => barrels[c].name # to
  <2>. TAKE c \in bases
  <2>1. CASE c \in todo
    BY <1>1, <1>2, <2>1, NamesDiffer
  <2>2. CASE c \notin todo
    <3>1. PICK i \in Nat : i < n /\ barrels[c].name = Final(i)
      BY <1>2, <2>2
    <3>. QED  BY <1>3, <3>1, NamesDiffer
  <2>. QED  BY <2>1, <2>2
<1>9. \A i \in Nat : to = Final(i) => i < nBarrelCounter
  BY <1>6, NamesDiffer
<1>. HIDE DEF to
<1>10. /\ b \in bases /\ bases' = bases /\ barrels'[b].name = to
       /\ \A c \in bases : c # b => barrels'[c] = barrels[c]
       /\ mpc' = mpc /\ todo' = todo \ {b}
       /\ Types' /\ (SortInv' => OpenInv')
  BY <1>1, <1>7, <1>8, <1>9, RenameStep
<1>11. SortInv'
  <2>1. \A c \in todo' : c \in todo /\ c # b /\ barrels'[c].name = barrels[c].name
    BY <1>2, <1>10
  <2>2. \A c \in todo' : bases = {c} \/ \E x \in Plain : barrels'[c].name = Tmp(x)
    BY <1>2, <2>1
  <2>3. ASSUME NEW c \in bases \ todo'
        PROVE  \E i \in Nat : i < n + 1 /\ barrels'[c].name = Final(i)
    <3>1. CASE c = b
      BY <1>3, <1>10, <3>1 DEF to
    <3>2. CASE c # b
      <4>1. PICK i \in Nat : i < n /\ barrels[c].name = Final(i)
        BY <1>2, <1>10, <3>2
      <4>. QED  BY <1>3, <1>10, <3>2, <4>1
    <3>. QED  BY <3>1, <3>2
  <2>4. Cardinality(bases' \ todo') = n + 1
    BY <1>4, <1>10
  <2>. QED  BY <1>1, <1>10, <2>2, <2>3, <2>4 DEF SortInv
<1>. QED  BY <1>10, <1>11

-----------------------------------------------------------------------------
(* The index is closed, or the process is killed *)

\* What open() would find depends on the files alone.
LEMMA DiskSame ==
  ASSUME UNCHANGED <<files, list, binlog>>
  PROVE  /\ Listed' = Listed /\ RealTimeBarrels' = RealTimeBarrels /\ Current' = Current
         /\ Readable' <=> Readable
         /\ \A b : DocsOf(b)' = DocsOf(b)
         /\ Found' = Found
<1>1. Listed' = Listed /\ RealTimeBarrels' = RealTimeBarrels /\ Current' = Current
  BY ListSame
<1>2. Readable' <=> Readable
  BY <1>1 DEF Readable
<1>3. \A b : DocsOf(b)' = DocsOf(b)
  BY <1>1 DEF DocsOf
<1>4. Found' = Found
  BY <1>1, <1>3 DEF Found
<1>. QED  BY <1>1, <1>2, <1>3, <1>4

\* A document of a listed barrel is found.
LEMMA FoundIn ==
  ASSUME ListTypes, NEW b \in DOMAIN Listed, NEW d \in DocsOf(b)
  PROVE  d \in Found
<1>1. Listed[b].num > 0
  BY DEF ListTypes
<1>. QED  BY <1>1 DEF Found

\* If the list can be read before sort() gives names anew, all of it is in the index.
LEMMA ReadableIsAlive ==
  ASSUME Types, OpenInv, ~Renaming, Readable
  PROVE  \A b \in DOMAIN Listed \ {Current} : Alive(b) /\ DocsOf(b) = barrels[b].docs
<1>. TAKE b \in DOMAIN Listed \ {Current}
<1>1. Listed[b].name \in DOMAIN files /\ list.whole
  BY DEF Readable
<1>2. Alive(b)
  BY <1>1 DEF OpenInv, ListInv, FileInv
<1>3. mpc = "output" => \A c \in bases : barrels[c].name # new.name
  BY NewNameFree
<1>4. PICK c \in bases : ~InMemory(c) /\ barrels[c].name = Listed[b].name
  BY <1>1, <1>2, <1>3 DEF OpenInv, FileInv, Alive
<1>5. c = b
  BY <1>2, <1>4 DEF Alive, OpenInv, NameInv
<1>. QED  BY <1>2, <1>4, <1>5 DEF DocsOf, Alive, OpenInv, FileInv

LEMMA CrashKeeps ==
  ASSUME Types, OpenInv, ~Renaming, Readable
  PROVE  acked \subseteq Found
<1>1. SUFFICES ASSUME NEW d \in acked PROVE d \in Found
  OBVIOUS
<1>2. list.whole /\ \A b \in DOMAIN Listed \ {Current} : Alive(b) /\ DocsOf(b) = barrels[b].docs
  BY ReadableIsAlive DEF Readable
<1>3. d \in 1 .. docs
  BY <1>1 DEF OpenInv, AckInv
<1>4. \/ \E b \in DOMAIN Listed \ {Current} : d \in barrels[b].docs
      \/ Current # None /\ d \in binlog
  BY <1>1, <1>2, <1>3 DEF OpenInv, ClaimInv
<1>5. ListTypes
  BY DEF Types
<1>6. CASE \E b \in DOMAIN Listed \ {Current} : d \in barrels[b].docs
  BY <1>2, <1>5, <1>6, FoundIn
<1>7. CASE Current # None /\ d \in binlog
  <2>1. Current \in DOMAIN Listed /\ d \in DocsOf(Current)
    BY <1>5, <1>7, CurrentIs DEF RealTimeBarrels, DocsOf
  <2>. QED  BY <1>5, <2>1, FoundIn
<1>. QED  BY <1>4, <1>6, <1>7

\* No thread is inside an operation and what is in memory is in the binlog: the
\* files have all there is.
LEMMA QuietStop ==
  ASSUME Types, OpenInv, mpc = "idle", (wpc = "idle" /\ Saved) \/ wpc = "joining"
  PROVE  StopInv
<1>0. /\ None \notin bases /\ mode \in {"default", "realtime"} /\ ListTypes
      /\ ~Flushing /\ ~Obsolete /\ ~Renaming /\ Agreeing
  BY TypedBarrels DEF Types, Flushing, Obsolete, Renaming, Agreeing
<1>1. /\ list.whole
      /\ \A b \in DOMAIN Listed : Alive(b) /\ Listed[b].rt = barrels[b].rt
      /\ \A b \in bases : b \in DOMAIN Listed \/ (InMemory(b) /\ wpc \notin {"closing", "joining"})
  BY <1>0 DEF OpenInv, AgreeInv
<1>2. \A b \in bases : InMemory(b) => mode = "realtime" /\ b \in DOMAIN Listed
  <2>. SUFFICES ASSUME NEW b \in bases, InMemory(b) PROVE mode = "realtime" /\ b \in DOMAIN Listed
    OBVIOUS
  <2>1. b = cur \/ (wpc \in {"closing", "joining"} /\ mode = "realtime")
    BY DEF OpenInv, MemoryInv
  <2>2. CASE wpc = "joining"
    <3>1. cur = None
      BY <2>2 DEF OpenInv, WriterInv
    <3>. QED  BY <1>0, <1>1, <2>1, <2>2, <3>1
  <2>3. CASE wpc = "idle" /\ Saved
    BY <1>0, <2>1, <2>3 DEF Saved, Listed
  <2>. QED  BY <2>2, <2>3
<1>3. /\ DOMAIN Listed = bases
      /\ \A b \in bases : Listed[b].name = barrels[b].name /\ Listed[b].rt = barrels[b].rt
  BY <1>1, <1>2 DEF Alive
<1>4. \A b, c \in RealTimeBarrels : b = c
  BY DEF OpenInv, BinlogInv
<1>5. \A b \in bases : InMemory(b) <=> b = Current
  <2>. TAKE b \in bases
  <2>1. ASSUME InMemory(b) PROVE b = Current
    <3>1. barrels[b].rt
      BY <1>2, <2>1 DEF OpenInv, BinlogInv
    <3>2. b \in RealTimeBarrels
      BY <1>3, <3>1 DEF RealTimeBarrels
    <3>. QED  BY <1>0, <1>4, <3>2, CurrentIs
  <2>2. ASSUME b = Current PROVE InMemory(b)
    <3>1. b \in RealTimeBarrels
      BY <1>0, <2>2, CurrentIs
    <3>2. barrels[b].rt
      BY <1>3, <3>1 DEF RealTimeBarrels
    <3>. QED  BY <3>2 DEF OpenInv, BinlogInv
  <2>. QED  BY <2>1, <2>2
<1>6. \A b \in bases : DocsOf(b) = barrels[b].docs
  <2>. TAKE b \in bases
  <2>1. CASE b = Current
    BY <1>2, <1>5, <2>1 DEF DocsOf, OpenInv, BinlogInv
  <2>2. CASE b # Current
    BY <1>3, <1>5, <2>2 DEF DocsOf, OpenInv, FileInv
  <2>. QED  BY <2>1, <2>2
<1>7. list.counter <= docs /\ Cardinality(DOMAIN Listed) <= list.counter /\ DOMAIN Listed \subseteq 1 .. docs
  <2>1. /\ list.counter <= nBarrelCounter /\ Cardinality(DOMAIN Listed) <= list.counter
        /\ nBarrelCounter <= docs /\ bases \subseteq 1 .. docs
    BY <1>1 DEF OpenInv, ListInv, BoundInv
  <2>2. list.counter \in Nat /\ nBarrelCounter \in Nat /\ docs \in Nat
    BY <1>0, StoreAssumption DEF ListTypes, Types, TypeOK
  <2>. QED  BY <1>3, <2>1, <2>2
<1>8. \A b \in DOMAIN Listed : \E i \in Nat : i < list.counter /\ Listed[b].name = Final(i)
  BY <1>0, <1>1 DEF OpenInv, ListInv, PlainName, MidIn
<1>9. \A b, c \in DOMAIN Listed : b # c => Listed[b].name # Listed[c].name
  BY <1>3 DEF OpenInv, NameInv
<1>10. \A b, c \in DOMAIN Listed : b # c => DocsOf(b) \cap DocsOf(c) = {}
  BY <1>3, <1>6 DEF OpenInv, CoverInv
<1>11. \A n \in DOMAIN files : \E b \in DOMAIN Listed : b # Current /\ n = Listed[b].name
  BY <1>3, <1>5 DEF OpenInv, FileInv
<1>12. \A b \in DOMAIN Listed : b # Current => Listed[b].name \in DOMAIN files /\ DocsOf(b) \subseteq acked
  <2>. TAKE b \in DOMAIN Listed
  <2>1. b # Current => Listed[b].name \in DOMAIN files
    BY <1>3, <1>5 DEF OpenInv, FileInv
  <2>2. b # Current => DocsOf(b) \subseteq acked
    BY <1>0, <1>3, <1>5, <1>6 DEF OpenInv, AckInv
  <2>. QED  BY <2>1, <2>2
<1>13. \A b \in DOMAIN Listed : b \in DocsOf(b) /\ DocsOf(b) \subseteq 1 .. docs
  BY <1>3, <1>6 DEF OpenInv, CoverInv
<1>14. \A d \in 1 .. docs : \E b \in DOMAIN Listed : d \in DocsOf(b)
  BY <1>3, <1>6 DEF OpenInv, CoverInv
<1>15. binlog # {} <=> Current # None
  <2>1. ASSUME Current # None PROVE binlog # {}
    <3>1. Current \in DOMAIN Listed
      BY <1>0, <2>1, CurrentIs DEF RealTimeBarrels
    <3>. QED  BY <1>13, <3>1 DEF DocsOf
  <2>2. ASSUME Current = None PROVE binlog = {}
    BY <1>0, <1>5, <2>2 DEF OpenInv, BinlogInv
  <2>. QED  BY <2>1, <2>2
<1>16. acked \subseteq 1 .. docs
  BY DEF OpenInv, AckInv
<1>. QED  BY <1>1, <1>4, <1>7, <1>8, <1>9, <1>10, <1>11, <1>12, <1>13, <1>14, <1>15, <1>16 DEF StopInv

\* The process ends: what was in memory is gone.
LEMMA DownStep ==
  ASSUME Types, OpenInv, phase = "open", join \/ Kill
  PROVE  StoreInv'
<1>1. /\ phase' = "down" /\ UNCHANGED <<files, list, binlog, mode, opens, docs, acked>>
      /\ barrels' = <<>> /\ nBarrelCounter' = 0 /\ cur' = None
      /\ lock' = "none" /\ wpc' = "idle" /\ next' = "idle" /\ optimize' = FALSE /\ mpc' = "idle"
      /\ sources' = {} /\ depth' = 0 /\ todo' = {}
  BY DEF join, Kill, Down, Idle, diskVars
<1>2. /\ Listed' = Listed /\ RealTimeBarrels' = RealTimeBarrels /\ Current' = Current
      /\ (Readable' <=> Readable) /\ (\A b : DocsOf(b)' = DocsOf(b)) /\ Found' = Found
  BY <1>1, DiskSame
<1>3. Types'
  <2>1. bases' = {}
    BY <1>1 DEF bases
  <2>2. TypeOK'
    BY <1>1, <2>1, StoreAssumption DEF Types, TypeOK
  <2>. QED  BY <1>1, <1>2, <2>2 DEF Types, ListTypes, WriterPC, MergerPC
<1>4. CrashNoticed'
  <2>1. end' # "sorting" => ~Renaming
    BY DEF join, Kill, Renaming
  <2>2. end' # "sorting" /\ Readable => acked \subseteq Found
    BY <2>1, CrashKeeps
  <2>. QED  BY <1>1, <1>2, <2>2 DEF CrashNoticed
<1>5. end' = "stopped" => StopInv
  <2>1. end' = "stopped" => mpc = "idle" /\ ((wpc = "idle" /\ Saved) \/ wpc = "joining")
    BY DEF join, Kill, WriterAt
  <2>. QED  BY <2>1, QuietStop
<1>6. StopInv => StopInv'
  BY <1>1, <1>2 DEF StopInv
<1>. QED  BY <1>1, <1>3, <1>4, <1>5, <1>6 DEF StoreInv, DownInv

-----------------------------------------------------------------------------
(* The index is opened *)

\* The barrels of the list are those of the index that was stopped; the binlog is
\* that of the listed real-time barrel.
LEMMA OpenStep ==
  ASSUME Types, DownInv, open
  PROVE  StoreInv'
<1>0. /\ StopInv /\ phase' = "open" /\ UNCHANGED <<files, list, binlog, lock, wpc, next, docs, acked, end>>
      /\ UNCHANGED <<optimize, mpc, sources, new, depth, todo>> /\ opens' = opens + 1 /\ opens < MaxOpens
      /\ mode' \in Modes /\ (binlog # {} => mode' = "realtime")
      /\ lock = "none" /\ wpc = "idle" /\ next = "idle" /\ ~optimize /\ mpc = "idle"
      /\ sources = {} /\ todo = {} /\ depth = 0
  BY DEF open, DownInv, diskVars, mergerVars, Modes
<1>1. ~(binlog # {} /\ Current = None)
  BY <1>0 DEF StopInv
<1>2. /\ barrels' = [b \in DOMAIN Listed |-> read(b)] /\ nBarrelCounter' = list.counter /\ cur' = Current
  <2>1. list.counter \in Nat /\ list.counter + 0 = list.counter
    BY DEF Types, TypeOK
  <2>. QED  BY <1>1, <2>1 DEF open
<1>3. /\ bases' = DOMAIN Listed
      /\ \A b \in DOMAIN Listed :
           barrels'[b] = [name |-> Listed[b].name, docs |-> DocsOf(b), num |-> Listed[b].num,
                          writer |-> b = Current, rt |-> Listed[b].rt,
                          merge |-> IF Listed[b].rt THEN "none" ELSE "queued"]
  BY <1>2 DEF bases, read
<1>4. \A b \in DOMAIN Listed :
        /\ barrels'[b].name = Listed[b].name /\ barrels'[b].docs = DocsOf(b)
        /\ barrels'[b].num = Listed[b].num /\ (barrels'[b].writer <=> b = Current)
        /\ barrels'[b].rt = Listed[b].rt
        /\ barrels'[b].merge = (IF Listed[b].rt THEN "none" ELSE "queued")
  <2>. TAKE b \in DOMAIN Listed
  <2>1. PICK w \in BOOLEAN : w = (b = Current)
    OBVIOUS
  <2>2. PICK g \in {"none", "queued"} : g = IF Listed[b].rt THEN "none" ELSE "queued"
    OBVIOUS
  <2>3. barrels'[b] = [name |-> Listed[b].name, docs |-> DocsOf(b), num |-> Listed[b].num,
                       writer |-> w, rt |-> Listed[b].rt, merge |-> g]
    BY <1>3, <2>1, <2>2
  <2>4. /\ barrels'[b].name = Listed[b].name /\ barrels'[b].docs = DocsOf(b)
        /\ barrels'[b].num = Listed[b].num /\ barrels'[b].writer = w /\ barrels'[b].rt = Listed[b].rt
        /\ barrels'[b].merge = g
    BY <2>3
  <2>. QED  BY <2>1, <2>2, <2>4
<1>5. /\ Listed' = Listed /\ RealTimeBarrels' = RealTimeBarrels /\ Current' = Current
  BY <1>0, ListSame
<1>6. ListTypes /\ DOMAIN Listed \in SUBSET Docs /\ None \notin DOMAIN Listed
  <2>1. ListTypes /\ DOMAIN Listed \in SUBSET Docs
    BY DEF Types, ListTypes
  <2>. QED  BY <2>1, StoreAssumption DEF Docs, None
<1>7. /\ Current = None => RealTimeBarrels = {}
      /\ Current # None => Current \in DOMAIN Listed /\ Listed[Current].rt
      /\ \A b \in DOMAIN Listed : Listed[b].rt <=> b = Current
  BY <1>0, <1>6, CurrentIs DEF RealTimeBarrels, StopInv
<1>8. /\ DOMAIN Listed \subseteq 1 .. docs /\ list.counter \in Nat /\ docs \in 0 .. MaxDoc /\ MaxDoc \in Nat
      /\ list.counter <= docs
  BY <1>0, StoreAssumption DEF StopInv, Types, TypeOK
<1>9. \A b \in DOMAIN Listed : DocsOf(b) \subseteq Docs
  BY <1>0, <1>8 DEF StopInv, Docs
<1>11. Types'
  <2>1. ASSUME NEW b \in DOMAIN Listed PROVE barrels'[b] \in Info
    <3>1. PICK i \in Nat : i < list.counter /\ Listed[b].name = Final(i)
      BY <1>0 DEF StopInv
    <3>2. i \in 0 .. MaxDoc
      BY <1>8, <3>1
    <3>3. Listed[b].name \in Names
      BY <3>1, <3>2, NamesAre DEF Plain
    <3>4. Listed[b].num \in Nat /\ Listed[b].rt \in BOOLEAN
      BY <1>6 DEF ListTypes
    <3>5. PICK w \in BOOLEAN : w = (b = Current)
      OBVIOUS
    <3>6. PICK g \in {"none", "queued"} : g = IF Listed[b].rt THEN "none" ELSE "queued"
      OBVIOUS
    <3>7. barrels'[b] = [name |-> Listed[b].name, docs |-> DocsOf(b), num |-> Listed[b].num,
                         writer |-> w, rt |-> Listed[b].rt, merge |-> g]
      BY <1>3, <3>5, <3>6
    <3>. QED  BY <1>9, <3>3, <3>4, <3>7 DEF Info
  <2>2. opens' \in 1 .. MaxOpens
    BY <1>0, StoreAssumption DEF Types, TypeOK
  <2>3. cur' \in Docs \cup {None}
    BY <1>2, <1>6, <1>7
  <2>4. bases' \subseteq Docs /\ (\A b \in bases' : barrels'[b] \in Info) /\ nBarrelCounter' \in Nat
    BY <1>2, <1>3, <1>6, <1>8, <2>1
  <2>5. TypeOK'
    BY <1>0, <2>2, <2>3, <2>4 DEF Types, TypeOK
  <2>. QED  BY <1>0, <1>5, <2>5 DEF Types, ListTypes
<1>12. WriterInv' /\ MergerInv' /\ SortInv'
  <2>1. cur' \in {None} \cup 1 .. docs
    BY <1>2, <1>7, <1>8
  <2>. QED  BY <1>0, <2>1 DEF WriterInv, MergerInv, Removing, SortInv
<1>13. BoundInv' /\ EmptyInv'
  <2>1. docs = 0 => DOMAIN Listed = {}
    <3>1. ASSUME docs = 0, NEW b \in DOMAIN Listed PROVE FALSE
      <4>1. b \in 1 .. 0
        BY <1>8, <3>1
      <4>. QED  BY <4>1
    <3>. QED  BY <3>1
  <2>. QED  BY <1>0, <1>2, <1>3, <1>5, <1>8, <2>1 DEF StopInv, BoundInv, EmptyInv
<1>14. MemoryInv'
  <2>1. /\ \A b, c \in bases' : barrels'[b].writer /\ barrels'[c].writer => b = c
        /\ \A b \in bases' : barrels'[b].writer => barrels'[b].merge = "none" /\ b = cur'
        /\ cur' # None => cur' \in bases' /\ barrels'[cur'].writer
    BY <1>2, <1>3, <1>4, <1>7
  <2>. QED  BY <1>0, <2>1 DEF MemoryInv, InMemory
<1>15. BinlogInv'
  <2>1. \A b \in bases' : barrels'[b].rt <=> barrels'[b].writer
    BY <1>3, <1>4, <1>7
  <2>2. \A b \in bases' : barrels'[b].writer => barrels'[b].docs = binlog /\ mode' = "realtime"
    <3>. SUFFICES ASSUME NEW b \in DOMAIN Listed, b = Current
                  PROVE  barrels'[b].docs = binlog /\ mode' = "realtime"
      BY <1>3, <1>4
    <3>1. Current # None
      BY <1>6
    <3>. QED  BY <1>0, <1>4, <3>1 DEF StopInv, DocsOf
  <2>3. (\A b \in bases' : ~barrels'[b].writer) => binlog = {}
    BY <1>1, <1>3, <1>4, <1>7
  <2>4. mode' = "default" => binlog = {}
    BY <1>0
  <2>5. \A b, c \in RealTimeBarrels' : b = c
    BY <1>0, <1>5 DEF StopInv
  <2>. QED  BY <1>0, <2>1, <2>2, <2>3, <2>4, <2>5 DEF BinlogInv, InMemory
<1>16. NameInv'
  <2>1. \A b \in DOMAIN Listed : \E i \in Nat : i < nBarrelCounter' /\ barrels'[b].name = Final(i)
    BY <1>0, <1>2, <1>4 DEF StopInv
  <2>2. \A b \in DOMAIN Listed, i \in Nat : barrels'[b].name = Final(i) => i < nBarrelCounter'
    BY <2>1, NamesDiffer
  <2>3. \A b, c \in DOMAIN Listed : b # c => barrels'[b].name # barrels'[c].name
    BY <1>0, <1>4 DEF StopInv
  <2>. QED  BY <1>3, <2>1, <2>2, <2>3 DEF NameInv, PlainName
<1>17. FileInv'
  <2>1. \A n \in DOMAIN files : \E b \in bases' : ~barrels'[b].writer /\ barrels'[b].name = n
    BY <1>0, <1>3, <1>4 DEF StopInv
  <2>2. \A b \in bases' : ~barrels'[b].writer =>
          barrels'[b].name \in DOMAIN files /\ files[barrels'[b].name] = barrels'[b].docs
    BY <1>0, <1>3, <1>4 DEF StopInv, DocsOf
  <2>. QED  BY <1>0, <2>1, <2>2 DEF FileInv, InMemory
<1>18. CoverInv'
  <2>1. \A b \in bases' : b \in barrels'[b].docs /\ barrels'[b].docs \subseteq 1 .. docs /\ barrels'[b].num # 0
    BY <1>0, <1>3, <1>4, <1>6 DEF StopInv, ListTypes
  <2>2. \A b, c \in bases' : b # c => barrels'[b].docs \cap barrels'[c].docs = {}
    BY <1>0, <1>3, <1>4 DEF StopInv
  <2>3. \A d \in 1 .. docs : \E b \in bases' : d \in barrels'[b].docs
    BY <1>0, <1>3, <1>4 DEF StopInv
  <2>. QED  BY <1>0, <2>1, <2>2, <2>3 DEF CoverInv
<1>19. AckInv'
  <2>1. \A b \in bases' : ~barrels'[b].writer => barrels'[b].docs \subseteq acked
    BY <1>0, <1>3, <1>4 DEF StopInv
  <2>. QED  BY <1>0, <2>1 DEF StopInv, AckInv, InMemory
<1>20. \A b \in DOMAIN Listed' : Alive(b)'
  BY <1>3, <1>4, <1>5 DEF Alive
<1>21. ListInv'
  <2>1. \A b \in DOMAIN Listed' : PlainName(Listed[b].name, list.counter)'
    BY <1>0, <1>5 DEF StopInv, PlainName
  <2>2. list'.counter <= nBarrelCounter' /\ Cardinality(DOMAIN Listed') <= list'.counter
    BY <1>0, <1>2, <1>5, <1>8 DEF StopInv
  <2>. QED  BY <1>20, <2>1, <2>2 DEF ListInv
<1>22. ClaimInv'
  <2>. SUFFICES ASSUME NEW d \in 1 .. docs
                PROVE  \/ \E b \in DOMAIN Listed \ {Current} : d \in barrels'[b].docs
                       \/ Current # None /\ d \in binlog
    BY <1>0, <1>5 DEF ClaimInv
  <2>1. PICK b \in DOMAIN Listed : d \in DocsOf(b)
    BY <1>0 DEF StopInv
  <2>2. CASE b = Current
    BY <1>6, <2>1, <2>2 DEF DocsOf
  <2>3. CASE b # Current
    BY <1>4, <2>1, <2>3
  <2>. QED  BY <2>2, <2>3
<1>23. AgreeInv'
  BY <1>0, <1>3, <1>4, <1>5, <1>20 DEF StopInv, AgreeInv
<1>. QED  BY <1>0, <1>11, <1>12, <1>13, <1>14, <1>15, <1>16, <1>17, <1>18, <1>19, <1>21, <1>22, <1>23
          DEF StoreInv, OpenInv

-----------------------------------------------------------------------------
(* The theorems *)

\* The steps of an open index.
LEMMA WriterKeeps ==
  ASSUME Types, OpenInv, phase = "open", "realtime" \notin Optimizing, WriterStep \/ Calls
  PROVE  StoreInv'
<1>1. CASE join
  BY <1>1, DownStep
<1>2. CASE ~join
  <2>1. Types' /\ OpenInv'
    <3>1. mode # "realtime" \/ ~optimizeIndex
      BY DEF optimizeIndex
    <3>. QED  BY <1>2, <3>1, BarrelWriteStep, AddToMergeStep, WriteSkippedStep, CreateOutputStep,
               WriteStep, WrittenStep, DeletebinlogStep, RequestOptimizeStep, WaitOptimizeStep,
               DropTasksStep, IndexDocumentStep, CacheFullStep, FlushStep, OptimizeIndexStep, CloseStep
            DEF WriterStep, Calls
  <2>2. phase' = "open"
    BY <1>2 DEF WriterStep, Calls, BarrelWrite, addToMerge, writeSkipped, createOutput, write, written,
         deletebinlog, requestOptimize, waitOptimize, dropTasks, indexDocument, CacheFull, Flush,
         optimizeIndex, close, openVars
  <2>. QED  BY <2>1, <2>2 DEF StoreInv
<1>. QED  BY <1>1, <1>2

LEMMA MergerKeeps ==
  ASSUME Types, OpenInv, phase = "open", MergerStep
  PROVE  StoreInv'
<1>1. Types' /\ OpenInv'
  BY PolicyDoneStep, MergeLayersStep, MergeBarrelsStep, AddBarrelStep, SortStep, TmpDoneStep,
     SortDoneStep, MergerCreateOutputStep, MergerWriteStep, TakeBarrelStep, RemoveBarrelStep,
     RenameTmpStep, RenameFinalStep
  DEF MergerStep
<1>2. phase' = "open"
  BY DEF MergerStep, PolicyDone, MergeLayers, mergeBarrels, outputNewBarrel, addBarrel, sort, TmpDone,
     SortDone, mergerCreateOutput, mergerWrite, TakeBarrel, removeBarrel, renameTmp, renameFinal,
     rename, openVars
<1>. QED  BY <1>1, <1>2 DEF StoreInv

LEMMA StoreInvInit == Init => StoreInv
<1>. SUFFICES ASSUME Init PROVE StoreInv
  OBVIOUS
<1>1. /\ DOMAIN files = {} /\ bases = {} /\ list.whole /\ list.counter = 0 /\ DOMAIN Listed = {}
      /\ list.barrels = Listed
  BY DEF Init, Absent, bases, Listed
<1>2. Types
  <2>1. opens \in 1 .. MaxOpens /\ depth \in 0 .. MaxDoc /\ docs \in 0 .. MaxDoc
    BY StoreAssumption DEF Init
  <2>2. ListTypes
    BY <1>1 DEF ListTypes
  <2>3. TypeOK
    BY <1>1, <2>1 DEF Init, TypeOK
  <2>. QED  BY <2>2, <2>3 DEF Init, Types, WriterPC, MergerPC
<1>3. Cardinality({}) = 0
  BY FS_EmptySet
<1>4. RealTimeBarrels = {}
  BY <1>1 DEF RealTimeBarrels
<1>5. WriterInv /\ MergerInv /\ EmptyInv /\ MemoryInv
  BY <1>1 DEF Init, WriterInv, MergerInv, Removing, EmptyInv, MemoryInv
<1>6. BinlogInv
  BY <1>1, <1>4 DEF Init, BinlogInv
<1>7. BoundInv /\ ListInv
  BY <1>1, <1>3 DEF Init, BoundInv, ListInv
<1>8. NameInv /\ SortInv /\ FileInv
  BY <1>1 DEF Init, NameInv, SortInv, FileInv
<1>9. CoverInv /\ AckInv /\ ClaimInv /\ AgreeInv
  BY <1>1 DEF Init, CoverInv, AckInv, ClaimInv, AgreeInv
<1>. QED  BY <1>2, <1>5, <1>6, <1>7, <1>8, <1>9 DEF StoreInv, OpenInv, Init

LEMMA StoreInvStep ==
  ASSUME StoreInv, [Next]_vars, "realtime" \notin Optimizing
  PROVE  StoreInv'
<1>1. Types /\ (phase = "open" => OpenInv) /\ (phase = "down" => DownInv)
  BY DEF StoreInv
<1>2. CASE WriterStep \/ Calls
  <2>1. phase = "open"
    BY <1>2 DEF WriterStep, Calls, WriterAt, BarrelWrite, addToMerge, writeSkipped, createOutput, write,
         written, deletebinlog, requestOptimize, waitOptimize, dropTasks, join, indexDocument,
         CacheFull, Flush, optimizeIndex, close
  <2>. QED  BY <1>1, <1>2, <2>1, WriterKeeps
<1>3. CASE MergerStep
  <2>1. phase = "open"
    BY <1>3 DEF MergerStep, MergerAt, PolicyDone, MergeLayers, mergeBarrels, addBarrel, sort, TmpDone,
         SortDone, mergerCreateOutput, mergerWrite, TakeBarrel, removeBarrel, renameTmp, renameFinal
  <2>. QED  BY <1>1, <1>3, <2>1, MergerKeeps
<1>4. CASE Kill
  <2>1. phase = "open"
    BY <1>4 DEF Kill
  <2>. QED  BY <1>1, <1>4, <2>1, DownStep
<1>5. CASE open
  <2>1. phase = "down"
    BY <1>5 DEF open
  <2>. QED  BY <1>1, <1>5, <2>1, OpenStep
<1>6. CASE UNCHANGED vars
  <2>. USE <1>6 DEF vars, diskVars, openVars, infoVars, writerVars, mergerVars
  <2>1. /\ Listed' = Listed /\ RealTimeBarrels' = RealTimeBarrels /\ Current' = Current
        /\ (Readable' <=> Readable) /\ (\A b : DocsOf(b)' = DocsOf(b)) /\ Found' = Found
    BY DiskSame
  <2>2. Types'
    BY <1>1, <2>1 DEF Types, TypeOK, ListTypes, bases
  <2>3. phase = "down" => DownInv'
    <3>1. StopInv => StopInv'
      BY <2>1 DEF StopInv
    <3>2. CrashNoticed => CrashNoticed'
      BY <2>1 DEF CrashNoticed
    <3>. QED  BY <1>1, <3>1, <3>2 DEF DownInv
  <2>4. ASSUME phase = "open" PROVE OpenInv'
    <3>0. Types /\ OpenInv
      BY <1>1, <2>4
    <3>1. SameNames /\ SameBarrels /\ SameRealTime /\ Layer' = Layer
      BY <3>0, SameIfUnchanged DEF OpenInv
    <3>2. MergerInv' /\ BoundInv' /\ NameInv' /\ SortInv' /\ FileInv' /\ CoverInv'
      BY <3>0, <3>1, WriterFrame DEF MergerSame
    <3>3. WriterInv' /\ EmptyInv'
      BY <2>1, <3>0 DEF OpenInv, WriterInv, EmptyInv
    <3>4. MemoryInv' /\ AckInv'
      BY <3>0, <3>1 DEF OpenInv, MemoryInv, FlushKeeps, AckInv, Flushing, SameNames, SameBarrels, InMemory
    <3>5. BinlogInv'
      BY <2>1, <3>0, <3>1, BinlogFrame DEF WriterSame
    <3>6. ListInv' /\ ClaimInv' /\ AgreeInv'
      BY <3>0, <3>1, ListFrame, ClaimFrame, AgreeFrame DEF MergerSame, Agreeing
    <3>. QED  BY <3>2, <3>3, <3>4, <3>5, <3>6 DEF OpenInv
  <2>. QED  BY <2>2, <2>3, <2>4 DEF StoreInv
<1>. QED  BY <1>2, <1>3, <1>4, <1>5, <1>6 DEF Next, Stopped

LEMMA StoreInvHolds ==
  ASSUME "realtime" \notin Optimizing
  PROVE  Spec => []StoreInv
<1>1. StoreInv /\ [Next]_vars => StoreInv'
  BY StoreInvStep
<1>. QED  BY <1>1, StoreInvInit, PTL DEF Spec

\* The types of the variables; the numbers in the names that newBarrel(), the mergers
\* and sort() give stay bounded by the documents indexed.
THEOREM TypeCorrect ==
  ASSUME "realtime" \notin Optimizing
  PROVE  Spec => []TypeOK
<1>1. StoreInv => TypeOK
  BY DEF StoreInv, Types
<1>. QED  BY <1>1, StoreInvHolds, PTL

\* sort() never finds a file in its way, no two barrels ever share a name, the next
\* name newBarrel() gives is free, and every barrel finds its documents in its files.
THEOREM FilesAlwaysMatch ==
  ASSUME "realtime" \notin Optimizing
  PROVE  Spec => []FilesMatch
<1>1. StoreInv => FilesMatch
  <2>1. ASSUME Types, OpenInv PROVE FilesMatch
    <3>1. \A b \in bases : barrels[b].name # Final(nBarrelCounter)
      <4>1. nBarrelCounter \in Nat /\ ~(nBarrelCounter < nBarrelCounter)
        BY <2>1 DEF Types, TypeOK
      <4>. QED  BY <2>1, <4>1 DEF OpenInv, NameInv
    <3>2. mpc # "clash"
      BY <2>1 DEF Types, MergerPC
    <3>. QED  BY <2>1, <3>1, <3>2 DEF FilesMatch, OnDisk, OpenInv, NameInv, FileInv
  <2>2. ASSUME DownInv PROVE FilesMatch
    <3>1. bases = {} /\ mpc = "idle"
      BY <2>2 DEF DownInv, bases
    <3>. QED  BY <3>1 DEF FilesMatch, OnDisk
  <2>3. StoreInv => phase \in {"open", "down"}
    BY DEF StoreInv, Types, TypeOK
  <2>. QED  BY <2>1, <2>2, <2>3 DEF StoreInv
<1>. QED  BY <1>1, StoreInvHolds, PTL

\* After close(), or a kill outside every operation, the index can be opened again
\* and every flushed document is found, in one barrel only.
THEOREM StopAlwaysKeepsDocs ==
  ASSUME "realtime" \notin Optimizing
  PROVE  Spec => []StopKeepsDocs
<1>1. StoreInv => StopKeepsDocs
  <2>. SUFFICES ASSUME StoreInv, phase = "down", end = "stopped"
                PROVE  /\ Readable /\ acked \subseteq Found
                       /\ \A b, c \in DOMAIN Listed : b # c => DocsOf(b) \cap DocsOf(c) = {}
    BY DEF StopKeepsDocs
  <2>1. StopInv /\ ListTypes
    BY DEF StoreInv, DownInv, Types
  <2>2. Readable
    BY <2>1 DEF StopInv, Readable
  <2>3. ASSUME NEW d \in acked PROVE d \in Found
    <3>1. PICK b \in DOMAIN Listed : d \in DocsOf(b)
      BY <2>1 DEF StopInv
    <3>. QED  BY <2>1, <3>1, FoundIn
  <2>. QED  BY <2>1, <2>2, <2>3 DEF StopInv
<1>. QED  BY <1>1, StoreInvHolds, PTL

\* A crash before sort() gives names anew loses no flushed document unnoticed.
THEOREM CrashAlwaysNoticed ==
  ASSUME "realtime" \notin Optimizing
  PROVE  Spec => []CrashNoticed
<1>1. StoreInv => CrashNoticed
  <2>1. StoreInv => (phase = "down" => DownInv)
    BY DEF StoreInv
  <2>. QED  BY <2>1 DEF DownInv, CrashNoticed
<1>. QED  BY <1>1, StoreInvHolds, PTL

=============================================================================
