-------------------------- MODULE IndexMergeProofs --------------------------
(***************************************************************************)
(* Proofs about the running index manager, for every value of the          *)
(* constants: any number of documents, merge levels, optimizations and     *)
(* pauses, batch or real time indexing, a merge thread or none.            *)
(***************************************************************************)
EXTENDS IndexMerge, DataFacts, FiniteSetTheorems, TLAPS

------------------------------------------------------------------------------
(* Facts about the operators of the model *)

\* getLevel() returns one of the levels, whatever the size.
LEMMA getLevelType ==
  ASSUME NEW n
  PROVE  getLevel(n) \in Levels
<1>. DEFINE S == {l \in 1 .. MaxLevel : LevelBase ^ l <= n}
<1>1. IsFiniteSet(1 .. MaxLevel) /\ Cardinality(1 .. MaxLevel) = MaxLevel
  BY FS_Interval, BTAssumption
<1>2. IsFiniteSet(S) /\ Cardinality(S) <= Cardinality(1 .. MaxLevel)
  BY <1>1, FS_Subset
<1>3. Cardinality(S) \in Nat
  BY <1>2, FS_CardinalityType
<1>. QED  BY <1>1, <1>2, <1>3, BTAssumption DEF getLevel, Levels

------------------------------------------------------------------------------
(* Type correctness *)

\* What TypeOK needs to be inductive: an insertion in progress has a document id
\* to use up, whoever writes to the current barrel has one, a removal has its
\* document, and a merger that is about to add a barrel has the barrel.
Typing ==
  /\ TypeOK
  /\ wpc \in {"ins_realtime", "ins_create", "ins_base", "ins_count"} => nextDoc <= MaxDoc
  /\ wret = "ins_create" => /\ nextDoc <= MaxDoc
                            /\ wpc \in {"fl_write", "fl_searchable", "fl_reopen", "fl_add", "fl_end"}
  /\ wpc \in {"ins_realtime", "ins_base", "ins_count",
              "fl_write", "fl_searchable", "fl_reopen", "fl_add", "fl_end"} => cur # 0
  /\ wpc \in {"rem_test", "rem_count", "rem_bit"} => wdoc # 0
  /\ mpc = "add" => mentry # 0

\* Every barrel is a record of type Barrel.
LEMMA BarrelOf ==
  ASSUME BarrelTypes, NEW b \in DOMAIN barrels
  PROVE  barrels[b] \in Barrel /\ barrels[b].docs \subseteq Docs
<1>1. barrels[b] \in Barrel
  BY DEF BarrelTypes
<1>. QED  BY <1>1 DEF Barrel

\* The index has finitely many barrels.
LEMMA LiveFinite ==
  ASSUME BarrelTypes
  PROVE  Live \subseteq DOMAIN barrels /\ IsFiniteSet(Live)
<1>1. Live \in SUBSET (1 .. Len(barrels)) /\ Len(barrels) \in Nat
  BY DEF Live, BarrelTypes
<1>2. IsFiniteSet(1 .. Len(barrels))
  BY <1>1, FS_Interval
<1>3. DOMAIN barrels = 1 .. Len(barrels)
  BY DEF BarrelTypes
<1>. QED  BY <1>1, <1>2, <1>3, FS_Subset

\* Opening the reader keeps the types of what it assigns.
LEMMA ReaderTypes ==
  ASSUME BarrelTypes, FlagTypes, getIndexReader
  PROVE  readers' \subseteq DOMAIN barrels /\ readerOpen' \in BOOLEAN /\ dirty' \in BOOLEAN
<1>1. readers' \subseteq DOMAIN barrels
  BY DEF getIndexReader, createBarrelReader, readerVars, Live, BarrelTypes
<1>2. readerOpen' \in BOOLEAN /\ dirty' \in BOOLEAN
  BY DEF getIndexReader, createBarrelReader, readerVars, FlagTypes
<1>. QED  BY <1>1, <1>2

\* Combining two layers keeps the types of the policy.
LEMMA CombineTypes ==
  ASSUME BarrelTypes, NEW l1 \in Levels, NEW l2 \in Levels, combineLayer(l1, l2)
  PROVE  queue' \in [Levels -> SUBSET DOMAIN barrels] /\ pLevel1' \in Levels
BY DEF combineLayer, BarrelTypes

\* So do the steps of triggerMerge(), whatever the base document ids are.
LEMMA TriggerMergeTypes ==
  ASSUME BarrelTypes, ControlTypes, triggerMerge(baseDocID)
  PROVE  /\ queue' \in [Levels -> SUBSET DOMAIN barrels]
         /\ pLevel1' \in Levels
         /\ iter2' \in 0 .. MaxLevel + 1
         /\ btpc' \in {"up", "pass", "merge"}
<1>. USE BTAssumption DEF Levels
<1>1. CASE CombineUpper
  <2>1. combineLayer(pLevel1, getLevel(levelSize[pLevel1])) /\ btpc = "up" /\ UNCHANGED <<btpc, iter2>>
    BY <1>1 DEF CombineUpper
  <2>2. pLevel1 \in Levels /\ getLevel(levelSize[pLevel1]) \in Levels
    BY getLevelType DEF ControlTypes
  <2>. QED  BY <2>1, <2>2, CombineTypes DEF ControlTypes
<1>2. CASE StartPass
  BY <1>2 DEF StartPass, BarrelTypes, ControlTypes
<1>3. CASE PassLayer(baseDocID)
  <2>1. iter2 \in Levels /\ iter2' = iter2 + 1 /\ btpc = "pass" /\ btpc' = btpc
    BY <1>3 DEF PassLayer, ControlTypes
  <2>2. CASE Interleaved(iter2, baseDocID)
    <3>1. combineLayer(pLevel1, iter2)
      BY <1>3, <2>2 DEF PassLayer
    <3>. QED  BY <2>1, <3>1, CombineTypes DEF ControlTypes
  <2>3. CASE ~Interleaved(iter2, baseDocID)
    BY <1>3, <2>1, <2>3 DEF PassLayer, BarrelTypes, ControlTypes
  <2>. QED  BY <2>2, <2>3
<1>4. CASE EndPass
  BY <1>4 DEF EndPass, BarrelTypes, ControlTypes
<1>. QED  BY <1>1, <1>2, <1>3, <1>4 DEF triggerMerge

\* The changes made to a BarrelInfo keep its type.
LEMMA UpdateFlags ==
  ASSUME NEW r \in Barrel
  PROVE  /\ [r EXCEPT !.inMemory = FALSE] \in Barrel
         /\ [r EXCEPT !.searchable = TRUE] \in Barrel
         /\ [r EXCEPT !.docs = {}] \in Barrel
BY DEF Barrel

\* So does adding a document to it.
LEMMA UpdateDocs ==
  ASSUME NEW r \in Barrel, NEW d \in Docs
  PROVE  [r EXCEPT !.docs = @ \cup {d}] \in Barrel
BY DEF Barrel

\* So does growing its range of document ids by a document that is to be inserted.
LEMMA UpdateRange ==
  ASSUME NEW r \in Barrel, NEW d \in Docs
  PROVE  [r EXCEPT !.base = IF @ > d THEN d ELSE @, !.max = IF d > @ THEN d ELSE @] \in Barrel
<1>1. r.base \in 1 .. BAD_DOCID /\ r.max \in 0 .. MaxDoc
  BY DEF Barrel
<1>2. d \in 1 .. BAD_DOCID /\ d \in 0 .. MaxDoc
  BY IndexMergeAssumption DEF Docs, BAD_DOCID
<1>. QED  BY <1>1, <1>2 DEF Barrel

\* Creating the current barrel keeps the types.
LEMMA CreateBarrelTypes ==
  ASSUME BarrelTypes, createBarrelInfo, UNCHANGED <<readers, mentry, mq, queue>>
  PROVE  BarrelTypes'
<1>1. NewBarrel \in Barrel
  BY IndexMergeAssumption DEF NewBarrel, Barrel, Docs, BAD_DOCID
<1>2. barrels' \in Seq(Barrel) /\ DOMAIN barrels' = DOMAIN barrels \cup {Len(barrels) + 1}
  BY <1>1 DEF BarrelTypes, createBarrelInfo
<1>3. barrelInfos' \in Seq(DOMAIN barrels')
  BY <1>2 DEF BarrelTypes, createBarrelInfo
<1>. QED  BY <1>2, <1>3 DEF BarrelTypes, createBarrelInfo

\* So does replacing the record of the current barrel.
LEMMA ReplaceTypes ==
  ASSUME BarrelTypes, cur \in DOMAIN barrels, NEW r \in Barrel, barrels' = [barrels EXCEPT ![cur] = r],
         UNCHANGED <<barrelInfos, readers, cur, mentry, mq, queue>>
  PROVE  BarrelTypes'
<1>1. barrels' \in Seq(Barrel) /\ DOMAIN barrels' = DOMAIN barrels
  BY DEF BarrelTypes
<1>. QED  BY <1>1 DEF BarrelTypes

\* A merge produces a BarrelInfo.
LEMMA MergedType ==
  ASSUME BarrelTypes, DocTypes
  PROVE  Merged \in Barrel
<1>1. \A b \in mq : barrels[b].base \in 1 .. BAD_DOCID /\ barrels[b].max \in 0 .. MaxDoc
  <2>. TAKE b \in mq
  <2>1. barrels[b] \in Barrel
    BY BarrelOf DEF BarrelTypes
  <2>. QED  BY <2>1 DEF Barrel
<1>. DEFINE B == {BAD_DOCID} \cup {barrels[b].base : b \in mq}
            M == {0} \cup {barrels[b].max : b \in mq}
<1>2. BAD_DOCID \in 1 .. BAD_DOCID /\ B \subseteq 1 .. BAD_DOCID /\ B \in SUBSET Nat /\ B # {}
  BY <1>1, IndexMergeAssumption DEF BAD_DOCID
<1>3. M \in SUBSET (0 .. MaxDoc) /\ M # {}
  BY <1>1, IndexMergeAssumption
<1>4. Min(B) \in B
  <2>. HIDE DEF B
  <2>. QED  BY <1>2, MinOfNaturals
<1>5. Max(M) \in M
  <2>. HIDE DEF M
  <2>. QED  BY <1>3, MaxOfNaturals, IndexMergeAssumption
<1>6. Min(B) \in 1 .. BAD_DOCID /\ Max(M) \in 0 .. MaxDoc
  BY <1>2, <1>3, <1>4, <1>5
<1>. QED  BY <1>6 DEF Merged, Barrel, DocTypes

\* What createNewBarrelInfo() leaves in the index.
LEMMA NewBarrelInfo ==
  ASSUME BarrelTypes, DocTypes, CreateNewBarrelInfo
  PROVE  /\ BarrelTypes'
         /\ DOMAIN barrels' = DOMAIN barrels \cup {Len(barrels) + 1}
         /\ \A b \in DOMAIN barrels :
              barrels'[b] = IF RemovedByMerge(b) THEN [barrels[b] EXCEPT !.docs = {}] ELSE barrels[b]
         /\ barrels'[Len(barrels) + 1] = Merged
<1>. DEFINE new == Len(barrels) + 1
            old == [b \in DOMAIN barrels |->
                      IF RemovedByMerge(b) THEN [barrels[b] EXCEPT !.docs = {}] ELSE barrels[b]]
<1>. USE DEF btvars, readerVars, mergerVars
<1>1. old \in Seq(Barrel) /\ Len(old) = Len(barrels) /\ DOMAIN old = DOMAIN barrels
  <2>1. \A b \in DOMAIN barrels : old[b] \in Barrel
    BY BarrelOf, UpdateFlags
  <2>. QED  BY <2>1 DEF BarrelTypes
<1>2. barrels' = Append(old, Merged)
  BY DEF CreateNewBarrelInfo
<1>3. /\ barrels' \in Seq(Barrel) /\ DOMAIN barrels' = DOMAIN barrels \cup {new}
      /\ \A b \in DOMAIN barrels : barrels'[b] = old[b]
      /\ barrels'[new] = Merged
  <2>. HIDE DEF old
  <2>. QED  BY <1>1, <1>2, MergedType DEF BarrelTypes
<1>4. Kept \subseteq DOMAIN barrels /\ Cardinality(Kept) \in Nat
  <2>1. Kept \in SUBSET Live
    BY DEF Kept
  <2>. QED  BY <2>1, LiveFinite, FS_Subset, FS_CardinalityType
<1>5. barrelInfos' \in Seq(DOMAIN barrels')
  <2>1. PICK s \in [1 .. Cardinality(Kept) -> Kept] : barrelInfos' = Append(s, new)
    BY DEF CreateNewBarrelInfo
  <2>2. s \in Seq(DOMAIN barrels')
    BY <1>3, <1>4, <2>1
  <2>. QED  BY <1>3, <2>1, <2>2
<1>6. readers' = readers /\ cur' = cur /\ mq' = {} /\ mentry' \in {mentry, new}
  BY DEF CreateNewBarrelInfo
<1>7. queue' \in [Levels -> SUBSET DOMAIN barrels]
  BY DEF CreateNewBarrelInfo, ClearMerged, BarrelTypes
<1>8. BarrelTypes'
  BY <1>3, <1>5, <1>6, <1>7 DEF BarrelTypes
<1>. QED  BY <1>3, <1>8

\* Sorting only permutes the barrels of the index.
LEMMA SortTypes ==
  ASSUME BarrelTypes, UpdateBarrelsSort
  PROVE  /\ barrelInfos' \in Seq(DOMAIN barrels) /\ Live' = Live
         /\ \A i, j \in DOMAIN barrelInfos' : i # j => barrelInfos'[i] # barrelInfos'[j]
<1>1. PICK s \in [DOMAIN barrelInfos -> Live] : IsSorted(s) /\ barrelInfos' = s
  BY DEF UpdateBarrelsSort
<1>2. s \in Seq(DOMAIN barrels)
  BY <1>1, LiveFinite DEF BarrelTypes
<1>3. Live' = Live
  BY <1>1 DEF IsSorted, Live
<1>4. DOMAIN s \subseteq Int
  BY <1>2
<1>5. \A i, j \in DOMAIN s : i # j => s[i] # s[j]
  BY <1>1, <1>4 DEF IsSorted
<1>. QED  BY <1>1, <1>2, <1>3, <1>5

\* Every step keeps the types.
LEMMA TypingStep ==
  ASSUME Typing, [Next]_vars
  PROVE  Typing'
<1>. USE BTAssumption, IndexMergeAssumption DEF btvars, indexVars, filterVars, readerVars, lockVars, writerVars, mergerVars, countVars
<1>a. TypeOK /\ BarrelTypes /\ DocTypes /\ FlagTypes /\ ControlTypes
  BY DEF Typing, TypeOK
<1>b. Len(barrels) \in Nat /\ DOMAIN barrels = 1 .. Len(barrels) /\ Live \subseteq DOMAIN barrels
  BY <1>a, LiveFinite DEF BarrelTypes
<1>1. CASE SearchGetIndexReader
  <2>1. getIndexReader
    BY <1>1 DEF SearchGetIndexReader
  <2>2. readers' \subseteq DOMAIN barrels /\ readerOpen' \in BOOLEAN /\ dirty' \in BOOLEAN
    BY <1>a, <2>1, ReaderTypes
  <2>. QED  BY <1>1, <2>2 DEF SearchGetIndexReader, Typing, TypeOK, BarrelTypes, DocTypes, FlagTypes, ControlTypes, WriterPC, MergerPC
<1>2. CASE SearchGetTermReader
  BY <1>2 DEF SearchGetTermReader, createBarrelReader, Live, Typing, TypeOK, BarrelTypes, DocTypes, FlagTypes, ControlTypes, WriterPC, MergerPC
<1>3. ASSUME NEW old \in {0} \cup Docs, InsertDocument(old) PROVE Typing'
  <2>1. BarrelTypes'
    <3>1. CASE cur = 0
      <4>1. createBarrelInfo /\ UNCHANGED <<readers, mentry, mq, queue>>
        BY <1>3, <3>1 DEF InsertDocument
      <4>. QED  BY <1>a, <4>1, CreateBarrelTypes
    <3>2. CASE cur # 0
      BY <1>a, <1>3, <3>2 DEF InsertDocument, BarrelTypes
    <3>. QED  BY <3>1, <3>2
  <2>2. DocTypes'
    BY <1>a, <1>3 DEF InsertDocument, createBarrelInfo, DocTypes
  <2>3. FlagTypes'
    BY <1>a, <1>3 DEF InsertDocument, FlagTypes
  <2>4. ControlTypes'
    BY <1>a, <1>3 DEF InsertDocument, ControlTypes, WriterPC, MergerPC
  <2>. QED  BY <1>a, <1>b, <1>3, <2>1, <2>2, <2>3, <2>4 DEF InsertDocument, createBarrelInfo, Typing, TypeOK, DocTypes, ControlTypes
<1>4. CASE InsertRealTime
  BY <1>4 DEF InsertRealTime, Typing, TypeOK, BarrelTypes, DocTypes, FlagTypes, ControlTypes, WriterPC, MergerPC
<1>5. CASE InsertCreateBarrel
  <2>1. BarrelTypes'
    <3>1. createBarrelInfo /\ UNCHANGED <<readers, mentry, mq, queue>>
      BY <1>5 DEF InsertCreateBarrel
    <3>. QED  BY <1>a, <3>1, CreateBarrelTypes
  <2>2. DocTypes'
    BY <1>a, <1>5 DEF InsertCreateBarrel, createBarrelInfo, DocTypes
  <2>3. FlagTypes'
    BY <1>a, <1>5 DEF InsertCreateBarrel, createBarrelInfo, FlagTypes
  <2>4. ControlTypes'
    BY <1>a, <1>5 DEF InsertCreateBarrel, createBarrelInfo, ControlTypes, WriterPC, MergerPC
  <2>. QED  BY <1>a, <1>b, <1>5, <2>1, <2>2, <2>3, <2>4 DEF InsertCreateBarrel, createBarrelInfo, Typing, TypeOK, DocTypes, ControlTypes
<1>6. CASE InsertBaseDocID
  <2>1. BarrelTypes'
    <3>. DEFINE r == [barrels[cur] EXCEPT !.base = IF @ > nextDoc THEN nextDoc ELSE @, !.max = IF nextDoc > @ THEN nextDoc ELSE @]
    <3>1. barrels' = [barrels EXCEPT ![cur] = r] /\ UNCHANGED <<barrelInfos, readers, cur, mentry, mq, queue>>
      BY <1>a, <1>6 DEF InsertBaseDocID, BarrelTypes
    <3>2. cur \in DOMAIN barrels
      BY <1>a, <1>6 DEF InsertBaseDocID, Typing, BarrelTypes
    <3>3. nextDoc \in Docs
      BY <1>a, <1>6 DEF InsertBaseDocID, Typing, DocTypes, Docs
    <3>4. r \in Barrel
      BY <1>a, <3>2, <3>3, BarrelOf, UpdateRange
    <3>. HIDE DEF r
    <3>. QED  BY <1>a, <3>1, <3>2, <3>4, ReplaceTypes
  <2>2. DocTypes'
    BY <1>a, <1>6 DEF InsertBaseDocID, DocTypes
  <2>3. FlagTypes'
    BY <1>a, <1>6 DEF InsertBaseDocID, FlagTypes
  <2>4. ControlTypes'
    BY <1>a, <1>6 DEF InsertBaseDocID, ControlTypes, WriterPC, MergerPC
  <2>. QED  BY <1>a, <1>b, <1>6, <2>1, <2>2, <2>3, <2>4 DEF InsertBaseDocID, Typing, TypeOK, DocTypes, ControlTypes
<1>7. CASE InsertAddDocument
  <2>1. BarrelTypes'
    <3>. DEFINE r == [barrels[cur] EXCEPT !.docs = @ \cup {nextDoc}]
    <3>1. barrels' = [barrels EXCEPT ![cur] = r] /\ UNCHANGED <<barrelInfos, readers, cur, mentry, mq, queue>>
      BY <1>a, <1>7 DEF InsertAddDocument, BarrelTypes
    <3>2. cur \in DOMAIN barrels
      BY <1>a, <1>7 DEF InsertAddDocument, Typing, BarrelTypes
    <3>3. nextDoc \in Docs
      BY <1>a, <1>7 DEF InsertAddDocument, Typing, DocTypes, Docs
    <3>4. r \in Barrel
      BY <1>a, <3>2, <3>3, BarrelOf, UpdateDocs
    <3>. HIDE DEF r
    <3>. QED  BY <1>a, <3>1, <3>2, <3>4, ReplaceTypes
  <2>2. DocTypes'
    BY <1>a, <1>7 DEF InsertAddDocument, Typing, DocTypes
  <2>3. FlagTypes'
    BY <1>a, <1>7 DEF InsertAddDocument, FlagTypes
  <2>4. ControlTypes'
    BY <1>a, <1>7 DEF InsertAddDocument, ControlTypes, WriterPC, MergerPC
  <2>. QED  BY <1>a, <1>b, <1>7, <2>1, <2>2, <2>3, <2>4 DEF InsertAddDocument, Typing, TypeOK, DocTypes, ControlTypes
<1>8. ASSUME NEW d \in Docs, RemoveDocument(d) PROVE Typing'
  BY <1>8 DEF RemoveDocument, Docs, Typing, TypeOK, BarrelTypes, DocTypes, FlagTypes, ControlTypes, WriterPC, MergerPC
<1>9. CASE RemoveTestFilter
  <2>1. getIndexReader
    BY <1>9 DEF RemoveTestFilter
  <2>2. readers' \subseteq DOMAIN barrels /\ readerOpen' \in BOOLEAN /\ dirty' \in BOOLEAN
    BY <1>a, <2>1, ReaderTypes
  <2>. QED  BY <1>9, <2>2 DEF RemoveTestFilter, WriterReturns, Typing, TypeOK, BarrelTypes, DocTypes, FlagTypes, ControlTypes, WriterPC, MergerPC
<1>10. CASE RemoveCountDown
  <2>1. getIndexReader
    BY <1>10 DEF RemoveCountDown
  <2>2. readers' \subseteq DOMAIN barrels /\ readerOpen' \in BOOLEAN /\ dirty' \in BOOLEAN
    BY <1>a, <2>1, ReaderTypes
  <2>. QED  BY <1>10, <2>2 DEF RemoveCountDown, WriterReturns, Typing, TypeOK, BarrelTypes, DocTypes, FlagTypes, ControlTypes, WriterPC, MergerPC
<1>11. CASE RemoveSetBit
  BY <1>11 DEF RemoveSetBit, WriterReturns, Typing, TypeOK, BarrelTypes, DocTypes, FlagTypes, ControlTypes, WriterPC, MergerPC
<1>12. CASE Flush
  BY <1>12 DEF Flush, Typing, TypeOK, BarrelTypes, DocTypes, FlagTypes, ControlTypes, WriterPC, MergerPC
<1>13. CASE FlushWrite
  <2>1. BarrelTypes'
    <3>. DEFINE r == [barrels[cur] EXCEPT !.inMemory = FALSE]
    <3>1. barrels' = [barrels EXCEPT ![cur] = r] /\ UNCHANGED <<barrelInfos, readers, cur, mentry, mq, queue>>
      BY <1>a, <1>13 DEF FlushWrite, BarrelTypes
    <3>2. cur \in DOMAIN barrels
      BY <1>a, <1>13 DEF FlushWrite, Typing, BarrelTypes
    <3>4. r \in Barrel
      BY <1>a, <3>2, BarrelOf, UpdateFlags
    <3>. HIDE DEF r
    <3>. QED  BY <1>a, <3>1, <3>2, <3>4, ReplaceTypes
  <2>2. DocTypes'
    BY <1>a, <1>13 DEF FlushWrite, DocTypes
  <2>3. FlagTypes'
    BY <1>a, <1>13 DEF FlushWrite, FlagTypes
  <2>4. ControlTypes'
    BY <1>a, <1>13 DEF FlushWrite, ControlTypes, WriterPC, MergerPC
  <2>. QED  BY <1>a, <1>b, <1>13, <2>1, <2>2, <2>3, <2>4 DEF FlushWrite, Typing, TypeOK, DocTypes, ControlTypes
<1>14. CASE FlushSetSearchable
  <2>1. BarrelTypes'
    <3>. DEFINE r == [barrels[cur] EXCEPT !.searchable = TRUE]
    <3>1. barrels' = [barrels EXCEPT ![cur] = r] /\ UNCHANGED <<barrelInfos, readers, cur, mentry, mq, queue>>
      BY <1>a, <1>14 DEF FlushSetSearchable, BarrelTypes
    <3>2. cur \in DOMAIN barrels
      BY <1>a, <1>14 DEF FlushSetSearchable, Typing, BarrelTypes
    <3>4. r \in Barrel
      BY <1>a, <3>2, BarrelOf, UpdateFlags
    <3>. HIDE DEF r
    <3>. QED  BY <1>a, <3>1, <3>2, <3>4, ReplaceTypes
  <2>2. DocTypes'
    BY <1>a, <1>14 DEF FlushSetSearchable, DocTypes
  <2>3. FlagTypes'
    BY <1>a, <1>14 DEF FlushSetSearchable, FlagTypes
  <2>4. ControlTypes'
    BY <1>a, <1>14 DEF FlushSetSearchable, ControlTypes, WriterPC, MergerPC
  <2>. QED  BY <1>a, <1>b, <1>14, <2>1, <2>2, <2>3, <2>4 DEF FlushSetSearchable, Typing, TypeOK, DocTypes, ControlTypes
<1>15. CASE FlushReopen
  <2>1. getIndexReader
    BY <1>15 DEF FlushReopen
  <2>2. readers' \subseteq DOMAIN barrels /\ readerOpen' \in BOOLEAN /\ dirty' \in BOOLEAN
    BY <1>a, <2>1, ReaderTypes
  <2>. QED  BY <1>15, <2>2 DEF FlushReopen, Typing, TypeOK, BarrelTypes, DocTypes, FlagTypes, ControlTypes, WriterPC, MergerPC
<1>16. CASE FlushAddToMerge
  <2>1. BarrelTypes'
    BY <1>a, <1>16 DEF FlushAddToMerge, StartAdd, BarrelTypes
  <2>2. DocTypes'
    BY <1>a, <1>16 DEF FlushAddToMerge, StartAdd, DocTypes
  <2>3. FlagTypes'
    BY <1>a, <1>16 DEF FlushAddToMerge, StartAdd, FlagTypes
  <2>4. ControlTypes'
    <3>1. ADD_BARREL(cur) \in Task
      BY <1>a, <1>b DEF ADD_BARREL, Task, BarrelTypes
    <3>. QED  BY <1>a, <1>16, <3>1 DEF FlushAddToMerge, StartAdd, ControlTypes, WriterPC, MergerPC
  <2>. QED  BY <1>a, <1>b, <1>16, <2>1, <2>2, <2>3, <2>4 DEF FlushAddToMerge, StartAdd, Typing, TypeOK, DocTypes, ControlTypes
<1>17. CASE FlushEnd
  BY <1>17 DEF FlushEnd, Typing, TypeOK, BarrelTypes, DocTypes, FlagTypes, ControlTypes, WriterPC, MergerPC
<1>18. CASE FlushSetDirty
  BY <1>18 DEF FlushSetDirty, Typing, TypeOK, BarrelTypes, DocTypes, FlagTypes, ControlTypes, WriterPC, MergerPC
<1>19. CASE FlushDocFilter
  BY <1>19 DEF FlushDocFilter, WriterReturns, Typing, TypeOK, BarrelTypes, DocTypes, FlagTypes, ControlTypes, WriterPC, MergerPC
<1>20. CASE OptimizeIndex
  BY <1>20 DEF OptimizeIndex, Typing, TypeOK, BarrelTypes, DocTypes, FlagTypes, ControlTypes, WriterPC, MergerPC
<1>21. CASE OptimizePush
  <2>1. BarrelTypes'
    BY <1>a, <1>21 DEF OptimizePush, StartOptimize, BarrelTypes
  <2>2. DocTypes'
    BY <1>a, <1>21 DEF OptimizePush, StartOptimize, DocTypes
  <2>3. FlagTypes'
    BY <1>a, <1>21 DEF OptimizePush, StartOptimize, FlagTypes
  <2>4. ControlTypes'
    <3>1. <<OPTIMIZE_ALL>> \in Seq(Task)
      BY DEF OPTIMIZE_ALL, Task
    <3>. QED  BY <1>a, <1>21, <3>1 DEF OptimizePush, StartOptimize, ControlTypes, WriterPC, MergerPC
  <2>. QED  BY <1>a, <1>b, <1>21, <2>1, <2>2, <2>3, <2>4 DEF OptimizePush, StartOptimize, Typing, TypeOK, DocTypes, ControlTypes
<1>22. CASE OptimizeReturn
  BY <1>22 DEF OptimizeReturn, WriterReturns, Typing, TypeOK, BarrelTypes, DocTypes, FlagTypes, ControlTypes, WriterPC, MergerPC
<1>23. CASE Close
  BY <1>23 DEF Close, Typing, TypeOK, BarrelTypes, DocTypes, FlagTypes, ControlTypes, WriterPC, MergerPC
<1>24. CASE CloseLock
  <2>1. BarrelTypes'
    BY <1>a, <1>24 DEF CloseLock, BarrelTypes
  <2>2. DocTypes'
    BY <1>a, <1>24 DEF CloseLock, DocTypes
  <2>3. FlagTypes'
    BY <1>a, <1>24 DEF CloseLock, FlagTypes
  <2>4. ControlTypes'
    <3>1. <<EXIT_MERGE>> \in Seq(Task)
      BY DEF EXIT_MERGE, Task
    <3>. QED  BY <1>a, <1>24, <3>1 DEF CloseLock, ControlTypes, WriterPC, MergerPC
  <2>. QED  BY <1>a, <1>b, <1>24, <2>1, <2>2, <2>3, <2>4 DEF CloseLock, Typing, TypeOK, DocTypes, ControlTypes
<1>25. CASE CloseJoin
  BY <1>25 DEF CloseJoin, Typing, TypeOK, BarrelTypes, DocTypes, FlagTypes, ControlTypes, WriterPC, MergerPC
<1>26. CASE WaitForMergeFinish
  BY <1>26 DEF WaitForMergeFinish, EXIT_MERGE, Task, Typing, TypeOK, BarrelTypes, DocTypes, FlagTypes, ControlTypes, WriterPC, MergerPC
<1>27. CASE WaitJoin
  BY <1>27 DEF WaitJoin, Typing, TypeOK, BarrelTypes, DocTypes, FlagTypes, ControlTypes, WriterPC, MergerPC
<1>28. CASE PauseMerge
  BY <1>28 DEF PauseMerge, Typing, TypeOK, BarrelTypes, DocTypes, FlagTypes, ControlTypes, WriterPC, MergerPC
<1>29. CASE ResumeMerge
  <2>1. BarrelTypes'
    BY <1>a, <1>29 DEF ResumeMerge, BarrelTypes
  <2>2. DocTypes'
    BY <1>a, <1>29 DEF ResumeMerge, DocTypes
  <2>3. FlagTypes'
    BY <1>a, <1>29 DEF ResumeMerge, FlagTypes
  <2>4. ControlTypes'
    BY <1>a, <1>29 DEF ResumeMerge, ControlTypes, WriterPC, MergerPC
  <2>. QED  BY <1>a, <1>b, <1>29, <2>1, <2>2, <2>3, <2>4 DEF ResumeMerge, Typing, TypeOK, DocTypes, ControlTypes
<1>30. CASE PopAdd
  <2>1. BarrelTypes'
    BY <1>a, <1>b, <1>30 DEF PopAdd, StartAdd, BarrelTypes
  <2>2. DocTypes'
    BY <1>a, <1>30 DEF PopAdd, StartAdd, DocTypes
  <2>3. FlagTypes'
    BY <1>a, <1>30 DEF PopAdd, StartAdd, FlagTypes
  <2>4. ControlTypes'
    BY <1>a, <1>30 DEF PopAdd, StartAdd, ControlTypes, WriterPC, MergerPC
  <2>. QED  BY <1>a, <1>b, <1>30, <2>1, <2>2, <2>3, <2>4 DEF PopAdd, StartAdd, Typing, TypeOK, DocTypes, ControlTypes
<1>31. CASE PopOptimize
  <2>1. BarrelTypes'
    BY <1>a, <1>31 DEF PopOptimize, StartOptimize, Task, BarrelTypes
  <2>2. DocTypes'
    BY <1>a, <1>31 DEF PopOptimize, StartOptimize, Task, DocTypes
  <2>3. FlagTypes'
    BY <1>a, <1>31 DEF PopOptimize, StartOptimize, Task, FlagTypes
  <2>4. ControlTypes'
    BY <1>a, <1>31 DEF PopOptimize, StartOptimize, Task, ControlTypes, WriterPC, MergerPC
  <2>. QED  BY <1>a, <1>b, <1>31, <2>1, <2>2, <2>3, <2>4 DEF PopOptimize, StartOptimize, Task, Typing, TypeOK, DocTypes, ControlTypes
<1>32. CASE PopExit
  BY <1>32 DEF PopExit, Task, Typing, TypeOK, BarrelTypes, DocTypes, FlagTypes, ControlTypes, WriterPC, MergerPC
<1>33. CASE AddToPolicy
  <2>1. BarrelTypes'
    <3>1. mentry \in DOMAIN barrels
      BY <1>a, <1>33 DEF AddToPolicy, Typing, BarrelTypes
    <3>2. getLevel(nNumDocs[mentry]) \in Levels
      BY getLevelType
    <3>. QED  BY <1>a, <1>33, <3>1, <3>2 DEF AddToPolicy, addBarrel, BarrelTypes
  <2>2. DocTypes'
    BY <1>a, <1>33 DEF AddToPolicy, addBarrel, DocTypes
  <2>3. FlagTypes'
    BY <1>a, <1>33 DEF AddToPolicy, addBarrel, FlagTypes
  <2>4. ControlTypes'
    <3>1. getLevel(nNumDocs[mentry]) \in Levels /\ 0 \in Levels
      BY getLevelType DEF Levels
    <3>. QED  BY <1>a, <1>33, <3>1 DEF AddToPolicy, addBarrel, ControlTypes, MergerPC
  <2>. QED  BY <1>a, <1>b, <1>33, <2>1, <2>2, <2>3, <2>4 DEF AddToPolicy, addBarrel, Typing, TypeOK, DocTypes, ControlTypes
<1>34. CASE PolicyStep
  <2>1. triggerMerge(baseDocID)
    BY <1>34 DEF PolicyStep
  <2>2. /\ queue' \in [Levels -> SUBSET DOMAIN barrels] /\ pLevel1' \in Levels
        /\ iter2' \in 0 .. MaxLevel + 1 /\ btpc' \in {"up", "pass", "merge"}
    BY <1>a, <2>1, TriggerMergeTypes
  <2>. QED  BY <1>34, <2>2 DEF PolicyStep, Typing, TypeOK, BarrelTypes, DocTypes, FlagTypes, ControlTypes, WriterPC, MergerPC
<1>35. CASE PolicyMerge
  BY <1>35 DEF PolicyMerge, Typing, TypeOK, BarrelTypes, DocTypes, FlagTypes, ControlTypes, WriterPC, MergerPC
<1>36. CASE OptimizeOpen
  <2>1. getIndexReader
    BY <1>36 DEF OptimizeOpen
  <2>2. readers' \subseteq DOMAIN barrels /\ readerOpen' \in BOOLEAN /\ dirty' \in BOOLEAN
    BY <1>a, <2>1, ReaderTypes
  <2>. QED  BY <1>36, <2>2 DEF OptimizeOpen, Typing, TypeOK, BarrelTypes, DocTypes, FlagTypes, ControlTypes, WriterPC, MergerPC
<1>37. CASE OptimizeLock
  <2>1. BarrelTypes'
    BY <1>a, <1>37 DEF OptimizeLock, BarrelTypes
  <2>2. DocTypes'
    BY <1>a, <1>37 DEF OptimizeLock, DocTypes
  <2>3. FlagTypes'
    BY <1>a, <1>37 DEF OptimizeLock, FlagTypes
  <2>4. ControlTypes'
    BY <1>a, <1>37 DEF OptimizeLock, ControlTypes, WriterPC, MergerPC
  <2>. QED  BY <1>a, <1>b, <1>37, <2>1, <2>2, <2>3, <2>4 DEF OptimizeLock, Typing, TypeOK, DocTypes, ControlTypes
<1>38. CASE OptimizeSnapshot
  BY <1>38 DEF OptimizeSnapshot, Live, Typing, TypeOK, BarrelTypes, DocTypes, FlagTypes, ControlTypes, WriterPC, MergerPC
<1>39. CASE OutputNewBarrel
  <2>1. BarrelTypes'
    BY <1>a, <1>39 DEF OutputNewBarrel, BarrelTypes
  <2>2. DocTypes'
    <3>1. \A b \in mq : barrels[b].docs \subseteq Docs
      BY <1>a, BarrelOf DEF BarrelTypes
    <3>. QED  BY <1>a, <1>39, <3>1 DEF OutputNewBarrel, DocTypes
  <2>3. FlagTypes'
    BY <1>a, <1>39 DEF OutputNewBarrel, FlagTypes
  <2>4. ControlTypes'
    BY <1>a, <1>39 DEF OutputNewBarrel, ControlTypes, WriterPC, MergerPC
  <2>. QED  BY <1>a, <1>b, <1>39, <2>1, <2>2, <2>3, <2>4 DEF OutputNewBarrel, Typing, TypeOK, DocTypes, ControlTypes
<1>40. CASE CreateCheckPause
  BY <1>40 DEF CreateCheckPause, Typing, TypeOK, BarrelTypes, DocTypes, FlagTypes, ControlTypes, WriterPC, MergerPC
<1>41. CASE CreateNewBarrelInfo
  <2>1. BarrelTypes'
    BY <1>a, <1>41, NewBarrelInfo
  <2>2. DocTypes'
    BY <1>a, <1>41 DEF CreateNewBarrelInfo, ClearMerged, DocTypes
  <2>3. FlagTypes'
    BY <1>a, <1>41 DEF CreateNewBarrelInfo, ClearMerged, FlagTypes
  <2>4. ControlTypes'
    BY <1>a, <1>41 DEF CreateNewBarrelInfo, ClearMerged, ControlTypes, MergerPC, Levels
  <2>. QED  BY <1>a, <1>b, <1>41, <2>1, <2>2, <2>3, <2>4 DEF CreateNewBarrelInfo, ClearMerged, Typing, TypeOK, DocTypes, ControlTypes
<1>42. CASE OptimizeDelDocFilter
  <2>1. BarrelTypes'
    BY <1>a, <1>42 DEF OptimizeDelDocFilter, BarrelTypes
  <2>2. DocTypes'
    BY <1>a, <1>42 DEF OptimizeDelDocFilter, DocTypes
  <2>3. FlagTypes'
    BY <1>a, <1>42 DEF OptimizeDelDocFilter, FlagTypes
  <2>4. ControlTypes'
    BY <1>a, <1>42 DEF OptimizeDelDocFilter, ControlTypes, WriterPC, MergerPC
  <2>. QED  BY <1>a, <1>b, <1>42, <2>1, <2>2, <2>3, <2>4 DEF OptimizeDelDocFilter, Typing, TypeOK, DocTypes, ControlTypes
<1>43. CASE UpdateBarrelsSort
  <2>1. BarrelTypes'
    BY <1>a, <1>43, SortTypes DEF UpdateBarrelsSort, BarrelTypes
  <2>2. DocTypes'
    BY <1>a, <1>43 DEF UpdateBarrelsSort, DocTypes
  <2>3. FlagTypes'
    BY <1>a, <1>43 DEF UpdateBarrelsSort, FlagTypes
  <2>4. ControlTypes'
    BY <1>a, <1>43 DEF UpdateBarrelsSort, ControlTypes, WriterPC, MergerPC
  <2>. QED  BY <1>a, <1>b, <1>43, <2>1, <2>2, <2>3, <2>4 DEF UpdateBarrelsSort, Typing, TypeOK, DocTypes, ControlTypes
<1>44. CASE UpdateBarrelsSetDirty
  BY <1>44 DEF UpdateBarrelsSetDirty, Typing, TypeOK, BarrelTypes, DocTypes, FlagTypes, ControlTypes, WriterPC, MergerPC
<1>45. CASE OptimizeMaxDoc
  <2>1. BarrelTypes'
    BY <1>a, <1>45 DEF OptimizeMaxDoc, BarrelTypes
  <2>2. DocTypes'
    <3>. DEFINE M == {0} \cup {barrels[b].max : b \in Live}
    <3>1. \A b \in Live : barrels[b].max \in 0 .. MaxDoc
      BY <1>a, <1>b, BarrelOf DEF Barrel
    <3>2. M \in SUBSET (0 .. MaxDoc) /\ M # {}
      BY <3>1
    <3>3. Max(M) \in 0 .. MaxDoc
      <4>. HIDE DEF M
      <4>. QED  BY <3>2, MaxOfNaturals
    <3>. HIDE DEF M
    <3>4. maxDoc' = IF Max(M) < maxDoc THEN Max(M) ELSE maxDoc
      BY <1>45 DEF OptimizeMaxDoc, M
    <3>. QED  BY <1>a, <1>45, <3>3, <3>4 DEF OptimizeMaxDoc, DocTypes
  <2>3. FlagTypes'
    BY <1>a, <1>45 DEF OptimizeMaxDoc, FlagTypes
  <2>4. ControlTypes'
    BY <1>a, <1>45 DEF OptimizeMaxDoc, ControlTypes, WriterPC, MergerPC
  <2>. QED  BY <1>a, <1>b, <1>45, <2>1, <2>2, <2>3, <2>4 DEF OptimizeMaxDoc, Typing, TypeOK, DocTypes, ControlTypes
<1>46. CASE OptimizeReopen
  <2>1. getIndexReader
    BY <1>46 DEF OptimizeReopen
  <2>2. readers' \subseteq DOMAIN barrels /\ readerOpen' \in BOOLEAN /\ dirty' \in BOOLEAN
    BY <1>a, <2>1, ReaderTypes
  <2>. QED  BY <1>46, <2>2 DEF OptimizeReopen, Typing, TypeOK, BarrelTypes, DocTypes, FlagTypes, ControlTypes, WriterPC, MergerPC
<1>47. CASE UNCHANGED vars
  BY <1>47 DEF vars, Typing, TypeOK, BarrelTypes, DocTypes, FlagTypes, ControlTypes, WriterPC, MergerPC
<1>. QED
  BY <1>1, <1>2, <1>3, <1>4, <1>5, <1>6, <1>7, <1>8, <1>9, <1>10, <1>11, <1>12, <1>13, <1>14, <1>15, <1>16, <1>17, <1>18, <1>19, <1>20, <1>21, <1>22, <1>23, <1>24, <1>25, <1>26, <1>27, <1>28, <1>29, <1>30, <1>31, <1>32, <1>33, <1>34, <1>35, <1>36, <1>37, <1>38, <1>39, <1>40, <1>41, <1>42, <1>43, <1>44, <1>45, <1>46, <1>47 DEF Next, WriterCall, WriterStep, MergerStep, SearchStep, Terminated

\* The initial state has the types.
LEMMA TypingInit == Init => Typing
<1>. SUFFICES ASSUME Init PROVE Typing
  OBVIOUS
<1>. USE BTAssumption, IndexMergeAssumption DEF Init, BTInit
<1>1. BarrelTypes
  BY DEF BarrelTypes
<1>2. DocTypes
  BY DEF DocTypes
<1>3. FlagTypes
  BY DEF FlagTypes
<1>4. ControlTypes
  BY DEF ControlTypes, WriterPC, MergerPC, Levels
<1>. QED  BY <1>1, <1>2, <1>3, <1>4 DEF Typing, TypeOK

\* The types of all variables hold in every state of every execution.
THEOREM TypeCorrect == Spec => []TypeOK
<1>1. Typing => TypeOK
  BY DEF Typing
<1>2. Typing /\ [Next]_vars => Typing'
  BY TypingStep
<1>. QED  BY <1>1, <1>2, TypingInit, PTL DEF Spec

------------------------------------------------------------------------------
(* The index and what the mergers hold of it *)

\* The merger has barrels in hand: those it merges are in mq.
Merging == mpc \in {"output", "pause", "replace"}

\* The merger runs optimizeIndexImpl() and has not replaced the barrels yet.
Optimizing == mpc \in {"opt_open", "opt_lock", "opt_snapshot"} \/ (Merging /\ mjob = "optimize")

\* Between BarrelInfo::write() and the end of IndexWriter::flush() the current
\* barrel is on disk.
Written == wpc \in {"fl_searchable", "fl_reopen", "fl_add", "fl_end"}

\* Barrels: no barrel is listed twice, only a barrel on disk leaves the index, and
\* the current barrel is in memory until it is written.
BarrelInv ==
  /\ \A i, j \in DOMAIN barrelInfos : i # j => barrelInfos[i] # barrelInfos[j]
  /\ \A b \in DOMAIN barrels : barrels[b].inMemory => b \in Live
  /\ cur # 0 /\ ~Written => barrels[cur].inMemory
  /\ Written => ~barrels[cur].inMemory

\* Documents: no document is in two barrels, and none has an id that is still to
\* be given.
DocInv ==
  /\ DocsInOneBarrel
  /\ \A b \in Live : \A d \in barrels[b].docs : d < nextDoc

\* Policy: the layers are disjoint and hold barrels of the index that are on disk.
LayerInv ==
  /\ \A k, l \in Levels : k # l => queue[k] \cap queue[l] = {}
  /\ \A l \in Levels : \A b \in queue[l] : b \in Live /\ ~barrels[b].inMemory
  /\ Optimizing \/ ~UseAddMerger => \A l \in Levels : queue[l] = {}

\* A barrel reaches the policy once: it is the current barrel, then in a task,
\* then the merger's entry, then in a layer.
HandoverInv ==
  /\ \A i \in DOMAIN tasks : tasks[i].op = "add" =>
       /\ tasks[i].b \in DOMAIN barrels /\ ~barrels[tasks[i].b].inMemory
       /\ tasks[i].b # mentry /\ \A l \in Levels : tasks[i].b \notin queue[l]
       /\ cur # 0 /\ wpc # "fl_end" => tasks[i].b # cur
       /\ \A j \in DOMAIN tasks : i # j /\ tasks[j].op = "add" => tasks[i].b # tasks[j].b
  /\ mentry # 0 => /\ mentry \in Live /\ ~barrels[mentry].inMemory
                   /\ \A l \in Levels : mentry \notin queue[l]
                   /\ mpc = "add"
  /\ cur # 0 /\ wpc # "fl_end" => cur # mentry /\ \A l \in Levels : cur \notin queue[l]

\* Merger: it merges barrels of the index that are on disk, the add merger those
\* of one layer, and the postings it has written are theirs.
MergerInv ==
  /\ \A b \in mq : b \in Live /\ ~barrels[b].inMemory
  /\ ~Merging => mq = {}
  /\ mpc \in {"add", "policy"} => UseAddMerger /\ mjob = "add"
  /\ mpc \in {"opt_open", "opt_lock", "opt_snapshot"} => mjob = "optimize"
  /\ Merging /\ mjob = "add" => UseAddMerger /\ btpc = "merge" /\ mq = queue[pLevel1]
  /\ mpc \in {"pause", "replace"} => \A d \in mout : \E b \in mq : d \in barrels[b].docs
  /\ ~IsAsync /\ mpc # "pop" => wpc \in {"fl_end", "opt_spin"}
  /\ ~IsAsync => tasks = <<>>

\* The inductive invariant behind DocsInOneBarrel and MergerHoldsLiveBarrels.
IndexInv == Typing /\ BarrelInv /\ DocInv /\ LayerInv /\ HandoverInv /\ MergerInv

\* The steps of triggerMerge() move barrels between layers, and only so that the
\* layers stay disjoint.
LEMMA TriggerMergeLayers ==
  ASSUME BarrelTypes, ControlTypes, triggerMerge(baseDocID),
         \A k, l \in Levels : k # l => queue[k] \cap queue[l] = {}
  PROVE  /\ \A k, l \in Levels : k # l => queue'[k] \cap queue'[l] = {}
         /\ \A l \in Levels : \A b \in queue'[l] : \E k \in Levels : b \in queue[k]
<1>1. ASSUME NEW l1 \in Levels, NEW l2 \in Levels, l1 # l2, combineLayer(l1, l2)
      PROVE  /\ \A k, l \in Levels : k # l => queue'[k] \cap queue'[l] = {}
             /\ \A l \in Levels : \A b \in queue'[l] : \E k \in Levels : b \in queue[k]
  <2>. DEFINE lower  == IF l1 < l2 THEN l1 ELSE l2
              higher == IF l1 < l2 THEN l2 ELSE l1
  <2>1. lower \in Levels /\ higher \in Levels /\ lower # higher
    BY <1>1
  <2>2. queue' = [queue EXCEPT ![higher] = @ \cup queue[lower], ![lower] = {}]
    BY <1>1 DEF combineLayer
  <2>. HIDE DEF lower, higher
  <2>3. \A l \in Levels : queue'[l] = IF l = lower THEN {} ELSE IF l = higher THEN queue[higher] \cup queue[lower] ELSE queue[l]
    BY <2>1, <2>2 DEF BarrelTypes
  <2>. QED  BY <2>1, <2>3
<1>2. CASE CombineUpper
  <2>1. combineLayer(pLevel1, getLevel(levelSize[pLevel1])) /\ pLevel1 # getLevel(levelSize[pLevel1])
    BY <1>2, getLevelType, BTAssumption DEF CombineUpper, WouldTriggerUpper, ControlTypes, Levels
  <2>2. pLevel1 \in Levels /\ getLevel(levelSize[pLevel1]) \in Levels
    BY getLevelType DEF ControlTypes
  <2>. QED  BY <1>1, <2>1, <2>2
<1>3. CASE PassLayer(baseDocID) /\ Interleaved(iter2, baseDocID)
  <2>1. combineLayer(pLevel1, iter2) /\ pLevel1 # iter2
    BY <1>3 DEF PassLayer, Interleaved
  <2>2. pLevel1 \in Levels /\ iter2 \in Levels
    BY <1>3, BTAssumption DEF PassLayer, ControlTypes, Levels
  <2>. QED  BY <1>1, <2>1, <2>2
<1>4. CASE queue' = queue
  BY <1>4
<1>. QED  BY <1>2, <1>3, <1>4 DEF triggerMerge, StartPass, EndPass, PassLayer

\* createBarrelInfo() adds an empty barrel in memory and changes no other.
LEMMA CreatedBarrel ==
  ASSUME BarrelTypes, createBarrelInfo
  PROVE  /\ DOMAIN barrels' = DOMAIN barrels \cup {Len(barrels) + 1}
         /\ Len(barrels) + 1 \notin DOMAIN barrels
         /\ \A b \in DOMAIN barrels : barrels'[b] = barrels[b]
         /\ barrels'[Len(barrels) + 1] = NewBarrel
         /\ barrels'[Len(barrels) + 1].docs = {} /\ barrels'[Len(barrels) + 1].inMemory
         /\ Live' = Live \cup {Len(barrels) + 1}
         /\ \A i, j \in DOMAIN barrelInfos' :
              i # j /\ barrelInfos'[i] = barrelInfos'[j]
                => i \in DOMAIN barrelInfos /\ j \in DOMAIN barrelInfos /\ barrelInfos[i] = barrelInfos[j]
         /\ cur' = Len(barrels) + 1 /\ nextDoc' = nextDoc
<1>. DEFINE new == Len(barrels) + 1
<1>1. barrels \in Seq(Barrel) /\ barrelInfos \in Seq(DOMAIN barrels) /\ DOMAIN barrels = 1 .. Len(barrels) /\ Len(barrels) \in Nat
  BY DEF BarrelTypes
<1>2. barrels' = Append(barrels, NewBarrel) /\ barrelInfos' = Append(barrelInfos, new)
  BY DEF createBarrelInfo
<1>3. /\ DOMAIN barrels' = DOMAIN barrels \cup {new} /\ new \notin DOMAIN barrels
      /\ \A b \in DOMAIN barrels : barrels'[b] = barrels[b]
      /\ barrels'[new] = NewBarrel
  BY <1>1, <1>2
<1>4. /\ DOMAIN barrelInfos' = DOMAIN barrelInfos \cup {Len(barrelInfos) + 1}
      /\ \A i \in DOMAIN barrelInfos : barrelInfos'[i] = barrelInfos[i] /\ barrelInfos[i] \in DOMAIN barrels
      /\ barrelInfos'[Len(barrelInfos) + 1] = new
  BY <1>1, <1>2
<1>5. Live' = Live \cup {new}
  BY <1>4 DEF Live
<1>. QED  BY <1>3, <1>4, <1>5 DEF createBarrelInfo, NewBarrel

\* createNewBarrelInfo() replaces the barrels of mq by a new one.
LEMMA ReplacedBarrels ==
  ASSUME BarrelTypes, DocTypes, BarrelInv, CreateNewBarrelInfo
  PROVE  /\ DOMAIN barrels' = DOMAIN barrels \cup {Len(barrels) + 1}
         /\ Len(barrels) + 1 \notin DOMAIN barrels
         /\ \A b \in DOMAIN barrels : barrels'[b].inMemory = barrels[b].inMemory
         /\ \A b \in DOMAIN barrels \ mq : barrels'[b].docs = barrels[b].docs
         /\ barrels'[Len(barrels) + 1].docs = mout /\ ~barrels'[Len(barrels) + 1].inMemory
         /\ Live' = (Live \ mq) \cup {Len(barrels) + 1}
         /\ \A i, j \in DOMAIN barrelInfos' : i # j => barrelInfos'[i] # barrelInfos'[j]
<1>. DEFINE new == Len(barrels) + 1
<1>1. barrelInfos \in Seq(DOMAIN barrels) /\ DOMAIN barrels = 1 .. Len(barrels) /\ Len(barrels) \in Nat
  BY DEF BarrelTypes
<1>2. new \notin DOMAIN barrels
  BY <1>1
<1>3. PICK s \in [1 .. Cardinality(Kept) -> Kept] : IsInOrder(s, Kept) /\ barrelInfos' = Append(s, new)
  BY DEF CreateNewBarrelInfo
<1>4. Kept = Live \ mq /\ Kept \subseteq DOMAIN barrels /\ Cardinality(Kept) \in Nat
  <2>1. Kept \in SUBSET Live /\ Kept = Live \ mq
    BY DEF Kept, RemovedByMerge
  <2>. QED  BY <2>1, LiveFinite, FS_Subset, FS_CardinalityType
<1>5. /\ DOMAIN s \subseteq Nat /\ DOMAIN barrelInfos' = DOMAIN s \cup {Len(s) + 1} /\ Len(s) + 1 \notin DOMAIN s
      /\ \A i \in DOMAIN s : barrelInfos'[i] = s[i] /\ s[i] \in Kept
      /\ barrelInfos'[Len(s) + 1] = new
  <2>1. Cardinality(Kept) \in Nat /\ s \in [1 .. Cardinality(Kept) -> Kept]
    BY <1>3, <1>4
  <2>2. s \in Seq(Kept)
    BY <2>1
  <2>3. DOMAIN s = 1 .. Len(s) /\ Len(s) \in Nat /\ \A i \in DOMAIN s : s[i] \in Kept
    BY <2>2
  <2>. HIDE DEF new
  <2>4. barrelInfos' = Append(s, new)
    BY <1>3
  <2>5. Len(barrelInfos') = Len(s) + 1 /\ DOMAIN barrelInfos' = 1 .. Len(s) + 1
    BY <2>2, <2>4
  <2>6. (\A i \in 1 .. Len(s) : barrelInfos'[i] = s[i]) /\ barrelInfos'[Len(s) + 1] = new
    BY <2>2, <2>4
  <2>. QED  BY <2>3, <2>5, <2>6
<1>6. Live' = Kept \cup {new}
  BY <1>3, <1>5 DEF Live, IsInOrder
<1>7. \A i, j \in DOMAIN s : i # j => s[i] # s[j]
  <2>1. \A i, j \in DOMAIN s : i < j => s[i] # s[j]
    <3>. SUFFICES ASSUME NEW i \in DOMAIN s, NEW j \in DOMAIN s, i < j PROVE s[i] # s[j]
      OBVIOUS
    <3>1. PICK k \in DOMAIN barrelInfos, l \in DOMAIN barrelInfos :
            k < l /\ barrelInfos[k] = s[i] /\ barrelInfos[l] = s[j]
      BY <1>3 DEF IsInOrder, Precedes
    <3>2. k # l
      BY <3>1, <1>1
    <3>. QED  BY <3>1, <3>2 DEF BarrelInv
  <2>. QED  BY <2>1, <1>5
<1>8. \A i, j \in DOMAIN barrelInfos' : i # j => barrelInfos'[i] # barrelInfos'[j]
  BY <1>2, <1>4, <1>5, <1>7
<1>9. /\ DOMAIN barrels' = DOMAIN barrels \cup {new}
      /\ \A b \in DOMAIN barrels : barrels'[b] = IF b \in mq THEN [barrels[b] EXCEPT !.docs = {}] ELSE barrels[b]
      /\ barrels'[new] = Merged
  BY NewBarrelInfo DEF RemovedByMerge
<1>10. \A b \in DOMAIN barrels : barrels'[b].inMemory = barrels[b].inMemory /\ (b \notin mq => barrels'[b].docs = barrels[b].docs)
  <2>. TAKE b \in DOMAIN barrels
  <2>1. barrels[b] \in Barrel
    BY BarrelOf
  <2>. QED  BY <1>9, <2>1 DEF Barrel
<1>. QED  BY <1>2, <1>4, <1>6, <1>8, <1>9, <1>10 DEF Merged

\* Every step keeps the invariant.
LEMMA IndexInvStep ==
  ASSUME IsAsync \/ ~UseAddMerger, IndexInv, [Next]_vars
  PROVE  BarrelInv' /\ DocInv' /\ LayerInv' /\ HandoverInv' /\ MergerInv'
<1>. USE DEF btvars, indexVars, filterVars, readerVars, lockVars, writerVars, mergerVars, countVars
<1>a. /\ Typing /\ TypeOK /\ BarrelTypes /\ DocTypes /\ FlagTypes /\ ControlTypes
      /\ BarrelInv /\ DocInv /\ LayerInv /\ HandoverInv /\ MergerInv
  BY DEF IndexInv, Typing, TypeOK
<1>b. /\ Len(barrels) \in Nat /\ DOMAIN barrels = 1 .. Len(barrels) /\ Live \subseteq DOMAIN barrels
      /\ mq \subseteq DOMAIN barrels /\ cur \in {0} \cup DOMAIN barrels /\ mentry \in {0} \cup DOMAIN barrels
      /\ \A l \in Levels : queue[l] \subseteq DOMAIN barrels
  BY <1>a, LiveFinite DEF BarrelTypes
<1>1. CASE SearchGetIndexReader
  BY <1>a, <1>1 DEF SearchGetIndexReader, BarrelInv, DocInv, LayerInv, HandoverInv, MergerInv, DocsInOneBarrel, Live, Written, Optimizing, Merging
<1>2. CASE SearchGetTermReader
  BY <1>a, <1>2 DEF SearchGetTermReader, BarrelInv, DocInv, LayerInv, HandoverInv, MergerInv, DocsInOneBarrel, Live, Written, Optimizing, Merging
<1>3. ASSUME NEW old \in {0} \cup Docs, InsertDocument(old) PROVE BarrelInv' /\ DocInv' /\ LayerInv' /\ HandoverInv' /\ MergerInv'
  <2>1. CASE cur # 0
    BY <1>a, <1>3, <2>1 DEF InsertDocument, BarrelInv, DocInv, LayerInv, HandoverInv, MergerInv, DocsInOneBarrel, Live, Written, Optimizing, Merging
  <2>2. CASE cur = 0
    <3>1. createBarrelInfo
      BY <1>3, <2>2 DEF InsertDocument
    <3>. DEFINE new == Len(barrels) + 1
    <3>2. /\ DOMAIN barrels' = DOMAIN barrels \cup {new} /\ new \notin DOMAIN barrels
          /\ \A b \in DOMAIN barrels : barrels'[b] = barrels[b]
          /\ barrels'[new].docs = {} /\ barrels'[new].inMemory
          /\ Live' = Live \cup {new} /\ cur' = new /\ nextDoc' = nextDoc
          /\ \A i, j \in DOMAIN barrelInfos' : i # j => barrelInfos'[i] # barrelInfos'[j]
      BY <1>a, <3>1, CreatedBarrel DEF BarrelInv
    <3>3. /\ UNCHANGED <<queue, btpc, pLevel1, tasks, mpc, mjob, mentry, mq, mout>>
          /\ wpc = "idle" /\ wpc' \in {"ins_realtime", "ins_base"}
      BY <1>3 DEF InsertDocument
    <3>. HIDE DEF new
    <3>4. BarrelInv'
      BY <1>a, <1>b, <3>2, <3>3 DEF BarrelInv, Written
    <3>5. DocInv'
      BY <1>a, <1>b, <3>2, <3>3 DEF DocInv, DocsInOneBarrel
    <3>6. LayerInv'
      BY <1>a, <1>b, <3>2, <3>3 DEF LayerInv, Optimizing, Merging
    <3>7. HandoverInv'
      BY <1>a, <1>b, <3>2, <3>3 DEF HandoverInv
    <3>8. MergerInv'
      BY <1>a, <1>b, <3>2, <3>3 DEF MergerInv, Merging
    <3>. QED  BY <3>4, <3>5, <3>6, <3>7, <3>8
  <2>. QED  BY <2>1, <2>2
<1>4. CASE InsertRealTime
  BY <1>a, <1>4 DEF InsertRealTime, BarrelInv, DocInv, LayerInv, HandoverInv, MergerInv, DocsInOneBarrel, Live, Written, Optimizing, Merging
<1>5. CASE InsertCreateBarrel
  <2>1. createBarrelInfo
    BY <1>5 DEF InsertCreateBarrel
  <2>. DEFINE new == Len(barrels) + 1
  <2>2. /\ DOMAIN barrels' = DOMAIN barrels \cup {new} /\ new \notin DOMAIN barrels
        /\ \A b \in DOMAIN barrels : barrels'[b] = barrels[b]
        /\ barrels'[new].docs = {} /\ barrels'[new].inMemory
        /\ Live' = Live \cup {new} /\ cur' = new /\ nextDoc' = nextDoc
        /\ \A i, j \in DOMAIN barrelInfos' : i # j => barrelInfos'[i] # barrelInfos'[j]
    BY <1>a, <2>1, CreatedBarrel DEF BarrelInv
  <2>3. /\ UNCHANGED <<queue, btpc, pLevel1, tasks, mpc, mjob, mentry, mq, mout>>
        /\ wpc = "ins_create" /\ wpc' = "ins_base"
    BY <1>5 DEF InsertCreateBarrel
  <2>. HIDE DEF new
  <2>4. BarrelInv'
    BY <1>a, <1>b, <2>2, <2>3 DEF BarrelInv, Written
  <2>5. DocInv'
    BY <1>a, <1>b, <2>2, <2>3 DEF DocInv, DocsInOneBarrel
  <2>6. LayerInv'
    BY <1>a, <1>b, <2>2, <2>3 DEF LayerInv, Optimizing, Merging
  <2>7. HandoverInv'
    BY <1>a, <1>b, <2>2, <2>3 DEF HandoverInv
  <2>8. MergerInv'
    BY <1>a, <1>b, <2>2, <2>3 DEF MergerInv, Merging
  <2>. QED  BY <2>4, <2>5, <2>6, <2>7, <2>8
<1>6. CASE InsertBaseDocID
  <2>1. cur \in DOMAIN barrels
    BY <1>a, <1>b, <1>6 DEF InsertBaseDocID, Typing
  <2>2. DOMAIN barrels' = DOMAIN barrels /\ UNCHANGED <<barrelInfos, nextDoc, cur, queue, btpc, pLevel1, tasks, mpc, mjob, mentry, mq, mout>>
    BY <1>a, <1>6 DEF InsertBaseDocID, BarrelTypes
  <2>3. \A b \in DOMAIN barrels : barrels'[b].docs = barrels[b].docs
    <3>. TAKE b \in DOMAIN barrels
    <3>1. barrels[b] \in Barrel
      BY <1>a, BarrelOf
    <3>. QED  BY <1>a, <1>6, <2>1, <3>1 DEF InsertBaseDocID, BarrelTypes, Barrel
  <2>4. \A b \in DOMAIN barrels : barrels'[b].inMemory = barrels[b].inMemory
    <3>. TAKE b \in DOMAIN barrels
    <3>1. barrels[b] \in Barrel
      BY <1>a, BarrelOf
    <3>. QED  BY <1>a, <1>6, <2>1, <3>1 DEF InsertBaseDocID, BarrelTypes, Barrel
  <2>5. Live' = Live
    BY <2>2 DEF Live
  <2>6. wpc = "ins_base" /\ wpc' = "ins_count"
    BY <1>6 DEF InsertBaseDocID
  <2>7. BarrelInv'
    BY <1>a, <1>b, <2>1, <2>2, <2>3, <2>4, <2>5, <2>6 DEF BarrelInv, Written
  <2>8. DocInv'
    BY <1>a, <1>b, <2>1, <2>2, <2>3, <2>4, <2>5, <2>6 DEF DocInv, DocsInOneBarrel, DocTypes
  <2>9. LayerInv'
    BY <1>a, <1>b, <2>1, <2>2, <2>3, <2>4, <2>5, <2>6 DEF LayerInv, Optimizing, Merging
  <2>10. HandoverInv'
    BY <1>a, <1>b, <2>1, <2>2, <2>3, <2>4, <2>5, <2>6 DEF HandoverInv
  <2>11. MergerInv'
    BY <1>a, <1>b, <2>1, <2>2, <2>3, <2>4, <2>5, <2>6 DEF MergerInv, Merging
  <2>. QED  BY <2>7, <2>8, <2>9, <2>10, <2>11
<1>7. CASE InsertAddDocument
  <2>1. cur \in DOMAIN barrels
    BY <1>a, <1>b, <1>7 DEF InsertAddDocument, Typing
  <2>2. DOMAIN barrels' = DOMAIN barrels /\ nextDoc' = nextDoc + 1 /\ UNCHANGED <<barrelInfos, cur, queue, btpc, pLevel1, tasks, mpc, mjob, mentry, mq, mout>>
    BY <1>a, <1>7 DEF InsertAddDocument, BarrelTypes
  <2>3. \A b \in DOMAIN barrels : barrels'[b].docs = IF b = cur THEN barrels[b].docs \cup {nextDoc} ELSE barrels[b].docs
    <3>. TAKE b \in DOMAIN barrels
    <3>1. barrels[b] \in Barrel
      BY <1>a, BarrelOf
    <3>. QED  BY <1>a, <1>7, <2>1, <3>1 DEF InsertAddDocument, BarrelTypes, Barrel
  <2>4. \A b \in DOMAIN barrels : barrels'[b].inMemory = barrels[b].inMemory
    <3>. TAKE b \in DOMAIN barrels
    <3>1. barrels[b] \in Barrel
      BY <1>a, BarrelOf
    <3>. QED  BY <1>a, <1>7, <2>1, <3>1 DEF InsertAddDocument, BarrelTypes, Barrel
  <2>5. Live' = Live
    BY <2>2 DEF Live
  <2>6. wpc = "ins_count" /\ wpc' \in {"idle", "rem_test"}
    BY <1>7 DEF InsertAddDocument
  <2>7. BarrelInv'
    BY <1>a, <1>b, <2>1, <2>2, <2>3, <2>4, <2>5, <2>6 DEF BarrelInv, Written
  <2>8. DocInv'
    <3>1. nextDoc \in Nat /\ \A b \in Live : \A d \in barrels[b].docs : d \in Nat /\ d < nextDoc
      <4>1. \A b \in Live : barrels[b].docs \subseteq Docs
        BY <1>a, <1>b, BarrelOf
      <4>. QED  BY <1>a, <4>1 DEF DocInv, DocTypes, Docs
    <3>2. \A b \in Live : \A d \in barrels'[b].docs : d < nextDoc'
      <4>. SUFFICES ASSUME NEW b \in Live, NEW d \in barrels'[b].docs PROVE d < nextDoc'
        OBVIOUS
      <4>1. d \in barrels[b].docs \/ d = nextDoc
        BY <1>b, <2>3
      <4>. QED  BY <2>2, <3>1, <4>1
    <3>3. \A b \in Live : nextDoc \notin barrels[b].docs
      BY <3>1
    <3>4. \A b, c \in Live : b # c => barrels'[b].docs \cap barrels'[c].docs = {}
      BY <1>a, <1>b, <2>3, <3>3 DEF DocInv, DocsInOneBarrel
    <3>. QED  BY <2>5, <3>2, <3>4 DEF DocInv, DocsInOneBarrel
  <2>9. LayerInv'
    BY <1>a, <1>b, <2>1, <2>2, <2>3, <2>4, <2>5, <2>6 DEF LayerInv, Optimizing, Merging
  <2>10. HandoverInv'
    BY <1>a, <1>b, <2>1, <2>2, <2>3, <2>4, <2>5, <2>6 DEF HandoverInv
  <2>11. MergerInv'
    BY <1>a, <1>b, <2>1, <2>2, <2>3, <2>4, <2>5, <2>6 DEF BarrelInv, Written, MergerInv, Merging
  <2>. QED  BY <2>7, <2>8, <2>9, <2>10, <2>11
<1>8. ASSUME NEW d \in Docs, RemoveDocument(d) PROVE BarrelInv' /\ DocInv' /\ LayerInv' /\ HandoverInv' /\ MergerInv'
  BY <1>a, <1>8 DEF RemoveDocument, BarrelInv, DocInv, LayerInv, HandoverInv, MergerInv, DocsInOneBarrel, Live, Written, Optimizing, Merging
<1>9. CASE RemoveTestFilter
  BY <1>a, <1>9 DEF RemoveTestFilter, WriterReturns, BarrelInv, DocInv, LayerInv, HandoverInv, MergerInv, DocsInOneBarrel, Live, Written, Optimizing, Merging
<1>10. CASE RemoveCountDown
  BY <1>a, <1>10 DEF RemoveCountDown, WriterReturns, BarrelInv, DocInv, LayerInv, HandoverInv, MergerInv, DocsInOneBarrel, Live, Written, Optimizing, Merging
<1>11. CASE RemoveSetBit
  BY <1>a, <1>11 DEF RemoveSetBit, WriterReturns, BarrelInv, DocInv, LayerInv, HandoverInv, MergerInv, DocsInOneBarrel, Live, Written, Optimizing, Merging
<1>12. CASE Flush
  BY <1>a, <1>12 DEF Flush, BarrelInv, DocInv, LayerInv, HandoverInv, MergerInv, DocsInOneBarrel, Live, Written, Optimizing, Merging
<1>13. CASE FlushWrite
  <2>1. cur \in DOMAIN barrels
    BY <1>a, <1>b, <1>13 DEF FlushWrite, Typing
  <2>2. DOMAIN barrels' = DOMAIN barrels /\ UNCHANGED <<barrelInfos, nextDoc, cur, queue, btpc, pLevel1, tasks, mpc, mjob, mentry, mq, mout>>
    BY <1>a, <1>13 DEF FlushWrite, BarrelTypes
  <2>3. \A b \in DOMAIN barrels : barrels'[b].docs = barrels[b].docs
    <3>. TAKE b \in DOMAIN barrels
    <3>1. barrels[b] \in Barrel
      BY <1>a, BarrelOf
    <3>. QED  BY <1>a, <1>13, <2>1, <3>1 DEF FlushWrite, BarrelTypes, Barrel
  <2>4. \A b \in DOMAIN barrels : barrels'[b].inMemory = (barrels[b].inMemory /\ b # cur)
    <3>. TAKE b \in DOMAIN barrels
    <3>1. barrels[b] \in Barrel
      BY <1>a, BarrelOf
    <3>. QED  BY <1>a, <1>13, <2>1, <3>1 DEF FlushWrite, BarrelTypes, Barrel
  <2>5. Live' = Live
    BY <2>2 DEF Live
  <2>6. wpc = "fl_write" /\ wpc' = "fl_searchable"
    BY <1>13 DEF FlushWrite
  <2>7. BarrelInv'
    BY <1>a, <1>b, <2>1, <2>2, <2>3, <2>4, <2>5, <2>6 DEF BarrelInv, Written
  <2>8. DocInv'
    BY <1>a, <1>b, <2>1, <2>2, <2>3, <2>4, <2>5, <2>6 DEF DocInv, DocsInOneBarrel, DocTypes
  <2>9. LayerInv'
    BY <1>a, <1>b, <2>1, <2>2, <2>3, <2>4, <2>5, <2>6 DEF LayerInv, Optimizing, Merging
  <2>10. HandoverInv'
    BY <1>a, <1>b, <2>1, <2>2, <2>3, <2>4, <2>5, <2>6 DEF HandoverInv
  <2>11. MergerInv'
    BY <1>a, <1>b, <2>1, <2>2, <2>3, <2>4, <2>5, <2>6 DEF MergerInv, Merging
  <2>. QED  BY <2>7, <2>8, <2>9, <2>10, <2>11
<1>14. CASE FlushSetSearchable
  <2>1. cur \in DOMAIN barrels
    BY <1>a, <1>b, <1>14 DEF FlushSetSearchable, Typing
  <2>2. DOMAIN barrels' = DOMAIN barrels /\ UNCHANGED <<barrelInfos, nextDoc, cur, queue, btpc, pLevel1, tasks, mpc, mjob, mentry, mq, mout>>
    BY <1>a, <1>14 DEF FlushSetSearchable, BarrelTypes
  <2>3. \A b \in DOMAIN barrels : barrels'[b].docs = barrels[b].docs
    <3>. TAKE b \in DOMAIN barrels
    <3>1. barrels[b] \in Barrel
      BY <1>a, BarrelOf
    <3>. QED  BY <1>a, <1>14, <2>1, <3>1 DEF FlushSetSearchable, BarrelTypes, Barrel
  <2>4. \A b \in DOMAIN barrels : barrels'[b].inMemory = barrels[b].inMemory
    <3>. TAKE b \in DOMAIN barrels
    <3>1. barrels[b] \in Barrel
      BY <1>a, BarrelOf
    <3>. QED  BY <1>a, <1>14, <2>1, <3>1 DEF FlushSetSearchable, BarrelTypes, Barrel
  <2>5. Live' = Live
    BY <2>2 DEF Live
  <2>6. wpc = "fl_searchable" /\ wpc' = "fl_reopen"
    BY <1>14 DEF FlushSetSearchable
  <2>7. BarrelInv'
    BY <1>a, <1>b, <2>1, <2>2, <2>3, <2>4, <2>5, <2>6 DEF BarrelInv, Written
  <2>8. DocInv'
    BY <1>a, <1>b, <2>1, <2>2, <2>3, <2>4, <2>5, <2>6 DEF DocInv, DocsInOneBarrel, DocTypes
  <2>9. LayerInv'
    BY <1>a, <1>b, <2>1, <2>2, <2>3, <2>4, <2>5, <2>6 DEF LayerInv, Optimizing, Merging
  <2>10. HandoverInv'
    BY <1>a, <1>b, <2>1, <2>2, <2>3, <2>4, <2>5, <2>6 DEF HandoverInv
  <2>11. MergerInv'
    BY <1>a, <1>b, <2>1, <2>2, <2>3, <2>4, <2>5, <2>6 DEF MergerInv, Merging
  <2>. QED  BY <2>7, <2>8, <2>9, <2>10, <2>11
<1>15. CASE FlushReopen
  BY <1>a, <1>15 DEF FlushReopen, BarrelInv, DocInv, LayerInv, HandoverInv, MergerInv, DocsInOneBarrel, Live, Written, Optimizing, Merging
<1>16. CASE FlushAddToMerge
  <2>1. cur \in DOMAIN barrels /\ ~barrels[cur].inMemory
    BY <1>a, <1>b, <1>16 DEF FlushAddToMerge, Typing, BarrelInv, Written
  <2>3. BarrelInv' /\ DocInv' /\ LayerInv'
    BY <1>a, <1>16 DEF FlushAddToMerge, StartAdd, BarrelInv, DocInv, DocsInOneBarrel, LayerInv, Live, Written, Optimizing, Merging
  <2>4. HandoverInv'
    <3>1. CASE IsAsync
      <4>1. tasks' = Append(tasks, ADD_BARREL(cur)) /\ tasks \in Seq(Task)
        BY <1>a, <1>16, <3>1 DEF FlushAddToMerge, ControlTypes
      <4>2. ADD_BARREL(cur).b = cur
        BY DEF ADD_BARREL
      <4>3. \A i \in DOMAIN tasks' :
              \/ i \in DOMAIN tasks /\ tasks'[i] = tasks[i]
              \/ i = Len(tasks) + 1 /\ tasks'[i].b = cur
        BY <4>1, <4>2
      <4>4. UNCHANGED <<barrels, barrelInfos, cur, queue, mpc, mentry>> /\ wpc = "fl_add" /\ wpc' = "fl_end"
        BY <1>16, <3>1 DEF FlushAddToMerge
      <4>. QED  BY <1>a, <1>b, <2>1, <4>3, <4>4 DEF HandoverInv, Live
    <3>2. CASE ~IsAsync
      BY <1>a, <1>b, <1>16, <2>1, <3>2 DEF FlushAddToMerge, HandoverInv, MergerInv, Live
    <3>. QED  BY <3>1, <3>2
  <2>5. MergerInv'
    BY <1>a, <1>16 DEF FlushAddToMerge, StartAdd, MergerInv, Live, Merging
  <2>. QED  BY <2>3, <2>4, <2>5
<1>17. CASE FlushEnd
  <2>1. wret \in {"idle", "fl_dirty", "ins_create", "opt_push"}
    BY <1>a DEF ControlTypes
  <2>. QED  BY <1>a, <1>17, <2>1 DEF FlushEnd, MergerReturned, BarrelInv, DocInv, LayerInv, HandoverInv, MergerInv, DocsInOneBarrel, Live, Written, Optimizing, Merging
<1>18. CASE FlushSetDirty
  BY <1>a, <1>18 DEF FlushSetDirty, BarrelInv, DocInv, LayerInv, HandoverInv, MergerInv, DocsInOneBarrel, Live, Written, Optimizing, Merging
<1>19. CASE FlushDocFilter
  BY <1>a, <1>19 DEF FlushDocFilter, WriterReturns, BarrelInv, DocInv, LayerInv, HandoverInv, MergerInv, DocsInOneBarrel, Live, Written, Optimizing, Merging
<1>20. CASE OptimizeIndex
  BY <1>a, <1>20 DEF OptimizeIndex, BarrelInv, DocInv, LayerInv, HandoverInv, MergerInv, DocsInOneBarrel, Live, Written, Optimizing, Merging
<1>21. CASE OptimizePush
  BY <1>a, <1>21 DEF OptimizePush, StartOptimize, OPTIMIZE_ALL, BarrelInv, DocInv, LayerInv, HandoverInv, MergerInv, DocsInOneBarrel, Live, Written, Optimizing, Merging
<1>22. CASE OptimizeReturn
  BY <1>a, <1>22 DEF OptimizeReturn, WriterReturns, MergerReturned, BarrelInv, DocInv, LayerInv, HandoverInv, MergerInv, DocsInOneBarrel, Live, Written, Optimizing, Merging
<1>23. CASE Close
  BY <1>a, <1>23 DEF Close, BarrelInv, DocInv, LayerInv, HandoverInv, MergerInv, DocsInOneBarrel, Live, Written, Optimizing, Merging
<1>24. CASE CloseLock
  BY <1>a, <1>24 DEF CloseLock, EXIT_MERGE, BarrelInv, DocInv, LayerInv, HandoverInv, MergerInv, DocsInOneBarrel, Live, Written, Optimizing, Merging
<1>25. CASE CloseJoin
  BY <1>a, <1>25 DEF CloseJoin, BarrelInv, DocInv, LayerInv, HandoverInv, MergerInv, DocsInOneBarrel, Live, Written, Optimizing, Merging
<1>26. CASE WaitForMergeFinish
  <2>1. IsAsync /\ tasks' = Append(tasks, EXIT_MERGE) /\ IsSequence(tasks)
    BY <1>a, <1>26, SequenceOfValues DEF WaitForMergeFinish, ControlTypes
  <2>2. /\ DOMAIN tasks' = DOMAIN tasks \cup {Len(tasks) + 1} /\ Len(tasks) + 1 \notin DOMAIN tasks
        /\ \A i \in DOMAIN tasks : tasks'[i] = tasks[i]
        /\ tasks'[Len(tasks) + 1].op # "add"
    BY <2>1, AppendedTo DEF EXIT_MERGE
  <2>3. UNCHANGED <<barrels, barrelInfos, nextDoc, cur, queue, btpc, pLevel1, wpc, mpc, mjob, mentry, mq, mout>>
    BY <1>26 DEF WaitForMergeFinish
  <2>4. BarrelInv' /\ DocInv' /\ LayerInv'
    BY <1>a, <2>3 DEF BarrelInv, DocInv, LayerInv, DocsInOneBarrel, Live, Written, Optimizing, Merging
  <2>5. HandoverInv'
    BY <1>a, <2>2, <2>3 DEF HandoverInv, Live
  <2>6. MergerInv'
    BY <1>a, <2>1, <2>3 DEF MergerInv, Live, Merging
  <2>. QED  BY <2>4, <2>5, <2>6
<1>27. CASE WaitJoin
  BY <1>a, <1>27 DEF WaitJoin, BarrelInv, DocInv, LayerInv, HandoverInv, MergerInv, DocsInOneBarrel, Live, Written, Optimizing, Merging
<1>28. CASE PauseMerge
  BY <1>a, <1>28 DEF PauseMerge, BarrelInv, DocInv, LayerInv, HandoverInv, MergerInv, DocsInOneBarrel, Live, Written, Optimizing, Merging
<1>29. CASE ResumeMerge
  BY <1>a, <1>29 DEF ResumeMerge, BarrelInv, DocInv, LayerInv, HandoverInv, MergerInv, DocsInOneBarrel, Live, Written, Optimizing, Merging
<1>30. CASE PopAdd
  <2>1. \A i \in DOMAIN tasks' : i + 1 \in DOMAIN tasks /\ tasks'[i] = tasks[i + 1]
    BY <1>a, <1>30 DEF PopAdd, ControlTypes
  <2>2. Head(tasks) = tasks[1] /\ 1 \in DOMAIN tasks /\ DOMAIN tasks \subseteq Int /\ DOMAIN tasks' \subseteq Nat \ {0}
    BY <1>a, <1>30 DEF PopAdd, ControlTypes
  <2>3. BarrelInv' /\ DocInv'
    BY <1>a, <1>30 DEF PopAdd, StartAdd, BarrelInv, DocInv, DocsInOneBarrel, Live, Written
  <2>4. LayerInv'
    BY <1>a, <1>30 DEF PopAdd, StartAdd, LayerInv, Live, Optimizing, Merging
  <2>5. HandoverInv'
    BY <1>a, <1>b, <1>30, <2>1, <2>2 DEF PopAdd, StartAdd, HandoverInv, Live
  <2>6. MergerInv'
    BY <1>a, <1>b, <1>30 DEF PopAdd, StartAdd, MergerInv, Live, Merging
  <2>. QED  BY <2>3, <2>4, <2>5, <2>6
<1>31. CASE PopOptimize
  <2>1. \A i \in DOMAIN tasks' : i + 1 \in DOMAIN tasks /\ tasks'[i] = tasks[i + 1]
    BY <1>a, <1>31 DEF PopOptimize, ControlTypes
  <2>2. Head(tasks) = tasks[1] /\ 1 \in DOMAIN tasks /\ DOMAIN tasks \subseteq Int /\ DOMAIN tasks' \subseteq Nat \ {0}
    BY <1>a, <1>31 DEF PopOptimize, ControlTypes
  <2>3. BarrelInv' /\ DocInv'
    BY <1>a, <1>31 DEF PopOptimize, StartOptimize, BarrelInv, DocInv, DocsInOneBarrel, Live, Written
  <2>4. LayerInv'
    BY <1>a, <1>31 DEF PopOptimize, StartOptimize, LayerInv, Live, Optimizing, Merging
  <2>5. HandoverInv'
    BY <1>a, <1>b, <1>31, <2>1, <2>2 DEF PopOptimize, StartOptimize, HandoverInv, Live
  <2>6. MergerInv'
    BY <1>a, <1>b, <1>31 DEF PopOptimize, StartOptimize, MergerInv, Live, Merging
  <2>. QED  BY <2>3, <2>4, <2>5, <2>6
<1>32. CASE PopExit
  <2>1. \A i \in DOMAIN tasks' : i + 1 \in DOMAIN tasks /\ tasks'[i] = tasks[i + 1]
    BY <1>a, <1>32 DEF PopExit, ControlTypes
  <2>2. Head(tasks) = tasks[1] /\ 1 \in DOMAIN tasks /\ DOMAIN tasks \subseteq Int /\ DOMAIN tasks' \subseteq Nat \ {0}
    BY <1>a, <1>32 DEF PopExit, ControlTypes
  <2>3. BarrelInv' /\ DocInv'
    BY <1>a, <1>32 DEF PopExit, BarrelInv, DocInv, DocsInOneBarrel, Live, Written
  <2>4. LayerInv'
    BY <1>a, <1>32 DEF PopExit, LayerInv, Live, Optimizing, Merging
  <2>5. HandoverInv'
    BY <1>a, <1>b, <1>32, <2>1, <2>2 DEF PopExit, HandoverInv, Live
  <2>6. MergerInv'
    BY <1>a, <1>b, <1>32 DEF PopExit, MergerInv, Live, Merging
  <2>. QED  BY <2>3, <2>4, <2>5, <2>6
<1>33. CASE AddToPolicy
  <2>. DEFINE l0 == getLevel(nNumDocs[mentry])
  <2>1. l0 \in Levels /\ mentry # 0 /\ mpc = "add" /\ mentry' = 0 /\ mpc' \in {"policy", "sort", "pop"}
    BY <1>a, <1>33, getLevelType DEF AddToPolicy, Typing
  <2>2. \A l \in Levels : queue'[l] = IF l = l0 THEN queue[l] \cup {mentry} ELSE queue[l]
    BY <1>a, <1>33, <2>1 DEF AddToPolicy, addBarrel, BarrelTypes
  <2>. HIDE DEF l0
  <2>3. UNCHANGED <<barrels, barrelInfos, nextDoc, cur, tasks, mjob, mq, mout, wpc>> /\ Live' = Live
    BY <1>33 DEF AddToPolicy, Live
  <2>4. BarrelInv' /\ DocInv'
    BY <1>a, <2>3 DEF BarrelInv, DocInv, DocsInOneBarrel, Live, Written
  <2>5. LayerInv'
    <3>1. mentry \in Live /\ ~barrels[mentry].inMemory /\ (\A l \in Levels : mentry \notin queue[l]) /\ UseAddMerger
      BY <1>a, <2>1 DEF HandoverInv, MergerInv
    <3>2. \A k, l \in Levels : k # l => queue'[k] \cap queue'[l] = {}
      BY <1>a, <2>2, <3>1 DEF LayerInv
    <3>3. \A l \in Levels : \A b \in queue'[l] : b \in Live' /\ ~barrels'[b].inMemory
      BY <1>a, <2>2, <2>3, <3>1 DEF LayerInv
    <3>. QED  BY <2>1, <3>1, <3>2, <3>3 DEF LayerInv, Optimizing, Merging
  <2>6. HandoverInv'
    <3>1. \A b : b # mentry /\ (\A l \in Levels : b \notin queue[l]) => \A l \in Levels : b \notin queue'[l]
      BY <2>2
    <3>2. \A i \in DOMAIN tasks : tasks[i].op = "add" => tasks[i].b # 0
      BY <1>a, <1>b DEF HandoverInv
    <3>3. cur' # 0 /\ wpc' # "fl_end" => cur' # mentry' /\ \A l \in Levels : cur' \notin queue'[l]
      BY <1>a, <2>1, <2>3, <3>1 DEF HandoverInv
    <3>4. \A i \in DOMAIN tasks : tasks[i].op = "add" => \A l \in Levels : tasks[i].b \notin queue'[l]
      BY <1>a, <3>1 DEF HandoverInv
    <3>. QED  BY <1>a, <2>1, <2>3, <3>2, <3>3, <3>4 DEF HandoverInv
  <2>7. MergerInv'
    BY <1>a, <2>1, <2>3 DEF MergerInv, Live, Merging
  <2>. QED  BY <2>4, <2>5, <2>6, <2>7
<1>34. CASE PolicyStep
  <2>1. triggerMerge(baseDocID) /\ mpc = "policy"
    BY <1>34 DEF PolicyStep
  <2>2. UNCHANGED <<barrels, barrelInfos, nextDoc, cur, tasks, mpc, mjob, mentry, mq, mout, wpc>>
    BY <1>34 DEF PolicyStep
  <2>3. /\ \A k, l \in Levels : k # l => queue'[k] \cap queue'[l] = {}
        /\ \A l \in Levels : \A b \in queue'[l] : \E k \in Levels : b \in queue[k]
    BY <1>a, <2>1, TriggerMergeLayers DEF LayerInv
  <2>4. BarrelInv' /\ DocInv'
    BY <1>a, <2>2 DEF BarrelInv, DocInv, DocsInOneBarrel, Live, Written
  <2>5. LayerInv'
    BY <1>a, <2>1, <2>2, <2>3 DEF LayerInv, MergerInv, Live, Optimizing, Merging
  <2>6. HandoverInv'
    BY <1>a, <2>2, <2>3 DEF HandoverInv, Live
  <2>7. MergerInv'
    BY <1>a, <2>1, <2>2 DEF MergerInv, Live, Merging
  <2>. QED  BY <2>4, <2>5, <2>6, <2>7
<1>35. CASE PolicyMerge
  <2>1. pLevel1 \in Levels /\ mjob = "add" /\ UseAddMerger
    BY <1>a, <1>35 DEF PolicyMerge, MergerInv, ControlTypes
  <2>. QED  BY <1>a, <1>35, <2>1 DEF PolicyMerge, BarrelInv, DocInv, LayerInv, HandoverInv, MergerInv, DocsInOneBarrel, Live, Written, Optimizing, Merging
<1>36. CASE OptimizeOpen
  BY <1>a, <1>36 DEF OptimizeOpen, BarrelInv, DocInv, LayerInv, HandoverInv, MergerInv, DocsInOneBarrel, Live, Written, Optimizing, Merging
<1>37. CASE OptimizeLock
  BY <1>a, <1>37 DEF OptimizeLock, BarrelInv, DocInv, LayerInv, HandoverInv, MergerInv, DocsInOneBarrel, Live, Written, Optimizing, Merging
<1>38. CASE OptimizeSnapshot
  BY <1>a, <1>38 DEF OptimizeSnapshot, BarrelInv, DocInv, LayerInv, HandoverInv, MergerInv, DocsInOneBarrel, Live, Written, Optimizing, Merging
<1>39. CASE OutputNewBarrel
  BY <1>a, <1>39 DEF OutputNewBarrel, BarrelInv, DocInv, LayerInv, HandoverInv, MergerInv, DocsInOneBarrel, Live, Written, Optimizing, Merging
<1>40. CASE CreateCheckPause
  BY <1>a, <1>40 DEF CreateCheckPause, BarrelInv, DocInv, LayerInv, HandoverInv, MergerInv, DocsInOneBarrel, Live, Written, Optimizing, Merging
<1>41. CASE CreateNewBarrelInfo
  <2>. DEFINE new == Len(barrels) + 1
  <2>1. /\ DOMAIN barrels' = DOMAIN barrels \cup {new} /\ new \notin DOMAIN barrels
        /\ \A b \in DOMAIN barrels : barrels'[b].inMemory = barrels[b].inMemory
        /\ \A b \in DOMAIN barrels \ mq : barrels'[b].docs = barrels[b].docs
        /\ barrels'[new].docs = mout /\ ~barrels'[new].inMemory
        /\ Live' = (Live \ mq) \cup {new}
        /\ \A i, j \in DOMAIN barrelInfos' : i # j => barrelInfos'[i] # barrelInfos'[j]
    BY <1>a, <1>41, ReplacedBarrels
  <2>2. /\ mpc = "replace" /\ mq' = {} /\ UNCHANGED <<nextDoc, cur, tasks, mjob, wpc>>
        /\ mjob = "add" => mpc' = "add" /\ mentry' = new
        /\ mjob # "add" => mpc' = "opt_clear" /\ UNCHANGED <<mentry, queue>>
    BY <1>41 DEF CreateNewBarrelInfo
  <2>3. mjob = "add" => \A l \in Levels : queue'[l] = IF l = pLevel1 THEN {} ELSE queue[l]
    BY <1>a, <1>41 DEF CreateNewBarrelInfo, ClearMerged, BarrelTypes
  <2>4. /\ mjob \in {"add", "optimize"} /\ pLevel1 \in Levels /\ mentry = 0 /\ mpc # "pop" /\ cur \notin {new}
        /\ mjob = "add" => mq = queue[pLevel1] /\ UseAddMerger
        /\ mjob = "optimize" => \A l \in Levels : queue[l] = {}
    BY <1>a, <1>b, <2>1, <2>2 DEF HandoverInv, MergerInv, LayerInv, Optimizing, Merging, ControlTypes
  <2>. HIDE DEF new
  <2>5. BarrelInv'
    BY <1>a, <1>b, <2>1, <2>2 DEF BarrelInv, MergerInv, Written, Typing
  <2>6. DocInv'
    <3>1. \A d \in mout : \E b \in mq : b \in Live /\ d \in barrels[b].docs
      BY <1>a, <2>2 DEF MergerInv
    <3>. QED  BY <1>a, <1>b, <2>1, <2>2, <3>1 DEF DocInv, DocsInOneBarrel
  <2>7. LayerInv'
    <3>1. CASE mjob = "add"
      BY <1>a, <1>b, <2>1, <2>2, <2>3, <2>4, <3>1 DEF LayerInv, Optimizing, Merging
    <3>2. CASE mjob = "optimize"
      BY <1>a, <2>2, <2>4, <3>2 DEF LayerInv, Optimizing, Merging
    <3>. QED  BY <2>4, <3>1, <3>2
  <2>8. HandoverInv'
    <3>1. CASE mjob = "add"
      BY <1>a, <1>b, <2>1, <2>2, <2>3, <2>4, <3>1 DEF HandoverInv
    <3>2. CASE mjob = "optimize"
      BY <1>a, <1>b, <2>1, <2>2, <2>4, <3>2 DEF HandoverInv
    <3>. QED  BY <2>4, <3>1, <3>2
  <2>9. MergerInv'
    BY <1>a, <2>2, <2>4 DEF MergerInv, Merging
  <2>. QED  BY <2>5, <2>6, <2>7, <2>8, <2>9
<1>42. CASE OptimizeDelDocFilter
  BY <1>a, <1>42 DEF OptimizeDelDocFilter, BarrelInv, DocInv, LayerInv, HandoverInv, MergerInv, DocsInOneBarrel, Live, Written, Optimizing, Merging
<1>43. CASE UpdateBarrelsSort
  <2>1. Live' = Live /\ \A i, j \in DOMAIN barrelInfos' : i # j => barrelInfos'[i] # barrelInfos'[j]
    BY <1>a, <1>43, SortTypes
  <2>2. mpc = "sort" /\ mpc' = "dirty" /\ UNCHANGED <<barrels, nextDoc, cur, queue, btpc, pLevel1, tasks, mjob, mentry, mq, mout, wpc>>
    BY <1>43 DEF UpdateBarrelsSort
  <2>. QED  BY <1>a, <2>1, <2>2 DEF BarrelInv, DocInv, LayerInv, HandoverInv, MergerInv, DocsInOneBarrel, Written, Optimizing, Merging
<1>44. CASE UpdateBarrelsSetDirty
  BY <1>a, <1>44 DEF UpdateBarrelsSetDirty, BarrelInv, DocInv, LayerInv, HandoverInv, MergerInv, DocsInOneBarrel, Live, Written, Optimizing, Merging
<1>45. CASE OptimizeMaxDoc
  BY <1>a, <1>45 DEF OptimizeMaxDoc, BarrelInv, DocInv, LayerInv, HandoverInv, MergerInv, DocsInOneBarrel, Live, Written, Optimizing, Merging
<1>46. CASE OptimizeReopen
  BY <1>a, <1>46 DEF OptimizeReopen, BarrelInv, DocInv, LayerInv, HandoverInv, MergerInv, DocsInOneBarrel, Live, Written, Optimizing, Merging
<1>47. CASE UNCHANGED vars
  BY <1>a, <1>47 DEF vars, BarrelInv, DocInv, LayerInv, HandoverInv, MergerInv, DocsInOneBarrel, Live, Written, Optimizing, Merging
<1>. QED
  BY <1>1, <1>2, <1>3, <1>4, <1>5, <1>6, <1>7, <1>8, <1>9, <1>10, <1>11, <1>12, <1>13, <1>14, <1>15, <1>16, <1>17, <1>18, <1>19, <1>20, <1>21, <1>22, <1>23, <1>24, <1>25, <1>26, <1>27, <1>28, <1>29, <1>30, <1>31, <1>32, <1>33, <1>34, <1>35, <1>36, <1>37, <1>38, <1>39, <1>40, <1>41, <1>42, <1>43, <1>44, <1>45, <1>46, <1>47 DEF Next, WriterCall, WriterStep, MergerStep, SearchStep, Terminated

\* IndexInv holds throughout, when the add merger is renewed before every
\* optimization (isAsync_) or there is none.
LEMMA IndexInvariant ==
  ASSUME IsAsync \/ ~UseAddMerger
  PROVE  Spec => []IndexInv
<1>1. Init => IndexInv
  <2>. SUFFICES ASSUME Init PROVE IndexInv
    OBVIOUS
  <2>1. Typing
    BY TypingInit
  <2>2. BarrelInv /\ DocInv /\ LayerInv /\ HandoverInv /\ MergerInv
    BY DEF Init, BTInit, BarrelInv, DocInv, LayerInv, HandoverInv, MergerInv, DocsInOneBarrel, Live, Written, Optimizing, Merging
  <2>. QED  BY <2>1, <2>2 DEF IndexInv
<1>2. IndexInv /\ [Next]_vars => IndexInv'
  BY IndexInvStep, TypingStep DEF IndexInv
<1>. QED  BY <1>1, <1>2, PTL DEF Spec

\* No document is ever stored by two barrels of the index, however insertions,
\* flushes, merges and optimizations interleave.
THEOREM EachDocInOneBarrel ==
  ASSUME IsAsync \/ ~UseAddMerger
  PROVE  Spec => []DocsInOneBarrel
<1>1. IndexInv => DocsInOneBarrel
  BY DEF IndexInv, DocInv
<1>. QED  BY <1>1, IndexInvariant, PTL

\* The merge thread never opens a barrel that has left the index or is not on
\* disk yet: neither what it is merging nor what the policy keeps for later.
THEOREM MergerSafe ==
  ASSUME IsAsync \/ ~UseAddMerger
  PROVE  Spec => []MergerHoldsLiveBarrels
<1>1. IndexInv => MergerHoldsLiveBarrels
  BY DEF IndexInv, LayerInv, MergerInv, MergerHoldsLiveBarrels
<1>. QED  BY <1>1, IndexInvariant, PTL

------------------------------------------------------------------------------
(* Pausing *)

\* Between the wait of createNewBarrelInfo() and the removal of the barrels the
\* merger has pauseMergeMutex_, and merging is not paused.
PauseInv == mpc = "replace" => pauseLock /\ ~paused

\* Every step keeps it.
LEMMA PauseInvStep ==
  ASSUME PauseInv, [Next]_vars
  PROVE  PauseInv'
<1>. USE DEF PauseInv, btvars, indexVars, filterVars, readerVars, lockVars, writerVars, mergerVars, countVars
<1>1. CASE SearchStep
  BY <1>1 DEF SearchStep, SearchGetIndexReader, SearchGetTermReader
<1>2. ASSUME NEW old \in {0} \cup Docs, InsertDocument(old) PROVE PauseInv'
  BY <1>2 DEF InsertDocument
<1>3. CASE InsertRealTime \/ InsertCreateBarrel \/ InsertBaseDocID \/ InsertAddDocument
  BY <1>3 DEF InsertRealTime, InsertCreateBarrel, InsertBaseDocID, InsertAddDocument
<1>4. ASSUME NEW d \in Docs, RemoveDocument(d) PROVE PauseInv'
  BY <1>4 DEF RemoveDocument
<1>5. CASE RemoveTestFilter \/ RemoveCountDown \/ RemoveSetBit
  BY <1>5 DEF RemoveTestFilter, RemoveCountDown, RemoveSetBit
<1>6. CASE Flush \/ FlushWrite \/ FlushSetSearchable \/ FlushReopen \/ FlushEnd \/ FlushSetDirty \/ FlushDocFilter
  BY <1>6 DEF Flush, FlushWrite, FlushSetSearchable, FlushReopen, FlushEnd, FlushSetDirty, FlushDocFilter
<1>7. CASE FlushAddToMerge \/ OptimizePush
  BY <1>7 DEF FlushAddToMerge, OptimizePush, StartAdd, StartOptimize
<1>8. CASE OptimizeIndex \/ OptimizeReturn \/ Close \/ CloseLock \/ CloseJoin
  BY <1>8 DEF OptimizeIndex, OptimizeReturn, Close, CloseLock, CloseJoin
<1>9. CASE WaitForMergeFinish \/ WaitJoin
  BY <1>9 DEF WaitForMergeFinish, WaitJoin
<1>10. CASE PauseMerge \/ ResumeMerge
  BY <1>10 DEF PauseMerge, ResumeMerge
<1>11. CASE PopAdd \/ PopOptimize \/ PopExit
  BY <1>11 DEF PopAdd, PopOptimize, PopExit, StartAdd, StartOptimize
<1>12. CASE AddToPolicy \/ PolicyStep \/ PolicyMerge
  BY <1>12 DEF AddToPolicy, PolicyStep, PolicyMerge
<1>13. CASE OptimizeOpen \/ OptimizeLock \/ OptimizeSnapshot \/ OutputNewBarrel
  BY <1>13 DEF OptimizeOpen, OptimizeLock, OptimizeSnapshot, OutputNewBarrel
<1>14. CASE CreateCheckPause \/ CreateNewBarrelInfo
  BY <1>14 DEF CreateCheckPause, CreateNewBarrelInfo
<1>15. CASE OptimizeDelDocFilter \/ UpdateBarrelsSort \/ UpdateBarrelsSetDirty \/ OptimizeMaxDoc \/ OptimizeReopen
  BY <1>15 DEF OptimizeDelDocFilter, UpdateBarrelsSort, UpdateBarrelsSetDirty, OptimizeMaxDoc, OptimizeReopen
<1>16. CASE UNCHANGED vars
  BY <1>16 DEF vars
<1>. QED
  BY <1>1, <1>2, <1>3, <1>4, <1>5, <1>6, <1>7, <1>8, <1>9, <1>10, <1>11, <1>12, <1>13, <1>14, <1>15, <1>16 DEF Next, WriterCall, WriterStep, MergerStep, Terminated

\* Only createNewBarrelInfo() takes a barrel out of the index.
LEMMA LiveStep ==
  ASSUME BarrelTypes, [Next]_vars, ~(Live \subseteq Live')
  PROVE  CreateNewBarrelInfo
<1>. USE DEF btvars, indexVars, filterVars, readerVars, lockVars, writerVars, mergerVars, countVars
<1>a. barrelInfos' = barrelInfos => FALSE
  BY DEF Live
<1>b. createBarrelInfo => FALSE
  BY CreatedBarrel
<1>1. SearchStep => FALSE
  BY <1>a DEF SearchStep, SearchGetIndexReader, SearchGetTermReader
<1>2. ASSUME NEW old \in {0} \cup Docs, InsertDocument(old) PROVE FALSE
  BY <1>2, <1>a, <1>b DEF InsertDocument
<1>3. InsertRealTime \/ InsertCreateBarrel \/ InsertBaseDocID \/ InsertAddDocument => FALSE
  BY <1>a, <1>b DEF InsertRealTime, InsertCreateBarrel, InsertBaseDocID, InsertAddDocument
<1>4. ASSUME NEW d \in Docs, RemoveDocument(d) PROVE FALSE
  BY <1>4, <1>a DEF RemoveDocument
<1>5. RemoveTestFilter \/ RemoveCountDown \/ RemoveSetBit => FALSE
  BY <1>a DEF RemoveTestFilter, RemoveCountDown, RemoveSetBit
<1>6. Flush \/ FlushWrite \/ FlushSetSearchable \/ FlushReopen \/ FlushEnd \/ FlushSetDirty \/ FlushDocFilter => FALSE
  BY <1>a DEF Flush, FlushWrite, FlushSetSearchable, FlushReopen, FlushEnd, FlushSetDirty, FlushDocFilter
<1>7. FlushAddToMerge \/ OptimizePush => FALSE
  BY <1>a DEF FlushAddToMerge, OptimizePush
<1>8. OptimizeIndex \/ OptimizeReturn \/ Close \/ CloseLock \/ CloseJoin => FALSE
  BY <1>a DEF OptimizeIndex, OptimizeReturn, Close, CloseLock, CloseJoin
<1>9. WaitForMergeFinish \/ WaitJoin \/ PauseMerge \/ ResumeMerge => FALSE
  BY <1>a DEF WaitForMergeFinish, WaitJoin, PauseMerge, ResumeMerge
<1>10. PopAdd \/ PopOptimize \/ PopExit \/ AddToPolicy \/ PolicyStep \/ PolicyMerge => FALSE
  BY <1>a DEF PopAdd, PopOptimize, PopExit, AddToPolicy, PolicyStep, PolicyMerge
<1>11. OptimizeOpen \/ OptimizeLock \/ OptimizeSnapshot \/ OutputNewBarrel \/ CreateCheckPause => FALSE
  BY <1>a DEF OptimizeOpen, OptimizeLock, OptimizeSnapshot, OutputNewBarrel, CreateCheckPause
<1>12. UpdateBarrelsSort => FALSE
  BY SortTypes
<1>13. OptimizeDelDocFilter \/ UpdateBarrelsSetDirty \/ OptimizeMaxDoc \/ OptimizeReopen => FALSE
  BY <1>a DEF OptimizeDelDocFilter, UpdateBarrelsSetDirty, OptimizeMaxDoc, OptimizeReopen
<1>14. UNCHANGED vars => FALSE
  BY <1>a DEF vars
<1>. QED
  BY <1>1, <1>2, <1>3, <1>4, <1>5, <1>6, <1>7, <1>8, <1>9, <1>10, <1>11, <1>12, <1>13, <1>14 DEF Next, WriterCall, WriterStep, MergerStep, Terminated

\* From the return of pauseMerge() to resumeMerge() no barrel is removed.
THEOREM PausedKeepsBarrels == Spec => NoRemovalWhilePaused
<1>1. Init => PauseInv
  BY DEF Init, PauseInv
<1>2. PauseInv /\ [Next]_vars => PauseInv'
  BY PauseInvStep
<1>3. TypeOK /\ PauseInv /\ [Next]_vars => [paused => Live \subseteq Live']_vars
  <2>1. CreateNewBarrelInfo => mpc = "replace"
    BY DEF CreateNewBarrelInfo
  <2>. QED  BY <2>1, LiveStep DEF TypeOK, PauseInv
<1>. QED  BY <1>1, <1>2, <1>3, TypeCorrect, PTL DEF Spec, NoRemovalWhilePaused
=============================================================================
