------------------------- MODULE IndexReaderProofs -------------------------
(***************************************************************************)
(* Proofs about what a search sees of the index: the greatest document id  *)
(* covers every document, and a reader that is not dirty reads exactly the *)
(* barrels it should, for every value of the constants.                    *)
(***************************************************************************)
EXTENDS IndexMergeProofs

------------------------------------------------------------------------------
(* The greatest document id *)

\* The range of a barrel includes its documents, the one that is being inserted
\* too, and maxDoc is not below any document.  So it may be lowered to the greatest
\* end of a range.
MaxDocInv ==
  /\ \A b \in Live : \A d \in barrels[b].docs : d <= barrels[b].max
  /\ wpc = "ins_count" => nextDoc <= barrels[cur].max
  /\ MaxDocCovers

\* The steps that change no barrel and not maxDoc either keep it.
LEMMA MaxDocUnchanged ==
  ASSUME MaxDocInv, Live' = Live, barrels' = barrels, maxDoc' = maxDoc,
         wpc' # "ins_count" \/ UNCHANGED <<wpc, nextDoc, cur>>
  PROVE  MaxDocInv'
BY DEF MaxDocInv, MaxDocCovers

\* Every step keeps it.
LEMMA MaxDocInvStep ==
  ASSUME IndexInv, MaxDocInv, [Next]_vars
  PROVE  MaxDocInv'
<1>. USE DEF btvars, indexVars, filterVars, readerVars, lockVars, writerVars, mergerVars, countVars
<1>a. /\ Typing /\ BarrelTypes /\ DocTypes /\ ControlTypes /\ BarrelInv /\ DocInv /\ MergerInv
      /\ Live \subseteq DOMAIN barrels /\ \A b \in DOMAIN barrels : barrels[b] \in Barrel
  BY LiveFinite, BarrelOf DEF IndexInv, Typing, TypeOK
<1>b. \A b \in DOMAIN barrels : barrels[b].max \in 0 .. MaxDoc
  BY <1>a DEF Barrel
<1>c. ASSUME createBarrelInfo, wpc' # "ins_count" PROVE MaxDocInv'
  <2>. DEFINE new == Len(barrels) + 1
  <2>1. /\ Live' = Live \cup {new} /\ barrels'[new].docs = {}
        /\ \A b \in DOMAIN barrels : barrels'[b] = barrels[b]
    BY <1>a, <1>c, CreatedBarrel
  <2>2. maxDoc' = maxDoc
    BY <1>c DEF createBarrelInfo
  <2>. HIDE DEF new
  <2>. QED  BY <1>a, <1>c, <2>1, <2>2 DEF MaxDocInv, MaxDocCovers
<1>1. ASSUME NEW old \in {0} \cup Docs, InsertDocument(old) PROVE MaxDocInv'
  <2>1. wpc' # "ins_count" /\ (createBarrelInfo \/ UNCHANGED <<barrels, barrelInfos, maxDoc>>)
    BY <1>1 DEF InsertDocument
  <2>. QED  BY <1>c, <2>1, MaxDocUnchanged DEF Live
<1>2. CASE InsertCreateBarrel
  BY <1>c, <1>2 DEF InsertCreateBarrel
<1>3. CASE InsertBaseDocID
  <2>1. cur \in DOMAIN barrels /\ nextDoc \in Nat
    BY <1>a, <1>3 DEF InsertBaseDocID, Typing, BarrelTypes, DocTypes
  <2>2. /\ DOMAIN barrels' = DOMAIN barrels /\ UNCHANGED <<barrelInfos, maxDoc, nextDoc, cur>>
        /\ \A b \in DOMAIN barrels \ {cur} : barrels'[b] = barrels[b]
        /\ barrels'[cur] = [barrels[cur] EXCEPT !.base = IF @ > nextDoc THEN nextDoc ELSE @,
                                                !.max = IF nextDoc > @ THEN nextDoc ELSE @]
    BY <1>a, <1>3, <2>1 DEF InsertBaseDocID, BarrelTypes, Barrel
  <2>3. /\ barrels'[cur].docs = barrels[cur].docs
        /\ barrels[cur].max <= barrels'[cur].max /\ nextDoc <= barrels'[cur].max
        /\ barrels'[cur].max \in Nat
    BY <1>a, <1>b, <2>1, <2>2 DEF Barrel
  <2>4. Live' = Live
    BY <2>2 DEF Live
  <2>5. \A b \in Live : \A d \in barrels[b].docs : d \in Nat
    BY <1>a DEF Barrel, Docs
  <2>6. \A b \in Live : /\ barrels'[b].docs = barrels[b].docs /\ barrels[b].max <= barrels'[b].max
                       /\ barrels[b].max \in Nat /\ barrels'[b].max \in Nat
    <3>. TAKE b \in Live
    <3>1. b \in DOMAIN barrels /\ barrels[b].max \in Nat
      BY <1>a, <1>b
    <3>2. b # cur => barrels'[b] = barrels[b]
      BY <2>2, <3>1
    <3>. QED  BY <2>3, <3>1, <3>2
  <2>7. \A b \in Live : \A d \in barrels'[b].docs : d <= barrels'[b].max
    <3>. SUFFICES ASSUME NEW b \in Live, NEW d \in barrels[b].docs PROVE d <= barrels'[b].max
      BY <2>6
    <3>. QED  BY <2>5, <2>6 DEF MaxDocInv
  <2>8. MaxDocCovers'
    BY <2>2, <2>4, <2>6 DEF MaxDocInv, MaxDocCovers
  <2>. QED  BY <2>2, <2>3, <2>4, <2>7, <2>8 DEF MaxDocInv
<1>4. CASE InsertAddDocument
  <2>1. cur \in DOMAIN barrels /\ nextDoc \in Nat /\ maxDoc \in Nat
    BY <1>a, <1>4 DEF InsertAddDocument, Typing, BarrelTypes, DocTypes
  <2>2. /\ DOMAIN barrels' = DOMAIN barrels /\ barrelInfos' = barrelInfos
        /\ \A b \in DOMAIN barrels \ {cur} : barrels'[b] = barrels[b]
        /\ barrels'[cur] = [barrels[cur] EXCEPT !.docs = @ \cup {nextDoc}]
        /\ maxDoc' = IF nextDoc > maxDoc THEN nextDoc ELSE maxDoc
        /\ wpc = "ins_count" /\ wpc' # "ins_count"
    BY <1>a, <1>4, <2>1 DEF InsertAddDocument, BarrelTypes, Barrel
  <2>3. barrels'[cur].docs = barrels[cur].docs \cup {nextDoc} /\ barrels'[cur].max = barrels[cur].max
    BY <1>a, <2>1, <2>2 DEF Barrel
  <2>4. Live' = Live
    BY <2>2 DEF Live
  <2>5. \A b \in Live : \A d \in barrels[b].docs : d \in Nat
    BY <1>a DEF Barrel, Docs
  <2>6. nextDoc <= barrels[cur].max
    BY <2>2 DEF MaxDocInv
  <2>7. \A b \in Live : \A d \in barrels'[b].docs : d <= barrels'[b].max
    BY <1>a, <2>2, <2>3, <2>6 DEF MaxDocInv
  <2>8. \A b \in Live : \A d \in barrels'[b].docs : d <= maxDoc'
    <3>. SUFFICES ASSUME NEW b \in Live, NEW d \in barrels'[b].docs PROVE d <= maxDoc'
      OBVIOUS
    <3>1. (d \in barrels[b].docs /\ d <= maxDoc /\ d \in Nat) \/ d = nextDoc
      BY <1>a, <2>2, <2>3, <2>5 DEF MaxDocInv, MaxDocCovers
    <3>. QED  BY <2>1, <2>2, <3>1
  <2>. QED  BY <2>2, <2>4, <2>7, <2>8 DEF MaxDocInv, MaxDocCovers
<1>5. CASE FlushWrite \/ FlushSetSearchable
  <2>1. cur \in DOMAIN barrels
    BY <1>a, <1>5 DEF FlushWrite, FlushSetSearchable, Typing, BarrelTypes
  <2>2. UNCHANGED <<barrelInfos, maxDoc>> /\ wpc' # "ins_count"
    BY <1>5 DEF FlushWrite, FlushSetSearchable
  <2>3. \A b \in DOMAIN barrels : barrels'[b].docs = barrels[b].docs /\ barrels'[b].max = barrels[b].max
    <3>. TAKE b \in DOMAIN barrels
    <3>1. \/ barrels' = [barrels EXCEPT ![cur].inMemory = FALSE]
          \/ barrels' = [barrels EXCEPT ![cur].searchable = TRUE]
      BY <1>5 DEF FlushWrite, FlushSetSearchable
    <3>2. barrels[b] \in Barrel
      BY <1>a
    <3>3. \/ barrels'[b] = barrels[b]
          \/ barrels'[b] = [barrels[b] EXCEPT !.inMemory = FALSE]
          \/ barrels'[b] = [barrels[b] EXCEPT !.searchable = TRUE]
      BY <2>1, <3>1
    <3>. QED  BY <3>2, <3>3 DEF Barrel
  <2>4. Live' = Live
    BY <2>2 DEF Live
  <2>. QED  BY <1>a, <2>2, <2>3, <2>4 DEF MaxDocInv, MaxDocCovers
<1>6. CASE CreateNewBarrelInfo
  <2>. DEFINE new == Len(barrels) + 1
              M == {0} \cup {barrels[b].max : b \in mq}
  <2>1. /\ Live' = (Live \ mq) \cup {new} /\ barrels'[new].docs = mout
        /\ \A b \in DOMAIN barrels \ mq : barrels'[b].docs = barrels[b].docs
    BY <1>a, <1>6, ReplacedBarrels
  <2>2. /\ barrels'[new] = Merged
        /\ \A b \in DOMAIN barrels \ mq : barrels'[b] = barrels[b]
    BY <1>a, <1>6, NewBarrelInfo DEF RemovedByMerge
  <2>3. barrels'[new].max = Max(M)
    BY <2>2 DEF Merged
  <2>4. Max(M) \in M /\ \A m \in M : m <= Max(M)
    <3>1. M \in SUBSET (0 .. MaxDoc) /\ M # {} /\ MaxDoc \in Nat
      BY <1>a, <1>b, IndexMergeAssumption DEF BarrelTypes
    <3>. HIDE DEF M
    <3>. QED  BY <3>1, MaxOfNaturals
  <2>5. \A d \in mout : \E b \in mq : b \in Live /\ d \in barrels[b].docs
    BY <1>a, <1>6 DEF CreateNewBarrelInfo, MergerInv
  <2>6. \A d \in mout : d <= Max(M) /\ d <= maxDoc
    <3>. TAKE d \in mout
    <3>1. PICK b \in mq : b \in Live /\ d \in barrels[b].docs
      BY <2>5
    <3>2. d <= barrels[b].max /\ d <= maxDoc /\ b \in DOMAIN barrels
      BY <1>a, <3>1 DEF MaxDocInv, MaxDocCovers
    <3>3. barrels[b].max \in M /\ M \subseteq Nat /\ d \in Nat
      BY <1>a, <1>b, <3>1, <3>2, IndexMergeAssumption DEF BarrelTypes, Barrel, Docs
    <3>4. barrels[b].max <= Max(M) /\ Max(M) \in Nat /\ barrels[b].max \in Nat
      <4>. HIDE DEF M
      <4>. QED  BY <2>4, <3>3
    <3>. HIDE DEF M
    <3>. QED  BY <3>2, <3>3, <3>4
  <2>7. maxDoc' = maxDoc /\ wpc' = wpc /\ cur' = cur /\ nextDoc' = nextDoc /\ wpc \in WriterPC
    BY <1>a, <1>6 DEF CreateNewBarrelInfo, ControlTypes
  <2>8. wpc = "ins_count" => cur \in DOMAIN barrels \ mq
    BY <1>a DEF Typing, BarrelTypes, BarrelInv, Written, MergerInv
  <2>. HIDE DEF new, M
  <2>. QED  BY <1>a, <2>1, <2>2, <2>3, <2>6, <2>7, <2>8 DEF MaxDocInv, MaxDocCovers
<1>7. CASE UpdateBarrelsSort
  <2>1. Live' = Live
    BY <1>a, <1>7, SortTypes
  <2>. QED  BY <1>7, <2>1, MaxDocUnchanged DEF UpdateBarrelsSort
<1>8. CASE OptimizeMaxDoc
  <2>. DEFINE M == {0} \cup {barrels[b].max : b \in Live}
  <2>1. Max(M) \in M /\ \A m \in M : m <= Max(M)
    <3>1. M \in SUBSET (0 .. MaxDoc) /\ M # {} /\ MaxDoc \in Nat
      BY <1>a, <1>b, IndexMergeAssumption
    <3>. HIDE DEF M
    <3>. QED  BY <3>1, MaxOfNaturals
  <2>2. /\ maxDoc' = (IF Max(M) < maxDoc THEN Max(M) ELSE maxDoc)
        /\ UNCHANGED <<barrels, barrelInfos, wpc, nextDoc, cur>>
    BY <1>8 DEF OptimizeMaxDoc
  <2>3. \A b \in Live : \A d \in barrels[b].docs : d <= Max(M)
    <3>. SUFFICES ASSUME NEW b \in Live, NEW d \in barrels[b].docs PROVE d <= Max(M)
      OBVIOUS
    <3>1. d <= barrels[b].max /\ barrels[b].max \in M /\ M \subseteq Nat /\ d \in Nat
      BY <1>a, <1>b, IndexMergeAssumption DEF MaxDocInv, Barrel, Docs
    <3>2. barrels[b].max <= Max(M) /\ Max(M) \in Nat /\ barrels[b].max \in Nat
      <4>. HIDE DEF M
      <4>. QED  BY <2>1, <3>1
    <3>. HIDE DEF M
    <3>. QED  BY <3>1, <3>2
  <2>4. Live' = Live
    BY <2>2 DEF Live
  <2>. HIDE DEF M
  <2>. QED  BY <2>2, <2>3, <2>4 DEF MaxDocInv, MaxDocCovers
<1>9. CASE SearchGetIndexReader
  BY <1>9, MaxDocUnchanged DEF SearchGetIndexReader, Live
<1>10. CASE SearchGetTermReader
  BY <1>10, MaxDocUnchanged DEF SearchGetTermReader, Live
<1>11. CASE InsertRealTime
  BY <1>11, MaxDocUnchanged DEF InsertRealTime, Live
<1>12. CASE RemoveTestFilter
  BY <1>12, MaxDocUnchanged DEF RemoveTestFilter, WriterReturns, Live
<1>13. CASE RemoveCountDown
  BY <1>13, MaxDocUnchanged DEF RemoveCountDown, WriterReturns, Live
<1>14. CASE RemoveSetBit
  BY <1>14, MaxDocUnchanged DEF RemoveSetBit, WriterReturns, Live
<1>15. CASE Flush
  BY <1>15, MaxDocUnchanged DEF Flush, Live
<1>16. CASE FlushReopen
  BY <1>16, MaxDocUnchanged DEF FlushReopen, Live
<1>17. CASE FlushAddToMerge
  BY <1>17, MaxDocUnchanged DEF FlushAddToMerge, Live
<1>18. CASE FlushEnd
  BY <1>a, <1>18, MaxDocUnchanged DEF FlushEnd, Live, ControlTypes
<1>19. CASE FlushSetDirty
  BY <1>19, MaxDocUnchanged DEF FlushSetDirty, Live
<1>20. CASE FlushDocFilter
  BY <1>20, MaxDocUnchanged DEF FlushDocFilter, WriterReturns, Live
<1>21. CASE OptimizeIndex
  BY <1>21, MaxDocUnchanged DEF OptimizeIndex, Live
<1>22. CASE OptimizePush
  BY <1>22, MaxDocUnchanged DEF OptimizePush, Live
<1>23. CASE OptimizeReturn
  BY <1>23, MaxDocUnchanged DEF OptimizeReturn, WriterReturns, Live
<1>24. CASE Close
  BY <1>24, MaxDocUnchanged DEF Close, Live
<1>25. CASE CloseLock
  BY <1>25, MaxDocUnchanged DEF CloseLock, Live
<1>26. CASE CloseJoin
  BY <1>26, MaxDocUnchanged DEF CloseJoin, Live
<1>27. CASE WaitForMergeFinish
  BY <1>27, MaxDocUnchanged DEF WaitForMergeFinish, Live
<1>28. CASE WaitJoin
  BY <1>28, MaxDocUnchanged DEF WaitJoin, Live
<1>29. CASE PauseMerge
  BY <1>29, MaxDocUnchanged DEF PauseMerge, Live
<1>30. CASE ResumeMerge
  BY <1>30, MaxDocUnchanged DEF ResumeMerge, Live
<1>31. CASE PopAdd
  BY <1>31, MaxDocUnchanged DEF PopAdd, Live
<1>32. CASE PopOptimize
  BY <1>32, MaxDocUnchanged DEF PopOptimize, Live
<1>33. CASE PopExit
  BY <1>33, MaxDocUnchanged DEF PopExit, Live
<1>34. CASE AddToPolicy
  BY <1>34, MaxDocUnchanged DEF AddToPolicy, Live
<1>35. CASE PolicyStep
  BY <1>35, MaxDocUnchanged DEF PolicyStep, Live
<1>36. CASE PolicyMerge
  BY <1>36, MaxDocUnchanged DEF PolicyMerge, Live
<1>37. CASE OptimizeOpen
  BY <1>37, MaxDocUnchanged DEF OptimizeOpen, Live
<1>38. CASE OptimizeLock
  BY <1>38, MaxDocUnchanged DEF OptimizeLock, Live
<1>39. CASE OptimizeSnapshot
  BY <1>39, MaxDocUnchanged DEF OptimizeSnapshot, Live
<1>40. CASE OutputNewBarrel
  BY <1>40, MaxDocUnchanged DEF OutputNewBarrel, Live
<1>41. CASE CreateCheckPause
  BY <1>41, MaxDocUnchanged DEF CreateCheckPause, Live
<1>42. CASE OptimizeDelDocFilter
  BY <1>42, MaxDocUnchanged DEF OptimizeDelDocFilter, Live
<1>43. CASE UpdateBarrelsSetDirty
  BY <1>43, MaxDocUnchanged DEF UpdateBarrelsSetDirty, Live
<1>44. CASE OptimizeReopen
  BY <1>44, MaxDocUnchanged DEF OptimizeReopen, Live
<1>45. ASSUME NEW d \in Docs, RemoveDocument(d) PROVE MaxDocInv'
  BY <1>45, MaxDocUnchanged DEF RemoveDocument, Live
<1>46. CASE UNCHANGED vars
  BY <1>46, MaxDocUnchanged DEF vars, Live
<1>. QED
  BY <1>1, <1>2, <1>3, <1>4, <1>5, <1>6, <1>7, <1>8, <1>9, <1>10, <1>11, <1>12, <1>13, <1>14, <1>15, <1>16, <1>17, <1>18, <1>19, <1>20, <1>21, <1>22, <1>23, <1>24, <1>25, <1>26, <1>27, <1>28, <1>29, <1>30, <1>31, <1>32, <1>33, <1>34, <1>35, <1>36, <1>37, <1>38, <1>39, <1>40, <1>41, <1>42, <1>43, <1>44, <1>45, <1>46 DEF Next, WriterCall, WriterStep, MergerStep, SearchStep, Terminated

\* maxDocId() is never below a document of the index, although the optimizing merger
\* lowers it while documents are being inserted.
THEOREM MaxDocCorrect ==
  ASSUME IsAsync \/ ~UseAddMerger
  PROVE  Spec => []MaxDocCovers
<1>1. Init => MaxDocInv
  BY DEF Init, MaxDocInv, MaxDocCovers, Live
<1>2. IndexInv /\ MaxDocInv /\ [Next]_vars => MaxDocInv'
  BY MaxDocInvStep
<1>3. MaxDocInv => MaxDocCovers
  BY DEF MaxDocInv
<1>. QED  BY <1>1, <1>2, <1>3, IndexInvariant, PTL DEF Spec

------------------------------------------------------------------------------
(* The reader *)

\* The document counts are kept for the barrels that exist.
CountInv == IsSequence(nNumDocs) /\ DOMAIN nNumDocs = DOMAIN barrels

\* The current barrel has become searchable.
Announced == wpc \in {"fl_reopen", "fl_add", "fl_end"}

\* The flushed barrels: those on disk, the current one as soon as it is announced.
Flushed == {b \in Live : ~barrels[b].inMemory /\ (b # cur \/ Announced)}

\* ReaderCoherent, and that it goes on to hold when the barrel that is being
\* flushed ceases to be the current one; a merger that has replaced barrels makes
\* the reader dirty, for it has set triggerMerge_ before.
ReaderInv ==
  /\ CountInv
  /\ Merging => triggerMerge_
  /\ ~dirty /\ readerOpen /\ ~MergerUpdating =>
       readers \subseteq Live /\ \A b \in Flushed : Readable(b) => b \in readers

\* Changing one document count keeps the others.
LEMMA CountChanged ==
  ASSUME BarrelTypes, CountInv, NEW c, NEW v, nNumDocs' = [nNumDocs EXCEPT ![c] = v],
         DOMAIN barrels' = DOMAIN barrels
  PROVE  CountInv' /\ \A b \in DOMAIN barrels : b # c => nNumDocs'[b] = nNumDocs[b]
<1>1. Len(nNumDocs) \in Nat /\ DOMAIN nNumDocs = 1 .. Len(nNumDocs)
  BY SequenceOfValues DEF CountInv, IsSequence
<1>2. DOMAIN nNumDocs' = 1 .. Len(nNumDocs) /\ nNumDocs' = [i \in 1 .. Len(nNumDocs) |-> nNumDocs'[i]]
  BY <1>1
<1>3. IsSequence(nNumDocs')
  BY <1>1, <1>2, FunctionIsSequence
<1>. QED  BY <1>1, <1>2, <1>3 DEF CountInv

\* Two intervals from 1 are the same only if they end at the same number.
LEMMA SameInterval ==
  ASSUME NEW m \in Nat, NEW n \in Nat, 1 .. m = 1 .. n
  PROVE  m = n
<1>1. m \in 1 .. n \/ m = 0
  OBVIOUS
<1>2. n \in 1 .. m \/ n = 0
  OBVIOUS
<1>. QED  BY <1>1, <1>2

\* A barrel that is added to the history is added to the counts.
LEMMA CountAdded ==
  ASSUME BarrelTypes, CountInv, NEW v, nNumDocs' = Append(nNumDocs, v),
         DOMAIN barrels' = DOMAIN barrels \cup {Len(barrels) + 1}
  PROVE  /\ CountInv' /\ nNumDocs'[Len(barrels) + 1] = v
         /\ \A b \in DOMAIN barrels : nNumDocs'[b] = nNumDocs[b]
<1>1. /\ IsSequence(nNumDocs') /\ Len(nNumDocs) \in Nat /\ DOMAIN nNumDocs = 1 .. Len(nNumDocs)
      /\ DOMAIN nNumDocs' = DOMAIN nNumDocs \cup {Len(nNumDocs) + 1}
      /\ \A i \in DOMAIN nNumDocs : nNumDocs'[i] = nNumDocs[i]
      /\ nNumDocs'[Len(nNumDocs) + 1] = v
  BY AppendedTo DEF CountInv
<1>2. Len(barrels) \in Nat /\ DOMAIN barrels = 1 .. Len(barrels)
  BY SequenceOfValues DEF BarrelTypes
<1>3. Len(nNumDocs) = Len(barrels)
  <2>1. 1 .. Len(nNumDocs) = 1 .. Len(barrels)
    BY <1>1, <1>2 DEF CountInv
  <2>. QED  BY <1>1, <1>2, <2>1, SameInterval
<1>. QED  BY <1>1, <1>3 DEF CountInv

\* The steps that leave the barrels and the reader alone, but may make it dirty.
LEMMA ReaderKept ==
  ASSUME ReaderInv, UNCHANGED <<barrels, nNumDocs, barrelInfos, readerOpen, readers>>,
         Merging' => triggerMerge_',
         \/ dirty'
         \/ /\ dirty' = dirty
            /\ MergerUpdating => MergerUpdating'
            /\ \A b \in Live : ~barrels[b].inMemory /\ (b # cur' \/ Announced') => (b # cur \/ Announced)
  PROVE  ReaderInv'
<1>1. CountInv' /\ Live' = Live
  BY DEF ReaderInv, CountInv, Live
<1>2. \A b \in Live : Readable(b)' = Readable(b)
  BY DEF Readable
<1>3. CASE dirty'
  BY <1>1, <1>3 DEF ReaderInv
<1>4. CASE /\ dirty' = dirty
           /\ MergerUpdating => MergerUpdating'
           /\ \A b \in Live : ~barrels[b].inMemory /\ (b # cur' \/ Announced') => (b # cur \/ Announced)
  <2>1. Flushed' \subseteq Flushed
    BY <1>1, <1>4 DEF Flushed
  <2>2. Flushed \subseteq Live
    BY DEF Flushed
  <2>. QED  BY <1>1, <1>2, <1>4, <2>1, <2>2 DEF ReaderInv
<1>. QED  BY <1>3, <1>4

\* The steps that open the reader if it is dirty.
LEMMA ReaderOpened ==
  ASSUME ReaderInv, getIndexReader, UNCHANGED <<barrels, barrelInfos, cur>>, CountInv',
         Merging' => triggerMerge_',
         MergerUpdating => MergerUpdating',
         Announced' => Announced,
         \A b \in Live : Readable(b)' => Readable(b)
  PROVE  ReaderInv'
<1>1. Live' = Live
  BY DEF Live
<1>2. Flushed' \subseteq Flushed /\ Flushed \subseteq Live
  BY <1>1 DEF Flushed
<1>3. CASE dirty
  <2>1. readers' = {b \in Live : Readable(b)}
    BY <1>3 DEF getIndexReader, createBarrelReader
  <2>. QED  BY <1>1, <1>2, <2>1 DEF ReaderInv
<1>4. CASE ~dirty
  <2>1. UNCHANGED <<dirty, readerOpen, readers>>
    BY <1>4 DEF getIndexReader, readerVars
  <2>. QED  BY <1>1, <1>2, <2>1 DEF ReaderInv
<1>. QED  BY <1>3, <1>4

\* Creating the current barrel.
LEMMA ReaderBarrelAdded ==
  ASSUME BarrelTypes, ReaderInv, createBarrelInfo, cur = 0 \/ barrels[cur].inMemory, ~Announced',
         UNCHANGED <<dirty, readerOpen, readers, mpc, triggerMerge_>>
  PROVE  ReaderInv'
<1>. DEFINE new == Len(barrels) + 1
<1>1. /\ DOMAIN barrels' = DOMAIN barrels \cup {new} /\ new \notin DOMAIN barrels
      /\ \A b \in DOMAIN barrels : barrels'[b] = barrels[b]
      /\ Live' = Live \cup {new} /\ cur' = new /\ Live \subseteq DOMAIN barrels
  BY CreatedBarrel, LiveFinite
<1>2. CountInv' /\ \A b \in DOMAIN barrels : nNumDocs'[b] = nNumDocs[b]
  <2>1. nNumDocs' = Append(nNumDocs, 0) /\ DOMAIN barrels' = DOMAIN barrels \cup {Len(barrels) + 1}
    BY <1>1 DEF createBarrelInfo
  <2>. QED  BY <2>1, CountAdded DEF ReaderInv
<1>. HIDE DEF new
<1>3. 0 \notin DOMAIN barrels
  BY SequenceOfValues DEF BarrelTypes
<1>4. Flushed' \subseteq Flushed
  BY <1>1, <1>3 DEF Flushed
<1>5. \A b \in Flushed' : Readable(b)' => Readable(b)
  BY <1>1, <1>2, <1>4 DEF Readable, Flushed
<1>6. (Merging' => triggerMerge_') /\ (MergerUpdating' <=> MergerUpdating)
  BY DEF ReaderInv, Merging, MergerUpdating
<1>. QED  BY <1>1, <1>2, <1>4, <1>5, <1>6 DEF ReaderInv

\* The steps that only change the current barrel before it is announced.
LEMMA ReaderCurChanged ==
  ASSUME BarrelTypes, ReaderInv, DOMAIN barrels' = DOMAIN barrels,
         \A b \in DOMAIN barrels : b # cur => barrels'[b] = barrels[b],
         nNumDocs' = nNumDocs \/ nNumDocs' = [nNumDocs EXCEPT ![cur] = nNumDocs[cur] + 1],
         UNCHANGED <<barrelInfos, cur, dirty, readerOpen, readers, mpc, triggerMerge_>>, ~Announced'
  PROVE  ReaderInv'
<1>1. CountInv' /\ \A b \in DOMAIN barrels : b # cur => nNumDocs'[b] = nNumDocs[b]
  BY CountChanged DEF ReaderInv, CountInv
<1>2. Live' = Live /\ Live \subseteq DOMAIN barrels
  BY LiveFinite DEF Live
<1>3. \A b \in Flushed' : b # cur /\ b \in Live /\ barrels'[b] = barrels[b] /\ nNumDocs'[b] = nNumDocs[b]
  BY <1>1, <1>2 DEF Flushed
<1>4. \A b \in Flushed' : b \in Flushed /\ (Readable(b)' => Readable(b))
  BY <1>2, <1>3 DEF Flushed, Readable
<1>5. (Merging' => triggerMerge_') /\ (MergerUpdating' <=> MergerUpdating)
  BY DEF ReaderInv, Merging, MergerUpdating
<1>. QED  BY <1>1, <1>2, <1>4, <1>5 DEF ReaderInv

\* Every step keeps the invariant.
LEMMA ReaderInvStep ==
  ASSUME IndexInv, ReaderInv, [Next]_vars
  PROVE  ReaderInv'
<1>. USE DEF btvars, indexVars, filterVars, readerVars, lockVars, writerVars, mergerVars, countVars
<1>a. /\ Typing /\ BarrelTypes /\ DocTypes /\ ControlTypes /\ BarrelInv /\ MergerInv /\ CountInv
      /\ Live \subseteq DOMAIN barrels /\ \A b \in DOMAIN barrels : barrels[b] \in Barrel
  BY LiveFinite, BarrelOf DEF IndexInv, Typing, TypeOK, ReaderInv
<1>1. ASSUME NEW old \in {0} \cup Docs, InsertDocument(old) PROVE ReaderInv'
  <2>1. ~Announced /\ ~Announced' /\ UNCHANGED <<dirty, readerOpen, readers, mpc, triggerMerge_>>
    BY <1>1 DEF InsertDocument, Announced
  <2>2. CASE cur = 0
    BY <1>a, <1>1, <2>1, <2>2, ReaderBarrelAdded DEF InsertDocument
  <2>3. CASE cur # 0
    <3>1. UNCHANGED <<barrels, nNumDocs, barrelInfos, cur>>
      BY <1>1, <2>3 DEF InsertDocument
    <3>. QED  BY <2>1, <3>1, ReaderKept DEF ReaderInv, Merging, MergerUpdating
  <2>. QED  BY <2>2, <2>3
<1>2. CASE InsertRealTime
  <2>1. /\ UNCHANGED <<barrels, nNumDocs, barrelInfos, readerOpen, readers, cur, mpc, triggerMerge_>>
        /\ ~Announced /\ ~Announced'
    BY <1>2 DEF InsertRealTime, Announced
  <2>2. dirty' \/ dirty' = dirty
    BY <1>2, <1>a, Zenon DEF InsertRealTime, Typing, TypeOK, FlagTypes
  <2>. QED  BY <2>1, <2>2, ReaderKept DEF ReaderInv, Merging, MergerUpdating
<1>3. CASE InsertCreateBarrel
  <2>1. ~Announced /\ ~Announced' /\ UNCHANGED <<dirty, readerOpen, readers, mpc, triggerMerge_>> /\ createBarrelInfo
    BY <1>3 DEF InsertCreateBarrel, Announced
  <2>2. cur = 0 \/ barrels[cur].inMemory
    BY <1>3, <1>a DEF InsertCreateBarrel, BarrelInv, Written
  <2>. QED  BY <1>a, <2>1, <2>2, ReaderBarrelAdded
<1>4. CASE InsertBaseDocID
  <2>1. cur \in DOMAIN barrels /\ barrels[cur].inMemory
    BY <1>a, <1>4 DEF InsertBaseDocID, Typing, BarrelTypes, BarrelInv, Written
  <2>2. /\ UNCHANGED <<barrelInfos, nNumDocs, cur, dirty, readerOpen, readers, mpc, triggerMerge_>>
        /\ wpc = "ins_base" /\ wpc' = "ins_count"
    BY <1>4 DEF InsertBaseDocID
  <2>3. DOMAIN barrels' = DOMAIN barrels /\ \A b \in DOMAIN barrels : b # cur => barrels'[b] = barrels[b]
    BY <1>a, <1>4 DEF InsertBaseDocID, BarrelTypes
  <2>. QED  BY <1>a, <2>1, <2>2, <2>3, ReaderCurChanged DEF Announced
<1>5. CASE InsertAddDocument
  <2>1. cur \in DOMAIN barrels /\ barrels[cur].inMemory
    BY <1>a, <1>5 DEF InsertAddDocument, Typing, BarrelTypes, BarrelInv, Written
  <2>2. /\ UNCHANGED <<barrelInfos, cur, dirty, readerOpen, readers, mpc, triggerMerge_>>
        /\ wpc = "ins_count" /\ wpc' \in {"idle", "rem_test"}
        /\ nNumDocs' = [nNumDocs EXCEPT ![cur] = nNumDocs[cur] + 1]
    BY <1>5 DEF InsertAddDocument
  <2>3. DOMAIN barrels' = DOMAIN barrels /\ \A b \in DOMAIN barrels : b # cur => barrels'[b] = barrels[b]
    BY <1>a, <1>5 DEF InsertAddDocument, BarrelTypes
  <2>. QED  BY <1>a, <2>1, <2>2, <2>3, ReaderCurChanged DEF Announced
<1>6. ASSUME NEW d \in Docs, RemoveDocument(d) PROVE ReaderInv'
  BY <1>6, ReaderKept DEF RemoveDocument, ReaderInv, Merging, MergerUpdating, Announced
<1>7. CASE RemoveTestFilter
  <2>1. /\ getIndexReader /\ UNCHANGED <<barrels, nNumDocs, barrelInfos, cur>>
        /\ Merging' => triggerMerge_'
        /\ MergerUpdating => MergerUpdating'
        /\ Announced' => Announced
    BY <1>7, <1>a DEF RemoveTestFilter, WriterReturns, ReaderInv, Merging, MergerUpdating, Announced
  <2>2. CountInv' /\ \A b \in Live : Readable(b)' => Readable(b)
    BY <1>a, <2>1 DEF CountInv, Readable
  <2>. QED  BY <2>1, <2>2, ReaderOpened
<1>8. CASE RemoveCountDown
  <2>1. /\ getIndexReader /\ UNCHANGED <<barrels, barrelInfos, cur, mpc, triggerMerge_>>
        /\ ~Announced'
    BY <1>8 DEF RemoveCountDown, Announced, WriterReturns
  <2>2. \/ nNumDocs' = nNumDocs
        \/ \E b : nNumDocs[b] > 0 /\ nNumDocs' = [nNumDocs EXCEPT ![b] = nNumDocs[b] - 1]
    BY <1>8 DEF RemoveCountDown
  <2>3. CountInv' /\ \A b \in Live : Readable(b)' => Readable(b)
    <3>1. CASE nNumDocs' = nNumDocs
      BY <1>a, <2>1, <3>1 DEF CountInv, Readable
    <3>2. CASE nNumDocs' # nNumDocs
      <4>1. PICK c : nNumDocs[c] > 0 /\ nNumDocs' = [nNumDocs EXCEPT ![c] = nNumDocs[c] - 1]
        BY <2>2, <3>2
      <4>2. CountInv' /\ \A b \in DOMAIN barrels : b # c => nNumDocs'[b] = nNumDocs[b]
        BY <1>a, <2>1, <4>1, CountChanged
      <4>3. ASSUME NEW b \in Live, Readable(b)' PROVE Readable(b)
        BY <1>a, <2>1, <4>1, <4>2, <4>3 DEF Readable
      <4>. QED  BY <4>2, <4>3
    <3>. QED  BY <3>1, <3>2
  <2>4. (Merging' => triggerMerge_') /\ (MergerUpdating => MergerUpdating')
    BY <2>1 DEF ReaderInv, Merging, MergerUpdating
  <2>. QED  BY <2>1, <2>3, <2>4, ReaderOpened
<1>9. CASE RemoveSetBit
  BY <1>9, <1>a, ReaderKept DEF RemoveSetBit, WriterReturns, ReaderInv, Merging, MergerUpdating, Announced, ControlTypes
<1>10. CASE Flush
  BY <1>10, <1>a, ReaderKept DEF Flush, ReaderInv, Merging, MergerUpdating, Announced, ControlTypes
<1>11. CASE FlushWrite
  <2>1. cur \in DOMAIN barrels
    BY <1>a, <1>11 DEF FlushWrite, Typing, BarrelTypes
  <2>2. /\ UNCHANGED <<barrelInfos, nNumDocs, cur, dirty, readerOpen, readers, mpc, triggerMerge_>>
        /\ wpc = "fl_write" /\ wpc' = "fl_searchable"
    BY <1>11 DEF FlushWrite
  <2>3. DOMAIN barrels' = DOMAIN barrels /\ \A b \in DOMAIN barrels : b # cur => barrels'[b] = barrels[b]
    BY <1>a, <1>11 DEF FlushWrite, BarrelTypes
  <2>. QED  BY <1>a, <2>1, <2>2, <2>3, ReaderCurChanged DEF Announced
<1>12. CASE FlushSetSearchable
  <2>1. dirty' /\ UNCHANGED <<nNumDocs, mpc, triggerMerge_>> /\ DOMAIN barrels' = DOMAIN barrels
    BY <1>a, <1>12 DEF FlushSetSearchable, BarrelTypes
  <2>. QED  BY <1>a, <2>1 DEF ReaderInv, CountInv, Merging
<1>13. CASE FlushReopen
  <2>1. /\ getIndexReader /\ UNCHANGED <<barrels, nNumDocs, barrelInfos, cur>>
        /\ Merging' => triggerMerge_'
        /\ MergerUpdating => MergerUpdating'
        /\ Announced' => Announced
    BY <1>13, <1>a DEF FlushReopen, ReaderInv, Merging, MergerUpdating, Announced
  <2>2. CountInv' /\ \A b \in Live : Readable(b)' => Readable(b)
    BY <1>a, <2>1 DEF CountInv, Readable
  <2>. QED  BY <2>1, <2>2, ReaderOpened
<1>14. CASE FlushAddToMerge
  BY <1>14, <1>a, ReaderKept DEF FlushAddToMerge, StartAdd, MergerInv, ReaderInv, Merging, MergerUpdating, Announced, ControlTypes
<1>15. CASE FlushEnd
  <2>1. /\ UNCHANGED <<barrels, nNumDocs, barrelInfos, dirty, readerOpen, readers, mpc, triggerMerge_>>
        /\ wpc = "fl_end" /\ Announced
    BY <1>15 DEF FlushEnd, Announced
  <2>. QED  BY <2>1, ReaderKept DEF ReaderInv, Merging, MergerUpdating
<1>16. CASE FlushSetDirty
  BY <1>16, <1>a, ReaderKept DEF FlushSetDirty, ReaderInv, Merging, MergerUpdating, Announced, ControlTypes
<1>17. CASE FlushDocFilter
  BY <1>17, <1>a, ReaderKept DEF FlushDocFilter, WriterReturns, ReaderInv, Merging, MergerUpdating, Announced, ControlTypes
<1>18. CASE OptimizeIndex
  BY <1>18, <1>a, ReaderKept DEF OptimizeIndex, ReaderInv, Merging, MergerUpdating, Announced, ControlTypes
<1>19. CASE OptimizePush
  BY <1>19, <1>a, ReaderKept DEF OptimizePush, StartOptimize, MergerInv, ReaderInv, Merging, MergerUpdating, Announced, ControlTypes
<1>20. CASE OptimizeReturn
  BY <1>20, <1>a, ReaderKept DEF OptimizeReturn, WriterReturns, ReaderInv, Merging, MergerUpdating, Announced, ControlTypes
<1>21. CASE Close
  <2>1. /\ UNCHANGED <<barrels, nNumDocs, barrelInfos, dirty, readerOpen, readers, mpc, triggerMerge_>>
        /\ wpc = "idle" /\ cur' = 0 /\ ~Announced'
    BY <1>21 DEF Close, Announced
  <2>2. \A b \in Live : ~barrels[b].inMemory => b # cur
    <3>1. cur = 0 \/ barrels[cur].inMemory
      BY <1>a, <2>1 DEF BarrelInv, Written
    <3>2. 0 \notin DOMAIN barrels
      <4>1. Len(barrels) \in Nat /\ DOMAIN barrels = 1 .. Len(barrels)
        BY <1>a, SequenceOfValues DEF BarrelTypes
      <4>. QED  BY <4>1
    <3>. QED  BY <1>a, <3>1, <3>2
  <2>. QED  BY <2>1, <2>2, ReaderKept DEF ReaderInv, Merging, MergerUpdating
<1>22. CASE CloseLock
  BY <1>22, <1>a, ReaderKept DEF CloseLock, ReaderInv, Merging, MergerUpdating, Announced, ControlTypes
<1>23. CASE CloseJoin
  BY <1>23, <1>a, ReaderKept DEF CloseJoin, ReaderInv, Merging, MergerUpdating, Announced, ControlTypes
<1>24. CASE WaitForMergeFinish
  BY <1>24, <1>a, ReaderKept DEF WaitForMergeFinish, ReaderInv, Merging, MergerUpdating, Announced, ControlTypes
<1>25. CASE WaitJoin
  BY <1>25, <1>a, ReaderKept DEF WaitJoin, ReaderInv, Merging, MergerUpdating, Announced, ControlTypes
<1>26. CASE PauseMerge
  BY <1>26, <1>a, ReaderKept DEF PauseMerge, ReaderInv, Merging, MergerUpdating, Announced, ControlTypes
<1>27. CASE ResumeMerge
  BY <1>27, <1>a, ReaderKept DEF ResumeMerge, ReaderInv, Merging, MergerUpdating, Announced, ControlTypes
<1>28. CASE PopAdd
  BY <1>28, <1>a, ReaderKept DEF PopAdd, StartAdd, ReaderInv, Merging, MergerUpdating, Announced, ControlTypes
<1>29. CASE PopOptimize
  BY <1>29, <1>a, ReaderKept DEF PopOptimize, StartOptimize, ReaderInv, Merging, MergerUpdating, Announced, ControlTypes
<1>30. CASE PopExit
  BY <1>30, <1>a, ReaderKept DEF PopExit, ReaderInv, Merging, MergerUpdating, Announced, ControlTypes
<1>31. CASE AddToPolicy
  BY <1>31, <1>a, ReaderKept DEF AddToPolicy, ReaderInv, Merging, MergerUpdating, Announced, ControlTypes
<1>32. CASE PolicyStep
  BY <1>32, <1>a, ReaderKept DEF PolicyStep, ReaderInv, Merging, MergerUpdating, Announced, ControlTypes
<1>33. CASE PolicyMerge
  BY <1>33, <1>a, ReaderKept DEF PolicyMerge, ReaderInv, Merging, MergerUpdating, Announced, ControlTypes
<1>34. CASE OptimizeOpen
  <2>1. /\ getIndexReader /\ UNCHANGED <<barrels, nNumDocs, barrelInfos, cur>>
        /\ Merging' => triggerMerge_'
        /\ MergerUpdating => MergerUpdating'
        /\ Announced' => Announced
    BY <1>34, <1>a DEF OptimizeOpen, ReaderInv, Merging, MergerUpdating, Announced
  <2>2. CountInv' /\ \A b \in Live : Readable(b)' => Readable(b)
    BY <1>a, <2>1 DEF CountInv, Readable
  <2>. QED  BY <2>1, <2>2, ReaderOpened
<1>35. CASE OptimizeLock
  BY <1>35, <1>a, ReaderKept DEF OptimizeLock, ReaderInv, Merging, MergerUpdating, Announced, ControlTypes
<1>36. CASE OptimizeSnapshot
  BY <1>36, <1>a, ReaderKept DEF OptimizeSnapshot, ReaderInv, Merging, MergerUpdating, Announced, ControlTypes
<1>37. CASE OutputNewBarrel
  BY <1>37, <1>a, ReaderKept DEF OutputNewBarrel, ReaderInv, Merging, MergerUpdating, Announced, ControlTypes
<1>38. CASE CreateCheckPause
  BY <1>38, <1>a, ReaderKept DEF CreateCheckPause, ReaderInv, Merging, MergerUpdating, Announced, ControlTypes
<1>39. CASE CreateNewBarrelInfo
  <2>1. mpc = "replace" /\ mpc' \in {"add", "opt_clear"} /\ triggerMerge_' = triggerMerge_ /\ triggerMerge_
    BY <1>39 DEF CreateNewBarrelInfo, ReaderInv, Merging
  <2>2. DOMAIN barrels' = DOMAIN barrels \cup {Len(barrels) + 1}
    BY <1>a, <1>39, NewBarrelInfo
  <2>3. PICK v : nNumDocs' = Append(nNumDocs, v)
    BY <1>39 DEF CreateNewBarrelInfo
  <2>4. CountInv'
    BY <1>a, <2>2, <2>3, CountAdded
  <2>. QED  BY <2>1, <2>4 DEF ReaderInv, Merging, MergerUpdating
<1>40. CASE OptimizeDelDocFilter
  BY <1>40, <1>a, ReaderKept DEF OptimizeDelDocFilter, ReaderInv, Merging, MergerUpdating, Announced, ControlTypes
<1>41. CASE UpdateBarrelsSort
  <2>1. /\ mpc' = "dirty" /\ UNCHANGED <<barrels, nNumDocs>>
    BY <1>41 DEF UpdateBarrelsSort
  <2>. QED  BY <1>a, <2>1 DEF ReaderInv, CountInv, Merging, MergerUpdating
<1>42. CASE UpdateBarrelsSetDirty
  BY <1>42, <1>a, ReaderKept DEF UpdateBarrelsSetDirty, ReaderInv, Merging, MergerUpdating, Announced, ControlTypes
<1>43. CASE OptimizeMaxDoc
  BY <1>43, <1>a, ReaderKept DEF OptimizeMaxDoc, ReaderInv, Merging, MergerUpdating, Announced, ControlTypes
<1>44. CASE OptimizeReopen
  <2>1. /\ getIndexReader /\ UNCHANGED <<barrels, nNumDocs, barrelInfos, cur>>
        /\ Merging' => triggerMerge_'
        /\ MergerUpdating => MergerUpdating'
        /\ Announced' => Announced
    BY <1>44, <1>a DEF OptimizeReopen, ReaderInv, Merging, MergerUpdating, Announced
  <2>2. CountInv' /\ \A b \in Live : Readable(b)' => Readable(b)
    BY <1>a, <2>1 DEF CountInv, Readable
  <2>. QED  BY <2>1, <2>2, ReaderOpened
<1>45. CASE SearchGetIndexReader
  <2>1. /\ getIndexReader /\ UNCHANGED <<barrels, nNumDocs, barrelInfos, cur>>
        /\ Merging' => triggerMerge_'
        /\ MergerUpdating => MergerUpdating'
        /\ Announced' => Announced
    BY <1>45, <1>a DEF SearchGetIndexReader, ReaderInv, Merging, MergerUpdating, Announced
  <2>2. CountInv' /\ \A b \in Live : Readable(b)' => Readable(b)
    BY <1>a, <2>1 DEF CountInv, Readable
  <2>. QED  BY <2>1, <2>2, ReaderOpened
<1>46. CASE SearchGetTermReader
  <2>1. /\ readers' = {b \in Live : Readable(b)}
        /\ UNCHANGED <<barrels, nNumDocs, barrelInfos, cur, wpc, mpc, triggerMerge_>>
    BY <1>46 DEF SearchGetTermReader, createBarrelReader
  <2>2. Live' = Live /\ Flushed' \subseteq Live /\ \A b \in Live : Readable(b)' = Readable(b)
    BY <2>1 DEF Live, Flushed, Readable
  <2>. QED  BY <1>a, <2>1, <2>2 DEF ReaderInv, CountInv, Merging
<1>47. CASE UNCHANGED vars
  BY <1>47, ReaderKept DEF vars, ReaderInv, Merging, MergerUpdating, Announced
<1>. QED
  BY <1>1, <1>2, <1>3, <1>4, <1>5, <1>6, <1>7, <1>8, <1>9, <1>10, <1>11, <1>12, <1>13, <1>14, <1>15, <1>16, <1>17, <1>18, <1>19, <1>20, <1>21, <1>22, <1>23, <1>24, <1>25, <1>26, <1>27, <1>28, <1>29, <1>30, <1>31, <1>32, <1>33, <1>34, <1>35, <1>36, <1>37, <1>38, <1>39, <1>40, <1>41, <1>42, <1>43, <1>44, <1>45, <1>46, <1>47 DEF Next, WriterCall, WriterStep, MergerStep, SearchStep, Terminated

\* It holds in every state of every execution.
LEMMA ReaderInvariant ==
  ASSUME IsAsync \/ ~UseAddMerger
  PROVE  Spec => [](IndexInv /\ ReaderInv)
<1>1. Init => ReaderInv
  BY DEF Init, ReaderInv, CountInv, IsSequence, Merging
<1>2. IndexInv /\ ReaderInv /\ [Next]_vars => ReaderInv'
  BY ReaderInvStep
<1>. QED  BY <1>1, <1>2, IndexInvariant, PTL DEF Spec

\* A reader that is not dirty reads every flushed barrel that has documents and no
\* barrel whose files are gone, except while a merge is completing.
THEOREM ReaderCorrect ==
  ASSUME IsAsync \/ ~UseAddMerger
  PROVE  Spec => []ReaderCoherent
<1>1. ReaderInv => ReaderCoherent
  BY DEF ReaderInv, ReaderCoherent, Flushed
<1>. QED  BY <1>1, ReaderInvariant, PTL
=============================================================================
