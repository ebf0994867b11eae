------------------------ MODULE IndexRefinementProofs ------------------------
(***************************************************************************)
(* The index manager implements the set of documents of module DocIndex,   *)
(* for every value of the constants, as long as                            *)
(*   - the add merger is renewed before an optimization, that is, merging  *)
(*     runs in its own thread or there is no add merger, and               *)
(*   - no document is removed before it has been flushed.                  *)
(* The invariant below says why: while the optimizing merger holds         *)
(* docFilterMutex_, every deleted document is in a barrel it merges, so    *)
(* that delDocFilter() brings none back.                                   *)
(*                                                                         *)
(* Under stronger assumptions (no add merger, and no document removed a    *)
(* second time) the document counts of the barrels are exact as well.      *)
(***************************************************************************)
EXTENDS IndexReaderProofs

\* The optimizing merger is between its taking of docFilterMutex_ and
\* delDocFilter().
FilterHeld == mpc \in {"opt_snapshot", "opt_clear"} \/ (Merging /\ mjob = "optimize")

Removing == wpc \in {"rem_test", "rem_count", "rem_bit"}

\* A deleted document has an id that was given: a bit is set only for a document
\* inside the range of some barrel.
RangeInv ==
  /\ \A d \in filter : d < nextDoc
  /\ \A b \in Live : barrels[b].max <= IF wpc = "ins_count" THEN nextDoc ELSE nextDoc - 1
  /\ wpc = "rem_bit" => wdoc < nextDoc

\* The document to be removed is not in the current barrel, and no other barrel is
\* in memory until the index is closed.
RemovalInv ==
  /\ wdoc # 0 => Removing \/ wdoc < nextDoc
  /\ wdoc # 0 /\ cur # 0 => wdoc \notin barrels[cur].docs
  /\ \A b \in DOMAIN barrels : barrels[b].inMemory => b = cur \/ Closing
  /\ wpc = "ins_create" => cur = 0

\* No document of a barrel that escapes the optimizing merger is deleted.
FilterInv ==
  /\ FilterHeld => filterLock
  /\ \A b \in Live : barrels[b].inMemory => barrels[b].docs \cap filter = {}
  /\ Merging /\ mjob = "optimize" => \A b \in Live \ mq : barrels[b].docs \cap filter = {}
  /\ mpc = "opt_clear" => \A b \in Live : barrels[b].docs \cap filter = {}

\* The merged barrel has the documents of the barrels it replaces, without the
\* deleted ones if it is the optimizing merger that made it.
OutputInv ==
  mpc \in {"pause", "replace"} =>
    \A d \in Docs : d \in mout <=> (\E b \in mq : d \in barrels[b].docs) /\ (mjob = "optimize" => d \notin filter)

StoreInv == RangeInv /\ RemovalInv /\ FilterInv /\ OutputInv

------------------------------------------------------------------------------
(* The invariant *)

\* Every step keeps the invariant.
LEMMA StoreInvStep ==
  ASSUME IsAsync \/ ~UseAddMerger, "removeUnflushed" \notin Usage, IndexInv, StoreInv, [Next]_vars
  PROVE  StoreInv'
<1>. USE DEF btvars, indexVars, filterVars, readerVars, lockVars, writerVars, mergerVars, countVars
<1>a. /\ Typing /\ TypeOK /\ BarrelTypes /\ DocTypes /\ FlagTypes /\ ControlTypes
      /\ BarrelInv /\ DocInv /\ MergerInv
      /\ RangeInv /\ RemovalInv /\ FilterInv /\ OutputInv
  BY DEF IndexInv, StoreInv, Typing, TypeOK
<1>. USE DEF StoreInv
<1>b. /\ Len(barrels) \in Nat /\ DOMAIN barrels = 1 .. Len(barrels) /\ Live \subseteq DOMAIN barrels
      /\ mq \subseteq DOMAIN barrels /\ mq \subseteq Live /\ cur \in {0} \cup DOMAIN barrels
      /\ nextDoc \in Nat \ {0} /\ wdoc \in Nat /\ filter \subseteq Nat
  BY <1>a, LiveFinite DEF BarrelTypes, DocTypes, Docs, MergerInv
<1>c. \A b \in DOMAIN barrels : barrels[b].max \in Nat /\ barrels[b].base \in Nat /\ barrels[b].docs \subseteq Docs
  <2>. TAKE b \in DOMAIN barrels
  <2>1. barrels[b] \in Barrel
    BY <1>a, BarrelOf
  <2>. QED  BY <2>1, IndexMergeAssumption DEF Barrel, BAD_DOCID
<1>1. CASE SearchGetIndexReader
  BY <1>a, <1>1 DEF SearchGetIndexReader, RangeInv, RemovalInv, FilterInv, OutputInv, FilterHeld, Removing, Closing, Merging, Live
<1>2. CASE SearchGetTermReader
  BY <1>a, <1>2 DEF SearchGetTermReader, RangeInv, RemovalInv, FilterInv, OutputInv, FilterHeld, Removing, Closing, Merging, Live
<1>3. ASSUME NEW old \in {0} \cup Docs, InsertDocument(old) PROVE RangeInv' /\ RemovalInv' /\ FilterInv' /\ OutputInv'
  <2>1. CASE cur # 0
    <3>1. old # 0 => old < nextDoc /\ old \notin barrels[cur].docs
      BY <1>3, <2>1 DEF InsertDocument, MayRemove, Unflushed
    <3>. QED  BY <1>a, <1>3, <2>1, <3>1 DEF InsertDocument, RangeInv, RemovalInv, FilterInv, OutputInv, FilterHeld, Removing, Closing, Merging, Live
  <2>2. CASE cur = 0
    <3>1. createBarrelInfo
      BY <1>3, <2>2 DEF InsertDocument
    <3>. DEFINE new == Len(barrels) + 1
    <3>2. /\ DOMAIN barrels' = DOMAIN barrels \cup {new} /\ new \notin DOMAIN barrels
          /\ \A b \in DOMAIN barrels : barrels'[b] = barrels[b]
          /\ barrels'[new].docs = {} /\ barrels'[new].max = 0
          /\ Live' = Live \cup {new} /\ cur' = new
      BY <1>a, <3>1, CreatedBarrel DEF NewBarrel
    <3>3. /\ UNCHANGED <<nextDoc, filter, filterLock, mpc, mjob, mq, mout>> /\ cur = 0
          /\ wdoc' = old /\ (old # 0 => old < nextDoc)
          /\ wpc = "idle" /\ wpc' \in {"ins_realtime", "ins_base"}
      BY <1>3, <2>2, <3>1 DEF InsertDocument, createBarrelInfo
    <3>. HIDE DEF new
    <3>4. RangeInv'
      BY <1>a, <1>b, <3>2, <3>3 DEF RangeInv
    <3>5. RemovalInv'
      BY <1>a, <1>b, <3>2, <3>3 DEF RemovalInv, Removing, Closing
    <3>6. FilterInv'
      BY <1>a, <1>b, <3>2, <3>3 DEF FilterInv, FilterHeld, Merging
    <3>7. OutputInv'
      BY <1>a, <1>b, <3>2, <3>3 DEF OutputInv
    <3>. QED  BY <3>4, <3>5, <3>6, <3>7
  <2>. QED  BY <2>1, <2>2
<1>4. CASE InsertRealTime
  BY <1>a, <1>4 DEF InsertRealTime, RangeInv, RemovalInv, FilterInv, OutputInv, FilterHeld, Removing, Closing, Merging, Live
<1>5. CASE InsertCreateBarrel
  <2>1. createBarrelInfo
    BY <1>5 DEF InsertCreateBarrel
  <2>. DEFINE new == Len(barrels) + 1
  <2>2. /\ DOMAIN barrels' = DOMAIN barrels \cup {new} /\ new \notin DOMAIN barrels
        /\ \A b \in DOMAIN barrels : barrels'[b] = barrels[b]
        /\ barrels'[new].docs = {} /\ barrels'[new].max = 0
        /\ Live' = Live \cup {new} /\ cur' = new
    BY <1>a, <2>1, CreatedBarrel DEF NewBarrel
  <2>3. /\ UNCHANGED <<nextDoc, filter, filterLock, mpc, mjob, mq, mout, wdoc>> /\ cur = 0
        /\ wpc = "ins_create" /\ wpc' = "ins_base"
    BY <1>a, <1>5, <2>1 DEF InsertCreateBarrel, createBarrelInfo, RemovalInv
  <2>. HIDE DEF new
  <2>4. RangeInv'
    BY <1>a, <1>b, <2>2, <2>3 DEF RangeInv
  <2>5. RemovalInv'
    BY <1>a, <1>b, <2>2, <2>3 DEF RemovalInv, Removing, Closing
  <2>6. FilterInv'
    BY <1>a, <1>b, <2>2, <2>3 DEF FilterInv, FilterHeld, Merging
  <2>7. OutputInv'
    BY <1>a, <1>b, <2>2, <2>3 DEF OutputInv
  <2>. QED  BY <2>4, <2>5, <2>6, <2>7
<1>6. CASE InsertBaseDocID
  <2>1. cur \in DOMAIN barrels
    BY <1>a, <1>b, <1>6 DEF InsertBaseDocID, Typing
  <2>2. DOMAIN barrels' = DOMAIN barrels /\ nextDoc' = nextDoc /\ UNCHANGED <<cur, barrelInfos, filter, filterLock, mpc, mjob, mq, mout, wdoc>> /\ Live' = Live
    BY <1>a, <1>6 DEF InsertBaseDocID, BarrelTypes, Live
  <2>3. \A b \in DOMAIN barrels : barrels'[b].docs = barrels[b].docs
    <3>. TAKE b \in DOMAIN barrels
    <3>1. barrels[b] \in Barrel
      BY <1>a, BarrelOf
    <3>. QED  BY <1>a, <1>6, <2>1, <3>1 DEF InsertBaseDocID, BarrelTypes, Barrel
  <2>4. \A b \in DOMAIN barrels : barrels'[b].inMemory = barrels[b].inMemory
    <3>. TAKE b \in DOMAIN barrels
    <3>1. barrels[b] \in Barrel
      BY <1>a, BarrelOf
    <3>. QED  BY <1>a, <1>6, <2>1, <3>1 DEF InsertBaseDocID, BarrelTypes, Barrel
  <2>5. \A b \in DOMAIN barrels : barrels'[b].max = IF b = cur /\ nextDoc > barrels[b].max THEN nextDoc ELSE barrels[b].max
    <3>. TAKE b \in DOMAIN barrels
    <3>1. barrels[b] \in Barrel
      BY <1>a, BarrelOf
    <3>. QED  BY <1>a, <1>6, <2>1, <3>1 DEF InsertBaseDocID, BarrelTypes, Barrel
  <2>6. wpc = "ins_base" /\ wpc' = "ins_count"
    BY <1>a, <1>6, <2>1 DEF InsertBaseDocID, Typing, BarrelInv, Written
  <2>7. RangeInv'
    BY <1>a, <1>b, <1>c, <2>1, <2>2, <2>5, <2>6 DEF RangeInv
  <2>8. RemovalInv'
    BY <1>a, <1>b, <2>1, <2>2, <2>3, <2>4, <2>6 DEF RemovalInv, Removing, Closing
  <2>10. FilterInv'
    BY <1>a, <1>b, <2>1, <2>2, <2>3, <2>4, <2>6 DEF FilterInv, FilterHeld, Merging
  <2>11. OutputInv'
    BY <1>a, <1>b, <2>1, <2>2, <2>3, <2>6 DEF OutputInv
  <2>. QED  BY <2>7, <2>8, <2>10, <2>11
<1>7. CASE InsertAddDocument
  <2>1. cur \in DOMAIN barrels
    BY <1>a, <1>b, <1>7 DEF InsertAddDocument, Typing
  <2>2. DOMAIN barrels' = DOMAIN barrels /\ nextDoc' = nextDoc + 1 /\ UNCHANGED <<cur, barrelInfos, filter, filterLock, mpc, mjob, mq, mout, wdoc>> /\ Live' = Live
    BY <1>a, <1>7 DEF InsertAddDocument, BarrelTypes, Live
  <2>3. \A b \in DOMAIN barrels : barrels'[b].docs = IF b = cur THEN barrels[b].docs \cup {nextDoc} ELSE barrels[b].docs
    <3>. TAKE b \in DOMAIN barrels
    <3>1. barrels[b] \in Barrel
      BY <1>a, BarrelOf
    <3>. QED  BY <1>a, <1>7, <2>1, <3>1 DEF InsertAddDocument, BarrelTypes, Barrel
  <2>4. \A b \in DOMAIN barrels : barrels'[b].inMemory = barrels[b].inMemory
    <3>. TAKE b \in DOMAIN barrels
    <3>1. barrels[b] \in Barrel
      BY <1>a, BarrelOf
    <3>. QED  BY <1>a, <1>7, <2>1, <3>1 DEF InsertAddDocument, BarrelTypes, Barrel
  <2>5. \A b \in DOMAIN barrels : barrels'[b].max = barrels[b].max
    <3>. TAKE b \in DOMAIN barrels
    <3>1. barrels[b] \in Barrel
      BY <1>a, BarrelOf
    <3>. QED  BY <1>a, <1>7, <2>1, <3>1 DEF InsertAddDocument, BarrelTypes, Barrel
  <2>6. wpc = "ins_count" /\ wpc' = (IF wdoc = 0 THEN "idle" ELSE "rem_test") /\ barrels[cur].inMemory
    BY <1>a, <1>7, <2>1 DEF InsertAddDocument, Typing, BarrelInv, Written
  <2>7. RangeInv'
    BY <1>a, <1>b, <1>c, <2>1, <2>2, <2>5, <2>6 DEF RangeInv
  <2>8. RemovalInv'
    <3>1. wdoc # 0 => wdoc < nextDoc /\ wdoc \notin barrels[cur].docs
      BY <1>a, <1>b, <2>1, <2>6 DEF RemovalInv, Removing
    <3>2. (wdoc # 0 => Removing \/ wdoc < nextDoc)'
      BY <1>b, <2>2, <3>1
    <3>3. (wdoc # 0 /\ cur # 0 => wdoc \notin barrels[cur].docs)'
      <4>1. wdoc' = wdoc /\ cur' = cur /\ barrels'[cur].docs = barrels[cur].docs \cup {nextDoc}
        BY <2>1, <2>2, <2>3
      <4>2. wdoc # 0 => wdoc # nextDoc
        BY <1>b, <3>1
      <4>. QED  BY <4>1, <4>2, <3>1
    <3>4. (\A b \in DOMAIN barrels : barrels[b].inMemory => b = cur \/ Closing)'
      BY <1>a, <2>2, <2>4, <2>6 DEF RemovalInv, Closing
    <3>. QED  BY <2>6, <3>2, <3>3, <3>4 DEF RemovalInv
  <2>9. nextDoc \notin filter /\ cur \notin mq
    BY <1>a, <1>b, <2>6 DEF RangeInv, MergerInv
  <2>10. FilterInv'
    BY <1>a, <1>b, <2>1, <2>2, <2>3, <2>4, <2>6, <2>9 DEF FilterInv, FilterHeld, Merging
  <2>11. OutputInv'
    BY <1>a, <1>b, <2>1, <2>2, <2>3, <2>6, <2>9 DEF OutputInv
  <2>. QED  BY <2>7, <2>8, <2>10, <2>11
<1>8. ASSUME NEW d \in Docs, RemoveDocument(d) PROVE RangeInv' /\ RemovalInv' /\ FilterInv' /\ OutputInv'
  <2>1. cur # 0 => d \notin barrels[cur].docs
    BY <1>8 DEF RemoveDocument, MayRemove, Unflushed
  <2>. QED  BY <1>a, <1>8, <2>1 DEF RemoveDocument, RangeInv, RemovalInv, FilterInv, OutputInv, FilterHeld, Removing, Closing, Merging, Live
<1>9. CASE RemoveTestFilter
  BY <1>a, <1>9 DEF RemoveTestFilter, WriterReturns, RangeInv, RemovalInv, FilterInv, OutputInv, FilterHeld, Removing, Closing, Merging, Live
<1>10. CASE RemoveCountDown
  <2>1. wpc = "rem_count" /\ UNCHANGED <<barrels, barrelInfos, cur, nextDoc, filter, filterLock, mpc, mjob, mq, mout>>
    BY <1>10 DEF RemoveCountDown
  <2>2. CASE wpc' = "idle" /\ wdoc' = 0
    BY <1>a, <2>1, <2>2 DEF RangeInv, RemovalInv, FilterInv, OutputInv, FilterHeld, Removing, Closing, Merging, Live
  <2>3. CASE Covering(wdoc) # {} /\ wpc' = "rem_bit" /\ wdoc' = wdoc
    <3>1. PICK i \in DOMAIN barrelInfos : barrels[barrelInfos[i]].base <= wdoc /\ wdoc <= barrels[barrelInfos[i]].max
      BY <2>3 DEF Covering
    <3>2. barrelInfos[i] \in Live /\ barrels[barrelInfos[i]].max <= nextDoc - 1
      BY <1>a, <2>1 DEF Live, RangeInv
    <3>3. wdoc < nextDoc
      BY <1>b, <1>c, <3>1, <3>2
    <3>. QED  BY <1>a, <2>1, <2>3, <3>3 DEF RangeInv, RemovalInv, FilterInv, OutputInv, FilterHeld, Removing, Closing, Merging, Live
  <2>. QED  BY <1>10, <2>2, <2>3 DEF RemoveCountDown, WriterReturns
<1>11. CASE RemoveSetBit
  <2>1. /\ wpc = "rem_bit" /\ ~filterLock /\ filter' = filter \cup {wdoc} /\ wpc' = "idle" /\ wdoc' = 0
        /\ UNCHANGED <<barrels, barrelInfos, cur, nextDoc, filterLock, mpc, mjob, mq, mout>> /\ Live' = Live
    BY <1>11 DEF RemoveSetBit, WriterReturns, Live
  <2>2. ~FilterHeld /\ wdoc # 0 /\ wdoc < nextDoc
    BY <1>a, <2>1 DEF FilterInv, RangeInv, Typing
  <2>3. \A b \in Live : barrels[b].inMemory => wdoc \notin barrels[b].docs
    BY <1>a, <1>b, <2>1, <2>2 DEF RemovalInv, Closing
  <2>4. RangeInv' /\ RemovalInv'
    BY <1>a, <2>1, <2>2 DEF RangeInv, RemovalInv, Removing, Closing
  <2>5. FilterInv'
    BY <1>a, <2>1, <2>2, <2>3 DEF FilterInv, FilterHeld, Merging
  <2>6. OutputInv'
    BY <1>a, <2>1, <2>2 DEF OutputInv, FilterHeld, Merging
  <2>. QED  BY <2>4, <2>5, <2>6
<1>12. CASE Flush
  BY <1>a, <1>12 DEF Flush, RangeInv, RemovalInv, FilterInv, OutputInv, FilterHeld, Removing, Closing, Merging, Live
<1>13. CASE FlushWrite
  <2>1. cur \in DOMAIN barrels
    BY <1>a, <1>b, <1>13 DEF FlushWrite, Typing
  <2>2. DOMAIN barrels' = DOMAIN barrels /\ nextDoc' = nextDoc /\ UNCHANGED <<cur, barrelInfos, filter, filterLock, mpc, mjob, mq, mout, wdoc>> /\ Live' = Live
    BY <1>a, <1>13 DEF FlushWrite, BarrelTypes, Live
  <2>3. \A b \in DOMAIN barrels : barrels'[b].docs = barrels[b].docs
    <3>. TAKE b \in DOMAIN barrels
    <3>1. barrels[b] \in Barrel
      BY <1>a, BarrelOf
    <3>. QED  BY <1>a, <1>13, <2>1, <3>1 DEF FlushWrite, BarrelTypes, Barrel
  <2>4. \A b \in DOMAIN barrels : barrels'[b].inMemory = (barrels[b].inMemory /\ b # cur)
    <3>. TAKE b \in DOMAIN barrels
    <3>1. barrels[b] \in Barrel
      BY <1>a, BarrelOf
    <3>. QED  BY <1>a, <1>13, <2>1, <3>1 DEF FlushWrite, BarrelTypes, Barrel
  <2>5. \A b \in DOMAIN barrels : barrels'[b].max = barrels[b].max
    <3>. TAKE b \in DOMAIN barrels
    <3>1. barrels[b] \in Barrel
      BY <1>a, BarrelOf
    <3>. QED  BY <1>a, <1>13, <2>1, <3>1 DEF FlushWrite, BarrelTypes, Barrel
  <2>6. wpc = "fl_write" /\ wpc' = "fl_searchable"
    BY <1>a, <1>13, <2>1 DEF FlushWrite, Typing, BarrelInv, Written
  <2>7. RangeInv'
    BY <1>a, <1>b, <1>c, <2>1, <2>2, <2>5, <2>6 DEF RangeInv
  <2>8. RemovalInv'
    BY <1>a, <1>b, <2>1, <2>2, <2>3, <2>4, <2>6 DEF RemovalInv, Removing, Closing
  <2>10. FilterInv'
    BY <1>a, <1>b, <2>1, <2>2, <2>3, <2>4, <2>6 DEF FilterInv, FilterHeld, Merging
  <2>11. OutputInv'
    BY <1>a, <1>b, <2>1, <2>2, <2>3, <2>6 DEF OutputInv
  <2>. QED  BY <2>7, <2>8, <2>10, <2>11
<1>14. CASE FlushSetSearchable
  <2>1. cur \in DOMAIN barrels
    BY <1>a, <1>b, <1>14 DEF FlushSetSearchable, Typing
  <2>2. DOMAIN barrels' = DOMAIN barrels /\ nextDoc' = nextDoc /\ UNCHANGED <<cur, barrelInfos, filter, filterLock, mpc, mjob, mq, mout, wdoc>> /\ Live' = Live
    BY <1>a, <1>14 DEF FlushSetSearchable, BarrelTypes, Live
  <2>3. \A b \in DOMAIN barrels : barrels'[b].docs = barrels[b].docs
    <3>. TAKE b \in DOMAIN barrels
    <3>1. barrels[b] \in Barrel
      BY <1>a, BarrelOf
    <3>. QED  BY <1>a, <1>14, <2>1, <3>1 DEF FlushSetSearchable, BarrelTypes, Barrel
  <2>4. \A b \in DOMAIN barrels : barrels'[b].inMemory = barrels[b].inMemory
    <3>. TAKE b \in DOMAIN barrels
    <3>1. barrels[b] \in Barrel
      BY <1>a, BarrelOf
    <3>. QED  BY <1>a, <1>14, <2>1, <3>1 DEF FlushSetSearchable, BarrelTypes, Barrel
  <2>5. \A b \in DOMAIN barrels : barrels'[b].max = barrels[b].max
    <3>. TAKE b \in DOMAIN barrels
    <3>1. barrels[b] \in Barrel
      BY <1>a, BarrelOf
    <3>. QED  BY <1>a, <1>14, <2>1, <3>1 DEF FlushSetSearchable, BarrelTypes, Barrel
  <2>6. wpc = "fl_searchable" /\ wpc' = "fl_reopen"
    BY <1>a, <1>14, <2>1 DEF FlushSetSearchable, Typing, BarrelInv, Written
  <2>7. RangeInv'
    BY <1>a, <1>b, <1>c, <2>1, <2>2, <2>5, <2>6 DEF RangeInv
  <2>8. RemovalInv'
    BY <1>a, <1>b, <2>1, <2>2, <2>3, <2>4, <2>6 DEF RemovalInv, Removing, Closing
  <2>10. FilterInv'
    BY <1>a, <1>b, <2>1, <2>2, <2>3, <2>4, <2>6 DEF FilterInv, FilterHeld, Merging
  <2>11. OutputInv'
    BY <1>a, <1>b, <2>1, <2>2, <2>3, <2>6 DEF OutputInv
  <2>. QED  BY <2>7, <2>8, <2>10, <2>11
<1>15. CASE FlushReopen
  BY <1>a, <1>15 DEF FlushReopen, RangeInv, RemovalInv, FilterInv, OutputInv, FilterHeld, Removing, Closing, Merging, Live
<1>16. CASE FlushAddToMerge
  BY <1>a, <1>16 DEF FlushAddToMerge, StartAdd, RangeInv, RemovalInv, FilterInv, OutputInv, FilterHeld, Removing, Closing, Merging, Live
<1>17. CASE FlushEnd
  <2>1. wret \in {"idle", "fl_dirty", "ins_create", "opt_push"} /\ ~barrels[cur].inMemory
    BY <1>a, <1>17 DEF FlushEnd, ControlTypes, BarrelInv, Written
  <2>. QED  BY <1>a, <1>17, <2>1 DEF FlushEnd, RangeInv, RemovalInv, FilterInv, OutputInv, FilterHeld, Removing, Closing, Merging, Live
<1>18. CASE FlushSetDirty
  BY <1>a, <1>18 DEF FlushSetDirty, RangeInv, RemovalInv, FilterInv, OutputInv, FilterHeld, Removing, Closing, Merging, Live
<1>19. CASE FlushDocFilter
  BY <1>a, <1>19 DEF FlushDocFilter, WriterReturns, RangeInv, RemovalInv, FilterInv, OutputInv, FilterHeld, Removing, Closing, Merging, Live
<1>20. CASE OptimizeIndex
  BY <1>a, <1>20 DEF OptimizeIndex, RangeInv, RemovalInv, FilterInv, OutputInv, FilterHeld, Removing, Closing, Merging, Live
<1>21. CASE OptimizePush
  BY <1>a, <1>21 DEF OptimizePush, StartOptimize, RangeInv, RemovalInv, FilterInv, OutputInv, FilterHeld, Removing, Closing, Merging, Live
<1>22. CASE OptimizeReturn
  BY <1>a, <1>22 DEF OptimizeReturn, WriterReturns, RangeInv, RemovalInv, FilterInv, OutputInv, FilterHeld, Removing, Closing, Merging, Live
<1>23. CASE Close
  BY <1>a, <1>23 DEF Close, RangeInv, RemovalInv, FilterInv, OutputInv, FilterHeld, Removing, Closing, Merging, Live
<1>24. CASE CloseLock
  BY <1>a, <1>24 DEF CloseLock, RangeInv, RemovalInv, FilterInv, OutputInv, FilterHeld, Removing, Closing, Merging, Live
<1>25. CASE CloseJoin
  BY <1>a, <1>25 DEF CloseJoin, RangeInv, RemovalInv, FilterInv, OutputInv, FilterHeld, Removing, Closing, Merging, Live
<1>26. CASE WaitForMergeFinish
  BY <1>a, <1>26 DEF WaitForMergeFinish, RangeInv, RemovalInv, FilterInv, OutputInv, FilterHeld, Removing, Closing, Merging, Live
<1>27. CASE WaitJoin
  BY <1>a, <1>27 DEF WaitJoin, RangeInv, RemovalInv, FilterInv, OutputInv, FilterHeld, Removing, Closing, Merging, Live
<1>28. CASE PauseMerge
  BY <1>a, <1>28 DEF PauseMerge, RangeInv, RemovalInv, FilterInv, OutputInv, FilterHeld, Removing, Closing, Merging, Live
<1>29. CASE ResumeMerge
  BY <1>a, <1>29 DEF ResumeMerge, RangeInv, RemovalInv, FilterInv, OutputInv, FilterHeld, Removing, Closing, Merging, Live
<1>30. CASE PopAdd
  BY <1>a, <1>30 DEF PopAdd, StartAdd, RangeInv, RemovalInv, FilterInv, OutputInv, FilterHeld, Removing, Closing, Merging, Live
<1>31. CASE PopOptimize
  BY <1>a, <1>31 DEF PopOptimize, StartOptimize, RangeInv, RemovalInv, FilterInv, OutputInv, FilterHeld, Removing, Closing, Merging, Live
<1>32. CASE PopExit
  BY <1>a, <1>32 DEF PopExit, RangeInv, RemovalInv, FilterInv, OutputInv, FilterHeld, Removing, Closing, Merging, Live
<1>33. CASE AddToPolicy
  BY <1>a, <1>33 DEF AddToPolicy, RangeInv, RemovalInv, FilterInv, OutputInv, FilterHeld, Removing, Closing, Merging, Live
<1>34. CASE PolicyStep
  BY <1>a, <1>34 DEF PolicyStep, RangeInv, RemovalInv, FilterInv, OutputInv, FilterHeld, Removing, Closing, Merging, Live
<1>35. CASE PolicyMerge
  <2>1. mjob = "add"
    BY <1>a, <1>35 DEF PolicyMerge, MergerInv
  <2>. QED  BY <1>a, <1>35, <2>1 DEF PolicyMerge, RangeInv, RemovalInv, FilterInv, OutputInv, FilterHeld, Removing, Closing, Merging, Live
<1>36. CASE OptimizeOpen
  BY <1>a, <1>36 DEF OptimizeOpen, RangeInv, RemovalInv, FilterInv, OutputInv, FilterHeld, Removing, Closing, Merging, Live
<1>37. CASE OptimizeLock
  BY <1>a, <1>37 DEF OptimizeLock, RangeInv, RemovalInv, FilterInv, OutputInv, FilterHeld, Removing, Closing, Merging, Live
<1>38. CASE OptimizeSnapshot
  BY <1>a, <1>38 DEF OptimizeSnapshot, RangeInv, RemovalInv, FilterInv, OutputInv, FilterHeld, Removing, Closing, Merging, Live
<1>39. CASE OutputNewBarrel
  <2>1. RangeInv' /\ RemovalInv' /\ FilterInv'
    BY <1>a, <1>39 DEF OutputNewBarrel, RangeInv, RemovalInv, FilterInv, FilterHeld, Removing, Closing, Merging, Live
  <2>. DEFINE U == UNION {barrels[b].docs : b \in mq}
              F == IF mjob = "optimize" THEN filter ELSE {}
  <2>2. mout' = U \ F /\ UNCHANGED <<barrels, mq, filter, mjob>>
    BY <1>39 DEF OutputNewBarrel
  <2>3. \A d : d \in U <=> \E b \in mq : d \in barrels[b].docs
    OBVIOUS
  <2>4. \A d : d \in F <=> mjob = "optimize" /\ d \in filter
    OBVIOUS
  <2>5. OutputInv'
    <3>. HIDE DEF U, F
    <3>. QED  BY <2>2, <2>3, <2>4 DEF OutputInv
  <2>. QED  BY <2>1, <2>5
<1>40. CASE CreateCheckPause
  BY <1>a, <1>40 DEF CreateCheckPause, RangeInv, RemovalInv, FilterInv, OutputInv, FilterHeld, Removing, Closing, Merging, Live
<1>41. CASE CreateNewBarrelInfo
  <2>. DEFINE new == Len(barrels) + 1
  <2>1. /\ DOMAIN barrels' = DOMAIN barrels \cup {new} /\ new \notin DOMAIN barrels
        /\ \A b \in DOMAIN barrels : barrels'[b].inMemory = barrels[b].inMemory
        /\ \A b \in DOMAIN barrels \ mq : barrels'[b].docs = barrels[b].docs
        /\ barrels'[new].docs = mout /\ ~barrels'[new].inMemory
        /\ Live' = (Live \ mq) \cup {new}
    BY <1>a, <1>41, ReplacedBarrels
  <2>2. \A b \in DOMAIN barrels : barrels'[b].max = barrels[b].max /\ barrels'[b].docs \subseteq barrels[b].docs
    <3>. TAKE b \in DOMAIN barrels
    <3>1. barrels[b] \in Barrel
      BY <1>a, BarrelOf
    <3>2. barrels'[b] = IF RemovedByMerge(b) THEN [barrels[b] EXCEPT !.docs = {}] ELSE barrels[b]
      BY <1>a, <1>41, NewBarrelInfo
    <3>. QED  BY <3>1, <3>2 DEF Barrel
  <2>3. \/ barrels'[new].max = 0
        \/ \E b \in mq : barrels'[new].max = barrels[b].max
    <3>. DEFINE M == {0} \cup {barrels[b].max : b \in mq}
    <3>1. barrels'[new].max = Max(M)
      <4>1. barrels'[new] = Merged
        BY <1>a, <1>41, NewBarrelInfo
      <4>. QED  BY <4>1 DEF Merged
    <3>2. M \in SUBSET (0 .. MaxDoc) /\ M # {}
      <4>1. \A b \in mq : barrels[b] \in Barrel
        BY <1>a, <1>b, BarrelOf
      <4>. QED  BY <4>1, IndexMergeAssumption DEF Barrel
    <3>3. Max(M) \in M
      <4>. HIDE DEF M
      <4>. QED  BY <3>2, MaxOfNaturals, IndexMergeAssumption
    <3>. QED  BY <3>1, <3>3
  <2>4. /\ mpc = "replace" /\ mq' = {} /\ UNCHANGED <<nextDoc, cur, filter, filterLock, mjob, wpc, wdoc>>
        /\ mjob = "add" => mpc' = "add"
        /\ mjob # "add" => mpc' = "opt_clear"
    BY <1>41 DEF CreateNewBarrelInfo
  <2>. HIDE DEF new
  <2>5. RangeInv'
    BY <1>a, <1>b, <2>1, <2>2, <2>3, <2>4 DEF RangeInv
  <2>6. RemovalInv'
    BY <1>a, <1>b, <2>1, <2>2, <2>4 DEF RemovalInv, Removing, Closing
  <2>7. FilterInv'
    <3>1. mjob \in {"add", "optimize"} /\ \A b \in mq : ~barrels[b].inMemory
      BY <1>a DEF ControlTypes, MergerInv
    <3>2. mjob = "optimize" => mout \cap filter = {}
      BY <1>a, <2>4 DEF OutputInv, DocTypes
    <3>. QED  BY <1>a, <1>b, <2>1, <2>4, <3>1, <3>2 DEF FilterInv, FilterHeld, Merging
  <2>8. OutputInv'
    BY <2>4 , <1>a DEF OutputInv, ControlTypes
  <2>. QED  BY <2>5, <2>6, <2>7, <2>8
<1>42. CASE OptimizeDelDocFilter
  BY <1>a, <1>42 DEF OptimizeDelDocFilter, RangeInv, RemovalInv, FilterInv, OutputInv, FilterHeld, Removing, Closing, Merging, Live
<1>43. CASE UpdateBarrelsSort
  <2>1. Live' = Live
    BY <1>a, <1>43, SortTypes
  <2>2. mpc = "sort" /\ mpc' = "dirty" /\ UNCHANGED <<barrels, nextDoc, cur, filter, filterLock, mjob, mq, mout, wpc, wdoc>>
    BY <1>43 DEF UpdateBarrelsSort
  <2>. QED  BY <1>a, <2>1, <2>2 DEF RangeInv, RemovalInv, FilterInv, OutputInv, FilterHeld, Removing, Closing, Merging
<1>44. CASE UpdateBarrelsSetDirty
  BY <1>a, <1>44 DEF UpdateBarrelsSetDirty, RangeInv, RemovalInv, FilterInv, OutputInv, FilterHeld, Removing, Closing, Merging, Live
<1>45. CASE OptimizeMaxDoc
  BY <1>a, <1>45 DEF OptimizeMaxDoc, RangeInv, RemovalInv, FilterInv, OutputInv, FilterHeld, Removing, Closing, Merging, Live
<1>46. CASE OptimizeReopen
  BY <1>a, <1>46 DEF OptimizeReopen, RangeInv, RemovalInv, FilterInv, OutputInv, FilterHeld, Removing, Closing, Merging, Live
<1>47. CASE UNCHANGED vars
  BY <1>a, <1>47 DEF vars, RangeInv, RemovalInv, FilterInv, OutputInv, FilterHeld, Removing, Closing, Merging, Live
<1>. QED
  BY <1>1, <1>2, <1>3, <1>4, <1>5, <1>6, <1>7, <1>8, <1>9, <1>10, <1>11, <1>12, <1>13, <1>14, <1>15, <1>16, <1>17, <1>18, <1>19, <1>20, <1>21, <1>22, <1>23, <1>24, <1>25, <1>26, <1>27, <1>28, <1>29, <1>30, <1>31, <1>32, <1>33, <1>34, <1>35, <1>36, <1>37, <1>38, <1>39, <1>40, <1>41, <1>42, <1>43, <1>44, <1>45, <1>46, <1>47 DEF Next, WriterCall, WriterStep, MergerStep, SearchStep, Terminated

\* The invariant holds in every reachable state.
LEMMA StoreInvariant ==
  ASSUME IsAsync \/ ~UseAddMerger, "removeUnflushed" \notin Usage
  PROVE  Spec => [](IndexInv /\ StoreInv)
<1>1. Init => StoreInv
  <2>. SUFFICES ASSUME Init PROVE StoreInv
    OBVIOUS
  <2>1. Live = {} /\ DOMAIN barrels = {}
    BY DEF Init, Live
  <2>. QED  BY <2>1 DEF Init, StoreInv, RangeInv, RemovalInv, FilterInv, OutputInv, FilterHeld, Merging
<1>2. IndexInv /\ StoreInv /\ [Next]_vars => StoreInv'
  BY StoreInvStep
<1>. QED  BY <1>1, <1>2, IndexInvariant, PTL DEF Spec

------------------------------------------------------------------------------
(* Refinement *)

\* A document is stored if some barrel of the index has it and it is not deleted.
LEMMA StoredDef ==
  /\ \A d : d \in Stored <=> (\E b \in Live : d \in barrels[b].docs) /\ d \notin filter
  /\ \A d : d \in Stored' <=> (\E b \in Live' : d \in barrels'[b].docs) /\ d \notin filter'
<1>1. \A d : d \in UNION {barrels[b].docs : b \in Live} <=> \E b \in Live : d \in barrels[b].docs
  OBVIOUS
<1>2. \A d : d \in UNION {barrels'[b].docs : b \in Live'} <=> \E b \in Live' : d \in barrels'[b].docs
  OBVIOUS
<1>. QED  BY <1>1, <1>2 DEF Stored

\* What a step does to the set of documents: InsertAddDocument adds the next one,
\* RemoveSetBit takes one out, and every other step of a writer, a merger or a
\* reader leaves the set as it is.
LEMMA StoredStep ==
  ASSUME IsAsync \/ ~UseAddMerger, IndexInv, StoreInv, [Next]_vars
  PROVE  \/ nextDoc <= MaxDoc /\ nextDoc' = nextDoc + 1 /\ Stored' = Stored \cup {nextDoc}
         \/ wdoc \in Docs /\ nextDoc' = nextDoc /\ Stored' = Stored \ {wdoc}
         \/ nextDoc' = nextDoc /\ Stored' = Stored
<1>. USE DEF btvars, indexVars, filterVars, readerVars, lockVars, writerVars, mergerVars, countVars
<1>a. /\ Typing /\ BarrelTypes /\ DocTypes /\ ControlTypes /\ BarrelInv /\ MergerInv
      /\ RangeInv /\ FilterInv /\ OutputInv
  BY DEF IndexInv, StoreInv, Typing, TypeOK
<1>b. Live \subseteq DOMAIN barrels /\ mq \subseteq Live
  BY <1>a, LiveFinite DEF MergerInv
<1>c. UNCHANGED <<nextDoc, barrels, barrelInfos, filter>> => nextDoc' = nextDoc /\ Stored' = Stored
  BY DEF Stored, Live
<1>d. ASSUME UNCHANGED <<nextDoc, filter>>, createBarrelInfo
      PROVE  nextDoc' = nextDoc /\ Stored' = Stored
  <2>. DEFINE new == Len(barrels) + 1
  <2>1. /\ \A b \in Live : barrels'[b] = barrels[b]
        /\ barrels'[new].docs = {} /\ Live' = Live \cup {new}
    BY <1>a, <1>b, <1>d, CreatedBarrel DEF NewBarrel
  <2>. HIDE DEF new
  <2>2. \A d : d \in Stored' <=> d \in Stored
    BY <1>d, <2>1, StoredDef
  <2>. QED  BY <1>d, <2>2
<1>e. ASSUME UNCHANGED <<nextDoc, filter, barrelInfos>>, \A b \in DOMAIN barrels : barrels'[b].docs = barrels[b].docs
      PROVE  nextDoc' = nextDoc /\ Stored' = Stored
  <2>1. Live' = Live
    BY <1>e DEF Live
  <2>2. \A d : d \in Stored' <=> d \in Stored
    BY <1>b, <1>e, <2>1, StoredDef
  <2>. QED  BY <1>e, <2>2
<1>1. CASE SearchStep
  BY <1>1, <1>c DEF SearchStep, SearchGetIndexReader, SearchGetTermReader
<1>2. ASSUME NEW old \in {0} \cup Docs, InsertDocument(old)
      PROVE  nextDoc' = nextDoc /\ Stored' = Stored
  <2>1. CASE cur = 0
    <3>1. createBarrelInfo /\ UNCHANGED <<nextDoc, filter>>
      BY <1>2, <2>1 DEF InsertDocument, createBarrelInfo
    <3>. QED  BY <1>d, <3>1
  <2>2. CASE cur # 0
    BY <1>2, <1>c, <2>2 DEF InsertDocument
  <2>. QED  BY <2>1, <2>2
<1>3. CASE InsertRealTime
  BY <1>3, <1>c DEF InsertRealTime
<1>4. CASE InsertCreateBarrel
  <2>1. createBarrelInfo /\ UNCHANGED <<nextDoc, filter>>
    BY <1>4 DEF InsertCreateBarrel, createBarrelInfo
  <2>. QED  BY <1>d, <2>1
<1>5. CASE InsertBaseDocID
  <2>1. \A b \in DOMAIN barrels : barrels'[b].docs = barrels[b].docs
    BY <1>a, <1>5, BarrelOf DEF InsertBaseDocID, BarrelTypes, Barrel, Typing
  <2>. QED  BY <1>5, <1>e, <2>1 DEF InsertBaseDocID
<1>6. CASE InsertAddDocument
  <2>1. cur \in DOMAIN barrels /\ cur \in Live /\ nextDoc <= MaxDoc
    BY <1>a, <1>6 DEF InsertAddDocument, Typing, BarrelTypes, BarrelInv, Written
  <2>2. /\ Live' = Live /\ filter' = filter /\ nextDoc' = nextDoc + 1
        /\ \A b \in DOMAIN barrels : barrels'[b].docs = IF b = cur THEN barrels[b].docs \cup {nextDoc} ELSE barrels[b].docs
    BY <1>a, <1>6, <2>1, BarrelOf DEF InsertAddDocument, Live, BarrelTypes, Barrel
  <2>3. nextDoc \notin filter
    BY <1>a DEF RangeInv, DocTypes
  <2>4. \A d : d \in Stored' <=> d \in Stored \/ d = nextDoc
    BY <1>b, <2>1, <2>2, <2>3, StoredDef
  <2>. QED  BY <2>1, <2>2, <2>4
<1>7. ASSUME NEW d \in Docs, RemoveDocument(d)
      PROVE  nextDoc' = nextDoc /\ Stored' = Stored
  BY <1>7, <1>c DEF RemoveDocument
<1>8. CASE RemoveTestFilter
  BY <1>8, <1>c DEF RemoveTestFilter
<1>9. CASE RemoveCountDown
  BY <1>9, <1>c DEF RemoveCountDown
<1>10. CASE RemoveSetBit
  <2>1. wdoc \in Docs /\ nextDoc' = nextDoc /\ barrels' = barrels /\ Live' = Live /\ filter' = filter \cup {wdoc}
    BY <1>a, <1>10 DEF RemoveSetBit, Typing, DocTypes, Live
  <2>2. \A d : d \in Stored' <=> d \in Stored /\ d # wdoc
    BY <2>1, StoredDef
  <2>. QED  BY <2>1, <2>2
<1>11. CASE FlushWrite
  <2>1. \A b \in DOMAIN barrels : barrels'[b].docs = barrels[b].docs
    BY <1>a, <1>11, BarrelOf DEF FlushWrite, BarrelTypes, Barrel, Typing
  <2>. QED  BY <1>11, <1>e, <2>1 DEF FlushWrite
<1>12. CASE FlushSetSearchable
  <2>1. \A b \in DOMAIN barrels : barrels'[b].docs = barrels[b].docs
    BY <1>a, <1>12, BarrelOf DEF FlushSetSearchable, BarrelTypes, Barrel, Typing
  <2>. QED  BY <1>12, <1>e, <2>1 DEF FlushSetSearchable
<1>13. CASE Flush \/ FlushReopen \/ FlushAddToMerge \/ FlushEnd \/ FlushSetDirty \/ FlushDocFilter
  BY <1>13, <1>c DEF Flush, FlushReopen, FlushAddToMerge, FlushEnd, FlushSetDirty, FlushDocFilter
<1>14. CASE OptimizeIndex \/ OptimizePush \/ OptimizeReturn \/ Close \/ CloseLock \/ CloseJoin
  BY <1>14, <1>c DEF OptimizeIndex, OptimizePush, OptimizeReturn, Close, CloseLock, CloseJoin
<1>15. CASE WaitForMergeFinish \/ WaitJoin \/ PauseMerge \/ ResumeMerge
  BY <1>15, <1>c DEF WaitForMergeFinish, WaitJoin, PauseMerge, ResumeMerge
<1>16. CASE PopAdd \/ PopOptimize \/ PopExit \/ AddToPolicy \/ PolicyStep \/ PolicyMerge
  BY <1>16, <1>c DEF PopAdd, PopOptimize, PopExit, AddToPolicy, PolicyStep, PolicyMerge
<1>17. CASE OptimizeOpen \/ OptimizeLock \/ OptimizeSnapshot \/ OutputNewBarrel \/ CreateCheckPause
  BY <1>17, <1>c DEF OptimizeOpen, OptimizeLock, OptimizeSnapshot, OutputNewBarrel, CreateCheckPause
<1>18. CASE CreateNewBarrelInfo
  <2>. DEFINE new == Len(barrels) + 1
  <2>1. /\ \A b \in Live \ mq : barrels'[b].docs = barrels[b].docs
        /\ barrels'[new].docs = mout /\ Live' = (Live \ mq) \cup {new}
    BY <1>a, <1>b, <1>18, ReplacedBarrels
  <2>2. mpc = "replace" /\ UNCHANGED <<nextDoc, filter>>
    BY <1>18 DEF CreateNewBarrelInfo
  <2>3. \A d : d \notin filter => (d \in mout <=> \E b \in mq : d \in barrels[b].docs)
    <3>1. mout \subseteq Docs /\ \A b \in mq : barrels[b].docs \subseteq Docs
      BY <1>a, <1>b, BarrelOf DEF DocTypes
    <3>. QED  BY <1>a, <2>2, <3>1 DEF OutputInv
  <2>. HIDE DEF new
  <2>4. \A d : d \in Stored' <=> d \in Stored
    BY <1>b, <2>1, <2>2, <2>3, StoredDef
  <2>. QED  BY <2>2, <2>4
<1>19. CASE OptimizeDelDocFilter
  <2>1. UNCHANGED <<nextDoc, barrels>> /\ Live' = Live /\ filter' = {} /\ mpc = "opt_clear"
    BY <1>19 DEF OptimizeDelDocFilter, Live
  <2>2. \A b \in Live : barrels[b].docs \cap filter = {}
    BY <1>a, <2>1 DEF FilterInv
  <2>3. \A d : d \in Stored' <=> d \in Stored
    BY <2>1, <2>2, StoredDef
  <2>. QED  BY <2>1, <2>3
<1>20. CASE UpdateBarrelsSort
  <2>1. Live' = Live /\ UNCHANGED <<nextDoc, barrels, filter>>
    BY <1>a, <1>20, SortTypes DEF UpdateBarrelsSort
  <2>. QED  BY <2>1 DEF Stored
<1>21. CASE UpdateBarrelsSetDirty \/ OptimizeMaxDoc \/ OptimizeReopen
  BY <1>21, <1>c DEF UpdateBarrelsSetDirty, OptimizeMaxDoc, OptimizeReopen
<1>22. CASE UNCHANGED vars
  BY <1>22, <1>c DEF vars
<1>. QED
  BY <1>1, <1>2, <1>3, <1>4, <1>5, <1>6, <1>7, <1>8, <1>9, <1>10, <1>11, <1>12, <1>13, <1>14, <1>15, <1>16, <1>17, <1>18, <1>19, <1>20, <1>21, <1>22 DEF Next, WriterCall, WriterStep, MergerStep, Terminated

\* For a caller of class Indexer the index is the set of documents of DocIndex,
\* whatever is flushed, merged, optimized, paused or reopened meanwhile.
THEOREM ImplementsDocIndex ==
  ASSUME IsAsync \/ ~UseAddMerger, "removeUnflushed" \notin Usage
  PROVE  Spec => IsDocIndex
<1>1. Init => Index!Init
  <2>. SUFFICES ASSUME Init PROVE Index!Init
    OBVIOUS
  <2>1. nextDoc - 1 = 0
    BY DEF Init
  <2>2. Live = {}
    BY DEF Init, Live
  <2>3. Stored = {}
    BY <2>2, StoredDef
  <2>. QED  BY <2>1, <2>3 DEF Index!Init
<1>2. IndexInv /\ StoreInv /\ [Next]_vars => [Index!Next]_<<nextDoc - 1, Stored>>
  <2>. SUFFICES ASSUME IndexInv, StoreInv, [Next]_vars
                PROVE  Index!Next \/ (nextDoc' - 1 = nextDoc - 1 /\ Stored' = Stored)
    OBVIOUS
  <2>1. nextDoc \in Nat \ {0} /\ MaxDoc \in Nat
    BY IndexMergeAssumption DEF IndexInv, Typing, TypeOK, DocTypes
  <2>2. CASE nextDoc <= MaxDoc /\ nextDoc' = nextDoc + 1 /\ Stored' = Stored \cup {nextDoc}
    <3>1. Index!Insert
      BY <2>1, <2>2 DEF Index!Insert
    <3>. QED  BY <3>1 DEF Index!Next
  <2>3. CASE wdoc \in Docs /\ nextDoc' = nextDoc /\ Stored' = Stored \ {wdoc}
    <3>1. Index!Remove(wdoc)
      BY <2>3 DEF Index!Remove
    <3>. QED  BY <2>3, <3>1 DEF Index!Next, Docs
  <2>4. CASE nextDoc' = nextDoc /\ Stored' = Stored
    BY <2>4
  <2>. QED  BY <2>2, <2>3, <2>4, StoredStep
<1>. QED  BY <1>1, <1>2, StoreInvariant, PTL DEF Spec, IsDocIndex, Index!Spec

------------------------------------------------------------------------------
(* The document counts *)

\* The range of document ids of barrel a ends before that of barrel b begins.
Below(a, b) == barrels[a].max < barrels[b].base

\* Without an add merger the ranges of the barrels are disjoint: what is in memory
\* comes last, and the optimizing merger takes all that comes first.
SpanInv ==
  /\ \A b \in Live : \A d \in barrels[b].docs : barrels[b].base <= d /\ d <= barrels[b].max
  /\ wpc = "ins_count" => barrels[cur].base <= nextDoc /\ nextDoc <= barrels[cur].max
  /\ \A a, b \in Live : a # b => Below(a, b) \/ Below(b, a)
  /\ \A a, b \in Live : a # b /\ barrels[b].inMemory => Below(a, b)
  /\ Merging => \A a \in mq : \A b \in Live \ mq : Below(a, b)

\* A document that is not deleted, and that some barrel has if its id was given.
Removable(d) == d \notin filter /\ (d < nextDoc => \E b \in Live : d \in barrels[b].docs)

\* The document to be removed stays in the index, merged or not, until it is counted.
PendingInv == wdoc # 0 /\ wpc # "rem_bit" => Removable(wdoc)

NumInv == SpanInv /\ PendingInv /\ NumDocsExact

\* What all cases below need of the other invariants.
LEMMA NumTypes ==
  ASSUME IndexInv, StoreInv
  PROVE  /\ Typing /\ BarrelTypes /\ DocTypes /\ ControlTypes /\ BarrelInv /\ DocInv /\ MergerInv
         /\ RangeInv /\ RemovalInv /\ FilterInv /\ OutputInv
         /\ Live \subseteq DOMAIN barrels /\ mq \subseteq Live /\ IsFiniteSet(mq)
         /\ cur \in {0} \cup DOMAIN barrels /\ 0 \notin DOMAIN barrels
         /\ nextDoc \in Nat \ {0} /\ wdoc \in Nat /\ MaxDoc \in Nat
         /\ \A b \in DOMAIN barrels : /\ barrels[b] \in Barrel /\ barrels[b].docs \subseteq Docs
                                      /\ barrels[b].base \in Nat \ {0} /\ barrels[b].max \in Nat
                                      /\ barrels[b].max < BAD_DOCID
<1>1. /\ Typing /\ BarrelTypes /\ DocTypes /\ ControlTypes /\ BarrelInv /\ DocInv /\ MergerInv
      /\ RangeInv /\ RemovalInv /\ FilterInv /\ OutputInv
  BY DEF IndexInv, StoreInv, Typing, TypeOK
<1>2. Live \subseteq DOMAIN barrels /\ mq \in SUBSET Live /\ IsFiniteSet(Live)
  BY <1>1, LiveFinite DEF MergerInv
<1>3. IsFiniteSet(mq)
  BY <1>2, FS_Subset
<1>4. cur \in {0} \cup DOMAIN barrels /\ 0 \notin DOMAIN barrels
  BY <1>1, SequenceOfValues DEF BarrelTypes
<1>5. nextDoc \in Nat \ {0} /\ wdoc \in Nat /\ MaxDoc \in Nat
  BY <1>1, IndexMergeAssumption DEF DocTypes, Docs
<1>6. ASSUME NEW b \in DOMAIN barrels
      PROVE  /\ barrels[b] \in Barrel /\ barrels[b].docs \subseteq Docs
             /\ barrels[b].base \in Nat \ {0} /\ barrels[b].max \in Nat /\ barrels[b].max < BAD_DOCID
  <2>1. barrels[b] \in Barrel
    BY <1>1, BarrelOf
  <2>. QED  BY <1>5, <2>1 DEF Barrel, BAD_DOCID
<1>. QED  BY <1>1, <1>2, <1>3, <1>4, <1>5, <1>6

\* The steps that change no barrel, no count and no bit.
LEMMA NumQuiet ==
  ASSUME NumInv, UNCHANGED <<barrels, nNumDocs, filter, nextDoc>>, Live' = Live,
         wpc' # "ins_count" \/ UNCHANGED <<wpc, cur>>,
         wdoc' = wdoc \/ wdoc' = 0 \/ Removable(wdoc'),
         wpc' = "rem_bit" <=> wpc = "rem_bit",
         wpc = "rem_bit" => wdoc' = wdoc,
         Merging' => Merging /\ mq' = mq
  PROVE  NumInv'
<1>1. SpanInv'
  BY DEF NumInv, SpanInv, Below
<1>2. PendingInv'
  BY DEF NumInv, PendingInv, Removable
<1>3. CountedNotMarked' = CountedNotMarked
  BY DEF CountedNotMarked
<1>4. NumDocsExact'
  BY <1>3 DEF NumInv, NumDocsExact
<1>. QED  BY <1>1, <1>2, <1>4 DEF NumInv

\* The steps that change only flags of the current barrel.
LEMMA NumFlags ==
  ASSUME NumInv, Live \subseteq DOMAIN barrels, UNCHANGED <<nNumDocs, filter, nextDoc, mpc, mq, wdoc>>, Live' = Live,
         \A b \in DOMAIN barrels : /\ barrels'[b].docs = barrels[b].docs
                                   /\ barrels'[b].base = barrels[b].base /\ barrels'[b].max = barrels[b].max
                                   /\ barrels'[b].inMemory => barrels[b].inMemory,
         mq \subseteq Live, wpc' \notin {"ins_count", "rem_bit"}, wpc # "rem_bit"
  PROVE  NumInv'
<1>1. SpanInv'
  <2>1. \A a, b \in Live : Below(a, b)' <=> Below(a, b)
    BY DEF Below
  <2>2. \A a \in mq : \A b \in Live \ mq : Below(a, b)' <=> Below(a, b)
    BY <2>1
  <2>. QED  BY <2>1, <2>2 DEF NumInv, SpanInv, Merging
<1>2. PendingInv'
  BY DEF NumInv, PendingInv, Removable
<1>3. CountedNotMarked' = CountedNotMarked
  BY DEF CountedNotMarked
<1>4. NumDocsExact'
  BY <1>3 DEF NumInv, NumDocsExact
<1>. QED  BY <1>1, <1>2, <1>4 DEF NumInv

\* Creating the current barrel.
LEMMA NumCreated ==
  ASSUME IndexInv, StoreInv, CountInv, NumInv, createBarrelInfo, UNCHANGED <<filter, mpc, mq>>,
         wpc' \notin {"ins_count", "rem_bit"}, wpc # "rem_bit",
         wdoc' = wdoc \/ wdoc' = 0 \/ Removable(wdoc')
  PROVE  NumInv'
<1>0. PICK new : new = Len(barrels) + 1
  OBVIOUS
<1>1. /\ BarrelTypes /\ Live \subseteq DOMAIN barrels /\ mq \subseteq Live
      /\ \A b \in DOMAIN barrels : /\ barrels[b].base \in Nat \ {0} /\ barrels[b].max \in Nat
                                   /\ barrels[b].max < BAD_DOCID
  BY NumTypes
<1>2. /\ DOMAIN barrels' = DOMAIN barrels \cup {new} /\ new \notin DOMAIN barrels
      /\ \A b \in DOMAIN barrels : barrels'[b] = barrels[b]
      /\ barrels'[new].docs = {} /\ barrels'[new].base = BAD_DOCID /\ barrels'[new].max = 0
      /\ Live' = Live \cup {new} /\ nextDoc' = nextDoc
  BY <1>0, <1>1, CreatedBarrel DEF NewBarrel
<1>3. nNumDocs'[new] = 0 /\ \A b \in DOMAIN barrels : nNumDocs'[b] = nNumDocs[b]
  <2>1. nNumDocs' = Append(nNumDocs, 0)
    BY DEF createBarrelInfo
  <2>. QED  BY <1>0, <1>1, <1>2, <2>1, CountAdded
<1>4. SpanInv'
  <2>1. \A a, b \in Live : Below(a, b)' <=> Below(a, b)
    BY <1>1, <1>2 DEF Below
  <2>2. \A a \in Live : Below(a, new)' /\ Below(new, a)'
    BY <1>1, <1>2 DEF Below
  <2>3. \A b \in Live' : \A d \in barrels'[b].docs : barrels'[b].base <= d /\ d <= barrels'[b].max
    BY <1>1, <1>2 DEF NumInv, SpanInv
  <2>4. /\ \A a, b \in Live' : a # b => Below(a, b)' \/ Below(b, a)'
        /\ \A a, b \in Live' : a # b /\ barrels'[b].inMemory => Below(a, b)'
    BY <1>1, <1>2, <2>1, <2>2 DEF NumInv, SpanInv
  <2>5. Merging' => \A a \in mq' : \A b \in Live' \ mq' : Below(a, b)'
    BY <1>1, <1>2, <2>1, <2>2 DEF NumInv, SpanInv, Merging
  <2>. QED  BY <2>3, <2>4, <2>5 DEF SpanInv
<1>5. PendingInv'
  BY <1>1, <1>2 DEF NumInv, PendingInv, Removable
<1>6. CountedNotMarked' = CountedNotMarked
  BY DEF CountedNotMarked
<1>7. NumDocsExact'
  <2>. SUFFICES ASSUME NEW b \in Live'
                PROVE  nNumDocs'[b] = Cardinality(barrels'[b].docs \ (filter' \cup CountedNotMarked'))
    BY DEF NumDocsExact
  <2>1. CASE b = new
    <3>1. barrels'[b].docs \ (filter' \cup CountedNotMarked') = {}
      BY <1>2, <2>1
    <3>. QED  BY <1>3, <2>1, <3>1, FS_EmptySet
  <2>2. CASE b \in Live
    BY <1>1, <1>2, <1>3, <1>6, <2>2 DEF NumInv, NumDocsExact
  <2>. QED  BY <1>2, <2>1, <2>2
<1>. QED  BY <1>4, <1>5, <1>7 DEF NumInv

\* The range of the current barrel grows to the next document id: it comes last.
LEMMA NumRangeGrown ==
  ASSUME IndexInv, StoreInv, NumInv, InsertBaseDocID
  PROVE  NumInv'
<1>. USE DEF indexVars, filterVars, mergerVars
<1>1. /\ Typing /\ BarrelTypes /\ BarrelInv /\ MergerInv /\ RangeInv /\ RemovalInv
      /\ Live \subseteq DOMAIN barrels /\ mq \subseteq Live /\ nextDoc \in Nat
      /\ cur \in {0} \cup DOMAIN barrels /\ wpc = "ins_base"
      /\ \A b \in DOMAIN barrels : barrels[b] \in Barrel /\ barrels[b].base \in Nat /\ barrels[b].max \in Nat
  BY NumTypes DEF InsertBaseDocID
<1>2. cur \in DOMAIN barrels /\ barrels[cur].inMemory /\ cur \notin mq /\ cur \in Live
  BY <1>1 DEF Typing, BarrelInv, MergerInv, Written
<1>3. \A b \in Live : barrels[b].max < nextDoc /\ (barrels[b].inMemory => b = cur)
  BY <1>1 DEF RangeInv, RemovalInv, Closing
<1>4. /\ UNCHANGED <<nNumDocs, filter, nextDoc, cur, wdoc, mpc, mq>> /\ wpc' = "ins_count"
      /\ Live' = Live
  BY DEF InsertBaseDocID, Live
<1>5. /\ \A b \in DOMAIN barrels \ {cur} : barrels'[b] = barrels[b]
      /\ barrels'[cur] = [barrels[cur] EXCEPT !.base = IF @ > nextDoc THEN nextDoc ELSE @,
                                              !.max = IF nextDoc > @ THEN nextDoc ELSE @]
  BY <1>1, <1>2 DEF InsertBaseDocID, BarrelTypes, Barrel
<1>6. /\ barrels'[cur].docs = barrels[cur].docs /\ barrels'[cur].inMemory
      /\ barrels'[cur].base = (IF barrels[cur].base > nextDoc THEN nextDoc ELSE barrels[cur].base)
      /\ barrels'[cur].max = nextDoc
  BY <1>1, <1>2, <1>3, <1>5 DEF Barrel
<1>7. \A a \in Live \ {cur} : barrels'[a] = barrels[a] /\ barrels'[a].max < barrels'[cur].base
  <2>. TAKE a \in Live \ {cur}
  <2>1. barrels'[a] = barrels[a]
    BY <1>1, <1>5
  <2>2. barrels[a].max < barrels[cur].base
    BY <1>2 DEF NumInv, SpanInv, Below
  <2>. QED  BY <1>1, <1>3, <1>6, <2>1, <2>2
<1>8. \A b \in Live : \A d \in barrels'[b].docs : barrels'[b].base <= d /\ d <= barrels'[b].max
  <2>. SUFFICES ASSUME NEW b \in Live, NEW d \in barrels'[b].docs
                PROVE  barrels'[b].base <= d /\ d <= barrels'[b].max
    OBVIOUS
  <2>1. CASE b = cur
    <3>1. d \in barrels[cur].docs /\ d \in Nat
      BY <1>1, <1>2, <1>6, <2>1 DEF Barrel, Docs
    <3>2. barrels[cur].base <= d /\ d <= barrels[cur].max
      BY <1>2, <3>1 DEF NumInv, SpanInv
    <3>. QED  BY <1>1, <1>2, <1>3, <1>6, <2>1, <3>1, <3>2
  <2>2. CASE b # cur
    BY <1>7, <2>2 DEF NumInv, SpanInv
  <2>. QED  BY <2>1, <2>2
<1>9. barrels'[cur].base <= nextDoc /\ nextDoc <= barrels'[cur].max
  BY <1>1, <1>2, <1>6
<1>10. \A a, b \in Live : a # b => barrels'[a].max < barrels'[b].base \/ barrels'[b].max < barrels'[a].base
  BY <1>7 DEF NumInv, SpanInv, Below
<1>11. \A a, b \in Live : a # b /\ barrels'[b].inMemory => barrels'[a].max < barrels'[b].base
  <2>. SUFFICES ASSUME NEW a \in Live, NEW b \in Live, a # b, barrels'[b].inMemory
                PROVE  barrels'[a].max < barrels'[b].base
    OBVIOUS
  <2>1. b = cur
    BY <1>3, <1>7
  <2>. QED  BY <1>7, <2>1
<1>12. Merging => \A a \in mq : \A b \in Live \ mq : barrels'[a].max < barrels'[b].base
  <2>. SUFFICES ASSUME Merging, NEW a \in mq, NEW b \in Live \ mq PROVE barrels'[a].max < barrels'[b].base
    OBVIOUS
  <2>1. a \in Live /\ a # cur
    BY <1>1, <1>2
  <2>2. CASE b = cur
    BY <1>7, <2>1, <2>2
  <2>3. CASE b # cur
    BY <1>7, <2>1, <2>3 DEF NumInv, SpanInv, Below
  <2>. QED  BY <2>2, <2>3
<1>13. SpanInv'
  BY <1>4, <1>8, <1>9, <1>10, <1>11, <1>12 DEF SpanInv, Below, Merging
<1>14. \A b \in Live : barrels'[b].docs = barrels[b].docs
  BY <1>6, <1>7
<1>15. PendingInv'
  BY <1>1, <1>4, <1>14 DEF NumInv, PendingInv, Removable
<1>16. CountedNotMarked' = CountedNotMarked
  BY <1>1, <1>4 DEF CountedNotMarked
<1>17. NumDocsExact'
  BY <1>4, <1>14, <1>16 DEF NumInv, NumDocsExact
<1>. QED  BY <1>13, <1>15, <1>17 DEF NumInv

\* The documents of a barrel that count are finitely many.
LEMMA CountedFinite ==
  ASSUME IndexInv, StoreInv, NEW b \in DOMAIN barrels, NEW X
  PROVE  /\ IsFiniteSet(barrels[b].docs \ X) /\ Cardinality(barrels[b].docs \ X) \in Nat
<1>1. IsFiniteSet(Docs)
  BY FS_Interval, IndexMergeAssumption DEF Docs
<1>2. barrels[b].docs \ X \in SUBSET Docs
  BY NumTypes
<1>. QED  BY <1>1, <1>2, FS_Subset, FS_CardinalityType

\* A document is added to the current barrel and counted.
LEMMA NumAdded ==
  ASSUME IndexInv, StoreInv, CountInv, NumInv, InsertAddDocument
  PROVE  NumInv'
<1>. USE DEF indexVars, filterVars, mergerVars
<1>1. /\ Typing /\ BarrelTypes /\ DocInv /\ MergerInv /\ BarrelInv /\ RangeInv /\ RemovalInv
      /\ Live \subseteq DOMAIN barrels /\ mq \subseteq Live /\ nextDoc \in Nat /\ wdoc \in Nat
      /\ cur \in {0} \cup DOMAIN barrels /\ wpc = "ins_count"
      /\ \A b \in DOMAIN barrels : barrels[b] \in Barrel
  BY NumTypes DEF InsertAddDocument
<1>2. cur \in DOMAIN barrels /\ cur \in Live
  BY <1>1 DEF Typing, BarrelInv, Written
<1>3. /\ UNCHANGED <<filter, cur, wdoc, mpc, mq>> /\ nextDoc' = nextDoc + 1 /\ Live' = Live
      /\ wpc' \in {"idle", "rem_test"}
      /\ nNumDocs' = [nNumDocs EXCEPT ![cur] = nNumDocs[cur] + 1]
  BY DEF InsertAddDocument, Live
<1>4. /\ DOMAIN barrels' = DOMAIN barrels
      /\ \A b \in DOMAIN barrels \ {cur} : barrels'[b] = barrels[b]
      /\ barrels'[cur] = [barrels[cur] EXCEPT !.docs = @ \cup {nextDoc}]
  BY <1>1, <1>2 DEF InsertAddDocument, BarrelTypes, Barrel
<1>5. /\ barrels'[cur].docs = barrels[cur].docs \cup {nextDoc} /\ barrels'[cur].inMemory = barrels[cur].inMemory
      /\ barrels'[cur].base = barrels[cur].base /\ barrels'[cur].max = barrels[cur].max
  BY <1>1, <1>2, <1>4 DEF Barrel
<1>6. \A b \in Live : /\ barrels'[b].base = barrels[b].base /\ barrels'[b].max = barrels[b].max
                      /\ barrels'[b].inMemory = barrels[b].inMemory
                      /\ barrels[b].docs \subseteq barrels'[b].docs
  BY <1>1, <1>4, <1>5
<1>7. SpanInv'
  <2>1. \A a, b \in Live : Below(a, b)' <=> Below(a, b)
    BY <1>6 DEF Below
  <2>2. \A a \in mq : \A b \in Live \ mq : Below(a, b)' <=> Below(a, b)
    BY <1>1, <2>1
  <2>3. \A b \in Live : \A d \in barrels'[b].docs : barrels'[b].base <= d /\ d <= barrels'[b].max
    BY <1>1, <1>4, <1>5, <1>6 DEF NumInv, SpanInv
  <2>. QED  BY <1>3, <1>6, <2>1, <2>2, <2>3 DEF NumInv, SpanInv, Merging
<1>8. PendingInv'
  <2>1. wdoc # 0 => wdoc < nextDoc /\ Removable(wdoc)
    BY <1>1 DEF NumInv, PendingInv, RemovalInv, Removing
  <2>. QED  BY <1>3, <1>6, <2>1 DEF PendingInv, Removable
<1>9. CountedNotMarked = {} /\ CountedNotMarked' = {}
  BY <1>1, <1>3 DEF CountedNotMarked
<1>10. \A b \in DOMAIN barrels : b # cur => nNumDocs'[b] = nNumDocs[b]
  BY <1>1, <1>3, <1>4, CountChanged
<1>11. nNumDocs'[cur] = nNumDocs[cur] + 1
  BY <1>2, <1>3 DEF CountInv
<1>12. NumDocsExact'
  <2>. SUFFICES ASSUME NEW b \in Live PROVE nNumDocs'[b] = Cardinality(barrels'[b].docs \ filter)
    BY <1>3, <1>9 DEF NumDocsExact
  <2>1. nNumDocs[b] = Cardinality(barrels[b].docs \ filter)
    BY <1>9 DEF NumInv, NumDocsExact
  <2>2. CASE b = cur
    <3>1. nextDoc \notin barrels[b].docs /\ nextDoc \notin filter
      BY <1>1 DEF DocInv, RangeInv
    <3>2. barrels'[b].docs \ filter = (barrels[b].docs \ filter) \cup {nextDoc}
      BY <1>5, <2>2, <3>1
    <3>3. IsFiniteSet(barrels[b].docs \ filter) /\ nextDoc \notin barrels[b].docs \ filter
      BY <1>1, <3>1, CountedFinite
    <3>4. Cardinality((barrels[b].docs \ filter) \cup {nextDoc}) = Cardinality(barrels[b].docs \ filter) + 1
      BY <3>3, FS_AddElement
    <3>. QED  BY <1>11, <2>1, <2>2, <3>2, <3>4
  <2>3. CASE b # cur
    BY <1>1, <1>4, <1>10, <2>1, <2>3
  <2>. QED  BY <2>2, <2>3
<1>. QED  BY <1>7, <1>8, <1>12 DEF NumInv

\* The barrel that counts one document less is the one that has the document.
LEMMA NumCountedDown ==
  ASSUME IndexInv, StoreInv, CountInv, NumInv, RemoveCountDown
  PROVE  NumInv'
<1>. USE DEF indexVars, filterVars, mergerVars
<1>. DEFINE found == Covering(wdoc)
<1>0. PICK b : b = barrelInfos[Max(found)]
  OBVIOUS
<1>1. /\ Typing /\ BarrelTypes /\ DocInv /\ RangeInv
      /\ Live \subseteq DOMAIN barrels /\ nextDoc \in Nat /\ wdoc \in Nat
      /\ \A c \in DOMAIN barrels : /\ barrels[c].base \in Nat /\ barrels[c].max \in Nat
                                   /\ barrels[c].docs \subseteq Docs
  BY NumTypes
<1>2. /\ wpc = "rem_count" /\ UNCHANGED <<barrels, filter, nextDoc, cur, mpc, mq>> /\ Live' = Live
  BY DEF RemoveCountDown, Live
<1>3. CASE UNCHANGED nNumDocs /\ WriterReturns
  BY <1>2, <1>3, NumQuiet DEF WriterReturns, Merging
<1>4. CASE /\ found # {} /\ nNumDocs' = [nNumDocs EXCEPT ![b] = nNumDocs[b] - 1]
           /\ wpc' = "rem_bit" /\ wdoc' = wdoc
  <2>1. Max(found) \in found
    <3>1. found \in SUBSET (1 .. Len(barrelInfos)) /\ Len(barrelInfos) \in Nat /\ found # {}
      BY <1>1, <1>4 DEF Covering, BarrelTypes
    <3>2. found \in SUBSET (0 .. Len(barrelInfos))
      BY <3>1
    <3>. HIDE DEF found
    <3>. QED  BY <3>1, <3>2, MaxOfNaturals
  <2>2. b \in Live /\ barrels[b].base <= wdoc /\ wdoc <= barrels[b].max
    BY <1>0, <2>1 DEF Covering, Live
  <2>3. wdoc < nextDoc /\ wdoc # 0
    BY <1>1, <1>2, <2>2 DEF RangeInv, Typing
  <2>4. PICK c \in Live : wdoc \in barrels[c].docs
    BY <1>2, <2>3 DEF NumInv, PendingInv, Removable
  <2>5. wdoc \notin filter
    BY <1>2, <2>3 DEF NumInv, PendingInv, Removable
  <2>6. c = b
    <3>1. barrels[c].base <= wdoc /\ wdoc <= barrels[c].max
      BY <2>4 DEF NumInv, SpanInv
    <3>2. ~Below(b, c) /\ ~Below(c, b)
      BY <1>1, <2>2, <2>4, <3>1 DEF Below
    <3>. QED  BY <2>2, <2>4, <3>2 DEF NumInv, SpanInv
  <2>7. CountedNotMarked = {} /\ CountedNotMarked' = {wdoc}
    BY <1>2, <1>4 DEF CountedNotMarked
  <2>8. \A a \in DOMAIN barrels : a # b => nNumDocs'[a] = nNumDocs[a]
    BY <1>1, <1>2, <1>4, CountChanged
  <2>9. nNumDocs'[b] = nNumDocs[b] - 1
    BY <1>1, <1>4, <2>2 DEF CountInv
  <2>10. NumDocsExact'
    <3>. SUFFICES ASSUME NEW a \in Live PROVE nNumDocs'[a] = Cardinality(barrels[a].docs \ (filter \cup {wdoc}))
      BY <1>2, <2>7 DEF NumDocsExact
    <3>1. nNumDocs[a] = Cardinality(barrels[a].docs \ filter)
      BY <2>7 DEF NumInv, NumDocsExact
    <3>2. CASE a = b
      <4>. DEFINE S == barrels[a].docs \ filter
      <4>1. IsFiniteSet(S) /\ wdoc \in S /\ Cardinality(S) \in Nat
        BY <1>1, <2>4, <2>5, <2>6, <3>2, CountedFinite
      <4>2. barrels[a].docs \ (filter \cup {wdoc}) = S \ {wdoc}
        OBVIOUS
      <4>. HIDE DEF S
      <4>3. Cardinality(S \ {wdoc}) = Cardinality(S) - 1
        BY <4>1, FS_RemoveElement
      <4>. QED  BY <2>9, <3>1, <3>2, <4>2, <4>3 DEF S
    <3>3. CASE a # b
      <4>1. wdoc \notin barrels[a].docs
        BY <1>1, <2>4, <2>6, <3>3 DEF DocInv, DocsInOneBarrel
      <4>2. barrels[a].docs \ (filter \cup {wdoc}) = barrels[a].docs \ filter
        BY <4>1
      <4>. QED  BY <1>1, <2>8, <3>1, <3>3, <4>2
    <3>. QED  BY <3>2, <3>3
  <2>11. SpanInv'
    BY <1>2, <1>4 DEF NumInv, SpanInv, Below, Merging
  <2>12. PendingInv'
    BY <1>4 DEF PendingInv
  <2>. QED  BY <2>10, <2>11, <2>12 DEF NumInv
<1>. QED  BY <1>0, <1>3, <1>4 DEF RemoveCountDown

\* The merged barrel spans the barrels it replaces and counts what they counted.
LEMMA NumReplaced ==
  ASSUME ~UseAddMerger, IndexInv, StoreInv, CountInv, NumInv, CreateNewBarrelInfo
  PROVE  NumInv'
<1>. USE DEF filterVars, writerVars
<1>0. PICK new : new = Len(barrels) + 1
  OBVIOUS
<1>1. /\ Typing /\ BarrelTypes /\ DocTypes /\ BarrelInv /\ DocInv /\ MergerInv /\ FilterInv /\ OutputInv
      /\ Live \subseteq DOMAIN barrels /\ mq \subseteq Live /\ IsFiniteSet(mq)
      /\ cur \in {0} \cup DOMAIN barrels /\ MaxDoc \in Nat /\ mpc = "replace"
      /\ \A b \in DOMAIN barrels : /\ barrels[b] \in Barrel /\ barrels[b].docs \subseteq Docs
                                   /\ barrels[b].base \in Nat \ {0} /\ barrels[b].max \in Nat
  BY NumTypes DEF CreateNewBarrelInfo
<1>2. mjob = "optimize" /\ Merging
  BY <1>1 DEF MergerInv, Merging, Typing, TypeOK, ControlTypes
<1>3. /\ DOMAIN barrels' = DOMAIN barrels \cup {new} /\ new \notin DOMAIN barrels
      /\ barrels'[new] = Merged /\ \A b \in DOMAIN barrels \ mq : barrels'[b] = barrels[b]
      /\ Live' = (Live \ mq) \cup {new}
  BY <1>0, <1>1, NewBarrelInfo, ReplacedBarrels DEF RemovedByMerge
<1>4. /\ UNCHANGED <<filter, wpc, wdoc, cur, nextDoc>> /\ mpc' = "opt_clear"
  BY <1>2 DEF CreateNewBarrelInfo
<1>5. /\ barrels'[new].docs = mout /\ ~barrels'[new].inMemory
      /\ barrels'[new].base = Min({BAD_DOCID} \cup {barrels[b].base : b \in mq})
      /\ barrels'[new].max = Max({0} \cup {barrels[b].max : b \in mq})
  BY <1>3 DEF Merged
<1>6. /\ \A a \in mq : barrels'[new].base <= barrels[a].base /\ barrels[a].max <= barrels'[new].max
      /\ barrels'[new].max = 0 \/ \E a \in mq : barrels'[new].max = barrels[a].max
      /\ barrels'[new].base \in Nat /\ barrels'[new].max \in Nat
  <2>. DEFINE B == {BAD_DOCID} \cup {barrels[b].base : b \in mq}
              M == {0} \cup {barrels[b].max : b \in mq}
  <2>1. Min(B) \in B /\ \A m \in B : Min(B) <= m
    <3>1. B \in SUBSET Nat /\ B # {}
      BY <1>1 DEF BAD_DOCID
    <3>. HIDE DEF B
    <3>. QED  BY <3>1, MinOfNaturals
  <2>2. Max(M) \in M /\ \A m \in M : m <= Max(M)
    <3>1. M \in SUBSET (0 .. MaxDoc) /\ M # {}
      BY <1>1 DEF Barrel
    <3>. HIDE DEF M
    <3>. QED  BY <1>1, <3>1, MaxOfNaturals
  <2>3. B \subseteq Nat /\ M \subseteq Nat
    BY <1>1 DEF BAD_DOCID
  <2>4. barrels'[new].base = Min(B) /\ barrels'[new].max = Max(M)
    BY <1>5
  <2>5. \A a \in mq : barrels[a].base \in B /\ barrels[a].max \in M
    OBVIOUS
  <2>6. Max(M) = 0 \/ \E a \in mq : Max(M) = barrels[a].max
    BY <2>2
  <2>. HIDE DEF B, M
  <2>. QED  BY <2>1, <2>2, <2>3, <2>4, <2>5, <2>6
<1>7. \A b \in Live \ mq : barrels'[b] = barrels[b] /\ barrels'[new].max < barrels'[b].base
  <2>. TAKE b \in Live \ mq
  <2>1. barrels'[b] = barrels[b] /\ barrels[b].base \in Nat \ {0}
    BY <1>1, <1>3
  <2>2. \A a \in mq : barrels[a].max < barrels[b].base
    BY <1>2 DEF NumInv, SpanInv, Below
  <2>. QED  BY <1>6, <2>1, <2>2
<1>8. \A d \in Docs : d \in mout <=> (\E b \in mq : d \in barrels[b].docs) /\ d \notin filter
  BY <1>1, <1>2 DEF OutputInv
<1>9. mout \subseteq Docs
  BY <1>1 DEF DocTypes
<1>10. SpanInv'
  <2>1. \A b \in Live' : \A d \in barrels'[b].docs : barrels'[b].base <= d /\ d <= barrels'[b].max
    <3>. SUFFICES ASSUME NEW b \in Live', NEW d \in barrels'[b].docs
                  PROVE  barrels'[b].base <= d /\ d <= barrels'[b].max
      OBVIOUS
    <3>1. CASE b = new
      <4>1. PICK a \in mq : d \in barrels[a].docs
        BY <1>5, <1>8, <1>9, <3>1
      <4>2. d \in Nat /\ barrels[a].base <= d /\ d <= barrels[a].max /\ barrels[a].base \in Nat /\ barrels[a].max \in Nat
        BY <1>1, <4>1 DEF NumInv, SpanInv, Docs
      <4>. QED  BY <1>6, <3>1, <4>2
    <3>2. CASE b \in Live \ mq
      BY <1>7, <3>2 DEF NumInv, SpanInv
    <3>. QED  BY <1>3, <3>1, <3>2
  <2>2. \A a, b \in Live' : a # b => barrels'[a].max < barrels'[b].base \/ barrels'[b].max < barrels'[a].base
    <3>. SUFFICES ASSUME NEW a \in Live', NEW b \in Live', a # b
                  PROVE  barrels'[a].max < barrels'[b].base \/ barrels'[b].max < barrels'[a].base
      OBVIOUS
    <3>1. CASE a = new \/ b = new
      BY <1>3, <1>7, <3>1
    <3>2. CASE a # new /\ b # new
      <4>1. a \in Live \ mq /\ b \in Live \ mq
        BY <1>3, <3>2
      <4>. QED  BY <1>7, <4>1 DEF NumInv, SpanInv, Below
    <3>. QED  BY <3>1, <3>2
  <2>3. \A a, b \in Live' : a # b /\ barrels'[b].inMemory => barrels'[a].max < barrels'[b].base
    <3>. SUFFICES ASSUME NEW a \in Live', NEW b \in Live', a # b, barrels'[b].inMemory
                  PROVE  barrels'[a].max < barrels'[b].base
      OBVIOUS
    <3>1. b \in Live \ mq /\ barrels'[b] = barrels[b]
      BY <1>3, <1>5, <1>7
    <3>2. CASE a = new
      BY <1>7, <3>1, <3>2
    <3>3. CASE a # new
      <4>1. a \in Live \ mq /\ barrels'[a] = barrels[a]
        BY <1>3, <1>7, <3>3
      <4>. QED  BY <3>1, <4>1 DEF NumInv, SpanInv, Below
    <3>. QED  BY <3>2, <3>3
  <2>4. wpc = "ins_count" => barrels'[cur] = barrels[cur]
    BY <1>1, <1>3 DEF Typing, BarrelInv, MergerInv, Written
  <2>5. ~Merging'
    BY <1>4 DEF Merging
  <2>6. wpc' = "ins_count" => barrels'[cur].base <= nextDoc /\ nextDoc <= barrels'[cur].max
    BY <1>4, <2>4 DEF NumInv, SpanInv
  <2>. QED  BY <1>4, <2>1, <2>2, <2>3, <2>5, <2>6 DEF SpanInv, Below
<1>11. PendingInv'
  <2>. SUFFICES ASSUME wdoc # 0, wpc # "rem_bit" PROVE Removable(wdoc)'
    BY <1>4 DEF PendingInv
  <2>1. Removable(wdoc) /\ wdoc \in Docs
    BY <1>1 DEF NumInv, PendingInv, DocTypes
  <2>2. ASSUME wdoc < nextDoc PROVE \E b \in Live' : wdoc \in barrels'[b].docs
    <3>1. PICK a \in Live : wdoc \in barrels[a].docs
      BY <2>1, <2>2 DEF Removable
    <3>2. CASE a \in mq
      <4>1. wdoc \in mout
        BY <1>8, <2>1, <3>1, <3>2 DEF Removable
      <4>. QED  BY <1>3, <1>5, <4>1
    <3>3. CASE a \notin mq
      BY <1>3, <1>7, <3>1, <3>3
    <3>. QED  BY <3>2, <3>3
  <2>. QED  BY <1>4, <2>1, <2>2 DEF Removable
<1>12. CountedNotMarked' = CountedNotMarked
  BY <1>4 DEF CountedNotMarked
<1>13. PICK X : X = filter \cup CountedNotMarked
  OBVIOUS
<1>14. \A b \in Live : nNumDocs[b] = Cardinality(barrels[b].docs \ X)
  BY <1>13 DEF NumInv, NumDocsExact
<1>15. nNumDocs'[new] = SumOver(nNumDocs, mq) /\ \A b \in DOMAIN barrels : nNumDocs'[b] = nNumDocs[b]
  <2>1. nNumDocs' = Append(nNumDocs, SumOver(nNumDocs, mq))
    BY DEF CreateNewBarrelInfo, SumOver
  <2>. QED  BY <1>0, <1>1, <1>3, <2>1, CountAdded
<1>16. SumOver(nNumDocs, mq) = Cardinality(mout \ X)
  <2>. DEFINE A == [b \in mq |-> barrels[b].docs \ X]
  <2>1. \A b \in mq : A[b] = barrels[b].docs \ X /\ IsFiniteSet(A[b])
    BY <1>1, CountedFinite
  <2>2. \A a, b \in mq : a # b => A[a] \cap A[b] = {}
    BY <1>1, <2>1 DEF DocInv, DocsInOneBarrel
  <2>. HIDE DEF A
  <2>3. HaveSizes(A, nNumDocs, mq)
    BY <1>1, <1>14, <2>1, <2>2 DEF HaveSizes
  <2>4. SumOver(nNumDocs, mq) = Cardinality(UNION {A[b] : b \in mq})
    BY <1>1, <2>3, SumOfSizes
  <2>5. UNION {A[b] : b \in mq} = mout \ X
    <3>1. \A d : d \in UNION {A[b] : b \in mq} <=> (\E b \in mq : d \in barrels[b].docs) /\ d \notin X
      BY <2>1
    <3>2. \A d : d \in mout \ X <=> (\E b \in mq : d \in barrels[b].docs) /\ d \notin X
      BY <1>1, <1>8, <1>9, <1>13
    <3>. QED  BY <3>1, <3>2
  <2>. QED  BY <2>4, <2>5
<1>17. NumDocsExact'
  <2>. SUFFICES ASSUME NEW b \in Live' PROVE nNumDocs'[b] = Cardinality(barrels'[b].docs \ X)
    BY <1>4, <1>12, <1>13 DEF NumDocsExact
  <2>1. CASE b = new
    BY <1>5, <1>15, <1>16, <2>1
  <2>2. CASE b \in Live \ mq
    BY <1>1, <1>7, <1>14, <1>15, <2>2
  <2>. QED  BY <1>3, <2>1, <2>2
<1>. QED  BY <1>10, <1>11, <1>17 DEF NumInv

\* Every step keeps the counts exact.
LEMMA NumInvStep ==
  ASSUME ~UseAddMerger, "removeAgain" \notin Usage, IndexInv, StoreInv, CountInv, NumInv, [Next]_vars
  PROVE  NumInv'
<1>. USE DEF btvars, indexVars, filterVars, readerVars, lockVars, writerVars, mergerVars, countVars
<1>a. /\ Typing /\ BarrelTypes /\ DocTypes /\ ControlTypes /\ BarrelInv /\ MergerInv
      /\ RangeInv /\ RemovalInv /\ FilterInv
      /\ Live \subseteq DOMAIN barrels /\ mq \subseteq Live /\ cur \in {0} \cup DOMAIN barrels
      /\ \A b \in DOMAIN barrels : barrels[b] \in Barrel
  BY NumTypes
<1>b. \A d : MayRemove(d) => Removable(d)
  BY DEF MayRemove, Removable
<1>c. NumInv /\ SpanInv /\ PendingInv /\ NumDocsExact
  BY DEF NumInv
<1>1. ASSUME NEW old \in {0} \cup Docs, InsertDocument(old) PROVE NumInv'
  <2>1. /\ wpc = "idle" /\ wpc' \in {"ins_realtime", "ins_base"}
        /\ wdoc' = 0 \/ Removable(wdoc')
        /\ UNCHANGED <<filter, mpc, mq>>
    BY <1>b, <1>1 DEF InsertDocument
  <2>2. CASE createBarrelInfo
    BY <2>1, <2>2, <1>1, NumCreated DEF InsertDocument
  <2>3. CASE UNCHANGED indexVars
    BY <1>b, <1>1, <2>3, NumQuiet DEF InsertDocument, Live, Merging
  <2>. QED  BY <1>1, <2>2, <2>3 DEF InsertDocument
<1>2. ASSUME NEW d \in Docs, RemoveDocument(d) PROVE NumInv'
  BY <1>b, <1>2, NumQuiet DEF RemoveDocument, Live, Merging
<1>3. CASE InsertCreateBarrel
  BY <1>3, NumCreated DEF InsertCreateBarrel
<1>4. CASE InsertBaseDocID
  BY <1>4, NumRangeGrown
<1>5. CASE InsertAddDocument
  BY <1>5, NumAdded
<1>6. CASE RemoveCountDown
  BY <1>6, NumCountedDown
<1>7. CASE RemoveSetBit
  <2>1. /\ wpc = "rem_bit" /\ wpc' = "idle" /\ wdoc' = 0 /\ filter' = filter \cup {wdoc}
        /\ UNCHANGED <<barrels, nNumDocs, barrelInfos, cur, nextDoc, mpc, mq>>
    BY <1>7 DEF RemoveSetBit, WriterReturns
  <2>2. filter' \cup CountedNotMarked' = filter \cup CountedNotMarked /\ Live' = Live
    BY <2>1 DEF CountedNotMarked, Live
  <2>3. NumDocsExact'
    BY <1>c, <2>1, <2>2 DEF NumDocsExact
  <2>4. SpanInv' /\ PendingInv'
    BY <1>c, <2>1, <2>2 DEF SpanInv, PendingInv, Below, Merging
  <2>. QED  BY <2>3, <2>4 DEF NumInv
<1>8. CASE FlushWrite \/ FlushSetSearchable
  <2>1. cur \in DOMAIN barrels
    BY <1>a, <1>8 DEF FlushWrite, FlushSetSearchable, Typing
  <2>2. /\ UNCHANGED <<nNumDocs, barrelInfos, filter, nextDoc, mpc, mq, wdoc>> /\ Live' = Live
        /\ wpc' \notin {"ins_count", "rem_bit"} /\ wpc # "rem_bit"
    BY <1>8 DEF FlushWrite, FlushSetSearchable, Live
  <2>3. \A b \in DOMAIN barrels : /\ barrels'[b].docs = barrels[b].docs
                                  /\ barrels'[b].base = barrels[b].base /\ barrels'[b].max = barrels[b].max
                                  /\ barrels'[b].inMemory => barrels[b].inMemory
    <3>. TAKE b \in DOMAIN barrels
    <3>1. \/ barrels' = [barrels EXCEPT ![cur].inMemory = FALSE]
          \/ barrels' = [barrels EXCEPT ![cur].searchable = TRUE]
      BY <1>8 DEF FlushWrite, FlushSetSearchable
    <3>2. barrels[b] \in Barrel
      BY <1>a
    <3>3. \/ barrels'[b] = barrels[b]
          \/ barrels'[b] = [barrels[b] EXCEPT !.inMemory = FALSE]
          \/ barrels'[b] = [barrels[b] EXCEPT !.searchable = TRUE]
      BY <2>1, <3>1
    <3>. QED  BY <3>2, <3>3 DEF Barrel
  <2>. QED  BY <1>a, <2>2, <2>3, NumFlags
<1>9. CASE OptimizeSnapshot
  <2>1. /\ UNCHANGED <<barrels, nNumDocs, barrelInfos, filter, nextDoc, cur, wpc, wdoc>> /\ Live' = Live
        /\ mq' = {b \in Live : ~barrels[b].inMemory}
    BY <1>9 DEF OptimizeSnapshot, Live
  <2>2. \A a \in mq' : \A b \in Live \ mq' : Below(a, b)
    BY <1>c, <2>1 DEF SpanInv
  <2>3. SpanInv'
    BY <1>c, <2>1, <2>2 DEF SpanInv, Below
  <2>4. PendingInv'
    BY <1>c, <2>1 DEF PendingInv, Removable
  <2>5. NumDocsExact'
    BY <1>c, <2>1 DEF NumDocsExact, CountedNotMarked
  <2>. QED  BY <2>3, <2>4, <2>5 DEF NumInv
<1>10. CASE CreateNewBarrelInfo
  BY <1>10, NumReplaced
<1>11. CASE OptimizeDelDocFilter
  <2>1. /\ mpc = "opt_clear" /\ mpc' = "sort" /\ filter' = {} /\ Live' = Live
        /\ UNCHANGED <<barrels, nNumDocs, barrelInfos, nextDoc, cur, wpc, wdoc>>
    BY <1>11 DEF OptimizeDelDocFilter, Live
  <2>2. \A b \in Live : barrels[b].docs \cap filter = {}
    BY <1>a, <2>1 DEF FilterInv
  <2>3. CountedNotMarked' = CountedNotMarked
    BY <2>1 DEF CountedNotMarked
  <2>4. \A b \in Live : barrels[b].docs \ (filter \cup CountedNotMarked) = barrels[b].docs \ ({} \cup CountedNotMarked)
    BY <2>2
  <2>5. NumDocsExact'
    <3>. SUFFICES ASSUME NEW b \in Live
                  PROVE  nNumDocs[b] = Cardinality(barrels[b].docs \ ({} \cup CountedNotMarked))
      BY <2>1, <2>3 DEF NumDocsExact
    <3>. QED  BY <1>c, <2>4 DEF NumDocsExact
  <2>6. SpanInv'
    BY <1>c, <2>1 DEF SpanInv, Below, Merging
  <2>7. PendingInv'
    BY <1>c, <2>1 DEF PendingInv, Removable
  <2>. QED  BY <2>5, <2>6, <2>7 DEF NumInv
<1>12. CASE UpdateBarrelsSort
  <2>1. Live' = Live
    BY <1>a, <1>12, SortTypes
  <2>. QED  BY <1>12, <2>1, NumQuiet DEF UpdateBarrelsSort, Merging
<1>13. CASE PolicyMerge \/ AddToPolicy \/ PolicyStep
  BY <1>a, <1>13 DEF PolicyMerge, AddToPolicy, PolicyStep, MergerInv
<1>14. CASE SearchGetIndexReader
  BY <1>14, NumQuiet DEF SearchGetIndexReader, Live, Merging
<1>15. CASE SearchGetTermReader
  BY <1>15, NumQuiet DEF SearchGetTermReader, Live, Merging
<1>16. CASE InsertRealTime
  BY <1>16, NumQuiet DEF InsertRealTime, Live, Merging
<1>17. CASE RemoveTestFilter
  BY <1>17, NumQuiet DEF RemoveTestFilter, WriterReturns, Live, Merging
<1>18. CASE Flush
  BY <1>18, NumQuiet DEF Flush, Live, Merging
<1>19. CASE FlushReopen
  BY <1>19, NumQuiet DEF FlushReopen, Live, Merging
<1>20. CASE FlushAddToMerge
  BY <1>20, NumQuiet DEF FlushAddToMerge, StartAdd, Live, Merging
<1>21. CASE FlushEnd
  BY <1>a, <1>21, NumQuiet DEF FlushEnd, ControlTypes, Live, Merging
<1>22. CASE FlushSetDirty
  BY <1>22, NumQuiet DEF FlushSetDirty, Live, Merging
<1>23. CASE FlushDocFilter
  BY <1>23, NumQuiet DEF FlushDocFilter, WriterReturns, Live, Merging
<1>24. CASE OptimizeIndex
  BY <1>24, NumQuiet DEF OptimizeIndex, Live, Merging
<1>25. CASE OptimizePush
  BY <1>25, NumQuiet DEF OptimizePush, StartOptimize, Live, Merging
<1>26. CASE OptimizeReturn
  BY <1>26, NumQuiet DEF OptimizeReturn, WriterReturns, Live, Merging
<1>27. CASE Close
  BY <1>27, NumQuiet DEF Close, Live, Merging
<1>28. CASE CloseLock
  BY <1>28, NumQuiet DEF CloseLock, Live, Merging
<1>29. CASE CloseJoin
  BY <1>29, NumQuiet DEF CloseJoin, Live, Merging
<1>30. CASE WaitForMergeFinish
  BY <1>30, NumQuiet DEF WaitForMergeFinish, Live, Merging
<1>31. CASE WaitJoin
  BY <1>31, NumQuiet DEF WaitJoin, Live, Merging
<1>32. CASE PauseMerge
  BY <1>32, NumQuiet DEF PauseMerge, Live, Merging
<1>33. CASE ResumeMerge
  BY <1>33, NumQuiet DEF ResumeMerge, Live, Merging
<1>34. CASE PopAdd
  BY <1>34, NumQuiet DEF PopAdd, StartAdd, Live, Merging
<1>35. CASE PopOptimize
  BY <1>35, NumQuiet DEF PopOptimize, StartOptimize, Live, Merging
<1>36. CASE PopExit
  BY <1>36, NumQuiet DEF PopExit, Live, Merging
<1>37. CASE OptimizeOpen
  BY <1>37, NumQuiet DEF OptimizeOpen, Live, Merging
<1>38. CASE OptimizeLock
  BY <1>38, NumQuiet DEF OptimizeLock, Live, Merging
<1>39. CASE OutputNewBarrel
  BY <1>39, NumQuiet DEF OutputNewBarrel, Live, Merging
<1>40. CASE CreateCheckPause
  BY <1>40, NumQuiet DEF CreateCheckPause, Live, Merging
<1>41. CASE UpdateBarrelsSetDirty
  BY <1>41, NumQuiet DEF UpdateBarrelsSetDirty, Live, Merging
<1>42. CASE OptimizeMaxDoc
  BY <1>42, NumQuiet DEF OptimizeMaxDoc, Live, Merging
<1>43. CASE OptimizeReopen
  BY <1>43, NumQuiet DEF OptimizeReopen, Live, Merging
<1>44. CASE UNCHANGED vars
  BY <1>44, NumQuiet DEF vars, Live, Merging
<1>. QED
  BY <1>1, <1>2, <1>3, <1>4, <1>5, <1>6, <1>7, <1>8, <1>9, <1>10, <1>11, <1>12, <1>13, <1>14, <1>15, <1>16, <1>17, <1>18, <1>19, <1>20, <1>21, <1>22, <1>23, <1>24, <1>25, <1>26, <1>27, <1>28, <1>29, <1>30, <1>31, <1>32, <1>33, <1>34, <1>35, <1>36, <1>37, <1>38, <1>39, <1>40, <1>41, <1>42, <1>43, <1>44 DEF Next, WriterCall, WriterStep, MergerStep, SearchStep, Terminated

\* Without an add merger, and with documents removed once and after they are
\* flushed, the count of every barrel is the number of its documents that are not
\* deleted, in every interleaving of removals with an optimization of the barrel.
THEOREM CountsExact ==
  ASSUME ~UseAddMerger, "removeUnflushed" \notin Usage, "removeAgain" \notin Usage
  PROVE  Spec => []NumDocsExact
<1>1. Init => NumInv
  <2>. SUFFICES ASSUME Init PROVE NumInv
    OBVIOUS
  <2>1. Live = {} /\ wdoc = 0 /\ wpc = "idle" /\ ~Merging
    BY DEF Init, Live, Merging
  <2>. QED  BY <2>1 DEF NumInv, SpanInv, PendingInv, NumDocsExact
<1>2. IndexInv /\ StoreInv /\ ReaderInv /\ NumInv /\ [Next]_vars => NumInv'
  BY NumInvStep DEF ReaderInv
<1>3. NumInv => NumDocsExact
  BY DEF NumInv
<1>4. IsAsync \/ ~UseAddMerger
  OBVIOUS
<1>5. Spec => [](IndexInv /\ StoreInv)
  BY <1>4, StoreInvariant
<1>6. Spec => [](IndexInv /\ ReaderInv)
  BY <1>4, ReaderInvariant
<1>. QED  BY <1>1, <1>2, <1>3, <1>5, <1>6, PTL DEF Spec
=============================================================================
