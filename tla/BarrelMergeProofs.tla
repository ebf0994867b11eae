------------------------- MODULE BarrelMergeProofs --------------------------
(***************************************************************************)
(* Proofs about the merge policy, for every collision factor, number of    *)
(* levels, and sequence of flushed barrels.                                *)
(***************************************************************************)
EXTENDS BarrelMerge, DataFacts, FiniteSetTheorems, TLAPS

\* getLevel() returns one of the levels, whatever the size.
LEMMA LevelOfSize ==
  ASSUME NEW n
  PROVE  getLevel(n) \in Levels
<1>. DEFINE S == {l \in 1 .. MaxLevel : LevelBase ^ l <= n}
<1>1. IsFiniteSet(1 .. MaxLevel) /\ Cardinality(1 .. MaxLevel) = MaxLevel
  BY FS_Interval, BTAssumption
<1>2. IsFiniteSet(S) /\ Cardinality(S) <= Cardinality(1 .. MaxLevel) /\ Cardinality(S) \in Nat
  BY <1>1, FS_Subset, FS_CardinalityType
<1>. QED  BY <1>1, <1>2, BTAssumption DEF getLevel, Levels

------------------------------------------------------------------------------
(* The inductive invariant *)

\* Barrels: the history of barrels is a sequence, and what the index and the
\* layers hold is taken from it.
Shape ==
  /\ IsSequence(info)
  /\ live \subseteq DOMAIN info
  /\ pending \in {0} \cup live
  /\ queue \in [Levels -> SUBSET live]

\* Control: triggerMerge() runs between addBarrel() and mergeBarrel(), when no
\* barrel waits to be added.
Control ==
  /\ btpc \in {"idle", "up", "pass", "merge"}
  /\ pLevel1 \in Levels
  /\ iter2 \in 0 .. MaxLevel + 1
  /\ btpc # "idle" => pending = 0

\* Only the layer that triggerMerge() works on may be full.
OneLayerFull ==
  \A l \in Levels : Cardinality(queue[l]) < CollisionFactor \/ (btpc # "idle" /\ l = pLevel1)

PolicyInv == Shape /\ Control /\ OneLayerFull /\ LayersPartitionBarrels

\* The history of barrels is indexed by 1 .. Len(info), so the index and every
\* layer are finite, and appending to it leaves the earlier barrels alone.
LEMMA HistoryOfBarrels ==
  ASSUME Shape
  PROVE  /\ Len(info) \in Nat /\ DOMAIN info = 1 .. Len(info)
         /\ \A l \in Levels : IsFiniteSet(queue[l])
<1>1. Len(info) \in Nat /\ DOMAIN info = 1 .. Len(info)
  BY SequenceOfValues DEF Shape, IsSequence
<1>2. IsFiniteSet(1 .. Len(info))
  BY <1>1, FS_Interval
<1>3. \A l \in Levels : queue[l] \in SUBSET (1 .. Len(info))
  BY <1>1 DEF Shape
<1>. QED  BY <1>1, <1>2, <1>3, FS_Subset

\* A record appended to the history is the barrel Len(info) + 1.
LEMMA AppendedBarrel ==
  ASSUME Shape, NEW e, info' = Append(info, e)
  PROVE  /\ IsSequence(info')
         /\ DOMAIN info' = DOMAIN info \cup {Len(info) + 1}
         /\ Len(info) + 1 \notin DOMAIN info /\ Len(info) + 1 # 0
BY AppendedTo DEF Shape

------------------------------------------------------------------------------
(* The steps *)

\* Combining two layers, one of which is the layer being merged, moves barrels from
\* the lower into the higher one and leaves the lower one empty.
LEMMA CombinedLayers ==
  ASSUME PolicyInv, NEW l2 \in Levels, l2 # pLevel1, btpc # "idle", btpc' # "idle",
         combineLayer(pLevel1, l2), UNCHANGED <<info, live, pending>>
  PROVE  /\ queue' \in [Levels -> SUBSET live] /\ pLevel1' \in Levels
         /\ OneLayerFull' /\ LayersPartitionBarrels'
<1>. DEFINE lower  == IF pLevel1 < l2 THEN pLevel1 ELSE l2
            higher == IF pLevel1 < l2 THEN l2 ELSE pLevel1
<1>1. /\ lower \in Levels /\ higher \in Levels /\ lower # higher
      /\ pLevel1' = higher /\ pLevel1 \in {lower, higher}
  BY DEF combineLayer, PolicyInv, Control
<1>2. queue' = [queue EXCEPT ![higher] = @ \cup queue[lower], ![lower] = {}]
  BY DEF combineLayer
<1>. HIDE DEF lower, higher
<1>3. /\ queue' \in [Levels -> SUBSET live]
      /\ queue'[lower] = {} /\ queue'[higher] = queue[higher] \cup queue[lower]
      /\ \A l \in Levels \ {lower, higher} : queue'[l] = queue[l]
  BY <1>1, <1>2 DEF PolicyInv, Shape
<1>4. OneLayerFull'
  <2>1. Cardinality({}) = 0
    BY FS_EmptySet
  <2>2. \A l \in Levels \ {lower, higher} : Cardinality(queue'[l]) < CollisionFactor
    BY <1>1, <1>3 DEF PolicyInv, OneLayerFull
  <2>. QED  BY <1>1, <1>3, <2>1, <2>2, BTAssumption DEF OneLayerFull
<1>5. \A k, l \in Levels : k # l => queue'[k] \cap queue'[l] = {}
  BY <1>1, <1>3 DEF PolicyInv, LayersPartitionBarrels
<1>6. UNION {queue'[l] : l \in Levels} = UNION {queue[l] : l \in Levels}
  BY <1>1, <1>3
<1>. QED  BY <1>1, <1>3, <1>4, <1>5, <1>6 DEF PolicyInv, LayersPartitionBarrels

\* Every step keeps the invariant.
LEMMA PolicyInvStep ==
  ASSUME PolicyInv, [Next]_vars
  PROVE  PolicyInv'
<1>. USE DEF btvars
<1>0. Shape /\ Control /\ OneLayerFull /\ LayersPartitionBarrels
  BY DEF PolicyInv
<1>1. ASSUME NEW n \in FlushSizes, Flush(n)
      PROVE  PolicyInv'
  <2>. DEFINE new == Len(info) + 1
  <2>1. /\ IsSequence(info')
        /\ DOMAIN info' = DOMAIN info \cup {new} /\ new \notin DOMAIN info /\ new # 0
    BY <1>0, <1>1, AppendedBarrel DEF Flush
  <2>2. /\ live' = live \cup {new} /\ pending' = new /\ pending = 0 /\ btpc = "idle"
        /\ UNCHANGED <<queue, btpc, pLevel1, iter2>>
    BY <1>1 DEF Flush
  <2>. HIDE DEF new
  <2>3. new \notin live /\ 0 \notin live
    BY <1>0, <2>1, HistoryOfBarrels DEF Shape
  <2>4. Shape' /\ Control' /\ OneLayerFull'
    BY <1>0, <2>1, <2>2 DEF Shape, Control, OneLayerFull
  <2>5. LayersPartitionBarrels'
    BY <1>0, <2>2, <2>3 DEF LayersPartitionBarrels
  <2>. QED  BY <2>4, <2>5 DEF PolicyInv
<1>2. CASE AddToMerge
  <2>. DEFINE l == getLevel(info[pending].nNumDocs)
              full == Cardinality(queue[l] \cup {pending}) >= CollisionFactor
  <2>1. l \in Levels
    BY LevelOfSize
  <2>2. /\ pending \in live /\ pending' = 0 /\ btpc = "idle" /\ UNCHANGED <<info, live>>
        /\ queue' = [queue EXCEPT ![l] = @ \cup {pending}]
        /\ btpc' = (IF full THEN "up" ELSE "idle") /\ pLevel1' = (IF full THEN l ELSE 0) /\ iter2' = 0
    BY <1>0, <1>2 DEF AddToMerge, addBarrel, Shape
  <2>3. Cardinality(queue[l] \cup {pending}) \in Nat
    BY <1>0, <2>1, HistoryOfBarrels, FS_AddElement, FS_CardinalityType
  <2>. HIDE DEF l
  <2>4. /\ queue' \in [Levels -> SUBSET live] /\ queue'[l] = queue[l] \cup {pending}
        /\ \A k \in Levels \ {l} : queue'[k] = queue[k]
    BY <1>0, <2>1, <2>2 DEF Shape
  <2>5. Shape' /\ Control'
    BY <1>0, <2>1, <2>2, <2>4, BTAssumption DEF Shape, Control, Levels
  <2>6. OneLayerFull'
    BY <1>0, <2>1, <2>2, <2>3, <2>4, BTAssumption DEF OneLayerFull
  <2>7. UNION {queue'[k] : k \in Levels} = (UNION {queue[k] : k \in Levels}) \cup {pending}
    BY <2>1, <2>4
  <2>8. 0 \notin live /\ \A k \in Levels : pending \notin queue[k]
    BY <1>0, HistoryOfBarrels DEF Shape, LayersPartitionBarrels
  <2>9. LayersPartitionBarrels'
    BY <1>0, <2>1, <2>2, <2>4, <2>7, <2>8 DEF LayersPartitionBarrels
  <2>. QED  BY <2>5, <2>6, <2>9 DEF PolicyInv
<1>3. CASE TriggerMerge
  <2>0. UNCHANGED <<info, live, pending>> /\ triggerMerge(baseDocID)
    BY <1>3 DEF TriggerMerge
  <2>1. CASE CombineUpper
    <3>. DEFINE l2 == getLevel(levelSize[pLevel1])
    <3>1. l2 \in Levels /\ l2 # pLevel1 /\ btpc = "up" /\ combineLayer(pLevel1, l2) /\ UNCHANGED <<btpc, iter2>>
      BY <1>0, <2>1, LevelOfSize, BTAssumption DEF CombineUpper, WouldTriggerUpper, Control, Levels
    <3>. HIDE DEF l2
    <3>2. queue' \in [Levels -> SUBSET live] /\ pLevel1' \in Levels /\ OneLayerFull' /\ LayersPartitionBarrels'
      BY <2>0, <3>1, CombinedLayers
    <3>. QED  BY <1>0, <2>0, <3>1, <3>2 DEF PolicyInv, Shape, Control
  <2>2. CASE StartPass
    BY <1>0, <2>0, <2>2, BTAssumption DEF StartPass, PolicyInv, Shape, Control, OneLayerFull, LayersPartitionBarrels
  <2>3. CASE PassLayer(baseDocID)
    <3>1. iter2 \in Levels /\ iter2' \in 0 .. MaxLevel + 1 /\ btpc = "pass" /\ btpc' = btpc
      BY <1>0, <2>3, BTAssumption DEF PassLayer, Control, Levels
    <3>2. CASE Interleaved(iter2, baseDocID)
      <4>1. combineLayer(pLevel1, iter2) /\ iter2 # pLevel1
        BY <2>3, <3>2 DEF PassLayer, Interleaved
      <4>2. queue' \in [Levels -> SUBSET live] /\ pLevel1' \in Levels /\ OneLayerFull' /\ LayersPartitionBarrels'
        BY <2>0, <3>1, <4>1, CombinedLayers
      <4>. QED  BY <1>0, <2>0, <3>1, <4>2 DEF PolicyInv, Shape, Control
    <3>3. CASE ~Interleaved(iter2, baseDocID)
      <4>1. UNCHANGED <<queue, pLevel1>>
        BY <2>3, <3>3 DEF PassLayer
      <4>. QED  BY <1>0, <2>0, <3>1, <4>1 DEF PolicyInv, Shape, Control, OneLayerFull, LayersPartitionBarrels
    <3>. QED  BY <3>2, <3>3
  <2>4. CASE EndPass
    BY <1>0, <2>0, <2>4 DEF EndPass, PolicyInv, Shape, Control, OneLayerFull, LayersPartitionBarrels
  <2>. QED  BY <2>0, <2>1, <2>2, <2>3, <2>4 DEF triggerMerge
<1>4. CASE MergeBarrel
  <2>. DEFINE new == Len(info) + 1
  <2>1. /\ IsSequence(info')
        /\ DOMAIN info' = DOMAIN info \cup {new} /\ new \notin DOMAIN info /\ new # 0
    BY <1>0, <1>4, AppendedBarrel DEF MergeBarrel
  <2>2. /\ live' = (live \ queue[pLevel1]) \cup {new} /\ pending' = new /\ pending = 0 /\ btpc = "merge"
        /\ queue' = [queue EXCEPT ![pLevel1] = {}] /\ btpc' = "idle" /\ pLevel1' = 0 /\ iter2' = 0
    BY <1>0, <1>4 DEF MergeBarrel, ClearMerged, Control
  <2>. HIDE DEF new
  <2>3. pLevel1 \in Levels /\ 0 \in Levels /\ 0 \in 0 .. MaxLevel + 1
    BY <1>0, BTAssumption DEF Control, Levels
  <2>4. queue'[pLevel1] = {} /\ \A l \in Levels \ {pLevel1} : queue'[l] = queue[l] /\ queue[l] \cap queue[pLevel1] = {}
    BY <1>0, <2>2, <2>3 DEF Shape, LayersPartitionBarrels
  <2>5. new \notin live /\ 0 \notin live
    BY <1>0, <2>1, HistoryOfBarrels DEF Shape
  <2>6. queue' \in [Levels -> SUBSET live']
    BY <1>0, <2>2, <2>3, <2>4 DEF Shape
  <2>7. Shape' /\ Control'
    BY <1>0, <2>1, <2>2, <2>3, <2>6 DEF Shape, Control
  <2>8. OneLayerFull'
    BY <1>0, <2>2, <2>3, <2>4, BTAssumption, FS_EmptySet DEF OneLayerFull
  <2>9. UNION {queue'[l] : l \in Levels} = (UNION {queue[l] : l \in Levels}) \ queue[pLevel1]
    BY <2>3, <2>4
  <2>10. LayersPartitionBarrels'
    BY <1>0, <2>2, <2>4, <2>5, <2>9 DEF LayersPartitionBarrels
  <2>. QED  BY <2>7, <2>8, <2>10 DEF PolicyInv
<1>5. ASSUME NEW b \in live, DeleteDocument(b)
      PROVE  PolicyInv'
  <2>1. /\ info' = [info EXCEPT ![b].nNumDocs = @ - 1]
        /\ UNCHANGED <<queue, btpc, pLevel1, iter2, live, pending>>
    BY <1>5 DEF DeleteDocument
  <2>2. DOMAIN info' = DOMAIN info /\ IsSequence(info')
    <3>1. DOMAIN info' = 1 .. Len(info) /\ Len(info) \in Nat /\ DOMAIN info = 1 .. Len(info)
      BY <1>0, <2>1, HistoryOfBarrels
    <3>2. info' = [i \in 1 .. Len(info) |-> info'[i]]
      BY <2>1, <3>1
    <3>. QED  BY <3>1, <3>2, FunctionIsSequence
  <2>. QED  BY <1>0, <2>1, <2>2 DEF PolicyInv, Shape, Control, OneLayerFull, LayersPartitionBarrels
<1>6. CASE UNCHANGED vars
  BY <1>0, <1>6 DEF vars, PolicyInv, Shape, Control, OneLayerFull, LayersPartitionBarrels
<1>. QED  BY <1>1, <1>2, <1>3, <1>4, <1>5, <1>6 DEF Next

\* It holds in every state of every execution.
LEMMA PolicyInvariant == Spec => []PolicyInv
<1>1. Init => PolicyInv
  <2>. SUFFICES ASSUME Init PROVE PolicyInv
    OBVIOUS
  <2>1. Shape /\ Control /\ LayersPartitionBarrels
    BY BTAssumption DEF Init, BTInit, IsSequence, Shape, Control, LayersPartitionBarrels, Levels
  <2>2. OneLayerFull
    BY BTAssumption, FS_EmptySet DEF Init, BTInit, OneLayerFull
  <2>. QED  BY <2>1, <2>2 DEF PolicyInv
<1>2. PolicyInv /\ [Next]_vars => PolicyInv'
  BY PolicyInvStep
<1>. QED  BY <1>1, <1>2, PTL DEF Spec

\* Whatever is flushed, deleted and merged, every barrel of the index that has been
\* handed to the policy is in exactly one layer, and no layer keeps a barrel that
\* has been merged away.
THEOREM LayersPartition == Spec => []LayersPartitionBarrels
<1>1. PolicyInv => LayersPartitionBarrels
  BY DEF PolicyInv
<1>. QED  BY <1>1, PolicyInvariant, PTL

\* Between two merges every layer is below the collision factor.
THEOREM LayersBelowFactor == Spec => []NoLayerFull
<1>1. PolicyInv => NoLayerFull
  BY DEF PolicyInv, OneLayerFull, NoLayerFull, Settled
<1>. QED  BY <1>1, PolicyInvariant, PTL

------------------------------------------------------------------------------
(* The sizes of the layers *)

\* The document counts of the barrels i, and those of the barrels of Q added up.
docsOf(i) == [b \in DOMAIN i |-> i[b].nNumDocs]

numDocsOf(i, Q) == MapThenSumSet(LAMBDA b : i[b].nNumDocs, Q)

\* Both sums are the same.
LEMMA DocsAreSum ==
  ASSUME NEW i, NEW Q, IsFiniteSet(Q), Q \subseteq DOMAIN i,
         \A b \in Q : i[b].nNumDocs \in Nat
  PROVE  numDocsOf(i, Q) = SumOver(docsOf(i), Q)
<1>. DEFINE f == docsOf(i)
            Eq(h) == h = [s \in SUBSET Q |-> IF s = {} THEN 0
                                             ELSE i[picked(s)].nNumDocs + h[s \ {picked(s)}]]
<1>1. \A b \in Q : f[b] = i[b].nNumDocs /\ f[b] \in Nat
  BY DEF docsOf
<1>2. \A s \in SUBSET Q : s # {} => picked(s) \in Q
  BY DEF picked
<1>. HIDE DEF f
<1>3. ASSUME NEW h PROVE Eq(h) <=> IsSumOf(h, f, Q)
  BY <1>1, <1>2 DEF IsSumOf
<1>4. PICK h : IsSumOf(h, f, Q)
  BY <1>1, SumExists
<1>5. Eq(h)
  BY <1>3, <1>4
<1>6. \E g : Eq(g) /\ numDocsOf(i, Q) = g[Q]
  BY <1>5 DEF numDocsOf, MapThenSumSet, MapThenFoldSet, picked
<1>. HIDE DEF Eq
<1>7. PICK g : IsSumOf(g, f, Q) /\ numDocsOf(i, Q) = g[Q]
  BY <1>3, <1>6
<1>8. PICK k : IsSumOf(k, f, Q) /\ SumOver(f, Q) = k[Q]
  BY <1>4, SumEquation
<1>9. g[Q] = k[Q]
  BY <1>7, <1>8, SumUnique
<1>. QED  BY <1>7, <1>8, <1>9 DEF f

\* Counts: document counts and sizes of layers are naturals.
Counts ==
  /\ \A b \in DOMAIN info : info[b].nNumDocs \in Nat /\ "nNumDocs" \in DOMAIN info[b]
  /\ levelSize \in [Levels -> Nat]
  /\ deletes \in Nat

\* The layer whose barrels mergeBarrel() is merging.
beingMerged(l) == btpc = "merge" /\ l = pLevel1

\* gone[l] are the deletions that a layer's size has not noticed: a deletion is
\* counted in one layer at most, wherever its barrel is moved.
Accounts(gone) ==
  /\ gone \in [Levels -> SUBSET (1 .. deletes)]
  /\ \A k, l \in Levels : k # l => gone[k] \cap gone[l] = {}
  /\ \A l \in Levels :
       levelSize[l] = IF beingMerged(l) THEN 0
                      ELSE SumOver(docsOf(info), queue[l]) + Cardinality(gone[l])

SizeInv == Counts /\ \E gone : Accounts(gone)

\* The document counts of the barrels of a layer, as the lemmas on sums need them.
LEMMA DocsOfLayer ==
  ASSUME Shape, Counts, NEW l \in Levels
  PROVE  /\ IsFiniteSet(queue[l]) /\ queue[l] \subseteq DOMAIN info
         /\ \A b \in queue[l] : docsOf(info)[b] \in Nat /\ docsOf(info)[b] = info[b].nNumDocs
         /\ SumOver(docsOf(info), queue[l]) \in Nat
<1>1. IsFiniteSet(queue[l]) /\ queue[l] \subseteq DOMAIN info
  BY HistoryOfBarrels DEF Shape
<1>2. \A b \in queue[l] : docsOf(info)[b] \in Nat /\ docsOf(info)[b] = info[b].nNumDocs
  BY <1>1 DEF Counts, docsOf
<1>. QED  BY <1>1, <1>2, SumNatural

\* A layer whose barrels keep their document counts keeps their sum.
LEMMA DocsKept ==
  ASSUME Shape, Counts, NEW Q, IsFiniteSet(Q), Q \subseteq DOMAIN info, Q \subseteq DOMAIN info',
         \A b \in Q : info'[b].nNumDocs = info[b].nNumDocs
  PROVE  SumOver(docsOf(info'), Q) = SumOver(docsOf(info), Q)
<1>1. \A b \in Q : docsOf(info)[b] \in Nat /\ docsOf(info')[b] = docsOf(info)[b]
  BY DEF Counts, docsOf
<1>. QED  BY <1>1, SumAgrees

\* Combining two layers adds their sizes, and the deletions they have not noticed.
LEMMA CombinedSizes ==
  ASSUME PolicyInv, SizeInv, NEW l2 \in Levels, l2 # pLevel1, btpc # "merge", btpc' # "merge",
         combineLayer(pLevel1, l2), UNCHANGED <<info, deletes>>
  PROVE  SizeInv'
<1>. DEFINE lower  == IF pLevel1 < l2 THEN pLevel1 ELSE l2
            higher == IF pLevel1 < l2 THEN l2 ELSE pLevel1
            docs(l) == SumOver(docsOf(info), queue[l])
<1>0. Shape /\ Control /\ Counts /\ LayersPartitionBarrels
  BY DEF PolicyInv, SizeInv
<1>1. lower \in Levels /\ higher \in Levels /\ lower # higher
  BY DEF combineLayer, PolicyInv, Control
<1>2. /\ queue' = [queue EXCEPT ![higher] = @ \cup queue[lower], ![lower] = {}]
      /\ levelSize' = [levelSize EXCEPT ![higher] = @ + levelSize[lower], ![lower] = 0]
  BY DEF combineLayer
<1>. HIDE DEF lower, higher
<1>3. PICK gone : Accounts(gone)
  BY DEF SizeInv
<1>g. PICK g : g = [gone EXCEPT ![higher] = @ \cup gone[lower], ![lower] = {}]
  OBVIOUS
<1>4. /\ gone \in [Levels -> SUBSET (1 .. deletes)] /\ g \in [Levels -> SUBSET (1 .. deletes)]
      /\ g[lower] = {} /\ g[higher] = gone[higher] \cup gone[lower]
      /\ \A l \in Levels \ {lower, higher} : g[l] = gone[l]
      /\ \A k, l \in Levels : k # l => gone[k] \cap gone[l] = {}
  BY <1>1, <1>3, <1>g DEF Accounts
<1>5. /\ queue'[lower] = {} /\ queue'[higher] = queue[higher] \cup queue[lower]
      /\ \A l \in Levels \ {lower, higher} : queue'[l] = queue[l]
      /\ levelSize'[lower] = 0 /\ levelSize'[higher] = levelSize[higher] + levelSize[lower]
      /\ \A l \in Levels \ {lower, higher} : levelSize'[l] = levelSize[l]
  BY <1>0, <1>1, <1>2 DEF Shape, Counts
<1>6. \A l \in Levels : levelSize[l] = docs(l) + Cardinality(gone[l]) /\ docs(l) \in Nat
  BY <1>0, <1>3, DocsOfLayer DEF Accounts, beingMerged
<1>7. \A l \in Levels : IsFiniteSet(gone[l]) /\ Cardinality(gone[l]) \in Nat
  <2>1. IsFiniteSet(1 .. deletes)
    BY <1>0, FS_Interval DEF Counts
  <2>2. \A l \in Levels : gone[l] \in SUBSET (1 .. deletes)
    BY <1>4
  <2>. QED  BY <2>1, <2>2, FS_Subset, FS_CardinalityType
<1>8. Cardinality(g[higher]) = Cardinality(gone[higher]) + Cardinality(gone[lower])
  <2>. DEFINE u == gone[higher]
              v == gone[lower]
  <2>1. IsFiniteSet(u) /\ IsFiniteSet(v) /\ u \cap v = {} /\ Cardinality(u) \in Nat /\ Cardinality(v) \in Nat
    BY <1>1, <1>4, <1>7
  <2>2. g[higher] = u \cup v
    BY <1>4
  <2>. HIDE DEF u, v
  <2>3. Cardinality(u \cup v) = Cardinality(u) + Cardinality(v) - Cardinality(u \cap v)
    BY <2>1, FS_Union
  <2>4. Cardinality(u \cap v) = 0
    BY <2>1, FS_EmptySet
  <2>5. Cardinality(u \cup v) = Cardinality(u) + Cardinality(v)
    BY <2>1, <2>3, <2>4
  <2>. QED  BY <2>2, <2>5 DEF u, v
<1>9. SumOver(docsOf(info), queue[higher] \cup queue[lower]) = docs(higher) + docs(lower)
  <2>1. queue[higher] \cap queue[lower] = {}
    BY <1>0, <1>1 DEF LayersPartitionBarrels
  <2>2. /\ IsFiniteSet(queue[higher]) /\ IsFiniteSet(queue[lower])
        /\ \A b \in queue[higher] \cup queue[lower] : docsOf(info)[b] \in Nat
    BY <1>0, <1>1, DocsOfLayer
  <2>. QED  BY <2>1, <2>2, SumOfBoth
<1>10. SumOver(docsOf(info), {}) = 0 /\ Cardinality({}) = 0
  BY SumOfNone, FS_EmptySet
<1>11. \A l \in Levels : levelSize'[l] = SumOver(docsOf(info'), queue'[l]) + Cardinality(g[l])
  <2>. TAKE l \in Levels
  <2>0. info' = info
    OBVIOUS
  <2>1. CASE l = lower
    <3>1. levelSize'[l] = 0 /\ SumOver(docsOf(info'), queue'[l]) = 0 /\ Cardinality(g[l]) = 0
      BY <1>4, <1>5, <1>10, <2>0, <2>1, Zenon
    <3>. QED  BY <3>1
  <2>2. CASE l = higher
    <3>1. /\ levelSize'[l] = levelSize[higher] + levelSize[lower]
          /\ SumOver(docsOf(info'), queue'[l]) = docs(higher) + docs(lower)
          /\ Cardinality(g[l]) = Cardinality(gone[higher]) + Cardinality(gone[lower])
      BY <1>5, <1>8, <1>9, <2>0, <2>2, Zenon
    <3>. HIDE DEF docs
    <3>. QED  BY <1>1, <1>6, <1>7, <3>1
  <2>3. CASE l \notin {lower, higher}
    BY <1>4, <1>5, <1>6, <2>0, <2>3
  <2>. QED  BY <2>1, <2>2, <2>3
<1>12. \A k, l \in Levels : k # l => g[k] \cap g[l] = {}
  BY <1>1, <1>4
<1>13. Accounts(g)'
  BY <1>4, <1>11, <1>12 DEF Accounts, beingMerged
<1>14. levelSize' \in [Levels -> Nat]
  BY <1>0, <1>1, <1>2 DEF Counts
<1>15. Counts'
  BY <1>0, <1>14 DEF Counts
<1>. QED  BY <1>13, <1>15 DEF SizeInv

\* The deletions a layer has not noticed are finitely many.
LEMMA GoneFinite ==
  ASSUME Counts, NEW gone, Accounts(gone), NEW l \in Levels
  PROVE  IsFiniteSet(gone[l]) /\ Cardinality(gone[l]) \in Nat /\ Cardinality(gone[l]) <= deletes
<1>1. IsFiniteSet(1 .. deletes) /\ Cardinality(1 .. deletes) = deletes
  BY FS_Interval DEF Counts
<1>2. gone[l] \in SUBSET (1 .. deletes)
  BY DEF Accounts
<1>. QED  BY <1>1, <1>2, FS_Subset, FS_CardinalityType

\* Every step keeps the sizes accounted for.
LEMMA SizeInvStep ==
  ASSUME PolicyInv, SizeInv, [Next]_vars
  PROVE  SizeInv'
<1>. USE DEF btvars
<1>0. Shape /\ Control /\ LayersPartitionBarrels /\ Counts
  BY DEF PolicyInv, SizeInv
<1>g. PICK gone : Accounts(gone)
  BY DEF SizeInv
<1>q. \A l \in Levels : /\ IsFiniteSet(queue[l]) /\ queue[l] \subseteq DOMAIN info
                        /\ SumOver(docsOf(info), queue[l]) \in Nat
  BY <1>0, DocsOfLayer
<1>1. ASSUME NEW n \in FlushSizes, Flush(n)
      PROVE  SizeInv'
  <2>. DEFINE e == [base |-> NextDoc, max |-> NextDoc + n - 1, nNumDocs |-> n]
              new == Len(info) + 1
  <2>1. info' = Append(info, e) /\ UNCHANGED <<queue, levelSize, btpc, pLevel1, deletes>>
    BY <1>1 DEF Flush
  <2>2. e.nNumDocs \in Nat /\ "nNumDocs" \in DOMAIN e
    BY BarrelMergeAssumption
  <2>. HIDE DEF e
  <2>3. /\ DOMAIN info' = DOMAIN info \cup {new}
        /\ \A b \in DOMAIN info : info'[b] = info[b]
        /\ info'[new] = e
    BY <1>0, <2>1, AppendedTo DEF Shape
  <2>. HIDE DEF new
  <2>4. Counts'
    BY <1>0, <2>1, <2>2, <2>3 DEF Counts
  <2>5. \A l \in Levels : SumOver(docsOf(info'), queue[l]) = SumOver(docsOf(info), queue[l])
    BY <1>0, <1>q, <2>3, DocsKept
  <2>6. Accounts(gone)'
    BY <1>g, <2>1, <2>5 DEF Accounts, beingMerged
  <2>. QED  BY <2>4, <2>6 DEF SizeInv
<1>2. CASE AddToMerge
  <2>. DEFINE n == info[pending].nNumDocs
  <2>l. PICK l : l = getLevel(n)
    OBVIOUS
  <2>1. l \in Levels /\ pending \in DOMAIN info /\ n \in Nat
    BY <1>0, <1>2, <2>l, LevelOfSize DEF AddToMerge, Shape, Counts
  <2>2. /\ btpc = "idle" /\ btpc' # "merge" /\ UNCHANGED <<info, deletes>>
        /\ queue' = [queue EXCEPT ![l] = @ \cup {pending}]
        /\ levelSize' = [levelSize EXCEPT ![l] = @ + n]
    BY <1>2, <2>l DEF AddToMerge, addBarrel
  <2>3. /\ queue'[l] = queue[l] \cup {pending} /\ levelSize'[l] = levelSize[l] + n
        /\ \A k \in Levels \ {l} : queue'[k] = queue[k] /\ levelSize'[k] = levelSize[k]
    BY <1>0, <2>1, <2>2 DEF Shape, Counts
  <2>4. SumOver(docsOf(info), queue[l] \cup {pending}) = SumOver(docsOf(info), queue[l]) + n
    <3>1. queue[l] \cap {pending} = {}
      BY <1>0, <2>1 DEF LayersPartitionBarrels
    <3>2. docsOf(info)[pending] = n
      BY <2>1 DEF docsOf
    <3>3. IsFiniteSet({pending}) /\ \A b \in queue[l] \cup {pending} : docsOf(info)[b] \in Nat
      BY <1>0, <2>1, <3>2, DocsOfLayer, FS_Singleton
    <3>4. SumOver(docsOf(info), {pending}) = n
      BY <2>1, <3>2, SumOfOne
    <3>. HIDE DEF n
    <3>. QED  BY <1>q, <2>1, <3>1, <3>3, <3>4, SumOfBoth
  <2>. HIDE DEF n
  <2>5. Counts'
    BY <1>0, <2>1, <2>2 DEF Counts
  <2>6. \A k \in Levels : levelSize'[k] = SumOver(docsOf(info'), queue'[k]) + Cardinality(gone[k])
    <3>. TAKE k \in Levels
    <3>1. levelSize[k] = SumOver(docsOf(info), queue[k]) + Cardinality(gone[k])
      BY <1>g, <2>2 DEF Accounts, beingMerged
    <3>2. CASE k = l
      <4>1. SumOver(docsOf(info'), queue'[k]) = SumOver(docsOf(info), queue[k]) + n
        BY <2>2, <2>3, <2>4, <3>2, Zenon
      <4>. QED  BY <1>0, <1>g, <1>q, <2>1, <2>3, <3>1, <3>2, <4>1, GoneFinite
    <3>3. CASE k # l
      BY <2>2, <2>3, <3>1, <3>3
    <3>. QED  BY <3>2, <3>3
  <2>7. Accounts(gone)'
    <3>1. \A k \in Levels : ~beingMerged(k)'
      BY <2>2 DEF beingMerged
    <3>2. /\ gone \in [Levels -> SUBSET (1 .. deletes')]
          /\ \A j, k \in Levels : j # k => gone[j] \cap gone[k] = {}
      BY <1>g, <2>2 DEF Accounts
    <3>. QED  BY <2>6, <3>1, <3>2 DEF Accounts
  <2>. QED  BY <2>5, <2>7 DEF SizeInv
<1>3. CASE TriggerMerge
  <2>0. UNCHANGED <<info, deletes>> /\ triggerMerge(baseDocID)
    BY <1>3 DEF TriggerMerge
  <2>1. CASE CombineUpper
    <3>. DEFINE l2 == getLevel(levelSize[pLevel1])
    <3>1. l2 \in Levels /\ l2 # pLevel1 /\ btpc = "up" /\ btpc' = "up" /\ combineLayer(pLevel1, l2)
      BY <1>0, <2>1, LevelOfSize, BTAssumption DEF CombineUpper, WouldTriggerUpper, Control, Levels
    <3>. HIDE DEF l2
    <3>. QED  BY <2>0, <3>1, CombinedSizes
  <2>2. CASE StartPass
    <3>1. btpc # "merge" /\ btpc' # "merge" /\ UNCHANGED <<queue, levelSize>>
      BY <2>2 DEF StartPass
    <3>2. Counts' /\ Accounts(gone)'
      BY <1>0, <1>g, <2>0, <3>1 DEF Counts, Accounts, beingMerged
    <3>. QED  BY <3>2 DEF SizeInv
  <2>3. CASE PassLayer(baseDocID)
    <3>1. iter2 \in Levels /\ btpc = "pass" /\ btpc' = btpc
      BY <1>0, <2>3, BTAssumption DEF PassLayer, Control, Levels
    <3>2. CASE Interleaved(iter2, baseDocID)
      <4>1. combineLayer(pLevel1, iter2) /\ iter2 # pLevel1
        BY <2>3, <3>2 DEF PassLayer, Interleaved
      <4>. QED  BY <2>0, <3>1, <4>1, CombinedSizes
    <3>3. CASE ~Interleaved(iter2, baseDocID)
      <4>1. UNCHANGED <<queue, levelSize, pLevel1>>
        BY <2>3, <3>3 DEF PassLayer
      <4>2. Counts' /\ Accounts(gone)'
        BY <1>0, <1>g, <2>0, <3>1, <4>1 DEF Counts, Accounts, beingMerged
      <4>. QED  BY <4>2 DEF SizeInv
    <3>. QED  BY <3>2, <3>3
  <2>4. CASE EndPass
    <3>1. /\ btpc = "pass" /\ btpc' = "merge" /\ UNCHANGED <<queue, pLevel1>>
          /\ levelSize' = [levelSize EXCEPT ![pLevel1] = 0]
      BY <2>4 DEF EndPass
    <3>2. /\ levelSize'[pLevel1] = 0 /\ levelSize' \in [Levels -> Nat]
          /\ \A l \in Levels \ {pLevel1} : levelSize'[l] = levelSize[l]
      BY <1>0, <3>1 DEF Counts, Control
    <3>3. Counts' /\ Accounts(gone)'
      BY <1>0, <1>g, <2>0, <3>1, <3>2 DEF Counts, Accounts, beingMerged
    <3>. QED  BY <3>3 DEF SizeInv
  <2>. QED  BY <2>0, <2>1, <2>2, <2>3, <2>4 DEF triggerMerge
<1>4. CASE MergeBarrel
  <2>. DEFINE e == Merged(queue[pLevel1])
              new == Len(info) + 1
  <2>1. /\ info' = Append(info, e) /\ UNCHANGED <<levelSize, deletes>>
        /\ btpc = "merge" /\ btpc' = "idle" /\ queue' = [queue EXCEPT ![pLevel1] = {}]
    BY <1>4 DEF MergeBarrel, ClearMerged
  <2>2. e.nNumDocs \in Nat /\ "nNumDocs" \in DOMAIN e
    <3>1. e.nNumDocs = numDocsOf(info, queue[pLevel1]) /\ "nNumDocs" \in DOMAIN e
      BY DEF Merged, numDocsOf
    <3>2. /\ pLevel1 \in Levels /\ IsFiniteSet(queue[pLevel1]) /\ queue[pLevel1] \subseteq DOMAIN info
          /\ \A b \in queue[pLevel1] : info[b].nNumDocs \in Nat
      BY <1>0, <1>q DEF Control, Counts
    <3>3. numDocsOf(info, queue[pLevel1]) = SumOver(docsOf(info), queue[pLevel1])
      BY <3>2, DocsAreSum
    <3>. QED  BY <1>q, <3>1, <3>2, <3>3
  <2>. HIDE DEF e
  <2>3. /\ DOMAIN info' = DOMAIN info \cup {new}
        /\ \A b \in DOMAIN info : info'[b] = info[b]
        /\ info'[new] = e
    BY <1>0, <2>1, AppendedTo DEF Shape
  <2>. HIDE DEF new
  <2>4. Counts'
    BY <1>0, <2>1, <2>2, <2>3 DEF Counts
  <2>5. \A l \in Levels : SumOver(docsOf(info'), queue[l]) = SumOver(docsOf(info), queue[l])
    BY <1>0, <1>q, <2>3, DocsKept
  <2>6. pLevel1 \in Levels /\ levelSize[pLevel1] = 0
    BY <1>0, <1>g, <2>1 DEF Control, Accounts, beingMerged
  <2>7. queue'[pLevel1] = {} /\ \A l \in Levels \ {pLevel1} : queue'[l] = queue[l]
    BY <1>0, <2>1, <2>6 DEF Shape
  <2>8. PICK g : g = [gone EXCEPT ![pLevel1] = {}]
    OBVIOUS
  <2>9. /\ g \in [Levels -> SUBSET (1 .. deletes)] /\ g[pLevel1] = {}
        /\ \A l \in Levels \ {pLevel1} : g[l] = gone[l]
        /\ \A k, l \in Levels : k # l => gone[k] \cap gone[l] = {}
    BY <1>g, <2>6, <2>8 DEF Accounts
  <2>10. \A l \in Levels : levelSize'[l] = SumOver(docsOf(info'), queue'[l]) + Cardinality(g[l])
    <3>. TAKE l \in Levels
    <3>1. CASE l = pLevel1
      <4>1. SumOver(docsOf(info'), {}) = 0 /\ Cardinality({}) = 0
        BY SumOfNone, FS_EmptySet
      <4>2. levelSize'[l] = 0 /\ SumOver(docsOf(info'), queue'[l]) = 0 /\ Cardinality(g[l]) = 0
        BY <2>1, <2>6, <2>7, <2>9, <3>1, <4>1, Zenon
      <4>. QED  BY <4>2
    <3>2. CASE l # pLevel1
      <4>1. levelSize[l] = SumOver(docsOf(info), queue[l]) + Cardinality(gone[l])
        BY <1>g, <3>2 DEF Accounts, beingMerged
      <4>2. /\ SumOver(docsOf(info'), queue'[l]) = SumOver(docsOf(info), queue[l])
            /\ g[l] = gone[l] /\ levelSize'[l] = levelSize[l]
        BY <2>1, <2>5, <2>7, <2>9, <3>2
      <4>. QED  BY <4>1, <4>2
    <3>. QED  BY <3>1, <3>2
  <2>11. \A k, l \in Levels : k # l => g[k] \cap g[l] = {}
    BY <2>9
  <2>12. Accounts(g)'
    BY <2>1, <2>9, <2>10, <2>11 DEF Accounts, beingMerged
  <2>. QED  BY <2>4, <2>12 DEF SizeInv
<1>5. ASSUME NEW b \in live, DeleteDocument(b)
      PROVE  SizeInv'
  <2>1. /\ info' = [info EXCEPT ![b].nNumDocs = @ - 1] /\ info[b].nNumDocs > 0
        /\ deletes' = deletes + 1
        /\ UNCHANGED <<queue, levelSize, btpc, pLevel1>>
    BY <1>5 DEF DeleteDocument
  <2>2. b \in DOMAIN info /\ info[b].nNumDocs \in Nat /\ "nNumDocs" \in DOMAIN info[b] /\ deletes \in Nat
    BY <1>0 DEF Shape, Counts
  <2>3. /\ DOMAIN info' = DOMAIN info
        /\ \A c \in DOMAIN info \ {b} : info'[c] = info[c]
        /\ info'[b].nNumDocs = info[b].nNumDocs - 1 /\ "nNumDocs" \in DOMAIN info'[b]
    BY <2>1, <2>2
  <2>4. Counts'
    BY <1>0, <2>1, <2>2, <2>3 DEF Counts
  <2>5. \A l \in Levels : b \notin queue[l] => SumOver(docsOf(info'), queue[l]) = SumOver(docsOf(info), queue[l])
    BY <1>0, <1>q, <2>3, DocsKept
  <2>6. gone \in [Levels -> SUBSET (1 .. deletes')] /\ deletes + 1 \in 1 .. deletes'
        /\ \A l \in Levels : deletes + 1 \notin gone[l]
    BY <1>g, <2>1, <2>2 DEF Accounts
  <2>7. CASE \A l \in Levels : b \in queue[l] => beingMerged(l)
    <3>1. Accounts(gone)'
      BY <1>g, <2>1, <2>5, <2>6, <2>7 DEF Accounts, beingMerged
    <3>. QED  BY <2>4, <3>1 DEF SizeInv
  <2>8. ASSUME NEW l \in Levels, b \in queue[l], ~beingMerged(l)
        PROVE  SizeInv'
    <3>1. \A k \in Levels \ {l} : b \notin queue[k]
      BY <1>0, <2>8 DEF LayersPartitionBarrels
    <3>2. PICK g : g = [gone EXCEPT ![l] = @ \cup {deletes + 1}]
      OBVIOUS
    <3>3. /\ g \in [Levels -> SUBSET (1 .. deletes')] /\ g[l] = gone[l] \cup {deletes + 1}
          /\ \A k \in Levels \ {l} : g[k] = gone[k]
      BY <2>6, <3>2
    <3>4. \A j, k \in Levels : j # k => g[j] \cap g[k] = {}
      BY <1>g, <2>6, <3>3 DEF Accounts
    <3>5. Cardinality(g[l]) = Cardinality(gone[l]) + 1 /\ Cardinality(gone[l]) \in Nat
      BY <1>0, <1>g, <2>6, <3>3, GoneFinite, FS_AddElement
    <3>6. SumOver(docsOf(info'), queue[l]) + 1 = SumOver(docsOf(info), queue[l])
      <4>. DEFINE rest == queue[l] \ {b}
                  d == docsOf(info)
                  e == docsOf(info')
      <4>1. /\ queue[l] = rest \cup {b} /\ rest \cap {b} = {} /\ IsFiniteSet(rest) /\ IsFiniteSet({b})
            /\ rest \subseteq DOMAIN info /\ rest \subseteq DOMAIN info'
        BY <1>q, <2>3, <2>8, FS_Subset, FS_Singleton
      <4>2. \A c \in rest \cup {b} : d[c] \in Nat /\ e[c] \in Nat
        BY <1>0, <2>2, <2>3, <2>4, <4>1 DEF Counts, docsOf
      <4>3. d[b] = info[b].nNumDocs /\ e[b] = d[b] - 1 /\ d[b] \in Nat
        BY <2>2, <2>3 DEF docsOf
      <4>4. SumOver(e, rest) = SumOver(d, rest)
        BY <1>0, <2>3, <4>1, DocsKept
      <4>. HIDE DEF rest, d, e
      <4>5. /\ SumOver(d, rest \cup {b}) = SumOver(d, rest) + SumOver(d, {b})
            /\ SumOver(e, rest \cup {b}) = SumOver(e, rest) + SumOver(e, {b})
            /\ SumOver(d, rest) \in Nat
        BY <4>1, <4>2, SumOfBoth
      <4>6. SumOver(d, {b}) = d[b] /\ SumOver(e, {b}) = e[b]
        BY <4>2, SumOfOne
      <4>7. SumOver(e, rest \cup {b}) + 1 = SumOver(d, rest \cup {b})
        BY <4>3, <4>4, <4>5, <4>6
      <4>. QED  BY <4>1, <4>7 DEF d, e
    <3>7. SumOver(docsOf(info'), queue[l]) \in Nat
      <4>1. \A c \in queue[l] : docsOf(info')[c] \in Nat
        BY <1>q, <2>3, <2>4 DEF Counts, docsOf
      <4>. QED  BY <1>q, <4>1, SumNatural
    <3>8. \A k \in Levels : levelSize'[k] = IF beingMerged(k)' THEN 0
                            ELSE SumOver(docsOf(info'), queue'[k]) + Cardinality(g[k])
      <4>. TAKE k \in Levels
      <4>1. levelSize[k] = IF beingMerged(k) THEN 0
                           ELSE SumOver(docsOf(info), queue[k]) + Cardinality(gone[k])
        BY <1>g DEF Accounts
      <4>2. (beingMerged(k)' <=> beingMerged(k)) /\ levelSize' = levelSize /\ queue' = queue
        BY <2>1 DEF beingMerged
      <4>3. CASE k = l
        BY <2>8, <3>5, <3>6, <3>7, <4>1, <4>2, <4>3
      <4>4. CASE k # l
        BY <2>5, <3>1, <3>3, <4>1, <4>2, <4>4
      <4>. QED  BY <4>3, <4>4
    <3>9. Accounts(g)'
      BY <3>3, <3>4, <3>8 DEF Accounts
    <3>. QED  BY <2>4, <3>9 DEF SizeInv
  <2>. QED  BY <2>7, <2>8
<1>6. CASE UNCHANGED vars
  <2>1. Counts' /\ Accounts(gone)'
    BY <1>0, <1>g, <1>6 DEF vars, Counts, Accounts, beingMerged
  <2>. QED  BY <2>1 DEF SizeInv
<1>. QED  BY <1>1, <1>2, <1>3, <1>4, <1>5, <1>6 DEF Next

\* Whatever is flushed, deleted, combined and merged, nLevelSize_ of a layer is the
\* number of documents of its barrels plus deletions that happened since they were
\* added: combining layers again and again never counts a barrel or a deletion twice.
THEOREM SizesAccountedFor == Spec => []LevelSizeAccounts
<1>1. Init => SizeInv
  <2>. SUFFICES ASSUME Init PROVE SizeInv
    OBVIOUS
  <2>1. Counts
    BY DEF Init, BTInit, Counts
  <2>2. PICK g : g = [l \in Levels |-> {}]
    OBVIOUS
  <2>3. \A l \in Levels : SumOver(docsOf(info), queue[l]) = 0 /\ Cardinality(g[l]) = 0
    <3>1. SumOver(docsOf(info), {}) = 0 /\ Cardinality({}) = 0
      BY SumOfNone, FS_EmptySet
    <3>2. \A l \in Levels : queue[l] = {} /\ g[l] = {}
      BY <2>2 DEF Init, BTInit
    <3>. QED  BY <3>1, <3>2, Zenon
  <2>4. Accounts(g)
    BY <2>2, <2>3 DEF Init, BTInit, Accounts, beingMerged
  <2>. QED  BY <2>1, <2>4 DEF SizeInv
<1>2. PolicyInv /\ SizeInv /\ [Next]_vars => SizeInv'
  BY SizeInvStep
<1>3. PolicyInv /\ SizeInv => LevelSizeAccounts
  <2>. SUFFICES ASSUME PolicyInv, SizeInv, NEW l \in Levels, ~beingMerged(l)
                PROVE  /\ numDocsOf(info, queue[l]) <= levelSize[l]
                       /\ levelSize[l] <= numDocsOf(info, queue[l]) + deletes
    BY DEF LevelSizeAccounts, numDocsOf, beingMerged
  <2>1. PICK gone : Accounts(gone)
    BY DEF SizeInv
  <2>2. Shape /\ Counts /\ deletes \in Nat
    BY DEF PolicyInv, SizeInv, Counts
  <2>3. /\ IsFiniteSet(queue[l]) /\ queue[l] \subseteq DOMAIN info
        /\ \A b \in queue[l] : info[b].nNumDocs \in Nat
        /\ SumOver(docsOf(info), queue[l]) \in Nat
    BY <2>2, DocsOfLayer
  <2>4. numDocsOf(info, queue[l]) = SumOver(docsOf(info), queue[l])
    BY <2>3, DocsAreSum
  <2>5. levelSize[l] = SumOver(docsOf(info), queue[l]) + Cardinality(gone[l])
    BY <2>1 DEF Accounts
  <2>. QED  BY <2>1, <2>2, <2>3, <2>4, <2>5, GoneFinite
<1>. QED  BY <1>1, <1>2, <1>3, PolicyInvariant, PTL DEF Spec
=============================================================================
