---------------------------- MODULE BarrelMerge ----------------------------
(***************************************************************************)
(* IndexMerger::addToMerge() with the BTPolicy as one sequential           *)
(* computation: barrels of given sizes are flushed one after the other,    *)
(* the policy decides what is merged, mergeBarrel() replaces the merged    *)
(* barrels by one and adds it again.  Only what the policy looks at is     *)
(* kept of a barrel: its document count and its range of document ids.     *)
(***************************************************************************)
EXTENDS BTPolicy, Sequences, FiniteSetsExt

CONSTANTS
  FlushSizes,   \* how many documents a flushed barrel may hold
  MaxFlushes,   \* bound: how many barrels are flushed
  MaxDeletes    \* bound: how many documents are deleted

ASSUME BarrelMergeAssumption ==
  /\ FlushSizes \subseteq Nat \ {0}
  /\ MaxFlushes \in Nat
  /\ MaxDeletes \in Nat

VARIABLES
  info,      \* info[b]: the BarrelInfo of barrel b, in the order of creation
  live,      \* the barrels in BarrelsInfo::barrelInfos
  pending,   \* the barrel handed to addBarrel() next, 0 for none
  flushed,   \* barrels flushed so far
  deletes    \* documents deleted so far

vars == <<btvars, info, live, pending, flushed, deletes>>

baseDocID == [b \in DOMAIN info |-> info[b].base]

Init ==
  /\ BTInit
  /\ info = <<>>
  /\ live = {}
  /\ pending = 0
  /\ flushed = 0
  /\ deletes = 0

\* The least document id no barrel has used.
NextDoc == 1 + Max({0} \cup {info[b].max : b \in DOMAIN info})

\* IndexWriter::flush(): a barrel of n new documents is written and handed over.
Flush(n) ==
  /\ pending = 0 /\ btpc = "idle"
  /\ flushed < MaxFlushes
  /\ info' = Append(info, [base |-> NextDoc, max |-> NextDoc + n - 1, nNumDocs |-> n])
  /\ live' = live \cup {Len(info) + 1}
  /\ pending' = Len(info) + 1
  /\ flushed' = flushed + 1
  /\ UNCHANGED <<btvars, deletes>>

\* IndexMerger::addToMerge(), or the addBarrel() at the end of mergeBarrel().
AddToMerge ==
  /\ pending # 0
  /\ addBarrel(pending, info[pending].nNumDocs)
  /\ pending' = 0
  /\ UNCHANGED <<info, live, flushed, deletes>>

TriggerMerge ==
  /\ triggerMerge(baseDocID)
  /\ UNCHANGED <<info, live, pending, flushed, deletes>>

\* The record createNewBarrelInfo() makes for the barrels of Q.
Merged(Q) ==
  [base |-> Min({info[b].base : b \in Q}),
   max |-> Max({info[b].max : b \in Q}),
   nNumDocs |-> MapThenSumSet(LAMBDA b : info[b].nNumDocs, Q)]

\* mergeBarrel(): the barrels of pLevel1 are replaced by the merged one.
MergeBarrel ==
  /\ ClearMerged
  /\ info' = Append(info, Merged(queue[pLevel1]))
  /\ live' = (live \ queue[pLevel1]) \cup {Len(info) + 1}
  /\ pending' = Len(info) + 1
  /\ UNCHANGED <<flushed, deletes>>

\* BarrelInfo::deleteDocument() on a barrel in use, at any moment.
DeleteDocument(b) ==
  /\ deletes < MaxDeletes
  /\ info[b].nNumDocs > 0
  /\ info' = [info EXCEPT ![b].nNumDocs = @ - 1]
  /\ deletes' = deletes + 1
  /\ UNCHANGED <<btvars, live, pending, flushed>>

Next ==
  \/ \E n \in FlushSizes : Flush(n)
  \/ AddToMerge
  \/ TriggerMerge
  \/ MergeBarrel
  \/ \E b \in live : DeleteDocument(b)

Spec == Init /\ [][Next]_vars

------------------------------------------------------------------------------
Settled == btpc = "idle" /\ pending = 0

\* While nothing is being merged, no layer is full: addBarrel() merges a layer
\* as soon as it reaches the collision factor, so a PriorityQueue of
\* MAX_LAYER_SIZE entries never overflows.
NoLayerFull == Settled => \A l \in Levels : Cardinality(queue[l]) < CollisionFactor

\* Every barrel of the index that the policy has been told of is in exactly one
\* layer, and a layer never keeps a barrel that has been merged away: combining
\* layers, merging them and adding the result neither loses nor repeats one.
LayersPartitionBarrels ==
  /\ UNION {queue[l] : l \in Levels} = live \ {pending}
  /\ \A k, l \in Levels : k # l => queue[k] \cap queue[l] = {}

\* nLevelSize_ of a layer accounts for the documents of its barrels, up to those
\* deleted since a barrel was added: the size decides which upper layer a merge
\* cascades into.
LevelSizeAccounts ==
  \A l \in Levels :
    LET docs == MapThenSumSet(LAMBDA b : info[b].nNumDocs, queue[l])
    IN (btpc = "merge" /\ l = pLevel1) \/ (docs <= levelSize[l] /\ levelSize[l] <= docs + deletes)

\* "Find the barrel which doc range includes docId": no document id lies in the
\* ranges of two barrels.
RangesDisjoint ==
  Settled => \A a, b \in live : a # b => info[a].max < info[b].base \/ info[b].max < info[a].base
=============================================================================
