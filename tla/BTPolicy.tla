------------------------------ MODULE BTPolicy ------------------------------
(***************************************************************************)
(* The balanced-tree merge policy of the index manager, class BTPolicy.    *)
(*                                                                         *)
(* A barrel that has been written to disk is put into the layer of its     *)
(* document count; when a layer holds CollisionFactor barrels they are     *)
(* merged, together with the layer the result would overflow and with      *)
(* every layer that has a barrel inside the range of base document ids of  *)
(* the barrels being merged.  The policy is driven by IndexMerger: this    *)
(* module holds its state and its steps, and the modules that extend it    *)
(* supply the barrels.                                                     *)
(*                                                                         *)
(* The C++ map nodesMap_ creates a layer on first use.  A layer that does  *)
(* not exist and one that is empty with size 0 behave the same whenever    *)
(* CollisionFactor > 1, so here every level has a layer from the start.    *)
(***************************************************************************)
EXTENDS Integers, FiniteSets

CONSTANTS
  CollisionFactor,  \* COLLISION_FACTOR_FOR_LEVEL_1, 3 in the code
  LevelBase,        \* a level is a power of 3 in the code
  MaxLevel          \* MAXLEVEL, 30 in the code

ASSUME BTAssumption ==
  /\ CollisionFactor \in Nat \ {0, 1}
  /\ LevelBase \in Nat \ {0, 1}
  /\ MaxLevel \in Nat

Levels == 0 .. MaxLevel

VARIABLES
  queue,      \* queue[l]: the barrels of layer l, BTLayer::pBarrelQueue_
  levelSize,  \* levelSize[l]: BTLayer::nLevelSize_
  btpc,       \* where triggerMerge() is: "idle", "up", "pass" or "merge"
  pLevel1,    \* the layer triggerMerge() is about to merge
  iter2       \* the next layer of its pass over all layers

btvars == <<queue, levelSize, btpc, pLevel1, iter2>>

\* The policy as its constructor leaves it: no layer holds a barrel.
BTInit ==
  /\ queue = [l \in Levels |-> {}]
  /\ levelSize = [l \in Levels |-> 0]
  /\ btpc = "idle"
  /\ pLevel1 = 0
  /\ iter2 = 0

\* The level n with LevelBase^n <= nLevelSize < LevelBase^(n+1); 0 when nLevelSize <= 0.
getLevel(nLevelSize) == Cardinality({l \in 1 .. MaxLevel : LevelBase ^ l <= nLevelSize})

\* Faulty variant: the entries are copied, and the lower layer keeps them.
combineLayer_Copy(l1, l2) ==
  LET lower  == IF l1 < l2 THEN l1 ELSE l2
      higher == IF l1 < l2 THEN l2 ELSE l1
  IN /\ queue' = [queue EXCEPT ![higher] = @ \cup queue[lower]]
     /\ levelSize' = [levelSize EXCEPT ![higher] = @ + levelSize[lower], ![lower] = 0]
     /\ pLevel1' = higher

\* Faulty variant: the size of the lower layer is not reset.
combineLayer_KeepSize(l1, l2) ==
  LET lower  == IF l1 < l2 THEN l1 ELSE l2
      higher == IF l1 < l2 THEN l2 ELSE l1
  IN /\ queue' = [queue EXCEPT ![higher] = @ \cup queue[lower], ![lower] = {}]
     /\ levelSize' = [levelSize EXCEPT ![higher] = @ + levelSize[lower]]
     /\ pLevel1' = higher

\* The lower of two layers is emptied into the higher one.
combineLayer(l1, l2) ==
  LET lower  == IF l1 < l2 THEN l1 ELSE l2
      higher == IF l1 < l2 THEN l2 ELSE l1
  IN /\ queue' = [queue EXCEPT ![higher] = @ \cup queue[lower], ![lower] = {}]
     /\ levelSize' = [levelSize EXCEPT ![higher] = @ + levelSize[lower], ![lower] = 0]
     /\ pLevel1' = higher

\* Faulty variant: a layer is merged only when it exceeds the collision factor.
addBarrel_Late(entry, numDocs) ==
  LET l == getLevel(numDocs)
      full == Cardinality(queue[l] \cup {entry}) > CollisionFactor
  IN /\ btpc = "idle"
     /\ queue' = [queue EXCEPT ![l] = @ \cup {entry}]
     /\ levelSize' = [levelSize EXCEPT ![l] = @ + numDocs]
     /\ btpc' = IF full THEN "up" ELSE "idle"
     /\ pLevel1' = IF full THEN l ELSE 0
     /\ iter2' = 0

\* addBarrel(): the entry joins the layer of its document count, and the layer
\* is to be merged when it is full.
addBarrel(entry, numDocs) ==
  LET l == getLevel(numDocs)
      full == Cardinality(queue[l] \cup {entry}) >= CollisionFactor
  IN /\ btpc = "idle"
     /\ queue' = [queue EXCEPT ![l] = @ \cup {entry}]
     /\ levelSize' = [levelSize EXCEPT ![l] = @ + numDocs]
     /\ btpc' = IF full THEN "up" ELSE "idle"
     /\ pLevel1' = IF full THEN l ELSE 0
     /\ iter2' = 0

\* Merging pLevel1 would in turn fill the layer that receives the result.
WouldTriggerUpper ==
  LET newLevel == getLevel(levelSize[pLevel1])
  IN newLevel > pLevel1 /\ Cardinality(queue[newLevel]) + 1 >= CollisionFactor

\* One iteration of the loop of triggerMerge() over the upper levels.
CombineUpper ==
  /\ btpc = "up"
  /\ WouldTriggerUpper
  /\ combineLayer(pLevel1, getLevel(levelSize[pLevel1]))
  /\ UNCHANGED <<btpc, iter2>>

\* That loop ends and the pass over the other layers begins.
StartPass ==
  /\ btpc = "up"
  /\ ~WouldTriggerUpper
  /\ btpc' = "pass"
  /\ iter2' = 0
  /\ UNCHANGED <<queue, levelSize, pLevel1>>

\* In the following, baseDocID[b] is MergeBarrelEntry::baseDocID() of barrel b.

\* base lies between the least and the greatest base of the barrels of layer l.
InBaseDocIDRange(base, l, baseDocID) ==
  \E lo, hi \in queue[l] : baseDocID[lo] <= base /\ base <= baseDocID[hi]

\* Some barrel of layer l has its base inside the range of pLevel1.
Interleaved(l, baseDocID) ==
  /\ l # pLevel1
  /\ \E e \in queue[l] : InBaseDocIDRange(baseDocID[e], pLevel1, baseDocID)

\* One iteration of the pass: layer iter2 is combined or left alone.
PassLayer(baseDocID) ==
  /\ btpc = "pass"
  /\ iter2 <= MaxLevel
  /\ iter2' = iter2 + 1
  /\ IF Interleaved(iter2, baseDocID)
       THEN combineLayer(pLevel1, iter2)
       ELSE UNCHANGED <<queue, levelSize, pLevel1>>
  /\ UNCHANGED btpc

\* The pass is over: the barrels of pLevel1 go to IndexMerger::mergeBarrel().
EndPass ==
  /\ btpc = "pass"
  /\ iter2 > MaxLevel
  /\ levelSize' = [levelSize EXCEPT ![pLevel1] = 0]
  /\ btpc' = "merge"
  /\ UNCHANGED <<queue, pLevel1, iter2>>

triggerMerge(baseDocID) ==
  CombineUpper \/ StartPass \/ PassLayer(baseDocID) \/ EndPass

\* createNewBarrelInfo() clears the queue it has merged; mergeBarrel() then
\* hands the merged barrel back through addBarrel().
ClearMerged ==
  /\ btpc = "merge"
  /\ queue' = [queue EXCEPT ![pLevel1] = {}]
  /\ btpc' = "idle"
  /\ pLevel1' = 0
  /\ iter2' = 0
  /\ UNCHANGED levelSize
=============================================================================
