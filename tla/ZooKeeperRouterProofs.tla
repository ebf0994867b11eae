------------------------ MODULE ZooKeeperRouterProofs ------------------------
(***************************************************************************)
(* Safety of the distributed driver's router, for any set of nodes and of  *)
(* calling threads, any size of the pools and any faults of RawClient; the *)
(* assertions of RawClient if it meets no faults.                          *)
(***************************************************************************)
EXTENDS ZooKeeperRouter, FiniteSetTheorems, TLAPS

(* Whoever updates or removes a node has its path.                         *)
PathKnown ==
  \A t \in Threads :
    pc[t] \in {"removeSf1Node", "updateNodeData", "isZNodeExists", "removing", "emptied", "addNode"}
      => path[t] \in Nodes

(* Only the watcher updates and clears nodes.                              *)
WatcherUpdates ==
  \A t \in Threads :
    pc[t] \in {"updateNodeData", "clearSf1Nodes", "emptied", "clearing"} => t = "watcher"

(* A thread that removes a node still has to delete its pool, unless it    *)
(* has just done so and has not given up the lock since.                   *)
PoolPending ==
  \A t \in Threads : pc[t] \in {"removing", "emptied"} =>
    /\ todo[t] \subseteq {path[t]}
    /\ path[t] \in todo[t] \/ (writer = t /\ path[t] \notin pools)

(* A caller has a current connection exactly while it uses it.             *)
CurrentInUse ==
  \A c \in Callers : pc[c] # "aborted" =>
    (cur[c] # NoConn <=> pc[c] \in {"getResponse", "succeeded", "failed"})

(* Only a thread that deletes pools keeps the write lock between steps.    *)
WriterRemoves == \A t \in Threads : writer = t => pc[t] \in Removers \cup {"aborted"}

(* Nobody writes while a node is being added, and there is data for it.    *)
UpgraderAlone == upgrader # NoOne => writer = NoOne /\ data # Absent

Control ==
  PathKnown /\ WatcherUpdates /\ PoolPending /\ CurrentInUse /\ WriterRemoves /\ UpgraderAlone

(* Available and held connections are idle; the busy ones are those whose  *)
(* response somebody waits for.                                            *)
StatusDiscipline ==
  /\ \A k \in available : status[k] = "Idle"
  /\ \A c \in Callers : \A k \in held[c] : status[k] = "Idle"
  /\ \A c \in Callers : pc[c] = "getResponse" => status[cur[c]] = "Busy"
  /\ \A k \in Conns : status[k] = "Busy" => \E c \in Callers : pc[c] = "getResponse" /\ cur[c] = k

(* So it is without faults, and then no CHECK fails.                       *)
FaultFree == Faults = {} => StatusDiscipline /\ AssertionsHold

IInv == TypeOK /\ Control /\ ConnectionsOwned /\ FaultFree /\ SizeExact

-----------------------------------------------------------------------------
(* The threads are different, and NoConn is no connection.                 *)
LEMMA ConstantFacts ==
  /\ NoConn \notin Conns
  /\ \A k \in Conns : k[1] \in Nodes
  /\ {"watcher", "timer", "owner"} \subseteq Threads /\ Callers \subseteq Threads
  /\ NoOne \notin Threads
  /\ \A c \in Callers : c \notin {"watcher", "timer", "owner"}
<1>1. NoConn \notin Conns
  BY DEF NoConn, Conns
<1>2. \A k \in Conns : k[1] \in Nodes
  BY DEF Conns
<1> QED BY <1>1, <1>2, RouterAssumption DEF Threads, NoOne

(* The connections of a node.                                              *)
Of(n) == {k \in available \cup reserved : k[1] = n}

(* A pool has finitely many connections.                                   *)
LEMMA PoolFinite ==
  ASSUME TypeOK, NEW n \in Nodes
  PROVE  IsFiniteSet(Of(n))
<1>1. IsFiniteSet({n}) /\ IsFiniteSet(1..MaxSize)
  <2>1. MaxSize \in Int /\ 1 \in Int
    BY RouterAssumption
  <2> QED BY <2>1, FS_Singleton, FS_Interval
<1>2. IsFiniteSet({n} \X (1..MaxSize))
  BY <1>1, FS_Product
<1>3. Of(n) \in SUBSET ({n} \X (1..MaxSize))
  BY DEF Of, TypeOK, Conns
<1> QED BY <1>2, <1>3, FS_Subset

(* A pool that has a connection counts it.                                 *)
LEMMA Counted ==
  ASSUME TypeOK, SizeExact, NEW k \in available \cup reserved
  PROVE  k \in Conns /\ k[1] \in Nodes /\ size[k[1]] >= 1
<1>1. k \in Conns /\ k[1] \in Nodes
  BY ConstantFacts DEF TypeOK
<1>2. IsFiniteSet(Of(k[1])) /\ k \in Of(k[1])
  BY <1>1, PoolFinite DEF Of
<1>3. Cardinality(Of(k[1])) \in Nat /\ Cardinality(Of(k[1])) # 0
  BY <1>2, FS_CardinalityType, FS_EmptySet
<1> QED BY <1>1, <1>3 DEF SizeExact, Of

(* The initial states satisfy the inductive invariant.                     *)
LEMMA InitIInv == Init => IInv
<1> SUFFICES ASSUME Init PROVE IInv
  OBVIOUS
<1> USE ConstantFacts, RouterAssumption
<1>1. PICK v \in Versions : zk = [n \in Nodes |-> v]
  BY DEF Init
<1>2. TypeOK
  <2>1. events \in Seq(({"deleted", "changed"} \X Nodes) \cup ({"children", "session"} \X {NoNode}))
    BY DEF Init
  <2>2. zk \in [Nodes -> Versions \cup {Absent}] /\ topology \in [Nodes -> Known]
    BY <1>1 DEF Init, Known
  <2>3. pc \in [Threads -> Labels]
    BY DEF Init, Labels
  <2>4. /\ path \in [Threads -> Nodes \cup {NoNode}] /\ todo \in [Threads -> SUBSET Nodes]
        /\ held \in [Callers -> SUBSET Conns] /\ cur \in [Callers -> Conns \cup {NoConn}]
        /\ calls \in [Callers -> 0..MaxCalls] /\ size \in [Nodes -> 0..MaxSize]
        /\ status \in [Conns -> {"Idle", "Busy", "Invalid"}] /\ deferred \in [Nodes -> Nat]
    BY DEF Init
  <2>5. /\ changes \in 0..MaxChanges /\ pools \subseteq Nodes
        /\ available \subseteq Conns /\ reserved \subseteq Conns
        /\ writer \in Threads \cup {NoOne} /\ readers \subseteq Callers /\ asleep \subseteq Threads
        /\ seen \in Versions \cup {Absent} /\ data \in Versions \cup {Absent}
        /\ upgrader \in {"watcher", "timer", NoOne}
    BY DEF Init
  <2>6. force \in BOOLEAN
    BY DEF Init
  <2> QED BY <2>1, <2>2, <2>3, <2>4, <2>5, <2>6 DEF TypeOK
<1>3. Control
  BY DEF Init, Control, PathKnown, WatcherUpdates, PoolPending, CurrentInUse, WriterRemoves, UpgraderAlone
<1>4. ConnectionsOwned
  BY DEF Init, ConnectionsOwned, Using
<1>5. FaultFree
  BY DEF Init, FaultFree, StatusDiscipline, AssertionsHold
<1>6. SizeExact
  <2> SUFFICES ASSUME NEW n \in Nodes PROVE size[n] = Cardinality(Of(n))
    BY DEF SizeExact, Of
  <2>1. Of(n) = {}
    BY DEF Init, Of
  <2> QED BY <2>1, FS_EmptySet DEF Init
<1> QED BY <1>2, <1>3, <1>4, <1>5, <1>6 DEF IInv

(* The types of ConnectionPool's variables and of the threads'.            *)
TypePool ==
  /\ pools \subseteq Nodes
  /\ available \subseteq Conns /\ reserved \subseteq Conns
  /\ size \in [Nodes -> 0..MaxSize]
  /\ status \in [Conns -> {"Idle", "Busy", "Invalid"}]

TypeThread ==
  /\ pc \in [Threads -> Labels] /\ path \in [Threads -> Nodes \cup {NoNode}]
  /\ todo \in [Threads -> SUBSET Nodes]

TypeCall ==
  /\ held \in [Callers -> SUBSET Conns] /\ cur \in [Callers -> Conns \cup {NoConn}]
  /\ calls \in [Callers -> 0..MaxCalls]

TypeRest ==
  /\ zk \in [Nodes -> Versions \cup {Absent}] /\ changes \in 0..MaxChanges
  /\ events \in Seq(({"deleted", "changed"} \X Nodes) \cup ({"children", "session"} \X {NoNode}))
  /\ topology \in [Nodes -> Known] /\ deferred \in [Nodes -> Nat]
  /\ writer \in Threads \cup {NoOne} /\ upgrader \in {"watcher", "timer", NoOne}
  /\ readers \subseteq Callers /\ asleep \subseteq Threads
  /\ seen \in Versions \cup {Absent} /\ force \in BOOLEAN /\ data \in Versions \cup {Absent}

(* TypeOK is made of the three.                                            *)
LEMMA TypeParts == TypeOK <=> TypePool /\ TypeThread /\ TypeCall /\ TypeRest
  BY DEF TypeOK, TypePool, TypeThread, TypeCall, TypeRest

(* acquire(), release() and the deletion of a pool keep the types.         *)
LEMMA AcquireType ==
  ASSUME TypeOK, NEW n \in Nodes, NEW k \in Conns, acquire(n, k), UNCHANGED pools
  PROVE  TypePool'
<1>1. CASE Reuse(n, k)
  BY <1>1 DEF Reuse, TypeOK, TypePool
<1>2. CASE Grow(n, k)
  BY <1>2, RouterAssumption DEF Grow, TypeOK, TypePool
<1> QED BY <1>1, <1>2 DEF acquire

LEMMA ReleaseType ==
  ASSUME TypeOK, SizeExact, NEW k \in reserved, release(k), UNCHANGED pools
  PROVE  TypePool'
<1>1. k \in Conns /\ k[1] \in Nodes /\ size[k[1]] - 1 \in 0..MaxSize
  BY Counted, RouterAssumption DEF TypeOK
<1> QED BY <1>1 DEF release, TypeOK, TypePool

LEMMA DeleteType ==
  ASSUME TypeOK, NEW n \in Nodes, DeletePool(n)
  PROVE  TypePool'
BY RouterAssumption DEF DeletePool, TypeOK, TypePool

(* Every step keeps the types; in particular no pool grows past MaxSize    *)
(* and none counts fewer than no connections.                              *)
LEMMA TypeStep == IInv /\ [Next]_vars => TypeOK'
<1> SUFFICES ASSUME IInv, [Next]_vars PROVE TypeOK'
  OBVIOUS
<1>0. TypePool /\ TypeThread /\ TypeCall /\ TypeRest /\ Control /\ SizeExact /\ TypeOK
  BY TypeParts DEF IInv
<1> USE ConstantFacts, RouterAssumption DEF Labels, Removers, Known, Absent
<1>1. ASSUME NEW n \in Nodes, ZkCreate(n) PROVE TypeOK'
  BY <1>1, <1>0 DEF ZkCreate, Change, poolVars, lockVars, seenVars, callVars, TypeOK
<1>2. ASSUME NEW n \in Nodes, ZkDelete(n) PROVE TypeOK'
  BY <1>2, <1>0 DEF ZkDelete, Change, poolVars, lockVars, seenVars, callVars, TypeOK
<1>3. ASSUME NEW n \in Nodes, ZkSet(n) PROVE TypeOK'
  BY <1>3, <1>0 DEF ZkSet, Change, poolVars, lockVars, seenVars, callVars, TypeOK
<1>4. CASE ZkSession
  BY <1>4, <1>0 DEF ZkSession, Change, poolVars, lockVars, seenVars, callVars, TypeOK
<1>5. ASSUME NEW c \in Callers, getConnection(c) PROVE TypeOK'
  <2>1. CASE \E n \in Routes \cap pools, k \in Conns :
               /\ acquire(n, k)
               /\ held' = [held EXCEPT ![c] = {k}] /\ Goto(c, "sendRequest") /\ UNCHANGED path
    <3>1. PICK n \in Nodes, k \in Conns :
               /\ acquire(n, k)
               /\ held' = [held EXCEPT ![c] = {k}] /\ Goto(c, "sendRequest") /\ UNCHANGED path
      BY <1>0, <2>1 DEF TypePool
    <3>2. TypePool'
      BY <1>0, <1>5, <3>1, AcquireType DEF getConnection
    <3>3. TypeThread' /\ TypeCall'
      BY <1>0, <1>5, <3>1 DEF getConnection, Calling, Goto, TypeThread, TypeCall
    <3>4. TypeRest'
      BY <1>0, <1>5 DEF getConnection, zkVars, lockVars, seenVars, TypeRest
    <3> QED BY <3>2, <3>3, <3>4 DEF TypeOK, TypePool, TypeThread, TypeCall, TypeRest
  <2>2. CASE \E n \in Routes \cap pools : /\ path' = [path EXCEPT ![c] = n]
                                         /\ Goto(c, "isZNodeExists") /\ UNCHANGED <<poolVars, held>>
    BY <1>0, <1>5, <2>2 DEF getConnection, Calling, Goto, zkVars, poolVars, lockVars, seenVars, TypeOK
  <2>3. CASE UNCHANGED <<poolVars, held, pc, path>>
    BY <1>0, <1>5, <2>3 DEF getConnection, Calling, zkVars, poolVars, lockVars, seenVars, TypeOK
  <2> QED BY <1>0, <1>5, <2>1, <2>2, <2>3 DEF getConnection
<1>6. ASSUME NEW c \in Callers, getConnections(c) PROVE TypeOK'
  <2>1. Routes \subseteq Nodes
    BY DEF Routes, MainNodes, BackupNodes
  <2>2. TypePool' /\ TypeRest'
    BY <1>0, <1>6 DEF getConnections, Calling, zkVars, poolVars, seenVars, TypePool, TypeRest
  <2>3. TypeThread' /\ TypeCall'
    BY <1>0, <1>6, <2>1 DEF getConnections, Calling, Goto, TypeThread, TypeCall
  <2> QED BY <2>2, <2>3 DEF TypeOK, TypePool, TypeThread, TypeCall, TypeRest
<1>7. CASE Close
  BY <1>7, <1>0 DEF Close, Goto, zkVars, poolVars, seenVars, callVars, TypeOK
<1>8. ASSUME NEW t \in Threads, removeSf1Node(t) PROVE TypeOK'
  <2>1. TypePool' /\ TypeRest'
    BY <1>0, <1>8 DEF removeSf1Node, zkVars, poolVars, lockVars, seenVars, TypePool, TypeRest
  <2>2. path[t] \in Nodes
    BY <1>0, <1>8 DEF removeSf1Node, Control, PathKnown
  <2>3. TypeThread' /\ TypeCall'
    BY <1>0, <1>8, <2>2 DEF removeSf1Node, Goto, callVars, TypeThread, TypeCall
  <2> QED BY <2>1, <2>3 DEF TypeOK, TypePool, TypeThread, TypeCall, TypeRest
<1>9. ASSUME NEW t \in Threads, Relock(t) PROVE TypeOK'
  BY <1>9, <1>0 DEF Relock, WriteLock, UpgradeLock, zkVars, poolVars, seenVars, callVars, TypeOK
<1>10. ASSUME NEW t \in Threads, Forget(t) PROVE TypeOK'
  <2>1. TypePool' /\ TypeCall'
    BY <1>0, <1>10 DEF Forget, poolVars, callVars, TypePool, TypeCall
  <2>2. TypeThread'
    BY <1>0, <1>10 DEF Forget, Goto, TypeThread
  <2>3. topology' \in [Nodes -> Known] /\ deferred' \in [Nodes -> Nat]
    <3>1. CASE pc[t] = "clearing"
      BY <1>0, <1>10, <3>1 DEF Forget, TypeRest
    <3>2. CASE pc[t] = "closing"
      BY <1>0, <1>10, <3>2 DEF Forget, TypeRest
    <3>3. CASE pc[t] \notin {"clearing", "closing"}
      <4>1. /\ topology' = [topology EXCEPT ![path[t]] = Absent]
            /\ deferred' = [deferred EXCEPT ![path[t]] = 0]
        BY <1>10, <3>3 DEF Forget
      <4> QED BY <1>0, <4>1 DEF TypeRest
    <3> QED BY <3>1, <3>2, <3>3
  <2>4. TypeRest'
    BY <1>0, <1>10, <2>3 DEF Forget, zkVars, seenVars, TypeRest
  <2> QED BY <2>1, <2>2, <2>4 DEF TypeOK, TypePool, TypeThread, TypeCall, TypeRest
<1>11. ASSUME NEW t \in Threads, NEW n \in Nodes, RemovePool(t, n) PROVE TypeOK'
  <2>1. TypePool'
    <3>1. CASE UNCHANGED <<pools, poolVars>>
      BY <1>0, <3>1 DEF poolVars, TypePool
    <3>2. CASE DeletePool(n)
      BY <1>0, <3>2, DeleteType
    <3> QED BY <1>0, <1>11, <3>1, <3>2 DEF RemovePool
  <2>2. TypeThread' /\ TypeCall'
    BY <1>0, <1>11 DEF RemovePool, Abort, callVars, TypeThread, TypeCall
  <2>3. TypeRest'
    BY <1>0, <1>11 DEF RemovePool, zkVars, lockVars, seenVars, TypeRest
  <2> QED BY <2>1, <2>2, <2>3 DEF TypeOK, TypePool, TypeThread, TypeCall, TypeRest
<1>12. ASSUME NEW t \in Threads, loadTopology(t) PROVE TypeOK'
  BY <1>12, <1>0 DEF loadTopology, Goto, Loaded, Registered, zkVars, poolVars, lockVars, seenVars, callVars, TypeOK
<1>13. ASSUME NEW t \in {"watcher", "timer"}, NEW n \in Nodes, addSf1Node(t, n) PROVE TypeOK'
  <2>1. TypePool'
    BY <1>0, <1>13 DEF addSf1Node, poolVars, TypePool
  <2>2. TypeThread' /\ TypeCall'
    BY <1>0, <1>13 DEF addSf1Node, Goto, Loaded, callVars, TypeThread, TypeCall
  <2>3. TypeRest'
    BY <1>0, <1>13 DEF addSf1Node, zkVars, lockVars, seenVars, TypeRest
  <2> QED BY <2>1, <2>2, <2>3 DEF TypeOK, TypePool, TypeThread, TypeCall, TypeRest
<1>14. ASSUME NEW c \in Callers, isZNodeExists(c) PROVE TypeOK'
  BY <1>14, <1>0 DEF isZNodeExists, Goto, zkVars, poolVars, lockVars, seenVars, callVars, TypeOK
<1>15. ASSUME NEW c \in Callers, addConnection(c) PROVE TypeOK'
  <2> PICK n \in todo[c] :
        \/ /\ \E k \in Conns : /\ n \in pools /\ acquire(n, k)
                              /\ held' = [held EXCEPT ![c] = @ \cup {k}]
           /\ todo' = [todo EXCEPT ![c] = @ \ {n}]
           /\ IF todo[c] = {n} THEN Goto(c, "sendRequest") /\ readers' = readers \ {c}
              ELSE UNCHANGED <<pc, readers>>
        \/ /\ Goto(c, IF n \in pools THEN "idle" ELSE "undefined")
           /\ held' = [held EXCEPT ![c] = {}]
           /\ todo' = [todo EXCEPT ![c] = {}]
           /\ readers' = readers \ {c}
           /\ UNCHANGED poolVars
    BY <1>0, <1>15 DEF addConnection
  <2>0. UNCHANGED <<zkVars, topology, deferred, pools, writer, upgrader, asleep, path, seenVars, cur, calls>>
    BY <1>0, <1>15 DEF addConnection
  <2>1. TypePool'
    <3>1. CASE UNCHANGED poolVars
      BY <1>0, <2>0, <3>1 DEF poolVars, TypePool
    <3>2. CASE \E k \in Conns : n \in pools /\ acquire(n, k)
      <4>1. n \in Nodes
        BY <1>0, <3>2 DEF TypePool
      <4> QED BY <1>0, <2>0, <3>2, <4>1, AcquireType
    <3> QED BY <3>1, <3>2
  <2>2. TypeThread' /\ TypeCall'
    BY <1>0, <2>0 DEF Goto, TypeThread, TypeCall
  <2>3. TypeRest'
    BY <1>0, <2>0 DEF zkVars, seenVars, TypeRest
  <2> QED BY <2>1, <2>2, <2>3 DEF TypeOK, TypePool, TypeThread, TypeCall, TypeRest
<1>16. ASSUME NEW c \in Callers, sendRequest(c) PROVE TypeOK'
  <2>1. TypePool'
    BY <1>0, <1>16 DEF sendRequest, TypePool
  <2>2. TypeThread' /\ TypeCall'
    BY <1>0, <1>16 DEF sendRequest, Abort, Goto, TypeThread, TypeCall
  <2>3. TypeRest'
    BY <1>0, <1>16 DEF sendRequest, zkVars, lockVars, seenVars, TypeRest
  <2> QED BY <2>1, <2>2, <2>3 DEF TypeOK, TypePool, TypeThread, TypeCall, TypeRest
<1>17. ASSUME NEW c \in Callers, getResponse(c) PROVE TypeOK'
  BY <1>17, <1>0 DEF getResponse, Abort, Goto, zkVars, lockVars, seenVars, callVars, TypeOK
<1>18. ASSUME NEW c \in Callers, releaseConnection(c) PROVE TypeOK'
  <2>1. TypePool'
    <3>1. CASE cur[c] \in reserved
      BY <1>0, <1>18, <3>1, ReleaseType DEF releaseConnection
    <3>2. CASE cur[c] \notin reserved
      BY <1>0, <1>18, <3>2 DEF releaseConnection, poolVars, TypePool
    <3> QED BY <3>1, <3>2
  <2>2. TypeThread' /\ TypeCall'
    BY <1>0, <1>18 DEF releaseConnection, Goto, TypeThread, TypeCall
  <2>3. TypeRest'
    BY <1>0, <1>18 DEF releaseConnection, zkVars, seenVars, TypeRest
  <2> QED BY <2>1, <2>2, <2>3 DEF TypeOK, TypePool, TypeThread, TypeCall, TypeRest
<1>19. CASE TakeEvent
  <2>1. TypePool' /\ TypeCall'
    BY <1>0, <1>19 DEF TakeEvent, poolVars, callVars, TypePool, TypeCall
  <2>2. /\ events' \in Seq(({"deleted", "changed"} \X Nodes) \cup ({"children", "session"} \X {NoNode}))
        /\ Head(events) \in ({"deleted", "changed"} \X Nodes) \cup ({"children", "session"} \X {NoNode})
    BY <1>0, <1>19 DEF TakeEvent, TypeRest
  <2>3. Head(events)[2] \in Nodes \cup {NoNode}
    BY <2>2
  <2>4. TypeThread'
    <3>1. pc' \in [Threads -> Labels]
      BY <1>0, <1>19 DEF TakeEvent, Goto, TypeThread, Labels, Removers
    <3>2. path' \in [Threads -> Nodes \cup {NoNode}]
      BY <1>0, <1>19, <2>3 DEF TakeEvent, TypeThread
    <3>3. todo' \in [Threads -> SUBSET Nodes]
      BY <1>0, <1>19 DEF TakeEvent, TypeThread, Registered
    <3> QED BY <3>1, <3>2, <3>3 DEF TypeThread
  <2>5. seen' \in Versions \cup {Absent} /\ force' \in BOOLEAN
    BY <1>0, <1>19, <2>2 DEF TakeEvent, TypeRest
  <2>6. TypeRest'
    BY <1>0, <1>19, <2>2, <2>5 DEF TakeEvent, lockVars, TypeRest
  <2> QED BY <2>1, <2>4, <2>6 DEF TypeOK, TypePool, TypeThread, TypeCall, TypeRest
<1>20. CASE updateNodeData
  <2>1. TypePool'
    BY <1>0, <1>20 DEF updateNodeData, poolVars, TypePool
  <2>2. path["watcher"] \in Nodes
    BY <1>0, <1>20 DEF updateNodeData, Control, PathKnown
  <2>3. TypeThread' /\ TypeCall'
    BY <1>0, <1>20, <2>2 DEF updateNodeData, Goto, callVars, TypeThread, TypeCall
  <2>4. topology' \in [Nodes -> Known]
    <3>1. topology' = topology \/ (topology' = [topology EXCEPT ![path["watcher"]] = seen] /\ seen # Absent)
      BY <1>20 DEF updateNodeData
    <3>2. topology \in [Nodes -> Known] /\ seen \in Known
      BY <1>0 DEF TypeRest, Known
    <3> QED BY <2>2, <3>1, <3>2
  <2>5. deferred' \in [Nodes -> Nat]
    BY <1>0, <1>20, <2>2 DEF updateNodeData, TypeRest
  <2>6. TypeRest'
    BY <1>0, <1>20, <2>4, <2>5 DEF updateNodeData, zkVars, seenVars, TypeRest
  <2> QED BY <2>1, <2>3, <2>6 DEF TypeOK, TypePool, TypeThread, TypeCall, TypeRest
<1>21. CASE clearSf1Nodes
  BY <1>21, <1>0 DEF clearSf1Nodes, Goto, WriteLock, UpgradeLock, zkVars, poolVars, seenVars, callVars, TypeOK
<1>22. CASE TimerScan
  BY <1>22, <1>0 DEF TimerScan, Goto, zkVars, poolVars, lockVars, seenVars, callVars, TypeOK
<1>23. CASE TimerUpdate
  BY <1>23, <1>0 DEF TimerUpdate, Goto, zkVars, poolVars, lockVars, seenVars, callVars, TypeOK
<1>24. CASE removeJob
  BY <1>24, <1>0 DEF removeJob, Goto, zkVars, poolVars, lockVars, seenVars, callVars, TypeOK
<1>25. CASE UNCHANGED vars
  BY <1>25, <1>0 DEF vars, zkVars, poolVars, lockVars, seenVars, callVars, TypeOK
<1>26. ASSUME NEW t \in {"watcher", "timer"}, addNode(t) PROVE TypeOK'
  <2>1. path[t] \in Nodes /\ t \in Threads
    BY <1>0, <1>26 DEF addNode, Control, PathKnown
  <2>2. TypePool'
    BY <1>0, <1>26, <2>1 DEF addNode, TypePool
  <2>3. TypeThread' /\ TypeCall'
    BY <1>0, <1>26, <2>1 DEF addNode, Goto, Loaded, callVars, TypeThread, TypeCall
  <2>4. topology' \in [Nodes -> Known]
    BY <1>0, <1>26, <2>1 DEF addNode, TypeRest, Known
  <2>5. TypeRest'
    BY <1>0, <1>26, <2>4 DEF addNode, zkVars, TypeRest
  <2> QED BY <2>2, <2>3, <2>5 DEF TypeOK, TypePool, TypeThread, TypeCall, TypeRest
<1> QED
  BY <1>1, <1>2, <1>3, <1>4, <1>5, <1>6, <1>7, <1>8, <1>9, <1>10, <1>11, <1>12,
     <1>13, <1>14, <1>15, <1>16, <1>17, <1>18, <1>19, <1>20, <1>21, <1>22, <1>23,
     <1>24, <1>25, <1>26, ConstantFacts
  DEF Next, Environment, CallerStep, WatcherStep, TimerStep, OwnerStep, RemoverStep, LoaderStep, Closed

(* Every step keeps the paths known.                                       *)
LEMMA PathStep ==
  TypeOK /\ TypeOK' /\ Control /\ [Next]_vars => PathKnown'
<1> SUFFICES ASSUME TypeOK, TypeOK', Control, [Next]_vars PROVE PathKnown'
  OBVIOUS
<1> USE ConstantFacts DEF Control, PathKnown, TypeOK, Removers
<1>1. ASSUME NEW n \in Nodes, ZkCreate(n) PROVE PathKnown'
  BY <1>1 DEF ZkCreate, Change, poolVars, lockVars, seenVars, callVars
<1>2. ASSUME NEW n \in Nodes, ZkDelete(n) PROVE PathKnown'
  BY <1>2 DEF ZkDelete, Change, poolVars, lockVars, seenVars, callVars
<1>3. ASSUME NEW n \in Nodes, ZkSet(n) PROVE PathKnown'
  BY <1>3 DEF ZkSet, Change, poolVars, lockVars, seenVars, callVars
<1>4. CASE ZkSession
  BY <1>4 DEF ZkSession, Change, poolVars, lockVars, seenVars, callVars
<1>5. ASSUME NEW c \in Callers, getConnection(c) PROVE PathKnown'
  BY <1>5 DEF getConnection, Calling, Goto, zkVars, poolVars, lockVars, seenVars
<1>6. ASSUME NEW c \in Callers, getConnections(c) PROVE PathKnown'
  BY <1>6 DEF getConnections, Calling, Goto, Routes, MainNodes, BackupNodes, zkVars, poolVars, seenVars
<1>7. CASE Close
  BY <1>7 DEF Close, Goto, WriteLock, UpgradeLock, zkVars, poolVars, seenVars, callVars
<1>8. ASSUME NEW t \in Threads, removeSf1Node(t) PROVE PathKnown'
  BY <1>8 DEF removeSf1Node, Goto, zkVars, poolVars, lockVars, seenVars, callVars
<1>9. ASSUME NEW t \in Threads, Relock(t) PROVE PathKnown'
  BY <1>9 DEF Relock, WriteLock, UpgradeLock, zkVars, poolVars, seenVars, callVars
<1>10. ASSUME NEW t \in Threads, Forget(t) PROVE PathKnown'
  BY <1>10 DEF Forget, Goto, zkVars, poolVars, seenVars, callVars
<1>11. ASSUME NEW t \in Threads, NEW n \in Nodes, RemovePool(t, n) PROVE PathKnown'
  BY <1>11 DEF RemovePool, DeletePool, Abort, zkVars, poolVars, lockVars, seenVars, callVars
<1>12. ASSUME NEW t \in Threads, loadTopology(t) PROVE PathKnown'
  BY <1>12 DEF loadTopology, Goto, Loaded, Registered, zkVars, poolVars, lockVars, seenVars, callVars
<1>13. ASSUME NEW t \in {"watcher", "timer"}, NEW n \in Nodes, addSf1Node(t, n) PROVE PathKnown'
  <2>1. CASE Present(n) \/ zk[n] = Absent
    BY <1>13, <2>1 DEF addSf1Node, Goto, Loaded
  <2>2. CASE ~(Present(n) \/ zk[n] = Absent)
    <3>1. /\ path'[t] = n
          /\ \A u \in Threads \ {t} : pc'[u] = pc[u] /\ path'[u] = path[u]
      BY <1>13, <2>2 DEF addSf1Node, Goto
    <3> QED BY <3>1
  <2> QED BY <2>1, <2>2
<1>14. ASSUME NEW c \in Callers, isZNodeExists(c) PROVE PathKnown'
  BY <1>14 DEF isZNodeExists, Goto, zkVars, poolVars, lockVars, seenVars, callVars
<1>15. ASSUME NEW c \in Callers, addConnection(c) PROVE PathKnown'
  BY <1>15 DEF addConnection, Goto, zkVars, poolVars, seenVars
<1>16. ASSUME NEW c \in Callers, sendRequest(c) PROVE PathKnown'
  BY <1>16 DEF sendRequest, Abort, Goto, zkVars, lockVars, seenVars
<1>17. ASSUME NEW c \in Callers, getResponse(c) PROVE PathKnown'
  BY <1>17 DEF getResponse, Abort, Goto, zkVars, lockVars, seenVars, callVars
<1>18. ASSUME NEW c \in Callers, releaseConnection(c) PROVE PathKnown'
  BY <1>18 DEF releaseConnection, Goto, release, WriteLock, UpgradeLock, zkVars, poolVars, seenVars
<1>19. CASE TakeEvent
  BY <1>19 DEF TakeEvent, Goto, Registered, poolVars, lockVars, callVars
<1>20. CASE updateNodeData
  BY <1>20 DEF updateNodeData, Goto, WriteLock, UpgradeLock, zkVars, poolVars, seenVars, callVars
<1>21. CASE clearSf1Nodes
  BY <1>21 DEF clearSf1Nodes, Goto, WriteLock, UpgradeLock, zkVars, poolVars, seenVars, callVars
<1>22. CASE TimerScan
  BY <1>22 DEF TimerScan, Goto, zkVars, poolVars, lockVars, seenVars, callVars
<1>23. CASE TimerUpdate
  BY <1>23 DEF TimerUpdate, Goto, zkVars, poolVars, lockVars, seenVars, callVars
<1>24. CASE removeJob
  BY <1>24 DEF removeJob, Goto, zkVars, poolVars, lockVars, seenVars, callVars
<1>25. CASE UNCHANGED vars
  BY <1>25 DEF vars, zkVars, poolVars, lockVars, seenVars, callVars
<1>26. ASSUME NEW t \in {"watcher", "timer"}, addNode(t) PROVE PathKnown'
  BY <1>26 DEF addNode, Upgrade, UpgraderAlone, Goto, Loaded, zkVars, callVars
<1> QED
  BY <1>1, <1>2, <1>3, <1>4, <1>5, <1>6, <1>7, <1>8, <1>9, <1>10, <1>11, <1>12,
     <1>13, <1>14, <1>15, <1>16, <1>17, <1>18, <1>19, <1>20, <1>21, <1>22, <1>23,
     <1>24, <1>25, <1>26, ConstantFacts
  DEF Next, Environment, CallerStep, WatcherStep, TimerStep, OwnerStep, RemoverStep, LoaderStep, Closed

(* Every step leaves updating and clearing to the watcher.                 *)
LEMMA WatcherStepsOnly ==
  TypeOK /\ TypeOK' /\ Control /\ [Next]_vars => WatcherUpdates'
<1> SUFFICES ASSUME TypeOK, TypeOK', Control, [Next]_vars PROVE WatcherUpdates'
  OBVIOUS
<1> USE ConstantFacts DEF Control, WatcherUpdates, TypeOK, Removers
<1>1. ASSUME NEW n \in Nodes, ZkCreate(n) PROVE WatcherUpdates'
  BY <1>1 DEF ZkCreate, Change, poolVars, lockVars, seenVars, callVars
<1>2. ASSUME NEW n \in Nodes, ZkDelete(n) PROVE WatcherUpdates'
  BY <1>2 DEF ZkDelete, Change, poolVars, lockVars, seenVars, callVars
<1>3. ASSUME NEW n \in Nodes, ZkSet(n) PROVE WatcherUpdates'
  BY <1>3 DEF ZkSet, Change, poolVars, lockVars, seenVars, callVars
<1>4. CASE ZkSession
  BY <1>4 DEF ZkSession, Change, poolVars, lockVars, seenVars, callVars
<1>5. ASSUME NEW c \in Callers, getConnection(c) PROVE WatcherUpdates'
  BY <1>5 DEF getConnection, Calling, Goto, zkVars, poolVars, lockVars, seenVars
<1>6. ASSUME NEW c \in Callers, getConnections(c) PROVE WatcherUpdates'
  BY <1>6 DEF getConnections, Calling, Goto, Routes, MainNodes, BackupNodes, zkVars, poolVars, seenVars
<1>7. CASE Close
  BY <1>7 DEF Close, Goto, WriteLock, UpgradeLock, zkVars, poolVars, seenVars, callVars
<1>8. ASSUME NEW t \in Threads, removeSf1Node(t) PROVE WatcherUpdates'
  BY <1>8 DEF removeSf1Node, Goto, zkVars, poolVars, lockVars, seenVars, callVars
<1>9. ASSUME NEW t \in Threads, Relock(t) PROVE WatcherUpdates'
  BY <1>9 DEF Relock, WriteLock, UpgradeLock, zkVars, poolVars, seenVars, callVars
<1>10. ASSUME NEW t \in Threads, Forget(t) PROVE WatcherUpdates'
  BY <1>10 DEF Forget, Goto, zkVars, poolVars, seenVars, callVars
<1>11. ASSUME NEW t \in Threads, NEW n \in Nodes, RemovePool(t, n) PROVE WatcherUpdates'
  BY <1>11 DEF RemovePool, DeletePool, Abort, zkVars, poolVars, lockVars, seenVars, callVars
<1>12. ASSUME NEW t \in Threads, loadTopology(t) PROVE WatcherUpdates'
  BY <1>12 DEF loadTopology, Goto, Loaded, Registered, zkVars, poolVars, lockVars, seenVars, callVars
<1>13. ASSUME NEW t \in {"watcher", "timer"}, NEW n \in Nodes, addSf1Node(t, n) PROVE WatcherUpdates'
  BY <1>13 DEF addSf1Node, Goto, Loaded, UpgradeLock, zkVars, poolVars, callVars
<1>14. ASSUME NEW c \in Callers, isZNodeExists(c) PROVE WatcherUpdates'
  BY <1>14 DEF isZNodeExists, Goto, zkVars, poolVars, lockVars, seenVars, callVars
<1>15. ASSUME NEW c \in Callers, addConnection(c) PROVE WatcherUpdates'
  BY <1>15 DEF addConnection, Goto, zkVars, poolVars, seenVars
<1>16. ASSUME NEW c \in Callers, sendRequest(c) PROVE WatcherUpdates'
  BY <1>16 DEF sendRequest, Abort, Goto, zkVars, lockVars, seenVars
<1>17. ASSUME NEW c \in Callers, getResponse(c) PROVE WatcherUpdates'
  BY <1>17 DEF getResponse, Abort, Goto, zkVars, lockVars, seenVars, callVars
<1>18. ASSUME NEW c \in Callers, releaseConnection(c) PROVE WatcherUpdates'
  BY <1>18 DEF releaseConnection, Goto, release, WriteLock, UpgradeLock, zkVars, poolVars, seenVars
<1>19. CASE TakeEvent
  BY <1>19 DEF TakeEvent, Goto, Registered, poolVars, lockVars, callVars
<1>20. CASE updateNodeData
  BY <1>20 DEF updateNodeData, Goto, WriteLock, UpgradeLock, zkVars, poolVars, seenVars, callVars
<1>21. CASE clearSf1Nodes
  BY <1>21 DEF clearSf1Nodes, Goto, WriteLock, UpgradeLock, zkVars, poolVars, seenVars, callVars
<1>22. CASE TimerScan
  BY <1>22 DEF TimerScan, Goto, zkVars, poolVars, lockVars, seenVars, callVars
<1>23. CASE TimerUpdate
  BY <1>23 DEF TimerUpdate, Goto, zkVars, poolVars, lockVars, seenVars, callVars
<1>24. CASE removeJob
  BY <1>24 DEF removeJob, Goto, zkVars, poolVars, lockVars, seenVars, callVars
<1>25. CASE UNCHANGED vars
  BY <1>25 DEF vars, zkVars, poolVars, lockVars, seenVars, callVars
<1>26. ASSUME NEW t \in {"watcher", "timer"}, addNode(t) PROVE WatcherUpdates'
  BY <1>26 DEF addNode, Upgrade, UpgraderAlone, Goto, Loaded, zkVars, callVars
<1> QED
  BY <1>1, <1>2, <1>3, <1>4, <1>5, <1>6, <1>7, <1>8, <1>9, <1>10, <1>11, <1>12,
     <1>13, <1>14, <1>15, <1>16, <1>17, <1>18, <1>19, <1>20, <1>21, <1>22, <1>23,
     <1>24, <1>25, <1>26, ConstantFacts
  DEF Next, Environment, CallerStep, WatcherStep, TimerStep, OwnerStep, RemoverStep, LoaderStep, Closed

(* Every step keeps the pool to delete pending until it is deleted.        *)
LEMMA PendingStep ==
  TypeOK /\ TypeOK' /\ Control /\ [Next]_vars => PoolPending'
<1> SUFFICES ASSUME TypeOK, TypeOK', Control, [Next]_vars PROVE PoolPending'
  OBVIOUS
<1> USE ConstantFacts DEF Control, PoolPending, PathKnown, TypeOK, Removers
<1>1. ASSUME NEW n \in Nodes, ZkCreate(n) PROVE PoolPending'
  BY <1>1 DEF ZkCreate, Change, poolVars, lockVars, seenVars, callVars
<1>2. ASSUME NEW n \in Nodes, ZkDelete(n) PROVE PoolPending'
  BY <1>2 DEF ZkDelete, Change, poolVars, lockVars, seenVars, callVars
<1>3. ASSUME NEW n \in Nodes, ZkSet(n) PROVE PoolPending'
  BY <1>3 DEF ZkSet, Change, poolVars, lockVars, seenVars, callVars
<1>4. CASE ZkSession
  BY <1>4 DEF ZkSession, Change, poolVars, lockVars, seenVars, callVars
<1>5. ASSUME NEW c \in Callers, getConnection(c) PROVE PoolPending'
  BY <1>5 DEF getConnection, Calling, Goto, zkVars, poolVars, lockVars, seenVars
<1>6. ASSUME NEW c \in Callers, getConnections(c) PROVE PoolPending'
  <2>1. UNCHANGED <<path, pools, writer>> /\ c \in Threads
    BY <1>6 DEF getConnections
  <2>2. \A u \in Threads \ {c} : pc'[u] = pc[u] /\ todo'[u] = todo[u]
    BY <1>6 DEF getConnections, Goto
  <2>3. pc'[c] \in {"idle", "addConnection"}
    BY <1>6 DEF getConnections, Calling, Goto
  <2> QED BY <2>1, <2>2, <2>3
<1>7. CASE Close
  BY <1>7 DEF Close, Goto, WriteLock, UpgradeLock, zkVars, poolVars, seenVars, callVars
<1>8. ASSUME NEW t \in Threads, removeSf1Node(t) PROVE PoolPending'
  <2> SUFFICES ASSUME NEW u \in Threads, pc'[u] \in {"removing", "emptied"}
               PROVE  /\ todo'[u] \subseteq {path'[u]}
                      /\ path'[u] \in todo'[u] \/ (writer' = u /\ path'[u] \notin pools')
    OBVIOUS
  <2>1. CASE u # t
    BY <1>8, <2>1 DEF removeSf1Node, Goto, zkVars, poolVars, lockVars, seenVars, callVars
  <2>2. CASE u = t
    BY <1>8, <2>2 DEF removeSf1Node, Goto, zkVars, poolVars, lockVars, seenVars, callVars
  <2> QED BY <2>1, <2>2
<1>9. ASSUME NEW t \in Threads, Relock(t) PROVE PoolPending'
  BY <1>9 DEF Relock, WriteLock, UpgradeLock, zkVars, poolVars, seenVars, callVars
<1>10. ASSUME NEW t \in Threads, Forget(t) PROVE PoolPending'
  BY <1>10 DEF Forget, Goto, zkVars, poolVars, seenVars, callVars
<1>11. ASSUME NEW t \in Threads, NEW n \in Nodes, RemovePool(t, n) PROVE PoolPending'
  <2> SUFFICES ASSUME NEW u \in Threads, pc'[u] \in {"removing", "emptied"}
               PROVE  /\ todo'[u] \subseteq {path'[u]}
                      /\ path'[u] \in todo'[u] \/ (writer' = u /\ path'[u] \notin pools')
    OBVIOUS
  <2>1. CASE u # t
    BY <1>11, <2>1 DEF RemovePool, DeletePool, Abort, zkVars, poolVars, lockVars, seenVars, callVars
  <2>2. CASE u = t
    BY <1>11, <2>2 DEF RemovePool, DeletePool, Abort, zkVars, poolVars, lockVars, seenVars, callVars
  <2> QED BY <2>1, <2>2
<1>12. ASSUME NEW t \in Threads, loadTopology(t) PROVE PoolPending'
  BY <1>12 DEF loadTopology, Goto, Loaded, Registered, zkVars, poolVars, lockVars, seenVars, callVars
<1>13. ASSUME NEW t \in {"watcher", "timer"}, NEW n \in Nodes, addSf1Node(t, n) PROVE PoolPending'
  BY <1>13 DEF addSf1Node, Goto, Loaded, UpgradeLock, zkVars, poolVars, callVars
<1>14. ASSUME NEW c \in Callers, isZNodeExists(c) PROVE PoolPending'
  <2> SUFFICES ASSUME NEW u \in Threads, pc'[u] \in {"removing", "emptied"}
               PROVE  /\ todo'[u] \subseteq {path'[u]}
                      /\ path'[u] \in todo'[u] \/ (writer' = u /\ path'[u] \notin pools')
    OBVIOUS
  <2>1. CASE u # c
    BY <1>14, <2>1 DEF isZNodeExists, Goto, zkVars, poolVars, lockVars, seenVars, callVars
  <2>2. CASE u = c
    BY <1>14, <2>2 DEF isZNodeExists, Goto, zkVars, poolVars, lockVars, seenVars, callVars
  <2> QED BY <2>1, <2>2
<1>15. ASSUME NEW c \in Callers, addConnection(c) PROVE PoolPending'
  <2> SUFFICES ASSUME NEW u \in Threads, pc'[u] \in {"removing", "emptied"}
               PROVE  /\ todo'[u] \subseteq {path'[u]}
                      /\ path'[u] \in todo'[u] \/ (writer' = u /\ path'[u] \notin pools')
    OBVIOUS
  <2>1. CASE u # c
    BY <1>15, <2>1 DEF addConnection, Goto, zkVars, poolVars, seenVars
  <2>2. CASE u = c
    BY <1>15, <2>2 DEF addConnection, Goto, zkVars, poolVars, seenVars
  <2> QED BY <2>1, <2>2
<1>16. ASSUME NEW c \in Callers, sendRequest(c) PROVE PoolPending'
  BY <1>16 DEF sendRequest, Abort, Goto, zkVars, lockVars, seenVars
<1>17. ASSUME NEW c \in Callers, getResponse(c) PROVE PoolPending'
  BY <1>17 DEF getResponse, Abort, Goto, zkVars, lockVars, seenVars, callVars
<1>18. ASSUME NEW c \in Callers, releaseConnection(c) PROVE PoolPending'
  BY <1>18 DEF releaseConnection, Goto, release, WriteLock, UpgradeLock, zkVars, poolVars, seenVars
<1>19. CASE TakeEvent
  BY <1>19 DEF TakeEvent, Goto, Registered, poolVars, lockVars, callVars
<1>20. CASE updateNodeData
  <2> SUFFICES ASSUME NEW u \in Threads, pc'[u] \in {"removing", "emptied"}
               PROVE  /\ todo'[u] \subseteq {path'[u]}
                      /\ path'[u] \in todo'[u] \/ (writer' = u /\ path'[u] \notin pools')
    OBVIOUS
  <2>1. CASE u # "watcher"
    <3>1. writer # u /\ UNCHANGED pools
      BY <1>20 DEF updateNodeData, WriteLock, UpgradeLock
    <3>2. pc'[u] = pc[u] /\ path'[u] = path[u] /\ todo'[u] = todo[u]
      BY <1>20, <2>1 DEF updateNodeData, Goto
    <3> QED BY <3>1, <3>2
  <2>2. CASE u = "watcher"
    BY <1>20, <2>2 DEF updateNodeData, Goto, WriteLock, UpgradeLock, zkVars, poolVars, seenVars, callVars
  <2> QED BY <2>1, <2>2
<1>21. CASE clearSf1Nodes
  BY <1>21 DEF clearSf1Nodes, Goto, WriteLock, UpgradeLock, zkVars, poolVars, seenVars, callVars
<1>22. CASE TimerScan
  BY <1>22 DEF TimerScan, Goto, zkVars, poolVars, lockVars, seenVars, callVars
<1>23. CASE TimerUpdate
  BY <1>23 DEF TimerUpdate, Goto, zkVars, poolVars, lockVars, seenVars, callVars
<1>24. CASE removeJob
  BY <1>24 DEF removeJob, Goto, zkVars, poolVars, lockVars, seenVars, callVars
<1>25. CASE UNCHANGED vars
  BY <1>25 DEF vars, zkVars, poolVars, lockVars, seenVars, callVars
<1>26. ASSUME NEW t \in {"watcher", "timer"}, addNode(t) PROVE PoolPending'
  BY <1>26 DEF addNode, Upgrade, UpgraderAlone, Goto, Loaded, zkVars, callVars
<1> QED
  BY <1>1, <1>2, <1>3, <1>4, <1>5, <1>6, <1>7, <1>8, <1>9, <1>10, <1>11, <1>12,
     <1>13, <1>14, <1>15, <1>16, <1>17, <1>18, <1>19, <1>20, <1>21, <1>22, <1>23,
     <1>24, <1>25, <1>26, ConstantFacts
  DEF Next, Environment, CallerStep, WatcherStep, TimerStep, OwnerStep, RemoverStep, LoaderStep, Closed

(* Every step keeps the current connections where they belong.             *)
LEMMA CurrentStep ==
  TypeOK /\ TypeOK' /\ Control /\ [Next]_vars => CurrentInUse'
<1> SUFFICES ASSUME TypeOK, TypeOK', Control, [Next]_vars PROVE CurrentInUse'
  OBVIOUS
<1> USE ConstantFacts DEF Control, CurrentInUse, TypeOK, Removers
<1>1. ASSUME NEW n \in Nodes, ZkCreate(n) PROVE CurrentInUse'
  BY <1>1 DEF ZkCreate, Change, poolVars, lockVars, seenVars, callVars
<1>2. ASSUME NEW n \in Nodes, ZkDelete(n) PROVE CurrentInUse'
  BY <1>2 DEF ZkDelete, Change, poolVars, lockVars, seenVars, callVars
<1>3. ASSUME NEW n \in Nodes, ZkSet(n) PROVE CurrentInUse'
  BY <1>3 DEF ZkSet, Change, poolVars, lockVars, seenVars, callVars
<1>4. CASE ZkSession
  BY <1>4 DEF ZkSession, Change, poolVars, lockVars, seenVars, callVars
<1>5. ASSUME NEW c \in Callers, getConnection(c) PROVE CurrentInUse'
  BY <1>5 DEF getConnection, Calling, Goto, zkVars, poolVars, lockVars, seenVars
<1>6. ASSUME NEW c \in Callers, getConnections(c) PROVE CurrentInUse'
  BY <1>6 DEF getConnections, Calling, Goto, Routes, MainNodes, BackupNodes, zkVars, poolVars, seenVars
<1>7. CASE Close
  BY <1>7 DEF Close, Goto, WriteLock, UpgradeLock, zkVars, poolVars, seenVars, callVars
<1>8. ASSUME NEW t \in Threads, removeSf1Node(t) PROVE CurrentInUse'
  BY <1>8 DEF removeSf1Node, Goto, zkVars, poolVars, lockVars, seenVars, callVars
<1>9. ASSUME NEW t \in Threads, Relock(t) PROVE CurrentInUse'
  BY <1>9 DEF Relock, WriteLock, UpgradeLock, zkVars, poolVars, seenVars, callVars
<1>10. ASSUME NEW t \in Threads, Forget(t) PROVE CurrentInUse'
  <2>1. \A c \in Callers : pc'[c] \in {"getResponse", "succeeded", "failed"}
                           <=> pc[c] \in {"getResponse", "succeeded", "failed"}
    <3>1. pc[t] \in Removers /\ pc'[t] \in {"loadTopology", "removeJob", "idle"}
      BY <1>10 DEF Forget, Goto
    <3> QED BY <1>10, <3>1 DEF Forget, Goto
  <2>2. \A c \in Callers : cur'[c] = cur[c] /\ (pc[c] = "aborted" => pc'[c] = "aborted")
    BY <1>10 DEF Forget, Goto, callVars
  <2> QED BY <2>1, <2>2
<1>11. ASSUME NEW t \in Threads, NEW n \in Nodes, RemovePool(t, n) PROVE CurrentInUse'
  BY <1>11 DEF RemovePool, DeletePool, Abort, zkVars, poolVars, lockVars, seenVars, callVars
<1>12. ASSUME NEW t \in Threads, loadTopology(t) PROVE CurrentInUse'
  BY <1>12 DEF loadTopology, Goto, Loaded, Registered, zkVars, poolVars, lockVars, seenVars, callVars
<1>13. ASSUME NEW t \in {"watcher", "timer"}, NEW n \in Nodes, addSf1Node(t, n) PROVE CurrentInUse'
  BY <1>13 DEF addSf1Node, Goto, Loaded, UpgradeLock, zkVars, poolVars, callVars
<1>14. ASSUME NEW c \in Callers, isZNodeExists(c) PROVE CurrentInUse'
  BY <1>14 DEF isZNodeExists, Goto, zkVars, poolVars, lockVars, seenVars, callVars
<1>15. ASSUME NEW c \in Callers, addConnection(c) PROVE CurrentInUse'
  <2>1. PICK l \in {"addConnection", "sendRequest", "idle", "undefined"} : pc' = [pc EXCEPT ![c] = l]
    <3>1. CASE UNCHANGED pc
      BY <1>15, <3>1 DEF addConnection
    <3> QED BY <1>15, <3>1 DEF addConnection, Goto
  <2> QED BY <1>15, <2>1 DEF addConnection
<1>16. ASSUME NEW c \in Callers, sendRequest(c) PROVE CurrentInUse'
  <2>1. CASE Abort
    BY <2>1 DEF Abort
  <2>2. CASE \E k \in held[c], l \in {"getResponse", "failed"} :
               cur' = [cur EXCEPT ![c] = k] /\ pc' = [pc EXCEPT ![c] = l]
    BY <2>2
  <2> QED BY <1>16, <2>1, <2>2 DEF sendRequest, Goto
<1>17. ASSUME NEW c \in Callers, getResponse(c) PROVE CurrentInUse'
  BY <1>17 DEF getResponse, Abort, Goto, zkVars, lockVars, seenVars, callVars
<1>18. ASSUME NEW c \in Callers, releaseConnection(c) PROVE CurrentInUse'
  BY <1>18 DEF releaseConnection, Goto, release, WriteLock, UpgradeLock, zkVars, poolVars, seenVars
<1>19. CASE TakeEvent
  BY <1>19 DEF TakeEvent, Goto, Registered, poolVars, lockVars, callVars
<1>20. CASE updateNodeData
  BY <1>20 DEF updateNodeData, Goto, WriteLock, UpgradeLock, zkVars, poolVars, seenVars, callVars
<1>21. CASE clearSf1Nodes
  BY <1>21 DEF clearSf1Nodes, Goto, WriteLock, UpgradeLock, zkVars, poolVars, seenVars, callVars
<1>22. CASE TimerScan
  BY <1>22 DEF TimerScan, Goto, zkVars, poolVars, lockVars, seenVars, callVars
<1>23. CASE TimerUpdate
  BY <1>23 DEF TimerUpdate, Goto, zkVars, poolVars, lockVars, seenVars, callVars
<1>24. CASE removeJob
  BY <1>24 DEF removeJob, Goto, zkVars, poolVars, lockVars, seenVars, callVars
<1>25. CASE UNCHANGED vars
  BY <1>25 DEF vars, zkVars, poolVars, lockVars, seenVars, callVars
<1>26. ASSUME NEW t \in {"watcher", "timer"}, addNode(t) PROVE CurrentInUse'
  BY <1>26 DEF addNode, Upgrade, UpgraderAlone, Goto, Loaded, zkVars, callVars
<1> QED
  BY <1>1, <1>2, <1>3, <1>4, <1>5, <1>6, <1>7, <1>8, <1>9, <1>10, <1>11, <1>12,
     <1>13, <1>14, <1>15, <1>16, <1>17, <1>18, <1>19, <1>20, <1>21, <1>22, <1>23,
     <1>24, <1>25, <1>26, ConstantFacts
  DEF Next, Environment, CallerStep, WatcherStep, TimerStep, OwnerStep, RemoverStep, LoaderStep, Closed

(* Every step keeps the write lock with a thread that deletes pools.       *)
LEMMA WriterStep ==
  TypeOK /\ TypeOK' /\ Control /\ [Next]_vars => WriterRemoves'
<1> SUFFICES ASSUME TypeOK, TypeOK', Control, [Next]_vars PROVE WriterRemoves'
  OBVIOUS
<1> USE ConstantFacts DEF Control, WriterRemoves, TypeOK, Removers
<1>1. ASSUME NEW n \in Nodes, ZkCreate(n) PROVE WriterRemoves'
  BY <1>1 DEF ZkCreate, Change, poolVars, lockVars, seenVars, callVars
<1>2. ASSUME NEW n \in Nodes, ZkDelete(n) PROVE WriterRemoves'
  BY <1>2 DEF ZkDelete, Change, poolVars, lockVars, seenVars, callVars
<1>3. ASSUME NEW n \in Nodes, ZkSet(n) PROVE WriterRemoves'
  BY <1>3 DEF ZkSet, Change, poolVars, lockVars, seenVars, callVars
<1>4. CASE ZkSession
  BY <1>4 DEF ZkSession, Change, poolVars, lockVars, seenVars, callVars
<1>5. ASSUME NEW c \in Callers, getConnection(c) PROVE WriterRemoves'
  BY <1>5 DEF getConnection, Calling, Goto, zkVars, poolVars, lockVars, seenVars
<1>6. ASSUME NEW c \in Callers, getConnections(c) PROVE WriterRemoves'
  BY <1>6 DEF getConnections, Calling, Goto, Routes, MainNodes, BackupNodes, zkVars, poolVars, seenVars
<1>7. CASE Close
  BY <1>7 DEF Close, Goto, WriteLock, UpgradeLock, zkVars, poolVars, seenVars, callVars
<1>8. ASSUME NEW t \in Threads, removeSf1Node(t) PROVE WriterRemoves'
  BY <1>8 DEF removeSf1Node, Goto, zkVars, poolVars, lockVars, seenVars, callVars
<1>9. ASSUME NEW t \in Threads, Relock(t) PROVE WriterRemoves'
  BY <1>9 DEF Relock, WriteLock, UpgradeLock, zkVars, poolVars, seenVars, callVars
<1>10. ASSUME NEW t \in Threads, Forget(t) PROVE WriterRemoves'
  BY <1>10 DEF Forget, Goto, zkVars, poolVars, seenVars, callVars
<1>11. ASSUME NEW t \in Threads, NEW n \in Nodes, RemovePool(t, n) PROVE WriterRemoves'
  BY <1>11 DEF RemovePool, DeletePool, Abort, zkVars, poolVars, lockVars, seenVars, callVars
<1>12. ASSUME NEW t \in Threads, loadTopology(t) PROVE WriterRemoves'
  BY <1>12 DEF loadTopology, Goto, Loaded, Registered, zkVars, poolVars, lockVars, seenVars, callVars
<1>13. ASSUME NEW t \in {"watcher", "timer"}, NEW n \in Nodes, addSf1Node(t, n) PROVE WriterRemoves'
  BY <1>13 DEF addSf1Node, Goto, Loaded, UpgradeLock, zkVars, poolVars, callVars
<1>14. ASSUME NEW c \in Callers, isZNodeExists(c) PROVE WriterRemoves'
  BY <1>14 DEF isZNodeExists, Goto, zkVars, poolVars, lockVars, seenVars, callVars
<1>15. ASSUME NEW c \in Callers, addConnection(c) PROVE WriterRemoves'
  BY <1>15 DEF addConnection, Goto, zkVars, poolVars, seenVars
<1>16. ASSUME NEW c \in Callers, sendRequest(c) PROVE WriterRemoves'
  BY <1>16 DEF sendRequest, Abort, Goto, zkVars, lockVars, seenVars
<1>17. ASSUME NEW c \in Callers, getResponse(c) PROVE WriterRemoves'
  BY <1>17 DEF getResponse, Abort, Goto, zkVars, lockVars, seenVars, callVars
<1>18. ASSUME NEW c \in Callers, releaseConnection(c) PROVE WriterRemoves'
  BY <1>18 DEF releaseConnection, Goto, release, WriteLock, UpgradeLock, zkVars, poolVars, seenVars
<1>19. CASE TakeEvent
  BY <1>19 DEF TakeEvent, Goto, Registered, poolVars, lockVars, callVars
<1>20. CASE updateNodeData
  BY <1>20 DEF updateNodeData, Goto, WriteLock, UpgradeLock, zkVars, poolVars, seenVars, callVars
<1>21. CASE clearSf1Nodes
  BY <1>21 DEF clearSf1Nodes, Goto, WriteLock, UpgradeLock, zkVars, poolVars, seenVars, callVars
<1>22. CASE TimerScan
  BY <1>22 DEF TimerScan, Goto, zkVars, poolVars, lockVars, seenVars, callVars
<1>23. CASE TimerUpdate
  BY <1>23 DEF TimerUpdate, Goto, zkVars, poolVars, lockVars, seenVars, callVars
<1>24. CASE removeJob
  BY <1>24 DEF removeJob, Goto, zkVars, poolVars, lockVars, seenVars, callVars
<1>25. CASE UNCHANGED vars
  BY <1>25 DEF vars, zkVars, poolVars, lockVars, seenVars, callVars
<1>26. ASSUME NEW t \in {"watcher", "timer"}, addNode(t) PROVE WriterRemoves'
  BY <1>26 DEF addNode, Upgrade, UpgraderAlone, Goto, Loaded, zkVars, callVars
<1> QED
  BY <1>1, <1>2, <1>3, <1>4, <1>5, <1>6, <1>7, <1>8, <1>9, <1>10, <1>11, <1>12,
     <1>13, <1>14, <1>15, <1>16, <1>17, <1>18, <1>19, <1>20, <1>21, <1>22, <1>23,
     <1>24, <1>25, <1>26, ConstantFacts
  DEF Next, Environment, CallerStep, WatcherStep, TimerStep, OwnerStep, RemoverStep, LoaderStep, Closed

(* Every step keeps writers away while a node is being added.              *)
LEMMA UpgraderStep ==
  TypeOK /\ TypeOK' /\ Control /\ [Next]_vars => UpgraderAlone'
<1> SUFFICES ASSUME TypeOK, TypeOK', Control, [Next]_vars PROVE UpgraderAlone'
  OBVIOUS
<1> USE ConstantFacts DEF Control, UpgraderAlone, TypeOK, Removers
<1>1. ASSUME NEW n \in Nodes, ZkCreate(n) PROVE UpgraderAlone'
  BY <1>1 DEF ZkCreate, Change, poolVars, lockVars, seenVars, callVars
<1>2. ASSUME NEW n \in Nodes, ZkDelete(n) PROVE UpgraderAlone'
  BY <1>2 DEF ZkDelete, Change, poolVars, lockVars, seenVars, callVars
<1>3. ASSUME NEW n \in Nodes, ZkSet(n) PROVE UpgraderAlone'
  BY <1>3 DEF ZkSet, Change, poolVars, lockVars, seenVars, callVars
<1>4. CASE ZkSession
  BY <1>4 DEF ZkSession, Change, poolVars, lockVars, seenVars, callVars
<1>5. ASSUME NEW c \in Callers, getConnection(c) PROVE UpgraderAlone'
  BY <1>5 DEF getConnection, Calling, Goto, zkVars, poolVars, lockVars, seenVars
<1>6. ASSUME NEW c \in Callers, getConnections(c) PROVE UpgraderAlone'
  BY <1>6 DEF getConnections, Calling, Goto, Routes, MainNodes, BackupNodes, zkVars, poolVars, seenVars
<1>7. CASE Close
  BY <1>7 DEF Close, Goto, WriteLock, UpgradeLock, zkVars, poolVars, seenVars, callVars
<1>8. ASSUME NEW t \in Threads, removeSf1Node(t) PROVE UpgraderAlone'
  BY <1>8 DEF removeSf1Node, Goto, zkVars, poolVars, lockVars, seenVars, callVars
<1>9. ASSUME NEW t \in Threads, Relock(t) PROVE UpgraderAlone'
  BY <1>9 DEF Relock, WriteLock, UpgradeLock, zkVars, poolVars, seenVars, callVars
<1>10. ASSUME NEW t \in Threads, Forget(t) PROVE UpgraderAlone'
  BY <1>10 DEF Forget, Goto, zkVars, poolVars, seenVars, callVars
<1>11. ASSUME NEW t \in Threads, NEW n \in Nodes, RemovePool(t, n) PROVE UpgraderAlone'
  BY <1>11 DEF RemovePool, DeletePool, Abort, zkVars, poolVars, lockVars, seenVars, callVars
<1>12. ASSUME NEW t \in Threads, loadTopology(t) PROVE UpgraderAlone'
  BY <1>12 DEF loadTopology, Goto, Loaded, Registered, zkVars, poolVars, lockVars, seenVars, callVars
<1>13. ASSUME NEW t \in {"watcher", "timer"}, NEW n \in Nodes, addSf1Node(t, n) PROVE UpgraderAlone'
  BY <1>13 DEF addSf1Node, Goto, Loaded, UpgradeLock, zkVars, poolVars, callVars
<1>14. ASSUME NEW c \in Callers, isZNodeExists(c) PROVE UpgraderAlone'
  BY <1>14 DEF isZNodeExists, Goto, zkVars, poolVars, lockVars, seenVars, callVars
<1>15. ASSUME NEW c \in Callers, addConnection(c) PROVE UpgraderAlone'
  BY <1>15 DEF addConnection, Goto, zkVars, poolVars, seenVars
<1>16. ASSUME NEW c \in Callers, sendRequest(c) PROVE UpgraderAlone'
  BY <1>16 DEF sendRequest, Abort, Goto, zkVars, lockVars, seenVars
<1>17. ASSUME NEW c \in Callers, getResponse(c) PROVE UpgraderAlone'
  BY <1>17 DEF getResponse, Abort, Goto, zkVars, lockVars, seenVars, callVars
<1>18. ASSUME NEW c \in Callers, releaseConnection(c) PROVE UpgraderAlone'
  BY <1>18 DEF releaseConnection, Goto, release, WriteLock, UpgradeLock, zkVars, poolVars, seenVars
<1>19. CASE TakeEvent
  BY <1>19 DEF TakeEvent, Goto, Registered, poolVars, lockVars, callVars
<1>20. CASE updateNodeData
  BY <1>20 DEF updateNodeData, Goto, WriteLock, UpgradeLock, zkVars, poolVars, seenVars, callVars
<1>21. CASE clearSf1Nodes
  BY <1>21 DEF clearSf1Nodes, Goto, WriteLock, UpgradeLock, zkVars, poolVars, seenVars, callVars
<1>22. CASE TimerScan
  BY <1>22 DEF TimerScan, Goto, zkVars, poolVars, lockVars, seenVars, callVars
<1>23. CASE TimerUpdate
  BY <1>23 DEF TimerUpdate, Goto, zkVars, poolVars, lockVars, seenVars, callVars
<1>24. CASE removeJob
  BY <1>24 DEF removeJob, Goto, zkVars, poolVars, lockVars, seenVars, callVars
<1>25. CASE UNCHANGED vars
  BY <1>25 DEF vars, zkVars, poolVars, lockVars, seenVars, callVars
<1>26. ASSUME NEW t \in {"watcher", "timer"}, addNode(t) PROVE UpgraderAlone'
  BY <1>26 DEF addNode, Upgrade, Goto, Loaded, zkVars, callVars
<1> QED
  BY <1>1, <1>2, <1>3, <1>4, <1>5, <1>6, <1>7, <1>8, <1>9, <1>10, <1>11, <1>12,
     <1>13, <1>14, <1>15, <1>16, <1>17, <1>18, <1>19, <1>20, <1>21, <1>22, <1>23,
     <1>24, <1>25, <1>26, ConstantFacts
  DEF Next, Environment, CallerStep, WatcherStep, TimerStep, OwnerStep, RemoverStep, LoaderStep, Closed

(* Every step keeps the threads' control in order.                         *)
LEMMA ControlStep == TypeOK /\ TypeOK' /\ Control /\ [Next]_vars => Control'
  BY PathStep, WatcherStepsOnly, PendingStep, CurrentStep, WriterStep, UpgraderStep DEF Control

-----------------------------------------------------------------------------
(* What the pools promise.                                                 *)
PoolInv == ConnectionsOwned /\ FaultFree /\ SizeExact

(* A caller waits for a response after the step if it did before, and the  *)
(* process is not aborted.                                                 *)
SameWaiting ==
  \A t \in Threads : /\ pc'[t] = "getResponse" <=> pc[t] = "getResponse"
                     /\ pc'[t] = "aborted" => pc[t] = "aborted"

(* The three parts below depend on nothing but the pools, the connections  *)
(* of the callers and which of them wait for a response; giving up a       *)
(* connection without releasing it does no harm to them.                   *)
LEMMA QuietStep ==
  ASSUME TypeOK, PoolInv, UNCHANGED <<pools, poolVars, cur>>, SameWaiting,
         \A d \in Callers : held'[d] \subseteq held[d]
  PROVE  PoolInv'
<1>1. ConnectionsOwned'
  BY DEF PoolInv, ConnectionsOwned, Using, poolVars
<1>2. FaultFree'
  BY ConstantFacts
  DEF PoolInv, FaultFree, StatusDiscipline, AssertionsHold, poolVars, SameWaiting
<1>3. SizeExact'
  BY DEF PoolInv, SizeExact, poolVars
<1> QED BY <1>1, <1>2, <1>3 DEF PoolInv

(* A process that is aborted had met a fault.                              *)
LEMMA AbortStep ==
  ASSUME PoolInv, UNCHANGED <<pools, poolVars, held, cur>>,
         Faults # {} \/ ~StatusDiscipline
  PROVE  PoolInv'
<1>1. ConnectionsOwned' /\ SizeExact'
  BY DEF PoolInv, ConnectionsOwned, SizeExact, Using, poolVars
<1>2. FaultFree'
  BY DEF PoolInv, FaultFree
<1> QED BY <1>1, <1>2 DEF PoolInv

(* acquire() gives a caller a connection that nobody else has.             *)
LEMMA AcquireStep ==
  ASSUME TypeOK, PoolInv, NEW c \in Callers, NEW n \in pools, NEW k \in Conns, acquire(n, k),
         UNCHANGED <<pools, cur>>, SameWaiting,
         held'[c] \subseteq held[c] \cup {k},
         \A d \in Callers : d # c => held'[d] = held[d]
  PROVE  PoolInv'
<1> USE ConstantFacts
<1>1. /\ k[1] = n /\ n \in Nodes /\ k \notin reserved /\ reserved' = reserved \cup {k}
      /\ available' = available \ {k}
  BY DEF acquire, Reuse, Grow, TypeOK, PoolInv, ConnectionsOwned
<1>3. \A d \in Callers : k \notin Using(d)
  BY <1>1 DEF PoolInv, ConnectionsOwned
<1>4. ConnectionsOwned'
  <2>1. \A d \in Callers : d # c => Using(d)' = Using(d)
    BY DEF Using
  <2>2. Using(c)' \subseteq Using(c) \cup {k}
    BY DEF Using
  <2>3. \A d, e \in Callers : d # e => (Using(d) \cap Using(e) = {})'
    BY <1>3, <2>1, <2>2 DEF PoolInv, ConnectionsOwned
  <2>4. \A d \in Callers : Using(d)' \subseteq reserved'
    BY <1>1, <2>1, <2>2 DEF PoolInv, ConnectionsOwned
  <2>5. \A d \in Callers : cur[d] \notin held'[d]
    <3>1. cur[c] # k
      BY <1>3 DEF Using, NoConn
    <3> QED BY <3>1 DEF PoolInv, ConnectionsOwned
  <2> QED BY <1>1, <2>3, <2>4, <2>5 DEF PoolInv, ConnectionsOwned
<1>5. FaultFree'
  <2> SUFFICES ASSUME StatusDiscipline, AssertionsHold PROVE StatusDiscipline' /\ AssertionsHold'
    BY DEF PoolInv, FaultFree
  <2>0. status' = [status EXCEPT ![k] = "Idle"]
    <3>1. CASE Reuse(n, k)
      BY <3>1 DEF Reuse, TypeOK, StatusDiscipline
    <3> QED BY <3>1 DEF acquire, Grow
  <2>1. \A d \in Callers : \A h \in held'[d] : status'[h] = "Idle"
    <3>1. status'[k] = "Idle" /\ \A h \in Conns : h # k => status'[h] = status[h]
      BY <2>0 DEF TypeOK
    <3>2. \A d \in Callers : held'[d] \subseteq held[d] \cup {k} /\ held[d] \subseteq Conns
      BY DEF TypeOK
    <3> QED BY <3>1, <3>2 DEF StatusDiscipline
  <2>2. \A d \in Callers : pc[d] = "getResponse" => cur[d] # k
    BY <1>3, ConstantFacts DEF Using, NoConn
  <2>3. StatusDiscipline'
    BY <1>1, <2>0, <2>1, <2>2 DEF TypeOK, StatusDiscipline, SameWaiting
  <2> QED BY <2>3 DEF AssertionsHold, SameWaiting
<1>6. SizeExact'
  <2> SUFFICES ASSUME NEW m \in Nodes PROVE size'[m] = Cardinality(Of(m)')
    BY DEF SizeExact, Of
  <2>1. size[m] = Cardinality(Of(m)) /\ IsFiniteSet(Of(m))
    BY PoolFinite DEF PoolInv, SizeExact, Of
  <2>2. CASE Reuse(n, k)
    <3>1. Of(m)' = Of(m)
      BY <2>2 DEF Reuse, Of
    <3> QED BY <2>1, <2>2, <3>1 DEF Reuse
  <2>3. CASE Grow(n, k) /\ m # n
    <3>1. Of(m)' = Of(m)
      BY <2>3 DEF Grow, Of
    <3> QED BY <2>1, <2>3, <3>1 DEF Grow, TypeOK
  <2>4. CASE Grow(n, k) /\ m = n
    <3>1. Of(m)' = Of(m) \cup {k} /\ k \notin Of(m)
      BY <2>4 DEF Grow, Of
    <3>2. Cardinality(Of(m) \cup {k}) = Cardinality(Of(m)) + 1
      BY <2>1, <3>1, FS_AddElement
    <3> QED BY <2>1, <2>4, <3>1, <3>2 DEF Grow, TypeOK
  <2> QED BY <2>2, <2>3, <2>4 DEF acquire
<1> QED BY <1>4, <1>5, <1>6 DEF PoolInv

(* A connection that is not the current one of another caller is set to    *)
(* Busy by its user, who then waits for the response, or to something else.*)
LEMMA SendStep ==
  ASSUME TypeOK, CurrentInUse, PoolInv, NEW c \in Callers, sendRequest(c)
  PROVE  PoolInv'
<1> USE ConstantFacts
<1> DEFINE
      Sent(k) ==
        /\ cur' = [cur EXCEPT ![c] = k]
        /\ held' = [held EXCEPT ![c] = @ \ {k}]
        /\ \/ status' = [status EXCEPT ![k] = "Busy"] /\ Goto(c, "getResponse")
           \/ status' = [status EXCEPT ![k] = "Busy"] /\ Faults # {} /\ Goto(c, "failed")
           \/ status' = [status EXCEPT ![k] = "Invalid"] /\ Goto(c, "failed")
<1>0. CASE \E k \in held[c] : /\ status[k] # "Idle" \/ "deadline" \in Faults
                              /\ UNCHANGED <<cur, held, status>>
  <2>1. Faults # {} \/ ~StatusDiscipline
    BY <1>0 DEF StatusDiscipline
  <2>2. UNCHANGED <<pools, poolVars, held, cur>>
    BY <1>0 DEF sendRequest, poolVars
  <2> QED BY <2>1, <2>2, AbortStep
<1> SUFFICES ASSUME \E k \in held[c] : Sent(k) PROVE PoolInv'
  BY <1>0 DEF sendRequest
<1>1. PICK k \in held[c] : Sent(k)
  OBVIOUS
<1>2. k \in Conns /\ k \in reserved /\ k # NoConn /\ pc[c] = "sendRequest"
  BY DEF TypeOK, PoolInv, ConnectionsOwned, Using, sendRequest
<1>3. UNCHANGED <<pools, available, reserved, size>>
  BY DEF sendRequest
<1>4. \A d \in Callers : d # c => Using(d)' = Using(d) /\ k \notin Using(d)
  BY <1>1 DEF Using, TypeOK, PoolInv, ConnectionsOwned
<1>5. Using(c)' \subseteq Using(c)
  BY <1>1, <1>2 DEF Using, TypeOK
<1>6. ConnectionsOwned'
  <2>1. \A d, e \in Callers : d # e => (Using(d) \cap Using(e) = {})'
    BY <1>4, <1>5 DEF PoolInv, ConnectionsOwned
  <2>2. \A d \in Callers : Using(d)' \subseteq reserved
    BY <1>4, <1>5 DEF PoolInv, ConnectionsOwned
  <2>3. \A d \in Callers : cur'[d] \notin held'[d]
    BY <1>1 DEF TypeOK, PoolInv, ConnectionsOwned
  <2> QED BY <1>3, <2>1, <2>2, <2>3 DEF PoolInv, ConnectionsOwned
<1>7. FaultFree'
  <2> SUFFICES ASSUME Faults = {}, StatusDiscipline, AssertionsHold
               PROVE  StatusDiscipline' /\ AssertionsHold'
    BY DEF PoolInv, FaultFree
  <2>1. k \notin available
    BY <1>2 DEF PoolInv, ConnectionsOwned
  <2>2. \A d \in Callers : k \notin held'[d]
    BY <1>1, <1>4 DEF TypeOK, Using
  <2>3. \A d \in Callers : d # c => cur[d] # k
    BY <1>2, <1>4 DEF Using
  <2>4. \A d \in Callers : d # c => cur'[d] = cur[d] /\ pc'[d] = pc[d]
    BY <1>1 DEF TypeOK, Goto
  <2>5. \A h \in Conns : h # k => status'[h] = status[h]
    BY <1>1 DEF TypeOK
  <2>6. \A d \in Callers : pc'[d] = "getResponse" => status'[cur'[d]] = "Busy"
    <3> SUFFICES ASSUME NEW d \in Callers, pc'[d] = "getResponse" PROVE status'[cur'[d]] = "Busy"
      OBVIOUS
    <3>1. CASE d = c
      BY <1>1, <1>2, <3>1 DEF TypeOK, Goto
    <3>2. CASE d # c
      <4>1. cur[d] \in Conns /\ pc[d] = "getResponse" /\ cur'[d] = cur[d]
        BY <2>4, <3>2 DEF TypeOK, CurrentInUse
      <4> QED BY <2>3, <2>5, <3>2, <4>1 DEF PoolInv, StatusDiscipline
    <3> QED BY <3>1, <3>2
  <2>7. \A d \in Callers : held'[d] \subseteq held[d]
    BY <1>1 DEF TypeOK
  <2>8. \A h \in Conns : status'[h] = "Busy" => \E d \in Callers : pc'[d] = "getResponse" /\ cur'[d] = h
    <3> SUFFICES ASSUME NEW h \in Conns, status'[h] = "Busy"
                 PROVE  \E d \in Callers : pc'[d] = "getResponse" /\ cur'[d] = h
      OBVIOUS
    <3>1. CASE h = k
      BY <1>1, <1>2, <3>1 DEF TypeOK, Goto
    <3>2. CASE h # k
      <4>1. PICK d \in Callers : pc[d] = "getResponse" /\ cur[d] = h
        BY <2>5, <3>2 DEF PoolInv, StatusDiscipline
      <4> QED BY <1>2, <2>4, <4>1
    <3> QED BY <3>1, <3>2
  <2>9. StatusDiscipline'
    BY <1>3, <2>1, <2>2, <2>5, <2>6, <2>7, <2>8 DEF StatusDiscipline, TypeOK
  <2> QED BY <1>1, <2>9 DEF AssertionsHold, Goto, TypeOK
<1>8. SizeExact'
  BY <1>3 DEF PoolInv, SizeExact
<1> QED BY <1>6, <1>7, <1>8 DEF PoolInv

(* A response, or its failure, ends the wait on the caller's connection.   *)
LEMMA ResponseStep ==
  ASSUME TypeOK, CurrentInUse, PoolInv, NEW c \in Callers, getResponse(c)
  PROVE  PoolInv'
<1> USE ConstantFacts
<1>0. CASE status[cur[c]] # "Busy" /\ UNCHANGED status
  <2>1. ~StatusDiscipline
    BY <1>0 DEF StatusDiscipline, getResponse
  <2>2. UNCHANGED <<pools, poolVars, held, cur>>
    BY <1>0 DEF getResponse, poolVars, callVars
  <2> QED BY <2>1, <2>2, AbortStep
<1>a. CASE Faults # {} /\ UNCHANGED status
  <2>1. UNCHANGED <<pools, poolVars, held, cur>>
    BY <1>a DEF getResponse, poolVars, callVars
  <2> QED BY <1>a, <2>1, AbortStep
<1> SUFFICES ASSUME \E st \in {"Idle", "Invalid"} : status' = [status EXCEPT ![cur[c]] = st],
                    Goto(c, "succeeded") \/ Goto(c, "failed")
             PROVE  PoolInv'
  BY <1>0, <1>a DEF getResponse
<1> DEFINE k == cur[c]
<1>1. k \in Conns /\ pc[c] = "getResponse"
  BY DEF getResponse, TypeOK, CurrentInUse
<1> HIDE DEF k
<1>2. /\ UNCHANGED <<pools, available, reserved, size, held, cur>>
      /\ \A d \in Callers : d # c => pc'[d] = pc[d]
      /\ pc'[c] # "getResponse"
      /\ \A h \in Conns : h # k => status'[h] = status[h]
      /\ status'[k] \in {"Idle", "Invalid"}
  BY <1>1 DEF getResponse, Goto, callVars, TypeOK, k
<1>3. k \in reserved /\ \A d \in Callers : k \notin held[d] /\ (d # c => cur[d] # k)
  BY <1>1 DEF PoolInv, ConnectionsOwned, Using, k
<1>4. ConnectionsOwned'
  BY <1>2 DEF PoolInv, ConnectionsOwned, Using
<1>5. FaultFree'
  <2> SUFFICES ASSUME StatusDiscipline, AssertionsHold PROVE StatusDiscipline' /\ AssertionsHold'
    BY DEF PoolInv, FaultFree
  <2>1. \A h \in available : status'[h] = "Idle"
    BY <1>2, <1>3 DEF PoolInv, ConnectionsOwned, StatusDiscipline, TypeOK
  <2>2. \A d \in Callers : \A h \in held[d] : status'[h] = "Idle"
    BY <1>2, <1>3 DEF PoolInv, StatusDiscipline, TypeOK
  <2>3. \A d \in Callers : pc'[d] = "getResponse" => status'[cur[d]] = "Busy"
    <3> SUFFICES ASSUME NEW d \in Callers, pc'[d] = "getResponse" PROVE status'[cur[d]] = "Busy"
      OBVIOUS
    <3>1. d # c /\ pc[d] = "getResponse" /\ cur[d] \in Conns /\ cur[d] # k
      BY <1>2, <1>3 DEF TypeOK, CurrentInUse
    <3> QED BY <1>2, <3>1 DEF PoolInv, StatusDiscipline
  <2>4. \A h \in Conns : status'[h] = "Busy" => \E d \in Callers : pc'[d] = "getResponse" /\ cur[d] = h
    <3> SUFFICES ASSUME NEW h \in Conns, status'[h] = "Busy"
                 PROVE  \E d \in Callers : pc'[d] = "getResponse" /\ cur[d] = h
      OBVIOUS
    <3>1. h # k /\ status[h] = "Busy"
      BY <1>2
    <3>2. PICK d \in Callers : pc[d] = "getResponse" /\ cur[d] = h
      BY <3>1 DEF PoolInv, StatusDiscipline
    <3> QED BY <1>2, <3>1, <3>2 DEF k
  <2>5. StatusDiscipline'
    BY <1>2, <2>1, <2>2, <2>3, <2>4 DEF StatusDiscipline
  <2> QED BY <2>5 DEF AssertionsHold, Goto, TypeOK
<1>6. SizeExact'
  BY <1>2 DEF PoolInv, SizeExact
<1> QED BY <1>4, <1>5, <1>6 DEF PoolInv

(* release() takes the connection back, or destroys it and its slot.       *)
LEMMA ReleaseStep ==
  ASSUME TypeOK, CurrentInUse, PoolInv, NEW c \in Callers, releaseConnection(c)
  PROVE  PoolInv'
<1> USE ConstantFacts
<1> DEFINE k == cur[c]
<1>1. k \in Conns /\ k \in reserved /\ k[1] \in Nodes /\ pc[c] # "getResponse"
  BY DEF releaseConnection, TypeOK, CurrentInUse, PoolInv, ConnectionsOwned, Using
<1>2. release(k) /\ UNCHANGED pools /\ cur' = [cur EXCEPT ![c] = NoConn]
  BY <1>1 DEF releaseConnection
<1>3. /\ \A d \in Callers : held'[d] \subseteq held[d]
      /\ pc'[c] # "getResponse" /\ \A d \in Callers : d # c => pc'[d] = pc[d]
  BY <1>1 DEF releaseConnection, Goto, TypeOK
<1>5. \A t \in Threads : pc'[t] = "aborted" => pc[t] = "aborted"
  BY <1>1 DEF releaseConnection, Goto, TypeOK
<1> HIDE DEF k
<1>4. \A d \in Callers : k \notin held[d] /\ (d # c => cur[d] # k)
  BY <1>1 DEF PoolInv, ConnectionsOwned, Using, k
<1>6. /\ reserved' = reserved \ {k}
      /\ \/ available' = available /\ size' = [size EXCEPT ![k[1]] = @ - 1]
         \/ available' = available \cup {k} /\ size' = size
      /\ \A h \in Conns : h # k => status'[h] = status[h]
      /\ status[k] # "Busy" => status'[k] = "Idle"
  BY <1>1, <1>2 DEF release, TypeOK
<1>7. \A d \in Callers : cur'[d] = IF d = c THEN NoConn ELSE cur[d]
  BY <1>2 DEF TypeOK
<1>8. ConnectionsOwned'
  <2>1. \A d \in Callers : Using(d)' \subseteq Using(d) \ {k}
    BY <1>3, <1>4, <1>7 DEF Using, k
  <2>2. \A d, e \in Callers : d # e => (Using(d) \cap Using(e) = {})'
    BY <2>1 DEF PoolInv, ConnectionsOwned
  <2>3. \A d \in Callers : Using(d)' \subseteq reserved'
    BY <1>6, <2>1 DEF PoolInv, ConnectionsOwned
  <2>4. \A d \in Callers : cur'[d] \notin held'[d]
    BY <1>3, <1>7 DEF TypeOK, PoolInv, ConnectionsOwned
  <2>5. available' \cap reserved' = {}
    BY <1>6 DEF PoolInv, ConnectionsOwned
  <2>6. \A h \in available' \cup reserved' : h[1] \in pools'
    BY <1>1, <1>2, <1>6 DEF PoolInv, ConnectionsOwned
  <2> QED BY <2>2, <2>3, <2>4, <2>5, <2>6 DEF ConnectionsOwned
<1>9. FaultFree'
  <2> SUFFICES ASSUME StatusDiscipline, AssertionsHold PROVE StatusDiscipline' /\ AssertionsHold'
    BY DEF PoolInv, FaultFree
  <2>0. status'[k] = "Idle"
    BY <1>1, <1>4, <1>6 DEF StatusDiscipline, k
  <2>1. \A h \in available' : status'[h] = "Idle"
    <3>1. available' \subseteq available \cup {k} /\ available \subseteq Conns
      BY <1>6 DEF TypeOK
    <3> QED BY <1>6, <2>0, <3>1 DEF StatusDiscipline
  <2>2. \A d \in Callers : \A h \in held'[d] : status'[h] = "Idle"
    BY <1>3, <1>4, <1>6 DEF StatusDiscipline, TypeOK
  <2>3. \A d \in Callers : pc'[d] = "getResponse" => status'[cur'[d]] = "Busy"
    <3> SUFFICES ASSUME NEW d \in Callers, pc'[d] = "getResponse" PROVE status'[cur'[d]] = "Busy"
      OBVIOUS
    <3>1. d # c /\ pc[d] = "getResponse" /\ cur[d] \in Conns /\ cur[d] # k /\ cur'[d] = cur[d]
      BY <1>3, <1>4, <1>7 DEF TypeOK, CurrentInUse
    <3> QED BY <1>6, <3>1 DEF StatusDiscipline
  <2>4. \A h \in Conns : status'[h] = "Busy" => \E d \in Callers : pc'[d] = "getResponse" /\ cur'[d] = h
    <3> SUFFICES ASSUME NEW h \in Conns, status'[h] = "Busy"
                 PROVE  \E d \in Callers : pc'[d] = "getResponse" /\ cur'[d] = h
      OBVIOUS
    <3>1. status[h] = "Busy"
      BY <1>6, <2>0
    <3>2. PICK d \in Callers : pc[d] = "getResponse" /\ cur[d] = h
      BY <3>1 DEF StatusDiscipline
    <3> QED BY <1>1, <1>3, <1>7, <3>2
  <2>5. StatusDiscipline'
    BY <2>1, <2>2, <2>3, <2>4 DEF StatusDiscipline
  <2> QED BY <1>5, <2>5 DEF AssertionsHold
<1>10. SizeExact'
  <2> SUFFICES ASSUME NEW m \in Nodes PROVE size'[m] = Cardinality(Of(m)')
    BY DEF SizeExact, Of
  <2>1. size[m] = Cardinality(Of(m)) /\ IsFiniteSet(Of(m))
    BY PoolFinite DEF PoolInv, SizeExact, Of
  <2>2. CASE size' = size /\ available' = available \cup {k}
    <3>1. Of(m)' = Of(m)
      BY <1>1, <1>6, <2>2 DEF Of
    <3> QED BY <2>1, <2>2, <3>1
  <2>3. CASE available' = available /\ size' = [size EXCEPT ![k[1]] = @ - 1] /\ m # k[1]
    <3>1. Of(m)' = Of(m)
      BY <1>6, <2>3 DEF Of
    <3> QED BY <2>1, <2>3, <3>1 DEF TypeOK
  <2>4. CASE available' = available /\ size' = [size EXCEPT ![k[1]] = @ - 1] /\ m = k[1]
    <3>1. Of(m)' = Of(m) \ {k} /\ k \in Of(m)
      BY <1>1, <1>6, <2>4 DEF Of, PoolInv, ConnectionsOwned
    <3>2. Cardinality(Of(m) \ {k}) = Cardinality(Of(m)) - 1
      BY <2>1, <3>1, FS_RemoveElement
    <3> QED BY <2>1, <2>4, <3>1, <3>2 DEF TypeOK
  <2> QED BY <1>6, <2>2, <2>3, <2>4
<1> QED BY <1>8, <1>9, <1>10 DEF PoolInv

(* A pool is deleted only while none of its connections is reserved.       *)
LEMMA DeleteStep ==
  ASSUME TypeOK, CurrentInUse, PoolInv, NEW n \in Nodes, ~isBusy(n), DeletePool(n),
         UNCHANGED <<held, cur>>, SameWaiting
  PROVE  PoolInv'
<1> USE ConstantFacts
<1>1. \A k \in reserved : k[1] # n
  BY DEF isBusy
<1>2. reserved' = reserved
  BY <1>1 DEF DeletePool
<1>3. /\ available' = {k \in available : k[1] # n} /\ pools' = pools \ {n}
      /\ \A k \in Conns : status'[k] = IF k[1] = n THEN "Idle" ELSE status[k]
  BY DEF DeletePool
<1>4. ConnectionsOwned'
  <2>1. \A k \in available' \cup reserved' : k[1] \in pools'
    BY <1>1, <1>2, <1>3 DEF PoolInv, ConnectionsOwned
  <2> QED BY <1>2, <1>3, <2>1 DEF PoolInv, ConnectionsOwned, Using
<1>5. FaultFree'
  <2> SUFFICES ASSUME StatusDiscipline, AssertionsHold PROVE StatusDiscipline' /\ AssertionsHold'
    BY DEF PoolInv, FaultFree
  <2>1. \A k \in available' : status'[k] = "Idle"
    BY <1>3 DEF StatusDiscipline, TypeOK
  <2>2. \A d \in Callers : \A k \in held'[d] : status'[k] = "Idle"
    BY <1>3 DEF StatusDiscipline, TypeOK
  <2>3. \A d \in Callers : pc'[d] = "getResponse" => status'[cur'[d]] = "Busy"
    <3> SUFFICES ASSUME NEW d \in Callers, pc[d] = "getResponse" PROVE status'[cur[d]] = "Busy"
      BY DEF SameWaiting
    <3>1. cur[d] \in Conns /\ cur[d] \in reserved
      BY DEF CurrentInUse, TypeOK, PoolInv, ConnectionsOwned, Using
    <3> QED BY <1>1, <1>3, <3>1 DEF StatusDiscipline
  <2>4. \A k \in Conns : status'[k] = "Busy" => \E d \in Callers : pc'[d] = "getResponse" /\ cur'[d] = k
    BY <1>3 DEF StatusDiscipline, SameWaiting
  <2>5. StatusDiscipline'
    BY <2>1, <2>2, <2>3, <2>4 DEF StatusDiscipline
  <2> QED BY <2>5 DEF AssertionsHold, SameWaiting
<1>6. SizeExact'
  <2> SUFFICES ASSUME NEW m \in Nodes PROVE size'[m] = Cardinality(Of(m)')
    BY DEF SizeExact, Of
  <2>1. CASE m = n
    <3>1. Of(m)' = {}
      BY <1>1, <1>2, <1>3, <2>1 DEF Of
    <3> QED BY <2>1, <3>1, FS_EmptySet DEF DeletePool, TypeOK
  <2>2. CASE m # n
    <3>1. Of(m)' = Of(m)
      BY <1>2, <1>3, <2>2 DEF Of
    <3> QED BY <2>2, <3>1 DEF DeletePool, TypeOK, PoolInv, SizeExact, Of
  <2> QED BY <2>1, <2>2
<1> QED BY <1>4, <1>5, <1>6 DEF PoolInv

(* A pool that is added is empty, and one that exists is left alone.       *)
LEMMA AddPoolStep ==
  ASSUME TypeOK, PathKnown, PoolInv, NEW t \in Threads, addNode(t)
  PROVE  PoolInv'
<1> USE ConstantFacts
<1>1. /\ UNCHANGED <<available, reserved, status, held, cur>> /\ pools \subseteq pools'
      /\ SameWaiting /\ path[t] \in Nodes
  BY DEF addNode, callVars, Goto, Loaded, SameWaiting, TypeOK, PathKnown
<1>2. ConnectionsOwned' /\ FaultFree'
  <2>1. ConnectionsOwned'
    BY <1>1 DEF PoolInv, ConnectionsOwned, Using
  <2>2. FaultFree'
    BY <1>1 DEF PoolInv, FaultFree, StatusDiscipline, AssertionsHold, SameWaiting
  <2> QED BY <2>1, <2>2
<1>3. SizeExact'
  <2> SUFFICES ASSUME NEW m \in Nodes PROVE size'[m] = Cardinality(Of(m)')
    BY DEF SizeExact, Of
  <2>1. Of(m)' = Of(m) /\ size[m] = Cardinality(Of(m))
    BY <1>1 DEF Of, PoolInv, SizeExact
  <2>2. CASE size' = size
    BY <2>1, <2>2
  <2>3. CASE path[t] \notin pools /\ size' = [size EXCEPT ![path[t]] = 0]
    <3>1. Of(path[t]) = {}
      BY <2>3 DEF Of, PoolInv, ConnectionsOwned
    <3> QED BY <1>1, <2>1, <2>3, <3>1, FS_EmptySet DEF TypeOK
  <2> QED BY <2>2, <2>3 DEF addNode
<1> QED BY <1>2, <1>3 DEF PoolInv

(* Every step keeps the promises of the pools.                             *)
LEMMA PoolStep == IInv /\ TypeOK' /\ [Next]_vars => PoolInv'
<1> SUFFICES ASSUME TypeOK, TypeOK', Control, PoolInv, [Next]_vars PROVE PoolInv'
  BY DEF IInv, PoolInv
<1> USE ConstantFacts DEF TypeOK, Control, CurrentInUse, Removers
<1>1. ASSUME NEW n \in Nodes, ZkCreate(n) PROVE PoolInv'
  <2>1. SameWaiting
    BY <1>1 DEF SameWaiting, ZkCreate, Change, poolVars, lockVars, seenVars, callVars
  <2> QED BY <1>1, <2>1, QuietStep DEF ZkCreate, Change, poolVars, lockVars, seenVars, callVars
<1>2. ASSUME NEW n \in Nodes, ZkDelete(n) PROVE PoolInv'
  <2>1. SameWaiting
    BY <1>2 DEF SameWaiting, ZkDelete, Change, poolVars, lockVars, seenVars, callVars
  <2> QED BY <1>2, <2>1, QuietStep DEF ZkDelete, Change, poolVars, lockVars, seenVars, callVars
<1>3. ASSUME NEW n \in Nodes, ZkSet(n) PROVE PoolInv'
  <2>1. SameWaiting
    BY <1>3 DEF SameWaiting, ZkSet, Change, poolVars, lockVars, seenVars, callVars
  <2> QED BY <1>3, <2>1, QuietStep DEF ZkSet, Change, poolVars, lockVars, seenVars, callVars
<1>4. CASE ZkSession
  <2>1. SameWaiting
    BY <1>4 DEF SameWaiting, ZkSession, Change, poolVars, lockVars, seenVars, callVars
  <2> QED BY <1>4, <2>1, QuietStep DEF ZkSession, Change, poolVars, lockVars, seenVars, callVars
<1>5. ASSUME NEW c \in Callers, getConnection(c) PROVE PoolInv'
  <2>1. SameWaiting
    BY <1>5 DEF getConnection, Calling, Goto, SameWaiting
  <2>2. UNCHANGED <<pools, cur>>
    BY <1>5 DEF getConnection
  <2>3. CASE UNCHANGED <<poolVars, held>>
    BY <2>1, <2>2, <2>3, QuietStep
  <2>4. CASE \E n \in pools, k \in Conns : acquire(n, k) /\ held' = [held EXCEPT ![c] = {k}]
    <3> PICK n \in pools, k \in Conns : acquire(n, k) /\ held' = [held EXCEPT ![c] = {k}]
      BY <2>4
    <3>1. /\ held'[c] \subseteq held[c] \cup {k}
          /\ \A d \in Callers : d # c => held'[d] = held[d]
      OBVIOUS
    <3> QED BY <2>1, <2>2, <3>1, AcquireStep
  <2> QED BY <1>5, <2>3, <2>4 DEF getConnection
<1>6. ASSUME NEW c \in Callers, getConnections(c) PROVE PoolInv'
  <2>1. SameWaiting
    BY <1>6 DEF SameWaiting, getConnections, Calling, Goto, Routes, MainNodes, BackupNodes, zkVars, poolVars, seenVars
  <2> QED BY <1>6, <2>1, QuietStep DEF getConnections, Calling, Goto, Routes, MainNodes, BackupNodes, zkVars, poolVars, seenVars
<1>7. CASE Close
  <2>1. SameWaiting
    BY <1>7 DEF SameWaiting, Close, Goto, WriteLock, UpgradeLock, zkVars, poolVars, seenVars, callVars
  <2> QED BY <1>7, <2>1, QuietStep DEF Close, Goto, WriteLock, UpgradeLock, zkVars, poolVars, seenVars, callVars
<1>8. ASSUME NEW t \in Threads, removeSf1Node(t) PROVE PoolInv'
  <2>1. SameWaiting
    BY <1>8 DEF SameWaiting, removeSf1Node, Goto, zkVars, poolVars, lockVars, seenVars, callVars
  <2> QED BY <1>8, <2>1, QuietStep DEF removeSf1Node, Goto, zkVars, poolVars, lockVars, seenVars, callVars
<1>9. ASSUME NEW t \in Threads, Relock(t) PROVE PoolInv'
  <2>1. SameWaiting
    BY <1>9 DEF SameWaiting, Relock, WriteLock, UpgradeLock, zkVars, poolVars, seenVars, callVars
  <2> QED BY <1>9, <2>1, QuietStep DEF Relock, WriteLock, UpgradeLock, zkVars, poolVars, seenVars, callVars
<1>10. ASSUME NEW t \in Threads, Forget(t) PROVE PoolInv'
  <2>1. SameWaiting
    <3>1. pc[t] \in Removers /\ pc'[t] \in {"loadTopology", "removeJob", "idle"}
      BY <1>10 DEF Forget, Goto, WriterRemoves
    <3> QED BY <1>10, <3>1 DEF Forget, Goto, SameWaiting
  <2> QED BY <1>10, <2>1, QuietStep DEF Forget, callVars
<1>11. ASSUME NEW t \in Threads, NEW n \in Nodes, RemovePool(t, n) PROVE PoolInv'
  <2>1. UNCHANGED <<held, cur>>
    BY <1>11 DEF RemovePool, callVars
  <2>2. CASE UNCHANGED <<pools, poolVars, pc>>
    BY <2>1, <2>2, QuietStep DEF SameWaiting
  <2>3. CASE ~isBusy(n) /\ DeletePool(n) /\ UNCHANGED pc
    BY <2>1, <2>3, DeleteStep DEF SameWaiting
  <2>4. CASE ~Deletable(n) /\ UNCHANGED <<pools, poolVars>>
    <3>1. ~StatusDiscipline
      BY <2>4 DEF Deletable, StatusDiscipline
    <3> QED BY <2>1, <2>4, <3>1, AbortStep
  <2> QED BY <1>11, <2>2, <2>3, <2>4 DEF RemovePool
<1>12. ASSUME NEW t \in Threads, loadTopology(t) PROVE PoolInv'
  <2>1. SameWaiting
    BY <1>12 DEF SameWaiting, loadTopology, Goto, Loaded, Registered, zkVars, poolVars, lockVars, seenVars, callVars
  <2> QED BY <1>12, <2>1, QuietStep DEF loadTopology, Goto, Loaded, Registered, zkVars, poolVars, lockVars, seenVars, callVars
<1>13. ASSUME NEW t \in {"watcher", "timer"}, NEW n \in Nodes, addSf1Node(t, n) PROVE PoolInv'
  <2>1. SameWaiting
    BY <1>13 DEF SameWaiting, addSf1Node, Goto, Loaded
  <2> QED BY <1>13, <2>1, QuietStep DEF addSf1Node, callVars
<1>14. ASSUME NEW c \in Callers, isZNodeExists(c) PROVE PoolInv'
  <2>1. SameWaiting
    BY <1>14 DEF SameWaiting, isZNodeExists, Goto, zkVars, poolVars, lockVars, seenVars, callVars
  <2> QED BY <1>14, <2>1, QuietStep DEF isZNodeExists, Goto, zkVars, poolVars, lockVars, seenVars, callVars
<1>15. ASSUME NEW c \in Callers, addConnection(c) PROVE PoolInv'
  <2>1. SameWaiting
    BY <1>15 DEF addConnection, Goto, SameWaiting
  <2>2. UNCHANGED <<pools, cur>>
    BY <1>15 DEF addConnection
  <2>3. CASE UNCHANGED poolVars /\ held' = [held EXCEPT ![c] = {}]
    BY <2>1, <2>2, <2>3, QuietStep
  <2>4. CASE \E n \in pools, k \in Conns : acquire(n, k) /\ held' = [held EXCEPT ![c] = @ \cup {k}]
    <3> PICK n \in pools, k \in Conns : acquire(n, k) /\ held' = [held EXCEPT ![c] = @ \cup {k}]
      BY <2>4
    <3>1. /\ held'[c] \subseteq held[c] \cup {k}
          /\ \A d \in Callers : d # c => held'[d] = held[d]
      OBVIOUS
    <3> QED BY <2>1, <2>2, <3>1, AcquireStep
  <2> QED BY <1>15, <2>3, <2>4 DEF addConnection
<1>16. ASSUME NEW c \in Callers, sendRequest(c) PROVE PoolInv'
  BY <1>16, SendStep
<1>17. ASSUME NEW c \in Callers, getResponse(c) PROVE PoolInv'
  BY <1>17, ResponseStep
<1>18. ASSUME NEW c \in Callers, releaseConnection(c) PROVE PoolInv'
  BY <1>18, ReleaseStep
<1>19. CASE TakeEvent
  <2>1. SameWaiting
    BY <1>19 DEF SameWaiting, TakeEvent, Goto, Registered, poolVars, lockVars, callVars
  <2> QED BY <1>19, <2>1, QuietStep DEF TakeEvent, Goto, Registered, poolVars, lockVars, callVars
<1>20. CASE updateNodeData
  <2>1. SameWaiting
    BY <1>20 DEF SameWaiting, updateNodeData, Goto, WriteLock, UpgradeLock, zkVars, poolVars, seenVars, callVars
  <2> QED BY <1>20, <2>1, QuietStep DEF updateNodeData, Goto, WriteLock, UpgradeLock, zkVars, poolVars, seenVars, callVars
<1>21. CASE clearSf1Nodes
  <2>1. SameWaiting
    BY <1>21 DEF SameWaiting, clearSf1Nodes, Goto, WriteLock, UpgradeLock, zkVars, poolVars, seenVars, callVars
  <2> QED BY <1>21, <2>1, QuietStep DEF clearSf1Nodes, Goto, WriteLock, UpgradeLock, zkVars, poolVars, seenVars, callVars
<1>22. CASE TimerScan
  <2>1. SameWaiting
    BY <1>22 DEF SameWaiting, TimerScan, Goto, zkVars, poolVars, lockVars, seenVars, callVars
  <2> QED BY <1>22, <2>1, QuietStep DEF TimerScan, Goto, zkVars, poolVars, lockVars, seenVars, callVars
<1>23. CASE TimerUpdate
  <2>1. SameWaiting
    BY <1>23 DEF SameWaiting, TimerUpdate, Goto, zkVars, poolVars, lockVars, seenVars, callVars
  <2> QED BY <1>23, <2>1, QuietStep DEF TimerUpdate, Goto, zkVars, poolVars, lockVars, seenVars, callVars
<1>24. CASE removeJob
  <2>1. SameWaiting
    BY <1>24 DEF SameWaiting, removeJob, Goto, zkVars, poolVars, lockVars, seenVars, callVars
  <2> QED BY <1>24, <2>1, QuietStep DEF removeJob, Goto, zkVars, poolVars, lockVars, seenVars, callVars
<1>25. CASE UNCHANGED vars
  BY <1>25, QuietStep DEF SameWaiting, vars, zkVars, poolVars, lockVars, seenVars, callVars
<1>26. ASSUME NEW t \in {"watcher", "timer"}, addNode(t) PROVE PoolInv'
  BY <1>26, AddPoolStep
<1> QED
  BY <1>1, <1>2, <1>3, <1>4, <1>5, <1>6, <1>7, <1>8, <1>9, <1>10, <1>11, <1>12,
     <1>13, <1>14, <1>15, <1>16, <1>17, <1>18, <1>19, <1>20, <1>21, <1>22, <1>23,
     <1>24, <1>25, <1>26, ConstantFacts
  DEF Next, Environment, CallerStep, WatcherStep, TimerStep, OwnerStep, RemoverStep, LoaderStep, Closed

-----------------------------------------------------------------------------
(* The inductive invariant holds in every reachable state.                 *)
LEMMA Inductive == Spec => []IInv
<1>1. IInv /\ [Next]_vars => IInv'
  BY TypeStep, ControlStep, PoolStep DEF IInv, PoolInv
<1> QED BY <1>1, InitIInv, PTL DEF Spec

(***************************************************************************)
(* The types of the router's state; in particular ConnectionPool::size     *)
(* stays between 0 and maxSize.                                            *)
(***************************************************************************)
THEOREM TypeCorrect == Spec => []TypeOK
<1>1. IInv => TypeOK
  BY DEF IInv
<1> QED BY <1>1, Inductive, PTL

(***************************************************************************)
(* Every connection a caller is to use or to release is reserved for it    *)
(* alone in a pool that exists (getConnection(), getConnections(),         *)
(* releaseConnection() against removeNodeFromPools()).                     *)
(***************************************************************************)
THEOREM CallersOwnConnections == Spec => []ConnectionsOwned
<1>1. IInv => ConnectionsOwned
  BY DEF IInv
<1> QED BY <1>1, Inductive, PTL

(***************************************************************************)
(* As long as RawClient meets nothing but errors of the network, no CHECK  *)
(* of sendRequest(), getResponse() or ~RawClient() on the status of a      *)
(* connection aborts the process: callers that share connections, those    *)
(* that give them up and those that remove nodes keep out of each other's  *)
(* way, and no invalid connection is handed out again.                     *)
(***************************************************************************)
THEOREM StatusAssertionsHold ==
  ASSUME Faults = {}
  PROVE  Spec => []AssertionsHold
<1>1. IInv => AssertionsHold
  BY DEF IInv, FaultFree
<1> QED BY <1>1, Inductive, PTL

(***************************************************************************)
(* ConnectionPool::size is the number of connections of the pool, whatever *)
(* acquire(), release() and the deletion of pools do.                      *)
(***************************************************************************)
THEOREM PoolSizesExact == Spec => []SizeExact
<1>1. IInv => SizeExact
  BY DEF IInv
<1> QED BY <1>1, Inductive, PTL

(* A node leaves the topology together with its pool: the lock that        *)
(* removeNodeFromPools() holds when it has deleted the pool is not given   *)
(* up before the node is forgotten, so no addSf1Node() comes in between.   *)
LEMMA LeaveStep ==
  ASSUME IInv, [Next]_vars, NEW n \in Nodes, Present(n), ~Present(n)'
  PROVE  n \notin pools' \/ pc["watcher"] = "clearing"
<1> DEFINE Goal == n \notin pools' \/ pc["watcher"] = "clearing"
<1> SUFFICES Goal
  OBVIOUS
<1>0. TypeOK /\ Control /\ topology[n] # Absent /\ topology'[n] = Absent
  BY DEF IInv, Present
<1> USE <1>0 DEF TypeOK
<1> HIDE DEF Goal
<1>1. ASSUME NEW m \in Nodes, ZkCreate(m) PROVE Goal
  BY <1>1 DEF ZkCreate, Change
<1>2. ASSUME NEW m \in Nodes, ZkDelete(m) PROVE Goal
  BY <1>2 DEF ZkDelete, Change
<1>3. ASSUME NEW m \in Nodes, ZkSet(m) PROVE Goal
  BY <1>3 DEF ZkSet, Change
<1>4. CASE ZkSession
  BY <1>4 DEF ZkSession, Change
<1>5. ASSUME NEW c \in Callers, getConnection(c) PROVE Goal
  BY <1>5 DEF getConnection
<1>6. ASSUME NEW c \in Callers, getConnections(c) PROVE Goal
  BY <1>6 DEF getConnections
<1>7. CASE Close
  BY <1>7 DEF Close
<1>8. ASSUME NEW t \in Threads, removeSf1Node(t) PROVE Goal
  BY <1>8 DEF removeSf1Node
<1>9. ASSUME NEW t \in Threads, Relock(t) PROVE Goal
  BY <1>9 DEF Relock
<1>10. ASSUME NEW t \in Threads, Forget(t) PROVE Goal
  <2>1. CASE pc[t] \in {"removing", "emptied"}
    <3>1. path[t] \in Nodes /\ path[t] \notin pools
      BY <1>10, <2>1 DEF Forget, Control, PathKnown, PoolPending
    <3>2. topology' = [topology EXCEPT ![path[t]] = Absent] /\ pools' = pools
      BY <1>10, <2>1 DEF Forget
    <3> QED BY <3>1, <3>2 DEF Goal
  <2>2. CASE pc[t] = "clearing"
    BY <2>2 DEF Control, WatcherUpdates, Goal
  <2>3. CASE pc[t] = "closing"
    BY <1>10, <2>3 DEF Forget
  <2> QED BY <1>10, <2>1, <2>2, <2>3 DEF Forget, Control, WriterRemoves, Removers
<1>11. ASSUME NEW t \in Threads, NEW m \in Nodes, RemovePool(t, m) PROVE Goal
  BY <1>11 DEF RemovePool
<1>12. ASSUME NEW t \in Threads, loadTopology(t) PROVE Goal
  BY <1>12 DEF loadTopology
<1>13. ASSUME NEW t \in {"watcher", "timer"}, NEW m \in Nodes, addSf1Node(t, m) PROVE Goal
  BY <1>13 DEF addSf1Node
<1>14. ASSUME NEW c \in Callers, isZNodeExists(c) PROVE Goal
  BY <1>14 DEF isZNodeExists
<1>15. ASSUME NEW c \in Callers, addConnection(c) PROVE Goal
  BY <1>15 DEF addConnection
<1>16. ASSUME NEW c \in Callers, sendRequest(c) PROVE Goal
  BY <1>16 DEF sendRequest
<1>17. ASSUME NEW c \in Callers, getResponse(c) PROVE Goal
  BY <1>17 DEF getResponse
<1>18. ASSUME NEW c \in Callers, releaseConnection(c) PROVE Goal
  BY <1>18 DEF releaseConnection
<1>19. CASE TakeEvent
  BY <1>19 DEF TakeEvent
<1>20. CASE updateNodeData
  BY <1>20 DEF updateNodeData
<1>21. CASE clearSf1Nodes
  BY <1>21 DEF clearSf1Nodes
<1>22. CASE TimerScan
  BY <1>22 DEF TimerScan
<1>23. CASE TimerUpdate
  <2>1. topology'[n] = topology[n] \/ topology'[n] = Empty \/ (zk[n] # Absent /\ topology'[n] = zk[n])
    BY <1>23 DEF TimerUpdate
  <2> QED BY <2>1 DEF Empty, Absent
<1>24. CASE removeJob
  BY <1>24 DEF removeJob
<1>25. CASE UNCHANGED vars
  BY <1>25 DEF vars, zkVars, poolVars, lockVars, seenVars, callVars
<1>26. ASSUME NEW t \in {"watcher", "timer"}, addNode(t) PROVE Goal
  <2>1. upgrader = t /\ data # Absent
    BY <1>26, ConstantFacts DEF addNode, Upgrade, Control, UpgraderAlone
  <2> QED BY <1>26, <2>1 DEF addNode
<1> QED
  BY <1>1, <1>2, <1>3, <1>4, <1>5, <1>6, <1>7, <1>8, <1>9, <1>10, <1>11, <1>12,
     <1>13, <1>14, <1>15, <1>16, <1>17, <1>18, <1>19, <1>20, <1>21, <1>22, <1>23,
     <1>24, <1>25, <1>26, ConstantFacts
  DEF Next, Environment, CallerStep, WatcherStep, TimerStep, OwnerStep, RemoverStep, LoaderStep, Closed

(***************************************************************************)
(* removeSf1Node() and updateNodeData() take a node out of the topology    *)
(* only together with its pool, so that addSf1Node(), which looks at the   *)
(* topology, never meets an old pool of the node they removed.             *)
(***************************************************************************)
THEOREM RemovedNodesLeaveWithPool == Spec => NodeLeavesWithPool
<1>1. IInv /\ [Next]_vars =>
        [\A n \in Nodes : Present(n) /\ ~Present(n)' =>
           n \notin pools' \/ pc["watcher"] = "clearing"]_vars
  BY LeaveStep
<1> QED BY <1>1, Inductive, PTL DEF Spec, NodeLeavesWithPool

=============================================================================
