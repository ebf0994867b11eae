-------------------------- MODULE ZooKeeperRouter --------------------------
(***************************************************************************)
(* The distributed SF1R driver: the router that keeps one connection pool  *)
(* per running SF1 node (ZooKeeperRouter, ConnectionPool), the threads     *)
(* that call through it (Sf1DistributedDriver, Releaser, RawClient), the   *)
(* event thread that follows the nodes registered in ZooKeeper             *)
(* (Sf1Watcher), the timer thread that applies deferred updates, and the   *)
(* owner that destroys the router.                                         *)
(*                                                                         *)
(* A connection is a pair <<n, i>>: the i-th slot of the pool of node n,   *)
(* so its path is its first component.  A node's data is a version number; *)
(* two versions with the same State differ in nothing that makes           *)
(* updateNodeData() apply them at once.  Which of several nodes the round  *)
(* robin policy picks, and which available connection a pool hands out, is *)
(* any of them.                                                            *)
(***************************************************************************)
EXTENDS Naturals, FiniteSets, Sequences

CONSTANTS
  Nodes,       \* the paths of the SF1 nodes
  Backup,      \* the nodes whose replica is not in this router's set
  Callers,     \* the threads that call the driver
  Versions,    \* what a node's data can be
  MaxSize,     \* ConnectionPool::maxSize
  Threshold,   \* updates of a node that are deferred before one is applied
  Faults,      \* what RawClient may meet besides errors of the network:
               \* "exception", any other exception; "deadline", a deadline
               \* that expires at the moment what it bounds completes
  MaxCalls,    \* bound: calls per thread
  MaxChanges   \* bound: changes in ZooKeeper

Absent == 0    \* no such node
Empty == 1     \* a known node whose data could not be read any more
NoOne == "noone"
Threads == Callers \cup {"watcher", "timer", "owner"}
Conns == Nodes \X (1..MaxSize)
NoConn == <<>>
NoNode == "nonode"

(***************************************************************************)
(* A caller is none of the other threads; the backup nodes are nodes; the  *)
(* sizes are natural numbers, no version is the empty data and the faults  *)
(* are known ones.                                                         *)
(***************************************************************************)
ASSUME RouterAssumption ==
  /\ Backup \subseteq Nodes
  /\ NoNode \notin Nodes
  /\ Callers \cap {"watcher", "timer", "owner", NoOne} = {}
  /\ Versions \subseteq Nat \ {Absent, Empty}
  /\ MaxSize \in Nat /\ Threshold \in Nat
  /\ Faults \subseteq {"exception", "deadline"}
  /\ MaxCalls \in Nat /\ MaxChanges \in Nat

VARIABLES
  \* ZooKeeper
  zk,         \* data of each registered node, Absent if it is not registered
  events,     \* events the ZooKeeper client has not delivered yet
  changes,    \* number of changes so far
  \* ZooKeeperRouter, guarded by shared_mutex
  topology,   \* topology and backup_topology: what is known of each node
  deferred,   \* waiting_update_path_
  pools,      \* the nodes that have a connection pool
  \* ConnectionPool
  available, reserved, size,
  \* RawClient
  status,
  \* shared_mutex and condition
  writer, upgrader, readers, asleep,
  \* local state of the threads
  pc, path, todo, held, cur, calls,
  seen, force,  \* the watcher's: data read by updateNodeData(), force_update
  data          \* the upgrader's: data read by addSf1Node()

zkVars == <<zk, events, changes>>
poolVars == <<available, reserved, size, status>>
lockVars == <<writer, upgrader, readers, asleep>>
callVars == <<held, cur, calls>>
seenVars == <<seen, force, data>>
vars == <<zkVars, topology, deferred, pools, poolVars, lockVars,
          pc, path, todo, seenVars, callVars>>

Known == Versions \cup {Absent, Empty}
Present(n) == topology[n] # Absent
State(v) == v \div 2

\* A thread inside removeNodeFromPools(), and what called it.
Removers == {"removing", "emptied", "clearing", "closing"}

Init ==
  /\ zk \in {[n \in Nodes |-> v] : v \in Versions} /\ events = <<>> /\ changes = 0
  /\ topology = zk /\ deferred = [n \in Nodes |-> 0] /\ pools = Nodes
  /\ available = {} /\ reserved = {} /\ size = [n \in Nodes |-> 0]
  /\ status = [k \in Conns |-> "Idle"]
  /\ writer = NoOne /\ upgrader = NoOne /\ readers = {} /\ asleep = {}
  /\ pc = [t \in Threads |-> "idle"]
  /\ path = [t \in Threads |-> NoNode]
  /\ todo = [t \in Threads |-> {}]
  /\ seen = Absent /\ force = FALSE /\ data = Absent
  /\ held = [c \in Callers |-> {}] /\ cur = [c \in Callers |-> NoConn]
  /\ calls = [c \in Callers |-> 0]

Goto(t, l) == pc' = [pc EXCEPT ![t] = l]

(***************************************************************************)
(* shared_mutex: an upgrade lock excludes writers and other upgraders but  *)
(* not readers; Upgrade makes it exclusive once the readers are gone.      *)
(***************************************************************************)
ReadLock == writer = NoOne
UpgradeLock == writer = NoOne /\ upgrader = NoOne
WriteLock == UpgradeLock /\ readers = {}
Upgrade(t) == upgrader = t /\ readers = {}

(* A CHECK that fails aborts the process.                                  *)
Abort == pc' = [t \in Threads |-> "aborted"]

-----------------------------------------------------------------------------
(***************************************************************************)
(* ZooKeeper: every change is notified, in order.                          *)
(***************************************************************************)
Change(evs) ==
  /\ changes < MaxChanges
  /\ changes' = changes + 1
  /\ events' = events \o evs
  /\ UNCHANGED <<topology, deferred, pools, poolVars, lockVars,
                 pc, path, todo, seenVars, callVars>>

ZkCreate(n) ==
  /\ zk[n] = Absent
  /\ \E v \in Versions : zk' = [zk EXCEPT ![n] = v]
  /\ Change(<< <<"children", NoNode>> >>)

ZkDelete(n) ==
  /\ zk[n] # Absent
  /\ zk' = [zk EXCEPT ![n] = Absent]
  /\ Change(<< <<"deleted", n>>, <<"children", NoNode>> >>)

ZkSet(n) ==
  /\ zk[n] # Absent
  /\ \E v \in Versions \ {zk[n]} : zk' = [zk EXCEPT ![n] = v]
  /\ Change(<< <<"changed", n>> >>)

ZkSession == UNCHANGED zk /\ Change(<< <<"session", NoNode>> >>)

-----------------------------------------------------------------------------
(***************************************************************************)
(* ConnectionPool                                                          *)
(***************************************************************************)
isBusy(n) == \E k \in reserved : k[1] = n
HasAvailable(n) == \E k \in available : k[1] = n
Exhausted(n) == ~HasAvailable(n) /\ size[n] = MaxSize

(* acquire(): an available connection, or a new one if there is room.      *)
Reuse(n, k) ==
  /\ k \in available /\ k[1] = n
  /\ available' = available \ {k}
  /\ reserved' = reserved \cup {k}
  /\ UNCHANGED <<size, status>>

Grow(n, k) ==
  /\ ~HasAvailable(n) /\ size[n] # MaxSize
  /\ k[1] = n /\ k \notin available \cup reserved
  /\ reserved' = reserved \cup {k}
  /\ size' = [size EXCEPT ![n] = @ + 1]
  /\ status' = [status EXCEPT ![k] = "Idle"]
  /\ UNCHANGED available

acquire(n, k) == Reuse(n, k) \/ Grow(n, k)

(* acquire() that throws: the pool is full, or connecting failed.          *)
PoolError(n) == Exhausted(n)
ConnectError(n) == ~HasAvailable(n) /\ size[n] # MaxSize

(* Faulty variants: a connection is not checked, its slot not given back,  *)
(* or given back although it is kept.                                      *)
releaseKeepsInvalid(k) ==
  /\ reserved' = reserved \ {k}
  /\ available' = available \cup {k}
  /\ UNCHANGED <<size, status>>

releaseKeepsSize(k) ==
  /\ reserved' = reserved \ {k}
  /\ IF status[k] = "Invalid" THEN UNCHANGED available
     ELSE available' = available \cup {k}
  /\ UNCHANGED <<size, status>>

releaseShrinks(k) ==
  /\ reserved' = reserved \ {k}
  /\ size' = [size EXCEPT ![k[1]] = @ - 1]
  /\ available' = available \cup {k}
  /\ UNCHANGED status

(* release(): an invalid connection is destroyed.                          *)
release(k) ==
  /\ reserved' = reserved \ {k}
  /\ IF status[k] = "Invalid"
     THEN /\ size' = [size EXCEPT ![k[1]] = @ - 1]
          /\ status' = [status EXCEPT ![k] = "Idle"]
          /\ UNCHANGED available
     ELSE /\ available' = available \cup {k}
          /\ UNCHANGED <<size, status>>

-----------------------------------------------------------------------------
(***************************************************************************)
(* removeNodeFromPools(): with the write lock, pools are deleted one by    *)
(* one; at a pool in use the thread waits on the condition, which gives up *)
(* the lock.                                                               *)
(***************************************************************************)
Relock(t) ==
  /\ pc[t] \in Removers /\ writer # t /\ t \notin asleep
  /\ WriteLock
  /\ writer' = t
  /\ UNCHANGED <<zkVars, topology, deferred, pools, poolVars, upgrader, readers, asleep,
                 pc, path, todo, seenVars, callVars>>

DeletePool(n) ==
  /\ pools' = pools \ {n}
  /\ available' = {k \in available : k[1] # n}
  /\ reserved' = {k \in reserved : k[1] # n}
  /\ size' = [size EXCEPT ![n] = 0]
  /\ status' = [k \in Conns |-> IF k[1] = n THEN "Idle" ELSE status[k]]

(* Faulty variant: the pool is deleted even if it is in use.               *)
RemoveBusyPool(t, n) ==
  /\ writer = t /\ pc[t] \in Removers /\ n \in todo[t]
  /\ IF n \in pools THEN DeletePool(n) ELSE UNCHANGED <<pools, poolVars>>
  /\ todo' = [todo EXCEPT ![t] = @ \ {n}]
  /\ UNCHANGED <<zkVars, topology, deferred, lockVars, pc, path, seenVars, callVars>>

(* ~RawClient(): none of the connections that are deleted is busy.         *)
Deletable(n) == \A k \in available : k[1] = n => status[k] # "Busy"

RemovePool(t, n) ==
  /\ writer = t /\ pc[t] \in Removers /\ n \in todo[t]
  /\ \/ /\ n \notin pools
        /\ todo' = [todo EXCEPT ![t] = @ \ {n}]
        /\ UNCHANGED <<pools, poolVars, lockVars, pc>>
     \/ /\ n \in pools /\ isBusy(n)
        /\ writer' = NoOne
        /\ asleep' = asleep \cup {t}
        /\ UNCHANGED <<pools, poolVars, upgrader, readers, todo, pc>>
     \/ /\ n \in pools /\ ~isBusy(n) /\ Deletable(n)
        /\ DeletePool(n)
        /\ todo' = [todo EXCEPT ![t] = @ \ {n}]
        /\ UNCHANGED <<lockVars, pc>>
     \/ /\ n \in pools /\ ~isBusy(n) /\ ~Deletable(n)
        /\ Abort
        /\ UNCHANGED <<pools, poolVars, lockVars, todo>>
  /\ UNCHANGED <<zkVars, topology, deferred, path, seenVars, callVars>>

(* What follows removeNodeFromPools() before the lock is released.         *)
Forget(t) ==
  /\ writer = t /\ pc[t] \in Removers /\ todo[t] = {}
  /\ writer' = NoOne
  /\ IF pc[t] = "clearing"
     THEN topology' = [n \in Nodes |-> Absent] /\ UNCHANGED deferred
     ELSE IF pc[t] = "closing" THEN UNCHANGED <<topology, deferred>>
     ELSE /\ topology' = [topology EXCEPT ![path[t]] = Absent]
          /\ deferred' = [deferred EXCEPT ![path[t]] = 0]
  /\ Goto(t, CASE pc[t] = "clearing" -> "loadTopology"
               [] pc[t] = "closing" -> "removeJob"
               [] OTHER -> "idle")
  /\ path' = [path EXCEPT ![t] = NoNode]
  /\ UNCHANGED <<zkVars, pools, poolVars, upgrader, readers, asleep, todo, seenVars, callVars>>

(* Faulty variant: the node is taken out of the topology before its pool   *)
(* is deleted.                                                             *)
removeSf1NodeEarly(t) ==
  /\ pc[t] = "removeSf1Node" /\ WriteLock /\ Present(path[t])
  /\ topology' = [topology EXCEPT ![path[t]] = Absent]
  /\ Goto(t, "removing")
  /\ todo' = [todo EXCEPT ![t] = {path[t]}]
  /\ UNCHANGED <<zkVars, deferred, pools, poolVars, lockVars, path, seenVars, callVars>>

(* removeSf1Node(): the node is looked up under the read lock.             *)
removeSf1Node(t) ==
  /\ pc[t] = "removeSf1Node" /\ ReadLock
  /\ IF Present(path[t])
     THEN /\ Goto(t, "removing")
          /\ todo' = [todo EXCEPT ![t] = {path[t]}]
          /\ UNCHANGED path
     ELSE /\ Goto(t, "idle")
          /\ path' = [path EXCEPT ![t] = NoNode]
          /\ UNCHANGED todo
  /\ UNCHANGED <<zkVars, topology, deferred, pools, poolVars, lockVars, seenVars, callVars>>

-----------------------------------------------------------------------------
(***************************************************************************)
(* Sf1Watcher: the ZooKeeper client delivers one event after the other.    *)
(* watchChildren() lists the nodes that are registered now.  For a changed *)
(* node the first half of updateNodeData() is here: its data is read under *)
(* the read lock.                                                          *)
(***************************************************************************)
Registered == {n \in Nodes : zk[n] # Absent}

TakeEvent ==
  /\ pc["watcher"] = "idle" /\ events # <<>>
  /\ events' = Tail(events)
  /\ LET kind == Head(events)[1]
         n == Head(events)[2]
         update == kind = "changed" /\ Present(n)
     IN /\ kind = "changed" => ReadLock
        /\ Goto("watcher", CASE kind = "deleted" -> "removeSf1Node"
                              [] kind = "children" /\ Registered # {} -> "load"
                              [] kind = "session" -> "clearSf1Nodes"
                              [] update -> "updateNodeData"
                              [] OTHER -> "idle")
        /\ path' = [path EXCEPT !["watcher"] = IF kind = "deleted" \/ update THEN n ELSE NoNode]
        /\ seen' = IF update THEN zk[n] ELSE Absent
        /\ force' = (update /\ State(zk[n]) # State(topology[n]))
        /\ todo' = [todo EXCEPT !["watcher"] = IF kind = "children" THEN Registered ELSE {}]
        /\ UNCHANGED data
  /\ UNCHANGED <<zk, changes, topology, deferred, pools, poolVars, lockVars, callVars>>

(* Faulty variant: an update that is not applied at once is not recorded.  *)
updateNodeDataDrops ==
  /\ pc["watcher"] = "updateNodeData" /\ WriteLock /\ seen # Absent
  /\ topology' = IF force THEN [topology EXCEPT ![path["watcher"]] = seen] ELSE topology
  /\ Goto("watcher", "idle")
  /\ path' = [path EXCEPT !["watcher"] = NoNode]
  /\ UNCHANGED <<zkVars, deferred, pools, poolVars, lockVars, todo, seenVars, callVars>>

(* Second half of updateNodeData(): no data removes the node, a change of  *)
(* its state is applied at once, any other is deferred.                    *)
updateNodeData ==
  /\ pc["watcher"] = "updateNodeData" /\ WriteLock
  /\ LET n == path["watcher"]
         count == deferred[n] + 1
     IN \/ /\ seen = Absent
           /\ deferred' = [deferred EXCEPT ![n] = 0]
           /\ writer' = "watcher"
           /\ todo' = [todo EXCEPT !["watcher"] = {n}]
           /\ Goto("watcher", "emptied")
           /\ UNCHANGED <<topology, path>>
        \/ /\ seen # Absent
           /\ LET skip == ~force /\ count < Threshold
              IN /\ deferred' = [deferred EXCEPT ![n] = IF skip THEN count + 1 ELSE 0]
                 /\ topology' = IF skip THEN topology ELSE [topology EXCEPT ![n] = seen]
           /\ Goto("watcher", "idle")
           /\ path' = [path EXCEPT !["watcher"] = NoNode]
           /\ UNCHANGED <<writer, todo>>
  /\ UNCHANGED <<zkVars, pools, poolVars, upgrader, readers, asleep, seenVars, callVars>>

clearSf1Nodes ==
  /\ pc["watcher"] = "clearSf1Nodes" /\ WriteLock
  /\ writer' = "watcher"
  /\ deferred' = [n \in Nodes |-> 0]
  /\ todo' = [todo EXCEPT !["watcher"] = pools]
  /\ Goto("watcher", "clearing")
  /\ UNCHANGED <<zkVars, topology, pools, poolVars, upgrader, readers, asleep, path, seenVars, callVars>>

(* loadTopology() and addSearchTopology() list the nodes that are          *)
(* registered and add them one by one.                                     *)
Loaded(t) == IF t = "timer" THEN "update" ELSE "idle"

loadTopology(t) ==
  /\ pc[t] = "loadTopology"
  /\ todo' = [todo EXCEPT ![t] = Registered]
  /\ Goto(t, IF Registered = {} THEN Loaded(t) ELSE "load")
  /\ UNCHANGED <<zkVars, topology, deferred, pools, poolVars, lockVars, path, seenVars, callVars>>

(* addSf1Node(), under the upgrade lock: a known node, or one that has no  *)
(* data (any more), is skipped.                                            *)
addSf1Node(t, n) ==
  /\ pc[t] = "load" /\ n \in todo[t] /\ UpgradeLock
  /\ todo' = [todo EXCEPT ![t] = @ \ {n}]
  /\ IF Present(n) \/ zk[n] = Absent
     THEN /\ Goto(t, IF todo[t] = {n} THEN Loaded(t) ELSE "load")
          /\ UNCHANGED <<upgrader, path, data>>
     ELSE /\ Goto(t, "addNode")
          /\ upgrader' = t
          /\ path' = [path EXCEPT ![t] = n]
          /\ data' = zk[n]
  /\ UNCHANGED <<zkVars, topology, deferred, pools, poolVars, writer, readers, asleep,
                 seen, force, callVars>>

(* The rest of addSf1Node(), once the lock is exclusive: the node is added *)
(* with the data read before.                                              *)
addNode(t) ==
  /\ pc[t] = "addNode" /\ Upgrade(t)
  /\ LET n == path[t]
     IN /\ topology' = [topology EXCEPT ![n] = data]
        /\ pools' = pools \cup {n}
        /\ size' = IF n \in pools THEN size ELSE [size EXCEPT ![n] = 0]
  /\ upgrader' = NoOne /\ data' = Absent
  /\ path' = [path EXCEPT ![t] = NoNode]
  /\ Goto(t, IF todo[t] = {} THEN Loaded(t) ELSE "load")
  /\ UNCHANGED <<zkVars, deferred, available, reserved, status, writer, readers, asleep,
                 todo, seen, force, callVars>>

-----------------------------------------------------------------------------
(***************************************************************************)
(* updateNodeDataOnTimer(): an empty topology is loaded again, then the    *)
(* deferred updates are applied.  A look at a topology that is not empty   *)
(* changes nothing and is not a step of its own.                           *)
(***************************************************************************)
MainNodes == {n \in Nodes \ Backup : Present(n)}
BackupNodes == {n \in Backup : Present(n)}

TimerScan ==
  /\ pc["timer"] = "idle" /\ pc["owner"] # "closed" /\ ReadLock
  /\ MainNodes = {}
  /\ Goto("timer", "loadTopology")
  /\ UNCHANGED <<zkVars, topology, deferred, pools, poolVars, lockVars, path, todo, seenVars, callVars>>

TimerUpdate ==
  /\ pc["timer"] \in {"idle", "update"} /\ pc["owner"] # "closed" /\ WriteLock
  /\ LET due == {n \in Nodes : deferred[n] > 0 /\ Present(n)}
     IN /\ topology' = [n \in Nodes |->
                          IF n \notin due THEN topology[n]
                          ELSE IF zk[n] = Absent THEN Empty ELSE zk[n]]
        /\ deferred' = [n \in Nodes |-> IF n \in due THEN 0 ELSE deferred[n]]
  /\ Goto("timer", "idle")
  /\ UNCHANGED <<zkVars, pools, poolVars, lockVars, path, todo, seenVars, callVars>>

-----------------------------------------------------------------------------
(***************************************************************************)
(* Sf1DistributedDriver::call()                                            *)
(***************************************************************************)
Calling(c) ==
  /\ pc[c] = "idle" /\ calls[c] < MaxCalls /\ pc["owner"] = "idle"
  /\ calls' = [calls EXCEPT ![c] = @ + 1]

(* resolve(): the nodes a request may be sent to.                          *)
Routes == IF MainNodes # {} THEN MainNodes ELSE BackupNodes

(* dispatchRequest(), getConnection(): one connection to one node.  If the *)
(* node has no pool (or there is no node) the call throws.                 *)
getConnection(c) ==
  /\ Calling(c) /\ ReadLock
  /\ \/ \E n \in Routes \cap pools, k \in Conns :
          /\ acquire(n, k)
          /\ held' = [held EXCEPT ![c] = {k}]
          /\ Goto(c, "sendRequest")
          /\ UNCHANGED path
     \/ \E n \in Routes \cap pools :
          /\ ConnectError(n)
          /\ path' = [path EXCEPT ![c] = n]
          /\ Goto(c, "isZNodeExists")
          /\ UNCHANGED <<poolVars, held>>
     \/ /\ Routes = {} \/ \E n \in Routes : n \notin pools \/ PoolError(n)
        /\ UNCHANGED <<poolVars, held, pc, path>>
  /\ UNCHANGED <<zkVars, topology, deferred, pools, lockVars, todo, seenVars, cur>>

(* A node that cannot be connected to and is not registered is removed.    *)
isZNodeExists(c) ==
  /\ pc[c] = "isZNodeExists"
  /\ IF zk[path[c]] # Absent
     THEN Goto(c, "idle") /\ path' = [path EXCEPT ![c] = NoNode]
     ELSE Goto(c, "removeSf1Node") /\ UNCHANGED path
  /\ UNCHANGED <<zkVars, topology, deferred, pools, poolVars, lockVars, todo, seenVars, callVars>>

(* broadcastRequest(), getConnections(): under the read lock a connection  *)
(* to each node is acquired, one after the other.                          *)
getConnections(c) ==
  /\ Calling(c) /\ ReadLock
  /\ IF Routes = {} THEN UNCHANGED <<pc, todo, readers>>
     ELSE /\ Goto(c, "addConnection")
          /\ todo' = [todo EXCEPT ![c] = Routes]
          /\ readers' = readers \cup {c}
  /\ UNCHANGED <<zkVars, topology, deferred, pools, poolVars, writer, upgrader, asleep, path, seenVars, held, cur>>

(* addConnection(): it dereferences pools.end() if the node has no pool;   *)
(* that thread is not followed any further ("undefined").  If acquire()    *)
(* throws, nobody releases the connections acquired before.                *)
addConnection(c) ==
  /\ pc[c] = "addConnection"
  /\ \E n \in todo[c] :
       \/ /\ \E k \in Conns : /\ n \in pools /\ acquire(n, k)
                             /\ held' = [held EXCEPT ![c] = @ \cup {k}]
          /\ todo' = [todo EXCEPT ![c] = @ \ {n}]
          /\ IF todo[c] = {n} THEN Goto(c, "sendRequest") /\ readers' = readers \ {c}
             ELSE UNCHANGED <<pc, readers>>
       \/ /\ n \in pools => PoolError(n) \/ ConnectError(n)
          /\ Goto(c, IF n \in pools THEN "idle" ELSE "undefined")
          /\ held' = [held EXCEPT ![c] = {}]
          /\ todo' = [todo EXCEPT ![c] = {}]
          /\ readers' = readers \ {c}
          /\ UNCHANGED poolVars
  /\ UNCHANGED <<zkVars, topology, deferred, pools, writer, upgrader, asleep, path, seenVars, cur, calls>>

(* RawClient::sendRequest(), on the next of the connections.  It requires  *)
(* an idle one, and that it is still busy once the request is written      *)
(* (check_deadline(), run by this thread or by any other that runs the     *)
(* io_service, may have made it invalid).  An error of the network, or a   *)
(* connection that is closed, leaves it invalid; any other exception       *)
(* leaves it busy.                                                         *)
sendRequest(c) ==
  /\ pc[c] = "sendRequest"
  /\ \E k \in held[c] :
       \/ /\ cur' = [cur EXCEPT ![c] = k]
          /\ held' = [held EXCEPT ![c] = @ \ {k}]
          /\ \/ /\ status[k] = "Idle"
                /\ status' = [status EXCEPT ![k] = "Busy"]
                /\ Goto(c, "getResponse") \/ ("exception" \in Faults /\ Goto(c, "failed"))
             \/ /\ status' = [status EXCEPT ![k] = "Invalid"]
                /\ Goto(c, "failed")
       \/ /\ status[k] # "Idle" \/ "deadline" \in Faults
          /\ Abort
          /\ UNCHANGED <<cur, held, status>>
  /\ UNCHANGED <<zkVars, topology, deferred, pools, available, reserved, size, lockVars,
                 path, todo, seenVars, calls>>

(* RawClient::getResponse(), which requires a busy connection, and the     *)
(* checks of sendAndReceive(): a response that arrived leaves the          *)
(* connection idle, even if it is rejected, an error of the network leaves *)
(* it invalid and any other exception (there is no room for the response,  *)
(* it is empty, reading it throws something else) leaves it busy.          *)
getResponse(c) ==
  /\ pc[c] = "getResponse"
  /\ \/ /\ status[cur[c]] = "Busy"
        /\ status' = [status EXCEPT ![cur[c]] = "Idle"]
        /\ Goto(c, "succeeded") \/ Goto(c, "failed")
     \/ /\ status' = [status EXCEPT ![cur[c]] = "Invalid"]
        /\ Goto(c, "failed")
     \/ /\ status[cur[c]] = "Busy" /\ "exception" \in Faults
        /\ UNCHANGED status
        /\ Goto(c, "failed")
     \/ /\ status[cur[c]] # "Busy" \/ "deadline" \in Faults
        /\ Abort
        /\ UNCHANGED status
  /\ UNCHANGED <<zkVars, topology, deferred, pools, available, reserved, size, lockVars,
                 path, todo, seenVars, callVars>>

(* Faulty variant: whether the pool is busy is looked up before the        *)
(* connection is back.                                                     *)
releaseConnectionUnnoticed(c) ==
  /\ pc[c] \in {"succeeded", "failed"} /\ WriteLock
  /\ release(cur[c])
  /\ asleep' = IF isBusy(cur[c][1]) THEN asleep ELSE {}
  /\ Goto(c, IF pc[c] = "succeeded" /\ held[c] # {} THEN "sendRequest" ELSE "idle")
  /\ held' = IF pc[c] = "succeeded" THEN held ELSE [held EXCEPT ![c] = {}]
  /\ cur' = [cur EXCEPT ![c] = NoConn]
  /\ UNCHANGED <<zkVars, topology, deferred, pools, writer, upgrader, readers, path, todo, seenVars, calls>>

(* ~Releaser(), releaseConnection(): the last connection of a pool wakes   *)
(* whoever waits to delete one.  After a failure the rest of a broadcast   *)
(* is given up, without releasing its connections.                         *)
releaseConnection(c) ==
  /\ pc[c] \in {"succeeded", "failed"} /\ WriteLock
  /\ IF cur[c] \in reserved
     THEN /\ release(cur[c])
          /\ asleep' = IF \E k \in reserved \ {cur[c]} : k[1] = cur[c][1] THEN asleep ELSE {}
          /\ Goto(c, IF pc[c] = "succeeded" /\ held[c] # {} THEN "sendRequest" ELSE "idle")
          /\ held' = IF pc[c] = "succeeded" THEN held ELSE [held EXCEPT ![c] = {}]
     ELSE Goto(c, "undefined") /\ UNCHANGED <<poolVars, asleep, held>>
  /\ cur' = [cur EXCEPT ![c] = NoConn]
  /\ UNCHANGED <<zkVars, topology, deferred, pools, writer, upgrader, readers, path, todo, seenVars, calls>>

-----------------------------------------------------------------------------
(***************************************************************************)
(* ~ZooKeeperRouter(), by an owner that waits for its calls to return.     *)
(***************************************************************************)
Close ==
  /\ pc["owner"] = "idle" /\ \A c \in Callers : pc[c] \in {"idle", "undefined"}
  /\ WriteLock
  /\ writer' = "owner"
  /\ todo' = [todo EXCEPT !["owner"] = pools]
  /\ Goto("owner", "closing")
  /\ UNCHANGED <<zkVars, topology, deferred, pools, poolVars, upgrader, readers, asleep, path, seenVars, callVars>>

(* Scheduler::removeJob() waits until the timer's callback has returned.   *)
removeJob ==
  /\ pc["owner"] = "removeJob" /\ pc["timer"] = "idle"
  /\ Goto("owner", "closed")
  /\ UNCHANGED <<zkVars, topology, deferred, pools, poolVars, lockVars, path, todo, seenVars, callVars>>

Closed == pc["owner"] \in {"closed", "aborted"} /\ UNCHANGED vars

-----------------------------------------------------------------------------
Environment ==
  \/ \E n \in Nodes : ZkCreate(n) \/ ZkDelete(n) \/ ZkSet(n)
  \/ ZkSession
  \/ \E c \in Callers : getConnection(c) \/ getConnections(c)
  \/ Close

RemoverStep(t) ==
  \/ removeSf1Node(t) \/ Relock(t) \/ Forget(t)
  \/ \E n \in Nodes : RemovePool(t, n)

LoaderStep(t) ==
  \/ loadTopology(t)
  \/ \E n \in Nodes : addSf1Node(t, n)
  \/ addNode(t)

CallerStep(c) ==
  \/ isZNodeExists(c) \/ addConnection(c)
  \/ sendRequest(c) \/ getResponse(c) \/ releaseConnection(c)
  \/ RemoverStep(c)

WatcherStep ==
  \/ TakeEvent \/ updateNodeData \/ clearSf1Nodes
  \/ LoaderStep("watcher") \/ RemoverStep("watcher")

TimerStep == TimerScan \/ TimerUpdate \/ LoaderStep("timer")

OwnerStep == RemoverStep("owner") \/ removeJob

Next ==
  \/ Environment
  \/ \E c \in Callers : CallerStep(c)
  \/ WatcherStep \/ TimerStep \/ OwnerStep
  \/ Closed

(***************************************************************************)
(* Threads that can take a step do; calls, changes in ZooKeeper and the    *)
(* destruction of the router need not happen.  Callers are done after      *)
(* MaxCalls calls, so no thread competes for the lock for ever.            *)
(***************************************************************************)
Fairness ==
  /\ \A c \in Callers : WF_vars(CallerStep(c))
  /\ WF_vars(WatcherStep) /\ WF_vars(TimerStep) /\ WF_vars(OwnerStep)

Spec == Init /\ [][Next]_vars /\ Fairness

-----------------------------------------------------------------------------
Labels ==
  {"idle", "removeSf1Node", "updateNodeData", "clearSf1Nodes", "loadTopology", "load",
   "addNode", "update", "isZNodeExists", "addConnection", "sendRequest", "getResponse",
   "succeeded", "failed", "undefined", "removeJob", "closed", "aborted"} \cup Removers

(***************************************************************************)
(* The types of the variables.  ConnectionPool::size stays between 0 and   *)
(* maxSize and the threads are where their functions can be.               *)
(***************************************************************************)
TypeOK ==
  /\ zk \in [Nodes -> Versions \cup {Absent}] /\ changes \in 0..MaxChanges
  /\ events \in Seq(({"deleted", "changed"} \X Nodes) \cup ({"children", "session"} \X {NoNode}))
  /\ topology \in [Nodes -> Known] /\ deferred \in [Nodes -> Nat]
  /\ pools \subseteq Nodes
  /\ available \subseteq Conns /\ reserved \subseteq Conns
  /\ size \in [Nodes -> 0..MaxSize]
  /\ status \in [Conns -> {"Idle", "Busy", "Invalid"}]
  /\ writer \in Threads \cup {NoOne} /\ upgrader \in {"watcher", "timer", NoOne}
  /\ readers \subseteq Callers /\ asleep \subseteq Threads
  /\ pc \in [Threads -> Labels]
  /\ path \in [Threads -> Nodes \cup {NoNode}]
  /\ todo \in [Threads -> SUBSET Nodes]
  /\ seen \in Versions \cup {Absent} /\ force \in BOOLEAN
  /\ data \in Versions \cup {Absent}
  /\ held \in [Callers -> SUBSET Conns]
  /\ cur \in [Callers -> Conns \cup {NoConn}]
  /\ calls \in [Callers -> 0..MaxCalls]

(* The connections a caller is to use or is using.                         *)
Using(c) == IF cur[c] = NoConn THEN held[c] ELSE held[c] \cup {cur[c]}

(***************************************************************************)
(* A connection a caller is going to use, or to release, is reserved in    *)
(* the pool of its node and that pool still exists, whatever removed or    *)
(* cleared nodes meanwhile; no two callers use the same connection and     *)
(* none is available at the same time.  This is what releaseConnection()   *)
(* relies on when it dereferences pools.find() and ConnectionPool::        *)
(* release() when it requires the connection to be found.                  *)
(***************************************************************************)
ConnectionsOwned ==
  /\ \A c \in Callers : Using(c) \subseteq reserved
  /\ \A c, d \in Callers : c # d => Using(c) \cap Using(d) = {}
  /\ \A c \in Callers : cur[c] \notin held[c]
  /\ available \cap reserved = {}
  /\ \A k \in available \cup reserved : k[1] \in pools

(***************************************************************************)
(* The CHECKs of RawClient never abort the process: sendRequest() is only  *)
(* called on an idle connection, getResponse() only on a busy one, and no  *)
(* connection that is destroyed is busy.  So it is as long as RawClient    *)
(* meets nothing but errors of the network; an exception of another kind   *)
(* leaves a busy connection that release() takes for a valid one.          *)
(***************************************************************************)
AssertionsHold == \A t \in Threads : pc[t] # "aborted"

(***************************************************************************)
(* ConnectionPool::size counts the connections of the pool exactly, so     *)
(* that failures neither leak slots nor let the pool grow past maxSize.    *)
(***************************************************************************)
SizeExact ==
  \A n \in Nodes : size[n] = Cardinality({k \in available \cup reserved : k[1] = n})

(***************************************************************************)
(* A node that is removed leaves the topology together with its pool,      *)
(* however often removeNodeFromPools() had to wait and whoever else removed*)
(* or added the node meanwhile; otherwise addSf1Node(), which looks at the *)
(* topology only, would find an old pool in the way of the new one.  (Only *)
(* clearSf1Nodes(), which empties the topology after it has waited, can    *)
(* leave the pool of a node that was added while it waited.)               *)
(***************************************************************************)
NodeLeavesWithPool ==
  [][\A n \in Nodes : Present(n) /\ ~Present(n)' =>
       n \notin pools' \/ pc["watcher"] = "clearing"]_vars

(* A reserved connection that no caller will release.                      *)
Leaked(n) == \E k \in reserved : k[1] = n /\ \A c \in Callers : k \notin Using(c)

(***************************************************************************)
(* Whoever removes nodes or destroys the router gets through, unless a     *)
(* broadcast has leaked a connection: the wakeup of removeNodeFromPools()  *)
(* is never lost and no two threads wait for each other.                   *)
(***************************************************************************)
RemovalReturns ==
  (\E t \in Threads : pc[t] \in Removers) ~>
     \/ \A t \in Threads : pc[t] \notin Removers
     \/ \E n \in Nodes : Leaked(n)

(* The router's data of a known and registered node is not the registered  *)
(* data.                                                                   *)
Behind(n) == Present(n) /\ zk[n] # Absent /\ topology[n] # zk[n]

(* A change of the data of the node is still to be handled: its event, the *)
(* update that the event thread is at, or a deferred update.               *)
Notified(n) ==
  \/ \E i \in 1..Len(events) : events[i] = <<"changed", n>>
  \/ pc["watcher"] = "updateNodeData" /\ path["watcher"] = n
  \/ deferred[n] > 0

(***************************************************************************)
(* Data changed in ZooKeeper reaches the topology, whether updateNodeData()*)
(* applies the change at once or defers it, and whatever data the timer    *)
(* has written in between - unless a leaked connection keeps the watcher   *)
(* waiting or the router is destroyed.  A change handled before the node   *)
(* is in the topology is not promised: addSf1Node() may have read older    *)
(* data and not have added the node yet, and then nothing corrects it.     *)
(***************************************************************************)
DataCatchesUp ==
  \A n \in Nodes :
    Behind(n) /\ Notified(n) ~>
       \/ ~Behind(n)
       \/ pc["owner"] \in {"closed", "aborted"}
       \/ \E m \in Nodes : Leaked(m)
=============================================================================
