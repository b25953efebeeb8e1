-------------------------------- MODULE MeshSync --------------------------------
(***************************************************************************)
(* One mesh, replicated on the daemons that joined it.  Each daemon's store *)
(* is a two-phase map; Sync (pkg/sync/syncer.go) prunes it, decides whether *)
(* there is anything to gossip and runs the five-round synchronisation of   *)
(* two_phase_map_syncer.go with the peers it picks, over a gRPC stream that *)
(* may fail or time out at any point.  The handlers that write to the store *)
(* (node updates, heartbeats, leaving) run concurrently with the sessions;  *)
(* a handler tests, gets and puts under separate locks, a step for each.    *)
(*                                                                         *)
(* A session is the client's record sync[c]; the server's half of it lives  *)
(* in the same record.  The stream is lock-step: the client generates and   *)
(* sends, the server receives, generates and replies, the client receives.  *)
(***************************************************************************)
EXTENDS TwoPhaseMap

CONSTANTS
    Value,           \* the fields of a MeshNode that Get copies
    Table,           \* its Services and Routes, maps that Get shares
    Handler,         \* the goroutines that serve requests and heartbeats
    FreshData,       \* the MeshNode the factory builds for a node that joins
    PeerRole,        \* nodes whose configured role is PEER_ROLE
    Rank,            \* the order of the public keys as strings
    Branch,          \* nodes contacted by one Sync
    InfectionCount,  \* Syncs that follow a change
    SyncInterval,    \* the deadline of a session
    PullInterval,    \* quiet time after which a node pulls, 0 for never
    Founders,        \* bound: nodes that may create the mesh
    Leavers,         \* bound: nodes that may leave it
    Rejoiners,       \* bound: those of them that may join it again
    MaxTime,         \* bound on now
    MaxSyncs,        \* bound on the Syncs that contact somebody
    Requests,        \* bound: the kinds of requests that arrive
    MaxWrites,       \* bound on node updates and heartbeats
    MaxFailures,     \* bound on crashes and broken streams
    MaxSessions      \* bound on the sessions open at once

Kind == {"value", "table", "beat"}

ASSUME ConfigAssumption ==
    /\ Data = [value : Value, table : Table]
    /\ FreshData \in Data
    /\ Requests \subseteq Kind
    /\ PeerRole \subseteq Node
    /\ Founders \subseteq Node /\ Leavers \subseteq Node
    /\ Rejoiners \subseteq Leavers
    /\ Rank \in [Node -> Nat]
    /\ \A a, b \in Node : Rank[a] = Rank[b] => a = b
    /\ Branch \in Nat \ {0}
    /\ InfectionCount \in Nat \ {0}
    /\ SyncInterval \in Nat \ {0}
    /\ PullInterval \in Nat
ASSUME BoundAssumption ==
    /\ MaxTime \in Nat /\ MaxWrites \in Nat /\ MaxSyncs \in Nat
    /\ MaxFailures \in Nat /\ MaxSessions \in Nat
ASSUME NodesAreNotNoNode == "nobody" \notin Node

VARIABLES
    store,      \* each daemon's two-phase map for the mesh
    status,     \* where each daemon is in its life in the mesh
    sync,       \* the Sync each daemon is running, with its open session
    upd,        \* the node update or heartbeat each handler is busy with
    raced,      \* history: nodes that left while a handler was under way
    infection,  \* SyncerImpl.infectionCount
    lastClock,  \* TwoPhaseStoreMeshManager.LastClock
    lastSync,   \* SyncerImpl.lastSync
    now,        \* wall clock
    syncs,      \* SyncerImpl.syncCount over all daemons (bounded by MaxSyncs)
    writes,     \* node updates so far (bounded by MaxWrites)
    failures    \* failures so far (bounded by MaxFailures)

vars == <<store, status, sync, upd, raced, infection, lastClock, lastSync, now,
          syncs, writes, failures>>
handlerVars == <<upd, raced>>
syncerVars == <<infection, lastClock, lastSync>>
boundVars == <<syncs, writes, failures>>
-----------------------------------------------------------------------------
(* Messages of the synchronisation, as what their gob encoding carries *)

NoNode == "nobody"

NoMsg == [kind |-> "nil"]
HashMsg(h) == [kind |-> "hash", hash |-> h]
StateMsg(st) == [kind |-> "state", state |-> st]
SnapshotMsg(sn) == [kind |-> "snapshot", snapshot |-> sn]

IsMapState(st) ==
    /\ st = [vectors |-> st.vectors, add |-> st.add, remove |-> st.remove]
    /\ IsMapOf(st.vectors, Node, Nat)
    /\ IsMapOf(st.add, Node, Nat)
    /\ IsMapOf(st.remove, Node, Nat)

IsSnapshot(sn) ==
    /\ sn = [add |-> sn.add, remove |-> sn.remove]
    /\ IsMapOf(sn.add, Node, Bucket)
    /\ IsMapOf(sn.remove, Node, Bucket)

IsMsg(m) ==
    \/ m = NoMsg
    \/ m.kind = "hash" /\ m = HashMsg(m.hash) /\ m.hash \in Nat
    \/ m.kind = "state" /\ m = StateMsg(m.state) /\ IsMapState(m.state)
    \/ m.kind = "snapshot" /\ m = SnapshotMsg(m.snapshot) /\ IsSnapshot(m.snapshot)

EmptyState == [vectors |-> EmptyMap, add |-> EmptyMap, remove |-> EmptyMap]
EmptySnapshot == [add |-> EmptyMap, remove |-> EmptyMap]

\* Decoding a message of another type fails, and the code goes on with the
\* zero value.
DecodeHash(m) == IF m.kind = "hash" THEN m.hash ELSE 0
DecodeState(m) == IF m.kind = "state" THEN m.state ELSE EmptyState
DecodeSnapshot(m) == IF m.kind = "snapshot" THEN m.snapshot ELSE EmptySnapshot

\* TwoPhaseMap.GenerateMessage, Difference, Snapshot and SnapShotFromState
GenerateState(s) == [vectors |-> GetClock(s), add |-> GMapClock(s.add),
                     remove |-> GMapClock(s.remove)]

\* Mutant: keys that are known already are never asked for again.
UnknownOnly(mine, theirs, highestStale) ==
    Restrict(theirs, {k \in DOMAIN theirs :
        theirs[k] > highestStale /\ k \notin DOMAIN mine})

Newer(mine, theirs, highestStale) ==
    Restrict(theirs, {k \in DOMAIN theirs :
        theirs[k] > highestStale /\ (k \in DOMAIN mine => mine[k] < theirs[k])})

Difference(mine, theirs, highestStale) ==
    [vectors |-> EmptyMap,
     add |-> Newer(mine.add, theirs.add, highestStale),
     remove |-> Newer(mine.remove, theirs.remove, highestStale)]

TakeSnapshot(s) == [add |-> s.add, remove |-> s.remove]

SnapShotFromState(s, st) == [add |-> SaveWithKeys(s.add, DOMAIN st.add),
                             remove |-> SaveWithKeys(s.remove, DOMAIN st.remove)]
-----------------------------------------------------------------------------
(* TwoPhaseSyncer: one endpoint of a session *)

SyncState == {"HASH", "PREPARE", "PRESENT", "EXCHANGE", "MERGE"}
IsEndpoint(e) ==
    /\ e \in [state : SyncState, mapState : {e.mapState}, peerMsg : {e.peerMsg}]
    /\ IsMapState(e.mapState)
    /\ IsMsg(e.peerMsg)

NewTwoPhaseSyncer == [state |-> "HASH", mapState |-> EmptyState, peerMsg |-> NoMsg]

\* What a state function returns, and what it leaves in the store.
Generated(e, s, m, more) == [end |-> e, store |-> s, msg |-> m, more |-> more]

hash(e, s) ==
    Generated([e EXCEPT !.state = "PREPARE"], s, HashMsg(ClockHash(s)), TRUE)

prepare(e, s, n) ==
    IF DecodeHash(e.peerMsg) = ClockHash(s)
    THEN Generated(e, s, NoMsg, FALSE)
    ELSE LET s1 == IncrementClock(s, n, now)
             st == GenerateState(s1)
         IN  Generated([e EXCEPT !.state = "PRESENT", !.mapState = st],
                       s1, StateMsg(st), TRUE)

present(e, s) ==
    LET theirs == DecodeState(e.peerMsg)
    IN  Generated([e EXCEPT !.state = "EXCHANGE"],
                  ClockMerge(s, theirs.vectors, now),
                  StateMsg(Difference(e.mapState, theirs, s.highestStale)), TRUE)

exchange(e, s) ==
    Generated([e EXCEPT !.state = "MERGE"], s,
              SnapshotMsg(SnapShotFromState(s, DecodeState(e.peerMsg))), TRUE)

merge(e, s) ==
    Generated(e, Merge(s, DecodeSnapshot(e.peerMsg), now), NoMsg, FALSE)

\* GenerateMessage of node n's endpoint e.
GenerateMessage(e, n) ==
    CASE e.state = "HASH" -> hash(e, store[n])
      [] e.state = "PREPARE" -> prepare(e, store[n], n)
      [] e.state = "PRESENT" -> present(e, store[n])
      [] e.state = "EXCHANGE" -> exchange(e, store[n])
      [] e.state = "MERGE" -> merge(e, store[n])

\* The three later state functions panic when no message was received.
Panics(e) == e.state \in {"PRESENT", "EXCHANGE", "MERGE"} /\ e.peerMsg.kind = "nil"

\* Mutant: the message is not kept.
RecvNothing(e, m) == e

\* RecvMessage, which is called for a non-empty message only.
RecvMessage(e, m) == IF m.kind = "nil" THEN e ELSE [e EXCEPT !.peerMsg = m]
-----------------------------------------------------------------------------
(* State *)

Status == {"out", "in", "leaving", "left", "crashed"}

\* pc: where the goroutine that runs Sync is.
\*   loop    between two SyncMesh calls      client  about to generate and send
\*   server  waiting, request in flight      reply   waiting, reply in flight
SyncPC == {"idle", "loop", "client", "server", "reply"}

\* targets   gossipNodes still to contact     pull    the caller is Pull
\* server    the peer of the open session     start   when it was opened
\* cli, srv  the two TwoPhaseSyncers          msg     the message in flight
\* more      the client's moreMessages        open    the server's handler runs
IsSyncRecord(r) ==
    /\ r \in [pc : SyncPC, targets : SUBSET Node, succeeded : BOOLEAN,
              pull : BOOLEAN, server : Node \cup {NoNode}, start : Nat,
              cli : {r.cli}, srv : {r.srv}, msg : {r.msg},
              more : BOOLEAN, open : BOOLEAN]
    /\ IsEndpoint(r.cli)
    /\ IsEndpoint(r.srv)
    /\ IsMsg(r.msg)
    /\ r.pc \in {"client", "server", "reply"} => r.server \in Node

Idle == [pc |-> "idle", targets |-> {}, succeeded |-> FALSE, pull |-> FALSE,
         server |-> NoNode, start |-> 0, cli |-> NewTwoPhaseSyncer,
         srv |-> NewTwoPhaseSyncer, msg |-> NoMsg, more |-> FALSE,
         open |-> FALSE]

\* pc: where a handler is.
\*   peers   past the check that the node is in its own map, about to GetPeers
\*   leader  about to read the timestamp      get  about to get the entry
\*   change  about to change a shared table   put  about to put the entry
UpdatePC == {"idle", "peers", "leader", "get", "change", "put"}

\* node  whose handler it is                  kind  what it is asked to change
\* peers the two first of the sorted peers    copy  what Get returned
UpdateRecord == [pc : UpdatePC, node : Node \cup {NoNode}, kind : Kind,
                 peers : SUBSET Node, copy : Data \cup {Tombstone, NoData}]

IdleHandler == [pc |-> "idle", node |-> NoNode, kind |-> "value", peers |-> {},
                copy |-> NoData]

Init ==
    /\ store = [n \in Node |-> NewTwoPhaseMap]
    /\ status = [n \in Node |-> "out"]
    /\ sync = [n \in Node |-> Idle]
    /\ upd = [h \in Handler |-> IdleHandler]
    /\ raced = {}
    /\ infection = [n \in Node |-> 0]
    /\ lastClock = [n \in Node |-> 0]
    /\ lastSync = [n \in Node |-> 0]
    /\ now = 0
    /\ syncs = 0
    /\ writes = 0
    /\ failures = 0

InMesh(n) == status[n] \in {"in", "leaving"}
\* A handler of node n is under way.
Handled(n) == \E h \in Handler : upd[h].pc # "idle" /\ upd[h].node = n
InSession(c) == sync[c].pc \in {"client", "server", "reply"}
OpenSessions == {c \in Node : InSession(c)}

\* Node k is a member with a key, a role and an endpoint: an entry that was put
\* back after Get had found nothing has none of them.
HasData(s, k) == Contains(s, k) /\ s.add[k].Contents # NoData

\* GetPeers: members with the peer role that are not marked unreachable.
GetPeers(s) ==
    {k \in Members(s) : k \in PeerRole /\ HasData(s, k) /\ ~IsMarked(s, k)}

\* The i lowest nodes of a set, in the order of their keys.
Lowest(S, i) == {a \in S : Cardinality({b \in S : Rank[b] < Rank[a]}) < i}

HasChanges(n, s) == MapHash(s) # lastClock[n]
-----------------------------------------------------------------------------
(* Life in the mesh *)

\* CreateMesh of the first node, which then adds itself.
CreateMesh(n) ==
    /\ n \in Founders
    /\ \A m \in Node : status[m] = "out"
    /\ status' = [status EXCEPT ![n] = "in"]
    /\ store' = [store EXCEPT ![n] = Put(NewTwoPhaseMap, n, n, FreshData, now)]
    /\ UNCHANGED <<sync, handlerVars, syncerVars, now, boundVars>>

\* AddMesh and AddSelf: load p's snapshot into a new store, then add oneself.
Loaded(n, p) ==
    Put(Merge(NewTwoPhaseMap, TakeSnapshot(store[p]), now), n, n, FreshData, now)

\* JoinMesh through p.  A daemon that is given a blank entry dies in AddSelf,
\* which dereferences the address of every member, and never joins.
JoinMesh(n, p) ==
    /\ status[n] = "out"
    /\ InMesh(p)
    /\ \A k \in Members(store[p]) : HasData(store[p], k)
    /\ status' = [status EXCEPT ![n] = "in"]
    /\ store' = [store EXCEPT ![n] = Loaded(n, p)]
    /\ UNCHANGED <<sync, handlerVars, syncerVars, now, boundVars>>

\* JoinMesh of a daemon that left the mesh and still has the same key: the
\* store is new, the syncer is not.  Sessions and handlers of the old store are
\* over.
RejoinMesh(n, p) ==
    /\ n \in Rejoiners
    /\ status[n] = "left"
    /\ \A c \in OpenSessions : sync[c].server # n
    /\ ~Handled(n)
    /\ InMesh(p)
    /\ \A k \in Members(store[p]) : HasData(store[p], k)
    /\ status' = [status EXCEPT ![n] = "in"]
    /\ store' = [store EXCEPT ![n] = Loaded(n, p)]
    /\ lastClock' = [lastClock EXCEPT ![n] = 0]
    /\ UNCHANGED <<sync, handlerVars, infection, lastSync, now, boundVars>>

\* LeaveMesh up to its call of OnDelete, which runs one more Sync (EndSync
\* then deletes the mesh).
LeaveMesh(n) ==
    /\ n \in Leavers
    /\ status[n] = "in"
    /\ sync[n].pc = "idle"
    /\ status' = [status EXCEPT ![n] = "leaving"]
    /\ store' = [store EXCEPT ![n] =
            IF Contains(@, n) THEN Remove(@, n, n, now) ELSE @]
    /\ raced' = raced \cup {k \in {n} : Handled(k)}
    /\ UNCHANGED <<sync, upd, syncerVars, now, boundVars>>

\* The daemon dies, of Go's fatal error for concurrent accesses to a shared map
\* too, or of a panic elsewhere.  Its key is not kept: it never comes back as
\* the same node.
Crash(n) ==
    /\ InMesh(n)
    /\ failures < MaxFailures
    /\ failures' = failures + 1
    /\ status' = [status EXCEPT ![n] = "crashed"]
    /\ sync' = [sync EXCEPT ![n] = Idle]
    /\ UNCHANGED <<store, handlerVars, syncerVars, now, syncs, writes>>

-----------------------------------------------------------------------------
(* The handlers of datastore.go that change a node's own entry.  The store  *)
(* is locked for the length of one call of it, not for that of a handler.   *)

\* Mutant: the check that the node is in its own map is missing.
BeginUnchecked(h, n, kind) ==
    /\ upd[h].pc = "idle"
    /\ kind \in Requests
    /\ InMesh(n)
    /\ writes < MaxWrites
    /\ writes' = writes + 1
    /\ upd' = [upd EXCEPT ![h] =
            [@ EXCEPT !.pc = IF kind = "beat" THEN "peers" ELSE "get",
                      !.node = n, !.kind = kind]]
    /\ UNCHANGED <<store, status, sync, raced, syncerVars, now, syncs, failures>>

\* The check all of them begin with: SetAlias and SetDescription ("value"),
\* AddService, RemoveService, AddRoutes and RemoveRoutes ("table") and
\* UpdateTimeStamp ("beat").
BeginUpdate(h, n, kind) ==
    /\ upd[h].pc = "idle"
    /\ kind \in Requests
    /\ InMesh(n)
    /\ writes < MaxWrites
    /\ Contains(store[n], n)
    /\ writes' = writes + 1
    /\ upd' = [upd EXCEPT ![h] =
            [@ EXCEPT !.pc = IF kind = "beat" THEN "peers" ELSE "get",
                      !.node = n, !.kind = kind]]
    /\ UNCHANGED <<store, status, sync, raced, syncerVars, now, syncs, failures>>

\* The handler is at pc.  It goes on when its node leaves, with the store that
\* it has, and dies with its daemon.
HandlerAt(h, pc) == upd[h].pc = pc /\ status[upd[h].node] # "crashed"

\* UpdateTimeStamp: the candidates for the leader.
ReadPeers(h) ==
    /\ HandlerAt(h, "peers")
    /\ LET peers == Lowest(GetPeers(store[upd[h].node]), 2)
       IN  upd' = [upd EXCEPT ![h] =
                IF peers = {} THEN IdleHandler
                              ELSE [@ EXCEPT !.pc = "leader", !.peers = peers]]
    /\ UNCHANGED <<store, status, sync, raced, syncerVars, now, boundVars>>

\* UpdateTimeStamp: when this node's own clock has been silent for too long the
\* leader is marked and the next one is it.  Only the leader goes on.  The
\* timestamp is read from this node's bucket whichever peer is asked for.
MarkLeader(h) ==
    LET n == upd[h].node
        s == store[n]
        late == now - s.vectors[n].lastUpdate > StaleTime
    IN  /\ HandlerAt(h, "leader")
        /\ n \in DOMAIN s.vectors
        /\ \E leader \in Lowest(upd[h].peers, 1) :
            LET toUpdate == IF late THEN upd[h].peers \ {leader} ELSE {leader}
            IN  /\ store' = [store EXCEPT ![n] = IF late THEN Mark(@, leader) ELSE @]
                /\ upd' = [upd EXCEPT ![h] =
                        IF n \in toUpdate THEN [@ EXCEPT !.pc = "get"]
                                          ELSE IdleHandler]
        /\ UNCHANGED <<status, sync, raced, syncerVars, now, boundVars>>

\* Get: nothing, if the node has been removed since the check.
GetEntry(h) ==
    /\ HandlerAt(h, "get")
    /\ upd' = [upd EXCEPT ![h] =
            [@ EXCEPT !.pc = IF upd[h].kind = "table" THEN "change" ELSE "put",
                      !.copy = Get(store[upd[h].node], upd[h].node)]]
    /\ UNCHANGED <<store, status, sync, raced, syncerVars, now, boundVars>>

WithTable(d, t) == IF d \in Data THEN [d EXCEPT !.table = t] ELSE d

\* The entry of k with table t, its version as it was.
ChangedInPlace(s, k, t) ==
    IF k \in DOMAIN s.add
    THEN [s EXCEPT !.add = [s.add EXCEPT ![k] =
            [s.add[k] EXCEPT !.Contents = WithTable(s.add[k].Contents, t)]]]
    ELSE s

\* Mutant: the handler takes the entry it changed for unchanged.
ChangeTableOnly(h, t) ==
    LET n == upd[h].node
    IN  /\ HandlerAt(h, "change")
        /\ upd[h].copy \in Data
        /\ store' = [store EXCEPT ![n] = ChangedInPlace(@, n, t)]
        /\ upd' = [upd EXCEPT ![h] = IdleHandler]
        /\ UNCHANGED <<status, sync, raced, syncerVars, now, boundVars>>

\* AddService, RemoveService, AddRoutes and RemoveRoutes: node.Services and
\* node.Routes are the maps of the stored entry, and of every other copy of it.
\* Several routes are several changes.
ChangeTable(h, t) ==
    LET n == upd[h].node
    IN  /\ HandlerAt(h, "change") \/ HandlerAt(h, "put")
        /\ upd[h].kind = "table"
        /\ upd[h].copy \in Data
        /\ store' = [store EXCEPT ![n] = ChangedInPlace(@, n, t)]
        /\ upd' = [g \in Handler |->
                [upd[g] EXCEPT
                    !.pc = IF g = h THEN "put" ELSE @,
                    !.copy = IF upd[g].node = n THEN WithTable(@, t) ELSE @]]
        /\ UNCHANGED <<status, sync, raced, syncerVars, now, boundVars>>

\* No such service, or no route that is new or shorter.
NothingToChange(h) ==
    /\ HandlerAt(h, "change")
    /\ upd' = [upd EXCEPT ![h] = IdleHandler]
    /\ UNCHANGED <<store, status, sync, raced, syncerVars, now, boundVars>>

\* The maps of a blank copy are nil: RemoveRoutes deletes nothing from one ...
DeleteFromNil(h) ==
    /\ HandlerAt(h, "change")
    /\ upd[h].copy = NoData
    /\ upd' = [upd EXCEPT ![h].pc = "put"]
    /\ UNCHANGED <<store, status, sync, raced, syncerVars, now, boundVars>>

\* ... and AddService and AddRoutes panic.
AssignToNil(h) ==
    /\ HandlerAt(h, "change")
    /\ upd[h].copy = NoData
    /\ status' = [status EXCEPT ![upd[h].node] = "crashed"]
    /\ sync' = [sync EXCEPT ![upd[h].node] = Idle]
    /\ UNCHANGED <<store, handlerVars, syncerVars, now, boundVars>>

\* What a handler puts: a blank copy stays one, whatever field of it is set.
Updated(u) ==
    IF u.copy \in Data /\ u.kind # "table"
    THEN {[u.copy EXCEPT !.value = v] : v \in Value}
    ELSE {u.copy}

PutEntry(h) ==
    LET n == upd[h].node
    IN  /\ HandlerAt(h, "put")
        /\ \E d \in Updated(upd[h]) :
            store' = [store EXCEPT ![n] = Put(@, n, n, d, now)]
        /\ upd' = [upd EXCEPT ![h] = IdleHandler]
        /\ UNCHANGED <<status, sync, raced, syncerVars, now, boundVars>>

UpdateStep(h) ==
    \/ ReadPeers(h) \/ MarkLeader(h) \/ GetEntry(h)
    \/ \E t \in Table : ChangeTable(h, t)
    \/ NothingToChange(h) \/ DeleteFromNil(h) \/ AssignToNil(h)
    \/ PutEntry(h)
-----------------------------------------------------------------------------
(* SyncerImpl.Sync: every Sync prunes the store first *)

\* The early return: self was looked up before the store was pruned.
Quiet(c, pruned) ==
    /\ HasData(store[c], c)
    /\ c \in PeerRole
    /\ ~HasChanges(c, pruned)
    /\ infection[c] = 0

PullDue(c) == PullInterval # 0 /\ now - lastSync[c] > PullInterval

\* Nothing to gossip and no pull due, or nobody to pull from.
SyncQuietly(c) ==
    /\ InMesh(c)
    /\ sync[c].pc = "idle"
    /\ LET pruned == Prune(store[c])
       IN  /\ Quiet(c, pruned)
           /\ PullDue(c) => GetPeers(pruned) = {}
           /\ store' = [store EXCEPT ![c] = pruned]
    /\ UNCHANGED <<status, sync, handlerVars, syncerVars, now, boundVars>>

\* Pull from one neighbour; the list it is picked from includes oneself.
Pull(c, p) ==
    /\ InMesh(c)
    /\ syncs < MaxSyncs
    /\ syncs' = syncs + 1
    /\ sync[c].pc = "idle"
    /\ PullDue(c)
    /\ LET pruned == Prune(store[c])
       IN  /\ Quiet(c, pruned)
           /\ p \in GetPeers(pruned)
           /\ store' = [store EXCEPT ![c] = pruned]
    /\ sync' = [sync EXCEPT ![c] =
            [Idle EXCEPT !.pc = "loop", !.pull = TRUE, !.targets = {p}]]
    /\ UNCHANGED <<status, handlerVars, syncerVars, now, writes, failures>>

\* gossipNodes: a client takes its two first neighbours, everybody else a
\* random choice of Branch.  The mesh is one cluster (see the README).
GossipNodes(c, peers) ==
    IF HasData(store[c], c) /\ c \notin PeerRole /\ Cardinality(peers) > 1
    THEN {Lowest(peers, 2)}
    ELSE kSubset(Min({Branch, Cardinality(peers)}), peers)

StartSync(c) ==
    /\ InMesh(c)
    /\ syncs < MaxSyncs
    /\ syncs' = syncs + 1
    /\ sync[c].pc = "idle"
    /\ LET pruned == Prune(store[c])
       IN  /\ ~Quiet(c, pruned)
           /\ store' = [store EXCEPT ![c] = pruned]
           /\ \E ts \in GossipNodes(c, GetPeers(pruned) \ {c}) :
                sync' = [sync EXCEPT ![c] =
                            [Idle EXCEPT !.pc = "loop", !.targets = ts]]
    /\ UNCHANGED <<status, handlerVars, syncerVars, now, writes, failures>>

\* The end of Sync.  With nobody left to contact the infection counter runs
\* down, or is kept up when no session succeeded, and the state of the store
\* is remembered.  For OnDelete's Sync the mesh is deleted next.
EndSync(c) ==
    /\ sync[c].pc = "loop"
    /\ ~sync[c].pull
    /\ sync[c].targets = {}
    /\ infection' = [infection EXCEPT ![c] =
            ((InfectionCount + @ - 1) % InfectionCount)
            + (IF sync[c].succeeded THEN 0 ELSE 1)]
    /\ lastClock' = [lastClock EXCEPT ![c] = MapHash(store[c])]
    /\ lastSync' = [lastSync EXCEPT ![c] = now]
    /\ sync' = [sync EXCEPT ![c] = Idle]
    /\ status' = [status EXCEPT ![c] = IF @ = "leaving" THEN "left" ELSE @]
    /\ UNCHANGED <<store, handlerVars, now, boundVars>>

EndPull(c) ==
    /\ sync[c].pc = "loop"
    /\ sync[c].pull
    /\ sync[c].targets = {}
    /\ sync' = [sync EXCEPT ![c] = Idle]
    /\ lastSync' = [lastSync EXCEPT ![c] = IF sync[c].succeeded THEN now ELSE @]
    /\ UNCHANGED <<store, status, handlerVars, infection, lastClock, now,
                   boundVars>>
-----------------------------------------------------------------------------
(* SyncRequesterImpl.SyncMesh and SyncServiceImpl.SyncMesh: one session *)

\* The target has left the map since it was chosen, or cannot be dialled: a blank
\* entry has no endpoint.
SkipTarget(c, s) ==
    /\ sync[c].pc = "loop"
    /\ s \in sync[c].targets
    /\ \/ ~HasData(store[c], s) /\ UNCHANGED failures
       \/ failures < MaxFailures /\ failures' = failures + 1
    /\ sync' = [sync EXCEPT ![c].targets = @ \ {s}]
    /\ UNCHANGED <<store, status, handlerVars, syncerVars, now, syncs, writes>>

OpenStream(c, s) ==
    /\ sync[c].pc = "loop"
    /\ s \in sync[c].targets
    /\ HasData(store[c], s)
    /\ Cardinality(OpenSessions) < MaxSessions
    /\ sync' = [sync EXCEPT ![c] =
            [sync[c] EXCEPT !.pc = "client", !.targets = @ \ {s}, !.server = s,
                            !.start = now, !.cli = NewTwoPhaseSyncer,
                            !.srv = NewTwoPhaseSyncer, !.msg = NoMsg,
                            !.more = TRUE, !.open = TRUE]]
    /\ UNCHANGED <<store, status, handlerVars, syncerVars, now, boundVars>>

\* The client generates its next message and sends it.
ClientSend(c) ==
    /\ sync[c].pc = "client"
    /\ ~Panics(sync[c].cli)
    /\ LET g == GenerateMessage(sync[c].cli, c)
       IN  /\ store' = [store EXCEPT ![c] = g.store]
           /\ sync' = [sync EXCEPT ![c] =
                [@ EXCEPT !.pc = "server", !.cli = g.end, !.msg = g.msg,
                          !.more = g.more]]
    /\ UNCHANGED <<status, handlerVars, syncerVars, now, boundVars>>

\* The server receives, generates and sends its answer, and only then keeps
\* the client's message.  A mesh that was deleted is missed by new streams.
ServerReply(c) ==
    LET s == sync[c].server
        e == sync[c].srv
        g == GenerateMessage(e, s)
    IN  /\ sync[c].pc = "server"
        /\ sync[c].open
        /\ status[s] # "crashed"
        /\ e.state = "HASH" => InMesh(s)
        /\ ~Panics(e)
        /\ store' = [store EXCEPT ![s] = g.store]
        /\ sync' = [sync EXCEPT ![c] =
                [@ EXCEPT !.pc = "reply", !.srv = RecvMessage(g.end, sync[c].msg),
                          !.msg = g.msg, !.open = g.more]]
        /\ UNCHANGED <<status, handlerVars, syncerVars, now, boundVars>>

\* Mutant: the goroutine's place is not reset.
SessionStays(c, ok) ==
    [sync[c] EXCEPT !.server = NoNode, !.cli = NewTwoPhaseSyncer,
                    !.srv = NewTwoPhaseSyncer, !.msg = NoMsg,
                    !.succeeded = @ \/ ok]

\* The session is over; ok is what Sync and Pull count as a success.
SessionOver(c, ok) ==
    [sync[c] EXCEPT !.pc = "loop", !.server = NoNode, !.start = 0,
                    !.cli = NewTwoPhaseSyncer, !.srv = NewTwoPhaseSyncer,
                    !.msg = NoMsg, !.more = FALSE, !.open = FALSE,
                    !.succeeded = @ \/ ok]

\* The client keeps the reply and goes on, or is done.
ClientReceive(c) ==
    /\ sync[c].pc = "reply"
    /\ sync' = [sync EXCEPT ![c] =
            IF sync[c].more
            THEN [sync[c] EXCEPT !.pc = "client", !.msg = NoMsg,
                                 !.cli = RecvMessage(@, sync[c].msg)]
            ELSE SessionOver(c, TRUE)]
    /\ UNCHANGED <<store, status, handlerVars, syncerVars, now, boundVars>>
-----------------------------------------------------------------------------
(* Errors of a session, as SyncErrorHandlerImpl.Handle sorts them *)

\* handleFailed: mark the peer.  A peer that is no longer in the map makes
\* GetNode fail, and the nil node is dereferenced: the daemon dies.
HandleFailed(c, ok) ==
    LET s == sync[c].server
        marked == Mark(store[c], s)
    IN  /\ store' = [store EXCEPT ![c] = marked]
        /\ IF Contains(marked, s)
           THEN /\ sync' = [sync EXCEPT ![c] = SessionOver(c, ok)]
                /\ UNCHANGED status
           ELSE /\ sync' = [sync EXCEPT ![c] = Idle]
                /\ status' = [status EXCEPT ![c] = "crashed"]
        /\ UNCHANGED <<handlerVars, syncerVars, now, syncs, writes>>

\* Mutant: the client does not notice that the stream has ended.
EOFIgnored(c) ==
    /\ sync[c].pc = "server"
    /\ ~sync[c].open
    /\ UNCHANGED vars

\* The server's handler has returned: Send or Recv gives io.EOF, which the
\* error handler reads as codes.Unknown and Sync as a success.
StreamEOF(c) ==
    /\ sync[c].pc = "server"
    /\ ~sync[c].open
    /\ HandleFailed(c, TRUE)
    /\ UNCHANGED failures

\* "mesh does not exist", codes.Unknown
ServerRefuses(c) ==
    /\ sync[c].pc = "server"
    /\ sync[c].open
    /\ sync[c].srv.state = "HASH"
    /\ status[sync[c].server] \in {"out", "left"}
    /\ HandleFailed(c, FALSE)
    /\ UNCHANGED failures

\* The stream cannot be opened, or Send or Recv fails: codes.Unavailable.
AtStream(c) ==
    \/ sync[c].pc \in {"server", "reply"}
    \/ sync[c].pc = "client" /\ sync[c].cli.state = "HASH"

StreamBroken(c) ==
    /\ AtStream(c)
    /\ \/ status[sync[c].server] = "crashed" /\ UNCHANGED failures
       \/ /\ status[sync[c].server] # "crashed"
          /\ failures < MaxFailures
          /\ failures' = failures + 1
    /\ HandleFailed(c, FALSE)

\* codes.DeadlineExceeded: only the connection is dropped.
StreamTimesOut(c) ==
    /\ AtStream(c)
    /\ now >= sync[c].start + SyncInterval
    /\ sync' = [sync EXCEPT ![c] = SessionOver(c, FALSE)]
    /\ UNCHANGED <<store, status, handlerVars, syncerVars, now, boundVars>>

\* Mutant: sessions outlast their deadline.
TickPastDeadlines ==
    /\ now < MaxTime
    /\ now' = now + 1
    /\ UNCHANGED <<store, status, sync, handlerVars, syncerVars, boundVars>>

\* Time passes, but not beyond the deadline of an open session.
Tick ==
    /\ now < MaxTime
    /\ \A c \in OpenSessions : now < sync[c].start + SyncInterval
    /\ now' = now + 1
    /\ UNCHANGED <<store, status, sync, handlerVars, syncerVars, boundVars>>
-----------------------------------------------------------------------------
SessionStep(c) ==
    \/ ClientSend(c) \/ ServerReply(c) \/ ClientReceive(c)
    \/ StreamEOF(c) \/ ServerRefuses(c) \/ StreamBroken(c) \/ StreamTimesOut(c)

\* A step of the goroutine that runs Sync, once it has begun.
SyncStep(c) ==
    \/ SessionStep(c)
    \/ \E s \in Node : SkipTarget(c, s) \/ OpenStream(c, s)
    \/ EndSync(c) \/ EndPull(c)

Next ==
    \/ \E n \in Node :
        \/ CreateMesh(n)
        \/ \E p \in Node : JoinMesh(n, p) \/ RejoinMesh(n, p)
        \/ LeaveMesh(n)
        \/ Crash(n)
        \/ \E h \in Handler, kind \in Kind : BeginUpdate(h, n, kind)
        \/ SyncQuietly(n)
        \/ \E p \in Node : Pull(n, p)
        \/ StartSync(n)
        \/ SyncStep(n)
    \/ \E h \in Handler : UpdateStep(h)
    \/ Tick

Spec == Init /\ [][Next]_vars

\* A daemon keeps running the Sync it has begun: its goroutine is scheduled,
\* the peer's handler is, and gRPC reports what happens to a stream.
FairSpec == Spec /\ \A c \in Node : WF_vars(SyncStep(c))
-----------------------------------------------------------------------------
(* Properties *)

StoresTyped ==
    store = [n \in Node |-> store[n]] /\ \A n \in Node : IsReplica(store[n])

SyncsTyped ==
    sync = [n \in Node |-> sync[n]] /\ \A n \in Node : IsSyncRecord(sync[n])

UpdatesTyped ==
    /\ upd \in [Handler -> UpdateRecord]
    /\ \A h \in Handler : upd[h].pc # "idle" => upd[h].node \in Node
    /\ raced \subseteq Node

\* Type correctness of every variable the daemons, their streams, their handlers
\* and their syncers keep.
TypeOK ==
    /\ StoresTyped
    /\ SyncsTyped
    /\ UpdatesTyped
    /\ status \in [Node -> Status]
    /\ infection \in [Node -> Nat]
    /\ lastClock \in [Node -> Nat]
    /\ lastSync \in [Node -> Nat]
    /\ now \in Nat
    /\ syncs \in Nat
    /\ writes \in Nat
    /\ failures \in Nat

OwnClock(k) == At(store[k].vectors, k, ZeroVector).clock

Own == [k \in Node |-> OwnClock(k)]

\* No value, no version of a bucket, beyond the clocks own.
Below(vs, own) == \A k \in DOMAIN vs : vs[k] <= own[k]
BucketsBelow(m, own) == \A k \in DOMAIN m : m[k].Vector <= own[k]

\* A replica holds no clock and no version beyond those of own.
Under(s, own) ==
    /\ \A k \in DOMAIN s.vectors : s.vectors[k].clock <= own[k]
    /\ BucketsBelow(s.add, own)
    /\ BucketsBelow(s.remove, own)

\* IncrementClock and Clock.Merge: no replica ever holds a clock or a version
\* of a node beyond that node's own clock.  It fails if a node's clock can be
\* garbage collected by the node itself, or if somebody writes for another.
NoReplicaAheadOfOwner == \A n \in Node : Under(store[n], Own)

\* Prune against sessions and deadlines: a node never collects its own clock,
\* which UpdateTimeStamp dereferences without a check.
OwnBucketKept == \A n \in Node : status[n] # "out" => n \in DOMAIN store[n].vectors

\* The same bound for the clocks and versions a message carries.
UnderMsg(m, own) ==
    /\ m.kind = "state" => /\ Below(m.state.vectors, own)
                           /\ Below(m.state.add, own)
                           /\ Below(m.state.remove, own)
    /\ m.kind = "snapshot" => /\ BucketsBelow(m.snapshot.add, own)
                              /\ BucketsBelow(m.snapshot.remove, own)

\* Node n has a bucket of its own, no bucket is newer than t, and none is ahead
\* of its own by more than the length of a session.
Fresh(s, n, t) ==
    /\ n \in DOMAIN s.vectors
    /\ \A k \in DOMAIN s.vectors :
        /\ s.vectors[k].lastUpdate <= t
        /\ s.vectors[k].lastUpdate <= s.vectors[n].lastUpdate + SyncInterval

LastUpdate(n) == At(store[n].vectors, n, ZeroVector).lastUpdate

StoresInOrder ==
    \A n \in Node :
        /\ Under(store[n], Own)
        /\ status[n] = "out" => store[n] = NewTwoPhaseMap
        /\ status[n] # "out" => Fresh(store[n], n, now)

\* The state functions that merge come after the one that advances the clock.
Late == {"PRESENT", "EXCHANGE", "MERGE"}

SessionInOrder(c) ==
    /\ sync[c].pc # "idle" => status[c] # "out"
    /\ UnderMsg(sync[c].msg, Own)
    /\ UnderMsg(sync[c].cli.peerMsg, Own)
    /\ UnderMsg(sync[c].srv.peerMsg, Own)
    /\ InSession(c) =>
        /\ sync[c].start <= now /\ now <= sync[c].start + SyncInterval
        /\ sync[c].cli.state \in Late => sync[c].start <= LastUpdate(c)
        /\ sync[c].srv.state # "HASH" => status[sync[c].server] # "out"
        /\ sync[c].srv.state \in Late
                => sync[c].start <= LastUpdate(sync[c].server)

\* Why no node collects its own clock: prepare advances it in every session, so
\* whatever a session merges is at most one deadline newer; and neither stores
\* nor messages in flight hold a clock its owner has not reached.
SyncInOrder == StoresInOrder /\ \A c \in Node : SessionInOrder(c)

\* A handler of k has changed the stored entry in place and not yet put it.
Changing(k) ==
    \E h \in Handler :
        upd[h].pc = "put" /\ upd[h].kind = "table" /\ upd[h].node = k

\* GMap.put keeps the bucket it has when the versions are equal.  That is right
\* because a replica that holds the version its owner holds has the owner's data,
\* unless a handler of the owner is between its change in place and its Put: the
\* new version then follows.
SameVersionSameData ==
    \A n, k \in Node :
        (/\ k \in DOMAIN store[n].add /\ k \in DOMAIN store[k].add
         /\ store[n].add[k].Vector = store[k].add[k].Vector
         /\ ~Changing(k))
            => store[n].add[k].Contents = store[k].add[k].Contents

\* Two endpoints in lock-step: neither side of a session ever runs a state
\* function without the message it panics about.
SyncersNeverPanic ==
    \A c \in Node : /\ sync[c].pc = "client" => ~Panics(sync[c].cli)
                    /\ sync[c].pc = "server" /\ sync[c].open
                            => ~Panics(sync[c].srv)

After == [HASH |-> "PREPARE", PREPARE |-> "PRESENT", PRESENT |-> "EXCHANGE",
          EXCHANGE |-> "MERGE"]

\* The two endpoints when the client is about to send, ...
ClientInStep(q) ==
    /\ q.more
    /\ IF q.open THEN q.srv.state = q.cli.state ELSE q.cli.state = "PRESENT"
    /\ q.cli.state # "HASH" => q.cli.peerMsg.kind # "nil" /\ q.srv.peerMsg.kind # "nil"

\* ... when its request is in flight, ...
ServerInStep(q) ==
    /\ q.open /\ q.more => /\ q.srv.state \in DOMAIN After
                           /\ q.cli.state = After[q.srv.state]
                           /\ q.msg.kind # "nil"
    /\ q.open /\ ~q.more => /\ q.srv.state = q.cli.state
                            /\ q.srv.state \in {"PREPARE", "MERGE"}
    /\ q.srv.state # "HASH" => q.cli.peerMsg.kind # "nil" /\ q.srv.peerMsg.kind # "nil"

\* ... and when the reply to a client that goes on is.
ReplyInStep(q) ==
    q.more => /\ q.cli.state # "HASH"
              /\ IF q.open THEN q.srv.state = q.cli.state ELSE q.cli.state = "PRESENT"
              /\ q.srv.peerMsg.kind # "nil"
              /\ q.msg.kind = "nil" => q.cli.peerMsg.kind # "nil"

\* Why no endpoint panics: the server is in the client's state or one behind it,
\* unless its handler has returned, and both have received what the other sent
\* in an earlier round.  Only members run Sync, and only they serve.
InStep(c) ==
    /\ sync[c].pc # "idle" => InMesh(c)
    /\ InSession(c) /\ sync[c].srv.state # "HASH" => status[sync[c].server] # "out"
    /\ sync[c].pc = "client" => ClientInStep(sync[c])
    /\ sync[c].pc = "server" => ServerInStep(sync[c])
    /\ sync[c].pc = "reply" => ReplyInStep(sync[c])

EndpointsInStep == \A c \in Node : InStep(c)

\* Version v of key k is covered: by a clock that Prune can find stale, or by
\* highestStale, if a message brought it back after it had been collected.
CoveredBy(s, k, v) ==
    \/ k \in DOMAIN s.vectors /\ v <= s.vectors[k].clock
    \/ v <= s.highestStale

Covered(s) == /\ \A k \in DOMAIN s.add : CoveredBy(s, k, s.add[k].Vector)
              /\ \A k \in DOMAIN s.remove : CoveredBy(s, k, s.remove[k].Vector)

\* Merge, Prune and the clock's highestStale: an entry of either map has a clock
\* bucket that covers its version, unless it had been collected before.  An entry
\* that is news is never without the clock through which Prune finds it stale.
EntriesCovered == \A n \in Node : Covered(store[n])

\* Everything a session has in flight or keeps for a later merge.
Messages ==
    UNION {{sync[c].msg, sync[c].cli.peerMsg, sync[c].srv.peerMsg} : c \in Node}
AddMaps == {store[n].add : n \in Node} \cup {DecodeSnapshot(m).add : m \in Messages}
RemoveMaps ==
    {store[n].remove : n \in Node} \cup {DecodeSnapshot(m).remove : m \in Messages}

\* Versions of a node are behind its clock and not beyond that of its own entry;
\* the version of that entry has one content, unless a handler is changing it.
VersionsUnique ==
    \A f \in AddMaps : \A k \in DOMAIN f :
        \/ f[k].Vector = 0 /\ f[k].Contents = NoData
        \/ /\ 0 < f[k].Vector /\ f[k].Vector < Own[k]
           /\ k \in DOMAIN store[k].add
           /\ f[k].Vector <= store[k].add[k].Vector
           /\ f[k].Vector = store[k].add[k].Vector
                => Changing(k) \/ f[k].Contents = store[k].add[k].Contents

\* Removals are known to the node itself, and newer than any entry there is
\* unless a handler was under way when the node left.
RemovalsNewer ==
    \A g \in RemoveMaps : \A k \in DOMAIN g : g[k].Vector > 0 =>
        /\ k \in DOMAIN store[k].remove
        /\ k \notin raced =>
            \A f \in AddMaps : k \in DOMAIN f => f[k].Vector < g[k].Vector

\* A store holds no zero bucket.  A node has an entry of its own, and a removal
\* of its own only if it left.
OwnEntryKept ==
    \A n \in Node :
        /\ \A k \in DOMAIN store[n].add : store[n].add[k].Vector > 0
        /\ \A k \in DOMAIN store[n].remove : store[n].remove[k].Vector > 0
        /\ status[n] # "out" => n \in DOMAIN store[n].add
        /\ status[n] \in {"out", "in"} => n \notin DOMAIN store[n].remove

\* Handlers run in daemons that have joined, ...
HandlersJoined == \A n \in Node : Handled(n) => status[n] # "out"

\* ... and in one whose removal is out only if they were under way before it.
UpdatesInOrder ==
    /\ HandlersJoined
    /\ \A n \in Node : Handled(n) /\ n \in DOMAIN store[n].remove => n \in raced

\* Why versions identify data and removals are final: what a node has published
\* is behind its clock and its entry wherever a copy of it may be, in a store, in
\* flight or kept for a later merge; and it publishes nothing after its removal,
\* unless a handler that had made its check before puts afterwards.
VersionsInOrder ==
    VersionsUnique /\ RemovalsNewer /\ OwnEntryKept /\ UpdatesInOrder

\* The last reply of a session that exchanged state is in flight.
Exchanged(c) ==
    sync[c].pc = "reply" /\ ~sync[c].more /\ sync[c].cli.state = "MERGE"

\* Node n has what another endpoint announced, or one of them collected it.
Holds(n, announced, highestStale) ==
    \A map \in {"add", "remove"} : \A k \in DOMAIN announced[map] :
        announced[map][k] > highestStale =>
            At(store[n][map], k, ZeroBucket).Vector >= announced[map][k]

\* The two halves of a session, interleaved with other sessions, updates and
\* Prune: when it ends without an error both sides hold everything the other
\* announced in its prepare message, unless either collected it meanwhile.
SessionTransfersAll ==
    \A c \in Node : Exchanged(c) =>
        LET s == sync[c].server
            stale == Max({store[c].highestStale, store[s].highestStale})
        IN  /\ Holds(c, sync[c].srv.mapState, stale)
            /\ Holds(s, sync[c].cli.mapState, stale)

\* Leaving, late copies of older entries and Prune: a replica that has seen a
\* node leave never counts it as a member again, unless a handler of that node
\* was under way when it left and put its entry back.
RemovalIsFinal ==
    [][\A n, k \in Node :
        k \in DOMAIN store[n].remove /\ ~Contains(store[n], k) /\ k \notin raced
            => ~Contains(store'[n], k)]_vars

\* two_phase_map_test.go, TestTwoPhaseMapPutThenRemoveThenPut: what is put
\* after its removal is present.  A node that has joined, and has not begun to
\* leave, is a member in its own replica, whatever it merged or collected since;
\* UpdateRoutes and ApplyConfig give up on all meshes when it is not.
SelfListed == \A n \in Node : status[n] = "in" => Contains(store[n], n)

\* Lock-step streams, deadlines and refusals: a Sync that has begun ends.
SyncEnds == \A c \in Node : sync[c].pc # "idle" ~> sync[c].pc = "idle"
-----------------------------------------------------------------------------
(* What the repository says of this code, checked by the runs that refute it *)

Busy(n) == \E c \in Node : InSession(c) /\ n \in {c, sync[c].server}

\* two_phase_map_syncer.go: "If vector clocks are equal then no need to merge
\* state".
EqualClocksEqualState ==
    \A m, n \in Node :
        InMesh(m) /\ InMesh(n) /\ ~Busy(m) /\ ~Busy(n)
            /\ ClockHash(store[m]) = ClockHash(store[n])
        => /\ GMapClock(store[m].add) = GMapClock(store[n].add)
           /\ GMapClock(store[m].remove) = GMapClock(store[n].remove)

\* syncererror.go: "SyncErrorHandler: Handles errors when attempting to sync".
\* Without a crash from outside, handling an error keeps the daemon running.
DaemonsSurviveErrors == \A n \in Node : status[n] # "crashed"
=============================================================================
