# smegmesh: TLA+ models, model checking and proofs

smegmesh maintains WireGuard meshes without a central server.  Every daemon
keeps a replica of each mesh it belongs to and gossips changes to its peers.
This directory holds a TLA+ development of the parts of the daemon that carry
its own logic: modules that model them, TLC configurations that check them on
small instances, and proofs for all values of the parameters.

`PROJECT.json` maps every definition to the lines of Go it stands for, lists
the runs and the properties they check, a mutation of the code for each
property, the hazards of the code and the theorems.

## 1. Inventory

| Component | State | Operations | Correct when |
|---|---|---|---|
| Vector clock (`pkg/crdt/vector_clock.go`) | per process a clock and the local time it was last advanced; `highestStale` | increment, put, merge, prune, hash | a node's own clock is ahead of every copy; stale buckets go, and stay gone; a node never collects itself |
| Grow-only map (`g_map.go`) | per key a version, contents, gravestone | put, merge, mark, prune, hash | a version identifies the contents |
| Two-phase map (`two_phase_map.go`) | an add map, a remove map, one clock | put, remove, mark, merge, prune, difference, snapshot | removal wins over older entries; an entry that is news is covered by a clock, or it can never be collected |
| Synchroniser (`two_phase_map_syncer.go`) | state, the peer's last message, own announcement | five state functions | two endpoints stay in step; a finished session leaves both sides with what the other announced |
| Datastore (`datastore.go`, `factory.go`) | the two-phase map, `LastClock` | add/update node, heartbeat, peers, save/load, `HasChanges` | the leader refreshes itself; changes are noticed |
| Syncer (`pkg/sync/syncer.go`) | infection counter, `lastSync`, `lastPoll` | Sync, Pull, SyncMeshes | Sync ends; news reaches every node |
| Requester, service, error handler (`pkg/sync`) | an open stream with a deadline | one session | every session ends; errors are survived; only unreachable peers are marked |
| Mesh manager (`pkg/mesh/manager.go`, `pkg/cplane`) | map of meshes; the WireGuard interface of each | create, join, leave, add self, update the own entry, heartbeat, close | a mesh in the map has its interface, a mesh that was left is gone, no interface is forgotten, the daemon survives its requests |
| WireGuard configuration (`pkg/mesh/config.go`, `pkg/route`, `pkg/lib/rtnetlink.go`) | none of its own; peers and allowed IPs of the devices, routes of the kernel | `ApplyConfig` | all daemons agree about a client's peer; devices and kernel routes match the stores; the gateway is a nearest one and stays |
| Route leaking (`pkg/mesh/route.go`) | routes in the nodes' entries | `UpdateRoutes` | no loops; what is gone is retracted |
| Connections (`pkg/conn`) | cache of gRPC connections; clusters | get, add, remove, close; neighbours | no closed connection is handed out; a node is in its own cluster |
| Library (`pkg/lib`) | timer state | consistent hash, timer, random choice | the timer keeps running until stopped |
| Devices and addresses (`pkg/wg`, `pkg/ip`) | kernel state | create and remove interfaces, add addresses | the address announced is the interface's |
| Control server (`pkg/ctrlserver`) | the wiring and three timers | start, close | |

The other packages (IPC, REST, DNS, query, graphs, generated gRPC code, the
unused automerge store) translate or call out and keep no state a
model would tell apart; `PROJECT.json` lists each with the reason.

**Interaction.**  A timer of the control server calls `SyncMeshes`, which calls
`Sync` for each mesh in its own goroutine.  `Sync` prunes the store, returns
early when nothing changed, and otherwise picks peers and calls the requester,
which opens a gRPC stream to the peer's service.  Requester and service each
drive a `TwoPhaseSyncer` over the *shared* store of their daemon.  At the same
time a heartbeat timer calls `UpdateTimeStamp`, IPC handlers change the node's
own entry, and `LeaveMesh` runs a last `Sync` before the mesh is deleted.  When
all Syncs of a round are done, `SyncMeshes` lets the route manager advertise each
mesh in the others and, if a result says so, applies the configuration: peers
and allowed IPs of the WireGuard devices, and the kernel's routes.

**What is hard.**  A store is read in one round of a session and written two
rounds later, while other sessions, handlers and garbage collection change it.
Clocks are merged before the entries they announce.  A stream may break or time
out anywhere.  Garbage collection compares local times of buckets, some of
which were refreshed by a merge.  Requests of the IPC socket run concurrently
and take locks around single accesses only, so every check may be stale when its
result is used.  Errors halfway leave interfaces, meshes and routes behind.  Go's
maps are iterated in an order that changes from call to call.  `PROJECT.json` lists
these and the other hazards at their lines.

## 2. Modules

* **`TwoPhaseMap`** is the data type: a replica is a record `vectors`,
  `highestStale`, `add`, `remove`, and each mutating Go method is an operator
  from replica to replica.  A Go map is a function over the set of its keys.
* **`MeshSync`** is the state machine of one mesh.  Per daemon it keeps
  `store`, `status` (out, in, leaving, left, crashed), `sync` (the goroutine
  that runs `Sync`, the peers still to contact, and the session it has open
  with both endpoints and the message in flight), and the syncer's `infection`,
  `lastClock`, `lastSync`; globally the time `now`, and `upd`, the handlers under
  way that change a node's own entry, with what each has read so far.  `raced` is
  history: the nodes that a handler was changing when they left.
* **`MeshRegisters`** is an abstract specification: a register per node, whose
  version only its owner advances and every replica follows.
  **`MeshSyncRegisters`** maps the clocks of `MeshSync` to it.
* **`MCMeshSync`** gives hashes and key orders for two and three nodes.
* **`ConnCluster`** is one call that chooses whom to gossip with in a mesh larger
  than a cluster: `binarySearch` probe by probe, `GetNeighbours`,
  `GetInterCluster`, and what `Sync` of a peer, `Sync` of a client and `Pull` do
  with them.  **`MCConnCluster`** enumerates sorted lists of a few keys.
* **`Daemon`** is one daemon in several meshes: the goroutines of `SyncMeshes` and
  what they share, the infection counter, the channel of results and the
  connection cache.
* **`MeshManager`** is one daemon under concurrent requests: the map of meshes,
  the own entry in each, interfaces and addresses, the heartbeat and the
  shutdown, each request a process with one step per access to shared state.
* **`RouteLeak`** is `UpdateRoutes` on several daemons: which routes each
  advertises in which mesh.
* **`WgConfig`** is `ApplyConfig` on one daemon, a peer or a client: from the
  stores to devices and kernel routes.
* **`MCDaemon`**, **`MCMeshManager`**, **`MCRouteLeak`** and **`MCWgConfig`** are their
  instances.
* **`TwoPhaseMapProofs`** proves facts about the data type.  **`MeshSyncProofs`**
  proves types and the order of clocks and times of `MeshSync`,
  **`MeshSyncSafetyProofs`**, on top of it, everything else that the runs of
  `MeshSync` check and is not liveness.  **`ConnClusterProofs`**, **`DaemonProofs`**,
  **`MeshManagerProofs`**, **`RouteLeakProofs`** and **`WgConfigProofs`** prove the
  invariants of their modules.

How they fit: `MeshSync` looks inside one session of one mesh.  `Daemon` takes a
session as one step and looks at the meshes of one daemon together.  `RouteLeak`
takes gossip as "a replica takes over the entry its owner has now": by
`ImplementsRegisters` a replica never goes back and never passes the owner, but
real gossip may also bring, through a third node, a version the owner has already
replaced, which `RouteLeak` leaves out.  `WgConfig` takes what gossip and route leaking
bring as arbitrary changes of the stores.  `MeshManager` takes the gossip as
outside.

The actions of `MeshSync`:

| Action | Code |
|---|---|
| `CreateMesh`, `JoinMesh` | manager `CreateMesh`/`AddMesh` and `AddSelf`; `cplane` `JoinMesh` with the peer's `GetConf` |
| `RejoinMesh` | the same for a daemon that left and has kept its key; the store is new, the syncer is not |
| `LeaveMesh` | `LeaveMesh` up to `OnDelete`; the last `Sync` follows and `EndSync` deletes the mesh |
| `BeginUpdate` | the check that `SetAlias`, `SetDescription` ("value"), `Add/RemoveService`, `Add/RemoveRoutes` ("table") and `UpdateTimeStamp` ("beat") begin with |
| `ReadPeers`, `MarkLeader` | `UpdateTimeStamp`: the candidates, and marking the leader when the own clock is late |
| `GetEntry` | the `Get` of the entry |
| `ChangeTable`, `NothingToChange`, `DeleteFromNil`, `AssignToNil` | the change of the routes or services, in the map that the store itself holds; and what happens on the blank entry that `Get` returns for a removed node |
| `PutEntry` | the `Put`, with a new version |
| `SyncQuietly`, `Pull`, `StartSync` | the three ways through the beginning of `Sync`, each after `Prune` |
| `SkipTarget`, `OpenStream` | the loop over the chosen peers: lookup, dial |
| `ClientSend`, `ServerReply`, `ClientReceive` | one round of the lock-step stream; each runs a whole state function on its side's store |
| `StreamEOF`, `ServerRefuses`, `StreamBroken`, `StreamTimesOut` | the errors of a stream and what `SyncErrorHandlerImpl` does with each |
| `EndSync`, `EndPull` | the tail of `Sync` and of `Pull` |
| `Crash`, `Tick` | environment |

Choices a reader should know of:

* A state function of a syncer, and `Put`, `Merge` and `Prune` of the store, are one
  step each.  The locks inside the store are finer than that; see section 5.  A
  handler is not one step: it holds the store's lock for each call on its own,
  so sessions, other handlers and `LeaveMesh` come in between.
* A handler that passed its check before the node left puts a blank entry
  (`NoData`) after the removal.  `GetPeers` passes over blank entries; a daemon
  that is given one when it joins dies in `AddSelf`, so `JoinMesh` asks that the
  members have data.  `RejoinMesh` waits for the handlers of the old store.
* Two accesses to a shared map may also make Go's runtime end the process.  For
  the mesh that is a `Crash`, which may come at any time.
* The server keeps the client's message only *after* it has generated its
  answer, as `SyncServiceImpl.SyncMesh` does; the client keeps a message before
  it generates the next.  So the server's rounds lag by one, and `prepare` on
  the server compares the hash received with the clock of that later moment.
* Messages are what the gob encoding carries; decoding a message of another
  type leaves the zero value, with which the code goes on.
* Hashes are sums as in the code, modulo `HashModulus`.  The instances give
  every node a key hash far from the others', so that clock hashes of small
  clocks do not collide by accident.  `HasChanges` uses the code's own product
  of version sums, collisions included.
* In `MeshSync` the mesh is one cluster, so `Sync` picks among all its peers;
  `ConnCluster` is about the larger ones.
* Time is one clock.  A session's step does not happen after its deadline: gRPC
  cancels the context.  A server half left behind by a client that timed out
  is not continued, which the cancelled stream guarantees from its next `Recv`.
* A key pair is made when a daemon starts, so a crashed daemon never returns as
  the same node.  A daemon that left may return with the same key
  (`Rejoiners`), once no session is open with its old store.
* `LeaveMesh` begins while no other `Sync` of that daemon runs.
* The connection cache is abstracted to "the dial succeeds or fails" (`Daemon`
  models it).

The other modules:

| Module | Action | Code |
|---|---|---|
| `Daemon` | `StartSyncMeshes`, `StartGoroutine`, `SendResult`, `EndSyncMeshes` | `SyncMeshes`: the goroutines, the channel, `wg.Wait`, the loop that reads, `UpdateRoutes`, `ApplyConfig`, which may fail |
| | `GetConnection`, `Dial`, `AddConnection`, `RemoveConnection` | `ConnectionManagerImpl`, one step per critical section |
| | `SessionEnds`, `SessionFails` | a session, and what the error handler does with the connection |
| | `ReadInfection`, `WriteInfection`, `SaveChanges` | the tail of `Sync`; the counter is read and written without a lock |
| | `ChangeStore` | incoming sessions, handlers, heartbeats |
| `MeshManager` | `CreateMesh`, `JoinMesh`, `FetchMesh`, `CreateInterface`, `StoreMesh`, `JoinFails` | IPC handler, `AddMesh`, interface, map |
| | `AddSelf`, `AddSelfPanics`, `AddAddress`, `AddNode` | `AddSelf`: lookup and address, interface, second lookup |
| | `LeaveMesh`, `RemoveNode`, `DeleteMesh`, `RemoveInterface`, `RemoveInterfaceFails` | `LeaveMesh` |
| | `SetNode`, `SetService`, `ContainsEntry`, `GetEntry`, `PutEntry`, `PutService` | description, alias, services: test, get and put of the store |
| | `HeartBeat`, `BeatNodeExists`, `BeatContains`, `BeatGet`, `BeatPut` | the heartbeat timer and `UpdateTimeStamp` |
| | `Interrupt`, `CloseMesh`, `Exit` | `Close` |
| | `ConcurrentMapAccess` | Go's runtime finds two accesses to one map and ends the process |
| `RouteLeak` | `UpdateRoutes`, `UpdateRoutesFails` | `UpdateRoutes` as one step, with `AddRoutes`, `RemoveRoutes` and `GetRoutes` of the store; its early returns |
| | `Gossip`, `JoinMesh`, `AddSelf`, `LeaveMesh` | the environment |
| `WgConfig` | `StartApply`, `CollectRoutes`, `UpdateWgConf` | `ApplyConfig`, `getAllRoutes`, `updateWgConf` with route installation and device; each step of it may fail (for a client, `ConfigureClientFails` is the device after the routes) |
| | `NodeLeaves`, `NodeArrives`, `RouteChanges` | gossip |

Choices:

* `Daemon`: which mesh has a peer, and on which host, is a constant.  A
  connection that nobody refers to is forgotten, so a leaked one is not counted.
  `ApplyConfig` may fail: `EndSyncMeshes` logs the error, and what should have been
  applied stays in `missed` until a later round calls it again, because
  `SaveChanges` has already forgotten the change.
* `MeshManager`: a provider has the name of the request that made it.  Requests
  whose very first check fails have no effect and are left out.  Entries of other
  nodes are not modelled.  An address is the prefix of its mesh and any other half, because
  that half hashes a random number; the search for a duplicate compares with a
  variable that is not assigned yet, and so accepts the first address.  A read of
  the map of meshes sees it before or after a write, or the runtime ends the
  process (`daemon` = "fatal").  This may happen at every write of that map and of
  the services of an entry: requests, Syncs and the gRPC service read both
  without the writer's lock, and some of these readers are outside the module.
* `RouteLeak`: all nodes are peers and none is marked.  `UpdateRoutes` is one step,
  so no gossip arrives in the middle of it.  The choice among equally short
  routes is nondeterministic: it comes from the order of a Go map.
* `WgConfig`: a mesh stands for its prefix, a node for its address.  Endpoints,
  keepalives and ports are left out.  A device has one owner per prefix and
  the kernel one route per destination, and the last write wins; this is how
  wgctrl and netlink behave and is marked external.

## 3. Runs

Each cfg names its bounds.  In `MeshSync`, `MaxSyncs` bounds the Syncs that
contact somebody, `MaxWrites` the updates and heartbeats, `MaxFailures` crashes
and broken streams, `MaxSessions` the sessions open at once, `MaxTime` the clock;
elsewhere `MaxChanges` bounds what comes from outside, `MaxChurn` joins and leaves,
`MaxFailures` failures of peers and of the kernel.  Where the bounds, served
requests or a panic let the system stop, deadlock is not checked; `SyncEnds` and
`SyncMeshesEnds` cover the stops that would matter.

| Run | Question | Bounds |
|---|---|---|
| `MeshSyncPair` | Do two syncers stay in step and never panic, does a finished session transfer all, and does every Sync end, with sessions in both directions, a handler that changes a service, leaves, a return and a failure anywhere? | 2 nodes, 2 Syncs, 2 sessions at once: two opposite sessions, or one more after a failure |
| `MeshSyncTime` | With deadlines, garbage collection, heartbeats and pulls: does anyone lose its own clock or its own entry, or keep news that no clock covers?  Is the proofs' invariant one? | 2 nodes, time 0..3 with `StaleTime` = 1: a bucket can go stale, be collected and be offered again; sessions fail by their deadline, not otherwise |
| `MeshSyncShared` | With handlers that change the stored maps in place, sessions that copy them in between, and a daemon that leaves in the middle: does a version still identify the data, and is a removal final although an older copy is in flight when it arrives? | 2 nodes, one leaves, two sessions at once, 2 handlers, 2 updates, 2 tables: two changes of one entry overlap, and a session meets them halfway |
| `MeshSyncTrio` | With a third node that passes entries on, and one that leaves, perhaps with a handler under way: is the removal final, do all copies of a node's entries keep the order in which it made them, and do the clocks implement `MeshRegisters`? | 3 nodes, one a client, one leaves, one update, sessions one after the other: an old copy and the removal come by different ways |
| `ConnCluster` | Does the search end, is the group the nearest one, is somebody chosen whenever there is somebody? | lists of up to 7 of 8 keys, clusters of 2: several rounds, all boundaries |
| `MeshManager` | However requests, heartbeat and shutdown interleave: does every mesh in the map have its interface, is what was left gone for good, does it take a leave to stop the heartbeat or to make the daemon panic?  One request about a mesh at a time: is no interface lost, and is the announced address on the interface? | 3 requests, 2 meshes, 1 failure: a join, a leave and a third request that overtakes one of them |
| `Daemon` | Does every `SyncMeshes` end, does every goroutine find room in the channel, is every cached connection open, is every change offered to `ApplyConfig` when meshes are polled one by one? | 2 meshes with the same peer, 2 changes, 2 failures: two goroutines meet in each shared variable, and a failure meets a dial |
| `RouteLeak` | Is no advertised path a loop, and are routes to a mesh that everyone left retracted? | 3 daemons, 3 meshes, two daemons in parallel between two of them, so that routes come back; 2 joins or leaves |
| `WgConfig` | After a successful `ApplyConfig`: do devices and kernel routes match the stores and each other, also after calls that failed halfway?  Do all daemons agree on the peer of a client?  Is the gateway a nearest one? | 3 peers, 1 client, 2 meshes, 3 changes, 1 failure; the daemon is a peer whose client is in one mesh, a peer whose client is in both and at first behind another peer in one, or the client |
| `ClaimEqualClocks` | "If vector clocks are equal then no need to merge state": **violated**, a stream broken between `present` and `merge` | |
| `ClaimSurvive` | errors are handled: **violated**, the error handler's inverted test dereferences a nil node | no failures |
| `ClaimStable` | traffic is spread by consistent hashing (`config.go:118`): **violated**, with two equal gateways `convertMeshNode` hashes each with its own key, both get the destination, and the order of a Go map decides anew in every call | 3 peers, 1 mesh, no failures |

What some passing properties exclude, and why:

* `NoInterfaceLost` and `EntryHasItsAddress` speak of requests about a mesh that do
  not overlap.  With overlapping joins the second provider replaces the first in
  the map and the interface of the first has no owner; `AddSelf` of the first may
  then write its entry into the provider of the second.
* `NoLeaveNoPanic` allows panics after a leave: an update or a heartbeat that ran
  beside it puts a blank entry back, on which `AddService` and `AddSelf` panic; and a
  heartbeat that finds its entry gone reports an error, which stops the timer.
  Without a leave the process may still end: `StoreMesh` and `PutService` write maps
  that others read without their lock.  The model has this as
  `ConcurrentMapAccess`, and no property denies it.
* `SameVersionSameData` excepts an entry whose owner's handler is between its
  change in place and its `Put` (`Changing`).  A session in that window sends the old
  version with new data; the new version that follows, unless the
  daemon dies first, puts it right.
* `RemovalIsFinal`, and in `VersionsInOrder` the part `RemovalsNewer`, except the nodes in
  `raced`: their handler was past its check when they left, and its `Put` makes a
  version after the removal.  Such a node is a member again, with a blank entry,
  wherever that version arrives.
* `ChangesOfferedOneByOne` speaks of rounds with one mesh and of calls of `ApplyConfig`,
  not of their success.  With two meshes the loop over the channel reads one result
  of two, and a change may never be offered; a call that fails is not repeated
  until another change or infection asks for it.
* `NearestGateway` speaks of at most two advertisers that are peers.  With three,
  `getRoutes` replaces one of two equal routes by a nearer one and keeps the other,
  although the comment at `config.go:118` speaks of "the routes with the least hop
  distance"; TLC finds such a state with four peers in one mesh.
* `RoutesRetracted` is about the topology of the instance.  In a ring of meshes the
  choice among equal routes may alternate for ever.
* `NeighboursNearest` is about keys not in the list; `Pull` leaves its own key in and
  may be given a group that it is not in.
* `RoutesMatchDevices` excepts a client that is in two meshes of the daemon, behind
  the daemon in one and behind another peer in the other (`SplitClient`).
  `getPeerConfig` puts only its own clients on the device but installs the routes of
  all, so the kernel may send the client's destinations into the device that does
  not have it.  The exception was found by the proof: the earlier statement held on
  the instance, which had no such client, and failed as an invariant.
* `EntriesCovered` allows an entry without a clock if `highestStale` is not below
  its version.  With three nodes this happens: a stream from n3 to n1 breaks after
  `present`, so n1 has the clock of n3 and not its entry; later n2 sends it, n1's
  own `Sync` collects the clock between `present` and `merge` of that session, and
  `merge` stores the entry while the clock is refused.  `Prune`, which goes by the
  clocks, never finds that entry.
* `SelfListed` has no returns: a node that returns through a peer that has not heard
  of its leave may be hidden by its own removal.

Fairness of `MeshSync` (`FairSpec`): weak fairness of `SyncStep(c)`, the steps of a `Sync`
that has begun.  The code justifies it: the goroutine is scheduled, the peer's
handler is a goroutine of its own, and gRPC reports a dead peer, an ended or a
timed-out stream.  Nothing is assumed about timers or about new Syncs.
In `ConnCluster` it is weak fairness of the call's next step: the call is
straight-line code of one goroutine.
In `Daemon` it is weak fairness of each goroutine's step (a session ends by its
deadline) and of the end of `SyncMeshes`, and for each mesh strong fairness of a
round that polls it: the timer ticks, and a mesh that was polled long ago is in
the next round.  In `RouteLeak` it is weak fairness of each daemon's steps: the
timer runs `UpdateRoutes`, gossip goes on, and a join that has added the mesh goes
on to add the node.

## 4. Proofs

Every invariant and every safety action property that a passing run checks is
stated by a theorem, for all values of the constants, and so is the refinement.
The constants' assumptions are those of the modules: finite sets of nodes, meshes
and hosts where something is counted, a value for "none" that is nothing else,
distinct hashes of keys, bounds that are naturals.

**`MeshSync`, types and order.**  `TypeCorrect`: `Spec => []TypeOK`, from the
constants' assumptions alone.  `MeshInOrder`, `OwnersAreAhead`, `OwnClockSurvives`:
under the extra hypotheses `SyncInterval <= StaleTime` and `Rejoiners = {}`, `Spec`
implies `[]SyncInOrder`, `[]NoReplicaAheadOfOwner` and `[]OwnBucketKept`.

Neither of the last two is inductive.  That no replica is ahead of the owner of
a clock depends on the messages in flight and on those the endpoints keep,
since these are merged later; and on the owner not collecting its own bucket,
since an owner who did would start again from a lower clock.  That it does not
collect it depends on time: `Prune` removes what lags the newest bucket by more
than `StaleTime`.  `prepare` advances the own clock in every session before
`present` and `merge` may refresh other buckets, and a session lasts at most
`SyncInterval`, so no bucket is ahead of the own one by more than that.
`SyncInOrder` says exactly this: `StoresInOrder` for stores, `SessionInOrder`
for endpoints, messages and deadlines.  The proof has one lemma per state
function (`HandlersInOrder`), one for a change of one store (`StoreStep`) and
one per group of actions.

Both hypotheses are needed.  `conf.go` validates `SyncInterval` and `Heartbeat`
only as at least 1, and `StaleTime` is three heartbeats: in `MeshSyncTime` with
`SyncInterval` = 2 TLC finds a node that collects its own clock.  A node that
returns with its old key starts from the clocks its peer knows, which may be
behind copies of its own: with `Rejoiners` = {n2} TLC violates
`NoReplicaAheadOfOwner`.

**`MeshSync`, sessions.**  Without these hypotheses:

* `SessionsStayInStep` and `NoSyncerPanics`.  The inductive invariant is
  `EndpointsInStep`: in each phase of a round the states of client and server
  differ by a fixed amount, and each has the message that its next state
  function decodes.  `SyncersNeverPanic` follows from it.
* `SessionsTransferAll`.  `SessionTransfersAll` is about the last moment of a
  session, the promise is made four rounds earlier.  The invariant
  `TransfersOnTheirWay` follows each announced version from the announcement
  through request and snapshot to the store, with the way out that one of the
  two has collected it since, and needs `EndpointsInStep` and that entries of a
  store only grow or are collected (`MergeKeeps`, `PruneDrops`).
* `EntriesStayCovered`, which is inductive with the types and `EndpointsInStep`.

**`MeshSync`, contents.** With handlers in steps. Under the two hypotheses:
`ClocksAreRegisters`, the refinement of `MeshRegisters`, in which each step of
`MeshSync` is a publication by the owner, a replica that catches up, or a
stutter, and `SyncInOrder` says that nobody catches up with more than was
published; `VersionsStayInOrder`, with the inductive invariant `VersionsInOrder`
over every store, every message in flight and every message an endpoint keeps;
and from it `VersionsIdentifyData`, `MembersListThemselves` and the action
property `RemovalsAreFinal`.

A handler reads the entry in one step and puts it in a later one, so
`VersionsInOrder` also says what it knows in between.  `VersionsUnique` compares the
copies of a version that are anywhere with each other unless the owner is
`Changing` it.  `RemovalsNewer` puts the removal after every copy unless the owner is in
`raced`, and `UpdatesInOrder` says of a handler under way whose node has left that the
node is in there.  These exceptions are needed: without
`Changing` TLC violates `SameVersionSameData` in `MeshSyncShared`, without `raced` it
violates `RemovalIsFinal` in `MeshSyncTrio`.

**`ConnCluster`.**  `ClusterTypes`, `GroupsAreNearest` and `ChoiceIsNotEmpty` for
every sorted list, cluster size and branch.  The inductive invariant is
`SearchInOrder`: every key cut off below `lower` is smaller and every key above
`higher` larger than the one looked for (`Narrowed`), and `lower` stays an index of
the list, because the loop only runs while the window is larger than a group of at
least one.  `SearchesTerminate`: each probe makes the window strictly smaller and
never less than empty, the safety half of `CallReturns`.

**`Daemon`.**  `DaemonTypes`, `NoSenderBlocks`, `NoClosedConnectionCached` and
`WaitEndsTheRound`.  The
invariant `DaemonInv` adds to the types: a result in the channel for every goroutine
of the round that has returned (`RoundInv`); how far the infection counter may be
above its limit, by the number of goroutines of the round that are done with it
(`InfectionInv`); and that a connection that was dialled and is not yet in the cache is
open and known to its goroutine alone, and one in the cache is that of one host
(`ConnInv`).  A new connection has a name that nobody uses, by counting.

**`MeshManager`.**  `ManagerTypes`, `MappedMeshesHaveDevices`, `LeftMeshesStayGone`,
`JoinsAndUpdatesDoNotPanic`, `InterfacesAccountedFor` and `EntriesHaveTheirAddresses`.
`ManagerInv` says for each step of a request what it still holds and who else may hold
it (`RequestInv`, `StoredInv`), who is entitled to an interface (`DeviceInv`), that
without a leave every check is still true when its result is used (`HarmInv`), that
without an overlap at most one request is at work on a mesh (`OneByOneInv`), and
what `AddSelf` has put on the interface by when (`AddressInv`).

**`RouteLeak`.**  `RouteLeakTypes`, `NoRouteLoops` and `HopCountsBounded`.
`NoRoutingLoops` is about what is advertised; the invariant `RouteInv` says of every
entry in every replica, however old, that its routes are simple paths in the mesh
and one per destination.  The paths that `GetRoutes` collects may end in the route's
own mesh and are not loop-free; what the filter in `UpdateRoutes` lets through is.
With finitely many meshes a simple path has at most as many hops.

**`WgConfig`.**  `WgConfigTypes`, `DaemonsAgreeOnClients`, `DevicesAreAsStored`,
`KernelMatchesDevices` and `GatewaysAreNearest`.  The last three speak of the end of a
call, so `WgInv` describes it halfway, as long as no store has changed since it began:
after the meshes `ms`, `getAllRoutes` has for each destination a list that comes from
what is advertised in `ms` and is empty only without any (`Lists`, `GoodList`); after the
meshes `ms` in `updateWgConf`, their devices have the right nodes, what the kernel routes
into one of them it sends to the gateway, and what one of them would take is routed
into one of them (`Applied`).  The last part is what survives when a later mesh takes a
destination over.  `getRoutes`' loop is a recursive function; that its value after each
turn is what the turn says, for any number of nodes, is proved by hand from the least
counterexample (`LoopExists`, `LoopInduction`).

**Only model-checked.**  Liveness, which needs fairness: `SyncEnds`, `CallReturns`,
`SyncMeshesEnds`, `ChangesOfferedOneByOne`, `RoutesRetracted`.  What hash sums, folds over
sets, compute; the theorems hold whatever the hashes are, except that consistent
hashing needs distinct ones.

## 5. Not modelled

* The automerge datastore, which the daemon does not use any more; generated gRPC
  code; REST, DNS, query and graph front ends, which only read; argument parsing.
* TLS, certificates and the server socket; `ConnectionManager.Close`, whose only
  caller is the shutdown.
* The locks inside the two-phase map: `Prune` evaluates the stale set three times,
  and `getStale` writes under a read lock; a state function is one step.
* Handlers as steps in `RouteLeak`, where `UpdateRoutes` is one; a message that was
  encoded while a handler changed the map it encodes (the runtime ends the
  process, or the message has the map of one moment).
* The Sync that `OnDelete` runs beside the timer's Sync of the same mesh.
* Blank entries on other daemons, which make `convertMeshNode` fail there.
* `Mark` as a promise to the reader ("is not broadcast on syncrhonisation",
  `datastore.go:58`): the model carries the gravestone in snapshots, as the code
  does, so other nodes do learn of it.

## 6. Plan

1. *Done:* all modules above, their runs, and theorems for all safety properties.
2. Safety arguments behind the liveness properties, as theorems: the measures that
   decrease along a session (`SyncEnds`), along a round of `SyncMeshes`, and along the
   retraction of a route.
3. What the exceptions of section 3 leave over, stated as precisely as they can be
   proved: how many interfaces overlapping requests can lose, and which entries
   without a clock there can be.
