------------------------------ MODULE MeshManager ------------------------------
(***************************************************************************)
(* The mesh manager of one daemon (pkg/mesh/manager.go) under the          *)
(* concurrent requests of its IPC socket (pkg/cplane/requester.go), with   *)
(* the heartbeat timer, the shutdown, and the WireGuard interfaces of the  *)
(* kernel (pkg/wg, pkg/lib/rtnetlink.go).  meshLock covers single accesses *)
(* to the map of meshes, some of them, and no request as a whole.          *)
(*                                                                         *)
(* A request is a process.  The provider (the mesh's store with its        *)
(* interface) that a request makes has the request's name.                 *)
(***************************************************************************)
EXTENDS Naturals, FiniteSets

CONSTANTS
    Request,       \* requests, each handled in a goroutine of its own
    Mesh,          \* mesh identifiers
    InterfaceId,   \* the last 64 bits of an address
    MaxFailures    \* bound on what fails outside the daemon's control

None == "none"

ASSUME MeshManagerAssumption ==
    /\ MaxFailures \in Nat
    /\ None \notin Request /\ None \notin Mesh

VARIABLES
    meshes,     \* MeshManagerImpl.meshes: per identifier a provider or None
    node,       \* per provider, the daemon's own entry in its store
    live,       \* providers whose WireGuard interface exists
    addrs,      \* per provider, the addresses of its interface
    pc, mesh,   \* per request: its next step and the mesh it names,
    prov, got,  \* ... the provider and the entry it holds on to,
    ip,         \* ... the address it has generated,
    found,      \* ... and whether RemoveNode found the node (LeaveMesh's err)
    beat,       \* the heartbeat timer
    daemon,     \* "up", "closing" (and the meshes closed), "down", "panicked",
                \* or "fatal", ended by Go's runtime
    closed,
    removed,    \* history: RemoveNode was called
    left,       \* history: providers that a LeaveMesh reported as left
    overlap,    \* history: a request met another of its mesh, or the shutdown
    failures

request == <<pc, mesh, prov, got, ip, found>>
history == <<removed, left, overlap>>
vars == <<meshes, node, live, addrs, request, beat, daemon, closed, history, failures>>

\* The first half of an address is the mesh's, a unique local prefix (fd) with a
\* hash of the mesh's identifier.  Meshes are taken to differ in their hashes.
MeshPrefix(m) == <<"fd", m>>
Address == {MeshPrefix(m) : m \in Mesh} \X InterfaceId

\* The other half is a hash of the key and a random number: it may be anything,
\* and differs from call to call.
GetIP(m) == {MeshPrefix(m)} \X InterfaceId

\* An entry is absent, as AddSelf wrote it (with this address), or blank: what
\* Get returns for an absent key, put back by an update.
Absent == <<>>
Blank == <<"">>
Entry == {Absent, Blank} \cup Address
NoBeat == [pc |-> "idle", todo |-> {}, prov |-> None, got |-> Absent]

TypeOK ==
    /\ meshes \in [Mesh -> Request \cup {None}]
    /\ node \in [Request -> Entry]
    /\ live \subseteq Request
    /\ addrs \in [Request -> SUBSET Address]
    /\ ip \in [Request -> Address \cup {Absent}]
    /\ pc \in [Request -> {"new", "fetch", "interface", "store", "self", "address", "add",
                             "unlist", "delete", "remove", "check", "get", "put",
                             "checkservice", "getservice", "putservice", "end"}]
    /\ mesh \in [Request -> Mesh \cup {None}]
    /\ prov \in [Request -> Request \cup {None}]
    /\ \A h \in Request : (prov[h] # None) =
         (pc[h] \in {"address", "add", "unlist", "delete", "remove", "check", "get", "put",
                     "checkservice", "getservice", "putservice"})
    /\ got \in [Request -> Entry]
    /\ found \in [Request -> BOOLEAN]
    /\ beat \in [pc : {"idle", "exists", "contains", "get", "put", "stopped"},
                 todo : SUBSET Request, prov : Request \cup {None}, got : Entry]
    /\ daemon \in {"up", "closing", "down", "panicked", "fatal"}
    /\ closed \subseteq Mesh
    /\ {removed, overlap} \subseteq BOOLEAN /\ left \subseteq Request
    /\ failures \in 0..MaxFailures

Running == daemon \in {"up", "closing"}
Active(h) == pc[h] \notin {"new", "end"}
Goto(h, step) == pc' = [pc EXCEPT ![h] = step]

\* The request ends, with or without an error.
End(h) == /\ pc' = [pc EXCEPT ![h] = "end"]
          /\ mesh' = [mesh EXCEPT ![h] = None]
          /\ prov' = [prov EXCEPT ![h] = None]
          /\ got' = [got EXCEPT ![h] = Absent]
          /\ ip' = [ip EXCEPT ![h] = Absent]
          /\ found' = [found EXCEPT ![h] = FALSE]

\* Something outside the daemon fails: the peer of a join, netlink, a device.
Failure == /\ failures < MaxFailures
           /\ failures' = failures + 1

\* The request h about mesh m begins with step.
Begin(h, m, step) ==
    /\ Running /\ pc[h] = "new"
    /\ Goto(h, step)
    /\ mesh' = [mesh EXCEPT ![h] = m]
    /\ overlap' = (overlap \/ daemon = "closing" \/ m \in {mesh[g] : g \in Request})
    /\ UNCHANGED <<got, ip, found, removed, left, daemon, closed>>

At(h, step) == Running /\ pc[h] = step /\ UNCHANGED <<overlap, daemon, closed>>

\* The interfaces of the kernel and their addresses.
CreateLink(p) == live' = live \cup {p}
DeleteLink(p) == live' = live \ {p} /\ addrs' = [addrs EXCEPT ![p] = {}]
AddressNew(p, a) == addrs' = [addrs EXCEPT ![p] = @ \cup {a}]
HasDevice(p) == p \in live

---------------------------------------------------------------------------
(* CreateMesh and JoinMesh: AddMesh, then AddSelf *)

\* A new identifier; the configuration may be refused (a client cannot create a
\* mesh), which is a failure without effect.
CreateMesh(h, m) ==
    /\ Begin(h, m, "interface")
    /\ meshes[m] = None /\ m \notin {mesh[g] : g \in Request}
    /\ UNCHANGED <<meshes, node, live, addrs, prov, beat, failures>>

JoinMesh(h, m) ==
    /\ Begin(h, m, "fetch")
    /\ meshes[m] = None
    /\ UNCHANGED <<meshes, node, live, addrs, prov, beat, failures>>

\* The peer's copy of the mesh arrives.
FetchMesh(h) ==
    /\ At(h, "fetch")
    /\ Goto(h, "interface")
    /\ UNCHANGED <<meshes, node, live, addrs, mesh, prov, got, ip, found, beat, removed, left, failures>>

CreateInterface(h) ==
    /\ At(h, "interface")
    /\ CreateLink(h)
    /\ Goto(h, "store")
    /\ UNCHANGED <<meshes, node, addrs, mesh, prov, got, ip, found, beat, removed, left, failures>>

\* The provider takes its place in the map, under the lock, whoever is there.
StoreMesh(h) ==
    /\ At(h, "store")
    /\ meshes' = [meshes EXCEPT ![mesh[h]] = h]
    /\ Goto(h, "self")
    /\ UNCHANGED <<node, live, addrs, mesh, prov, got, ip, found, beat, removed, left, failures>>

\* Mutant: the mesh is not checked for nil.
AddSelfUnchecked(h) ==
    /\ At(h, "self")
    /\ prov' = [prov EXCEPT ![h] = meshes[mesh[h]]]
    /\ \E a \in GetIP(mesh[h]) : ip' = [ip EXCEPT ![h] = a]
    /\ Goto(h, "address")
    /\ UNCHANGED <<meshes, node, live, addrs, mesh, got, found, beat, removed, left, failures>>

\* AddSelf looks the mesh up again, and asks its interface for its port.  The
\* address it generates is accepted at once: the search for a duplicate compares
\* the addresses in the mesh with nodeIP, which is not assigned yet.
AddSelf(h) ==
    /\ At(h, "self")
    /\ LET p == meshes[mesh[h]]
       IN  \/ /\ p = None \/ ~HasDevice(p)
              /\ End(h)
           \/ /\ p # None /\ node[p] # Blank
              /\ prov' = [prov EXCEPT ![h] = p]
              /\ \E a \in GetIP(mesh[h]) : ip' = [ip EXCEPT ![h] = a]
              /\ Goto(h, "address")
              /\ UNCHANGED <<mesh, got, found>>
    /\ UNCHANGED <<meshes, node, live, addrs, beat, removed, left, failures>>

\* ... and that search reads the address of every entry, which a blank one lacks.
AddSelfPanics(h) ==
    /\ Running /\ pc[h] = "self"
    /\ meshes[mesh[h]] # None /\ node[meshes[mesh[h]]] = Blank
    /\ daemon' = "panicked"
    /\ End(h)
    /\ UNCHANGED <<meshes, node, live, addrs, beat, closed, history, failures>>

\* Mutant: the interface gets an address of its own.
AddAddressAnew(h) ==
    /\ At(h, "address") /\ HasDevice(prov[h])
    /\ \E a \in GetIP(mesh[h]) : AddressNew(prov[h], a)
    /\ Goto(h, "add")
    /\ UNCHANGED <<meshes, node, live, mesh, prov, got, ip, found, beat, removed, left, failures>>

\* GetDevice and AddAddress fail if the interface is gone.
AddAddress(h) ==
    /\ At(h, "address")
    /\ IF HasDevice(prov[h])
       THEN /\ AddressNew(prov[h], ip[h])
            /\ Goto(h, "add")
            /\ UNCHANGED <<mesh, prov, got, ip, found>>
       ELSE End(h) /\ UNCHANGED addrs
    /\ UNCHANGED <<meshes, node, live, beat, removed, left, failures>>

\* The last line of AddSelf reads the map again, and does not check for nil.
AddNode(h) ==
    /\ Running /\ pc[h] = "add"
    /\ IF meshes[mesh[h]] = None
       THEN daemon' = "panicked" /\ UNCHANGED node
       ELSE node' = [node EXCEPT ![meshes[mesh[h]]] = ip[h]] /\ UNCHANGED daemon
    /\ End(h)
    /\ UNCHANGED <<meshes, live, addrs, beat, closed, history, failures>>

\* A step of a join fails and the request ends there.  What it has made, an
\* interface and a mesh in the map, stays.
JoinFails(h) ==
    /\ \E step \in {"fetch", "interface", "store", "address"} : At(h, step)
    /\ Failure
    /\ End(h)
    /\ UNCHANGED <<meshes, node, live, addrs, beat, removed, left>>

---------------------------------------------------------------------------
(* LeaveMesh *)

LeaveMesh(h, m) ==
    /\ Begin(h, m, "unlist")
    /\ meshes[m] # None
    /\ prov' = [prov EXCEPT ![h] = meshes[m]]
    /\ UNCHANGED <<meshes, node, live, addrs, beat, failures>>

\* RemoveNode, whose error is only logged, and the Sync of OnDelete.
RemoveNode(h) ==
    /\ At(h, "unlist")
    /\ found' = [found EXCEPT ![h] = node[prov[h]] # Absent]
    /\ node' = [node EXCEPT ![prov[h]] = Absent]
    /\ removed' = TRUE
    /\ Goto(h, "delete")
    /\ UNCHANGED <<meshes, live, addrs, mesh, prov, got, ip, beat, left, failures>>

\* Mutant: the mesh stays in the map.
DeleteMeshNot(h) ==
    /\ At(h, "delete")
    /\ Goto(h, "remove")
    /\ UNCHANGED <<meshes, node, live, addrs, mesh, prov, got, ip, found, beat, removed, left, failures>>

\* The identifier is deleted, whichever provider it has by now.
DeleteMesh(h) ==
    /\ At(h, "delete")
    /\ meshes' = [meshes EXCEPT ![mesh[h]] = None]
    /\ Goto(h, "remove")
    /\ UNCHANGED <<node, live, addrs, mesh, prov, got, ip, found, beat, removed, left, failures>>

\* Mutant: the interface stays.
RemoveInterfaceNot(h) ==
    /\ At(h, "remove")
    /\ left' = IF found[h] /\ HasDevice(prov[h]) THEN left \cup {prov[h]} ELSE left
    /\ End(h)
    /\ UNCHANGED <<meshes, node, live, addrs, beat, removed, failures>>

\* RemoveInterface on the device of the provider that LeaveMesh began with; an
\* error if it is gone.  LeaveMesh returns nil if RemoveNode found the node too.
RemoveInterface(h) ==
    /\ At(h, "remove")
    /\ DeleteLink(prov[h])
    /\ left' = IF found[h] /\ HasDevice(prov[h]) THEN left \cup {prov[h]} ELSE left
    /\ End(h)
    /\ UNCHANGED <<meshes, node, beat, removed, failures>>

RemoveInterfaceFails(h) ==
    /\ At(h, "remove")
    /\ Failure
    /\ End(h)
    /\ UNCHANGED <<meshes, node, live, addrs, beat, removed, left>>

---------------------------------------------------------------------------
(* SetDescription, SetAlias, SetService and RemoveService *)

\* What the manager checks first in each of them.
HasSelf(m) == meshes[m] # None /\ node[meshes[m]] # Absent

\* A new description or alias.
SetNode(h, m) ==
    /\ Begin(h, m, "check")
    /\ HasSelf(m)
    /\ prov' = [prov EXCEPT ![h] = meshes[m]]
    /\ UNCHANGED <<meshes, node, live, addrs, beat, failures>>

\* A new service, or one less.
SetService(h, m) ==
    /\ Begin(h, m, "checkservice")
    /\ HasSelf(m)
    /\ prov' = [prov EXCEPT ![h] = meshes[m]]
    /\ UNCHANGED <<meshes, node, live, addrs, beat, failures>>

\* The store looks again; it is locked for the Contains, the Get and the Put,
\* not from one to the next.
ContainsEntry(h) ==
    /\ At(h, "check") \/ At(h, "checkservice")
    /\ IF node[prov[h]] = Absent
       THEN End(h)
       ELSE /\ Goto(h, IF pc[h] = "check" THEN "get" ELSE "getservice")
            /\ UNCHANGED <<mesh, prov, got, ip, found>>
    /\ UNCHANGED <<meshes, node, live, addrs, beat, removed, left, failures>>

GetEntry(h) ==
    /\ \/ At(h, "get") /\ Goto(h, "put")
       \/ At(h, "getservice") /\ Goto(h, "putservice")
    /\ got' = [got EXCEPT ![h] = IF node[prov[h]] = Absent THEN Blank ELSE node[prov[h]]]
    /\ UNCHANGED <<meshes, node, live, addrs, mesh, prov, ip, found, beat, removed, left, failures>>

PutEntry(h) ==
    /\ At(h, "put")
    /\ node' = [node EXCEPT ![prov[h]] = got[h]]
    /\ End(h)
    /\ UNCHANGED <<meshes, live, addrs, beat, removed, left, failures>>

\* A blank entry has no map of services, and AddService panics on it.
\* RemoveService returns an error for a service it does not find.
PutService(h) ==
    /\ Running /\ pc[h] = "putservice"
    /\ \/ /\ got[h] # Blank
          /\ node' = [node EXCEPT ![prov[h]] = got[h]]
          /\ UNCHANGED daemon
       \/ UNCHANGED <<node, daemon>>
       \/ /\ got[h] = Blank
          /\ daemon' = "panicked"
          /\ UNCHANGED node
    /\ End(h)
    /\ UNCHANGED <<meshes, live, addrs, beat, closed, history, failures>>

---------------------------------------------------------------------------
(* UpdateTimeStamp, which the heartbeat timer calls *)

BeatGoto(step, p, e) == beat' = [beat EXCEPT !.pc = step, !.prov = p, !.got = e]
BeatStep(step) ==
    /\ Running /\ beat.pc = step
    /\ UNCHANGED <<meshes, live, addrs, request, daemon, closed, history, failures>>

\* A tick: GetMeshes copies the map.
HeartBeat ==
    /\ BeatStep("idle")
    /\ LET all == {meshes[m] : m \in Mesh} \ {None}
       IN  all # {} /\ beat' = [NoBeat EXCEPT !.pc = "exists", !.todo = all]
    /\ UNCHANGED node

\* Mutant: every mesh is updated.
BeatNodeExistsAll ==
    /\ BeatStep("exists")
    /\ IF beat.todo = {}
       THEN beat' = NoBeat
       ELSE \E p \in beat.todo :
              beat' = [beat EXCEPT !.todo = @ \ {p}, !.pc = "contains", !.prov = p]
    /\ UNCHANGED node

\* The next mesh of the copy, in no particular order, if it lists the node.
BeatNodeExists ==
    /\ BeatStep("exists")
    /\ IF beat.todo = {}
       THEN beat' = NoBeat
       ELSE \E p \in beat.todo :
              beat' = [beat EXCEPT !.todo = @ \ {p},
                                   !.pc = IF node[p] # Absent THEN "contains" ELSE "exists",
                                   !.prov = IF node[p] # Absent THEN p ELSE None]
    /\ UNCHANGED node

\* The store's UpdateTimeStamp looks again; its error stops the timer for good.
\* Only the leader goes on to refresh its entry.
BeatContains ==
    /\ BeatStep("contains")
    /\ IF node[beat.prov] = Absent
       THEN beat' = [NoBeat EXCEPT !.pc = "stopped"]
       ELSE BeatGoto("get", beat.prov, Absent) \/ BeatGoto("exists", None, Absent)
    /\ UNCHANGED node

BeatGet ==
    /\ BeatStep("get")
    /\ BeatGoto("put", beat.prov,
                IF node[beat.prov] = Absent THEN Blank ELSE node[beat.prov])
    /\ UNCHANGED node

BeatPut ==
    /\ BeatStep("put")
    /\ node' = [node EXCEPT ![beat.prov] = beat.got]
    /\ BeatGoto("exists", None, Absent)

---------------------------------------------------------------------------
(* Close *)

Interrupt ==
    /\ daemon = "up"
    /\ daemon' = "closing"
    /\ overlap' = (overlap \/ \E h \in Request : Active(h))
    /\ UNCHANGED <<meshes, node, live, addrs, request, beat, closed, removed, left, failures>>

\* Mutant: the loop ends with its first turn.
CloseMeshOnce(m) ==
    /\ daemon = "closing" /\ m \notin closed /\ meshes[m] # None
    /\ closed' = Mesh
    /\ DeleteLink(meshes[m])
    /\ UNCHANGED <<meshes, node, request, beat, daemon, history, failures>>

\* One turn of the loop over the map; the first error ends it.
CloseMesh(m) ==
    /\ daemon = "closing" /\ m \notin closed /\ meshes[m] # None
    /\ closed' = closed \cup {m}
    /\ \/ /\ HasDevice(meshes[m])
          /\ DeleteLink(meshes[m])
          /\ UNCHANGED <<daemon, failures>>
       \/ /\ ~HasDevice(meshes[m])
          /\ daemon' = "down"
          /\ UNCHANGED <<live, addrs, failures>>
       \/ /\ Failure
          /\ daemon' = "down"
          /\ UNCHANGED <<live, addrs>>
    /\ UNCHANGED <<meshes, node, request, beat, history>>

\* The end of the loop, and of the process.
Exit ==
    /\ daemon = "closing"
    /\ \A m \in Mesh : meshes[m] # None => m \in closed
    /\ daemon' = "down"
    /\ UNCHANGED <<meshes, node, live, addrs, request, beat, closed, history, failures>>

---------------------------------------------------------------------------
(* Data races *)

\* The request is about to write a Go map that others read, or write, without its
\* lock.  meshLock guards the writes of meshes and the copy of GetMeshes; GetMesh
\* and GetSelf (the start of most requests, of every Sync and of the gRPC
\* service), the last line of AddSelf, HasChanges and the loop of Close read it
\* unlocked.  The services of an entry are one map, shared by all that got the
\* entry: other requests about it, and the sessions that encode it.
WritesSharedMap(h) ==
    \/ pc[h] \in {"store", "delete"}
    \/ pc[h] = "putservice" /\ got[h] # Blank

\* Go's runtime may notice a concurrent access to a map, and then ends the process:
\* no recover, no Close.
ConcurrentMapAccess(h) ==
    /\ Running /\ WritesSharedMap(h)
    /\ daemon' = "fatal"
    /\ UNCHANGED <<meshes, node, live, addrs, request, beat, closed, history, failures>>

---------------------------------------------------------------------------

Init ==
    /\ meshes = [m \in Mesh |-> None]
    /\ node = [p \in Request |-> Absent]
    /\ live = {} /\ addrs = [p \in Request |-> {}]
    /\ pc = [h \in Request |-> "new"]
    /\ mesh = [h \in Request |-> None]
    /\ prov = [h \in Request |-> None]
    /\ got = [h \in Request |-> Absent]
    /\ ip = [h \in Request |-> Absent]
    /\ found = [h \in Request |-> FALSE]
    /\ beat = NoBeat
    /\ daemon = "up" /\ closed = {}
    /\ removed = FALSE /\ left = {} /\ overlap = FALSE
    /\ failures = 0

Next ==
    \/ \E h \in Request, m \in Mesh :
         CreateMesh(h, m) \/ JoinMesh(h, m) \/ LeaveMesh(h, m)
         \/ SetNode(h, m) \/ SetService(h, m)
    \/ \E h \in Request :
         \/ FetchMesh(h) \/ CreateInterface(h) \/ StoreMesh(h)
         \/ AddSelf(h) \/ AddSelfPanics(h) \/ AddAddress(h) \/ AddNode(h) \/ JoinFails(h)
         \/ RemoveNode(h) \/ DeleteMesh(h) \/ RemoveInterface(h) \/ RemoveInterfaceFails(h)
         \/ ContainsEntry(h) \/ GetEntry(h) \/ PutEntry(h) \/ PutService(h)
         \/ ConcurrentMapAccess(h)
    \/ HeartBeat \/ BeatNodeExists \/ BeatContains \/ BeatGet \/ BeatPut
    \/ Interrupt \/ Exit \/ \E m \in Mesh : CloseMesh(m)

Spec == Init /\ [][Next]_vars

---------------------------------------------------------------------------
(* Properties *)

Mapped == {meshes[m] : m \in Mesh} \ {None}

\* While the daemon is up every mesh in the map has its interface, whatever
\* requests run: LeaveMesh removes the interface of the provider it began with
\* and only after the identifier is gone, so that the interface of a mesh that
\* was joined again in the meantime stays.  ApplyConfig gives up on all meshes
\* when the device of one is missing.
MeshHasDevice == daemon = "up" => Mapped \subseteq live

\* A mesh that LeaveMesh reported as left is gone, for good: it is not in the
\* map, and the kernel does not have its interface any more.
LeftMeansGone == left \cap (Mapped \cup live) = {}

\* Joins and updates alone neither stop the heartbeat nor make the daemon panic,
\* however they interleave, and no join that fails halfway and leaves a mesh
\* without the daemon's entry does: nothing they find missing is dereferenced.
\* It takes a request to leave (or, for the end of the process and not for the
\* heartbeat, the runtime noticing a data race: daemon = "fatal", which joins and
\* updates of services can bring about by themselves).
NoLeaveNoPanic == ~removed => beat.pc # "stopped" /\ daemon # "panicked"

\* As long as requests about one mesh come one after the other, and not during
\* the shutdown, and nothing outside the daemon fails, no interface is lost:
\* each belongs to a mesh in the map that is not closed, to a join that is
\* about to put it there, or to a leave that is about to remove it.
NoInterfaceLost ==
    LET joining == {h \in Request : pc[h] = "store"}
        leaving == {prov[h] : h \in {g \in Request : pc[g] = "remove"}}
        kept == {meshes[m] : m \in Mesh \ closed}
    IN  ~overlap /\ failures = 0 => live \subseteq joining \cup leaving \cup kept

\* The address that the daemon announces in a mesh is on the interface of that
\* mesh, as long as requests about it come one after the other: the peers send
\* to the entry's address, and the kernel accepts what its interface has.
EntryHasItsAddress ==
    ~overlap /\ daemon = "up" =>
        \A p \in Mapped : node[p] \in Address => node[p] \in addrs[p]
=============================================================================
