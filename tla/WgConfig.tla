-------------------------------- MODULE WgConfig --------------------------------
(***************************************************************************)
(* ApplyConfig (pkg/mesh/config.go): one daemon turns what its stores say  *)
(* of its meshes into the configuration of its WireGuard devices and the   *)
(* routes of the kernel (pkg/route, pkg/lib/rtnetlink.go), while gossip    *)
(* changes the stores.  Go's maps are iterated in any order.               *)
(*                                                                         *)
(* The prefix of a mesh is the mesh itself, the address of a node in a     *)
(* mesh the node itself.  Endpoints and keepalives are left out.           *)
(***************************************************************************)
EXTENDS Naturals, Sequences, FiniteSets, SequencesExt

CONSTANTS
    Node, Client,    \* daemons, and those that are clients; the others are peers
    Mesh,            \* the meshes of the daemon
    Members,         \* Members[s][m]: the nodes that may be in mesh m of daemon s
    Dest,            \* destinations of routes: Mesh and other prefixes
    Hash,            \* HashString of a node's public key
    MaxHops,         \* bound on the length of an advertised path
    MaxChanges,      \* bound on the changes that come by gossip
    MaxFailures      \* bound on failures of netlink

None == "none"

ASSUME WgConfigAssumption ==
    /\ IsFiniteSet(Node) /\ IsFiniteSet(Mesh) /\ None \notin Node
    /\ Client \subseteq Node /\ Mesh \subseteq Dest
    /\ Dest \cap Node = {}
    /\ DOMAIN Members \subseteq Node
    /\ \A s \in DOMAIN Members : Members[s] \in [Mesh -> SUBSET Node]
    /\ Hash \in [Node -> Nat]
    /\ \A n, k \in Node : Hash[n] = Hash[k] => n = k
    /\ {MaxHops, MaxChanges, MaxFailures} \subseteq Nat /\ MaxHops > 0

VARIABLES
    self,       \* the daemon; never changes
    listed,     \* per mesh, the nodes in its store
    adv,        \* per mesh, node and destination: hop count advertised, or 0
    device,     \* per mesh, its WireGuard device: peers, and who owns a prefix
    rib,        \* the kernel's routes: per destination a mesh and a gateway
    apply,      \* the ApplyConfig call that runs
    fresh,      \* history: the stores are as the last successful ApplyConfig saw them
    changes, failures

stores == <<listed, adv>>
kernel == <<device, rib>>
vars == <<self, stores, kernel, apply, fresh, changes, failures>>

Prefix == Node \cup Dest
NoRoutes == [d \in Dest |-> <<>>]
Idle == [pc |-> "idle", todo |-> {}, routes |-> NoRoutes, same |-> FALSE]

\* A routeNode: the gateway and the length of the path.
IsRouteList(l) ==
    \A i \in DOMAIN l : l[i].gw \in Node /\ l[i].hops \in 1..MaxHops + 1

TypeOK ==
    /\ self \in Node
    /\ listed \in [Mesh -> SUBSET Node]
    /\ adv \in [Mesh -> [Node -> [Dest -> 0..MaxHops]]]
    /\ device \in [Mesh -> [peers : SUBSET Node, owner : [Prefix -> Node \cup {None}]]]
    /\ \A m \in Mesh : \A x \in Prefix :
         device[m].owner[x] # None => device[m].owner[x] \in device[m].peers
    /\ rib \in [Dest -> (Mesh \X Node) \cup {<<>>}]
    /\ apply.pc \in {"idle", "collect", "update", "panicked"}
    /\ apply.todo \subseteq Mesh
    /\ \A d \in Dest : IsRouteList(apply.routes[d])
    /\ fresh \in BOOLEAN
    /\ changes \in 0..MaxChanges /\ failures \in 0..MaxFailures

---------------------------------------------------------------------------
(* Who talks to whom *)

\* GetNode finds the daemon's own entry.
HasSelf(m) == self \in listed[m]

PeersOf(m) == listed[m] \ Client
ClientsOf(m) == listed[m] \cap Client

\* The bucket with the least hash that is not below the key's, or the least.
ConsistentHash(values, key) ==
    LET above == {v \in values : Hash[v] >= Hash[key]}
        ring == IF above # {} THEN above ELSE values
    IN  CHOOSE v \in ring : \A w \in ring : Hash[v] <= Hash[w]

\* Mutant: a daemon does not count itself among the peers.
CorrespondingPeerOfOthers(s, m, c) == ConsistentHash(PeersOf(m) \ {s}, c)

\* getCorrespondingPeer, as daemon s computes it: the peer behind which the
\* client c is.
CorrespondingPeer(s, m, c) == ConsistentHash(PeersOf(m), c)

---------------------------------------------------------------------------
(* getRoutes and getAllRoutes *)

\* Mutant: both the client and its peer are added to the path.
RouteNodeLonger(m, n, d) ==
    IF n \in Client
    THEN [gw |-> CorrespondingPeer(self, m, n), hops |-> adv[m][n][d] + 2]
    ELSE [gw |-> n, hops |-> adv[m][n][d]]

\* The routeNode for what n advertises: a client is reached through its peer.
RouteNode(m, n, d) ==
    LET p == CorrespondingPeer(self, m, n)
    IN  IF n \in Client /\ p # self
        THEN [gw |-> p, hops |-> adv[m][n][d] + 1]
        ELSE [gw |-> n, hops |-> adv[m][n][d]]

\* Mutant: a shorter route is appended like one of equal length.
AddRouteNodeAlways(routes, rn, hops) == Append(routes, rn)

\* One turn of getRoutes' loop.  The route's own hop count is compared, not the
\* routeNode's, and a shorter one replaces only the first of the list.
AddRouteNode(routes, rn, hops) ==
    IF routes = <<>> THEN <<rn>>
    ELSE IF hops < routes[1].hops THEN [routes EXCEPT ![1] = rn]
    ELSE IF hops = routes[1].hops THEN Append(routes, rn)
    ELSE routes

\* The nodes whose turn in the loop may do something.
Advertisers(m) == {n \in listed[m] : \E d \in Dest \ Mesh : adv[m][n][d] > 0}

\* getRoutes' loop: the routes to d after each turn, with the nodes in this
\* order.  Destinations in a mesh of the daemon are left out.
RoutesAfter(m, order, d) ==
    LET routes[i \in 0..Len(order)] ==
            IF i = 0 THEN <<>>
            ELSE IF d \in Mesh \/ adv[m][order[i]][d] = 0 THEN routes[i - 1]
            ELSE AddRouteNode(routes[i - 1], RouteNode(m, order[i], d), adv[m][order[i]][d])
    IN  routes

\* getRoutes of mesh m.
GetRoutes(m, order) == [d \in Dest |-> RoutesAfter(m, order, d)[Len(order)]]

\* getAllRoutes: the routes of another mesh join those collected so far.
MergeRoutes(all, routes) ==
    [d \in Dest |->
        IF all[d] = <<>> THEN routes[d]
        ELSE IF routes[d] = <<>> THEN all[d]
        ELSE IF all[d][1].hops = routes[d][1].hops THEN all[d] \o routes[d]
        ELSE IF routes[d][1].hops < all[d][1].hops THEN routes[d] ELSE all[d]]

---------------------------------------------------------------------------
(* The kernel *)

\* ConfigureDevice: the nodes of configs, in this order, have their allowed IPs
\* replaced, and a prefix belongs to the one that got it last; gone are removed.
ConfigureDevice(dev, order, configs, allowed, gone) ==
    [peers |-> (dev.peers \cup configs) \ gone,
     owner |-> [x \in Prefix |->
        LET given == {i \in DOMAIN order : order[i] \in configs /\ x \in allowed[order[i]]}
        IN  IF given # {}
            THEN order[CHOOSE i \in given : \A j \in given : j <= i]
            ELSE IF dev.owner[x] \in gone \cup configs THEN None ELSE dev.owner[x]]]

\* listRoutes: the destinations that the kernel routes into the interface.
ListRoutes(m) == {d \in Dest : rib[d] # <<>> /\ rib[d][1] = m}

\* DeleteRoutes: those routes of the interface that are not wanted, ...
Unwanted(m, gateways, dests) ==
    {d \in ListRoutes(m) : ~ \E i \in DOMAIN gateways :
                              gateways[i] = rib[d][2] /\ d \in dests[gateways[i]]}

\* Mutant: routes are added and never deleted.
DeleteRouteNone(unwanted) == rib

\* ... which DeleteRoute takes from the kernel.
DeleteRoute(unwanted) == [d \in Dest |-> IF d \in unwanted THEN <<>> ELSE rib[d]]

\* AddRoute for the destinations of the first done gateways, in order.  The
\* kernel has one route to a destination, and AddRoute replaces it.
AddRoute(routes, m, gateways, dests, done) ==
    [d \in Dest |->
        LET given == {i \in 1..done : d \in dests[gateways[i]]}
        IN  IF given # {}
            THEN <<m, gateways[CHOOSE i \in given : \A j \in given : j <= i]>>
            ELSE routes[d]]

\* With done < Len(gateways), netlink failed on the way.
InstallRoutes(m, gateways, dests, done) ==
    AddRoute(DeleteRoute(Unwanted(m, gateways, dests)), m, gateways, dests, done)

---------------------------------------------------------------------------
(* The configuration of a device *)

\* convertMeshNode: the allowed IPs of node n.  The route picked among the best
\* for a destination is the one that the node's own key hashes to.
ConvertMeshNode(s, m, n, routes) ==
    {n} \cup {c \in ClientsOf(m) : n \notin Client /\ CorrespondingPeer(s, m, c) = n}
        \cup {d \in Dest :
                /\ routes[d] # <<>>
                /\ ConsistentHash({routes[d][i].gw : i \in DOMAIN routes[d]}, n) = n}

\* The nodes that a peer has on its device: its own clients and the other peers.
PeerConfigs(s, m) ==
    {c \in ClientsOf(m) : PeersOf(m) # {} /\ CorrespondingPeer(s, m, c) = s}
        \cup (PeersOf(m) \ {s})

\* The node that a client has on its device.
ClientConfigs(s, m) == {CorrespondingPeer(s, m, s)}

\* getClientConfig: everything goes to the one peer.
ClientAllowed(m, routes) ==
    {m} \cup {d \in Dest : \E i \in DOMAIN routes[d] : routes[d][i].gw \in listed[m]}

\* Mutant: nothing is removed.
PeerCfgsToRemoveNone(m, configs) == {}

\* getPeerCfgsToRemove.
PeerCfgsToRemove(m, configs) == device[m].peers \ configs

---------------------------------------------------------------------------
(* ApplyConfig *)

StartApply ==
    /\ apply.pc = "idle"
    /\ apply' = [pc |-> "collect", todo |-> Mesh, routes |-> NoRoutes, same |-> TRUE]
    /\ UNCHANGED <<self, stores, kernel, fresh, changes, failures>>

\* ApplyConfig returns an error.
Abort == apply' = Idle /\ fresh' = FALSE

\* The turn of mesh m in getAllRoutes.  A client's route needs the daemon's own
\* entry, and panics without a peer.
CollectRoutes(m) ==
    /\ apply.pc = "collect" /\ m \in apply.todo
    /\ LET fromClients == \E c \in ClientsOf(m), d \in Dest \ Mesh : adv[m][c][d] > 0
       IN  IF fromClients /\ PeersOf(m) = {}
           THEN apply' = [Idle EXCEPT !.pc = "panicked"] /\ fresh' = FALSE
           ELSE IF fromClients /\ ~HasSelf(m)
           THEN Abort
           ELSE /\ \E routes \in {GetRoutes(m, o) : o \in SetToSeqs(Advertisers(m))} :
                     apply' = [apply EXCEPT
                                !.todo = IF @ = {m} THEN Mesh ELSE @ \ {m},
                                !.pc = IF apply.todo = {m} THEN "update" ELSE "collect",
                                !.routes = MergeRoutes(@, routes)]
                /\ UNCHANGED fresh
    /\ UNCHANGED <<self, stores, kernel, changes, failures>>

\* The next mesh, or the end of ApplyConfig.
NextMesh(m) ==
    IF apply.todo = {m}
    THEN apply' = Idle /\ fresh' = apply.same
    ELSE apply' = [apply EXCEPT !.todo = @ \ {m}] /\ UNCHANGED fresh

\* updateWgConf of a client: the one peer; an error without any.  That routes
\* could not be installed is ignored.
UpdateClient(m) ==
    /\ self \in Client
    /\ IF PeersOf(m) = {}
       THEN Abort /\ UNCHANGED <<kernel, failures>>
       ELSE LET p == CorrespondingPeer(self, m, self)
                allowed == ClientAllowed(m, apply.routes)
                configs == ClientConfigs(self, m)
            IN  /\ \E ok \in BOOLEAN :
                     /\ ok \/ failures < MaxFailures
                     /\ failures' = failures + (IF ok THEN 0 ELSE 1)
                     /\ rib' = InstallRoutes(m, <<p>>, [n \in {p} |-> allowed \ {m}],
                                             IF ok THEN 1 ELSE 0)
                     /\ IF ok
                        THEN NextMesh(m)
                        ELSE IF apply.todo = {m} THEN Abort
                        ELSE apply' = [apply EXCEPT !.todo = @ \ {m}, !.same = FALSE]
                             /\ UNCHANGED fresh
                /\ device' = [device EXCEPT ![m] =
                     ConfigureDevice(@, <<p>>, configs, [n \in {p} |-> allowed],
                                     PeerCfgsToRemove(m, configs))]

\* ... and ConfigureDevice fails, when they are installed.
ConfigureClientFails(m) ==
    /\ self \in Client /\ PeersOf(m) # {}
    /\ failures < MaxFailures
    /\ failures' = failures + 1
    /\ LET p == CorrespondingPeer(self, m, self)
           dests == ClientAllowed(m, apply.routes) \ {m}
       IN  rib' = InstallRoutes(m, <<p>>, [n \in {p} |-> dests], 1)
    /\ Abort
    /\ UNCHANGED device

\* updateWgConf of a peer: routes first, and the device only if they succeed.
UpdatePeer(m) ==
    /\ self \notin Client
    /\ \E clients \in SetToSeqs(ClientsOf(m)), peers \in SetToSeqs(PeersOf(m) \ {self}),
          allowed \in {[n \in listed[m] |-> ConvertMeshNode(self, m, n, apply.routes)]} :
         LET order == clients \o peers
             dests == [n \in listed[m] |-> allowed[n] \cap Dest]
             configs == PeerConfigs(self, m)
         IN  \/ /\ rib' = InstallRoutes(m, order, dests, Len(order))
                /\ device' = [device EXCEPT ![m] =
                     ConfigureDevice(@, order, configs, allowed, PeerCfgsToRemove(m, configs))]
                /\ NextMesh(m)
                /\ UNCHANGED failures
             \/ /\ failures < MaxFailures
                /\ failures' = failures + 1
                /\ \E done \in 0..Len(order) :
                     rib' = InstallRoutes(m, order, dests, done)
                /\ Abort
                /\ UNCHANGED device

\* updateWgConf; the daemon's own entry must be there.
UpdateWgConf(m) ==
    /\ apply.pc = "update" /\ m \in apply.todo
    /\ IF HasSelf(m)
       THEN UpdateClient(m) \/ ConfigureClientFails(m) \/ UpdatePeer(m)
       ELSE Abort /\ UNCHANGED <<kernel, failures>>
    /\ UNCHANGED <<self, stores, changes>>

---------------------------------------------------------------------------
(* Gossip changes a store *)

Changed ==
    /\ changes < MaxChanges
    /\ changes' = changes + 1
    /\ fresh' = FALSE
    /\ apply' = [apply EXCEPT !.same = FALSE]
    /\ apply.pc # "panicked"
    /\ UNCHANGED <<self, kernel, failures>>

NodeLeaves(m, n) ==
    /\ Changed
    /\ n \in listed[m]
    /\ listed' = [listed EXCEPT ![m] = @ \ {n}]
    /\ adv' = [adv EXCEPT ![m][n] = [d \in Dest |-> 0]]

NodeArrives(m, n) ==
    /\ Changed
    /\ n \in Members[self][m] \ listed[m]
    /\ listed' = [listed EXCEPT ![m] = @ \cup {n}]
    /\ UNCHANGED adv

\* A node advertises a destination outside the daemon's meshes, at another
\* distance, or no more.
RouteChanges(m, n, d) ==
    /\ Changed
    /\ n \in listed[m] /\ d \notin Mesh
    /\ \E hops \in (0..MaxHops) \ {adv[m][n][d]} :
         adv' = [adv EXCEPT ![m][n][d] = hops]
    /\ UNCHANGED listed

---------------------------------------------------------------------------

\* Who is in two of the meshes advertises each in the other.
Init ==
    /\ self \in DOMAIN Members
    /\ listed = Members[self]
    /\ adv = [m \in Mesh |-> [n \in Node |-> [d \in Dest |->
                IF d \in Mesh \ {m} /\ n \in listed[m] \cap listed[d] THEN 1 ELSE 0]]]
    /\ device = [m \in Mesh |-> [peers |-> {}, owner |-> [x \in Prefix |-> None]]]
    /\ rib = [d \in Dest |-> <<>>]
    /\ apply = Idle /\ fresh = FALSE
    /\ changes = 0 /\ failures = 0

Next ==
    \/ StartApply
    \/ \E m \in Mesh : CollectRoutes(m) \/ UpdateWgConf(m)
    \/ \E m \in Mesh, n \in Node : NodeLeaves(m, n) \/ NodeArrives(m, n)
    \/ \E m \in Mesh, n \in Node, d \in Dest : RouteChanges(m, n, d)

Spec == Init /\ [][Next]_vars

---------------------------------------------------------------------------
(* Properties *)

\* All daemons with the same store agree about a client: its peer has it as a
\* WireGuard peer, and no other does; the others give its address to that
\* peer; and the client has that peer on its device and nobody else.  Each
\* works this out alone, with getCorrespondingPeer.
ClientsAgree ==
    \A m \in Mesh : \A c \in ClientsOf(m) : PeersOf(m) # {} =>
        \E p \in PeersOf(m) :
            /\ ClientConfigs(c, m) = {p}
            /\ \A q \in PeersOf(m) : c \in PeerConfigs(q, m) <=> q = p
            /\ \A q \in PeersOf(m) \ {p} : c \in ConvertMeshNode(q, m, p, NoRoutes)

Settled == fresh /\ apply.pc = "idle"

\* When ApplyConfig has succeeded and no store has changed since it began, the
\* devices know the nodes of the stores, neither more nor fewer, also if
\* earlier calls failed halfway.
DevicesFollowStores ==
    Settled => \A m \in Mesh :
        device[m].peers = IF self \in Client THEN ClientConfigs(self, m) ELSE PeerConfigs(self, m)

\* A client that is behind the daemon in one mesh and behind another peer in
\* another mesh of the daemon.
SplitClient(c) ==
    \E m1, m2 \in Mesh :
        /\ c \in ClientsOf(m1) \cap ClientsOf(m2)
        /\ CorrespondingPeer(self, m1, c) = self /\ CorrespondingPeer(self, m2, c) # self

\* ... and what the kernel routes into a device for a gateway, the device sends
\* to that gateway; what a device would take is routed to some device.  A split
\* client is an exception: getPeerConfig installs the routes of every client,
\* also of those it does not put on the device.
RoutesMatchDevices ==
    Settled /\ (\A c \in Client : ~SplitClient(c)) => \A d \in Dest \ Mesh :
        /\ rib[d] # <<>> => device[rib[d][1]].owner[d] = rib[d][2]
        /\ rib[d] = <<>> => \A m \in Mesh : device[m].owner[d] = None

\* ... and the gateway to a destination is one of the nearest, "the routes with
\* the least hop distance", of a daemon that is a peer, if at most two nodes
\* advertise it and they are peers too.
NearestGateway ==
    Settled => \A d \in Dest \ Mesh :
        LET gateways == {mn \in Mesh \X Node : adv[mn[1]][mn[2]][d] > 0}
            hops(mn) == adv[mn[1]][mn[2]][d]
        IN  /\ self \notin Client
            /\ Cardinality(gateways) <= 2
            /\ \A mn \in gateways : mn[2] \notin Client
            /\ rib[d] # <<>>
            => \E mn \in gateways : /\ mn[2] = rib[d][2]
                                    /\ \A ml \in gateways : hops(mn) <= hops(ml)

\* ApplyConfig on stores that have not changed changes no route: "If more than
\* one route exists consistently hash to evenly spread the distribution of
\* traffic", so a destination keeps its gateway.
StableGateway ==
    [][fresh /\ fresh' /\ UNCHANGED stores => \A d \in Dest : rib[d] # <<>> => rib'[d] = rib[d]]_vars
=============================================================================
