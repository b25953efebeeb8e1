------------------------------- MODULE RouteLeak -------------------------------
(***************************************************************************)
(* Route leaking between meshes (pkg/mesh/route.go): a daemon that is in   *)
(* several meshes advertises in each of them how to reach the others, and  *)
(* passes on what others advertise, in the manner of a path-vector         *)
(* protocol.  Advertisements live in the nodes' entries of the replicated  *)
(* store and travel by gossip, which this module abstracts to "a replica   *)
(* takes over the entry its owner has now" (MeshSync models the gossip).   *)
(* Every node has the peer role and none is marked unreachable.            *)
(***************************************************************************)
EXTENDS Integers, Sequences, Functions

CONSTANTS
    Node,          \* the daemons
    Mesh,          \* mesh identifiers; a mesh stands for its own prefix too
    Default,       \* the destination ::/0
    Member0,       \* <<n, m>>: the daemon is in the mesh at the start
    Churn,         \* <<n, m>>: the daemon may leave and join the mesh
    AdvertiseRoutes,        \* <<n, m>>: the configuration flag of that name
    AdvertiseDefaultRoute,  \* <<n, m>>: the configuration flag of that name
    MaxChurn       \* bound on the number of leaves and joins

ASSUME RouteLeakAssumption ==
    /\ Default \notin Mesh
    /\ MaxChurn \in Nat
    /\ {Member0, Churn, AdvertiseRoutes, AdvertiseDefaultRoute} \subseteq SUBSET (Node \X Mesh)

VARIABLES
    meshes,   \* meshes[n]: the keys of the manager's map of meshes
    joining,  \* <<n, m>>: n has added m but not yet itself to m
    entry,    \* entry[n][m]: n's replica of m, the routes of each node it lists
    churned   \* leaves and joins so far

vars == <<meshes, joining, entry, churned>>

Destination == Mesh \cup {Default}

\* A route as it is advertised in a mesh.  A node's routes in a mesh are a set
\* with at most one route to a destination: the Go map is keyed by destination.
Route == [in : Mesh, dest : Destination, path : Seq(Mesh)]
HopCount(r) == Len(r.path)
SameKey(r, s) == r.in = s.in /\ r.dest = s.dest

Listed(n, m) == n \in DOMAIN entry[n][m]
Own(n, m) == entry[n][m][n]

TypeOK ==
    /\ meshes \in [Node -> SUBSET Mesh]
    /\ joining \subseteq Node \X Mesh
    /\ DOMAIN entry = Node
    /\ \A n \in Node :
        /\ DOMAIN entry[n] = Mesh
        /\ \A m \in Mesh :
            /\ DOMAIN entry[n][m] \subseteq Node
            /\ \A k \in DOMAIN entry[n][m] :
                /\ \A r \in entry[n][m][k] : r \in Route /\ r.in = m /\ HopCount(r) > 0
                /\ \A r, s \in entry[n][m][k] : SameKey(r, s) => r = s
    /\ churned \in 0..MaxChurn

---------------------------------------------------------------------------
(* The data store *)

\* The loops of AddRoutes and of GetRoutes: an offered route replaces the one
\* that is there when it is shorter.  Of the shortest offered the first wins,
\* and their order comes from iterating over Go maps.
TakeShorter(routes, offered) ==
    LET stay == {r \in routes : \A s \in offered : SameKey(r, s) => HopCount(r) <= HopCount(s)}
        win == {s \in offered :
                  /\ \A r \in stay : ~SameKey(r, s)
                  /\ \A t \in offered : SameKey(s, t) => HopCount(s) <= HopCount(t)}
        tied == {s \in win : \E t \in win : SameKey(s, t) /\ s # t}
    IN  {stay \cup (win \ tied) \cup picked : picked \in
            {P \in SUBSET tied :
                /\ \A s \in tied : \E t \in P : SameKey(s, t)
                /\ \A s, t \in P : SameKey(s, t) => s = t}}

AddRoutes(routes, offered) == TakeShorter(routes, offered)

\* Mutant: no route is retracted.
RemoveRoutesNone(routes, keep) == routes

\* RemoveRoutes of those that are RouteEqual to none of the routes to keep.
RemoveRoutes(routes, keep) == routes \cap keep

\* GetRoutes in all the meshes ms: the node's own routes as they are, and the
\* routes of the other peers with the mesh appended to their paths.
GetRoutes(n, ms, own) ==
    TakeShorter({r \in own : r.in \in ms},
        {[r EXCEPT !.path = Append(@, r.in)] :
            r \in UNION {UNION {entry[n][m][k] : k \in DOMAIN entry[n][m] \ {n}} : m \in ms}})

---------------------------------------------------------------------------
(* UpdateRoutes *)

\* The default routes a node stores, and advertises, in the meshes ms.
DefaultRoutes(n, ms) ==
    {[in |-> m, dest |-> Default, path |-> <<m>>] :
        m \in {m1 \in ms : <<n, m1>> \in AdvertiseRoutes \cap AdvertiseDefaultRoute}}

\* Mutant: the filter looks at the destination only.
LeakToUnfiltered(m, routes) ==
    {[r EXCEPT !.in = m] : r \in {s \in routes : s.in # m /\ s.dest # m}}

\* What is learnt in one mesh is advertised in another, but for "any potential
\* routing loops".
LeakTo(m, routes) ==
    {[r EXCEPT !.in = m] :
        r \in {s \in routes : s.in # m /\ s.dest # m /\ m \notin Range(Tail(s.path))}}

\* The routes to advertise in the meshes ms, when table are those found in adv.
Leaked(ms, adv, table) ==
    LET prefixes == {[in |-> m, dest |-> m, path |-> <<m>>] : m \in adv}
    IN  UNION {LeakTo(m, prefixes \cup table) : m \in ms}

\* Mutant: every mesh is given the routes meant for all of them.
SetOwnUnsplit(n, ms, own) ==
    entry' = [entry EXCEPT ![n] = [m \in Mesh |->
        IF m \in ms THEN [entry[n][m] EXCEPT ![n] = own] ELSE entry[n][m]]]

SetOwn(n, ms, own) ==
    entry' = [entry EXCEPT ![n] = [m \in Mesh |->
        IF m \in ms THEN [entry[n][m] EXCEPT ![n] = {r \in own : r.in = m}]
                    ELSE entry[n][m]]]

\* GetNode fails for a mesh the node has not yet added itself to.  The first
\* loop returns then, after some of the default routes have been stored.
UpdateRoutesFails(n) ==
    LET adv == {m \in meshes[n] : <<n, m>> \in AdvertiseRoutes}
    IN  /\ \E m \in adv : ~Listed(n, m)
        /\ \E done \in SUBSET {m \in adv : Listed(n, m)} :
           \E own \in AddRoutes(UNION {Own(n, m) : m \in done}, DefaultRoutes(n, done)) :
                SetOwn(n, done, own)
        /\ UNCHANGED <<meshes, joining, churned>>

\* Otherwise the routes of all advertising meshes are collected and each mesh
\* gets its new ones; the second loop stops at a mesh the node is not yet in.
UpdateRoutes(n) ==
    LET adv == {m \in meshes[n] : <<n, m>> \in AdvertiseRoutes}
        there == {m \in meshes[n] : Listed(n, m)}
    IN  /\ adv \subseteq there
        /\ \E own \in AddRoutes(UNION {Own(n, m) : m \in there}, DefaultRoutes(n, there)) :
           \E table \in GetRoutes(n, adv, own) :
           \E done \in IF there = meshes[n] THEN {there} ELSE SUBSET there :
           \E leaked \in {Leaked(done, adv, table) \cup DefaultRoutes(n, done)} :
           \E new \in AddRoutes(RemoveRoutes(own, leaked), leaked) :
                SetOwn(n, there, new \cup {r \in own : r.in \notin done})
        /\ UNCHANGED <<meshes, joining, churned>>

---------------------------------------------------------------------------
(* The environment of UpdateRoutes: gossip, joining and leaving *)

\* A replica in which node k has the entry routes, whether or not it had one.
WithEntry(replica, k, routes) ==
    [j \in DOMAIN replica \cup {k} |-> IF j = k THEN routes ELSE replica[j]]

\* n's replica of m takes over k's entry, or the news that k has left.
Gossip(n, k, m) ==
    /\ n # k /\ m \in meshes[n]
    /\ \/ /\ m \in meshes[k] /\ Listed(k, m)
          /\ k \in DOMAIN entry[n][m] => entry[n][m][k] # Own(k, m)
          /\ entry' = [entry EXCEPT ![n][m] = WithEntry(@, k, Own(k, m))]
       \/ /\ m \notin meshes[k] /\ k \in DOMAIN entry[n][m]
          /\ entry' = [entry EXCEPT ![n][m] = Restrict(@, DOMAIN @ \ {k})]
    /\ UNCHANGED <<meshes, joining, churned>>

\* AddMesh loads the replica of a peer; CreateMesh starts with an empty one.
JoinMesh(n, m) ==
    /\ <<n, m>> \in Churn /\ m \notin meshes[n] /\ churned < MaxChurn
    /\ meshes' = [meshes EXCEPT ![n] = @ \cup {m}]
    /\ joining' = joining \cup {<<n, m>>}
    /\ \/ /\ \A k \in Node : m \notin meshes[k]
          /\ UNCHANGED entry
       \/ \E k \in Node : m \in meshes[k] /\ entry' = [entry EXCEPT ![n][m] = entry[k][m]]
    /\ churned' = churned + 1

\* The second half of a join: a new entry without routes.
AddSelf(n, m) ==
    /\ <<n, m>> \in joining
    /\ joining' = joining \ {<<n, m>>}
    /\ entry' = [entry EXCEPT ![n][m] = WithEntry(@, n, {})]
    /\ UNCHANGED <<meshes, churned>>

LeaveMesh(n, m) ==
    /\ <<n, m>> \in Churn /\ m \in meshes[n] /\ <<n, m>> \notin joining
    /\ churned < MaxChurn
    /\ meshes' = [meshes EXCEPT ![n] = @ \ {m}]
    /\ entry' = [entry EXCEPT ![n][m] = [k \in {} |-> {}]]
    /\ churned' = churned + 1
    /\ UNCHANGED joining

---------------------------------------------------------------------------

Init ==
    /\ meshes = [n \in Node |-> {m \in Mesh : <<n, m>> \in Member0}]
    /\ joining = {}
    /\ entry = [n \in Node |-> [m \in Mesh |->
            [k \in {j \in Node : {<<n, m>>, <<j, m>>} \subseteq Member0} |-> {}]]]
    /\ churned = 0

\* The steps a daemon takes by itself.
DaemonStep(n) ==
    \/ \E m \in Mesh : AddSelf(n, m) \/ \E k \in Node : Gossip(n, k, m)
    \/ UpdateRoutes(n)
    \/ UpdateRoutesFails(n)

Next ==
    \E n \in Node :
        \/ DaemonStep(n)
        \/ \E m \in Mesh : JoinMesh(n, m) \/ LeaveMesh(n, m)

Spec == Init /\ [][Next]_vars

\* A daemon whose routes or replicas are out of date takes a step: SyncMeshes
\* runs on a timer and ends with UpdateRoutes, gossip goes on, and a JoinMesh
\* that has added the mesh goes on to add the node.
Fairness == \A n \in Node : WF_vars(DaemonStep(n))

FairSpec == Spec /\ Fairness

---------------------------------------------------------------------------
(* Properties *)

AllRoutes == UNION {entry[x[1]][x[2]][x[3]] :
    x \in {y \in Node \X Mesh \X Node : y[3] \in DOMAIN entry[y[1]][y[2]]}}

\* No route is a loop: after its first hop a path advertised in a mesh visits
\* no mesh twice, and neither that mesh nor the destination.  Each daemon
\* filters only the routes it adds itself (route.go, "Remove any potential
\* routing loops"); that paths grown by several daemons in turn stay simple
\* needs the filters of all of them.
NoRoutingLoops ==
    \A r \in AllRoutes :
        /\ r.dest # r.in
        /\ Range(Tail(r.path)) \cap {r.in, r.dest} = {}
        /\ IsInjective(Tail(r.path))

Deserted(d) == \A n \in Node : d \notin meshes[n]
Advertised(d) ==
    \E n \in Node : \E m \in meshes[n] : Listed(n, m) /\ \E r \in Own(n, m) : r.dest = d

StaleRoutes == \E d \in Mesh : Deserted(d) /\ Advertised(d)

\* Routes to meshes that everyone has left do not live on by being passed
\* around: there is always a later time when nobody advertises such a mesh
\* (route.go: "Make empty routes so that routes are retracted").
RoutesRetracted == StaleRoutes ~> ~StaleRoutes
=============================================================================
