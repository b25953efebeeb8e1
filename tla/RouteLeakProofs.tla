--------------------------- MODULE RouteLeakProofs ---------------------------
(***************************************************************************)
(* Proofs about route leaking, for any daemons, meshes, configuration and  *)
(* churn: the state is well typed (in particular a node advertises at most *)
(* one route to a destination in a mesh), no advertised route is a loop,   *)
(* and no path is longer than the number of meshes, so that routes cannot  *)
(* count to infinity.                                                      *)
(***************************************************************************)
EXTENDS RouteLeak, FiniteSetTheorems, SequenceTheorems, TLAPS

---------------------------------------------------------------------------
(* The inductive invariant *)

\* What a daemon may pass on: a path that visits no mesh twice after its first
\* hop, nor the destination.
Simple(r) ==
    /\ r \in Route /\ HopCount(r) > 0
    /\ r.dest \notin Range(Tail(r.path))
    /\ IsInjective(Tail(r.path))

\* What it may advertise: the path does not lead back to the mesh either.
LoopFree(r) == Simple(r) /\ r.dest # r.in /\ r.in \notin Range(Tail(r.path))

OneEach(routes) == \A r, s \in routes : SameKey(r, s) => r = s

\* The routes of a node in mesh m.
Advertisable(routes, m) ==
    /\ \A r \in routes : LoopFree(r) /\ r.in = m
    /\ OneEach(routes)

StateTypes ==
    /\ meshes \in [Node -> SUBSET Mesh]
    /\ joining \subseteq Node \X Mesh
    /\ churned \in 0..MaxChurn

EntryInv ==
    /\ DOMAIN entry = Node
    /\ \A n \in Node :
        /\ DOMAIN entry[n] = Mesh
        /\ \A m \in Mesh :
            /\ DOMAIN entry[n][m] \subseteq Node
            /\ \A k \in DOMAIN entry[n][m] : Advertisable(entry[n][m][k], m)

RouteInv == StateTypes /\ EntryInv

---------------------------------------------------------------------------
(* Paths *)

\* The tail of a path that was appended to is the tail of the path, appended to.
LEMMA AppendedTail ==
    ASSUME NEW p \in Seq(Mesh), Len(p) > 0, NEW m \in Mesh
    PROVE  /\ Append(p, m) \in Seq(Mesh) /\ Len(Append(p, m)) > 0
           /\ DOMAIN Tail(p) = 1..Len(p) - 1
           /\ DOMAIN Tail(Append(p, m)) = 1..Len(p)
           /\ \A i \in 1..Len(p) - 1 : Tail(Append(p, m))[i] = Tail(p)[i]
           /\ Tail(Append(p, m))[Len(p)] = m
<1>1. /\ p # <<>> /\ Len(p) \in Nat
      /\ Append(p, m) \in Seq(Mesh) /\ Len(Append(p, m)) = Len(p) + 1
      /\ \A i \in 1..Len(p) : Append(p, m)[i] = p[i]
      /\ Append(p, m)[Len(p) + 1] = m
  OBVIOUS
<1>2. Append(p, m) # <<>>
  BY <1>1
<1>3. /\ Tail(p) \in Seq(Mesh) /\ Len(Tail(p)) = Len(p) - 1
      /\ \A i \in 1..Len(Tail(p)) : Tail(p)[i] = p[i + 1]
  BY <1>1, HeadTailProperties
<1>4. /\ Tail(Append(p, m)) \in Seq(Mesh) /\ Len(Tail(Append(p, m))) = Len(p)
      /\ \A i \in 1..Len(p) : Tail(Append(p, m))[i] = Append(p, m)[i + 1]
  BY <1>1, <1>2, HeadTailProperties
<1>5. \A i \in 1..Len(p) - 1 : Tail(Append(p, m))[i] = Tail(p)[i]
  BY <1>1, <1>3, <1>4
<1> QED
  BY <1>1, <1>3, <1>4, <1>5

\* A path of one mesh has an empty tail.
LEMMA SingletonTail ==
    ASSUME NEW m \in Mesh
    PROVE  /\ <<m>> \in Seq(Mesh) /\ Len(<<m>>) = 1
           /\ Range(Tail(<<m>>)) = {} /\ IsInjective(Tail(<<m>>))
<1>1. <<m>> \in Seq(Mesh) /\ Len(<<m>>) = 1 /\ <<m>> # <<>>
  OBVIOUS
<1>2. Tail(<<m>>) \in Seq(Mesh) /\ Len(Tail(<<m>>)) = 0
  BY <1>1, HeadTailProperties
<1>3. DOMAIN Tail(<<m>>) = {}
  BY <1>2
<1> QED
  BY <1>1, <1>3 DEF Range, IsInjective

\* What GetRoutes makes of the route of another node may be passed on: the
\* mesh appended to the path was neither on it nor the destination.
LEMMA LearntIsSimple ==
    ASSUME NEW r, LoopFree(r)
    PROVE  Simple([r EXCEPT !.path = Append(@, r.in)])
<1> DEFINE p == r.path
           q == Append(p, r.in)
           s == [r EXCEPT !.path = q]
<1>1. /\ r \in Route /\ p \in Seq(Mesh) /\ Len(p) > 0 /\ r.in \in Mesh
      /\ r.dest # r.in /\ r.in \notin Range(Tail(p)) /\ r.dest \notin Range(Tail(p))
      /\ IsInjective(Tail(p))
  BY DEF LoopFree, Simple, Route, HopCount
<1>2. /\ q \in Seq(Mesh) /\ Len(q) > 0
      /\ DOMAIN Tail(p) = 1..Len(p) - 1 /\ DOMAIN Tail(q) = 1..Len(p)
      /\ \A i \in 1..Len(p) - 1 : Tail(q)[i] = Tail(p)[i]
      /\ Tail(q)[Len(p)] = r.in
  BY <1>1, AppendedTail
<1>3. s \in Route /\ s.path = q /\ s.dest = r.dest
  BY <1>1, <1>2 DEF Route
<1>4. \A i \in 1..Len(p) : i = Len(p) \/ i \in 1..Len(p) - 1
  BY <1>1
<1> HIDE DEF p, q
<1>5. \A i \in 1..Len(p) - 1 : Tail(q)[i] # r.in /\ Tail(q)[i] # r.dest
  BY <1>1, <1>2 DEF Range
<1>6. r.dest \notin Range(Tail(q))
  BY <1>1, <1>2, <1>4, <1>5 DEF Range
<1>7. IsInjective(Tail(q))
  BY <1>1, <1>2, <1>4, <1>5 DEF IsInjective
<1> USE DEF p, q
<1> QED
  BY <1>2, <1>3, <1>6, <1>7 DEF Simple, HopCount

\* What is leaked to a mesh may be advertised there.
LEMMA LeakedIsLoopFree ==
    ASSUME NEW routes, \A r \in routes : Simple(r), NEW m \in Mesh,
           NEW s \in LeakTo(m, routes)
    PROVE  LoopFree(s) /\ s.in = m
<1>1. PICK r \in routes : /\ r.in # m /\ r.dest # m /\ m \notin Range(Tail(r.path))
                          /\ s = [r EXCEPT !.in = m]
  BY DEF LeakTo
<1>2. r \in Route
  BY DEF Simple
<1>3. s \in Route /\ s.in = m /\ s.dest = r.dest /\ s.path = r.path
  BY <1>1, <1>2 DEF Route
<1> QED
  BY <1>1, <1>3 DEF Simple, LoopFree, HopCount

\* The routes a daemon starts are simple, and the default routes loop-free.
LEMMA StartingRoutes ==
    /\ \A m \in Mesh : Simple([in |-> m, dest |-> m, path |-> <<m>>])
    /\ \A m \in Mesh : LoopFree([in |-> m, dest |-> Default, path |-> <<m>>])
<1> SUFFICES ASSUME NEW m \in Mesh, NEW d \in Destination
             PROVE  /\ Simple([in |-> m, dest |-> d, path |-> <<m>>])
                    /\ d = Default => LoopFree([in |-> m, dest |-> d, path |-> <<m>>])
  BY DEF Destination
<1> DEFINE r == [in |-> m, dest |-> d, path |-> <<m>>]
<1>1. /\ <<m>> \in Seq(Mesh) /\ Len(<<m>>) = 1
      /\ Range(Tail(<<m>>)) = {} /\ IsInjective(Tail(<<m>>))
  BY SingletonTail
<1>2. r \in Route /\ r.in = m /\ r.dest = d /\ r.path = <<m>>
  BY <1>1 DEF Route
<1>3. d = Default => d # m
  BY RouteLeakAssumption
<1> QED
  BY <1>1, <1>2, <1>3 DEF Simple, LoopFree, HopCount

---------------------------------------------------------------------------
(* Sets of routes *)

\* AddRoutes and GetRoutes only take what was there or is offered, and at most
\* one route to a destination, however many are offered.
LEMMA TakeShorterOneEach ==
    ASSUME NEW routes, NEW offered, OneEach(routes),
           NEW result \in TakeShorter(routes, offered)
    PROVE  result \subseteq routes \cup offered /\ OneEach(result)
<1> DEFINE stay == {r \in routes : \A s \in offered : SameKey(r, s) => HopCount(r) <= HopCount(s)}
           win == {s \in offered :
                     /\ \A r \in stay : ~SameKey(r, s)
                     /\ \A t \in offered : SameKey(s, t) => HopCount(s) <= HopCount(t)}
           tied == {s \in win : \E t \in win : SameKey(s, t) /\ s # t}
<1>1. PICK picked \in SUBSET tied :
         /\ \A s, t \in picked : SameKey(s, t) => s = t
         /\ result = stay \cup (win \ tied) \cup picked
  BY DEF TakeShorter
<1>2. /\ stay \subseteq routes /\ win \subseteq offered
      /\ \A r \in stay, s \in win : ~SameKey(r, s)
      /\ \A s, t \in win : SameKey(s, t) /\ s # t => s \in tied /\ t \in tied
  BY DEF SameKey
<1> HIDE DEF stay, win
<1>3. picked \subseteq win
  BY <1>1
<1>4. result \subseteq routes \cup offered
  BY <1>1, <1>2, <1>3
<1>5. ASSUME NEW r \in result, NEW s \in result, SameKey(r, s)
      PROVE  r = s
  <2>1. SameKey(s, r)
    BY <1>5 DEF SameKey
  <2>2. CASE r \in stay /\ s \in stay
    BY <2>2, <1>2, <1>5 DEF OneEach
  <2>3. CASE r \in win /\ s \in win
    BY <2>3, <1>1, <1>2, <1>3, <1>5
  <2> QED
    BY <1>1, <1>2, <1>3, <1>5, <2>1, <2>2, <2>3
<1> QED
  BY <1>4, <1>5 DEF OneEach

\* The routes of one node in several meshes, taken together.
LEMMA OwnRoutes ==
    ASSUME EntryInv, NEW n \in Node, NEW ms \in SUBSET Mesh, \A m \in ms : Listed(n, m)
    PROVE  /\ \A r \in UNION {Own(n, m) : m \in ms} : LoopFree(r) /\ r.in \in ms
           /\ OneEach(UNION {Own(n, m) : m \in ms})
<1>1. \A m \in ms : Advertisable(Own(n, m), m)
  BY DEF EntryInv, Listed, Own
<1>2. \A r \in UNION {Own(n, m) : m \in ms} : r.in \in ms /\ r \in Own(n, r.in) /\ LoopFree(r)
  BY <1>1 DEF Advertisable
<1>3. ASSUME NEW r \in UNION {Own(n, m) : m \in ms}, NEW s \in UNION {Own(n, m) : m \in ms},
             SameKey(r, s)
      PROVE  r = s
  <2>1. r.in \in ms /\ r \in Own(n, r.in) /\ s \in Own(n, r.in)
    BY <1>2, <1>3 DEF SameKey
  <2> QED
    BY <2>1, <1>1, <1>3 DEF Advertisable, OneEach
<1> QED
  BY <1>2, <1>3 DEF OneEach

\* The default routes of a node, of which there is one in a mesh.
LEMMA DefaultRoutesLoopFree ==
    ASSUME NEW n \in Node, NEW ms \in SUBSET Mesh
    PROVE  \A r \in DefaultRoutes(n, ms) : LoopFree(r) /\ r.in \in ms
<1> SUFFICES ASSUME NEW r \in DefaultRoutes(n, ms) PROVE LoopFree(r) /\ r.in \in ms
  OBVIOUS
<1>1. PICK m \in ms : r = [in |-> m, dest |-> Default, path |-> <<m>>]
  BY DEF DefaultRoutes
<1> QED
  BY <1>1, StartingRoutes

\* GetRoutes yields routes that may be passed on.
LEMMA GetRoutesSimple ==
    ASSUME EntryInv, NEW n \in Node, NEW ms \in SUBSET Mesh,
           NEW own, \A r \in own : LoopFree(r), OneEach(own),
           NEW table \in GetRoutes(n, ms, own)
    PROVE  \A r \in table : Simple(r)
<1> DEFINE mine == {r \in own : r.in \in ms}
           theirs == UNION {UNION {entry[n][m][k] : k \in DOMAIN entry[n][m] \ {n}} : m \in ms}
           learnt == {[r EXCEPT !.path = Append(@, r.in)] : r \in theirs}
<1>1. OneEach(mine)
  BY DEF OneEach
<1>2. table \in TakeShorter(mine, learnt)
  BY DEF GetRoutes
<1> HIDE DEF mine, learnt
<1>3. table \subseteq mine \cup learnt
  BY <1>1, <1>2, TakeShorterOneEach
<1>4. \A r \in theirs : LoopFree(r)
  BY DEF EntryInv, Advertisable
<1> HIDE DEF theirs
<1>5. \A r \in learnt : Simple(r)
  BY <1>4, LearntIsSimple DEF learnt
<1>6. \A r \in mine : Simple(r)
  BY DEF LoopFree, mine
<1> QED
  BY <1>3, <1>5, <1>6

\* What UpdateRoutes wants to advertise in the meshes ms may be advertised.
LEMMA LeakedLoopFree ==
    ASSUME NEW ms \in SUBSET Mesh, NEW advertising \in SUBSET Mesh,
           NEW table, \A r \in table : Simple(r)
    PROVE  \A r \in Leaked(ms, advertising, table) : LoopFree(r) /\ r.in \in ms
<1> DEFINE prefixes == {[in |-> m, dest |-> m, path |-> <<m>>] : m \in advertising}
<1>1. \A r \in prefixes \cup table : Simple(r)
  BY StartingRoutes
<1>2. Leaked(ms, advertising, table) = UNION {LeakTo(m, prefixes \cup table) : m \in ms}
  BY DEF Leaked
<1> HIDE DEF prefixes
<1> QED
  BY <1>1, <1>2, LeakedIsLoopFree

\* Storing a node's routes, each in its mesh.
LEMMA SetOwnKeeps ==
    ASSUME EntryInv, NEW n \in Node, NEW ms \in SUBSET Mesh,
           NEW own, \A r \in own : LoopFree(r), OneEach(own), SetOwn(n, ms, own)
    PROVE  EntryInv'
<1> DEFINE part(m) == {r \in own : r.in = m}
           new == [m \in Mesh |-> IF m \in ms THEN [entry[n][m] EXCEPT ![n] = part(m)]
                                              ELSE entry[n][m]]
<1>1. \A m \in Mesh : Advertisable(part(m), m)
  BY DEF Advertisable, OneEach
<1>2. entry' = [entry EXCEPT ![n] = new]
  BY DEF SetOwn
<1>3. DOMAIN new = Mesh
  OBVIOUS
<1>4. ASSUME NEW m \in Mesh
      PROVE  /\ DOMAIN new[m] = DOMAIN entry[n][m]
             /\ \A k \in DOMAIN new[m] : Advertisable(new[m][k], m)
  <2> HIDE DEF part
  <2>1. \A k \in DOMAIN entry[n][m] : Advertisable(entry[n][m][k], m)
    BY DEF EntryInv
  <2>2. CASE m \in ms
    <3>1. new[m] = [entry[n][m] EXCEPT ![n] = part(m)]
      BY <2>2
    <3> HIDE DEF new
    <3> QED
      BY <3>1, <2>1, <1>1
  <2>3. CASE m \notin ms
    BY <2>3, <2>1
  <2> QED
    BY <2>2, <2>3
<1> HIDE DEF new
<1>5. /\ DOMAIN entry' = Node
      /\ \A k \in Node : entry'[k] = IF k = n THEN new ELSE entry[k]
  BY <1>2 DEF EntryInv
<1> QED
  BY <1>3, <1>4, <1>5 DEF EntryInv

\* A change of one replica.
LEMMA ReplicaChange ==
    ASSUME EntryInv, NEW n \in Node, NEW m \in Mesh, NEW replica,
           DOMAIN replica \subseteq Node,
           \A k \in DOMAIN replica : Advertisable(replica[k], m),
           entry' = [entry EXCEPT ![n][m] = replica]
    PROVE  EntryInv'
<1>1. DOMAIN entry' = Node
  BY DEF EntryInv
<1>2. \A k \in Node : DOMAIN entry'[k] = Mesh
  BY DEF EntryInv
<1>3. \A k \in Node, l \in Mesh :
        entry'[k][l] = IF k = n /\ l = m THEN replica ELSE entry[k][l]
  BY DEF EntryInv
<1> QED
  BY <1>1, <1>2, <1>3 DEF EntryInv

---------------------------------------------------------------------------
(* The steps *)

\* The state in which the daemons start satisfies the invariant.
LEMMA InitRouteInv == Init => RouteInv
<1> SUFFICES ASSUME Init PROVE RouteInv
  OBVIOUS
<1>1. StateTypes
  BY RouteLeakAssumption DEF Init, StateTypes
<1>2. \A m : Advertisable({}, m)
  BY DEF Advertisable, OneEach
<1>3. EntryInv
  BY <1>2 DEF Init, EntryInv
<1> QED
  BY <1>1, <1>3 DEF RouteInv

\* UpdateRoutes that stops at a mesh the node is not yet in.
LEMMA UpdateRoutesFailsKeeps ==
    ASSUME RouteInv, NEW n \in Node, UpdateRoutesFails(n)
    PROVE  RouteInv'
<1> DEFINE adv == {m \in meshes[n] : <<n, m>> \in AdvertiseRoutes}
<1>1. PICK done \in SUBSET {m \in adv : Listed(n, m)} :
         \E own \in AddRoutes(UNION {Own(n, m) : m \in done}, DefaultRoutes(n, done)) :
            SetOwn(n, done, own)
  BY DEF UpdateRoutesFails
<1>2. PICK own \in AddRoutes(UNION {Own(n, m) : m \in done}, DefaultRoutes(n, done)) :
            SetOwn(n, done, own)
  BY <1>1
<1>3. done \in SUBSET Mesh /\ \A m \in done : Listed(n, m)
  BY DEF RouteInv, StateTypes
<1> HIDE DEF adv
<1>4. (\A r \in own : LoopFree(r)) /\ OneEach(own)
  BY <1>2, <1>3, OwnRoutes, DefaultRoutesLoopFree, TakeShorterOneEach DEF AddRoutes, RouteInv
<1>5. EntryInv'
  BY <1>2, <1>3, <1>4, SetOwnKeeps DEF RouteInv
<1>6. StateTypes'
  BY DEF UpdateRoutesFails, RouteInv, StateTypes
<1> QED
  BY <1>5, <1>6 DEF RouteInv

\* UpdateRoutes: the routes it retracts and adds are those of the meshes it got
\* to; the others keep theirs.
LEMMA UpdateRoutesKeeps ==
    ASSUME RouteInv, NEW n \in Node, UpdateRoutes(n)
    PROVE  RouteInv'
<1> DEFINE adv == {m \in meshes[n] : <<n, m>> \in AdvertiseRoutes}
           there == {m \in meshes[n] : Listed(n, m)}
           stored == UNION {Own(n, m) : m \in there}
           wanted(done, table) == Leaked(done, adv, table) \cup DefaultRoutes(n, done)
<1>1. PICK own \in AddRoutes(stored, DefaultRoutes(n, there)) :
         \E table \in GetRoutes(n, adv, own) :
         \E done \in IF there = meshes[n] THEN {there} ELSE SUBSET there :
         \E leaked \in {wanted(done, table)} :
         \E new \in AddRoutes(RemoveRoutes(own, leaked), leaked) :
            SetOwn(n, there, new \cup {r \in own : r.in \notin done})
  BY DEF UpdateRoutes
<1>2. PICK table \in GetRoutes(n, adv, own) :
         \E done \in IF there = meshes[n] THEN {there} ELSE SUBSET there :
         \E leaked \in {wanted(done, table)} :
         \E new \in AddRoutes(RemoveRoutes(own, leaked), leaked) :
            SetOwn(n, there, new \cup {r \in own : r.in \notin done})
  BY <1>1
<1>3. PICK done \in SUBSET there :
         \E leaked \in {wanted(done, table)} :
         \E new \in AddRoutes(RemoveRoutes(own, leaked), leaked) :
            SetOwn(n, there, new \cup {r \in own : r.in \notin done})
  BY <1>2
<1> DEFINE leaked == wanted(done, table)
<1>4. PICK new \in AddRoutes(RemoveRoutes(own, leaked), leaked) :
            SetOwn(n, there, new \cup {r \in own : r.in \notin done})
  BY <1>3
<1>5. /\ there \in SUBSET Mesh /\ adv \in SUBSET Mesh /\ done \in SUBSET Mesh
      /\ \A m \in there : Listed(n, m)
  BY DEF RouteInv, StateTypes
<1> HIDE DEF adv, there
<1>6. (\A r \in own : LoopFree(r)) /\ OneEach(own)
  BY <1>1, <1>5, OwnRoutes, DefaultRoutesLoopFree, TakeShorterOneEach DEF AddRoutes, RouteInv
<1>7. \A r \in table : Simple(r)
  BY <1>2, <1>5, <1>6, GetRoutesSimple DEF RouteInv
<1>8. \A r \in leaked : LoopFree(r) /\ r.in \in done
  BY <1>5, <1>7, LeakedLoopFree, DefaultRoutesLoopFree
<1> HIDE DEF leaked, wanted
<1>9. OneEach(RemoveRoutes(own, leaked)) /\ RemoveRoutes(own, leaked) \subseteq leaked
  BY <1>6 DEF OneEach, RemoveRoutes
<1>10. new \subseteq leaked /\ OneEach(new)
  BY <1>4, <1>9, TakeShorterOneEach DEF AddRoutes
<1> DEFINE all == new \cup {r \in own : r.in \notin done}
<1>11. \A r \in all : LoopFree(r)
  BY <1>6, <1>8, <1>10
<1>12. OneEach(all)
  BY <1>6, <1>8, <1>10 DEF OneEach, SameKey
<1>13. EntryInv'
  BY <1>4, <1>5, <1>11, <1>12, SetOwnKeeps DEF RouteInv
<1>14. StateTypes'
  BY DEF UpdateRoutes, RouteInv, StateTypes
<1> QED
  BY <1>13, <1>14 DEF RouteInv

\* Gossip copies an entry or drops one.
LEMMA GossipKeeps ==
    ASSUME RouteInv, NEW n \in Node, NEW k \in Node, NEW m \in Mesh, Gossip(n, k, m)
    PROVE  RouteInv'
<1>1. /\ DOMAIN entry[n][m] \subseteq Node
      /\ \A j \in DOMAIN entry[n][m] : Advertisable(entry[n][m][j], m)
  BY DEF RouteInv, EntryInv
<1>2. CASE Listed(k, m) /\ entry' = [entry EXCEPT ![n][m] = WithEntry(@, k, Own(k, m))]
  <2> DEFINE replica == WithEntry(entry[n][m], k, Own(k, m))
  <2>1. Advertisable(Own(k, m), m)
    BY <1>2 DEF RouteInv, EntryInv, Listed, Own
  <2>2. /\ DOMAIN replica = {k} \cup DOMAIN entry[n][m]
        /\ \A j \in DOMAIN replica : replica[j] = IF j = k THEN Own(k, m) ELSE entry[n][m][j]
    BY DEF WithEntry
  <2>3. entry' = [entry EXCEPT ![n][m] = replica]
    BY <1>2
  <2> HIDE DEF replica
  <2>4. \A j \in DOMAIN replica : Advertisable(replica[j], m)
    BY <1>1, <2>1, <2>2
  <2> QED
    BY <1>1, <2>2, <2>3, <2>4, ReplicaChange DEF RouteInv, StateTypes, Gossip
<1>3. CASE entry' = [entry EXCEPT ![n][m] = Restrict(@, DOMAIN @ \ {k})]
  <2> DEFINE replica == Restrict(entry[n][m], DOMAIN entry[n][m] \ {k})
  <2>1. /\ DOMAIN replica \subseteq DOMAIN entry[n][m]
        /\ \A j \in DOMAIN replica : replica[j] = entry[n][m][j]
    BY DEF Restrict
  <2>2. entry' = [entry EXCEPT ![n][m] = replica]
    BY <1>3
  <2> HIDE DEF replica
  <2>3. \A j \in DOMAIN replica : Advertisable(replica[j], m)
    BY <1>1, <2>1
  <2> QED
    BY <1>1, <2>1, <2>2, <2>3, ReplicaChange DEF RouteInv, StateTypes, Gossip
<1> QED
  BY <1>2, <1>3 DEF Gossip

\* JoinMesh loads a replica that satisfies the invariant, or has none.
LEMMA JoinMeshKeeps ==
    ASSUME RouteInv, NEW n \in Node, NEW m \in Mesh, JoinMesh(n, m)
    PROVE  RouteInv'
<1>1. StateTypes'
  BY RouteLeakAssumption DEF JoinMesh, RouteInv, StateTypes
<1>2. CASE UNCHANGED entry
  BY <1>1, <1>2 DEF RouteInv, EntryInv
<1>3. ASSUME NEW k \in Node, entry' = [entry EXCEPT ![n][m] = entry[k][m]]
      PROVE  EntryInv'
  <2>1. /\ DOMAIN entry[k][m] \subseteq Node
        /\ \A j \in DOMAIN entry[k][m] : Advertisable(entry[k][m][j], m)
    BY DEF RouteInv, EntryInv
  <2> QED
    BY <1>3, <2>1, ReplicaChange DEF RouteInv
<1> QED
  BY <1>1, <1>2, <1>3 DEF JoinMesh, RouteInv

\* AddSelf adds an entry without routes.
LEMMA AddSelfKeeps ==
    ASSUME RouteInv, NEW n \in Node, NEW m \in Mesh, AddSelf(n, m)
    PROVE  RouteInv'
<1> DEFINE replica == WithEntry(entry[n][m], n, {})
<1>1. StateTypes'
  BY DEF AddSelf, RouteInv, StateTypes
<1>2. /\ DOMAIN replica = DOMAIN entry[n][m] \cup {n}
      /\ \A j \in DOMAIN replica : replica[j] = IF j = n THEN {} ELSE entry[n][m][j]
  BY DEF WithEntry
<1>3. /\ DOMAIN entry[n][m] \subseteq Node
      /\ \A j \in DOMAIN entry[n][m] : Advertisable(entry[n][m][j], m)
  BY DEF RouteInv, EntryInv
<1>4. Advertisable({}, m)
  BY DEF Advertisable, OneEach
<1>5. entry' = [entry EXCEPT ![n][m] = replica]
  BY DEF AddSelf
<1> HIDE DEF replica
<1>6. \A j \in DOMAIN replica : Advertisable(replica[j], m)
  BY <1>2, <1>3, <1>4
<1> QED
  BY <1>1, <1>2, <1>3, <1>5, <1>6, ReplicaChange DEF RouteInv

\* LeaveMesh drops the replica.
LEMMA LeaveMeshKeeps ==
    ASSUME RouteInv, NEW n \in Node, NEW m \in Mesh, LeaveMesh(n, m)
    PROVE  RouteInv'
<1> DEFINE replica == [k \in {} |-> {}]
<1>1. StateTypes'
  BY RouteLeakAssumption DEF LeaveMesh, RouteInv, StateTypes
<1>2. DOMAIN replica = {}
  OBVIOUS
<1>3. entry' = [entry EXCEPT ![n][m] = replica]
  BY DEF LeaveMesh
<1> HIDE DEF replica
<1> QED
  BY <1>1, <1>2, <1>3, ReplicaChange DEF RouteInv

\* Every step keeps the invariant.
LEMMA NextKeepsRouteInv == RouteInv /\ [Next]_vars => RouteInv'
<1> SUFFICES ASSUME RouteInv, [Next]_vars PROVE RouteInv'
  OBVIOUS
<1>1. CASE UNCHANGED vars
  BY <1>1 DEF vars, RouteInv, StateTypes, EntryInv
<1>2. CASE Next
  BY <1>2, AddSelfKeeps, GossipKeeps, UpdateRoutesKeeps, UpdateRoutesFailsKeeps,
     JoinMeshKeeps, LeaveMeshKeeps DEF Next, DaemonStep
<1> QED
  BY <1>1, <1>2

\* The invariant holds in every reachable state.
LEMMA RouteInvHolds == Spec => []RouteInv
<1> QED
  BY InitRouteInv, NextKeepsRouteInv, PTL DEF Spec

\* Every route that any replica holds is loop-free.
LEMMA AllRoutesLoopFree ==
    ASSUME RouteInv, NEW r \in AllRoutes
    PROVE  LoopFree(r)
<1>1. PICK n \in Node, m \in Mesh, k \in Node :
        k \in DOMAIN entry[n][m] /\ r \in entry[n][m][k]
  BY DEF AllRoutes
<1> QED
  BY <1>1 DEF RouteInv, EntryInv, Advertisable

---------------------------------------------------------------------------
(* The theorems *)

\* The state is well typed; a node's entry, which AddRoutes, RemoveRoutes and
\* gossip change in turn, has at most one route to a destination in a mesh, and
\* the routes of that mesh only (datastore.go: the map of routes is keyed by
\* destination).
THEOREM RouteLeakTypes == Spec => []TypeOK
<1>1. RouteInv => TypeOK
  BY DEF RouteInv, StateTypes, EntryInv, TypeOK, Advertisable, OneEach, LoopFree, Simple
<1> QED
  BY <1>1, RouteInvHolds, PTL

\* No advertised route is a loop, however many daemons have passed it on and
\* whatever they joined and left meanwhile (route.go, "Remove any potential
\* routing loops").
THEOREM NoRouteLoops == Spec => []NoRoutingLoops
<1>1. RouteInv => NoRoutingLoops
  BY AllRoutesLoopFree DEF NoRoutingLoops, LoopFree, Simple
<1> QED
  BY <1>1, RouteInvHolds, PTL

\* Paths are no longer than there are meshes.
PathsBounded == \A r \in AllRoutes : HopCount(r) <= Cardinality(Mesh)

\* A route does not grow without bound while daemons pass it around: its hop
\* count is at most the number of meshes, so the hop counts that AddRoutes and
\* GetRoutes compare cannot count to infinity after a mesh is gone.
THEOREM HopCountsBounded ==
    ASSUME IsFiniteSet(Mesh)
    PROVE  Spec => []PathsBounded
<1>1. ASSUME NEW r, LoopFree(r) PROVE HopCount(r) <= Cardinality(Mesh)
  <2> DEFINE t == Tail(r.path)
             others == Mesh \ {r.in}
  <2>1. /\ r.path \in Seq(Mesh) /\ Len(r.path) > 0 /\ r.in \in Mesh
        /\ r.in \notin Range(t) /\ IsInjective(t)
    BY <1>1 DEF LoopFree, Simple, Route, HopCount
  <2>2. t \in Seq(Mesh) /\ Len(t) = Len(r.path) - 1 /\ Len(t) \in Nat
    BY <2>1, HeadTailProperties
  <2>3. t \in [1..Len(t) -> Mesh]
    BY <2>2, LenProperties
  <2> HIDE DEF t
  <2>4. t \in [1..Len(t) -> others]
    BY <2>1, <2>3 DEF Range
  <2>5. t \in Injection(1..Len(t), others)
    BY <2>1, <2>4 DEF Injection
  <2>6. IsFiniteSet(others) /\ Cardinality(others) = Cardinality(Mesh) - 1
    BY <2>1, FS_RemoveElement
  <2> HIDE DEF others
  <2>7. Cardinality(1..Len(t)) <= Cardinality(others)
    BY <2>5, <2>6, FS_Injection
  <2>8. Cardinality(1..Len(t)) = Len(t)
    <3>1. 1 \in Int /\ Len(t) \in Int
      BY <2>2
    <3>2. Cardinality(1..Len(t)) = IF 1 > Len(t) THEN 0 ELSE Len(t) - 1 + 1
      BY <3>1, FS_Interval
    <3> QED
      BY <2>2, <3>2
  <2>9. Cardinality(Mesh) \in Nat
    BY FS_CardinalityType
  <2> QED
    BY <2>1, <2>2, <2>6, <2>7, <2>8, <2>9 DEF HopCount
<1>2. RouteInv => PathsBounded
  BY <1>1, AllRoutesLoopFree DEF PathsBounded
<1> QED
  BY <1>2, RouteInvHolds, PTL
=============================================================================
