---------------------------- MODULE WgConfigProofs ----------------------------
(***************************************************************************)
(* Proofs about ApplyConfig, for any nodes, meshes, stores and hashes and  *)
(* any changes and failures: the state is well typed, daemons with the     *)
(* same store agree about a client, and after an ApplyConfig during which  *)
(* nothing changed the devices follow the stores, the routes of the kernel *)
(* match the devices, and gateways are the nearest.                        *)
(***************************************************************************)
EXTENDS WgConfig, FiniteSetTheorems, SequenceTheorems, NaturalsInduction, TLAPS

---------------------------------------------------------------------------
(* Numbers, and the loops of the code *)

\* A nonempty set of natural numbers has a least element.
LEMMA LeastElement ==
    ASSUME NEW T \in SUBSET Nat, T # {}
    PROVE  \E x \in T : \A y \in T : x <= y
<1>1. IsWellFoundedOn(OpToRel(<, Nat), Nat)
  BY NatLessThanWellFounded
<1>2. PICK x \in T : \A y \in T : <<y, x>> \notin OpToRel(<, Nat)
  BY <1>1, WFMin
<1>3. \A y \in T : ~(y < x)
  BY <1>2 DEF OpToRel
<1> QED
  BY <1>3

\* A nonempty set of positions has a last one.
LEMMA LastElement ==
    ASSUME NEW n \in Nat, NEW T \in SUBSET (1..n), T # {}
    PROVE  \E x \in T : \A y \in T : y <= x
<1> DEFINE U == {k \in Nat : \E y \in T : k = n - y}
<1>1. U \in SUBSET Nat /\ U # {}
  <2>1. PICK y \in T : TRUE
    OBVIOUS
  <2>2. n - y \in Nat
    BY <2>1
  <2> QED
    BY <2>1, <2>2
<1>2. PICK k \in U : \A j \in U : k <= j
  BY <1>1, LeastElement
<1>3. PICK x \in T : k = n - x
  BY <1>2
<1>4. ASSUME NEW y \in T PROVE y <= x
  <2>1. n - y \in U
    OBVIOUS
  <2>2. n - x <= n - y
    BY <2>1, <1>2, <1>3
  <2> QED
    BY <2>2
<1> QED
  BY <1>4

\* Induction along a loop, with a set for the property.
LEMMA LoopInduction ==
    ASSUME NEW n \in Nat, NEW T, 0 \in T, \A i \in 1..n : i - 1 \in T => i \in T
    PROVE  \A i \in 0..n : i \in T
<1> DEFINE U == (0..n) \ T
<1> SUFFICES ASSUME U # {} PROVE FALSE
  OBVIOUS
<1>1. U \in SUBSET Nat
  OBVIOUS
<1>2. PICK k \in U : \A j \in U : k <= j
  BY <1>1, LeastElement
<1>3. k \in 1..n /\ k - 1 \in 0..n
  BY <1>2
<1>4. k - 1 \in T
  BY <1>2, <1>3
<1> QED
  BY <1>2, <1>3, <1>4

\* g is the values that a loop of n turns over the set A goes through.
Turns(n, A) == [1..n -> [A -> A]]
IsLoop(g, n, A, base, turn) ==
    /\ g \in [0..n -> A]
    /\ g[0] = base
    /\ \A i \in 1..n : g[i] = turn[i][g[i - 1]]

\* A loop exists as a function.
LEMMA LoopExists ==
    ASSUME NEW n \in Nat, NEW A, NEW base \in A, NEW turn \in Turns(n, A)
    PROVE  \E g : IsLoop(g, n, A, base, turn)
<1> DEFINE Runs(k, g) == g[0] = base /\ \A i \in 1..k : g[i] = turn[i][g[i - 1]]
           T == {k \in 0..n : \E g \in [0..k -> A] : Runs(k, g)}
<1>1. 0 \in T
  <2> DEFINE g == [i \in 0..0 |-> base]
  <2>1. g \in [0..0 -> A] /\ g[0] = base
    OBVIOUS
  <2>2. Runs(0, g)
    BY <2>1
  <2> HIDE DEF Runs, g
  <2>3. 0 \in 0..n
    OBVIOUS
  <2> QED
    BY <2>1, <2>2, <2>3
<1>2. ASSUME NEW k \in 1..n, k - 1 \in T PROVE k \in T
  <2>1. PICK g \in [0..(k - 1) -> A] : Runs(k - 1, g)
    BY <1>2
  <2> DEFINE h == [i \in 0..k |-> IF i = k THEN turn[k][g[k - 1]] ELSE g[i]]
  <2>2. k - 1 \in 0..(k - 1) /\ g[k - 1] \in A
    OBVIOUS
  <2>3. turn[k][g[k - 1]] \in A
    BY <2>2 DEF Turns
  <2>4. \A i \in 0..k : i # k => i \in 0..(k - 1)
    OBVIOUS
  <2>5. h \in [0..k -> A]
    BY <2>3, <2>4
  <2>6. h[0] = base
    BY <2>1
  <2>7. h[k - 1] = g[k - 1] /\ h[k] = turn[k][g[k - 1]]
    OBVIOUS
  <2>8. ASSUME NEW i \in 1..k PROVE h[i] = turn[i][h[i - 1]]
    <3>1. CASE i = k
      BY <3>1, <2>7
    <3>2. CASE i # k
      <4>1. i \in 1..(k - 1) /\ h[i] = g[i] /\ h[i - 1] = g[i - 1]
        BY <3>2
      <4> QED
        BY <4>1, <2>1
    <3> QED
      BY <3>1, <3>2
  <2>9. Runs(k, h)
    BY <2>6, <2>8
  <2>10. k \in 0..n
    OBVIOUS
  <2> HIDE DEF Runs, h
  <2> QED
    BY <2>5, <2>9, <2>10
<1> HIDE DEF T
<1>3. \A k \in 0..n : k \in T
  BY <1>1, <1>2, LoopInduction
<1>4. n \in T
  BY <1>3
<1> QED
  BY <1>4 DEF T, IsLoop

\* A set with at most two elements has no three different ones.
LEMMA AtMostTwo ==
    ASSUME NEW S, IsFiniteSet(S), Cardinality(S) <= 2, NEW a \in S, NEW b \in S, NEW c \in S
    PROVE  a = b \/ a = c \/ b = c
<1> SUFFICES ASSUME a # b, a # c, b # c PROVE FALSE
  OBVIOUS
<1> DEFINE one == {a}
           two == one \cup {b}
           three == two \cup {c}
<1>1. IsFiniteSet(one) /\ Cardinality(one) = 1 /\ b \notin one
  BY FS_Singleton
<1> HIDE DEF one
<1>2. IsFiniteSet(two) /\ Cardinality(two) = 2
  BY <1>1, FS_AddElement
<1>3. c \notin two /\ three \in SUBSET S
  BY DEF one
<1> HIDE DEF two
<1>4. Cardinality(three) = 3
  BY <1>2, <1>3, FS_AddElement
<1>5. Cardinality(three) <= Cardinality(S)
  BY <1>3, FS_Subset
<1>6. Cardinality(S) \in Nat
  BY FS_CardinalityType
<1> QED
  BY <1>4, <1>5, <1>6

\* An order of the nodes of a finite set has each of them once.
LEMMA OrderOfSet ==
    ASSUME NEW S, IsFiniteSet(S), NEW order \in SetToSeqs(S)
    PROVE  /\ order \in Seq(S) /\ Len(order) \in Nat /\ DOMAIN order = 1..Len(order)
           /\ \A i, j \in 1..Len(order) : i # j => order[i] # order[j]
           /\ \A x \in S : \E i \in 1..Len(order) : order[i] = x
<1> DEFINE n == Cardinality(S)
<1>1. n \in Nat
  BY FS_CardinalityType
<1>2. order \in [1..n -> S] /\ \A i, j \in 1..n : i # j => order[i] # order[j]
  BY DEF SetToSeqs
<1> HIDE DEF n
<1>3. order \in Seq(S) /\ Len(order) = n
  BY <1>1, <1>2
<1>4. order \in Injection(1..n, S)
  BY <1>2 DEF Injection, IsInjective
<1>5. Cardinality(1..n) = n
  <2>1. 1 \in Int /\ n \in Int
    BY <1>1
  <2>2. Cardinality(1..n) = IF 1 > n THEN 0 ELSE n - 1 + 1
    BY <2>1, FS_Interval
  <2> QED
    BY <1>1, <2>2
<1>6. order \in Surjection(1..n, S)
  BY <1>4, <1>5, FS_Injection DEF n
<1>7. \A x \in S : \E i \in 1..n : order[i] = x
  BY <1>6 DEF Surjection
<1> QED
  BY <1>1, <1>2, <1>3, <1>7

---------------------------------------------------------------------------
(* Hashing *)

\* ConsistentHash picks one of the values, and a value that is the key itself.
LEMMA ConsistentHashPicks ==
    ASSUME NEW values \in SUBSET Node, values # {}, NEW key \in Node
    PROVE  /\ ConsistentHash(values, key) \in values
           /\ key \in values => ConsistentHash(values, key) = key
<1> DEFINE above == {v \in values : Hash[v] >= Hash[key]}
           ring == IF above # {} THEN above ELSE values
           picked == CHOOSE v \in ring : \A w \in ring : Hash[v] <= Hash[w]
<1>1. Hash \in [Node -> Nat] /\ \A n, k \in Node : Hash[n] = Hash[k] => n = k
  BY WgConfigAssumption
<1>2. ring \in SUBSET Node /\ ring # {} /\ ring \subseteq values
  OBVIOUS
<1>3. key \in values => key \in ring /\ \A w \in ring : Hash[key] <= Hash[w]
  BY <1>1
<1> HIDE DEF ring
<1>4. \E v \in ring : \A w \in ring : Hash[v] <= Hash[w]
  <2> DEFINE T == {Hash[v] : v \in ring}
  <2>1. T \in SUBSET Nat /\ T # {}
    BY <1>1, <1>2
  <2>2. PICK x \in T : \A y \in T : x <= y
    BY <2>1, LeastElement
  <2> QED
    BY <2>2
<1>5. picked \in ring /\ \A w \in ring : Hash[picked] <= Hash[w]
  BY <1>4
<1>6. ConsistentHash(values, key) = picked
  BY DEF ConsistentHash, ring
<1> HIDE DEF picked
<1>7. key \in values => Hash[picked] = Hash[key]
  BY <1>1, <1>2, <1>3, <1>5
<1> QED
  BY <1>1, <1>2, <1>5, <1>6, <1>7

\* getCorrespondingPeer picks one of the mesh's peers.
LEMMA CorrespondingPeerIsPeer ==
    ASSUME listed \in [Mesh -> SUBSET Node], NEW s, NEW m \in Mesh, NEW c \in Node, PeersOf(m) # {}
    PROVE  /\ CorrespondingPeer(s, m, c) \in PeersOf(m)
           /\ CorrespondingPeer(s, m, c) \in Node \ Client
<1>1. PeersOf(m) \in SUBSET Node /\ PeersOf(m) \cap Client = {}
  BY DEF PeersOf
<1> QED
  BY <1>1, ConsistentHashPicks DEF CorrespondingPeer

\* What daemons conclude from the same store fits together.
LEMMA StoresMakeClientsAgree ==
    ASSUME listed \in [Mesh -> SUBSET Node]
    PROVE  ClientsAgree
<1> SUFFICES ASSUME NEW m \in Mesh, NEW c \in ClientsOf(m), PeersOf(m) # {}
             PROVE  \E p \in PeersOf(m) :
                      /\ ClientConfigs(c, m) = {p}
                      /\ \A q \in PeersOf(m) : c \in PeerConfigs(q, m) <=> q = p
                      /\ \A q \in PeersOf(m) \ {p} : c \in ConvertMeshNode(q, m, p, NoRoutes)
  BY DEF ClientsAgree
<1> DEFINE p == ConsistentHash(PeersOf(m), c)
<1>1. \A s : CorrespondingPeer(s, m, c) = p
  BY DEF CorrespondingPeer
<1>2. c \in Node /\ c \in Client
  BY DEF ClientsOf
<1>3. p \in PeersOf(m) /\ p \notin Client
  BY <1>1, <1>2, CorrespondingPeerIsPeer
<1> HIDE DEF p
<1>4. c \notin PeersOf(m)
  BY <1>2 DEF PeersOf
<1>5. ClientConfigs(c, m) = {p}
  BY <1>1 DEF ClientConfigs
<1>6. ASSUME NEW q \in PeersOf(m) PROVE c \in PeerConfigs(q, m) <=> q = p
  BY <1>1, <1>4 DEF PeerConfigs
<1>7. ASSUME NEW q \in PeersOf(m) PROVE c \in ConvertMeshNode(q, m, p, NoRoutes)
  BY <1>1, <1>3 DEF ConvertMeshNode
<1> QED
  BY <1>3, <1>5, <1>6, <1>7

---------------------------------------------------------------------------
(* getRoutes and getAllRoutes *)

RouteNodes == [gw : Node, hops : 1..MaxHops + 1]

\* Who advertises d in the meshes ms.
Ads(ms, d) == {mn \in ms \X Node : adv[mn[1]][mn[2]][d] > 0}

\* At most two nodes advertise d, and they are peers.
Few(d) ==
    /\ Cardinality(Ads(Mesh, d)) <= 2
    /\ \A mn \in Ads(Mesh, d) : mn[2] \notin Client

\* The list l of routes to d comes from the advertisements A, is empty only
\* without any, and has the nearest, if there are few of them.
GoodList(l, A, d) ==
    /\ l \in Seq(RouteNodes)
    /\ \A i \in 1..Len(l) : \E mn \in A : l[i] = RouteNode(mn[1], mn[2], d)
    /\ l = <<>> => A = {}
    /\ Few(d) => \A i \in 1..Len(l) : \A mn \in A : l[i].hops <= adv[mn[1]][mn[2]][d]

StoreTypes ==
    /\ self \in Node
    /\ listed \in [Mesh -> SUBSET Node]
    /\ adv \in [Mesh -> [Node -> [Dest -> 0..MaxHops]]]

\* Who advertises a destination is in the store.
AdvertisersListed ==
    \A m \in Mesh, n \in Node, d \in Dest : adv[m][n][d] > 0 => n \in listed[m]

\* An advertised route to a destination has a routeNode, unless it is that of a
\* client and the mesh has no peer.
LEMMA RouteNodeType ==
    ASSUME StoreTypes, NEW m \in Mesh, NEW n \in Node, NEW d \in Dest, adv[m][n][d] > 0,
           n \in Client => PeersOf(m) # {}
    PROVE  /\ RouteNode(m, n, d) \in RouteNodes
           /\ n \notin Client => RouteNode(m, n, d) = [gw |-> n, hops |-> adv[m][n][d]]
           /\ RouteNode(m, n, d).gw \in Client
                => RouteNode(m, n, d).gw = n /\ CorrespondingPeer(self, m, n) = self
<1> DEFINE p == CorrespondingPeer(self, m, n)
           h == adv[m][n][d]
<1>1. h \in 1..MaxHops /\ MaxHops \in Nat
  BY WgConfigAssumption DEF StoreTypes
<1>2. n \in Client => p \in Node \ Client
  BY CorrespondingPeerIsPeer DEF StoreTypes
<1>3. RouteNode(m, n, d) = IF n \in Client /\ p # self THEN [gw |-> p, hops |-> h + 1]
                                                      ELSE [gw |-> n, hops |-> h]
  BY DEF RouteNode
<1> HIDE DEF p, h
<1>4. RouteNode(m, n, d) \in RouteNodes
  <2>1. h \in 1..MaxHops + 1 /\ h + 1 \in 1..MaxHops + 1
    BY <1>1
  <2> QED
    BY <1>2, <1>3, <2>1 DEF RouteNodes
<1>5. n \notin Client => RouteNode(m, n, d) = [gw |-> n, hops |-> h]
  BY <1>3
<1>6. RouteNode(m, n, d).gw \in Client => RouteNode(m, n, d).gw = n /\ p = self
  BY <1>2, <1>3
<1> QED
  BY <1>4, <1>5, <1>6 DEF h, p

\* A turn of getRoutes' loop makes a list of a list.
LEMMA AddRouteNodeType ==
    ASSUME NEW l \in Seq(RouteNodes), NEW rn \in RouteNodes, NEW hops
    PROVE  AddRouteNode(l, rn, hops) \in Seq(RouteNodes)
<1>1. CASE l = <<>>
  BY <1>1 DEF AddRouteNode
<1>2. CASE l # <<>>
  <2>1. 1 \in 1..Len(l)
    BY <1>2
  <2>2. [l EXCEPT ![1] = rn] \in Seq(RouteNodes)
    BY <2>1, ExceptSeq
  <2>3. Append(l, rn) \in Seq(RouteNodes)
    OBVIOUS
  <2> QED
    BY <1>2, <2>2, <2>3 DEF AddRouteNode
<1> QED
  BY <1>1, <1>2

\* getRoutes' loop over an order of nodes that have routeNodes: the lists it
\* goes through.
LEMMA RoutesAfterTurns ==
    ASSUME StoreTypes, NEW m \in Mesh, NEW d \in Dest, NEW order \in Seq(Node),
           \A i \in 1..Len(order) : d \notin Mesh /\ adv[m][order[i]][d] > 0 /\ order[i] \in Client
                                      => PeersOf(m) # {}
    PROVE  LET routes == RoutesAfter(m, order, d)
           IN  /\ routes[0] = <<>>
               /\ \A i \in 0..Len(order) : routes[i] \in Seq(RouteNodes)
               /\ \A i \in 1..Len(order) :
                    routes[i] = IF d \in Mesh \/ adv[m][order[i]][d] = 0 THEN routes[i - 1]
                                ELSE AddRouteNode(routes[i - 1], RouteNode(m, order[i], d),
                                                  adv[m][order[i]][d])
<1> DEFINE n == Len(order)
           L == Seq(RouteNodes)
           skip(i) == d \in Mesh \/ adv[m][order[i]][d] = 0
           new(l, i) == AddRouteNode(l, RouteNode(m, order[i], d), adv[m][order[i]][d])
           empty == <<>>
           turn == [i \in 1..n |-> [l \in L |-> IF skip(i) THEN l ELSE new(l, i)]]
           R(f) == f = [i \in 0..n |-> IF i = 0 THEN empty
                                       ELSE IF skip(i) THEN f[i - 1] ELSE new(f[i - 1], i)]
           routes == RoutesAfter(m, order, d)
<1>1. n \in Nat /\ empty \in L
  OBVIOUS
<1>2. ASSUME NEW i \in 1..n, ~skip(i), NEW l \in L PROVE new(l, i) \in L
  <2>1. order[i] \in Node /\ adv[m][order[i]][d] \in 0..MaxHops
    BY DEF StoreTypes
  <2>2. adv[m][order[i]][d] > 0
    BY <1>2, <2>1, WgConfigAssumption
  <2>3. RouteNode(m, order[i], d) \in RouteNodes
    BY <1>2, <2>1, <2>2, RouteNodeType
  <2> QED
    BY <2>3, AddRouteNodeType
<1> HIDE DEF new, skip, L, n, empty
<1>3. turn \in Turns(n, L)
  BY <1>2 DEF Turns
<1>4. \A i \in 1..n, l \in L : turn[i][l] = IF skip(i) THEN l ELSE new(l, i)
  OBVIOUS
<1> HIDE DEF turn
<1>5. PICK g : IsLoop(g, n, L, empty, turn)
  BY <1>1, <1>3, LoopExists
<1>6. R(g)
  <2>1. \A i \in 1..n : i - 1 \in 0..n /\ g[i - 1] \in L
    BY <1>1, <1>5 DEF IsLoop
  <2>2. \A i \in 0..n : g[i] = IF i = 0 THEN empty
                               ELSE IF skip(i) THEN g[i - 1] ELSE new(g[i - 1], i)
    BY <1>1, <1>4, <1>5, <2>1 DEF IsLoop
  <2> QED
    BY <1>5, <2>2 DEF IsLoop
<1>7. routes = CHOOSE f : R(f)
  BY DEF RoutesAfter, n, new, skip, empty
<1>8. R(routes)
  BY <1>6, <1>7
<1> HIDE DEF routes
<1>9. routes[0] = empty
  BY <1>1, <1>8
<1>10. \A i \in 1..n : routes[i] = IF skip(i) THEN routes[i - 1] ELSE new(routes[i - 1], i)
  <2>1. \A i \in 1..n : i \in 0..n /\ i # 0
    BY <1>1
  <2> QED
    BY <1>8, <2>1
<1>11. \A i \in 0..n : routes[i] \in L
  <2> DEFINE T == {i \in 0..n : routes[i] \in L}
  <2>1. 0 \in T
    BY <1>1, <1>9
  <2>2. ASSUME NEW i \in 1..n, i - 1 \in T PROVE i \in T
    <3>1. i \in 0..n /\ routes[i - 1] \in L
      BY <1>1, <2>2
    <3> QED
      BY <3>1, <1>2, <1>10
  <2> HIDE DEF T
  <2>3. \A i \in 0..n : i \in T
    BY <1>1, <2>1, <2>2, LoopInduction
  <2> QED
    BY <2>3 DEF T
<1> QED
  BY <1>9, <1>10, <1>11 DEF routes, n, L, skip, new, empty

\* The elements of a list of routes.
LEMMA RouteListTypes ==
    ASSUME NEW l \in Seq(RouteNodes)
    PROVE  /\ Len(l) \in Nat
           /\ \A i \in 1..Len(l) : l[i] \in RouteNodes /\ l[i].gw \in Node /\ l[i].hops \in Nat
<1>1. Len(l) \in Nat /\ \A i \in 1..Len(l) : l[i] \in RouteNodes
  OBVIOUS
<1>2. \A rn \in RouteNodes : rn.gw \in Node /\ rn.hops \in 1..MaxHops + 1
  BY DEF RouteNodes
<1>3. \A h \in 1..MaxHops + 1 : h \in Nat
  BY WgConfigAssumption
<1> QED
  BY <1>1, <1>2, <1>3

\* If few advertise d, the routes of a good list have the hops that were
\* advertised, and equally many.
LEMMA GoodListIsEven ==
    ASSUME StoreTypes, NEW d \in Dest, NEW A \in SUBSET Ads(Mesh, d), NEW l,
           GoodList(l, A, d), Few(d)
    PROVE  \A i, j \in 1..Len(l) : l[i].hops <= l[j].hops
<1> SUFFICES ASSUME NEW i \in 1..Len(l), NEW j \in 1..Len(l) PROVE l[i].hops <= l[j].hops
  OBVIOUS
<1>1. PICK mn \in A : l[j] = RouteNode(mn[1], mn[2], d)
  BY DEF GoodList
<1>2. mn[1] \in Mesh /\ mn[2] \in Node \ Client /\ adv[mn[1]][mn[2]][d] > 0
  BY DEF Ads, Few
<1>3. l[j] = [gw |-> mn[2], hops |-> adv[mn[1]][mn[2]][d]]
  BY <1>1, <1>2, RouteNodeType
<1>4. l[j].hops = adv[mn[1]][mn[2]][d]
  BY <1>3
<1> QED
  BY <1>4 DEF GoodList

\* A turn of getRoutes' loop keeps a list good, if it is not already full.
LEMMA AddRouteNodeGood ==
    ASSUME StoreTypes, NEW d \in Dest, NEW A \in SUBSET Ads(Mesh, d), NEW l, GoodList(l, A, d),
           NEW m \in Mesh, NEW n \in Node, <<m, n>> \in Ads(Mesh, d),
           n \in Client => PeersOf(m) # {},
           Few(d) => Len(l) < 2
    PROVE  GoodList(AddRouteNode(l, RouteNode(m, n, d), adv[m][n][d]), A \cup {<<m, n>>}, d)
<1> DEFINE rn == RouteNode(m, n, d)
           h == adv[m][n][d]
           B == A \cup {<<m, n>>}
           r == AddRouteNode(l, rn, h)
<1>1. h \in Nat /\ h > 0 /\ \A mn \in A : adv[mn[1]][mn[2]][d] \in Nat
  BY WgConfigAssumption DEF StoreTypes, Ads
<1>2. rn \in RouteNodes /\ (n \notin Client => rn = [gw |-> n, hops |-> h])
  BY <1>1, RouteNodeType
<1>3. Few(d) => rn.hops = h
  BY <1>2 DEF Few
<1>4. /\ l \in Seq(RouteNodes) /\ Len(l) \in Nat
      /\ \A i \in 1..Len(l) : l[i] \in RouteNodes /\ l[i].hops \in Nat
      /\ \A i \in 1..Len(l) : \E mn \in A : l[i] = RouteNode(mn[1], mn[2], d)
      /\ l = <<>> => A = {}
      /\ Few(d) => \A i \in 1..Len(l) : \A mn \in A : l[i].hops <= adv[mn[1]][mn[2]][d]
  BY RouteListTypes DEF GoodList
<1>5. r \in Seq(RouteNodes)
  BY <1>2, <1>4, AddRouteNodeType
<1>6. B # {} /\ \E mn \in B : rn = RouteNode(mn[1], mn[2], d)
  OBVIOUS
<1>7. \A mn \in B : mn \in A \/ (mn[1] = m /\ mn[2] = n)
  OBVIOUS
<1> HIDE DEF rn, h, B
<1>8. SUFFICES /\ r # <<>>
               /\ \A i \in 1..Len(r) : r[i] = rn \/ \E j \in 1..Len(l) : r[i] = l[j]
               /\ Few(d) => \A i \in 1..Len(r) : /\ r[i].hops <= h
                                                 /\ \A mn \in A : r[i].hops <= adv[mn[1]][mn[2]][d]
  <2>1. \A i \in 1..Len(r) : \E mn \in B : r[i] = RouteNode(mn[1], mn[2], d)
    <3>1. ASSUME NEW i \in 1..Len(r) PROVE \E mn \in B : r[i] = RouteNode(mn[1], mn[2], d)
      <4>1. CASE r[i] = rn
        BY <4>1, <1>6
      <4>2. CASE \E j \in 1..Len(l) : r[i] = l[j]
        <5>1. A \subseteq B
          BY DEF B
        <5> QED
          BY <4>2, <5>1, <1>4
      <4> QED
        BY <1>8, <4>1, <4>2
    <3> QED
      BY <3>1
  <2>2. Few(d) => \A i \in 1..Len(r) : \A mn \in B : r[i].hops <= adv[mn[1]][mn[2]][d]
    BY <1>7, <1>8 DEF h
  <2> QED
    BY <1>5, <1>8, <2>1, <2>2 DEF GoodList, B, rn, h
<1> USE DEF AddRouteNode
<1>9. CASE l = <<>>
  <2>1. r = <<rn>> /\ A = {}
    BY <1>4, <1>9
  <2> QED
    BY <1>1, <1>3, <2>1
<1>10. CASE l # <<>> /\ h < l[1].hops
  <2>1. r = [l EXCEPT ![1] = rn] /\ 1 \in 1..Len(l)
    BY <1>4, <1>10
  <2>2. Len(r) = Len(l) /\ \A i \in 1..Len(l) : r[i] = IF i = 1 THEN rn ELSE l[i]
    BY <1>2, <1>4, <2>1, ExceptSeq
  <2>3. Few(d) => \A i \in 1..Len(r) : r[i] = rn
    BY <1>4, <2>1, <2>2
  <2>4. Few(d) => \A mn \in A : l[1].hops <= adv[mn[1]][mn[2]][d]
    BY <1>4, <2>1
  <2>5. Few(d) => \A mn \in A : rn.hops <= adv[mn[1]][mn[2]][d]
    BY <1>1, <1>3, <1>4, <1>10, <2>1, <2>4
  <2>6. r # <<>>
    BY <2>1, <2>2
  <2>7. \A i \in 1..Len(r) : r[i] = rn \/ \E j \in 1..Len(l) : r[i] = l[j]
    BY <2>2
  <2>8. Few(d) => \A i \in 1..Len(r) : r[i].hops <= h
    BY <1>1, <1>3, <2>3
  <2>9. Few(d) => \A i \in 1..Len(r) : \A mn \in A : r[i].hops <= adv[mn[1]][mn[2]][d]
    BY <2>3, <2>5
  <2> HIDE DEF r, AddRouteNode
  <2> QED
    BY <2>6, <2>7, <2>8, <2>9
<1>11. CASE l # <<>> /\ h = l[1].hops
  <2>1. r = Append(l, rn) /\ 1 \in 1..Len(l)
    BY <1>1, <1>4, <1>11
  <2>2. /\ Len(r) = Len(l) + 1 /\ r[Len(l) + 1] = rn
        /\ \A i \in 1..Len(l) : r[i] = l[i]
    BY <1>2, <1>4, <2>1
  <2>3. \A i \in 1..Len(r) : i \in 1..Len(l) \/ i = Len(l) + 1
    BY <1>4, <2>2
  <2>4. Few(d) => \A i \in 1..Len(l) : l[i].hops <= h
    BY <1>11, <2>1, GoodListIsEven
  <2>5. Few(d) => \A mn \in A : rn.hops <= adv[mn[1]][mn[2]][d]
    BY <1>3, <1>4, <1>11, <2>1
  <2>6. r # <<>>
    BY <2>1, <1>2, <1>4
  <2> HIDE DEF r, AddRouteNode
  <2>7. \A i \in 1..Len(r) : r[i] = rn \/ \E j \in 1..Len(l) : r[i] = l[j]
    BY <2>2, <2>3
  <2>8. Few(d) => \A i \in 1..Len(r) : r[i].hops <= h
    BY <1>1, <1>3, <2>2, <2>3, <2>4
  <2>9. Few(d) => \A i \in 1..Len(r) : \A mn \in A : r[i].hops <= adv[mn[1]][mn[2]][d]
    BY <1>4, <2>2, <2>3, <2>5
  <2> QED
    BY <2>6, <2>7, <2>8, <2>9
<1>12. CASE l # <<>> /\ ~(h < l[1].hops) /\ h # l[1].hops
  <2>1. r = l /\ 1 \in 1..Len(l)
    BY <1>4, <1>12
  <2>2. Few(d) => \A i \in 1..Len(l) : l[i].hops <= l[1].hops
    BY <2>1, GoodListIsEven
  <2>3. Few(d) => \A i \in 1..Len(l) : l[i].hops <= h
    BY <1>1, <1>4, <1>12, <2>1, <2>2
  <2> HIDE DEF r, AddRouteNode
  <2> QED
    BY <1>4, <1>12, <2>1, <2>3
<1> QED
  BY <1>9, <1>10, <1>11, <1>12

\* getAllRoutes keeps the nearest of two meshes.
LEMMA MergedListIsGood ==
    ASSUME StoreTypes, NEW d \in Dest, NEW A \in SUBSET Ads(Mesh, d), NEW B \in SUBSET Ads(Mesh, d),
           NEW k, GoodList(k, A, d), NEW l, GoodList(l, B, d)
    PROVE  GoodList(IF k = <<>> THEN l
                    ELSE IF l = <<>> THEN k
                    ELSE IF k[1].hops = l[1].hops THEN k \o l
                    ELSE IF l[1].hops < k[1].hops THEN l ELSE k, A \cup B, d)
<1> DEFINE C == A \cup B
           ad(mn) == adv[mn[1]][mn[2]][d]
<1>1. \A mn \in C : ad(mn) \in Nat
  BY WgConfigAssumption DEF StoreTypes, Ads
<1>2. /\ k \in Seq(RouteNodes) /\ Len(k) \in Nat
      /\ \A i \in 1..Len(k) : k[i].hops \in Nat
      /\ \A i \in 1..Len(k) : \E mn \in A : k[i] = RouteNode(mn[1], mn[2], d)
      /\ k = <<>> => A = {}
      /\ Few(d) => \A i \in 1..Len(k) : \A mn \in A : k[i].hops <= ad(mn)
  BY RouteListTypes DEF GoodList
<1>3. /\ l \in Seq(RouteNodes) /\ Len(l) \in Nat
      /\ \A i \in 1..Len(l) : l[i].hops \in Nat
      /\ \A i \in 1..Len(l) : \E mn \in B : l[i] = RouteNode(mn[1], mn[2], d)
      /\ l = <<>> => B = {}
      /\ Few(d) => \A i \in 1..Len(l) : \A mn \in B : l[i].hops <= ad(mn)
  BY RouteListTypes DEF GoodList
<1>4. Few(d) => /\ \A i, j \in 1..Len(k) : k[i].hops <= k[j].hops
                /\ \A i, j \in 1..Len(l) : l[i].hops <= l[j].hops
  BY GoodListIsEven
<1>5. CASE k = <<>> \/ l = <<>>
  <2>1. CASE k = <<>>
    <3>1. C = B
      BY <1>2, <2>1
    <3> QED
      BY <3>1, <2>1
  <2>2. CASE k # <<>> /\ l = <<>>
    <3>1. C = A
      BY <1>3, <2>2
    <3> QED
      BY <3>1, <2>2
  <2> QED
    BY <1>5, <2>1, <2>2
<1>6. CASE k # <<>> /\ l # <<>> /\ k[1].hops = l[1].hops
  <2> DEFINE r == k \o l
  <2>1. 1 \in 1..Len(k) /\ 1 \in 1..Len(l)
    BY <1>2, <1>3, <1>6
  <2>2. /\ r \in Seq(RouteNodes) /\ Len(r) = Len(k) + Len(l)
        /\ \A i \in 1..Len(k) + Len(l) : r[i] = IF i <= Len(k) THEN k[i] ELSE l[i - Len(k)]
    BY <1>2, <1>3, ConcatProperties
  <2> HIDE DEF r
  <2>3. \A i \in 1..Len(r) : (\E j \in 1..Len(k) : r[i] = k[j]) \/ (\E j \in 1..Len(l) : r[i] = l[j])
    <3>1. ASSUME NEW i \in 1..Len(r), i <= Len(k) PROVE i \in 1..Len(k) /\ r[i] = k[i]
      BY <1>2, <1>3, <2>2, <3>1
    <3>2. ASSUME NEW i \in 1..Len(r), ~(i <= Len(k))
          PROVE  i - Len(k) \in 1..Len(l) /\ r[i] = l[i - Len(k)]
      BY <1>2, <1>3, <2>2, <3>2
    <3> QED
      BY <3>1, <3>2
  <2>4. r # <<>>
    BY <1>2, <1>3, <2>1, <2>2
  <2>5. \A i \in 1..Len(r) : \E mn \in C : r[i] = RouteNode(mn[1], mn[2], d)
    BY <1>2, <1>3, <2>3
  <2>6. ASSUME Few(d), NEW i \in 1..Len(r), NEW mn \in C PROVE r[i].hops <= ad(mn)
    <3> HIDE DEF ad
    <3>1. \A j \in 1..Len(k) : k[j].hops <= k[1].hops /\ k[j].hops <= l[1].hops
      BY <1>4, <1>6, <2>1, <2>6
    <3>2. \A j \in 1..Len(l) : l[j].hops <= l[1].hops /\ l[j].hops <= k[1].hops
      BY <1>4, <1>6, <2>1, <2>6
    <3>3. r[i].hops \in Nat /\ r[i].hops <= k[1].hops /\ r[i].hops <= l[1].hops
      BY <1>2, <1>3, <2>3, <3>1, <3>2
    <3>4. k[1].hops \in Nat /\ (mn \in A => k[1].hops <= ad(mn)) /\ (mn \in B => l[1].hops <= ad(mn))
      BY <1>2, <1>3, <2>1, <2>6
    <3> QED
      BY <1>1, <1>6, <3>3, <3>4
  <2>7. GoodList(r, C, d)
    BY <2>2, <2>4, <2>5, <2>6 DEF GoodList
  <2> QED
    BY <1>6, <2>7 DEF r
<1>7. CASE k # <<>> /\ l # <<>> /\ l[1].hops < k[1].hops
  <2>1. 1 \in 1..Len(k) /\ 1 \in 1..Len(l)
    BY <1>2, <1>3, <1>7
  <2>2. ASSUME Few(d), NEW i \in 1..Len(l), NEW mn \in C PROVE l[i].hops <= ad(mn)
    <3> HIDE DEF ad
    <3>1. l[i].hops \in Nat /\ l[1].hops \in Nat /\ k[1].hops \in Nat
      BY <1>2, <1>3, <2>1
    <3>2. l[i].hops <= l[1].hops
      BY <1>4, <2>1, <2>2
    <3>3. (mn \in A => k[1].hops <= ad(mn)) /\ (mn \in B => l[1].hops <= ad(mn))
      BY <1>2, <1>3, <2>1, <2>2
    <3> QED
      BY <1>1, <1>7, <3>1, <3>2, <3>3
  <2>3. \A i \in 1..Len(l) : \E mn \in C : l[i] = RouteNode(mn[1], mn[2], d)
    BY <1>3
  <2>4. GoodList(l, C, d)
    BY <1>3, <1>7, <2>2, <2>3 DEF GoodList
  <2>5. k[1].hops # l[1].hops
    BY <1>2, <1>3, <1>7, <2>1
  <2> QED
    BY <1>7, <2>4, <2>5
<1>8. CASE k # <<>> /\ l # <<>> /\ k[1].hops # l[1].hops /\ ~(l[1].hops < k[1].hops)
  <2>1. 1 \in 1..Len(k) /\ 1 \in 1..Len(l)
    BY <1>2, <1>3, <1>8
  <2>2. ASSUME Few(d), NEW i \in 1..Len(k), NEW mn \in C PROVE k[i].hops <= ad(mn)
    <3> HIDE DEF ad
    <3>1. k[i].hops \in Nat /\ l[1].hops \in Nat /\ k[1].hops \in Nat
      BY <1>2, <1>3, <2>1
    <3>2. k[i].hops <= k[1].hops
      BY <1>4, <2>1, <2>2
    <3>3. (mn \in A => k[1].hops <= ad(mn)) /\ (mn \in B => l[1].hops <= ad(mn))
      BY <1>2, <1>3, <2>1, <2>2
    <3> QED
      BY <1>1, <1>8, <3>1, <3>2, <3>3
  <2>3. \A i \in 1..Len(k) : \E mn \in C : k[i] = RouteNode(mn[1], mn[2], d)
    BY <1>2
  <2>4. GoodList(k, C, d)
    BY <1>2, <1>8, <2>2, <2>3 DEF GoodList
  <2> QED
    BY <1>8, <2>4
<1> QED
  BY <1>5, <1>6, <1>7, <1>8

\* No mesh has infinitely many nodes.
LEMMA FiniteNodes ==
    ASSUME StoreTypes, NEW m \in Mesh
    PROVE  /\ IsFiniteSet(listed[m]) /\ IsFiniteSet(Advertisers(m))
           /\ IsFiniteSet(ClientsOf(m)) /\ IsFiniteSet(PeersOf(m) \ {self})
           /\ \A d : IsFiniteSet(Ads(Mesh, d))
<1>1. IsFiniteSet(Node) /\ IsFiniteSet(Mesh)
  BY WgConfigAssumption
<1>2. /\ listed[m] \in SUBSET Node /\ Advertisers(m) \in SUBSET Node
      /\ ClientsOf(m) \in SUBSET Node /\ PeersOf(m) \ {self} \in SUBSET Node
  BY DEF StoreTypes, Advertisers, ClientsOf, PeersOf
<1>3. IsFiniteSet(Mesh \X Node)
  BY <1>1, FS_Product
<1>4. \A d : Ads(Mesh, d) \in SUBSET (Mesh \X Node)
  BY DEF Ads
<1> QED
  BY <1>1, <1>2, <1>3, <1>4, FS_Subset

\* What getRoutes finds for a destination, whatever the order of the nodes.
LEMMA RoutesAfterGood ==
    ASSUME StoreTypes, AdvertisersListed, NEW m \in Mesh, NEW d \in Dest \ Mesh,
           NEW order \in SetToSeqs(Advertisers(m)),
           \A c \in ClientsOf(m) : adv[m][c][d] > 0 => PeersOf(m) # {}
    PROVE  GoodList(RoutesAfter(m, order, d)[Len(order)], Ads({m}, d), d)
<1> DEFINE n == Len(order)
           routes == RoutesAfter(m, order, d)
           ad(i) == adv[m][order[i]][d]
           P(i) == {mn \in Ads({m}, d) : \E j \in 1..i : mn[2] = order[j]}
           Full(i) == \E j, k \in 1..i : j # k /\ ad(j) > 0 /\ ad(k) > 0
           T == {i \in 0..n : GoodList(routes[i], P(i), d) /\ (Len(routes[i]) >= 2 => Full(i))}
<1>1. /\ order \in Seq(Advertisers(m)) /\ n \in Nat
      /\ \A i, j \in 1..n : i # j => order[i] # order[j]
      /\ \A x \in Advertisers(m) : \E i \in 1..n : order[i] = x
  <2> HIDE DEF n
  <2>1. IsFiniteSet(Advertisers(m))
    BY FiniteNodes
  <2>2. order \in Seq(Advertisers(m)) /\ Len(order) \in Nat
    BY <2>1, OrderOfSet
  <2>3. \A i, j \in 1..Len(order) : i # j => order[i] # order[j]
    BY <2>1, OrderOfSet
  <2>4. \A x \in Advertisers(m) : \E i \in 1..Len(order) : order[i] = x
    BY <2>1, OrderOfSet
  <2> QED
    BY <2>2, <2>3, <2>4 DEF n
<1>2. \A i \in 1..n : order[i] \in Advertisers(m) /\ order[i] \in Node /\ order[i] \in listed[m]
  <2>1. \A x \in Advertisers(m) : x \in Node /\ x \in listed[m]
    BY DEF Advertisers, StoreTypes
  <2>2. ASSUME NEW i \in 1..Len(order) PROVE order[i] \in Advertisers(m)
    BY <1>1
  <2> QED
    BY <2>1, <2>2
<1>3. \A i \in 1..n : ad(i) \in Nat /\ (ad(i) > 0 /\ order[i] \in Client => PeersOf(m) # {})
  BY <1>2, WgConfigAssumption DEF StoreTypes, ClientsOf
<1>4. order \in Seq(Node)
  <2>1. Advertisers(m) \subseteq Node
    BY DEF Advertisers, StoreTypes
  <2> HIDE DEF n
  <2> QED
    BY <1>1, <2>1
<1>5. /\ routes[0] = <<>>
      /\ \A i \in 0..n : routes[i] \in Seq(RouteNodes)
      /\ \A i \in 1..n : routes[i] = IF ad(i) = 0 THEN routes[i - 1]
                                     ELSE AddRouteNode(routes[i - 1], RouteNode(m, order[i], d), ad(i))
  BY <1>3, <1>4, RoutesAfterTurns
<1>6. \A i \in 1..n : ad(i) > 0 => <<m, order[i]>> \in Ads({m}, d)
  BY <1>2 DEF Ads
<1>7. \A mn \in Ads({m}, d) : mn[1] = m /\ mn[2] \in Node /\ mn = <<m, mn[2]>> /\ adv[m][mn[2]][d] > 0
  BY DEF Ads
<1>8. Ads({m}, d) \subseteq Ads(Mesh, d)
  BY DEF Ads
<1> HIDE DEF n, routes
<1>9. 0 \in T
  <2>1. P(0) = {}
    OBVIOUS
  <2>2. GoodList(<<>>, {}, d)
    BY DEF GoodList
  <2>3. ~(Len(routes[0]) >= 2) /\ 0 \in 0..n
    BY <1>1, <1>5
  <2> HIDE DEF P, Full
  <2> QED
    BY <1>5, <2>1, <2>2, <2>3
<1>10. ASSUME NEW i \in 1..n, i - 1 \in T PROVE i \in T
  <2>1. /\ i \in 0..n /\ i - 1 \in 0..n
        /\ GoodList(routes[i - 1], P(i - 1), d) /\ (Len(routes[i - 1]) >= 2 => Full(i - 1))
    BY <1>1, <1>10
  <2>2. \A j \in 1..i : j = i \/ j \in 1..(i - 1)
    BY <1>1
  <2>3. \A j \in 1..(i - 1) : j \in 1..i /\ j \in 1..n /\ j # i
    BY <1>1
  <2>4. Full(i - 1) => Full(i)
    BY <2>3
  <2>5. CASE ad(i) = 0
    <3>1. P(i) = P(i - 1)
      <4>1. P(i - 1) \subseteq P(i)
        BY <2>3
      <4>2. ASSUME NEW mn \in P(i) PROVE mn \in P(i - 1)
        <5>1. PICK j \in 1..i : mn[2] = order[j]
          OBVIOUS
        <5>2. adv[m][order[j]][d] > 0
          BY <1>7, <5>1
        <5>3. j # i
          BY <2>5, <5>2
        <5> QED
          BY <2>2, <5>1, <5>3
      <4> QED
        BY <4>1, <4>2
    <3>2. routes[i] = routes[i - 1]
      BY <1>5, <2>5
    <3> HIDE DEF P, Full
    <3> QED
      BY <2>1, <2>4, <3>1, <3>2
  <2>6. CASE ad(i) # 0
    <3> DEFINE l == routes[i - 1]
               new == AddRouteNode(l, RouteNode(m, order[i], d), ad(i))
    <3>1. ad(i) > 0 /\ order[i] \in Node /\ (order[i] \in Client => PeersOf(m) # {})
      BY <1>2, <1>3, <2>6
    <3>2. P(i) = P(i - 1) \cup {<<m, order[i]>>}
      <4>1. <<m, order[i]>> \in P(i)
        BY <1>6, <3>1
      <4>2. P(i - 1) \subseteq P(i)
        BY <2>3
      <4>3. ASSUME NEW mn \in P(i) PROVE mn \in P(i - 1) \/ mn = <<m, order[i]>>
        BY <1>7, <2>2
      <4> QED
        BY <4>1, <4>2, <4>3
    <3>3. P(i - 1) \in SUBSET Ads(Mesh, d) /\ <<m, order[i]>> \in Ads(Mesh, d)
      BY <1>6, <1>8, <3>1
    <3>4. Few(d) => ~Full(i - 1)
      <4> SUFFICES ASSUME Few(d), Full(i - 1) PROVE FALSE
        OBVIOUS
      <4>1. PICK j \in 1..(i - 1), k \in 1..(i - 1) : j # k /\ ad(j) > 0 /\ ad(k) > 0
        OBVIOUS
      <4>2. order[j] # order[k] /\ order[j] # order[i] /\ order[k] # order[i]
        BY <1>1, <2>3, <4>1
      <4>3. /\ <<m, order[j]>> \in Ads(Mesh, d) /\ <<m, order[k]>> \in Ads(Mesh, d)
            /\ <<m, order[i]>> \in Ads(Mesh, d)
        BY <1>6, <1>8, <2>3, <3>1, <4>1
      <4>4. IsFiniteSet(Ads(Mesh, d)) /\ Cardinality(Ads(Mesh, d)) <= 2
        BY FiniteNodes DEF Few
      <4>5. \/ <<m, order[j]>> = <<m, order[k]>> \/ <<m, order[j]>> = <<m, order[i]>>
            \/ <<m, order[k]>> = <<m, order[i]>>
        BY <4>3, <4>4, AtMostTwo
      <4> QED
        BY <4>2, <4>5
    <3>5. Len(l) \in Nat /\ (Few(d) => Len(l) < 2)
      <4>1. Len(l) \in Nat
        BY <1>5, <2>1
      <4> QED
        BY <2>1, <3>4, <4>1
    <3>6. GoodList(new, P(i), d)
      <4> HIDE DEF P, l
      <4>1. d \in Dest /\ GoodList(l, P(i - 1), d)
        BY <2>1 DEF l
      <4>2. GoodList(AddRouteNode(l, RouteNode(m, order[i], d), adv[m][order[i]][d]),
                     P(i - 1) \cup {<<m, order[i]>>}, d)
        BY <3>1, <3>3, <3>5, <4>1, AddRouteNodeGood
      <4> QED
        BY <3>2, <4>2
    <3>7. routes[i] = new
      BY <1>5, <2>6
    <3>8. l # <<>> => Full(i)
      <4>1. ASSUME l # <<>> PROVE Full(i)
        <5>1. 1 \in 1..Len(l)
          BY <1>5, <2>1, <4>1
        <5>2. PICK mn \in P(i - 1) : TRUE
          BY <2>1, <5>1 DEF GoodList
        <5>3. PICK j \in 1..(i - 1) : mn[2] = order[j]
          BY <5>2
        <5>4. ad(j) > 0
          BY <1>7, <5>2, <5>3
        <5> QED
          BY <2>3, <3>1, <5>4
      <4> QED
        BY <4>1
    <3>9. l = <<>> => Len(new) = 1
      BY DEF AddRouteNode
    <3>10. Len(routes[i]) >= 2 => Full(i)
      <4>1. CASE l # <<>>
        BY <3>8, <4>1
      <4>2. CASE l = <<>>
        <5>1. Len(routes[i]) = 1
          BY <3>7, <3>9, <4>2
        <5> QED
          BY <5>1
      <4> QED
        BY <4>1, <4>2
    <3> HIDE DEF P, Full, new
    <3> QED
      BY <2>1, <3>6, <3>7, <3>10
  <2> QED
    BY <2>5, <2>6
<1>11. n \in T
  <2> HIDE DEF T
  <2>1. \A i \in 0..n : i \in T
    BY <1>1, <1>9, <1>10, LoopInduction
  <2> QED
    BY <1>1, <2>1
<1>12. P(n) = Ads({m}, d)
  <2>1. ASSUME NEW mn \in Ads({m}, d) PROVE \E j \in 1..n : mn[2] = order[j]
    <3>1. mn[2] \in Advertisers(m)
      BY <1>7 DEF AdvertisersListed, Advertisers
    <3> QED
      BY <1>1, <3>1
  <2> QED
    BY <2>1
<1> QED
  BY <1>11, <1>12 DEF n, routes

\* ... and nothing for the destinations in the daemon's own meshes.
LEMMA RoutesAfterMesh ==
    ASSUME StoreTypes, NEW m \in Mesh, NEW d \in Mesh, NEW order \in Seq(Node)
    PROVE  RoutesAfter(m, order, d)[Len(order)] = <<>>
<1> DEFINE n == Len(order)
           routes == RoutesAfter(m, order, d)
           T == {i \in 0..n : routes[i] = <<>>}
<1>1. d \in Dest /\ n \in Nat
  BY WgConfigAssumption
<1>2. routes[0] = <<>> /\ \A i \in 1..n : routes[i] = routes[i - 1]
  BY <1>1, RoutesAfterTurns
<1> HIDE DEF n, routes
<1>3. 0 \in T
  BY <1>1, <1>2
<1>4. ASSUME NEW i \in 1..n, i - 1 \in T PROVE i \in T
  BY <1>1, <1>2, <1>4
<1>5. \A i \in 0..n : i \in T
  <2> HIDE DEF T
  <2> QED
    BY <1>1, <1>3, <1>4, LoopInduction
<1> QED
  BY <1>1, <1>5 DEF n, routes

\* What getRoutes returns.
LEMMA GetRoutesGood ==
    ASSUME StoreTypes, AdvertisersListed, NEW m \in Mesh, NEW order \in SetToSeqs(Advertisers(m)),
           (\E c \in ClientsOf(m), d \in Dest \ Mesh : adv[m][c][d] > 0) => PeersOf(m) # {}
    PROVE  /\ GetRoutes(m, order) \in [Dest -> Seq(RouteNodes)]
           /\ \A d \in Mesh : GetRoutes(m, order)[d] = <<>>
           /\ \A d \in Dest \ Mesh : GoodList(GetRoutes(m, order)[d], Ads({m}, d), d)
<1>1. order \in Seq(Node)
  <2>1. order \in Seq(Advertisers(m))
    BY FiniteNodes, OrderOfSet
  <2>2. Advertisers(m) \subseteq Node
    BY DEF Advertisers, StoreTypes
  <2> QED
    BY <2>1, <2>2, SeqMonotonic
<1>2. \A d \in Dest : GetRoutes(m, order)[d] = RoutesAfter(m, order, d)[Len(order)]
  BY DEF GetRoutes
<1>3. \A d \in Mesh : d \in Dest /\ GetRoutes(m, order)[d] = <<>>
  BY <1>1, <1>2, RoutesAfterMesh, WgConfigAssumption
<1>4. \A d \in Dest \ Mesh : GoodList(GetRoutes(m, order)[d], Ads({m}, d), d)
  BY <1>2, RoutesAfterGood
<1>5. <<>> \in Seq(RouteNodes)
  OBVIOUS
<1>6. \A d \in Dest : GetRoutes(m, order)[d] \in Seq(RouteNodes)
  BY <1>3, <1>4, <1>5 DEF GoodList
<1>7. GetRoutes(m, order) \in [Dest -> Seq(RouteNodes)]
  BY <1>6 DEF GetRoutes
<1> QED
  BY <1>3, <1>4, <1>7

\* What getAllRoutes has after another mesh.
LEMMA MergeRoutesType ==
    ASSUME NEW all \in [Dest -> Seq(RouteNodes)], NEW routes \in [Dest -> Seq(RouteNodes)]
    PROVE  MergeRoutes(all, routes) \in [Dest -> Seq(RouteNodes)]
<1> SUFFICES ASSUME NEW d \in Dest PROVE MergeRoutes(all, routes)[d] \in Seq(RouteNodes)
  BY DEF MergeRoutes
<1>1. all[d] \in Seq(RouteNodes) /\ routes[d] \in Seq(RouteNodes)
  OBVIOUS
<1>2. all[d] \o routes[d] \in Seq(RouteNodes)
  BY <1>1, ConcatProperties
<1>3. MergeRoutes(all, routes)[d] \in {all[d], routes[d], all[d] \o routes[d]}
  BY DEF MergeRoutes
<1> QED
  BY <1>1, <1>2, <1>3

\* Good lists of some meshes and of one more merge into a good list of all.
LEMMA MergeRoutesGood ==
    ASSUME StoreTypes, NEW d \in Dest, NEW ms \in SUBSET Mesh, NEW m \in Mesh,
           NEW all, GoodList(all[d], Ads(ms, d), d), NEW routes, GoodList(routes[d], Ads({m}, d), d)
    PROVE  GoodList(MergeRoutes(all, routes)[d], Ads(ms \cup {m}, d), d)
<1>1. /\ Ads(ms, d) \in SUBSET Ads(Mesh, d) /\ Ads({m}, d) \in SUBSET Ads(Mesh, d)
      /\ Ads(ms \cup {m}, d) = Ads(ms, d) \cup Ads({m}, d)
  BY DEF Ads
<1> DEFINE k == all[d]
           l == routes[d]
           r == IF k = <<>> THEN l
                ELSE IF l = <<>> THEN k
                ELSE IF k[1].hops = l[1].hops THEN k \o l
                ELSE IF l[1].hops < k[1].hops THEN l ELSE k
<1>2. MergeRoutes(all, routes)[d] = r
  BY DEF MergeRoutes
<1> HIDE DEF k, l
<1>3. GoodList(k, Ads(ms, d), d) /\ GoodList(l, Ads({m}, d), d)
  BY DEF k, l
<1>4. GoodList(r, Ads(ms, d) \cup Ads({m}, d), d)
  BY <1>1, <1>3, MergedListIsGood
<1> HIDE DEF r
<1> QED
  BY <1>1, <1>2, <1>4

---------------------------------------------------------------------------
(* The kernel *)

Devices == [peers : SUBSET Node, owner : [Prefix -> Node \cup {None}]]

\* A device has prefixes of its peers only.
Consistent(dev) == \A x \in Prefix : dev.owner[x] # None => dev.owner[x] \in dev.peers

\* The record of a device.
LEMMA DeviceRecord ==
    ASSUME NEW peers \in SUBSET Node, NEW owner \in [Prefix -> Node \cup {None}]
    PROVE  [peers |-> peers, owner |-> owner] \in Devices
<1> QED
  BY DEF Devices

\* Where x is among the allowed IPs of those in order that are configured.
Taken(order, configs, allowed, x) ==
    {i \in 1..Len(order) : order[i] \in configs /\ x \in allowed[order[i]]}

\* Where d is among the destinations of those in order.
Given(order, dests, d) == {i \in 1..Len(order) : d \in dests[order[i]]}

\* The owner is the last of the positions given, if there is any.
GoesToLast(owner, order, given) ==
    /\ given = {} => owner = None
    /\ given # {} => \E i \in given : owner = order[i] /\ \A j \in given : j <= i

\* The route r is to the last of the positions given; if there is none, the
\* route that was there stays, unless it leads into m.
RoutedToLast(r, old, m, order, given) ==
    /\ given = {} => r = IF old # <<>> /\ old[1] = m THEN <<>> ELSE old
    /\ given # {} => \E i \in given : r = <<m, order[i]>> /\ \A j \in given : j <= i

\* ConfigureDevice makes of any device the one that was asked for: what was
\* there before leaves no trace.
LEMMA ConfigureDeviceResult ==
    ASSUME NEW dev \in Devices, Consistent(dev), NEW order \in Seq(Node),
           NEW configs \in SUBSET Node, NEW allowed, NEW nd,
           nd = ConfigureDevice(dev, order, configs, allowed, dev.peers \ configs)
    PROVE  /\ nd \in Devices /\ Consistent(nd) /\ nd.peers = configs
           /\ \A x \in Prefix : GoesToLast(nd.owner[x], order, Taken(order, configs, allowed, x))
<1> DEFINE gone == dev.peers \ configs
           given(x) == {i \in 1..Len(order) : order[i] \in configs /\ x \in allowed[order[i]]}
           last(x) == CHOOSE i \in given(x) : \A j \in given(x) : j <= i
           o(x) == IF given(x) # {} THEN order[last(x)]
                   ELSE IF dev.owner[x] \in gone \cup configs THEN None ELSE dev.owner[x]
           np == (dev.peers \cup configs) \ gone
           no == [x \in Prefix |-> o(x)]
<1>1. DOMAIN order = 1..Len(order) /\ Len(order) \in Nat /\ \A i \in 1..Len(order) : order[i] \in Node
  OBVIOUS
<1>2. nd = [peers |-> np, owner |-> no]
  BY <1>1 DEF ConfigureDevice
<1>3. dev.peers \in SUBSET Node /\ \A x \in Prefix : dev.owner[x] \in Node \cup {None}
  BY DEF Devices
<1>4. ASSUME NEW x \in Prefix, given(x) # {}
      PROVE  last(x) \in given(x) /\ \A j \in given(x) : j <= last(x)
  <2> DEFINE S == given(x)
  <2>1. S \in SUBSET (1..Len(order)) /\ S # {}
    BY <1>4
  <2> HIDE DEF S
  <2>2. \E i \in S : \A j \in S : j <= i
    BY <1>1, <2>1, LastElement
  <2> QED
    BY <2>2 DEF S
<1>5. ASSUME NEW x \in Prefix, given(x) = {} PROVE o(x) = None
  BY <1>3, <1>5 DEF Consistent
<1>6. nd.owner = no /\ nd.peers = np
  <2> HIDE DEF np, no
  <2> QED
    BY <1>2
<1>7. nd.peers = configs /\ \A x \in Prefix : nd.owner[x] = o(x)
  BY <1>6
<1>8. \A x \in Prefix : given(x) # {} => order[last(x)] \in configs
  BY <1>4
<1>9. \A x \in Prefix : o(x) \in configs \cup {None}
  BY <1>5, <1>8
<1>10. nd \in Devices
  <2> HIDE DEF o
  <2>1. no \in [Prefix -> Node \cup {None}] /\ np \in SUBSET Node
    BY <1>3, <1>9
  <2> HIDE DEF no, np
  <2> QED
    BY <1>2, <2>1, DeviceRecord
<1>11. Consistent(nd)
  BY <1>7, <1>9 DEF Consistent
<1>12. ASSUME NEW x \in Prefix, given(x) # {}
       PROVE  \E i \in given(x) : nd.owner[x] = order[i] /\ \A j \in given(x) : j <= i
  <2>1. nd.owner[x] = order[last(x)]
    BY <1>7, <1>12
  <2> QED
    BY <1>4, <1>12, <2>1
<1>13. \A x \in Prefix : given(x) = {} => nd.owner[x] = None
  BY <1>5, <1>7
<1>14. \A x \in Prefix : GoesToLast(nd.owner[x], order, given(x))
  BY <1>12, <1>13 DEF GoesToLast
<1>15. \A x : given(x) = Taken(order, configs, allowed, x)
  BY DEF Taken
<1> HIDE DEF given
<1> QED
  BY <1>7, <1>10, <1>11, <1>14, <1>15

RibType == [Dest -> (Mesh \X Node) \cup {<<>>}]

\* InstallRoutes, as far as it comes, leaves a routing table.
LEMMA InstallRoutesType ==
    ASSUME rib \in RibType, NEW m \in Mesh, NEW order \in Seq(Node), NEW dests,
           NEW done \in 0..Len(order)
    PROVE  InstallRoutes(m, order, dests, done) \in RibType
<1> DEFINE unwanted == Unwanted(m, order, dests)
           given(d) == {i \in 1..done : d \in dests[order[i]]}
           last(d) == CHOOSE i \in given(d) : \A j \in given(d) : j <= i
           r == InstallRoutes(m, order, dests, done)
<1>1. done \in Nat /\ \A i \in 1..done : order[i] \in Node
  OBVIOUS
<1>2. r = [d \in Dest |-> IF given(d) # {} THEN <<m, order[last(d)]>>
                          ELSE IF d \in unwanted THEN <<>> ELSE rib[d]]
  BY DEF InstallRoutes, AddRoute, DeleteRoute
<1>3. ASSUME NEW d \in Dest, given(d) # {} PROVE order[last(d)] \in Node
  <2> DEFINE S == given(d)
  <2>1. S \in SUBSET (1..done) /\ S # {}
    BY <1>3
  <2> HIDE DEF S
  <2>2. \E i \in S : \A j \in S : j <= i
    BY <1>1, <2>1, LastElement
  <2>3. (CHOOSE i \in S : \A j \in S : j <= i) \in S
    BY <2>2
  <2>4. last(d) \in 1..done
    BY <2>1, <2>3 DEF S
  <2> QED
    BY <1>1, <2>4
<1>4. \A d \in Dest : rib[d] \in (Mesh \X Node) \cup {<<>>}
  BY DEF RibType
<1> HIDE DEF unwanted, given, last, r
<1>5. r \in RibType
  BY <1>2, <1>3, <1>4 DEF RibType
<1> QED
  BY <1>5 DEF r

\* InstallRoutes that succeeds: the destinations that gateways were given for
\* go to the last of them, and no other is left in the mesh's device.
LEMMA InstallRoutesResult ==
    ASSUME rib \in RibType, NEW m \in Mesh, NEW order \in Seq(Node), NEW dests, NEW rb,
           rb = InstallRoutes(m, order, dests, Len(order)), NEW d \in Dest
    PROVE  RoutedToLast(rb[d], rib[d], m, order, Given(order, dests, d))
<1> DEFINE unwanted == Unwanted(m, order, dests)
           given == {i \in 1..Len(order) : d \in dests[order[i]]}
           last == CHOOSE i \in given : \A j \in given : j <= i
<1>1. DOMAIN order = 1..Len(order) /\ Len(order) \in Nat
  OBVIOUS
<1>2. rb[d] = IF given # {} THEN <<m, order[last]>>
              ELSE IF d \in unwanted THEN <<>> ELSE rib[d]
  BY DEF InstallRoutes, AddRoute, DeleteRoute
<1>3. given = {} => (d \in unwanted <=> rib[d] # <<>> /\ rib[d][1] = m)
  BY <1>1 DEF Unwanted, ListRoutes
<1>4. given \in SUBSET (1..Len(order))
  OBVIOUS
<1> HIDE DEF given, unwanted
<1>5. given # {} => last \in given /\ \A j \in given : j <= last
  <2>1. given # {} => \E i \in given : \A j \in given : j <= i
    BY <1>1, <1>4, LastElement
  <2> QED
    BY <2>1
<1> HIDE DEF last
<1>6. given = {} => rb[d] = IF rib[d] # <<>> /\ rib[d][1] = m THEN <<>> ELSE rib[d]
  BY <1>2, <1>3
<1>7. given # {} => \E i \in given : rb[d] = <<m, order[i]>> /\ \A j \in given : j <= i
  BY <1>2, <1>5
<1>8. RoutedToLast(rb[d], rib[d], m, order, given)
  BY <1>6, <1>7 DEF RoutedToLast
<1> QED
  BY <1>8 DEF given, Given

---------------------------------------------------------------------------
(* The inductive invariant *)

ApplyState ==
    [pc : {"idle", "collect", "update", "panicked"}, todo : SUBSET Mesh,
     routes : [Dest -> Seq(RouteNodes)], same : BOOLEAN]

StateTypes ==
    /\ StoreTypes
    /\ device \in [Mesh -> Devices] /\ \A m \in Mesh : Consistent(device[m])
    /\ rib \in RibType
    /\ apply \in ApplyState
    /\ fresh \in BOOLEAN
    /\ changes \in 0..MaxChanges /\ failures \in 0..MaxFailures

\* The nodes that the daemon should have on the device of mesh m.
Expected(m) == IF self \in Client THEN ClientConfigs(self, m) ELSE PeerConfigs(self, m)

NoSplit == \A c \in Client : ~SplitClient(c)

GatewaysOf(routes, d) == {routes[d][i].gw : i \in 1..Len(routes[d])}

\* A mesh in which a client advertises a destination has a peer.
ClientsHavePeers(m) ==
    (\E c \in ClientsOf(m), d \in Dest \ Mesh : adv[m][c][d] > 0) => PeersOf(m) # {}

\* What getAllRoutes has after the meshes ms.
Lists(routes, ms) ==
    /\ \A m \in ms : ClientsHavePeers(m)
    /\ \A d \in Dest : /\ d \in Mesh => routes[d] = <<>>
                       /\ d \notin Mesh => GoodList(routes[d], Ads(ms, d), d)

\* What updateWgConf has achieved after the meshes ms: their devices have the
\* right nodes; what the kernel routes into them they send to the gateway, and
\* what they would take is routed into one of them, even if one mesh has taken
\* a destination from another; and the gateways are among the routes found.
Applied(ms, dev, rb, routes) ==
    /\ \A m \in ms : dev[m].peers = Expected(m)
    /\ \A d \in Dest \ Mesh :
        /\ NoSplit /\ rb[d] # <<>> /\ rb[d][1] \in ms => dev[rb[d][1]].owner[d] = rb[d][2]
        /\ \A m \in ms : NoSplit /\ dev[m].owner[d] # None => rb[d] # <<>> /\ rb[d][1] \in ms
        /\ self \notin Client /\ rb[d] # <<>> /\ rb[d][1] \in ms => rb[d][2] \in GatewaysOf(routes, d)

\* As long as no store has changed since ApplyConfig began.
CollectInv ==
    apply.same => /\ apply.pc = "collect" => Lists(apply.routes, Mesh \ apply.todo)
                  /\ apply.pc = "update" => Lists(apply.routes, Mesh)

UpdateInv ==
    apply.same /\ apply.pc = "update" => Applied(Mesh \ apply.todo, device, rib, apply.routes)

\* The node g is one of the nearest that advertise d.
Nearest(g, d) ==
    \E mn \in Ads(Mesh, d) :
        /\ mn[2] = g
        /\ \A ml \in Ads(Mesh, d) : adv[mn[1]][mn[2]][d] <= adv[ml[1]][ml[2]][d]

\* The devices and the kernel's routes are what the stores ask for.
Matches(dev, rb) ==
    /\ \A m \in Mesh : dev[m].peers = Expected(m)
    /\ \A d \in Dest \ Mesh :
        /\ NoSplit /\ rb[d] # <<>> => dev[rb[d][1]].owner[d] = rb[d][2]
        /\ NoSplit /\ rb[d] = <<>> => \A m \in Mesh : dev[m].owner[d] = None
        /\ self \notin Client /\ Few(d) /\ rb[d] # <<>> => Nearest(rb[d][2], d)

SettledInv == Settled => Matches(device, rib)

WgInv == StateTypes /\ AdvertisersListed /\ CollectInv /\ UpdateInv /\ SettledInv

---------------------------------------------------------------------------
(* One mesh's turn in updateWgConf *)

\* The turn of mesh m leaves the device nd and the kernel's routes rb: a
\* destination goes to a gateway of the mesh, or the mesh is done with it.
Installs(m, nd, rb, routes) ==
    \A d \in Dest \ Mesh :
        \/ \E g \in Node : /\ rb[d] = <<m, g>>
                           /\ self \notin Client => g \in GatewaysOf(routes, d)
                           /\ NoSplit => nd.owner[d] = g
        \/ /\ rb[d] = IF rib[d] # <<>> /\ rib[d][1] = m THEN <<>> ELSE rib[d]
           /\ NoSplit => nd.owner[d] = None

\* Another mesh that is applied leaves the ones before it applied.
LEMMA InstallsApplies ==
    ASSUME StateTypes, NEW ms \in SUBSET Mesh, NEW m \in Mesh \ ms, NEW routes,
           Applied(ms, device, rib, routes), NEW nd, nd.peers = Expected(m), NEW rb,
           Installs(m, nd, rb, routes)
    PROVE  Applied(ms \cup {m}, [device EXCEPT ![m] = nd], rb, routes)
<1> DEFINE dev == [device EXCEPT ![m] = nd]
<1>1. dev[m] = nd /\ \A l \in ms : dev[l] = device[l]
  BY DEF StateTypes
<1> HIDE DEF dev
<1>2. \A l \in ms \cup {m} : dev[l].peers = Expected(l)
  BY <1>1 DEF Applied
<1>3. ASSUME NEW d \in Dest \ Mesh
      PROVE  /\ NoSplit /\ rb[d] # <<>> /\ rb[d][1] \in ms \cup {m} => dev[rb[d][1]].owner[d] = rb[d][2]
             /\ \A l \in ms \cup {m} : NoSplit /\ dev[l].owner[d] # None
                                         => rb[d] # <<>> /\ rb[d][1] \in ms \cup {m}
             /\ self \notin Client /\ rb[d] # <<>> /\ rb[d][1] \in ms \cup {m}
                  => rb[d][2] \in GatewaysOf(routes, d)
  <2>1. CASE \E g \in Node : /\ rb[d] = <<m, g>>
                             /\ self \notin Client => g \in GatewaysOf(routes, d)
                             /\ NoSplit => nd.owner[d] = g
    <3>1. PICK g \in Node : /\ rb[d] = <<m, g>>
                            /\ self \notin Client => g \in GatewaysOf(routes, d)
                            /\ NoSplit => nd.owner[d] = g
      BY <2>1
    <3>2. rb[d] # <<>> /\ rb[d][1] = m /\ rb[d][2] = g
      BY <3>1
    <3> QED
      BY <1>1, <3>1, <3>2
  <2>2. CASE /\ rb[d] = IF rib[d] # <<>> /\ rib[d][1] = m THEN <<>> ELSE rib[d]
             /\ NoSplit => nd.owner[d] = None
    <3>1. rb[d] # <<>> => rb[d] = rib[d] /\ rb[d][1] # m
      BY <2>2
    <3>2. /\ NoSplit /\ rib[d] # <<>> /\ rib[d][1] \in ms => device[rib[d][1]].owner[d] = rib[d][2]
          /\ \A l \in ms : NoSplit /\ device[l].owner[d] # None => rib[d] # <<>> /\ rib[d][1] \in ms
          /\ self \notin Client /\ rib[d] # <<>> /\ rib[d][1] \in ms => rib[d][2] \in GatewaysOf(routes, d)
      BY DEF Applied
    <3>3. rib[d] # <<>> /\ rib[d][1] \in ms => rb[d] = rib[d]
      BY <2>2
    <3>4. NoSplit /\ rb[d] # <<>> /\ rb[d][1] \in ms \cup {m} => dev[rb[d][1]].owner[d] = rb[d][2]
      BY <1>1, <3>1, <3>2
    <3>5. ASSUME NEW l \in ms \cup {m}, NoSplit, dev[l].owner[d] # None
          PROVE  rb[d] # <<>> /\ rb[d][1] \in ms
      <4>1. l \in ms /\ device[l].owner[d] # None
        BY <1>1, <2>2, <3>5
      <4> QED
        BY <3>2, <3>3, <3>5, <4>1
    <3>6. self \notin Client /\ rb[d] # <<>> /\ rb[d][1] \in ms \cup {m}
            => rb[d][2] \in GatewaysOf(routes, d)
      BY <3>1, <3>2
    <3> QED
      BY <3>4, <3>5, <3>6
  <2> QED
    BY <2>1, <2>2 DEF Installs
<1> QED
  BY <1>2, <1>3 DEF Applied, dev

\* The device nd has the nodes of configs, with what they were allowed.
Configured(nd, order, configs, allowed) ==
    /\ nd \in Devices /\ Consistent(nd) /\ nd.peers = configs
    /\ \A x \in Prefix : GoesToLast(nd.owner[x], order, Taken(order, configs, allowed, x))

\* The device of a mesh after ConfigureDevice.
LEMMA DeviceConfigured ==
    ASSUME StateTypes, NEW m \in Mesh, NEW order \in Seq(Node), NEW configs \in SUBSET Node,
           NEW allowed, NEW nd,
           nd = ConfigureDevice(device[m], order, configs, allowed, PeerCfgsToRemove(m, configs))
    PROVE  Configured(nd, order, configs, allowed)
<1>1. device[m] \in Devices /\ Consistent(device[m])
  BY DEF StateTypes
<1>2. nd = ConfigureDevice(device[m], order, configs, allowed, device[m].peers \ configs)
  BY DEF PeerCfgsToRemove
<1>3. /\ nd \in Devices /\ Consistent(nd) /\ nd.peers = configs
      /\ \A x \in Prefix : GoesToLast(nd.owner[x], order, Taken(order, configs, allowed, x))
  BY <1>1, <1>2, ConfigureDeviceResult
<1> QED
  BY <1>3 DEF Configured

\* The turn of a client that succeeds.
LEMMA ClientInstalls ==
    ASSUME StateTypes, NEW m \in Mesh, self \in Client, PeersOf(m) # {}, NEW p, NEW allowed,
           p = CorrespondingPeer(self, m, self), NEW nd, NEW rb,
           nd = ConfigureDevice(device[m], <<p>>, ClientConfigs(self, m), [n \in {p} |-> allowed],
                                PeerCfgsToRemove(m, ClientConfigs(self, m)))
    PROVE  /\ nd \in Devices /\ Consistent(nd) /\ nd.peers = Expected(m) /\ p \in Node
           /\ rb = InstallRoutes(m, <<p>>, [n \in {p} |-> allowed \ {m}], 1)
                => Installs(m, nd, rb, apply.routes)
<1> DEFINE order == <<p>>
           configs == {p}
           al == [n \in {p} |-> allowed]
           dests == [n \in {p} |-> allowed \ {m}]
<1>1. p \in Node
  BY CorrespondingPeerIsPeer DEF StateTypes, StoreTypes
<1>2. order \in Seq(Node) /\ Len(order) = 1 /\ order[1] = p /\ configs \in SUBSET Node
  BY <1>1
<1>3. ClientConfigs(self, m) = configs /\ Expected(m) = configs
  BY DEF ClientConfigs, Expected
<1>4. nd = ConfigureDevice(device[m], order, configs, al, device[m].peers \ configs)
  BY <1>3 DEF PeerCfgsToRemove
<1>5. device[m] \in Devices /\ Consistent(device[m])
  BY DEF StateTypes
<1>6. al[p] = allowed /\ dests[p] = allowed \ {m}
  OBVIOUS
<1> HIDE DEF order, configs, al, dests
<1>7. /\ nd \in Devices /\ Consistent(nd) /\ nd.peers = configs
      /\ \A x \in Prefix : GoesToLast(nd.owner[x], order, Taken(order, configs, al, x))
  BY <1>2, <1>4, <1>5, ConfigureDeviceResult
<1>8. ASSUME rb = InstallRoutes(m, order, dests, 1), NEW d \in Dest \ Mesh
      PROVE  \/ \E g \in Node : /\ rb[d] = <<m, g>>
                                /\ self \notin Client => g \in GatewaysOf(apply.routes, d)
                                /\ NoSplit => nd.owner[d] = g
             \/ /\ rb[d] = IF rib[d] # <<>> /\ rib[d][1] = m THEN <<>> ELSE rib[d]
                /\ NoSplit => nd.owner[d] = None
  <2> DEFINE taken == Taken(order, configs, al, d)
             given == Given(order, dests, d)
  <2>1. d \in Prefix /\ d # m /\ rib \in RibType
    BY DEF Prefix, StateTypes
  <2>2. taken = given /\ \A i \in given : order[i] = p
    BY <1>2, <1>6, <2>1 DEF configs, Taken, Given
  <2> HIDE DEF taken, given
  <2>3. /\ taken = {} => nd.owner[d] = None
        /\ taken # {} => \E i \in taken : nd.owner[d] = order[i]
    BY <1>7, <2>1 DEF GoesToLast, taken
  <2>4. /\ given = {} => rb[d] = IF rib[d] # <<>> /\ rib[d][1] = m THEN <<>> ELSE rib[d]
        /\ given # {} => \E i \in given : rb[d] = <<m, order[i]>>
    <3>1. rb = InstallRoutes(m, order, dests, Len(order))
      BY <1>2, <1>8
    <3>2. RoutedToLast(rb[d], rib[d], m, order, given)
      BY <1>2, <2>1, <3>1, InstallRoutesResult DEF given
    <3> QED
      BY <3>2 DEF RoutedToLast
  <2>5. CASE given = {}
    BY <2>2, <2>3, <2>4, <2>5
  <2>6. CASE given # {}
    <3>1. rb[d] = <<m, p>> /\ nd.owner[d] = p
      BY <2>2, <2>3, <2>4, <2>6
    <3> QED
      BY <1>1, <3>1
  <2> QED
    BY <2>5, <2>6
<1> QED
  BY <1>1, <1>3, <1>7, <1>8 DEF Installs, order, dests

\* A client that is a gateway is behind the daemon in some mesh.
LEMMA ClientGateway ==
    ASSUME StoreTypes, AdvertisersListed, NEW routes, Lists(routes, Mesh), NEW d \in Dest \ Mesh,
           NEW g \in GatewaysOf(routes, d), g \in Client
    PROVE  \E l \in Mesh : g \in ClientsOf(l) /\ CorrespondingPeer(self, l, g) = self
<1>1. PICK i \in 1..Len(routes[d]) : g = routes[d][i].gw
  BY DEF GatewaysOf
<1>2. PICK mn \in Ads(Mesh, d) : routes[d][i] = RouteNode(mn[1], mn[2], d)
  BY <1>1 DEF Lists, GoodList
<1>3. mn[1] \in Mesh /\ mn[2] \in Node /\ adv[mn[1]][mn[2]][d] > 0
  BY DEF Ads
<1>4. mn[2] \in listed[mn[1]]
  BY <1>3 DEF AdvertisersListed
<1>5. mn[2] \in Client => mn[2] \in ClientsOf(mn[1]) /\ PeersOf(mn[1]) # {}
  BY <1>3, <1>4 DEF Lists, ClientsHavePeers, ClientsOf
<1>6. g = mn[2] /\ CorrespondingPeer(self, mn[1], mn[2]) = self
  BY <1>1, <1>2, <1>3, <1>5, RouteNodeType
<1> QED
  BY <1>3, <1>5, <1>6

\* A node is given the destinations it is a gateway to: the routes picked among
\* the best for it are its own.
LEMMA ConvertGateways ==
    ASSUME StoreTypes, NEW routes \in [Dest -> Seq(RouteNodes)], NEW m \in Mesh,
           NEW n \in Node, NEW d \in Dest \ Mesh
    PROVE  d \in ConvertMeshNode(self, m, n, routes) <=> n \in GatewaysOf(routes, d)
<1> DEFINE l == routes[d]
           gws == {l[i].gw : i \in DOMAIN l}
<1>1. l \in Seq(RouteNodes) /\ DOMAIN l = 1..Len(l)
  OBVIOUS
<1>2. gws = GatewaysOf(routes, d) /\ gws \in SUBSET Node /\ (l = <<>> <=> gws = {})
  <2>1. \A i \in 1..Len(l) : l[i].gw \in Node
    BY <1>1, RouteListTypes
  <2>2. l # <<>> => 1 \in 1..Len(l)
    BY <1>1
  <2>3. gws = GatewaysOf(routes, d)
    BY <1>1 DEF GatewaysOf
  <2>4. l = <<>> => gws = {}
    OBVIOUS
  <2>5. l # <<>> => gws # {}
    BY <1>1, <2>2
  <2> QED
    BY <1>1, <2>1, <2>3, <2>4, <2>5
<1>3. d # n /\ d \notin ClientsOf(m)
  BY WgConfigAssumption DEF ClientsOf, StoreTypes
<1>4. d \in ConvertMeshNode(self, m, n, routes) <=> l # <<>> /\ ConsistentHash(gws, n) = n
  BY <1>3 DEF ConvertMeshNode
<1> HIDE DEF gws, l
<1>5. gws # {} => /\ ConsistentHash(gws, n) \in gws
                  /\ n \in gws => ConsistentHash(gws, n) = n
  BY <1>2, ConsistentHashPicks
<1> QED
  BY <1>2, <1>4, <1>5

\* The turn of a peer that succeeds.
LEMMA PeerInstalls ==
    ASSUME StateTypes, AdvertisersListed, NEW m \in Mesh, self \notin Client, HasSelf(m),
           NEW clients \in SetToSeqs(ClientsOf(m)), NEW peers \in SetToSeqs(PeersOf(m) \ {self}),
           NEW order, order = clients \o peers, NEW allowed, NEW dests, NEW nd, NEW rb,
           allowed = [n \in listed[m] |-> ConvertMeshNode(self, m, n, apply.routes)],
           dests = [n \in listed[m] |-> allowed[n] \cap Dest],
           nd = ConfigureDevice(device[m], order, PeerConfigs(self, m), allowed,
                                PeerCfgsToRemove(m, PeerConfigs(self, m)))
    PROVE  /\ nd \in Devices /\ Consistent(nd) /\ nd.peers = Expected(m)
           /\ order \in Seq(Node) /\ Len(order) \in Nat
           /\ Lists(apply.routes, Mesh) /\ rb = InstallRoutes(m, order, dests, Len(order))
                => Installs(m, nd, rb, apply.routes)
<1> DEFINE configs == PeerConfigs(self, m)
           routes == apply.routes
<1>1. StoreTypes /\ routes \in [Dest -> Seq(RouteNodes)] /\ listed[m] \in SUBSET Node
  BY DEF StateTypes, ApplyState, StoreTypes
<1>2. ClientsOf(m) \subseteq listed[m] /\ PeersOf(m) \ {self} \subseteq listed[m]
  BY DEF ClientsOf, PeersOf
<1>3. clients \in Seq(listed[m]) /\ peers \in Seq(listed[m])
  <2>1. clients \in Seq(ClientsOf(m)) /\ peers \in Seq(PeersOf(m) \ {self})
    BY <1>1, FiniteNodes, OrderOfSet
  <2> QED
    BY <1>2, <2>1, SeqMonotonic
<1>4. /\ order \in Seq(listed[m]) /\ Len(order) = Len(clients) + Len(peers)
      /\ \A i \in 1..Len(clients) + Len(peers) :
           order[i] = IF i <= Len(clients) THEN clients[i] ELSE peers[i - Len(clients)]
  BY <1>3, ConcatProperties
<1>5. order \in Seq(Node) /\ Len(order) \in Nat /\ \A i \in 1..Len(order) : order[i] \in listed[m]
  <2>1. order \in Seq(Node)
    BY <1>1, <1>4, SeqMonotonic
  <2> QED
    BY <1>4, <2>1
<1>6. \A i \in 1..Len(order) : order[i] # self
  <2>1. \A i \in 1..Len(clients) : clients[i] \in ClientsOf(m)
    <3>1. clients \in Seq(ClientsOf(m))
      BY <1>1, FiniteNodes, OrderOfSet
    <3> QED
      BY <3>1
  <2>2. \A i \in 1..Len(peers) : peers[i] \in PeersOf(m) \ {self}
    <3>1. peers \in Seq(PeersOf(m) \ {self})
      BY <1>1, FiniteNodes, OrderOfSet
    <3> QED
      BY <3>1
  <2>3. ASSUME NEW i \in 1..Len(order) PROVE order[i] # self
    <3>1. CASE i <= Len(clients)
      <4>1. i \in 1..Len(clients) /\ order[i] = clients[i]
        BY <1>3, <1>4, <3>1
      <4> QED
        BY <2>1, <4>1 DEF ClientsOf
    <3>2. CASE ~(i <= Len(clients))
      <4>1. i - Len(clients) \in 1..Len(peers) /\ order[i] = peers[i - Len(clients)]
        BY <1>3, <1>4, <3>2
      <4> QED
        BY <2>2, <4>1
    <3> QED
      BY <3>1, <3>2
  <2> QED
    BY <2>3
<1>7. configs \in SUBSET Node /\ Expected(m) = configs
  BY <1>1 DEF PeerConfigs, PeersOf, ClientsOf, Expected
<1>8. nd = ConfigureDevice(device[m], order, configs, allowed, PeerCfgsToRemove(m, configs))
  OBVIOUS
<1>9. rib \in RibType
  BY DEF StateTypes
<1> HIDE DEF configs
<1>10. /\ nd \in Devices /\ Consistent(nd) /\ nd.peers = configs
       /\ \A x \in Prefix : GoesToLast(nd.owner[x], order, Taken(order, configs, allowed, x))
  <2>1. Configured(nd, order, configs, allowed)
    BY <1>5, <1>7, <1>8, DeviceConfigured, Zenon
  <2> QED
    BY <2>1, Zenon DEF Configured
<1>11. ASSUME Lists(routes, Mesh), rb = InstallRoutes(m, order, dests, Len(order)),
              NEW d \in Dest \ Mesh
       PROVE  \/ \E g \in Node : /\ rb[d] = <<m, g>>
                                 /\ self \notin Client => g \in GatewaysOf(routes, d)
                                 /\ NoSplit => nd.owner[d] = g
              \/ /\ rb[d] = IF rib[d] # <<>> /\ rib[d][1] = m THEN <<>> ELSE rib[d]
                 /\ NoSplit => nd.owner[d] = None
  <2> DEFINE taken == Taken(order, configs, allowed, d)
             given == Given(order, dests, d)
  <2>1. d \in Prefix
    BY DEF Prefix
  <2>2. \A n \in listed[m] : /\ d \in allowed[n] <=> n \in GatewaysOf(routes, d)
                             /\ d \in dests[n] <=> n \in GatewaysOf(routes, d)
    <3>1. ASSUME NEW n \in listed[m] PROVE d \in allowed[n] <=> n \in GatewaysOf(routes, d)
      BY <1>1, ConvertGateways
    <3>2. ASSUME NEW n \in listed[m] PROVE dests[n] = allowed[n] \cap Dest
      OBVIOUS
    <3> QED
      BY <3>1, <3>2
  <2>3. \A i \in 1..Len(order) : i \in given <=> order[i] \in GatewaysOf(routes, d)
    BY <1>5, <2>2 DEF Given
  <2>4. ASSUME NoSplit PROVE taken = given
    <3>1. ASSUME NEW i \in 1..Len(order), order[i] \in GatewaysOf(routes, d) PROVE order[i] \in configs
      <4> DEFINE n == order[i]
      <4>1. n \in listed[m] /\ n # self
        BY <1>5, <1>6
      <4>2. CASE n \notin Client
        BY <4>1, <4>2 DEF configs, PeerConfigs, PeersOf
      <4>3. CASE n \in Client
        <5>1. PICK l \in Mesh : n \in ClientsOf(l) /\ CorrespondingPeer(self, l, n) = self
          BY <1>1, <1>11, <3>1, <4>3, ClientGateway
        <5>2. n \in ClientsOf(m)
          BY <4>1, <4>3 DEF ClientsOf
        <5>3. CorrespondingPeer(self, m, n) = self
          BY <2>4, <4>3, <5>1, <5>2 DEF NoSplit, SplitClient
        <5>4. PeersOf(m) # {}
          BY DEF PeersOf, HasSelf
        <5> QED
          BY <5>2, <5>3, <5>4 DEF configs, PeerConfigs
      <4> QED
        BY <4>2, <4>3
    <3>2. \A i \in 1..Len(order) : i \in taken <=> order[i] \in configs /\ d \in allowed[order[i]]
      BY DEF Taken
    <3>3. \A i \in 1..Len(order) : i \in taken <=> i \in given
      BY <1>5, <2>2, <2>3, <3>1, <3>2
    <3>4. taken \subseteq 1..Len(order) /\ given \subseteq 1..Len(order)
      BY DEF Taken, Given
    <3> HIDE DEF taken, given
    <3> QED
      BY <3>3, <3>4
  <2>5. given \subseteq 1..Len(order)
    BY DEF Given
  <2> HIDE DEF taken, given
  <2>6. GoesToLast(nd.owner[d], order, taken)
    BY <1>10, <2>1 DEF taken
  <2>7. RoutedToLast(rb[d], rib[d], m, order, given)
    BY <1>5, <1>9, <1>11, InstallRoutesResult DEF given
  <2>8. CASE given = {}
    <3>1. rb[d] = IF rib[d] # <<>> /\ rib[d][1] = m THEN <<>> ELSE rib[d]
      BY <2>7, <2>8 DEF RoutedToLast
    <3>2. NoSplit => nd.owner[d] = None
      BY <2>4, <2>6, <2>8 DEF GoesToLast
    <3> QED
      BY <3>1, <3>2
  <2>9. CASE given # {}
    <3>1. PICK i \in given : rb[d] = <<m, order[i]>> /\ \A j \in given : j <= i
      BY <2>7, <2>9 DEF RoutedToLast
    <3>2. order[i] \in Node /\ order[i] \in GatewaysOf(routes, d)
      BY <1>5, <2>3, <2>5, <3>1
    <3>3. ASSUME NoSplit PROVE nd.owner[d] = order[i]
      <4>1. PICK j \in given : nd.owner[d] = order[j] /\ \A k \in given : k <= j
        BY <2>4, <2>6, <2>9, <3>3 DEF GoesToLast
      <4>2. i <= j /\ j <= i /\ i \in Nat /\ j \in Nat
        BY <1>5, <2>5, <3>1, <4>1
      <4>3. i = j
        BY <4>2
      <4> QED
        BY <4>1, <4>3
    <3> QED
      BY <3>1, <3>2, <3>3
  <2> QED
    BY <2>8, <2>9
<1> QED
  BY <1>5, <1>7, <1>10, <1>11 DEF Installs

---------------------------------------------------------------------------
(* The end of ApplyConfig *)

\* A gateway that getAllRoutes found for a destination few advertise is one of
\* the nearest.
LEMMA GatewayIsNearest ==
    ASSUME StoreTypes, NEW routes, Lists(routes, Mesh), NEW d \in Dest \ Mesh, Few(d),
           NEW g \in GatewaysOf(routes, d)
    PROVE  Nearest(g, d)
<1> DEFINE l == routes[d]
<1>1. PICK i \in 1..Len(l) : g = l[i].gw
  BY DEF GatewaysOf
<1>2. PICK mn \in Ads(Mesh, d) : l[i] = RouteNode(mn[1], mn[2], d)
  BY <1>1 DEF Lists, GoodList
<1>3. mn[1] \in Mesh /\ mn[2] \in Node \ Client /\ adv[mn[1]][mn[2]][d] > 0
  BY DEF Ads, Few
<1>4. l[i] = [gw |-> mn[2], hops |-> adv[mn[1]][mn[2]][d]]
  BY <1>2, <1>3, RouteNodeType
<1>5. g = mn[2] /\ l[i].hops = adv[mn[1]][mn[2]][d]
  BY <1>1, <1>4
<1>6. \A ml \in Ads(Mesh, d) : l[i].hops <= adv[ml[1]][ml[2]][d]
  BY <1>1 DEF Lists, GoodList
<1> QED
  BY <1>5, <1>6 DEF Nearest

\* When updateWgConf has been through all meshes, devices and routes match the
\* stores.
LEMMA AppliedMatches ==
    ASSUME StoreTypes, NEW routes, Lists(routes, Mesh), NEW dev, NEW rb \in RibType,
           Applied(Mesh, dev, rb, routes)
    PROVE  Matches(dev, rb)
<1>1. \A m \in Mesh : dev[m].peers = Expected(m)
  BY DEF Applied
<1>2. ASSUME NEW d \in Dest \ Mesh
      PROVE  /\ NoSplit /\ rb[d] # <<>> => dev[rb[d][1]].owner[d] = rb[d][2]
             /\ NoSplit /\ rb[d] = <<>> => \A m \in Mesh : dev[m].owner[d] = None
             /\ self \notin Client /\ Few(d) /\ rb[d] # <<>> => Nearest(rb[d][2], d)
  <2>1. rb[d] # <<>> => rb[d][1] \in Mesh
    BY DEF RibType
  <2>2. /\ NoSplit /\ rb[d] # <<>> => dev[rb[d][1]].owner[d] = rb[d][2]
        /\ NoSplit /\ rb[d] = <<>> => \A m \in Mesh : dev[m].owner[d] = None
        /\ self \notin Client /\ rb[d] # <<>> => rb[d][2] \in GatewaysOf(routes, d)
    BY <2>1 DEF Applied
  <2> QED
    BY <2>2, GatewayIsNearest
<1> QED
  BY <1>1, <1>2 DEF Matches

\* The invariant gives the three properties of a settled daemon.
LEMMA SettledProperties ==
    ASSUME SettledInv
    PROVE  DevicesFollowStores /\ RoutesMatchDevices /\ NearestGateway
<1>1. DevicesFollowStores
  BY DEF SettledInv, Matches, DevicesFollowStores, Expected
<1>2. RoutesMatchDevices
  BY DEF SettledInv, Matches, RoutesMatchDevices, NoSplit
<1>3. NearestGateway
  <2> SUFFICES ASSUME Settled, NEW d \in Dest \ Mesh, self \notin Client,
                      Cardinality(Ads(Mesh, d)) <= 2, \A mn \in Ads(Mesh, d) : mn[2] \notin Client,
                      rib[d] # <<>>
               PROVE  \E mn \in Ads(Mesh, d) :
                        /\ mn[2] = rib[d][2]
                        /\ \A ml \in Ads(Mesh, d) : adv[mn[1]][mn[2]][d] <= adv[ml[1]][ml[2]][d]
    BY Zenon DEF NearestGateway, Ads
  <2>1. Nearest(rib[d][2], d)
    BY DEF SettledInv, Matches, Few
  <2> QED
    BY <2>1 DEF Nearest
<1> QED
  BY <1>1, <1>2, <1>3

---------------------------------------------------------------------------
(* Steps that leave the stores alone *)

\* What is said of the stores stays true when they do not change.
LEMMA StoresKept ==
    ASSUME UNCHANGED <<self, stores>>
    PROVE  /\ StoreTypes => StoreTypes'
           /\ AdvertisersListed => AdvertisersListed'
           /\ \A routes, ms : Lists(routes, ms) => Lists(routes, ms)'
           /\ \A ms, dev, rb, routes : Applied(ms, dev, rb, routes) => Applied(ms, dev, rb, routes)'
           /\ \A dev, rb : Matches(dev, rb) => Matches(dev, rb)'
<1>1. self' = self /\ listed' = listed /\ adv' = adv
  BY DEF stores
<1>2. (StoreTypes => StoreTypes') /\ (AdvertisersListed => AdvertisersListed')
  BY <1>1 DEF StoreTypes, AdvertisersListed
<1>3. \A m : PeersOf(m)' = PeersOf(m) /\ ClientsOf(m)' = ClientsOf(m)
  BY <1>1 DEF PeersOf, ClientsOf
<1>4. \A s, m, c : CorrespondingPeer(s, m, c)' = CorrespondingPeer(s, m, c)
  BY <1>3 DEF CorrespondingPeer
<1>5. \A m, n, d : RouteNode(m, n, d)' = RouteNode(m, n, d)
  BY <1>1, <1>4 DEF RouteNode
<1>6. \A ms, d : Ads(ms, d)' = Ads(ms, d)
  BY <1>1 DEF Ads
<1>7. \A d : Few(d)' <=> Few(d)
  BY <1>6 DEF Few
<1>8. \A l, A, d : GoodList(l, A, d)' <=> GoodList(l, A, d)
  BY <1>1, <1>5, <1>7 DEF GoodList
<1>9. \A m : ClientsHavePeers(m)' <=> ClientsHavePeers(m)
  BY <1>1, <1>3 DEF ClientsHavePeers
<1>10. \A routes, ms : Lists(routes, ms) => Lists(routes, ms)'
  BY <1>6, <1>8, <1>9 DEF Lists
<1>11. \A m : Expected(m)' = Expected(m)
  BY <1>1, <1>3, <1>4 DEF Expected, ClientConfigs, PeerConfigs
<1>12. NoSplit' <=> NoSplit
  BY <1>1, <1>3, <1>4 DEF NoSplit, SplitClient
<1>13. \A ms, dev, rb, routes : Applied(ms, dev, rb, routes) => Applied(ms, dev, rb, routes)'
  BY <1>1, <1>11, <1>12 DEF Applied, GatewaysOf
<1>14. \A g, d : Nearest(g, d)' <=> Nearest(g, d)
  BY <1>1, <1>6 DEF Nearest
<1>15. \A dev, rb : Matches(dev, rb) => Matches(dev, rb)'
  BY <1>1, <1>7, <1>11, <1>12, <1>14 DEF Matches
<1> QED
  BY <1>2, <1>10, <1>13, <1>15

\* What ApplyConfig starts from and returns to.
LEMMA ApplyStates ==
    /\ NoRoutes \in [Dest -> Seq(RouteNodes)]
    /\ Idle \in ApplyState /\ Idle.pc = "idle" /\ Idle.same = FALSE
    /\ [Idle EXCEPT !.pc = "panicked"] \in ApplyState
    /\ [Idle EXCEPT !.pc = "panicked"].same = FALSE
    /\ [pc |-> "collect", todo |-> Mesh, routes |-> NoRoutes, same |-> TRUE] \in ApplyState
<1>1. NoRoutes \in [Dest -> Seq(RouteNodes)]
  BY DEF NoRoutes
<1> QED
  BY <1>1 DEF ApplyState, Idle

\* A step after which the call that runs, if any, knows that it is not the last
\* word, and the daemon is not settled.
LEMMA UnsettledStep ==
    ASSUME StateTypes', AdvertisersListed', apply'.same = FALSE,
           fresh' = FALSE \/ apply'.pc # "idle"
    PROVE  WgInv'
<1>1. CollectInv' /\ UpdateInv'
  BY DEF CollectInv, UpdateInv
<1>2. SettledInv'
  BY DEF SettledInv, Settled
<1> QED
  BY <1>1, <1>2 DEF WgInv

\* The daemon starts with empty devices and nothing applied.
LEMMA InitWg ==
    ASSUME Init PROVE WgInv
<1>1. self \in Node /\ listed \in [Mesh -> SUBSET Node]
  BY WgConfigAssumption DEF Init
<1>2. 0 \in 0..MaxHops /\ 1 \in 0..MaxHops
  BY WgConfigAssumption
<1>3. StoreTypes
  BY <1>1, <1>2 DEF StoreTypes, Init
<1>4. device \in [Mesh -> Devices] /\ \A m \in Mesh : Consistent(device[m])
  <2> DEFINE fresh0 == [peers |-> {}, owner |-> [x \in Prefix |-> None]]
  <2>1. fresh0 \in Devices
    BY DeviceRecord
  <2>2. Consistent(fresh0)
    BY DEF Consistent
  <2> QED
    BY <2>1, <2>2 DEF Init
<1>5. rib \in RibType
  BY DEF Init, RibType
<1>6. apply \in ApplyState /\ apply.same = FALSE
  BY ApplyStates DEF Init
<1>7. fresh = FALSE /\ changes \in 0..MaxChanges /\ failures \in 0..MaxFailures
  BY WgConfigAssumption DEF Init
<1>8. StateTypes
  BY <1>3, <1>4, <1>5, <1>6, <1>7 DEF StateTypes
<1>9. AdvertisersListed
  BY DEF AdvertisersListed, Init
<1>10. CollectInv /\ UpdateInv
  BY <1>6 DEF CollectInv, UpdateInv
<1>11. SettledInv
  BY <1>7 DEF SettledInv, Settled
<1> QED
  BY <1>8, <1>9, <1>10, <1>11 DEF WgInv

\* A call of ApplyConfig starts with no routes, from no mesh.
LEMMA StepStartApply ==
    ASSUME WgInv, StartApply PROVE WgInv'
<1> DEFINE new == [pc |-> "collect", todo |-> Mesh, routes |-> NoRoutes, same |-> TRUE]
<1>1. /\ apply' = new /\ UNCHANGED <<self, stores>>
      /\ UNCHANGED <<device, rib, fresh, changes, failures>>
  BY DEF StartApply, kernel
<1>2. new \in ApplyState /\ new.pc = "collect" /\ new.todo = Mesh /\ new.routes = NoRoutes
  BY ApplyStates
<1> HIDE DEF new
<1>3. StoreTypes' /\ AdvertisersListed'
  BY <1>1, StoresKept DEF WgInv, StateTypes
<1>4. StateTypes'
  BY <1>1, <1>2, <1>3 DEF WgInv, StateTypes
<1>5. Lists(NoRoutes, {})
  <2>1. ASSUME NEW d \in Dest PROVE GoodList(NoRoutes[d], Ads({}, d), d)
    <3>1. NoRoutes[d] = <<>> /\ Ads({}, d) = {}
      BY DEF NoRoutes, Ads
    <3>2. <<>> \in Seq(RouteNodes) /\ Len(<<>>) = 0
      OBVIOUS
    <3> QED
      BY <3>1, <3>2 DEF GoodList
  <2> QED
    BY <2>1 DEF Lists, NoRoutes
<1>6. CollectInv'
  <2>1. Lists(NoRoutes, {})'
    BY <1>1, <1>5, StoresKept
  <2>2. apply'.pc = "collect" /\ apply'.routes = NoRoutes /\ Mesh \ apply'.todo = {}
    BY <1>1, <1>2
  <2>3. NoRoutes' = NoRoutes
    BY DEF NoRoutes
  <2> QED
    BY <2>1, <2>2, <2>3 DEF CollectInv
<1>7. UpdateInv' /\ SettledInv'
  BY <1>1, <1>2 DEF UpdateInv, SettledInv, Settled
<1> QED
  BY <1>3, <1>4, <1>6, <1>7 DEF WgInv

\* Another mesh's turn in getAllRoutes.
LEMMA ListsMerge ==
    ASSUME StoreTypes, AdvertisersListed, NEW ms \in SUBSET Mesh, NEW m \in Mesh,
           NEW all \in [Dest -> Seq(RouteNodes)], Lists(all, ms), ClientsHavePeers(m),
           NEW order \in SetToSeqs(Advertisers(m))
    PROVE  Lists(MergeRoutes(all, GetRoutes(m, order)), ms \cup {m})
<1> DEFINE routes == GetRoutes(m, order)
<1>1. /\ \A d \in Mesh : routes[d] = <<>>
      /\ \A d \in Dest \ Mesh : GoodList(routes[d], Ads({m}, d), d)
  BY GetRoutesGood DEF ClientsHavePeers
<1> HIDE DEF routes
<1>2. ASSUME NEW d \in Dest, d \in Mesh PROVE MergeRoutes(all, routes)[d] = <<>>
  BY <1>1, <1>2 DEF MergeRoutes, Lists
<1>3. ASSUME NEW d \in Dest, d \notin Mesh
      PROVE  GoodList(MergeRoutes(all, routes)[d], Ads(ms \cup {m}, d), d)
  <2>1. GoodList(all[d], Ads(ms, d), d) /\ GoodList(routes[d], Ads({m}, d), d)
    BY <1>1, <1>3 DEF Lists
  <2> QED
    BY <2>1, MergeRoutesGood
<1>4. \A l \in ms \cup {m} : ClientsHavePeers(l)
  BY DEF Lists
<1> QED
  BY <1>2, <1>3, <1>4 DEF Lists, routes

\* A mesh's turn in getAllRoutes, which may panic or fail.
LEMMA StepCollectRoutes ==
    ASSUME WgInv, NEW m \in Mesh, CollectRoutes(m) PROVE WgInv'
<1> DEFINE fromClients == \E c \in ClientsOf(m), d \in Dest \ Mesh : adv[m][c][d] > 0
           some == \E routes \in {GetRoutes(m, o) : o \in SetToSeqs(Advertisers(m))} :
                     apply' = [apply EXCEPT
                                !.todo = IF @ = {m} THEN Mesh ELSE @ \ {m},
                                !.pc = IF apply.todo = {m} THEN "update" ELSE "collect",
                                !.routes = MergeRoutes(@, routes)]
<1>1. /\ UNCHANGED <<self, stores>> /\ UNCHANGED <<device, rib, changes, failures>>
      /\ apply.pc = "collect" /\ m \in apply.todo
  BY DEF CollectRoutes, kernel
<1>2. StoreTypes' /\ AdvertisersListed' /\ StoreTypes /\ AdvertisersListed /\ apply \in ApplyState
  BY <1>1, StoresKept DEF WgInv, StateTypes
<1>3. CASE apply' = Idle /\ fresh' = FALSE
  <2>1. StateTypes'
    BY <1>1, <1>2, <1>3, ApplyStates DEF WgInv, StateTypes
  <2> QED
    BY <1>2, <1>3, <2>1, ApplyStates, UnsettledStep
<1>4. CASE apply' = [Idle EXCEPT !.pc = "panicked"] /\ fresh' = FALSE
  <2>1. StateTypes'
    BY <1>1, <1>2, <1>4, ApplyStates DEF WgInv, StateTypes
  <2> QED
    BY <1>2, <1>4, <2>1, ApplyStates, UnsettledStep
<1>5. CASE ClientsHavePeers(m) /\ some /\ UNCHANGED fresh
  <2>1. PICK order \in SetToSeqs(Advertisers(m)) :
               apply' = [apply EXCEPT
                          !.todo = IF @ = {m} THEN Mesh ELSE @ \ {m},
                          !.pc = IF apply.todo = {m} THEN "update" ELSE "collect",
                          !.routes = MergeRoutes(@, GetRoutes(m, order))]
    BY <1>5
  <2> DEFINE merged == MergeRoutes(apply.routes, GetRoutes(m, order))
  <2>2. /\ apply.todo \in SUBSET Mesh /\ apply.routes \in [Dest -> Seq(RouteNodes)]
        /\ apply.same \in BOOLEAN
    BY <1>2 DEF ApplyState
  <2>3. merged \in [Dest -> Seq(RouteNodes)]
    BY <1>2, <1>5, <2>2, GetRoutesGood, MergeRoutesType DEF ClientsHavePeers
  <2>4. apply.same => Lists(merged, (Mesh \ apply.todo) \cup {m})
    <3>1. apply.same => Lists(apply.routes, Mesh \ apply.todo)
      BY <1>1 DEF WgInv, CollectInv
    <3>2. Mesh \ apply.todo \in SUBSET Mesh
      OBVIOUS
    <3> QED
      BY <1>2, <1>5, <2>2, <3>1, <3>2, ListsMerge
  <2> HIDE DEF merged
  <2>5. /\ apply' = [apply EXCEPT !.todo = apply'.todo, !.pc = apply'.pc, !.routes = merged]
        /\ apply'.todo = IF apply.todo = {m} THEN Mesh ELSE apply.todo \ {m}
        /\ apply'.pc = IF apply.todo = {m} THEN "update" ELSE "collect"
        /\ apply'.routes = merged /\ apply'.same = apply.same
    BY <1>2, <2>1 DEF ApplyState, merged
  <2>6. apply' \in ApplyState
    <3>1. apply'.todo \in SUBSET Mesh /\ apply'.pc \in {"idle", "collect", "update", "panicked"}
      BY <2>2, <2>5
    <3> QED
      BY <1>2, <2>3, <2>5, <3>1 DEF ApplyState
  <2>7. StateTypes'
    BY <1>1, <1>2, <1>5, <2>6 DEF WgInv, StateTypes
  <2>9. CollectInv'
    <3>1. CASE apply.todo = {m}
      <4>1. (Mesh \ apply.todo) \cup {m} = Mesh
        BY <3>1
      <4>2. apply.same => Lists(merged, Mesh)
        BY <2>4, <4>1
      <4>3. \A routes, ms : Lists(routes, ms) => Lists(routes, ms)'
        BY <1>1, StoresKept
      <4> QED
        BY <2>5, <3>1, <4>2, <4>3 DEF CollectInv
    <3>2. CASE apply.todo # {m}
      <4>1. (Mesh \ apply.todo) \cup {m} = Mesh \ apply'.todo
        BY <1>1, <2>5, <3>2
      <4>2. apply.same => Lists(merged, Mesh \ apply'.todo)
        BY <2>4, <4>1
      <4>3. \A routes, ms : Lists(routes, ms) => Lists(routes, ms)'
        BY <1>1, StoresKept
      <4> QED
        BY <2>5, <3>2, <4>2, <4>3 DEF CollectInv
    <3> QED
      BY <3>1, <3>2
  <2>10. UpdateInv'
    <3> SUFFICES ASSUME apply'.same, apply'.pc = "update"
                 PROVE  Applied(Mesh \ apply.todo, device, rib, apply.routes)'
      BY DEF UpdateInv
    <3>1. apply'.todo = Mesh
      BY <2>5
    <3>2. \A m1 \in Mesh \ apply'.todo : FALSE
      BY <3>1
    <3>3. \A d \in Dest \ Mesh : rib'[d] # <<>> => rib'[d][1] \in Mesh
      BY <2>7 DEF StateTypes, RibType
    <3> QED
      BY <3>2, <3>3 DEF Applied
  <2>11. SettledInv'
    BY <2>5 DEF SettledInv, Settled
  <2> QED
    BY <1>2, <2>7, <2>9, <2>10, <2>11 DEF WgInv
<1> QED
  BY <1>3, <1>4, <1>5 DEF CollectRoutes, Abort, ClientsHavePeers

\* The step to the next mesh, or the end of ApplyConfig, after the turn of m in
\* updateWgConf has succeeded.
LEMMA StepNextMesh ==
    ASSUME WgInv, NEW m \in Mesh, apply.pc = "update", m \in apply.todo, NextMesh(m),
           UNCHANGED <<self, stores, changes, failures>>,
           device' \in [Mesh -> Devices], \A l \in Mesh : Consistent(device'[l]), rib' \in RibType,
           apply.same => Applied((Mesh \ apply.todo) \cup {m}, device', rib', apply.routes)
    PROVE  WgInv'
<1>1. UNCHANGED <<self, stores>> /\ UNCHANGED <<changes, failures>>
  OBVIOUS
<1>2. StoreTypes' /\ AdvertisersListed' /\ StoreTypes /\ apply \in ApplyState
  BY <1>1, StoresKept DEF WgInv, StateTypes
<1>3. /\ apply.todo \in SUBSET Mesh /\ apply.same \in BOOLEAN /\ fresh \in BOOLEAN
  BY <1>2 DEF ApplyState, WgInv, StateTypes
<1>4. \A l \in Mesh : Consistent(device[l])'
  BY DEF Consistent
<1>5. apply.same => Lists(apply.routes, Mesh)
  BY DEF WgInv, CollectInv
<1>6. /\ \A routes, ms : Lists(routes, ms) => Lists(routes, ms)'
      /\ \A ms, dev, rb, routes : Applied(ms, dev, rb, routes) => Applied(ms, dev, rb, routes)'
      /\ \A dev, rb : Matches(dev, rb) => Matches(dev, rb)'
  BY <1>1, StoresKept
<1>7. CASE apply.todo = {m}
  <2>1. apply' = Idle /\ fresh' = apply.same
    BY <1>7 DEF NextMesh
  <2>2. StateTypes'
    BY <1>1, <1>2, <1>3, <1>4, <2>1, ApplyStates DEF WgInv, StateTypes
  <2>3. apply'.same = FALSE
    BY <2>1, ApplyStates
  <2>4. CollectInv' /\ UpdateInv'
    BY <2>3 DEF CollectInv, UpdateInv
  <2>5. apply.same => Matches(device', rib')
    <3>1. (Mesh \ apply.todo) \cup {m} = Mesh
      BY <1>7
    <3>2. apply.same => Applied(Mesh, device', rib', apply.routes)
      BY <3>1
    <3> QED
      BY <1>2, <1>5, <3>2, AppliedMatches
  <2>6. SettledInv'
    BY <1>6, <2>1, <2>5 DEF SettledInv, Settled
  <2> QED
    BY <1>2, <2>2, <2>4, <2>6 DEF WgInv
<1>8. CASE apply.todo # {m}
  <2>1. apply' = [apply EXCEPT !.todo = @ \ {m}] /\ UNCHANGED fresh
    BY <1>8 DEF NextMesh
  <2>2. /\ apply' \in ApplyState /\ apply'.todo = apply.todo \ {m} /\ apply'.pc = "update"
        /\ apply'.routes = apply.routes /\ apply'.same = apply.same
    BY <1>2, <1>3, <2>1 DEF ApplyState
  <2>3. StateTypes'
    BY <1>1, <1>2, <1>3, <1>4, <2>1, <2>2 DEF WgInv, StateTypes
  <2>4. CollectInv'
    BY <1>5, <1>6, <2>2 DEF CollectInv
  <2>5. UpdateInv'
    <3>1. (Mesh \ apply.todo) \cup {m} = Mesh \ apply'.todo
      BY <2>2
    <3>2. apply.same => Applied(Mesh \ apply'.todo, device', rib', apply.routes)
      BY <3>1
    <3> QED
      BY <1>6, <2>2, <3>2 DEF UpdateInv
  <2>6. SettledInv'
    BY <2>2 DEF SettledInv, Settled
  <2> QED
    BY <1>2, <2>3, <2>4, <2>5, <2>6 DEF WgInv
<1> QED
  BY <1>7, <1>8

\* ApplyConfig gives up, with devices and routes as they are by now.
LEMMA StepAbort ==
    ASSUME WgInv, Abort, UNCHANGED <<self, stores, changes>>, failures' \in 0..MaxFailures,
           device' \in [Mesh -> Devices], \A l \in Mesh : Consistent(device'[l]), rib' \in RibType
    PROVE  WgInv'
<1>1. UNCHANGED <<self, stores>> /\ changes' = changes
  OBVIOUS
<1>2. StoreTypes' /\ AdvertisersListed'
  BY <1>1, StoresKept DEF WgInv, StateTypes
<1>3. apply' \in ApplyState /\ apply'.same = FALSE /\ fresh' = FALSE
  BY ApplyStates DEF Abort
<1>4. \A l \in Mesh : Consistent(device[l])'
  BY DEF Consistent
<1>5. StateTypes'
  BY <1>1, <1>2, <1>3, <1>4 DEF WgInv, StateTypes
<1> QED
  BY <1>2, <1>3, <1>5, UnsettledStep

\* A device that has been configured is one of the daemon's.
LEMMA DevicesExcept ==
    ASSUME StateTypes, NEW m \in Mesh, NEW nd \in Devices, Consistent(nd)
    PROVE  /\ [device EXCEPT ![m] = nd] \in [Mesh -> Devices]
           /\ \A l \in Mesh : Consistent([device EXCEPT ![m] = nd][l])
<1> QED
  BY DEF StateTypes

\* updateWgConf of a client, with routes that are installed or not.
LEMMA StepUpdateClient ==
    ASSUME WgInv, NEW m \in Mesh, apply.pc = "update", m \in apply.todo, UpdateClient(m),
           UNCHANGED <<self, stores, changes>>
    PROVE  WgInv'
<1> USE DEF WgInv
<1>1. CASE PeersOf(m) = {}
  <2>1. Abort /\ device' = device /\ rib' = rib /\ failures' = failures
    BY <1>1 DEF UpdateClient, kernel
  <2>2. /\ device' \in [Mesh -> Devices] /\ (\A l \in Mesh : Consistent(device'[l]))
        /\ rib' \in RibType /\ failures' \in 0..MaxFailures
    BY <2>1 DEF StateTypes
  <2> QED
    BY <2>1, <2>2, StepAbort
<1>2. CASE PeersOf(m) # {}
  <2> DEFINE p == CorrespondingPeer(self, m, self)
             allowed == ClientAllowed(m, apply.routes)
             configs == ClientConfigs(self, m)
             nd == ConfigureDevice(device[m], <<p>>, configs, [n \in {p} |-> allowed],
                                   PeerCfgsToRemove(m, configs))
             rb(done) == InstallRoutes(m, <<p>>, [n \in {p} |-> allowed \ {m}], done)
  <2>1. self \in Client
    BY DEF UpdateClient
  <2>2. PICK ok \in BOOLEAN :
           /\ ok \/ failures < MaxFailures
           /\ failures' = failures + (IF ok THEN 0 ELSE 1)
           /\ rib' = rb(IF ok THEN 1 ELSE 0)
           /\ IF ok
              THEN NextMesh(m)
              ELSE IF apply.todo = {m} THEN Abort
              ELSE apply' = [apply EXCEPT !.todo = @ \ {m}, !.same = FALSE] /\ UNCHANGED fresh
    BY <1>2 DEF UpdateClient
  <2>3. device' = [device EXCEPT ![m] = nd]
    BY <1>2 DEF UpdateClient
  <2>4. /\ nd \in Devices /\ Consistent(nd) /\ nd.peers = Expected(m) /\ p \in Node
        /\ Installs(m, nd, rb(1), apply.routes)
    BY <1>2, <2>1, ClientInstalls
  <2>5. rb(0) \in RibType /\ rb(1) \in RibType
    <3>1. <<p>> \in Seq(Node) /\ 0 \in 0..Len(<<p>>) /\ 1 \in 0..Len(<<p>>)
      BY <2>4
    <3>2. rib \in RibType
      BY DEF StateTypes
    <3> HIDE DEF p, allowed
    <3> QED
      BY <3>1, <3>2, InstallRoutesType
  <2> HIDE DEF nd, rb, p, allowed, configs
  <2>6. device' \in [Mesh -> Devices] /\ \A l \in Mesh : Consistent(device'[l])
    BY <2>3, <2>4, DevicesExcept
  <2>7. failures \in 0..MaxFailures /\ MaxFailures \in Nat
    BY WgConfigAssumption DEF StateTypes
  <2>8. CASE ok
    <3>1. rib' = rb(1) /\ NextMesh(m) /\ failures' = failures
      BY <2>2, <2>7, <2>8
    <3>2. apply.same => Applied((Mesh \ apply.todo) \cup {m}, device', rib', apply.routes)
      <4>1. apply.same => Applied(Mesh \ apply.todo, device, rib, apply.routes)
        BY DEF UpdateInv
      <4>2. Mesh \ apply.todo \in SUBSET Mesh /\ m \in Mesh \ (Mesh \ apply.todo)
        OBVIOUS
      <4> QED
        BY <2>3, <2>4, <3>1, <4>1, <4>2, InstallsApplies
    <3> QED
      BY <2>5, <2>6, <3>1, <3>2, StepNextMesh
  <2>9. CASE ~ok
    <3>1. rib' = rb(0) /\ failures' = failures + 1 /\ failures < MaxFailures
      BY <2>2, <2>9
    <3>2. failures' \in 0..MaxFailures /\ rib' \in RibType
      BY <2>5, <2>7, <3>1
    <3>3. CASE apply.todo = {m}
      <4>1. Abort
        BY <2>2, <2>9, <3>3
      <4> QED
        BY <2>6, <3>2, <4>1, StepAbort
    <3>4. CASE apply.todo # {m}
      <4>1. apply' = [apply EXCEPT !.todo = @ \ {m}, !.same = FALSE] /\ UNCHANGED fresh
        BY <2>2, <2>9, <3>4
      <4>2. apply' \in ApplyState /\ apply'.same = FALSE /\ apply'.pc # "idle"
        <5>1. apply \in ApplyState
          BY DEF StateTypes
        <5> QED
          BY <4>1, <5>1 DEF ApplyState
      <4>3. StoreTypes' /\ AdvertisersListed'
        BY StoresKept DEF StateTypes
      <4>4. \A l \in Mesh : Consistent(device[l])'
        BY <2>6 DEF Consistent
      <4>5. StateTypes'
        BY <2>6, <3>2, <4>1, <4>2, <4>3, <4>4 DEF StateTypes
      <4> QED
        BY <4>2, <4>3, <4>5, UnsettledStep
    <3> QED
      BY <3>3, <3>4
  <2> QED
    BY <2>8, <2>9
<1> QED
  BY <1>1, <1>2

\* A client whose routes are installed and whose device is not configured.
LEMMA StepConfigureClientFails ==
    ASSUME WgInv, NEW m \in Mesh, apply.pc = "update", m \in apply.todo,
           ConfigureClientFails(m), UNCHANGED <<self, stores, changes>>
    PROVE  WgInv'
<1> USE DEF WgInv
<1> DEFINE p == CorrespondingPeer(self, m, self)
           dests == [n \in {p} |-> ClientAllowed(m, apply.routes) \ {m}]
<1>1. /\ rib' = InstallRoutes(m, <<p>>, dests, 1) /\ device' = device
      /\ failures < MaxFailures /\ failures' = failures + 1 /\ Abort
  BY DEF ConfigureClientFails
<1>2. p \in Node
  BY ClientInstalls DEF ConfigureClientFails
<1>3. <<p>> \in Seq(Node) /\ 1 \in 0..Len(<<p>>) /\ rib \in RibType
  BY <1>2 DEF StateTypes
<1> HIDE DEF p, dests
<1>4. rib' \in RibType
  BY <1>1, <1>3, InstallRoutesType
<1>5. failures' \in 0..MaxFailures
  BY <1>1, WgConfigAssumption DEF StateTypes
<1>6. device' \in [Mesh -> Devices] /\ \A l \in Mesh : Consistent(device'[l])
  BY <1>1 DEF StateTypes
<1> QED
  BY <1>1, <1>4, <1>5, <1>6, StepAbort

\* updateWgConf of a peer, with routes that are installed or not.
LEMMA StepUpdatePeer ==
    ASSUME WgInv, NEW m \in Mesh, apply.pc = "update", m \in apply.todo, HasSelf(m), UpdatePeer(m),
           UNCHANGED <<self, stores, changes>>
    PROVE  WgInv'
<1> USE DEF WgInv
<1> DEFINE allowed == [n \in listed[m] |-> ConvertMeshNode(self, m, n, apply.routes)]
           dests == [n \in listed[m] |-> allowed[n] \cap Dest]
           configs == PeerConfigs(self, m)
           nd(order) == ConfigureDevice(device[m], order, configs, allowed,
                                        PeerCfgsToRemove(m, configs))
           rb(order, done) == InstallRoutes(m, order, dests, done)
<1>1. PICK clients \in SetToSeqs(ClientsOf(m)), peers \in SetToSeqs(PeersOf(m) \ {self}) :
         \/ /\ rib' = rb(clients \o peers, Len(clients \o peers))
            /\ device' = [device EXCEPT ![m] = nd(clients \o peers)]
            /\ NextMesh(m)
            /\ UNCHANGED failures
         \/ /\ failures < MaxFailures
            /\ failures' = failures + 1
            /\ \E done \in 0..Len(clients \o peers) : rib' = rb(clients \o peers, done)
            /\ Abort
            /\ UNCHANGED device
  BY DEF UpdatePeer
<1> DEFINE order == clients \o peers
<1>2. self \notin Client
  BY DEF UpdatePeer
<1>3. /\ nd(order) \in Devices /\ Consistent(nd(order)) /\ nd(order).peers = Expected(m)
      /\ order \in Seq(Node) /\ Len(order) \in Nat
      /\ Lists(apply.routes, Mesh) => Installs(m, nd(order), rb(order, Len(order)), apply.routes)
  BY <1>2, PeerInstalls
<1> HIDE DEF order, allowed, dests, configs
<1>4. \A done \in 0..Len(order) : rb(order, done) \in RibType
  <2>1. rib \in RibType
    BY DEF StateTypes
  <2> QED
    BY <1>3, <2>1, InstallRoutesType
<1> HIDE DEF nd, rb
<1>5. CASE /\ rib' = rb(order, Len(order)) /\ device' = [device EXCEPT ![m] = nd(order)]
           /\ NextMesh(m) /\ UNCHANGED failures
  <2>1. device' \in [Mesh -> Devices] /\ \A l \in Mesh : Consistent(device'[l])
    BY <1>3, <1>5, DevicesExcept
  <2>2. rib' \in RibType
    BY <1>3, <1>4, <1>5
  <2>3. apply.same => Applied((Mesh \ apply.todo) \cup {m}, device', rib', apply.routes)
    <3>1. apply.same => /\ Applied(Mesh \ apply.todo, device, rib, apply.routes)
                        /\ Lists(apply.routes, Mesh)
      BY DEF UpdateInv, CollectInv
    <3>2. Mesh \ apply.todo \in SUBSET Mesh /\ m \in Mesh \ (Mesh \ apply.todo)
      OBVIOUS
    <3> QED
      BY <1>3, <1>5, <3>1, <3>2, InstallsApplies
  <2> QED
    BY <1>5, <2>1, <2>2, <2>3, StepNextMesh
<1>6. CASE /\ failures < MaxFailures /\ failures' = failures + 1
           /\ \E done \in 0..Len(order) : rib' = rb(order, done)
           /\ Abort /\ UNCHANGED device
  <2>1. failures' \in 0..MaxFailures
    BY <1>6, WgConfigAssumption DEF StateTypes
  <2>2. /\ device' \in [Mesh -> Devices] /\ (\A l \in Mesh : Consistent(device'[l]))
        /\ rib' \in RibType
    BY <1>4, <1>6 DEF StateTypes
  <2> QED
    BY <1>6, <2>1, <2>2, StepAbort
<1> QED
  BY <1>1, <1>5, <1>6 DEF order

\* A mesh's turn in updateWgConf.
LEMMA StepUpdateWgConf ==
    ASSUME WgInv, NEW m \in Mesh, UpdateWgConf(m) PROVE WgInv'
<1>1. apply.pc = "update" /\ m \in apply.todo /\ UNCHANGED <<self, stores, changes>>
  BY DEF UpdateWgConf
<1>2. CASE HasSelf(m) /\ UpdateClient(m)
  BY <1>1, <1>2, StepUpdateClient
<1>3. CASE HasSelf(m) /\ UpdatePeer(m)
  BY <1>1, <1>3, StepUpdatePeer
<1>4. CASE Abort /\ UNCHANGED <<kernel, failures>>
  <2>1. device' = device /\ rib' = rib /\ failures' = failures
    BY <1>4 DEF kernel
  <2>2. /\ device' \in [Mesh -> Devices] /\ (\A l \in Mesh : Consistent(device'[l]))
        /\ rib' \in RibType /\ failures' \in 0..MaxFailures
    BY <2>1 DEF WgInv, StateTypes
  <2> QED
    BY <1>1, <1>4, <2>2, StepAbort
<1>5. CASE HasSelf(m) /\ ConfigureClientFails(m)
  BY <1>1, <1>5, StepConfigureClientFails
<1> QED
  BY <1>2, <1>3, <1>4, <1>5 DEF UpdateWgConf

---------------------------------------------------------------------------
(* Steps of gossip *)

\* A change that keeps the stores' types unsettles the daemon.
LEMMA StepChanged ==
    ASSUME WgInv, Changed, StoreTypes', AdvertisersListed' PROVE WgInv'
<1>1. UNCHANGED <<device, rib, failures>> /\ changes' \in 0..MaxChanges
  BY WgConfigAssumption DEF Changed, kernel, WgInv, StateTypes
<1>2. apply' \in ApplyState /\ apply'.same = FALSE /\ fresh' = FALSE
  <2>1. apply \in ApplyState /\ apply' = [apply EXCEPT !.same = FALSE]
    BY DEF Changed, WgInv, StateTypes
  <2> QED
    BY <2>1 DEF Changed, ApplyState
<1>3. StateTypes'
  BY <1>1, <1>2 DEF WgInv, StateTypes
<1> QED
  BY <1>2, <1>3, UnsettledStep

\* Who leaves takes its routes along.
LEMMA StepNodeLeaves ==
    ASSUME WgInv, NEW m \in Mesh, NEW n \in Node, NodeLeaves(m, n) PROVE WgInv'
<1>1. /\ Changed /\ self' = self
      /\ listed' = [listed EXCEPT ![m] = @ \ {n}]
      /\ adv' = [adv EXCEPT ![m][n] = [d \in Dest |-> 0]]
  BY DEF NodeLeaves, Changed
<1>2. StoreTypes /\ AdvertisersListed /\ 0 \in 0..MaxHops
  BY WgConfigAssumption DEF WgInv, StateTypes
<1>3. StoreTypes'
  BY <1>1, <1>2 DEF StoreTypes
<1>4. AdvertisersListed'
  <2> SUFFICES ASSUME NEW l \in Mesh, NEW k \in Node, NEW d \in Dest, adv'[l][k][d] > 0
               PROVE  k \in listed'[l]
    BY DEF AdvertisersListed
  <2>1. CASE l = m /\ k = n
    <3>1. adv'[l][k][d] = 0
      BY <1>1, <1>2, <2>1 DEF StoreTypes
    <3> QED
      BY <3>1
  <2>2. CASE ~(l = m /\ k = n)
    <3>1. adv'[l][k][d] = adv[l][k][d]
      BY <1>1, <1>2, <2>2 DEF StoreTypes
    <3>2. k \in listed[l]
      BY <1>2, <3>1 DEF AdvertisersListed
    <3> QED
      BY <1>1, <1>2, <2>2, <3>2 DEF StoreTypes
  <2> QED
    BY <2>1, <2>2
<1> QED
  BY <1>1, <1>3, <1>4, StepChanged

\* Who arrives advertises nothing yet.
LEMMA StepNodeArrives ==
    ASSUME WgInv, NEW m \in Mesh, NEW n \in Node, NodeArrives(m, n) PROVE WgInv'
<1>1. /\ Changed /\ self' = self /\ adv' = adv
      /\ listed' = [listed EXCEPT ![m] = @ \cup {n}]
  BY DEF NodeArrives, Changed
<1>2. StoreTypes /\ AdvertisersListed
  BY DEF WgInv, StateTypes
<1>3. StoreTypes' /\ \A l \in Mesh : listed[l] \subseteq listed'[l]
  BY <1>1, <1>2 DEF StoreTypes
<1>4. AdvertisersListed'
  BY <1>1, <1>2, <1>3 DEF AdvertisersListed
<1> QED
  BY <1>1, <1>3, <1>4, StepChanged

\* Only a node in the store advertises.
LEMMA StepRouteChanges ==
    ASSUME WgInv, NEW m \in Mesh, NEW n \in Node, NEW d \in Dest, RouteChanges(m, n, d)
    PROVE  WgInv'
<1>1. /\ Changed /\ self' = self /\ listed' = listed /\ n \in listed[m]
      /\ \E hops \in 0..MaxHops : adv' = [adv EXCEPT ![m][n][d] = hops]
  BY DEF RouteChanges, Changed
<1>2. StoreTypes /\ AdvertisersListed
  BY DEF WgInv, StateTypes
<1>3. PICK hops \in 0..MaxHops : adv' = [adv EXCEPT ![m][n][d] = hops]
  BY <1>1
<1>4. StoreTypes'
  BY <1>1, <1>2, <1>3 DEF StoreTypes
<1>5. AdvertisersListed'
  <2> SUFFICES ASSUME NEW l \in Mesh, NEW k \in Node, NEW e \in Dest, adv'[l][k][e] > 0
               PROVE  k \in listed[l]
    BY <1>1 DEF AdvertisersListed
  <2>1. CASE l = m /\ k = n
    BY <1>1, <2>1
  <2>2. CASE ~(l = m /\ k = n)
    <3>1. adv'[l][k][e] = adv[l][k][e]
      BY <1>2, <1>3, <2>2 DEF StoreTypes
    <3> QED
      BY <1>2, <3>1 DEF AdvertisersListed
  <2> QED
    BY <2>1, <2>2
<1> QED
  BY <1>1, <1>4, <1>5, StepChanged

\* Steps that change nothing.
LEMMA StutterWg ==
    ASSUME WgInv, UNCHANGED vars PROVE WgInv'
<1>1. UNCHANGED <<self, stores>> /\ UNCHANGED <<device, rib, apply, fresh, changes, failures>>
  BY DEF vars, kernel
<1>2. StoreTypes' /\ AdvertisersListed'
  BY <1>1, StoresKept DEF WgInv, StateTypes
<1>3. StateTypes'
  BY <1>1, <1>2 DEF WgInv, StateTypes
<1>4. /\ \A routes, ms : Lists(routes, ms) => Lists(routes, ms)'
      /\ \A ms, dev, rb, routes : Applied(ms, dev, rb, routes) => Applied(ms, dev, rb, routes)'
      /\ \A dev, rb : Matches(dev, rb) => Matches(dev, rb)'
  BY <1>1, StoresKept
<1>5. CollectInv'
  BY <1>1, <1>4 DEF WgInv, CollectInv
<1>6. UpdateInv'
  BY <1>1, <1>4 DEF WgInv, UpdateInv
<1>7. SettledInv'
  BY <1>1, <1>4 DEF WgInv, SettledInv, Settled
<1> QED
  BY <1>2, <1>3, <1>5, <1>6, <1>7 DEF WgInv

---------------------------------------------------------------------------
(* Theorems *)

\* The inductive invariant holds in every reachable state.
LEMMA WgInvariant == Spec => []WgInv
<1>1. ASSUME WgInv, [Next]_vars PROVE WgInv'
  <2>1. CASE UNCHANGED vars
    BY <1>1, <2>1, StutterWg
  <2>2. CASE StartApply
    BY <1>1, <2>2, StepStartApply
  <2>3. CASE \E m \in Mesh : CollectRoutes(m) \/ UpdateWgConf(m)
    BY <1>1, <2>3, StepCollectRoutes, StepUpdateWgConf
  <2>4. CASE \E m \in Mesh, n \in Node : NodeLeaves(m, n) \/ NodeArrives(m, n)
    BY <1>1, <2>4, StepNodeLeaves, StepNodeArrives
  <2>5. CASE \E m \in Mesh, n \in Node, d \in Dest : RouteChanges(m, n, d)
    BY <1>1, <2>5, StepRouteChanges
  <2> QED
    BY <1>1, <2>1, <2>2, <2>3, <2>4, <2>5 DEF Next
<1> QED
  BY <1>1, InitWg, PTL DEF Spec

\* Type correctness of ApplyConfig's model, in which the owner of an allowed IP
\* is always a peer of the same device, whatever fails on the way.
THEOREM WgConfigTypes == Spec => []TypeOK
<1>1. ASSUME WgInv PROVE TypeOK
  <2>1. StoreTypes /\ device \in [Mesh -> Devices] /\ rib \in RibType /\ apply \in ApplyState
    BY <1>1 DEF WgInv, StateTypes
  <2>2. \A d \in Dest : IsRouteList(apply.routes[d])
    <3> SUFFICES ASSUME NEW d \in Dest PROVE IsRouteList(apply.routes[d])
      OBVIOUS
    <3>1. apply.routes[d] \in Seq(RouteNodes)
      BY <2>1 DEF ApplyState
    <3>2. \A rn \in RouteNodes : rn.gw \in Node /\ rn.hops \in 1..MaxHops + 1
      BY DEF RouteNodes
    <3>3. \A i \in DOMAIN apply.routes[d] : apply.routes[d][i] \in RouteNodes
      BY <3>1
    <3> QED
      BY <3>2, <3>3 DEF IsRouteList
  <2>3. \A m \in Mesh : \A x \in Prefix :
           device[m].owner[x] # None => device[m].owner[x] \in device[m].peers
    BY <1>1 DEF WgInv, StateTypes, Consistent
  <2>4. apply.pc \in {"idle", "collect", "update", "panicked"} /\ apply.todo \subseteq Mesh
    BY <2>1 DEF ApplyState
  <2>5. /\ self \in Node /\ listed \in [Mesh -> SUBSET Node]
        /\ adv \in [Mesh -> [Node -> [Dest -> 0..MaxHops]]]
    BY <2>1 DEF StoreTypes
  <2>6. /\ device \in [Mesh -> [peers : SUBSET Node, owner : [Prefix -> Node \cup {None}]]]
        /\ rib \in [Dest -> (Mesh \X Node) \cup {<<>>}]
    BY <2>1 DEF Devices, RibType
  <2>7. fresh \in BOOLEAN /\ changes \in 0..MaxChanges /\ failures \in 0..MaxFailures
    BY <1>1 DEF WgInv, StateTypes
  <2> QED
    BY <2>2, <2>3, <2>4, <2>5, <2>6, <2>7 DEF TypeOK
<1> QED
  BY <1>1, WgInvariant, PTL

\* Daemons with the same store agree about every client, for any set of nodes
\* and any placement of their keys on the ring: each works out the client's
\* peer alone (getCorrespondingPeer).
THEOREM DaemonsAgreeOnClients == Spec => []ClientsAgree
<1>1. ASSUME WgInv PROVE ClientsAgree
  BY <1>1, StoresMakeClientsAgree DEF WgInv, StateTypes, StoreTypes
<1> QED
  BY <1>1, WgInvariant, PTL

\* After an ApplyConfig that succeeded on stores that have not changed since it
\* began, every device has the nodes that its store asks for, whatever earlier
\* calls left behind when they failed.
THEOREM DevicesAreAsStored == Spec => []DevicesFollowStores
<1>1. ASSUME WgInv PROVE DevicesFollowStores
  BY <1>1, SettledProperties DEF WgInv
<1> QED
  BY <1>1, WgInvariant, PTL

\* ... and what the kernel routes into a device for a gateway, the device sends
\* to that gateway, for any number of meshes that compete for a destination.
THEOREM KernelMatchesDevices == Spec => []RoutesMatchDevices
<1>1. ASSUME WgInv PROVE RoutesMatchDevices
  BY <1>1, SettledProperties DEF WgInv
<1> QED
  BY <1>1, WgInvariant, PTL

\* ... and the gateway to a destination that at most two peers advertise is one
\* of the nearest, in whichever order getRoutes and getAllRoutes meet them.
THEOREM GatewaysAreNearest == Spec => []NearestGateway
<1>1. ASSUME WgInv PROVE NearestGateway
  BY <1>1, SettledProperties DEF WgInv
<1> QED
  BY <1>1, WgInvariant, PTL
=============================================================================
