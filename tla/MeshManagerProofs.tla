-------------------------- MODULE MeshManagerProofs --------------------------
(***************************************************************************)
(* Proofs about the mesh manager of one daemon, for any number of meshes   *)
(* and of requests that run at the same time: which mesh has its WireGuard *)
(* interface, what LeaveMesh promises, what joins and updates alone cannot *)
(* do, and what holds as long as requests come one after the other.        *)
(***************************************************************************)
EXTENDS MeshManager, TLAPS

---------------------------------------------------------------------------
(* The inductive invariant *)

\* The steps in which a request holds on to a provider.
Holding == {"address", "add", "unlist", "delete", "remove", "check", "get", "put",
            "checkservice", "getservice", "putservice"}

\* p has been put into the map, and may have left it again: its request is past
\* that step and never takes it a second time.
Stored(p) == pc[p] \in {"self", "address", "add", "end"}

\* A request that runs names a mesh, one that has generated an address has it,
\* and the heartbeat has a provider while it works on one.
RequestInv ==
    /\ \A h \in Request : pc[h] \notin {"new", "end"} => mesh[h] \in Mesh
    /\ \A h \in Request : pc[h] \in {"new", "end"} => mesh[h] = None
    /\ \A h \in Request : pc[h] \in {"address", "add"} => ip[h] \in Address
    /\ beat.pc \in {"contains", "get", "put"} => beat.prov \in Request

\* Whatever is in the map, in a request's hands, in the heartbeat's, or left,
\* has been stored; a provider that has not is in no mesh and has no entry.  A
\* provider has one mesh at most, and a request that leaves it, that mesh.
StoredInv ==
    /\ \A m \in Mesh : meshes[m] # None => Stored(meshes[m])
    /\ \A h \in Request : prov[h] # None => Stored(prov[h])
    /\ \A p \in beat.todo : Stored(p)
    /\ beat.prov # None => Stored(beat.prov)
    /\ \A p \in left : Stored(p)
    /\ \A p \in Request : ~Stored(p) => node[p] = Absent
    /\ \A m, k \in Mesh : meshes[m] # None /\ meshes[m] = meshes[k] => m = k
    /\ \A h \in Request : pc[h] \in {"unlist", "delete"} =>
         \A m \in Mesh : meshes[m] = prov[h] => m = mesh[h]
    /\ \A h \in Request : pc[h] = "remove" => \A m \in Mesh : meshes[m] # prov[h]

\* A join that is about to put its provider into the map has its interface,
\* and so has every mesh in the map of a daemon that is up.
DeviceInv ==
    /\ \A h \in Request : pc[h] = "store" => h \in live
    /\ daemon = "up" => \A m \in Mesh : meshes[m] # None => meshes[m] \in live
    /\ \A p \in left : p \notin live /\ \A m \in Mesh : meshes[m] # p

\* As long as no request to leave has removed an entry, none is blank, and what
\* a request or the heartbeat has found is there still.
HarmInv == ~removed =>
    /\ daemon # "panicked" /\ beat.pc # "stopped"
    /\ \A h \in Request : pc[h] \notin {"delete", "remove"}
    /\ \A h \in Request : pc[h] \in {"self", "address", "add"} => meshes[mesh[h]] # None
    /\ \A p \in Request : node[p] # Blank
    /\ \A h \in Request : pc[h] \in {"check", "get", "put", "checkservice", "getservice",
                                     "putservice"} => node[prov[h]] # Absent
    /\ \A h \in Request : pc[h] \in {"put", "putservice"} => got[h] \notin {Absent, Blank}
    /\ beat.pc \in {"contains", "get", "put"} => node[beat.prov] # Absent
    /\ beat.pc = "put" => beat.got \notin {Absent, Blank}

\* Requests that come one after the other: no two that run name the same mesh,
\* and none runs during the shutdown; a join finds its mesh absent and every
\* other request the provider that it began with.
OneByOneInv == ~overlap =>
    /\ \A g, h \in Request : mesh[g] \in Mesh /\ mesh[g] = mesh[h] => g = h
    /\ daemon \in {"closing", "down"} => \A h \in Request : pc[h] \in {"new", "end"}
    /\ daemon = "up" => closed = {}
    /\ \A h \in Request : pc[h] \in {"fetch", "interface", "store"} => meshes[mesh[h]] = None
    /\ \A h \in Request : pc[h] \in Holding \ {"remove"} => meshes[mesh[h]] = prov[h]

\* Then the address in an entry, or on its way into one, is the interface's.
AddressInv == ~overlap /\ daemon = "up" =>
    /\ \A h \in Request : pc[h] = "add" => ip[h] \in addrs[prov[h]]
    /\ \A h \in Request : pc[h] \in {"put", "putservice"} /\ got[h] \in Address
                            => got[h] \in addrs[prov[h]]
    /\ \A m \in Mesh : /\ beat.pc = "put" /\ beat.prov = meshes[m] /\ beat.got \in Address
                       => beat.got \in addrs[beat.prov]
    /\ \A m \in Mesh : meshes[m] # None /\ node[meshes[m]] \in Address
                            => node[meshes[m]] \in addrs[meshes[m]]

ManagerInv == /\ TypeOK /\ RequestInv /\ StoredInv /\ DeviceInv
              /\ HarmInv /\ OneByOneInv /\ AddressInv /\ NoInterfaceLost

---------------------------------------------------------------------------
(* Lemmas *)

\* The three kinds of entries differ.
LEMMA EntriesDiffer == Absent # Blank /\ Absent \notin Address /\ Blank \notin Address
<1>1. Absent # Blank
  BY DEF Absent, Blank
<1>2. ASSUME NEW x, NEW y PROVE Absent # <<x, y>> /\ Blank # <<x, y>>
  BY DEF Absent, Blank
<1>3. \A a \in Address : \E x, y : a = <<x, y>>
  BY DEF Address
<1> QED BY <1>1, <1>2, <1>3

\* An address that is generated for a mesh is one.
LEMMA GeneratedAddress == ASSUME NEW m \in Mesh PROVE GetIP(m) \subseteq Address
<1>1. {MeshPrefix(m)} \subseteq {MeshPrefix(k) : k \in Mesh}
  OBVIOUS
<1> HIDE DEF MeshPrefix
<1> QED BY <1>1 DEF GetIP, Address

\* The fields of the heartbeat after each of its steps.
LEMMA BeatFields ==
    ASSUME TypeOK
    PROVE  /\ HeartBeat => /\ beat'.pc = "exists" /\ beat'.prov = None /\ beat'.got = Absent
                           /\ beat'.todo = {meshes[m] : m \in Mesh} \ {None}
                           /\ UNCHANGED node
           /\ BeatNodeExists =>
                /\ \/ beat' = NoBeat
                   \/ \E p \in beat.todo :
                        /\ beat'.todo = beat.todo \ {p} /\ beat'.got = beat.got
                        /\ beat'.pc = IF node[p] # Absent THEN "contains" ELSE "exists"
                        /\ beat'.prov = IF node[p] # Absent THEN p ELSE None
                /\ UNCHANGED node
           /\ BeatContains =>
                /\ \/ /\ node[beat.prov] = Absent
                      /\ beat'.pc = "stopped" /\ beat'.todo = {}
                      /\ beat'.prov = None /\ beat'.got = Absent
                   \/ /\ node[beat.prov] # Absent
                      /\ beat'.todo = beat.todo /\ beat'.got = Absent
                      /\ \/ beat'.pc = "get" /\ beat'.prov = beat.prov
                         \/ beat'.pc = "exists" /\ beat'.prov = None
                /\ UNCHANGED node
           /\ BeatGet =>
                /\ beat'.pc = "put" /\ beat'.prov = beat.prov /\ beat'.todo = beat.todo
                /\ beat'.got = IF node[beat.prov] = Absent THEN Blank ELSE node[beat.prov]
                /\ UNCHANGED node
           /\ BeatPut =>
                /\ beat'.pc = "exists" /\ beat'.prov = None /\ beat'.todo = beat.todo
                /\ beat'.got = Absent
                /\ node' = [node EXCEPT ![beat.prov] = beat.got]
<1> DEFINE Beat == [pc : {"idle", "exists", "contains", "get", "put", "stopped"},
                    todo : SUBSET Request, prov : Request \cup {None}, got : Entry]
<1>1. beat \in Beat
  BY DEF TypeOK
<1>2. HeartBeat => /\ beat'.pc = "exists" /\ beat'.prov = None /\ beat'.got = Absent
                   /\ beat'.todo = {meshes[m] : m \in Mesh} \ {None}
                   /\ UNCHANGED node
  BY DEF HeartBeat, NoBeat
<1>3. ASSUME NEW p, NEW x, NEW y
      PROVE  LET b == [beat EXCEPT !.todo = @ \ {p}, !.pc = x, !.prov = y]
             IN  b.pc = x /\ b.prov = y /\ b.todo = beat.todo \ {p} /\ b.got = beat.got
  BY <1>1
<1>4. BeatNodeExists =>
        /\ \/ beat' = NoBeat
           \/ \E p \in beat.todo :
                /\ beat'.todo = beat.todo \ {p} /\ beat'.got = beat.got
                /\ beat'.pc = IF node[p] # Absent THEN "contains" ELSE "exists"
                /\ beat'.prov = IF node[p] # Absent THEN p ELSE None
        /\ UNCHANGED node
  <2> SUFFICES ASSUME BeatNodeExists, beat' # NoBeat
               PROVE  \E p \in beat.todo :
                        /\ beat'.todo = beat.todo \ {p} /\ beat'.got = beat.got
                        /\ beat'.pc = IF node[p] # Absent THEN "contains" ELSE "exists"
                        /\ beat'.prov = IF node[p] # Absent THEN p ELSE None
    BY DEF BeatNodeExists
  <2>1. PICK p \in beat.todo :
          beat' = [beat EXCEPT !.todo = @ \ {p},
                               !.pc = IF node[p] # Absent THEN "contains" ELSE "exists",
                               !.prov = IF node[p] # Absent THEN p ELSE None]
    BY DEF BeatNodeExists
  <2> QED BY <1>3, <2>1
<1>5. ASSUME NEW x, NEW p, NEW e
      PROVE  BeatGoto(x, p, e) => /\ beat'.pc = x /\ beat'.prov = p /\ beat'.got = e
                                  /\ beat'.todo = beat.todo
  BY <1>1 DEF BeatGoto
<1>6. BeatContains =>
        /\ \/ /\ node[beat.prov] = Absent
              /\ beat'.pc = "stopped" /\ beat'.todo = {}
              /\ beat'.prov = None /\ beat'.got = Absent
           \/ /\ node[beat.prov] # Absent
              /\ beat'.todo = beat.todo /\ beat'.got = Absent
              /\ \/ beat'.pc = "get" /\ beat'.prov = beat.prov
                 \/ beat'.pc = "exists" /\ beat'.prov = None
        /\ UNCHANGED node
  <2>1. LET b == [NoBeat EXCEPT !.pc = "stopped"]
        IN  b.pc = "stopped" /\ b.todo = {} /\ b.prov = None /\ b.got = Absent
    BY DEF NoBeat
  <2>2. BeatGoto("get", beat.prov, Absent) =>
          /\ beat'.pc = "get" /\ beat'.prov = beat.prov
          /\ beat'.todo = beat.todo /\ beat'.got = Absent
    BY <1>5
  <2>3. BeatGoto("exists", None, Absent) =>
          /\ beat'.pc = "exists" /\ beat'.prov = None
          /\ beat'.todo = beat.todo /\ beat'.got = Absent
    BY <1>5
  <2>4. CASE node[beat.prov] = Absent
    BY <2>1, <2>4 DEF BeatContains
  <2>5. CASE node[beat.prov] # Absent
    BY <2>2, <2>3, <2>5 DEF BeatContains
  <2> QED BY <2>4, <2>5
<1>7. BeatGet =>
        /\ beat'.pc = "put" /\ beat'.prov = beat.prov /\ beat'.todo = beat.todo
        /\ beat'.got = IF node[beat.prov] = Absent THEN Blank ELSE node[beat.prov]
        /\ UNCHANGED node
  BY <1>5 DEF BeatGet
<1>8. BeatPut =>
        /\ beat'.pc = "exists" /\ beat'.prov = None /\ beat'.todo = beat.todo
        /\ beat'.got = Absent
        /\ node' = [node EXCEPT ![beat.prov] = beat.got]
  BY <1>5 DEF BeatPut
<1> QED BY <1>2, <1>4, <1>6, <1>7, <1>8

\* Requests and the heartbeat name a mesh and hold a provider while they run.
LEMMA RequestStep ==
    ASSUME TypeOK, RequestInv, StoredInv, Next
    PROVE  RequestInv'
<1>1. ASSUME NEW h \in Request, NEW m \in Mesh, CreateMesh(h, m) PROVE RequestInv'
  BY <1>1 DEF CreateMesh, Begin, Goto, RequestInv, TypeOK
<1>2. ASSUME NEW h \in Request, NEW m \in Mesh, JoinMesh(h, m) PROVE RequestInv'
  BY <1>2 DEF JoinMesh, Begin, Goto, RequestInv, TypeOK
<1>3. ASSUME NEW h \in Request, NEW m \in Mesh, LeaveMesh(h, m) PROVE RequestInv'
  BY <1>3 DEF LeaveMesh, Begin, Goto, RequestInv, TypeOK
<1>4. ASSUME NEW h \in Request, NEW m \in Mesh, SetNode(h, m) PROVE RequestInv'
  BY <1>4 DEF SetNode, Begin, Goto, RequestInv, TypeOK
<1>5. ASSUME NEW h \in Request, NEW m \in Mesh, SetService(h, m) PROVE RequestInv'
  BY <1>5 DEF SetService, Begin, Goto, RequestInv, TypeOK
<1>6. ASSUME NEW h \in Request, FetchMesh(h) PROVE RequestInv'
  BY <1>6 DEF FetchMesh, At, Goto, RequestInv
<1>7. ASSUME NEW h \in Request, CreateInterface(h) PROVE RequestInv'
  BY <1>7 DEF CreateInterface, At, Goto, RequestInv
<1>8. ASSUME NEW h \in Request, StoreMesh(h) PROVE RequestInv'
  BY <1>8 DEF StoreMesh, At, Goto, RequestInv
<1>9. ASSUME NEW h \in Request, AddSelf(h) PROVE RequestInv'
  <2>1. mesh[h] \in Mesh
    BY <1>9 DEF AddSelf, At, RequestInv
  <2>2. GetIP(mesh[h]) \subseteq Address
    BY <2>1, GeneratedAddress
  <2> QED BY <1>9, <2>2, MeshManagerAssumption DEF AddSelf, At, Goto, End, RequestInv, TypeOK
<1>10. ASSUME NEW h \in Request, AddSelfPanics(h) PROVE RequestInv'
  BY <1>10 DEF AddSelfPanics, End, RequestInv, TypeOK
<1>11. ASSUME NEW h \in Request, AddAddress(h) PROVE RequestInv'
  BY <1>11 DEF AddAddress, At, Goto, End, RequestInv, TypeOK
<1>12. ASSUME NEW h \in Request, AddNode(h) PROVE RequestInv'
  BY <1>12 DEF AddNode, End, RequestInv, TypeOK
<1>13. ASSUME NEW h \in Request, JoinFails(h) PROVE RequestInv'
  BY <1>13 DEF JoinFails, End, RequestInv, TypeOK
<1>14. ASSUME NEW h \in Request, RemoveNode(h) PROVE RequestInv'
  BY <1>14 DEF RemoveNode, At, Goto, RequestInv
<1>15. ASSUME NEW h \in Request, DeleteMesh(h) PROVE RequestInv'
  BY <1>15 DEF DeleteMesh, At, Goto, RequestInv
<1>16. ASSUME NEW h \in Request, RemoveInterface(h) PROVE RequestInv'
  BY <1>16 DEF RemoveInterface, End, RequestInv, TypeOK
<1>17. ASSUME NEW h \in Request, RemoveInterfaceFails(h) PROVE RequestInv'
  BY <1>17 DEF RemoveInterfaceFails, End, RequestInv, TypeOK
<1>18. ASSUME NEW h \in Request, ContainsEntry(h) PROVE RequestInv'
  BY <1>18 DEF ContainsEntry, At, End, Goto, RequestInv, TypeOK
<1>19. ASSUME NEW h \in Request, GetEntry(h) PROVE RequestInv'
  BY <1>19 DEF GetEntry, At, Goto, RequestInv, TypeOK
<1>20. ASSUME NEW h \in Request, PutEntry(h) PROVE RequestInv'
  BY <1>20 DEF PutEntry, End, RequestInv, TypeOK
<1>21. ASSUME NEW h \in Request, PutService(h) PROVE RequestInv'
  BY <1>21 DEF PutService, End, RequestInv, TypeOK
<1>22. CASE HeartBeat
  BY <1>22 DEF HeartBeat, BeatStep, request, RequestInv
<1>23. CASE BeatNodeExists
  <2>1. beat'.pc \in {"contains", "get", "put"} => beat'.prov \in Request
    <3>1. beat.todo \subseteq Request
      BY DEF TypeOK
    <3> QED BY <1>23, <3>1, BeatFields DEF NoBeat
  <2> QED BY <1>23, <2>1 DEF BeatNodeExists, BeatStep, request, RequestInv
<1>24. CASE BeatContains
  <2>1. beat'.pc \in {"contains", "get", "put"} => beat'.prov \in Request
    BY <1>24, BeatFields DEF BeatContains, BeatStep, RequestInv
  <2> QED BY <1>24, <2>1 DEF BeatContains, BeatStep, request, RequestInv
<1>25. CASE BeatGet
  BY <1>25 DEF BeatGet, BeatStep, BeatGoto, request, RequestInv
<1>26. CASE BeatPut
  BY <1>26 DEF BeatPut, BeatStep, BeatGoto, request, RequestInv
<1>27. CASE Interrupt
  BY <1>27 DEF Interrupt, request, RequestInv
<1>28. CASE Exit
  BY <1>28 DEF Exit, request, RequestInv
<1>29. ASSUME NEW m \in Mesh, CloseMesh(m) PROVE RequestInv'
  BY <1>29 DEF CloseMesh, request, RequestInv
<1>30. ASSUME NEW h \in Request, ConcurrentMapAccess(h) PROVE RequestInv'
  BY <1>30 DEF ConcurrentMapAccess, request, RequestInv
<1> QED BY <1>1, <1>2, <1>3, <1>4, <1>5, <1>6, <1>7, <1>8, <1>9, <1>10, <1>11, <1>12,
           <1>13, <1>14, <1>15, <1>16, <1>17, <1>18, <1>19, <1>20, <1>21, <1>22, <1>23,
           <1>24, <1>25, <1>26, <1>27, <1>28, <1>29, <1>30 DEF Next

---------------------------------------------------------------------------
(* Types *)

Steps == {"new", "fetch", "interface", "store", "self", "address", "add", "unlist", "delete",
          "remove", "check", "get", "put", "checkservice", "getservice", "putservice", "end"}

\* The variables of the requests.
RequestTypes ==
    /\ pc \in [Request -> Steps]
    /\ mesh \in [Request -> Mesh \cup {None}]
    /\ prov \in [Request -> Request \cup {None}]
    /\ \A h \in Request : prov[h] # None <=> pc[h] \in Holding
    /\ got \in [Request -> Entry]
    /\ ip \in [Request -> Address \cup {Absent}]
    /\ found \in [Request -> BOOLEAN]

\* The other variables.
StateTypes ==
    /\ meshes \in [Mesh -> Request \cup {None}]
    /\ node \in [Request -> Entry]
    /\ live \subseteq Request
    /\ addrs \in [Request -> SUBSET Address]
    /\ beat \in [pc : {"idle", "exists", "contains", "get", "put", "stopped"},
                 todo : SUBSET Request, prov : Request \cup {None}, got : Entry]
    /\ daemon \in {"up", "closing", "down", "panicked", "fatal"}
    /\ closed \subseteq Mesh
    /\ removed \in BOOLEAN /\ overlap \in BOOLEAN /\ left \subseteq Request
    /\ failures \in 0..MaxFailures

\* The type invariant in two parts.
LEMMA TypeParts == TypeOK <=> RequestTypes /\ StateTypes
<1>1. (\A h \in Request : (prov[h] # None) = (pc[h] \in Holding))
         <=> (\A h \in Request : prov[h] # None <=> pc[h] \in Holding)
  OBVIOUS
<1> QED BY <1>1 DEF TypeOK, RequestTypes, StateTypes, Steps, Holding

\* The same of the next state.
LEMMA TypePartsNext == RequestTypes' /\ StateTypes' => TypeOK'
<1>1. (\A h \in Request : prov'[h] # None <=> pc'[h] \in Holding)
         => (\A h \in Request : (prov'[h] # None) = (pc'[h] \in Holding))
  OBVIOUS
<1> QED BY <1>1 DEF TypeOK, RequestTypes, StateTypes, Steps, Holding

\* A request that begins while none of its mesh runs and no shutdown does.
LEMMA BeginApart ==
    ASSUME NEW h \in Request, NEW m \in Mesh, NEW step, Begin(h, m, step), ~overlap'
    PROVE  ~overlap /\ daemon # "closing" /\ \A g \in Request : mesh[g] # m
<1>1. overlap' = (overlap \/ daemon = "closing" \/ m \in {mesh[g] : g \in Request})
  BY DEF Begin
<1>2. ~(overlap \/ daemon = "closing" \/ m \in {mesh[g] : g \in Request})
  BY <1>1
<1> QED BY <1>2

\* What the entries are.
LEMMA EntryTypes ==
    /\ Absent \in Entry /\ Blank \in Entry /\ Address \subseteq Entry
BY DEF Entry

\* The end of a request keeps the types of its variables.
LEMMA EndTypes == ASSUME RequestTypes, NEW h \in Request, End(h) PROVE RequestTypes'
<1>1. "end" \in Steps /\ "end" \notin Holding
  BY DEF Steps, Holding
<1> HIDE DEF Steps, Holding
<1>2. pc' \in [Request -> Steps] /\ mesh' \in [Request -> Mesh \cup {None}]
  BY <1>1 DEF End, RequestTypes
<1>3. got' \in [Request -> Entry]
  BY EntryTypes DEF End, RequestTypes
<1>4. ip' \in [Request -> Address \cup {Absent}]
  BY DEF End, RequestTypes
<1>5. found' \in [Request -> BOOLEAN]
  BY DEF End, RequestTypes
<1>6. /\ prov' \in [Request -> Request \cup {None}]
      /\ \A g \in Request : prov'[g] # None <=> pc'[g] \in Holding
  BY <1>1 DEF End, RequestTypes
<1> QED BY <1>2, <1>3, <1>4, <1>5, <1>6 DEF RequestTypes

\* The types of the requests' variables are kept.
LEMMA RequestTypesStep ==
    ASSUME RequestTypes, StateTypes, RequestInv, Next
    PROVE  RequestTypes'
<1>1. ASSUME NEW h \in Request, NEW m \in Mesh, CreateMesh(h, m) PROVE RequestTypes'
  BY <1>1 DEF CreateMesh, Begin, Goto, RequestTypes, Steps, Holding
<1>2. ASSUME NEW h \in Request, NEW m \in Mesh, JoinMesh(h, m) PROVE RequestTypes'
  BY <1>2 DEF JoinMesh, Begin, Goto, RequestTypes, Steps, Holding
<1>3. ASSUME NEW h \in Request, NEW m \in Mesh, LeaveMesh(h, m) PROVE RequestTypes'
  BY <1>3 DEF LeaveMesh, Begin, Goto, RequestTypes, StateTypes, Steps, Holding
<1>4. ASSUME NEW h \in Request, NEW m \in Mesh, SetNode(h, m) PROVE RequestTypes'
  BY <1>4 DEF SetNode, Begin, Goto, HasSelf, RequestTypes, StateTypes, Steps, Holding
<1>5. ASSUME NEW h \in Request, NEW m \in Mesh, SetService(h, m) PROVE RequestTypes'
  BY <1>5 DEF SetService, Begin, Goto, HasSelf, RequestTypes, StateTypes, Steps, Holding
<1>6. ASSUME NEW h \in Request, FetchMesh(h) PROVE RequestTypes'
  BY <1>6 DEF FetchMesh, At, Goto, RequestTypes, Steps, Holding
<1>7. ASSUME NEW h \in Request, CreateInterface(h) PROVE RequestTypes'
  BY <1>7 DEF CreateInterface, At, Goto, RequestTypes, Steps, Holding
<1>8. ASSUME NEW h \in Request, StoreMesh(h) PROVE RequestTypes'
  BY <1>8 DEF StoreMesh, At, Goto, RequestTypes, Steps, Holding
<1>9. ASSUME NEW h \in Request, AddSelf(h) PROVE RequestTypes'
  <2>1. CASE End(h)
    BY <2>1, EndTypes
  <2>2. CASE ~End(h)
    <3> DEFINE p == meshes[mesh[h]]
    <3>1. mesh[h] \in Mesh
      BY <1>9 DEF AddSelf, At, RequestInv
    <3>2. p # None /\ prov' = [prov EXCEPT ![h] = p] /\ pc' = [pc EXCEPT ![h] = "address"]
          /\ UNCHANGED <<mesh, got, found>>
      BY <1>9, <2>2 DEF AddSelf, Goto
    <3>3. PICK a \in GetIP(mesh[h]) : ip' = [ip EXCEPT ![h] = a]
      BY <1>9, <2>2 DEF AddSelf
    <3>4. a \in Address
      BY <3>1, GeneratedAddress
    <3>5. p \in Request
      BY <3>1, <3>2 DEF StateTypes
    <3> HIDE DEF p
    <3>6. ip' \in [Request -> Address \cup {Absent}]
      BY <3>3, <3>4 DEF RequestTypes
    <3> QED BY <3>2, <3>5, <3>6, MeshManagerAssumption DEF RequestTypes, Steps, Holding
  <2> QED BY <2>1, <2>2
<1>10. ASSUME NEW h \in Request, AddSelfPanics(h) PROVE RequestTypes'
  BY <1>10, EndTypes DEF AddSelfPanics
<1>11. ASSUME NEW h \in Request, AddAddress(h) PROVE RequestTypes'
  <2>1. CASE End(h)
    BY <2>1, EndTypes
  <2>2. CASE ~End(h)
    BY <1>11, <2>2 DEF AddAddress, At, Goto, RequestTypes, Steps, Holding
  <2> QED BY <2>1, <2>2
<1>12. ASSUME NEW h \in Request, AddNode(h) PROVE RequestTypes'
  BY <1>12, EndTypes DEF AddNode
<1>13. ASSUME NEW h \in Request, JoinFails(h) PROVE RequestTypes'
  BY <1>13, EndTypes DEF JoinFails
<1>14. ASSUME NEW h \in Request, RemoveNode(h) PROVE RequestTypes'
  BY <1>14 DEF RemoveNode, At, Goto, RequestTypes, Steps, Holding
<1>15. ASSUME NEW h \in Request, DeleteMesh(h) PROVE RequestTypes'
  BY <1>15 DEF DeleteMesh, At, Goto, RequestTypes, Steps, Holding
<1>16. ASSUME NEW h \in Request, RemoveInterface(h) PROVE RequestTypes'
  BY <1>16, EndTypes DEF RemoveInterface
<1>17. ASSUME NEW h \in Request, RemoveInterfaceFails(h) PROVE RequestTypes'
  BY <1>17, EndTypes DEF RemoveInterfaceFails
<1>18. ASSUME NEW h \in Request, ContainsEntry(h) PROVE RequestTypes'
  <2>1. CASE End(h)
    BY <2>1, EndTypes
  <2>2. CASE ~End(h)
    BY <1>18, <2>2 DEF ContainsEntry, At, Goto, RequestTypes, Steps, Holding
  <2> QED BY <2>1, <2>2
<1>19. ASSUME NEW h \in Request, GetEntry(h) PROVE RequestTypes'
  <2>1. prov[h] \in Request
    BY <1>19 DEF GetEntry, At, RequestTypes, Holding
  <2>2. node[prov[h]] \in Entry
    BY <2>1 DEF StateTypes
  <2>3. got' \in [Request -> Entry]
    BY <1>19, <2>2, EntryTypes DEF GetEntry, RequestTypes
  <2> QED BY <1>19, <2>3 DEF GetEntry, At, Goto, RequestTypes, Steps, Holding
<1>20. ASSUME NEW h \in Request, PutEntry(h) PROVE RequestTypes'
  BY <1>20, EndTypes DEF PutEntry
<1>21. ASSUME NEW h \in Request, PutService(h) PROVE RequestTypes'
  BY <1>21, EndTypes DEF PutService
<1>22. CASE HeartBeat
  BY <1>22 DEF HeartBeat, BeatStep, request, RequestTypes
<1>23. CASE BeatNodeExists
  BY <1>23 DEF BeatNodeExists, BeatStep, request, RequestTypes
<1>24. CASE BeatContains
  BY <1>24 DEF BeatContains, BeatStep, request, RequestTypes
<1>25. CASE BeatGet
  BY <1>25 DEF BeatGet, BeatStep, request, RequestTypes
<1>26. CASE BeatPut
  BY <1>26 DEF BeatPut, BeatStep, request, RequestTypes
<1>27. CASE Interrupt
  BY <1>27 DEF Interrupt, request, RequestTypes
<1>28. CASE Exit
  BY <1>28 DEF Exit, request, RequestTypes
<1>29. ASSUME NEW m \in Mesh, CloseMesh(m) PROVE RequestTypes'
  BY <1>29 DEF CloseMesh, request, RequestTypes
<1>30. ASSUME NEW h \in Request, ConcurrentMapAccess(h) PROVE RequestTypes'
  BY <1>30 DEF ConcurrentMapAccess, request, RequestTypes
<1> QED BY <1>1, <1>2, <1>3, <1>4, <1>5, <1>6, <1>7, <1>8, <1>9, <1>10, <1>11, <1>12,
           <1>13, <1>14, <1>15, <1>16, <1>17, <1>18, <1>19, <1>20, <1>21, <1>22, <1>23,
           <1>24, <1>25, <1>26, <1>27, <1>28, <1>29, <1>30 DEF Next

\* The types of the other variables are kept.
LEMMA StateTypesStep ==
    ASSUME RequestTypes, StateTypes, RequestInv, Next
    PROVE  StateTypes'
<1>1. ASSUME NEW h \in Request, NEW m \in Mesh, CreateMesh(h, m) PROVE StateTypes'
  BY <1>1 DEF CreateMesh, Begin, StateTypes
<1>2. ASSUME NEW h \in Request, NEW m \in Mesh, JoinMesh(h, m) PROVE StateTypes'
  BY <1>2 DEF JoinMesh, Begin, StateTypes
<1>3. ASSUME NEW h \in Request, NEW m \in Mesh, LeaveMesh(h, m) PROVE StateTypes'
  BY <1>3 DEF LeaveMesh, Begin, StateTypes
<1>4. ASSUME NEW h \in Request, NEW m \in Mesh, SetNode(h, m) PROVE StateTypes'
  BY <1>4 DEF SetNode, Begin, StateTypes
<1>5. ASSUME NEW h \in Request, NEW m \in Mesh, SetService(h, m) PROVE StateTypes'
  BY <1>5 DEF SetService, Begin, StateTypes
<1>6. ASSUME NEW h \in Request, FetchMesh(h) PROVE StateTypes'
  BY <1>6 DEF FetchMesh, At, StateTypes
<1>7. ASSUME NEW h \in Request, CreateInterface(h) PROVE StateTypes'
  BY <1>7 DEF CreateInterface, At, CreateLink, StateTypes
<1>8. ASSUME NEW h \in Request, StoreMesh(h) PROVE StateTypes'
  BY <1>8 DEF StoreMesh, At, StateTypes
<1>9. ASSUME NEW h \in Request, AddSelf(h) PROVE StateTypes'
  BY <1>9 DEF AddSelf, At, StateTypes
<1>10. ASSUME NEW h \in Request, AddSelfPanics(h) PROVE StateTypes'
  BY <1>10 DEF AddSelfPanics, history, StateTypes
<1>11. ASSUME NEW h \in Request, AddAddress(h) PROVE StateTypes'
  BY <1>11 DEF AddAddress, At, AddressNew, RequestInv, StateTypes
<1>12. ASSUME NEW h \in Request, AddNode(h) PROVE StateTypes'
  <2>1. ip[h] \in Entry
    BY <1>12, EntryTypes DEF AddNode, RequestInv
  <2>2. node' \in [Request -> Entry]
    BY <1>12, <2>1 DEF AddNode, StateTypes
  <2> QED BY <1>12, <2>2 DEF AddNode, history, StateTypes
<1>13. ASSUME NEW h \in Request, JoinFails(h) PROVE StateTypes'
  BY <1>13, MeshManagerAssumption DEF JoinFails, At, Failure, StateTypes
<1>14. ASSUME NEW h \in Request, RemoveNode(h) PROVE StateTypes'
  <2>1. node' \in [Request -> Entry]
    BY <1>14, EntryTypes DEF RemoveNode, StateTypes
  <2> QED BY <1>14, <2>1 DEF RemoveNode, At, StateTypes
<1>15. ASSUME NEW h \in Request, DeleteMesh(h) PROVE StateTypes'
  BY <1>15 DEF DeleteMesh, At, StateTypes
<1>16. ASSUME NEW h \in Request, RemoveInterface(h) PROVE StateTypes'
  BY <1>16 DEF RemoveInterface, At, DeleteLink, HasDevice, StateTypes
<1>17. ASSUME NEW h \in Request, RemoveInterfaceFails(h) PROVE StateTypes'
  BY <1>17, MeshManagerAssumption DEF RemoveInterfaceFails, At, Failure, StateTypes
<1>18. ASSUME NEW h \in Request, ContainsEntry(h) PROVE StateTypes'
  BY <1>18 DEF ContainsEntry, At, StateTypes
<1>19. ASSUME NEW h \in Request, GetEntry(h) PROVE StateTypes'
  BY <1>19 DEF GetEntry, At, StateTypes
<1>20. ASSUME NEW h \in Request, PutEntry(h) PROVE StateTypes'
  BY <1>20 DEF PutEntry, At, RequestTypes, StateTypes
<1>21. ASSUME NEW h \in Request, PutService(h) PROVE StateTypes'
  BY <1>21 DEF PutService, history, RequestTypes, StateTypes
<1>22. CASE HeartBeat
  <2> DEFINE all == {meshes[m] : m \in Mesh} \ {None}
  <2>0. all \subseteq Request
    BY DEF StateTypes
  <2>1. beat' \in [pc : {"idle", "exists", "contains", "get", "put", "stopped"},
                   todo : SUBSET Request, prov : Request \cup {None}, got : Entry]
    <3> HIDE DEF all
    <3>1. beat' = [pc |-> "exists", todo |-> all, prov |-> None, got |-> Absent]
      BY <1>22 DEF HeartBeat, NoBeat, all
    <3> QED BY <2>0, <3>1, EntryTypes
  <2>2. node' = node
    BY <1>22 DEF HeartBeat
  <2> QED BY <1>22, <2>1, <2>2 DEF HeartBeat, BeatStep, history, StateTypes
<1>23. CASE BeatNodeExists
  <2>0. NoBeat \in [pc : {"idle", "exists", "contains", "get", "put", "stopped"},
                    todo : SUBSET Request, prov : Request \cup {None}, got : Entry]
    BY EntryTypes DEF NoBeat
  <2>1. beat' \in [pc : {"idle", "exists", "contains", "get", "put", "stopped"},
                   todo : SUBSET Request, prov : Request \cup {None}, got : Entry]
    <3>1. CASE beat' = NoBeat
      BY <2>0, <3>1
    <3>2. CASE beat' # NoBeat
      <4>1. PICK p \in beat.todo :
              beat' = [beat EXCEPT !.todo = @ \ {p},
                                   !.pc = IF node[p] # Absent THEN "contains" ELSE "exists",
                                   !.prov = IF node[p] # Absent THEN p ELSE None]
        BY <1>23, <3>2 DEF BeatNodeExists
      <4>2. p \in Request
        BY DEF StateTypes
      <4> QED BY <4>1, <4>2 DEF StateTypes
    <3> QED BY <3>1, <3>2
  <2>2. node' = node
    BY <1>23 DEF BeatNodeExists
  <2> QED BY <1>23, <2>1, <2>2 DEF BeatNodeExists, BeatStep, history, StateTypes
<1>24. CASE BeatContains
  <2>0. [NoBeat EXCEPT !.pc = "stopped"]
          \in [pc : {"idle", "exists", "contains", "get", "put", "stopped"},
               todo : SUBSET Request, prov : Request \cup {None}, got : Entry]
    BY EntryTypes DEF NoBeat
  <2>1. beat' \in [pc : {"idle", "exists", "contains", "get", "put", "stopped"},
                   todo : SUBSET Request, prov : Request \cup {None}, got : Entry]
    <3>1. CASE beat' = [NoBeat EXCEPT !.pc = "stopped"]
      BY <2>0, <3>1
    <3>2. CASE BeatGoto("get", beat.prov, Absent) \/ BeatGoto("exists", None, Absent)
      BY <3>2, EntryTypes DEF BeatGoto, StateTypes
    <3> QED BY <1>24, <3>1, <3>2 DEF BeatContains
  <2>2. node' = node
    BY <1>24 DEF BeatContains
  <2> QED BY <1>24, <2>1, <2>2 DEF BeatContains, BeatStep, history, StateTypes
<1>25. CASE BeatGet
  <2>0. node[beat.prov] \in Entry
    BY <1>25 DEF BeatGet, BeatStep, RequestInv, StateTypes
  <2>1. beat' \in [pc : {"idle", "exists", "contains", "get", "put", "stopped"},
                   todo : SUBSET Request, prov : Request \cup {None}, got : Entry]
    BY <1>25, <2>0, EntryTypes DEF BeatGet, BeatGoto, StateTypes
  <2>2. node' = node
    BY <1>25 DEF BeatGet
  <2> QED BY <1>25, <2>1, <2>2 DEF BeatGet, BeatStep, history, StateTypes
<1>26. CASE BeatPut
  <2>1. beat' \in [pc : {"idle", "exists", "contains", "get", "put", "stopped"},
                   todo : SUBSET Request, prov : Request \cup {None}, got : Entry]
    BY <1>26, EntryTypes DEF BeatPut, BeatGoto, StateTypes
  <2>2. node' \in [Request -> Entry]
    BY <1>26 DEF BeatPut, StateTypes
  <2> QED BY <1>26, <2>1, <2>2 DEF BeatPut, BeatStep, history, StateTypes
<1>27. CASE Interrupt
  BY <1>27 DEF Interrupt, StateTypes
<1>28. CASE Exit
  BY <1>28 DEF Exit, history, StateTypes
<1>29. ASSUME NEW m \in Mesh, CloseMesh(m) PROVE StateTypes'
  BY <1>29, MeshManagerAssumption DEF CloseMesh, DeleteLink, Failure, history, StateTypes
<1>30. ASSUME NEW h \in Request, ConcurrentMapAccess(h) PROVE StateTypes'
  BY <1>30 DEF ConcurrentMapAccess, history, StateTypes
<1> QED BY <1>1, <1>2, <1>3, <1>4, <1>5, <1>6, <1>7, <1>8, <1>9, <1>10, <1>11, <1>12,
           <1>13, <1>14, <1>15, <1>16, <1>17, <1>18, <1>19, <1>20, <1>21, <1>22, <1>23,
           <1>24, <1>25, <1>26, <1>27, <1>28, <1>29, <1>30 DEF Next

---------------------------------------------------------------------------
(* Invariance *)

\* A request that takes up a provider of the map, keeps its own or ends, and is not
\* about to leave, changes nothing of this, if it does not go back before the store.
LEMMA HolderMoves ==
    ASSUME TypeOK, StoredInv, NEW h \in Request, UNCHANGED <<meshes, node, beat, left>>,
           \A g \in Request \ {h} : pc'[g] = pc[g] /\ mesh'[g] = mesh[g] /\ prov'[g] = prov[g],
           Stored(h) => Stored(h)',
           pc'[h] \notin {"unlist", "delete", "remove"},
           \/ prov'[h] \in {None, prov[h]}
           \/ \E m \in Mesh : prov'[h] = meshes[m]
    PROVE  StoredInv'
<1>1. \A p \in Request : Stored(p) => Stored(p)'
  BY DEF Stored
<1>2. \A g \in Request : prov'[g] # None => prov'[g] \in Request /\ Stored(prov'[g])
  BY DEF TypeOK, StoredInv
<1>3. /\ \A m \in Mesh : meshes[m] # None => meshes[m] \in Request /\ Stored(meshes[m])
      /\ \A p \in beat.todo : p \in Request /\ Stored(p)
      /\ beat.prov # None => beat.prov \in Request /\ Stored(beat.prov)
      /\ \A p \in left : p \in Request /\ Stored(p)
  BY DEF TypeOK, StoredInv
<1>4. /\ \A g \in Request : pc'[g] \in {"unlist", "delete"} =>
           \A m \in Mesh : meshes[m] = prov'[g] => m = mesh'[g]
      /\ \A g \in Request : pc'[g] = "remove" => \A m \in Mesh : meshes[m] # prov'[g]
  BY DEF StoredInv
<1>5. /\ \A p \in Request : ~Stored(p)' => node[p] = Absent
      /\ \A m, k \in Mesh : meshes[m] # None /\ meshes[m] = meshes[k] => m = k
  BY <1>1 DEF StoredInv
<1> QED
  BY <1>1, <1>2, <1>3, <1>4, <1>5 DEF StoredInv

\* What is in the map or in somebody's hands has been stored, and a request that
\* removes an interface has taken its provider out of the map before.
LEMMA StoredStep ==
    ASSUME TypeOK, RequestInv, StoredInv, Next
    PROVE  StoredInv'
<1>1. ASSUME NEW h \in Request, NEW m \in Mesh, CreateMesh(h, m) PROVE StoredInv'
  BY <1>1 DEF CreateMesh, Begin, Goto, StoredInv, Stored
<1>2. ASSUME NEW h \in Request, NEW m \in Mesh, JoinMesh(h, m) PROVE StoredInv'
  BY <1>2 DEF JoinMesh, Begin, Goto, StoredInv, Stored
<1>3. ASSUME NEW h \in Request, NEW m \in Mesh, LeaveMesh(h, m) PROVE StoredInv'
  BY <1>3 DEF LeaveMesh, Begin, Goto, StoredInv, Stored, TypeOK
<1>4. ASSUME NEW h \in Request, NEW m \in Mesh, SetNode(h, m) PROVE StoredInv'
  BY <1>4 DEF SetNode, Begin, Goto, StoredInv, Stored
<1>5. ASSUME NEW h \in Request, NEW m \in Mesh, SetService(h, m) PROVE StoredInv'
  BY <1>5 DEF SetService, Begin, Goto, StoredInv, Stored
<1>6. ASSUME NEW h \in Request, FetchMesh(h) PROVE StoredInv'
  BY <1>6 DEF FetchMesh, At, Goto, StoredInv, Stored
<1>7. ASSUME NEW h \in Request, CreateInterface(h) PROVE StoredInv'
  BY <1>7 DEF CreateInterface, At, Goto, StoredInv, Stored
<1>8. ASSUME NEW h \in Request, StoreMesh(h) PROVE StoredInv'
  BY <1>8 DEF StoreMesh, At, Goto, StoredInv, Stored, TypeOK
<1>9. ASSUME NEW h \in Request, AddSelf(h) PROVE StoredInv'
  <2>1. /\ pc[h] = "self" /\ mesh[h] \in Mesh
        /\ UNCHANGED <<meshes, node, beat, left>>
    BY <1>9 DEF AddSelf, At, RequestInv
  <2>2. CASE End(h)
    BY <2>1, <2>2, HolderMoves DEF End, Stored, TypeOK
  <2>3. CASE /\ Goto(h, "address") /\ UNCHANGED mesh
             /\ prov' = [prov EXCEPT ![h] = meshes[mesh[h]]]
    BY <2>1, <2>3, HolderMoves DEF Goto, Stored, TypeOK
  <2> QED BY <1>9, <2>2, <2>3 DEF AddSelf
<1>10. ASSUME NEW h \in Request, AddSelfPanics(h) PROVE StoredInv'
  BY <1>10 DEF AddSelfPanics, End, history, StoredInv, Stored
<1>11. ASSUME NEW h \in Request, AddAddress(h) PROVE StoredInv'
  BY <1>11 DEF AddAddress, Goto, End, StoredInv, Stored, TypeOK
<1>12. ASSUME NEW h \in Request, AddNode(h) PROVE StoredInv'
  BY <1>12 DEF AddNode, End, history, RequestInv, StoredInv, Stored, TypeOK
<1>13. ASSUME NEW h \in Request, JoinFails(h) PROVE StoredInv'
  BY <1>13 DEF JoinFails, At, End, StoredInv, Stored
<1>14. ASSUME NEW h \in Request, RemoveNode(h) PROVE StoredInv'
  BY <1>14 DEF RemoveNode, At, Goto, StoredInv, Stored
<1>15. ASSUME NEW h \in Request, DeleteMesh(h) PROVE StoredInv'
  BY <1>15 DEF DeleteMesh, At, Goto, StoredInv, Stored, TypeOK
<1>16. ASSUME NEW h \in Request, RemoveInterface(h) PROVE StoredInv'
  BY <1>16 DEF RemoveInterface, At, End, StoredInv, Stored, TypeOK
<1>17. ASSUME NEW h \in Request, RemoveInterfaceFails(h) PROVE StoredInv'
  BY <1>17 DEF RemoveInterfaceFails, End, StoredInv, Stored, TypeOK
<1>18. ASSUME NEW h \in Request, ContainsEntry(h) PROVE StoredInv'
  <2>1. /\ pc[h] \in {"check", "checkservice"}
        /\ UNCHANGED <<meshes, node, beat, left>>
    BY <1>18 DEF ContainsEntry, At
  <2>2. CASE End(h)
    BY <2>1, <2>2, HolderMoves DEF End, Stored, TypeOK
  <2>3. CASE /\ Goto(h, IF pc[h] = "check" THEN "get" ELSE "getservice")
             /\ UNCHANGED <<mesh, prov>>
    BY <2>1, <2>3, HolderMoves DEF Goto, Stored, TypeOK
  <2> QED BY <1>18, <2>2, <2>3 DEF ContainsEntry
<1>19. ASSUME NEW h \in Request, GetEntry(h) PROVE StoredInv'
  BY <1>19 DEF GetEntry, At, Goto, StoredInv, Stored, TypeOK
<1>20. ASSUME NEW h \in Request, PutEntry(h) PROVE StoredInv'
  BY <1>20 DEF PutEntry, At, End, StoredInv, Stored, TypeOK
<1>21. ASSUME NEW h \in Request, PutService(h) PROVE StoredInv'
  BY <1>21 DEF PutService, End, history, StoredInv, Stored, TypeOK
<1>22. CASE HeartBeat
  BY <1>22 DEF HeartBeat, BeatStep, NoBeat, request, history, StoredInv, Stored
<1>23. CASE BeatNodeExists
  <2>1. /\ beat'.todo \subseteq beat.todo
        /\ beat'.prov = None \/ beat'.prov \in beat.todo
    BY <1>23, BeatFields DEF NoBeat
  <2>2. UNCHANGED <<meshes, node, pc, mesh, prov, left>>
    BY <1>23 DEF BeatNodeExists, BeatStep, request, history
  <2> QED BY <2>1, <2>2 DEF StoredInv, Stored
<1>24. CASE BeatContains
  <2>1. /\ beat'.todo \subseteq beat.todo
        /\ beat'.prov = None \/ beat'.prov = beat.prov
    BY <1>24, BeatFields
  <2>2. UNCHANGED <<meshes, node, pc, mesh, prov, left>>
    BY <1>24 DEF BeatContains, BeatStep, request, history
  <2> QED BY <2>1, <2>2 DEF StoredInv, Stored
<1>25. CASE BeatGet
  BY <1>25 DEF BeatGet, BeatStep, BeatGoto, request, history, StoredInv, Stored
<1>26. CASE BeatPut
  BY <1>26, MeshManagerAssumption
     DEF BeatPut, BeatStep, BeatGoto, request, history, StoredInv, Stored
<1>27. CASE Interrupt
  BY <1>27 DEF Interrupt, request, StoredInv, Stored
<1>28. CASE Exit
  BY <1>28 DEF Exit, request, history, StoredInv, Stored
<1>29. ASSUME NEW m \in Mesh, CloseMesh(m) PROVE StoredInv'
  BY <1>29 DEF CloseMesh, request, history, StoredInv, Stored
<1>30. ASSUME NEW h \in Request, ConcurrentMapAccess(h) PROVE StoredInv'
  BY <1>30 DEF ConcurrentMapAccess, request, history, StoredInv, Stored
<1> QED BY <1>1, <1>2, <1>3, <1>4, <1>5, <1>6, <1>7, <1>8, <1>9, <1>10, <1>11, <1>12,
           <1>13, <1>14, <1>15, <1>16, <1>17, <1>18, <1>19, <1>20, <1>21, <1>22, <1>23,
           <1>24, <1>25, <1>26, <1>27, <1>28, <1>29, <1>30 DEF Next

\* Interfaces are there for the meshes in the map: only the interface of a
\* provider that is in no mesh is removed while the daemon is up.
LEMMA DeviceStep ==
    ASSUME TypeOK, RequestInv, StoredInv, DeviceInv, Next
    PROVE  DeviceInv'
<1>1. ASSUME NEW h \in Request, NEW m \in Mesh, CreateMesh(h, m) PROVE DeviceInv'
  BY <1>1 DEF CreateMesh, Begin, Goto, DeviceInv
<1>2. ASSUME NEW h \in Request, NEW m \in Mesh, JoinMesh(h, m) PROVE DeviceInv'
  BY <1>2 DEF JoinMesh, Begin, Goto, DeviceInv
<1>3. ASSUME NEW h \in Request, NEW m \in Mesh, LeaveMesh(h, m) PROVE DeviceInv'
  BY <1>3 DEF LeaveMesh, Begin, Goto, DeviceInv
<1>4. ASSUME NEW h \in Request, NEW m \in Mesh, SetNode(h, m) PROVE DeviceInv'
  BY <1>4 DEF SetNode, Begin, Goto, DeviceInv
<1>5. ASSUME NEW h \in Request, NEW m \in Mesh, SetService(h, m) PROVE DeviceInv'
  BY <1>5 DEF SetService, Begin, Goto, DeviceInv
<1>6. ASSUME NEW h \in Request, FetchMesh(h) PROVE DeviceInv'
  BY <1>6 DEF FetchMesh, At, Goto, DeviceInv
<1>7. ASSUME NEW h \in Request, CreateInterface(h) PROVE DeviceInv'
  BY <1>7 DEF CreateInterface, At, Goto, CreateLink, StoredInv, DeviceInv, Stored
<1>8. ASSUME NEW h \in Request, StoreMesh(h) PROVE DeviceInv'
  BY <1>8 DEF StoreMesh, At, Goto, DeviceInv
<1>9. ASSUME NEW h \in Request, AddSelf(h) PROVE DeviceInv'
  BY <1>9 DEF AddSelf, At, Goto, End, DeviceInv, TypeOK
<1>10. ASSUME NEW h \in Request, AddSelfPanics(h) PROVE DeviceInv'
  BY <1>10 DEF AddSelfPanics, End, history, DeviceInv
<1>11. ASSUME NEW h \in Request, AddAddress(h) PROVE DeviceInv'
  BY <1>11 DEF AddAddress, At, Goto, End, DeviceInv, TypeOK
<1>12. ASSUME NEW h \in Request, AddNode(h) PROVE DeviceInv'
  BY <1>12 DEF AddNode, End, history, DeviceInv
<1>13. ASSUME NEW h \in Request, JoinFails(h) PROVE DeviceInv'
  BY <1>13 DEF JoinFails, At, End, DeviceInv
<1>14. ASSUME NEW h \in Request, RemoveNode(h) PROVE DeviceInv'
  BY <1>14 DEF RemoveNode, At, Goto, DeviceInv
<1>15. ASSUME NEW h \in Request, DeleteMesh(h) PROVE DeviceInv'
  BY <1>15, MeshManagerAssumption DEF DeleteMesh, At, Goto, DeviceInv, TypeOK
<1>16. ASSUME NEW h \in Request, RemoveInterface(h) PROVE DeviceInv'
  BY <1>16 DEF RemoveInterface, At, End, DeleteLink, StoredInv, DeviceInv, Stored, TypeOK
<1>17. ASSUME NEW h \in Request, RemoveInterfaceFails(h) PROVE DeviceInv'
  BY <1>17 DEF RemoveInterfaceFails, At, End, DeviceInv
<1>18. ASSUME NEW h \in Request, ContainsEntry(h) PROVE DeviceInv'
  BY <1>18 DEF ContainsEntry, At, End, Goto, DeviceInv, TypeOK
<1>19. ASSUME NEW h \in Request, GetEntry(h) PROVE DeviceInv'
  BY <1>19 DEF GetEntry, At, Goto, DeviceInv, TypeOK
<1>20. ASSUME NEW h \in Request, PutEntry(h) PROVE DeviceInv'
  BY <1>20 DEF PutEntry, At, End, DeviceInv
<1>21. ASSUME NEW h \in Request, PutService(h) PROVE DeviceInv'
  BY <1>21 DEF PutService, End, history, DeviceInv
<1>22. CASE HeartBeat
  BY <1>22 DEF HeartBeat, BeatStep, request, history, DeviceInv
<1>23. CASE BeatNodeExists
  BY <1>23 DEF BeatNodeExists, BeatStep, request, history, DeviceInv
<1>24. CASE BeatContains
  BY <1>24 DEF BeatContains, BeatStep, request, history, DeviceInv
<1>25. CASE BeatGet
  BY <1>25 DEF BeatGet, BeatStep, request, history, DeviceInv
<1>26. CASE BeatPut
  BY <1>26 DEF BeatPut, BeatStep, request, history, DeviceInv
<1>27. CASE Interrupt
  BY <1>27 DEF Interrupt, request, DeviceInv
<1>28. CASE Exit
  BY <1>28 DEF Exit, request, history, DeviceInv
<1>29. ASSUME NEW m \in Mesh, CloseMesh(m) PROVE DeviceInv'
  BY <1>29 DEF CloseMesh, DeleteLink, request, history, StoredInv, DeviceInv, Stored
<1>30. ASSUME NEW h \in Request, ConcurrentMapAccess(h) PROVE DeviceInv'
  BY <1>30 DEF ConcurrentMapAccess, request, history, DeviceInv
<1> QED BY <1>1, <1>2, <1>3, <1>4, <1>5, <1>6, <1>7, <1>8, <1>9, <1>10, <1>11, <1>12,
           <1>13, <1>14, <1>15, <1>16, <1>17, <1>18, <1>19, <1>20, <1>21, <1>22, <1>23,
           <1>24, <1>25, <1>26, <1>27, <1>28, <1>29, <1>30 DEF Next

\* Without a request to leave entries stay, and none is blank.
LEMMA HarmStep ==
    ASSUME TypeOK, RequestInv, StoredInv, HarmInv, Next
    PROVE  HarmInv'
<1>1. ASSUME NEW h \in Request, NEW m \in Mesh, CreateMesh(h, m) PROVE HarmInv'
  BY <1>1 DEF CreateMesh, Begin, Goto, HarmInv
<1>2. ASSUME NEW h \in Request, NEW m \in Mesh, JoinMesh(h, m) PROVE HarmInv'
  BY <1>2 DEF JoinMesh, Begin, Goto, HarmInv
<1>3. ASSUME NEW h \in Request, NEW m \in Mesh, LeaveMesh(h, m) PROVE HarmInv'
  BY <1>3 DEF LeaveMesh, Begin, Goto, HarmInv
<1>4. ASSUME NEW h \in Request, NEW m \in Mesh, SetNode(h, m) PROVE HarmInv'
  BY <1>4 DEF SetNode, Begin, Goto, HasSelf, HarmInv, TypeOK
<1>5. ASSUME NEW h \in Request, NEW m \in Mesh, SetService(h, m) PROVE HarmInv'
  BY <1>5 DEF SetService, Begin, Goto, HasSelf, HarmInv, TypeOK
<1>6. ASSUME NEW h \in Request, FetchMesh(h) PROVE HarmInv'
  BY <1>6 DEF FetchMesh, At, Goto, HarmInv
<1>7. ASSUME NEW h \in Request, CreateInterface(h) PROVE HarmInv'
  BY <1>7 DEF CreateInterface, At, Goto, HarmInv
<1>8. ASSUME NEW h \in Request, StoreMesh(h) PROVE HarmInv'
  BY <1>8, MeshManagerAssumption DEF StoreMesh, At, Goto, RequestInv, HarmInv, TypeOK
<1>9. ASSUME NEW h \in Request, AddSelf(h) PROVE HarmInv'
  BY <1>9 DEF AddSelf, At, Goto, End, HarmInv, TypeOK
<1>10. ASSUME NEW h \in Request, AddSelfPanics(h) PROVE HarmInv'
  BY <1>10 DEF AddSelfPanics, history, RequestInv, HarmInv, TypeOK
<1>11. ASSUME NEW h \in Request, AddAddress(h) PROVE HarmInv'
  BY <1>11 DEF AddAddress, At, Goto, End, HarmInv, TypeOK
<1>12. ASSUME NEW h \in Request, AddNode(h) PROVE HarmInv'
  BY <1>12, EntriesDiffer DEF AddNode, End, history, RequestInv, HarmInv, TypeOK
<1>13. ASSUME NEW h \in Request, JoinFails(h) PROVE HarmInv'
  BY <1>13 DEF JoinFails, At, End, HarmInv, TypeOK
<1>14. ASSUME NEW h \in Request, RemoveNode(h) PROVE HarmInv'
  BY <1>14 DEF RemoveNode, HarmInv
<1>15. ASSUME NEW h \in Request, DeleteMesh(h) PROVE HarmInv'
  BY <1>15 DEF DeleteMesh, At, HarmInv
<1>16. ASSUME NEW h \in Request, RemoveInterface(h) PROVE HarmInv'
  BY <1>16 DEF RemoveInterface, At, HarmInv
<1>17. ASSUME NEW h \in Request, RemoveInterfaceFails(h) PROVE HarmInv'
  BY <1>17 DEF RemoveInterfaceFails, At, HarmInv
<1>18. ASSUME NEW h \in Request, ContainsEntry(h) PROVE HarmInv'
  BY <1>18 DEF ContainsEntry, At, Goto, HarmInv, TypeOK
<1>19. ASSUME NEW h \in Request, GetEntry(h) PROVE HarmInv'
  BY <1>19 DEF GetEntry, At, Goto, HarmInv, TypeOK
<1>20. ASSUME NEW h \in Request, PutEntry(h) PROVE HarmInv'
  BY <1>20 DEF PutEntry, At, End, HarmInv, TypeOK
<1>21. ASSUME NEW h \in Request, PutService(h) PROVE HarmInv'
  BY <1>21 DEF PutService, End, history, RequestInv, HarmInv, TypeOK
<1>22. CASE HeartBeat
  BY <1>22 DEF HeartBeat, BeatStep, request, history, HarmInv
<1>23. CASE BeatNodeExists
  <2>1. UNCHANGED <<meshes, node, pc, mesh, prov, got, daemon, removed>>
    BY <1>23 DEF BeatNodeExists, BeatStep, request, history
  <2>2. /\ beat'.pc \in {"idle", "contains", "exists"}
        /\ beat'.pc = "contains" => node[beat'.prov] # Absent
    BY <1>23, BeatFields DEF NoBeat
  <2> QED BY <2>1, <2>2 DEF HarmInv
<1>24. CASE BeatContains
  <2>1. UNCHANGED <<meshes, node, pc, mesh, prov, got, daemon, removed>>
    BY <1>24 DEF BeatContains, BeatStep, request, history
  <2>2. ~removed => /\ beat'.pc \in {"get", "exists"}
                    /\ beat'.pc = "get" => node[beat'.prov] # Absent
    BY <1>24, BeatFields DEF BeatContains, BeatStep, HarmInv
  <2> QED BY <2>1, <2>2 DEF HarmInv
<1>25. CASE BeatGet
  BY <1>25 DEF BeatGet, BeatStep, BeatGoto, request, history, RequestInv, HarmInv
<1>26. CASE BeatPut
  BY <1>26 DEF BeatPut, BeatStep, BeatGoto, request, history, HarmInv
<1>27. CASE Interrupt
  BY <1>27 DEF Interrupt, request, HarmInv
<1>28. CASE Exit
  BY <1>28 DEF Exit, request, history, HarmInv
<1>29. ASSUME NEW m \in Mesh, CloseMesh(m) PROVE HarmInv'
  BY <1>29 DEF CloseMesh, request, history, HarmInv
<1>30. ASSUME NEW h \in Request, ConcurrentMapAccess(h) PROVE HarmInv'
  BY <1>30 DEF ConcurrentMapAccess, request, history, HarmInv
<1> QED BY <1>1, <1>2, <1>3, <1>4, <1>5, <1>6, <1>7, <1>8, <1>9, <1>10, <1>11, <1>12,
           <1>13, <1>14, <1>15, <1>16, <1>17, <1>18, <1>19, <1>20, <1>21, <1>22, <1>23,
           <1>24, <1>25, <1>26, <1>27, <1>28, <1>29, <1>30 DEF Next

\* Requests that come one after the other do not meet.
LEMMA OneByOneStep ==
    ASSUME TypeOK, RequestInv, StoredInv, OneByOneInv, Next
    PROVE  OneByOneInv'
<1>1. ASSUME NEW h \in Request, NEW m \in Mesh, CreateMesh(h, m) PROVE OneByOneInv'
  <2> SUFFICES ASSUME ~overlap' PROVE OneByOneInv'
    BY DEF OneByOneInv
  <2>1. ~overlap /\ daemon # "closing" /\ \A g \in Request : mesh[g] # m
    BY <1>1, BeginApart DEF CreateMesh
  <2> QED BY <1>1, <2>1, MeshManagerAssumption
          DEF CreateMesh, Begin, Goto, Running, OneByOneInv, RequestInv, Holding, TypeOK
<1>2. ASSUME NEW h \in Request, NEW m \in Mesh, JoinMesh(h, m) PROVE OneByOneInv'
  <2> SUFFICES ASSUME ~overlap' PROVE OneByOneInv'
    BY DEF OneByOneInv
  <2>1. ~overlap /\ daemon # "closing" /\ \A g \in Request : mesh[g] # m
    BY <1>2, BeginApart DEF JoinMesh
  <2> QED BY <1>2, <2>1, MeshManagerAssumption
          DEF JoinMesh, Begin, Goto, Running, OneByOneInv, RequestInv, Holding, TypeOK
<1>3. ASSUME NEW h \in Request, NEW m \in Mesh, LeaveMesh(h, m) PROVE OneByOneInv'
  <2> SUFFICES ASSUME ~overlap' PROVE OneByOneInv'
    BY DEF OneByOneInv
  <2>1. ~overlap /\ daemon # "closing" /\ \A g \in Request : mesh[g] # m
    BY <1>3, BeginApart DEF LeaveMesh
  <2> QED BY <1>3, <2>1, MeshManagerAssumption
          DEF LeaveMesh, Begin, Goto, Running, OneByOneInv, RequestInv, Holding, TypeOK
<1>4. ASSUME NEW h \in Request, NEW m \in Mesh, SetNode(h, m) PROVE OneByOneInv'
  <2> SUFFICES ASSUME ~overlap' PROVE OneByOneInv'
    BY DEF OneByOneInv
  <2>1. ~overlap /\ daemon # "closing" /\ \A g \in Request : mesh[g] # m
    BY <1>4, BeginApart DEF SetNode
  <2> QED BY <1>4, <2>1, MeshManagerAssumption
          DEF SetNode, Begin, Goto, HasSelf, Running, OneByOneInv, RequestInv, Holding, TypeOK
<1>5. ASSUME NEW h \in Request, NEW m \in Mesh, SetService(h, m) PROVE OneByOneInv'
  <2> SUFFICES ASSUME ~overlap' PROVE OneByOneInv'
    BY DEF OneByOneInv
  <2>1. ~overlap /\ daemon # "closing" /\ \A g \in Request : mesh[g] # m
    BY <1>5, BeginApart DEF SetService
  <2> QED BY <1>5, <2>1, MeshManagerAssumption
          DEF SetService, Begin, Goto, HasSelf, Running, OneByOneInv, RequestInv, Holding, TypeOK
<1>6. ASSUME NEW h \in Request, FetchMesh(h) PROVE OneByOneInv'
  BY <1>6 DEF FetchMesh, At, Goto, OneByOneInv, TypeOK
<1>7. ASSUME NEW h \in Request, CreateInterface(h) PROVE OneByOneInv'
  BY <1>7 DEF CreateInterface, At, Goto, OneByOneInv, TypeOK
<1>8. ASSUME NEW h \in Request, StoreMesh(h) PROVE OneByOneInv'
  BY <1>8 DEF StoreMesh, At, Goto, OneByOneInv, Holding, TypeOK
<1>9. ASSUME NEW h \in Request, AddSelf(h) PROVE OneByOneInv'
  BY <1>9, MeshManagerAssumption DEF AddSelf, At, Goto, End, OneByOneInv, Holding, TypeOK
<1>10. ASSUME NEW h \in Request, AddSelfPanics(h) PROVE OneByOneInv'
  BY <1>10, MeshManagerAssumption DEF AddSelfPanics, End, history, OneByOneInv, Holding
<1>11. ASSUME NEW h \in Request, AddAddress(h) PROVE OneByOneInv'
  BY <1>11, MeshManagerAssumption DEF AddAddress, At, Goto, End, OneByOneInv, Holding, TypeOK
<1>12. ASSUME NEW h \in Request, AddNode(h) PROVE OneByOneInv'
  BY <1>12, MeshManagerAssumption DEF AddNode, End, history, OneByOneInv, Holding, TypeOK
<1>13. ASSUME NEW h \in Request, JoinFails(h) PROVE OneByOneInv'
  BY <1>13, MeshManagerAssumption DEF JoinFails, At, End, OneByOneInv, Holding, TypeOK
<1>14. ASSUME NEW h \in Request, RemoveNode(h) PROVE OneByOneInv'
  BY <1>14 DEF RemoveNode, At, Goto, OneByOneInv, Holding
<1>15. ASSUME NEW h \in Request, DeleteMesh(h) PROVE OneByOneInv'
  BY <1>15 DEF DeleteMesh, At, Goto, OneByOneInv, TypeOK
<1>16. ASSUME NEW h \in Request, RemoveInterface(h) PROVE OneByOneInv'
  BY <1>16, MeshManagerAssumption DEF RemoveInterface, At, End, OneByOneInv, Holding
<1>17. ASSUME NEW h \in Request, RemoveInterfaceFails(h) PROVE OneByOneInv'
  BY <1>17, MeshManagerAssumption DEF RemoveInterfaceFails, At, End, OneByOneInv, Holding
<1>18. ASSUME NEW h \in Request, ContainsEntry(h) PROVE OneByOneInv'
  BY <1>18, MeshManagerAssumption
     DEF ContainsEntry, At, End, Goto, OneByOneInv, Holding, TypeOK
<1>19. ASSUME NEW h \in Request, GetEntry(h) PROVE OneByOneInv'
  BY <1>19 DEF GetEntry, At, Goto, OneByOneInv, Holding, TypeOK
<1>20. ASSUME NEW h \in Request, PutEntry(h) PROVE OneByOneInv'
  BY <1>20, MeshManagerAssumption DEF PutEntry, At, End, OneByOneInv, Holding, TypeOK
<1>21. ASSUME NEW h \in Request, PutService(h) PROVE OneByOneInv'
  BY <1>21, MeshManagerAssumption DEF PutService, End, history, OneByOneInv, Holding, TypeOK
<1>22. CASE HeartBeat
  BY <1>22 DEF HeartBeat, BeatStep, request, history, OneByOneInv
<1>23. CASE BeatNodeExists
  BY <1>23 DEF BeatNodeExists, BeatStep, request, history, OneByOneInv
<1>24. CASE BeatContains
  BY <1>24 DEF BeatContains, BeatStep, request, history, OneByOneInv
<1>25. CASE BeatGet
  BY <1>25 DEF BeatGet, BeatStep, request, history, OneByOneInv
<1>26. CASE BeatPut
  BY <1>26 DEF BeatPut, BeatStep, request, history, OneByOneInv
<1>27. CASE Interrupt
  BY <1>27 DEF Interrupt, Active, request, OneByOneInv
<1>28. CASE Exit
  BY <1>28 DEF Exit, request, history, OneByOneInv
<1>29. ASSUME NEW m \in Mesh, CloseMesh(m) PROVE OneByOneInv'
  BY <1>29 DEF CloseMesh, request, history, OneByOneInv
<1>30. ASSUME NEW h \in Request, ConcurrentMapAccess(h) PROVE OneByOneInv'
  BY <1>30 DEF ConcurrentMapAccess, request, history, OneByOneInv
<1> QED BY <1>1, <1>2, <1>3, <1>4, <1>5, <1>6, <1>7, <1>8, <1>9, <1>10, <1>11, <1>12,
           <1>13, <1>14, <1>15, <1>16, <1>17, <1>18, <1>19, <1>20, <1>21, <1>22, <1>23,
           <1>24, <1>25, <1>26, <1>27, <1>28, <1>29, <1>30 DEF Next

\* The addresses in entries, and on their way into one, are the interfaces'.
LEMMA AddressStep ==
    ASSUME TypeOK, RequestInv, StoredInv, OneByOneInv, AddressInv, Next
    PROVE  AddressInv'
<1>1. ASSUME NEW h \in Request, NEW m \in Mesh, CreateMesh(h, m) PROVE AddressInv'
  BY <1>1 DEF CreateMesh, Begin, Goto, AddressInv, TypeOK
<1>2. ASSUME NEW h \in Request, NEW m \in Mesh, JoinMesh(h, m) PROVE AddressInv'
  BY <1>2 DEF JoinMesh, Begin, Goto, AddressInv, TypeOK
<1>3. ASSUME NEW h \in Request, NEW m \in Mesh, LeaveMesh(h, m) PROVE AddressInv'
  BY <1>3 DEF LeaveMesh, Begin, Goto, AddressInv, TypeOK
<1>4. ASSUME NEW h \in Request, NEW m \in Mesh, SetNode(h, m) PROVE AddressInv'
  BY <1>4 DEF SetNode, Begin, Goto, AddressInv, TypeOK
<1>5. ASSUME NEW h \in Request, NEW m \in Mesh, SetService(h, m) PROVE AddressInv'
  BY <1>5 DEF SetService, Begin, Goto, AddressInv, TypeOK
<1>6. ASSUME NEW h \in Request, FetchMesh(h) PROVE AddressInv'
  BY <1>6 DEF FetchMesh, At, Goto, AddressInv
<1>7. ASSUME NEW h \in Request, CreateInterface(h) PROVE AddressInv'
  BY <1>7 DEF CreateInterface, At, Goto, AddressInv
<1>8. ASSUME NEW h \in Request, StoreMesh(h) PROVE AddressInv'
  BY <1>8, EntriesDiffer DEF StoreMesh, At, Goto, StoredInv, OneByOneInv, AddressInv, Stored
<1>9. ASSUME NEW h \in Request, AddSelf(h) PROVE AddressInv'
  BY <1>9 DEF AddSelf, At, Goto, End, AddressInv, TypeOK
<1>10. ASSUME NEW h \in Request, AddSelfPanics(h) PROVE AddressInv'
  BY <1>10 DEF AddSelfPanics, AddressInv
<1>11. ASSUME NEW h \in Request, AddAddress(h) PROVE AddressInv'
  <2>1. UNCHANGED <<meshes, node, beat, daemon, overlap>>
    BY <1>11 DEF AddAddress, At
  <2>2. prov[h] \in Request
    BY <1>11 DEF AddAddress, At, TypeOK
  <2>3. \A p \in Request : addrs[p] \subseteq addrs'[p]
    BY <1>11, <2>2 DEF AddAddress, AddressNew, TypeOK
  <2>4. \A g \in Request : g # h =>
          pc'[g] = pc[g] /\ prov'[g] = prov[g] /\ got'[g] = got[g] /\ ip'[g] = ip[g]
    BY <1>11 DEF AddAddress, Goto, End, TypeOK
  <2>5. \/ pc'[h] = "end"
        \/ pc'[h] = "add" /\ prov'[h] = prov[h] /\ ip'[h] = ip[h] /\ ip[h] \in addrs'[prov[h]]
    BY <1>11, <2>2 DEF AddAddress, AddressNew, Goto, End, TypeOK
  <2>6. \A g \in Request : pc[g] \in {"add", "put", "putservice"} => prov[g] \in Request
    BY DEF TypeOK
  <2>7. \A m \in Mesh : meshes[m] \in Request \/ meshes[m] = None
    BY DEF TypeOK
  <2>8. beat.pc = "put" => beat.prov \in Request
    BY DEF RequestInv
  <2> QED BY <2>1, <2>3, <2>4, <2>5, <2>6, <2>7, <2>8 DEF AddressInv
<1>12. ASSUME NEW h \in Request, AddNode(h) PROVE AddressInv'
  <2>1. /\ pc[h] = "add" /\ UNCHANGED <<meshes, addrs, beat, overlap>>
        /\ daemon' = "up" => /\ daemon = "up"
                             /\ node' = [node EXCEPT ![meshes[mesh[h]]] = ip[h]]
    BY <1>12 DEF AddNode, history
  <2>2. /\ pc'[h] = "end"
        /\ \A g \in Request : g # h =>
             pc'[g] = pc[g] /\ prov'[g] = prov[g] /\ got'[g] = got[g] /\ ip'[g] = ip[g]
    BY <1>12 DEF AddNode, End, TypeOK
  <2>3. ~overlap => meshes[mesh[h]] = prov[h]
    BY <2>1 DEF OneByOneInv, Holding
  <2>4. ASSUME ~overlap, daemon' = "up", NEW m \in Mesh, meshes[m] # None
        PROVE  \/ node'[meshes[m]] = node[meshes[m]]
               \/ meshes[m] = prov[h] /\ node'[meshes[m]] = ip[h]
    BY <2>1, <2>3, <2>4 DEF TypeOK
  <2> QED BY <2>1, <2>2, <2>4 DEF AddressInv
<1>13. ASSUME NEW h \in Request, JoinFails(h) PROVE AddressInv'
  BY <1>13 DEF JoinFails, At, End, AddressInv
<1>14. ASSUME NEW h \in Request, RemoveNode(h) PROVE AddressInv'
  BY <1>14, EntriesDiffer DEF RemoveNode, At, Goto, AddressInv
<1>15. ASSUME NEW h \in Request, DeleteMesh(h) PROVE AddressInv'
  BY <1>15, MeshManagerAssumption DEF DeleteMesh, At, Goto, RequestInv, AddressInv
<1>16. ASSUME NEW h \in Request, RemoveInterface(h) PROVE AddressInv'
  BY <1>16
     DEF RemoveInterface, At, End, DeleteLink, RequestInv, StoredInv, OneByOneInv, AddressInv,
         Holding
<1>17. ASSUME NEW h \in Request, RemoveInterfaceFails(h) PROVE AddressInv'
  BY <1>17 DEF RemoveInterfaceFails, At, End, AddressInv
<1>18. ASSUME NEW h \in Request, ContainsEntry(h) PROVE AddressInv'
  <2>1. UNCHANGED <<meshes, node, addrs, beat, daemon, overlap>>
    BY <1>18 DEF ContainsEntry, At
  <2>2. /\ pc'[h] \in {"end", "get", "getservice"}
        /\ \A g \in Request : g # h =>
             pc'[g] = pc[g] /\ prov'[g] = prov[g] /\ got'[g] = got[g] /\ ip'[g] = ip[g]
    BY <1>18 DEF ContainsEntry, At, End, Goto, TypeOK
  <2> QED BY <2>1, <2>2 DEF AddressInv
<1>19. ASSUME NEW h \in Request, GetEntry(h) PROVE AddressInv'
  BY <1>19, EntriesDiffer
     DEF GetEntry, At, Goto, RequestInv, OneByOneInv, AddressInv, Holding, TypeOK
<1>20. ASSUME NEW h \in Request, PutEntry(h) PROVE AddressInv'
  BY <1>20 DEF PutEntry, At, End, AddressInv, TypeOK
<1>21. ASSUME NEW h \in Request, PutService(h) PROVE AddressInv'
  BY <1>21 DEF PutService, End, history, AddressInv, TypeOK
<1>22. CASE HeartBeat
  BY <1>22 DEF HeartBeat, BeatStep, request, history, AddressInv
<1>23. CASE BeatNodeExists
  <2>1. UNCHANGED <<meshes, node, addrs, pc, prov, got, ip, daemon, overlap>>
    BY <1>23 DEF BeatNodeExists, BeatStep, request, history
  <2>2. beat'.pc # "put"
    BY <1>23, BeatFields DEF NoBeat
  <2> QED BY <2>1, <2>2 DEF AddressInv
<1>24. CASE BeatContains
  <2>1. UNCHANGED <<meshes, node, addrs, pc, prov, got, ip, daemon, overlap>>
    BY <1>24 DEF BeatContains, BeatStep, request, history
  <2>2. beat'.pc # "put"
    BY <1>24, BeatFields
  <2> QED BY <2>1, <2>2 DEF AddressInv
<1>25. CASE BeatGet
  BY <1>25, MeshManagerAssumption, EntriesDiffer
     DEF BeatGet, BeatStep, BeatGoto, request, history, RequestInv, AddressInv
<1>26. CASE BeatPut
  BY <1>26 DEF BeatPut, BeatStep, BeatGoto, request, history, AddressInv
<1>27. CASE Interrupt
  BY <1>27 DEF Interrupt, AddressInv
<1>28. CASE Exit
  BY <1>28 DEF Exit, AddressInv
<1>29. ASSUME NEW m \in Mesh, CloseMesh(m) PROVE AddressInv'
  BY <1>29 DEF CloseMesh, AddressInv
<1>30. ASSUME NEW h \in Request, ConcurrentMapAccess(h) PROVE AddressInv'
  BY <1>30 DEF ConcurrentMapAccess, AddressInv
<1> QED BY <1>1, <1>2, <1>3, <1>4, <1>5, <1>6, <1>7, <1>8, <1>9, <1>10, <1>11, <1>12,
           <1>13, <1>14, <1>15, <1>16, <1>17, <1>18, <1>19, <1>20, <1>21, <1>22, <1>23,
           <1>24, <1>25, <1>26, <1>27, <1>28, <1>29, <1>30 DEF Next

\* No interface is lost.
LEMMA LostStep ==
    ASSUME TypeOK, RequestInv, StoredInv, OneByOneInv, NoInterfaceLost, Next
    PROVE  NoInterfaceLost'
<1>1. ASSUME NEW h \in Request, NEW m \in Mesh, CreateMesh(h, m) PROVE NoInterfaceLost'
  BY <1>1 DEF CreateMesh, Begin, Goto, NoInterfaceLost, TypeOK
<1>2. ASSUME NEW h \in Request, NEW m \in Mesh, JoinMesh(h, m) PROVE NoInterfaceLost'
  BY <1>2 DEF JoinMesh, Begin, Goto, NoInterfaceLost, TypeOK
<1>3. ASSUME NEW h \in Request, NEW m \in Mesh, LeaveMesh(h, m) PROVE NoInterfaceLost'
  BY <1>3 DEF LeaveMesh, Begin, Goto, NoInterfaceLost, TypeOK
<1>4. ASSUME NEW h \in Request, NEW m \in Mesh, SetNode(h, m) PROVE NoInterfaceLost'
  BY <1>4 DEF SetNode, Begin, Goto, NoInterfaceLost, TypeOK
<1>5. ASSUME NEW h \in Request, NEW m \in Mesh, SetService(h, m) PROVE NoInterfaceLost'
  BY <1>5 DEF SetService, Begin, Goto, NoInterfaceLost, TypeOK
<1>6. ASSUME NEW h \in Request, FetchMesh(h) PROVE NoInterfaceLost'
  BY <1>6 DEF FetchMesh, At, Goto, NoInterfaceLost
<1>7. ASSUME NEW h \in Request, CreateInterface(h) PROVE NoInterfaceLost'
  BY <1>7 DEF CreateInterface, At, Goto, CreateLink, NoInterfaceLost, TypeOK
<1>8. ASSUME NEW h \in Request, StoreMesh(h) PROVE NoInterfaceLost'
  <2> DEFINE joining == {g \in Request : pc[g] = "store"}
             leaving == {prov[g] : g \in {f \in Request : pc[f] = "remove"}}
             kept == {meshes[m] : m \in Mesh \ closed}
  <2> SUFFICES ASSUME ~overlap, failures = 0, NEW p \in live
               PROVE  p \in joining' \cup leaving' \cup kept'
    BY <1>8 DEF StoreMesh, At, NoInterfaceLost
  <2>1. p \in joining \cup leaving \cup kept
    BY DEF NoInterfaceLost
  <2>2. mesh[h] \in Mesh /\ meshes[mesh[h]] = None /\ closed = {}
    BY <1>8 DEF StoreMesh, At, Running, RequestInv, OneByOneInv
  <2>3. /\ closed' = closed /\ prov' = prov
        /\ \A m \in Mesh : meshes'[m] = IF m = mesh[h] THEN h ELSE meshes[m]
        /\ \A g \in Request : pc'[g] = IF g = h THEN "self" ELSE pc[g]
    BY <1>8, <2>2 DEF StoreMesh, At, Goto, TypeOK
  <2>4. CASE p \in joining
    <3>1. p = h \/ pc'[p] = "store"
      BY <2>3, <2>4
    <3>2. p = h => p = meshes'[mesh[h]]
      BY <2>2, <2>3
    <3> QED BY <2>2, <2>3, <2>4, <3>1, <3>2
  <2>5. CASE p \in leaving
    <3>1. PICK g \in Request : pc[g] = "remove" /\ p = prov[g]
      BY <2>5
    <3>2. pc'[g] = "remove" /\ p = prov'[g]
      BY <1>8, <2>3, <3>1 DEF StoreMesh, At
    <3> QED BY <3>2
  <2>6. CASE p \in kept
    <3>1. PICK m \in Mesh \ closed : p = meshes[m]
      BY <2>6
    <3>2. p # None
      BY MeshManagerAssumption DEF TypeOK
    <3>3. m \in Mesh \ closed' /\ p = meshes'[m]
      BY <2>2, <2>3, <3>1, <3>2
    <3> QED BY <3>3
  <2> QED BY <2>1, <2>4, <2>5, <2>6
<1>9. ASSUME NEW h \in Request, AddSelf(h) PROVE NoInterfaceLost'
  BY <1>9 DEF AddSelf, At, Goto, End, NoInterfaceLost, TypeOK
<1>10. ASSUME NEW h \in Request, AddSelfPanics(h) PROVE NoInterfaceLost'
  BY <1>10 DEF AddSelfPanics, End, history, NoInterfaceLost
<1>11. ASSUME NEW h \in Request, AddAddress(h) PROVE NoInterfaceLost'
  BY <1>11 DEF AddAddress, At, Goto, End, NoInterfaceLost, TypeOK
<1>12. ASSUME NEW h \in Request, AddNode(h) PROVE NoInterfaceLost'
  BY <1>12 DEF AddNode, End, history, NoInterfaceLost
<1>13. ASSUME NEW h \in Request, JoinFails(h) PROVE NoInterfaceLost'
  BY <1>13 DEF JoinFails, Failure, NoInterfaceLost, TypeOK
<1>14. ASSUME NEW h \in Request, RemoveNode(h) PROVE NoInterfaceLost'
  BY <1>14 DEF RemoveNode, At, Goto, NoInterfaceLost
<1>15. ASSUME NEW h \in Request, DeleteMesh(h) PROVE NoInterfaceLost'
  BY <1>15 DEF DeleteMesh, At, Goto, OneByOneInv, NoInterfaceLost, Holding, TypeOK
<1>16. ASSUME NEW h \in Request, RemoveInterface(h) PROVE NoInterfaceLost'
  BY <1>16 DEF RemoveInterface, At, End, DeleteLink, NoInterfaceLost
<1>17. ASSUME NEW h \in Request, RemoveInterfaceFails(h) PROVE NoInterfaceLost'
  BY <1>17 DEF RemoveInterfaceFails, Failure, NoInterfaceLost, TypeOK
<1>18. ASSUME NEW h \in Request, ContainsEntry(h) PROVE NoInterfaceLost'
  BY <1>18 DEF ContainsEntry, At, End, Goto, NoInterfaceLost, TypeOK
<1>19. ASSUME NEW h \in Request, GetEntry(h) PROVE NoInterfaceLost'
  BY <1>19 DEF GetEntry, At, Goto, NoInterfaceLost, TypeOK
<1>20. ASSUME NEW h \in Request, PutEntry(h) PROVE NoInterfaceLost'
  BY <1>20 DEF PutEntry, At, End, NoInterfaceLost
<1>21. ASSUME NEW h \in Request, PutService(h) PROVE NoInterfaceLost'
  BY <1>21 DEF PutService, End, history, NoInterfaceLost
<1>b. ASSUME NEW step, BeatStep(step) PROVE NoInterfaceLost'
  <2>1. UNCHANGED <<meshes, live, pc, prov, closed, overlap, failures>>
    BY <1>b DEF BeatStep, request, history
  <2> QED BY <2>1 DEF NoInterfaceLost
<1>22. CASE HeartBeat
  BY <1>b, <1>22 DEF HeartBeat
<1>23. CASE BeatNodeExists
  BY <1>b, <1>23 DEF BeatNodeExists
<1>24. CASE BeatContains
  BY <1>b, <1>24 DEF BeatContains
<1>25. CASE BeatGet
  BY <1>b, <1>25 DEF BeatGet
<1>26. CASE BeatPut
  BY <1>b, <1>26 DEF BeatPut
<1>27. CASE Interrupt
  BY <1>27 DEF Interrupt, request, NoInterfaceLost
<1>28. CASE Exit
  BY <1>28 DEF Exit, request, history, NoInterfaceLost
<1>29. ASSUME NEW m \in Mesh, CloseMesh(m) PROVE NoInterfaceLost'
  BY <1>29
     DEF CloseMesh, DeleteLink, HasDevice, Failure, request, history, NoInterfaceLost, TypeOK
<1>30. ASSUME NEW h \in Request, ConcurrentMapAccess(h) PROVE NoInterfaceLost'
  BY <1>30 DEF ConcurrentMapAccess, request, history, NoInterfaceLost
<1> QED BY <1>1, <1>2, <1>3, <1>4, <1>5, <1>6, <1>7, <1>8, <1>9, <1>10, <1>11, <1>12,
           <1>13, <1>14, <1>15, <1>16, <1>17, <1>18, <1>19, <1>20, <1>21, <1>22, <1>23,
           <1>24, <1>25, <1>26, <1>27, <1>28, <1>29, <1>30 DEF Next

\* The invariant holds at first: nothing is stored, and no request has begun.
LEMMA ManagerInit == Init => ManagerInv
<1> SUFFICES ASSUME Init PROVE ManagerInv
  OBVIOUS
<1>1. RequestTypes
  BY EntryTypes DEF Init, RequestTypes, Steps, Holding
<1>2. StateTypes
  <2>1. beat \in [pc : {"idle", "exists", "contains", "get", "put", "stopped"},
                  todo : SUBSET Request, prov : Request \cup {None}, got : Entry]
    BY EntryTypes DEF Init, NoBeat
  <2>2. node \in [Request -> Entry]
    BY EntryTypes DEF Init
  <2>3. removed \in BOOLEAN /\ overlap \in BOOLEAN
    BY DEF Init
  <2>4. failures \in 0..MaxFailures
    BY MeshManagerAssumption DEF Init
  <2> QED BY <2>1, <2>2, <2>3, <2>4 DEF Init, StateTypes
<1>3. TypeOK
  BY <1>1, <1>2, TypeParts
<1>4. RequestInv /\ DeviceInv /\ NoInterfaceLost
  BY DEF Init, RequestInv, DeviceInv, NoInterfaceLost, NoBeat
<1>5. StoredInv
  BY DEF Init, StoredInv, Stored, NoBeat
<1>6. HarmInv
  BY EntriesDiffer DEF Init, HarmInv, NoBeat
<1>7. OneByOneInv
  BY MeshManagerAssumption DEF Init, OneByOneInv, Holding
<1>8. AddressInv
  BY DEF Init, AddressInv, NoBeat
<1> QED BY <1>3, <1>4, <1>5, <1>6, <1>7, <1>8 DEF ManagerInv

\* Every step keeps it.
LEMMA ManagerStep == ManagerInv /\ [Next]_vars => ManagerInv'
<1>1. ASSUME ManagerInv, Next PROVE ManagerInv'
  <2>1. TypeOK /\ RequestTypes /\ StateTypes /\ RequestInv /\ StoredInv /\ DeviceInv
        /\ HarmInv /\ OneByOneInv /\ AddressInv /\ NoInterfaceLost
    BY <1>1, TypeParts DEF ManagerInv
  <2>2. TypeOK'
    BY <1>1, <2>1, RequestTypesStep, StateTypesStep, TypePartsNext
  <2> QED BY <1>1, <2>1, <2>2, RequestStep, StoredStep, DeviceStep, HarmStep, OneByOneStep,
             AddressStep, LostStep DEF ManagerInv
<1>2. ASSUME ManagerInv, UNCHANGED vars PROVE ManagerInv'
  <2> USE <1>2 DEF ManagerInv, vars, request, history
  <2>1. TypeOK'
    BY DEF TypeOK
  <2>2. RequestInv' /\ DeviceInv' /\ NoInterfaceLost'
    BY DEF RequestInv, DeviceInv, NoInterfaceLost
  <2>3. StoredInv' /\ HarmInv'
    BY DEF StoredInv, Stored, HarmInv
  <2>4. OneByOneInv' /\ AddressInv'
    BY DEF OneByOneInv, AddressInv
  <2> QED BY <2>1, <2>2, <2>3, <2>4
<1> QED BY <1>1, <1>2

\* Every reachable state satisfies the invariant.
LEMMA ManagerInvariant == Spec => []ManagerInv
BY ManagerInit, ManagerStep, PTL DEF Spec

---------------------------------------------------------------------------
(* Theorems *)

\* Types, for any number of requests and meshes: a request holds a provider in
\* exactly the steps that use one.
THEOREM ManagerTypes == Spec => []TypeOK
BY ManagerInvariant, PTL DEF ManagerInv

\* However many requests to create, join, leave and update meshes run at the
\* same time, every mesh in the map of a daemon that is up has its interface:
\* ApplyConfig, which gives up on all meshes if one device is missing, does not.
THEOREM MappedMeshesHaveDevices == Spec => []MeshHasDevice
<1>1. ManagerInv => MeshHasDevice
  BY DEF ManagerInv, DeviceInv, MeshHasDevice, Mapped
<1> QED BY <1>1, ManagerInvariant, PTL

\* What LeaveMesh reported as left is not in the map and has no interface, then
\* and ever after, whatever other requests about the same mesh do.
THEOREM LeftMeshesStayGone == Spec => []LeftMeansGone
<1>1. ManagerInv => LeftMeansGone
  BY DEF ManagerInv, DeviceInv, LeftMeansGone, Mapped
<1> QED BY <1>1, ManagerInvariant, PTL

\* No number of joins and updates, of which any may fail halfway, stops the
\* heartbeat or makes the daemon panic: that takes a request to leave.  What they
\* can do alone is end the process by a data race on a map (ConcurrentMapAccess).
THEOREM JoinsAndUpdatesDoNotPanic == Spec => []NoLeaveNoPanic
<1>1. ManagerInv => NoLeaveNoPanic
  BY DEF ManagerInv, HarmInv, NoLeaveNoPanic
<1> QED BY <1>1, ManagerInvariant, PTL

\* When requests about a mesh come one after the other and nothing outside the
\* daemon fails, every interface is accounted for, to the end of the shutdown.
THEOREM InterfacesAccountedFor == Spec => []NoInterfaceLost
BY ManagerInvariant, PTL DEF ManagerInv

\* When requests about a mesh come one after the other, the address in the
\* daemon's entry is an address of the mesh's interface, although AddSelf reads
\* the map twice and updates and the heartbeat write back what they read.
THEOREM EntriesHaveTheirAddresses == Spec => []EntryHasItsAddress
<1>1. ManagerInv => EntryHasItsAddress
  BY DEF ManagerInv, AddressInv, EntryHasItsAddress, Mapped
<1> QED BY <1>1, ManagerInvariant, PTL
=============================================================================
