-------------------------- MODULE MeshSyncSafetyProofs --------------------------
(***************************************************************************)
(* The safety of what the replicas of MeshSync hold: entries are covered by *)
(* clocks, endpoints stay in step, versions identify data, removals are     *)
(* final, and the clocks implement the registers of MeshRegisters.          *)
(***************************************************************************)
EXTENDS MeshSyncRegisters, MeshSyncProofs
-----------------------------------------------------------------------------
(* What an operation keeps of a replica *)

\* No clock goes back, unless it is collected.
ClocksKept(s, r) ==
    /\ s.highestStale <= r.highestStale
    /\ \A k \in DOMAIN s.vectors : CoveredBy(r, k, s.vectors[k].clock)

\* No entry goes back to an older version, unless version and clock are collected.
EntriesKept(f, g, h) ==
    \A k \in DOMAIN f :
        \/ k \in DOMAIN g /\ f[k].Vector <= g[k].Vector
        \/ f[k].Vector <= h

\* From s to r nothing is lost but what highestStale covers.
Grows(s, r) ==
    /\ IsReplica(r)
    /\ Covered(r)
    /\ ClocksKept(s, r)
    /\ EntriesKept(s.add, r.add, r.highestStale)
    /\ EntriesKept(s.remove, r.remove, r.highestStale)

\* What covers a version covers it after the step.
LEMMA CoveredStays ==
    ASSUME NEW s, IsReplica(s), NEW r, IsReplica(r), ClocksKept(s, r),
           NEW k, NEW v \in Nat, CoveredBy(s, k, v)
    PROVE  CoveredBy(r, k, v)
<1>1. /\ s.highestStale \in Nat /\ r.highestStale \in Nat
      /\ s.highestStale <= r.highestStale
      /\ \A x \in DOMAIN s.vectors : CoveredBy(r, x, s.vectors[x].clock)
  BY DEF IsReplica, ClocksKept
<1>2. /\ \A x \in DOMAIN s.vectors : s.vectors[x].clock \in Nat
      /\ \A x \in DOMAIN r.vectors : r.vectors[x].clock \in Nat
  BY ReplicaNat
<1> QED
  BY <1>1, <1>2 DEF CoveredBy

\* Put under the node's own key.
LEMMA PutGrows ==
    ASSUME NEW s, IsReplica(s), Covered(s), NEW n \in Node,
           NEW d \in Data \cup {Tombstone, NoData}, NEW t \in Nat
    PROVE  Grows(s, Put(s, n, n, d, t))
<1> DEFINE r == Put(s, n, n, d, t)
<1>1. /\ IsReplica(r)
      /\ DOMAIN r.vectors = DOMAIN s.vectors \cup {n}
      /\ \A k \in DOMAIN s.vectors \ {n} : r.vectors[k] = s.vectors[k]
      /\ r.add[n].Vector < r.vectors[n].clock
      /\ \A k \in DOMAIN s.vectors : s.vectors[k].clock < r.add[n].Vector
      /\ r.highestStale = s.highestStale
      /\ DOMAIN r.add = DOMAIN s.add \cup {n}
      /\ \A k \in DOMAIN s.add \ {n} : r.add[k] = s.add[k]
      /\ r.remove = s.remove
  BY PutType
<1> HIDE DEF r
<1>2. /\ \A k \in DOMAIN s.vectors : s.vectors[k].clock \in Nat
      /\ \A k \in DOMAIN r.vectors : r.vectors[k].clock \in Nat
      /\ \A k \in DOMAIN s.add : s.add[k].Vector \in Nat
      /\ \A k \in DOMAIN r.add : r.add[k].Vector \in Nat
      /\ \A k \in DOMAIN s.remove : s.remove[k].Vector \in Nat
      /\ s.highestStale \in Nat
  BY <1>1, ReplicaNat DEF IsReplica
<1>3. ClocksKept(s, r)
  BY <1>1, <1>2 DEF ClocksKept, CoveredBy
<1>4. ASSUME NEW k \in DOMAIN r.add PROVE CoveredBy(r, k, r.add[k].Vector)
  <2>1. CASE k = n
    BY <1>1, <1>2, <2>1 DEF CoveredBy
  <2>2. CASE k # n
    <3>1. k \in DOMAIN s.add /\ r.add[k] = s.add[k] /\ CoveredBy(s, k, s.add[k].Vector)
      BY <1>1, <2>2 DEF Covered
    <3> QED
      BY <1>1, <1>2, <1>3, <3>1, CoveredStays
  <2> QED
    BY <2>1, <2>2
<1>5. ASSUME NEW k \in DOMAIN r.remove PROVE CoveredBy(r, k, r.remove[k].Vector)
  <2>1. k \in DOMAIN s.remove /\ r.remove[k] = s.remove[k] /\ CoveredBy(s, k, s.remove[k].Vector)
    BY <1>1 DEF Covered
  <2> QED
    BY <1>1, <1>2, <1>3, <2>1, CoveredStays
<1>6. EntriesKept(s.add, r.add, r.highestStale)
  <2> SUFFICES ASSUME NEW k \in DOMAIN s.add
               PROVE  \/ k \in DOMAIN r.add /\ s.add[k].Vector <= r.add[k].Vector
                      \/ s.add[k].Vector <= r.highestStale
    BY DEF EntriesKept
  <2>1. CASE k = n
    BY <1>1, <1>2, <2>1 DEF Covered, CoveredBy
  <2>2. CASE k # n
    BY <1>1, <1>2, <2>2
  <2> QED
    BY <2>1, <2>2
<1>7. EntriesKept(s.remove, r.remove, r.highestStale)
  BY <1>1, <1>2 DEF EntriesKept
<1> QED
  BY <1>1, <1>3, <1>4, <1>5, <1>6, <1>7 DEF Grows, Covered, r

\* Remove of the node's own key.
LEMMA RemoveGrows ==
    ASSUME NEW s, IsReplica(s), Covered(s), NEW n \in Node, NEW t \in Nat
    PROVE  Grows(s, Remove(s, n, n, t))
<1> DEFINE r == Remove(s, n, n, t)
<1>1. /\ IsReplica(r)
      /\ DOMAIN r.vectors = DOMAIN s.vectors \cup {n}
      /\ \A k \in DOMAIN s.vectors \ {n} : r.vectors[k] = s.vectors[k]
      /\ r.remove[n].Vector < r.vectors[n].clock
      /\ \A k \in DOMAIN s.vectors : s.vectors[k].clock <= r.remove[n].Vector
      /\ r.highestStale = s.highestStale
      /\ DOMAIN r.remove = DOMAIN s.remove \cup {n}
      /\ \A k \in DOMAIN s.remove \ {n} : r.remove[k] = s.remove[k]
      /\ r.add = s.add
  BY RemoveType
<1> HIDE DEF r
<1>2. /\ \A k \in DOMAIN s.vectors : s.vectors[k].clock \in Nat
      /\ \A k \in DOMAIN r.vectors : r.vectors[k].clock \in Nat
      /\ \A k \in DOMAIN s.add : s.add[k].Vector \in Nat
      /\ \A k \in DOMAIN r.remove : r.remove[k].Vector \in Nat
      /\ \A k \in DOMAIN s.remove : s.remove[k].Vector \in Nat
      /\ s.highestStale \in Nat
  BY <1>1, ReplicaNat DEF IsReplica
<1>3. ClocksKept(s, r)
  BY <1>1, <1>2 DEF ClocksKept, CoveredBy
<1>4. ASSUME NEW k \in DOMAIN r.remove PROVE CoveredBy(r, k, r.remove[k].Vector)
  <2>1. CASE k = n
    BY <1>1, <1>2, <2>1 DEF CoveredBy
  <2>2. CASE k # n
    <3>1. k \in DOMAIN s.remove /\ r.remove[k] = s.remove[k]
          /\ CoveredBy(s, k, s.remove[k].Vector)
      BY <1>1, <2>2 DEF Covered
    <3> QED
      BY <1>1, <1>2, <1>3, <3>1, CoveredStays
  <2> QED
    BY <2>1, <2>2
<1>5. ASSUME NEW k \in DOMAIN r.add PROVE CoveredBy(r, k, r.add[k].Vector)
  <2>1. k \in DOMAIN s.add /\ r.add[k] = s.add[k] /\ CoveredBy(s, k, s.add[k].Vector)
    BY <1>1 DEF Covered
  <2> QED
    BY <1>1, <1>2, <1>3, <2>1, CoveredStays
<1>6. EntriesKept(s.remove, r.remove, r.highestStale)
  <2> SUFFICES ASSUME NEW k \in DOMAIN s.remove
               PROVE  \/ k \in DOMAIN r.remove /\ s.remove[k].Vector <= r.remove[k].Vector
                      \/ s.remove[k].Vector <= r.highestStale
    BY DEF EntriesKept
  <2>1. CASE k = n
    BY <1>1, <1>2, <2>1 DEF Covered, CoveredBy
  <2>2. CASE k # n
    BY <1>1, <1>2, <2>2
  <2> QED
    BY <2>1, <2>2
<1>7. EntriesKept(s.add, r.add, r.highestStale)
  BY <1>1, <1>2 DEF EntriesKept
<1> QED
  BY <1>1, <1>3, <1>4, <1>5, <1>6, <1>7 DEF Grows, Covered, r

\* What changes no version: the entries stay as they are.
LEMMA SameEntriesGrow ==
    ASSUME NEW s, IsReplica(s), Covered(s), NEW r, IsReplica(r), ClocksKept(s, r),
           DOMAIN r.add = DOMAIN s.add, r.remove = s.remove,
           \A k \in DOMAIN s.add : r.add[k].Vector = s.add[k].Vector
    PROVE  Grows(s, r)
<1>1. /\ \A k \in DOMAIN s.add : s.add[k].Vector \in Nat
      /\ \A k \in DOMAIN s.remove : s.remove[k].Vector \in Nat
  BY ReplicaNat
<1>2. \A k \in DOMAIN r.add : CoveredBy(r, k, r.add[k].Vector)
  BY <1>1, CoveredStays DEF Covered
<1>3. \A k \in DOMAIN r.remove : CoveredBy(r, k, r.remove[k].Vector)
  BY <1>1, CoveredStays DEF Covered
<1>4. EntriesKept(s.add, r.add, r.highestStale) /\ EntriesKept(s.remove, r.remove, r.highestStale)
  BY <1>1 DEF EntriesKept
<1> QED
  BY <1>2, <1>3, <1>4 DEF Grows, Covered

\* A replica that does not change, or in which a node is marked.
LEMMA MarkGrows ==
    ASSUME NEW s, IsReplica(s), Covered(s), NEW k
    PROVE  Grows(s, s) /\ Grows(s, Mark(s, k))
<1>1. /\ \A x \in DOMAIN s.vectors : s.vectors[x].clock \in Nat
      /\ s.highestStale \in Nat
  BY ReplicaNat DEF IsReplica
<1> DEFINE r == Mark(s, k)
<1>2. /\ IsReplica(r) /\ r.vectors = s.vectors /\ r.highestStale = s.highestStale
      /\ r.remove = s.remove /\ DOMAIN r.add = DOMAIN s.add
      /\ \A x \in DOMAIN s.add : r.add[x].Vector = s.add[x].Vector
  BY MarkType
<1> HIDE DEF r
<1>3. ClocksKept(s, s) /\ ClocksKept(s, r)
  BY <1>1, <1>2 DEF ClocksKept, CoveredBy
<1>4. Grows(s, s)
  BY <1>3, SameEntriesGrow
<1>5. Grows(s, r)
  BY <1>2, <1>3, SameEntriesGrow
<1> QED
  BY <1>4, <1>5 DEF r

\* prepare's IncrementClock.
LEMMA IncrementGrows ==
    ASSUME NEW s, IsReplica(s), Covered(s), NEW n \in Node, NEW t \in Nat
    PROVE  Grows(s, IncrementClock(s, n, t))
<1> DEFINE r == IncrementClock(s, n, t)
<1>1. MaxClock(s) \in Nat /\ \A k \in DOMAIN s.vectors : s.vectors[k].clock <= MaxClock(s)
  BY MaxClockBounds
<1>2. /\ IsReplica(r)
      /\ DOMAIN r.vectors = DOMAIN s.vectors \cup {n}
      /\ r.vectors[n] = [clock |-> MaxClock(s) + 1, lastUpdate |-> t]
      /\ \A k \in DOMAIN s.vectors \ {n} : r.vectors[k] = s.vectors[k]
      /\ r.highestStale = s.highestStale
      /\ r.add = s.add /\ r.remove = s.remove
  BY IncrementClockType
<1> HIDE DEF r
<1>3. /\ \A k \in DOMAIN s.vectors : s.vectors[k].clock \in Nat
      /\ s.highestStale \in Nat
  BY ReplicaNat DEF IsReplica
<1>4. ClocksKept(s, r)
  BY <1>1, <1>2, <1>3 DEF ClocksKept, CoveredBy
<1> QED
  BY <1>2, <1>4, SameEntriesGrow DEF r

\* present's Clock.Merge.
LEMMA ClockMergeGrows ==
    ASSUME NEW s, IsReplica(s), Covered(s), NEW vs, IsMapOf(vs, Node, Nat), NEW t \in Nat
    PROVE  Grows(s, ClockMerge(s, vs, t))
<1> DEFINE r == ClockMerge(s, vs, t)
<1>1. /\ IsReplica(r) /\ r.highestStale = s.highestStale
      /\ r.add = s.add /\ r.remove = s.remove
  BY ClockMergeType
<1>2. \A k \in DOMAIN s.vectors :
         k \in DOMAIN r.vectors /\ s.vectors[k].clock <= r.vectors[k].clock
  BY ClockMergeKeeps
<1> HIDE DEF r
<1>3. s.highestStale \in Nat
  BY DEF IsReplica
<1>4. ClocksKept(s, r)
  BY <1>1, <1>2, <1>3 DEF ClocksKept, CoveredBy
<1> QED
  BY <1>1, <1>4, SameEntriesGrow DEF r

\* Merge of a snapshot: a bucket that is accepted comes with its clock, unless
\* the clock had been collected.
LEMMA MergeGrows ==
    ASSUME NEW s, IsReplica(s), Covered(s), NEW sn, IsSnapshot(sn), NEW t \in Nat
    PROVE  Grows(s, Merge(s, sn, t))
<1> DEFINE a == sn.add
           d == sn.remove
           r == Merge(s, sn, t)
<1>1. IsMapOf(a, Node, Bucket) /\ IsMapOf(d, Node, Bucket)
  BY DEF IsSnapshot
<1>2. r = Merge(s, [add |-> a, remove |-> d], t)
  BY DEF IsSnapshot
<1> HIDE DEF a, d, r
<1>3. /\ IsReplica(r) /\ r.highestStale = s.highestStale
      /\ r.add = GMapMerge(s.add, a) /\ r.remove = GMapMerge(s.remove, d)
  BY <1>1, <1>2, MergeType
<1>4. /\ \A k \in DOMAIN s.vectors :
            k \in DOMAIN r.vectors /\ s.vectors[k].clock <= r.vectors[k].clock
      /\ \A k \in DOMAIN a :
            \/ a[k].Vector <= s.highestStale
            \/ k \in DOMAIN r.vectors /\ a[k].Vector <= r.vectors[k].clock
      /\ \A k \in DOMAIN d :
            \/ d[k].Vector <= s.highestStale
            \/ k \in DOMAIN r.vectors /\ d[k].Vector <= r.vectors[k].clock
  BY <1>1, <1>2, MergeKeeps
<1>5. IsMapOf(s.add, Node, Bucket) /\ IsMapOf(s.remove, Node, Bucket) /\ s.highestStale \in Nat
  BY DEF IsReplica
<1>6. /\ \A k \in DOMAIN s.add : k \in DOMAIN r.add /\ s.add[k].Vector <= r.add[k].Vector
      /\ \A k \in DOMAIN r.add : \/ k \in DOMAIN s.add /\ r.add[k] = s.add[k]
                                 \/ k \in DOMAIN a /\ r.add[k] = a[k]
  BY <1>1, <1>3, <1>5, GMapMergeKeeps
<1>7. /\ \A k \in DOMAIN s.remove : k \in DOMAIN r.remove /\ s.remove[k].Vector <= r.remove[k].Vector
      /\ \A k \in DOMAIN r.remove : \/ k \in DOMAIN s.remove /\ r.remove[k] = s.remove[k]
                                    \/ k \in DOMAIN d /\ r.remove[k] = d[k]
  BY <1>1, <1>3, <1>5, GMapMergeKeeps
<1>8. ClocksKept(s, r)
  BY <1>3, <1>4, <1>5 DEF ClocksKept, CoveredBy
<1>9. /\ \A k \in DOMAIN s.add : s.add[k].Vector \in Nat
      /\ \A k \in DOMAIN s.remove : s.remove[k].Vector \in Nat
  BY ReplicaNat
<1>10. ASSUME NEW k \in DOMAIN r.add PROVE CoveredBy(r, k, r.add[k].Vector)
  <2>1. CASE k \in DOMAIN s.add /\ r.add[k] = s.add[k]
    BY <1>3, <1>8, <1>9, <2>1, CoveredStays DEF Covered
  <2>2. CASE k \in DOMAIN a /\ r.add[k] = a[k]
    BY <1>3, <1>4, <2>2 DEF CoveredBy
  <2> QED
    BY <1>6, <2>1, <2>2
<1>11. ASSUME NEW k \in DOMAIN r.remove PROVE CoveredBy(r, k, r.remove[k].Vector)
  <2>1. CASE k \in DOMAIN s.remove /\ r.remove[k] = s.remove[k]
    BY <1>3, <1>8, <1>9, <2>1, CoveredStays DEF Covered
  <2>2. CASE k \in DOMAIN d /\ r.remove[k] = d[k]
    BY <1>3, <1>4, <2>2 DEF CoveredBy
  <2> QED
    BY <1>7, <2>1, <2>2
<1>12. EntriesKept(s.add, r.add, r.highestStale) /\ EntriesKept(s.remove, r.remove, r.highestStale)
  BY <1>6, <1>7 DEF EntriesKept
<1> QED
  BY <1>3, <1>8, <1>10, <1>11, <1>12 DEF Grows, Covered, r

\* Prune: an entry that leaves was covered by the clock that leaves with it.
LEMMA PruneGrows ==
    ASSUME NEW s, IsReplica(s), Covered(s)
    PROVE  Grows(s, Prune(s))
<1> DEFINE r == Prune(s)
           stale == GetStale(s)
<1>1. /\ IsReplica(r)
      /\ \A k \in DOMAIN r.vectors : r.vectors[k] = s.vectors[k]
      /\ \A k \in DOMAIN r.add : r.add[k] = s.add[k]
      /\ \A k \in DOMAIN r.remove : r.remove[k] = s.remove[k]
  BY PruneType
<1>2. /\ stale \subseteq DOMAIN s.vectors
      /\ DOMAIN r.vectors = DOMAIN s.vectors \ stale
      /\ DOMAIN r.add = DOMAIN s.add \ stale
      /\ DOMAIN r.remove = DOMAIN s.remove \ stale
      /\ s.highestStale <= r.highestStale
      /\ \A k \in stale : s.vectors[k].clock <= r.highestStale
  BY PruneDrops
<1> HIDE DEF r, stale
<1>3. /\ \A k \in DOMAIN s.vectors : s.vectors[k].clock \in Nat
      /\ \A k \in DOMAIN s.add : s.add[k].Vector \in Nat
      /\ \A k \in DOMAIN s.remove : s.remove[k].Vector \in Nat
      /\ s.highestStale \in Nat /\ r.highestStale \in Nat
  BY <1>1, ReplicaNat DEF IsReplica
<1>4. ClocksKept(s, r)
  BY <1>1, <1>2, <1>3 DEF ClocksKept, CoveredBy
<1>5. \A k \in DOMAIN r.add : CoveredBy(r, k, r.add[k].Vector)
  BY <1>1, <1>2, <1>3, <1>4, CoveredStays DEF Covered
<1>6. \A k \in DOMAIN r.remove : CoveredBy(r, k, r.remove[k].Vector)
  BY <1>1, <1>2, <1>3, <1>4, CoveredStays DEF Covered
<1>7. EntriesKept(s.add, r.add, r.highestStale)
  <2> SUFFICES ASSUME NEW k \in DOMAIN s.add
               PROVE  \/ k \in DOMAIN r.add /\ s.add[k].Vector <= r.add[k].Vector
                      \/ s.add[k].Vector <= r.highestStale
    BY DEF EntriesKept
  <2>1. CASE k \in stale
    BY <1>2, <1>3, <2>1 DEF Covered, CoveredBy
  <2>2. CASE k \notin stale
    BY <1>1, <1>2, <1>3, <2>2
  <2> QED
    BY <2>1, <2>2
<1>8. EntriesKept(s.remove, r.remove, r.highestStale)
  <2> SUFFICES ASSUME NEW k \in DOMAIN s.remove
               PROVE  \/ k \in DOMAIN r.remove /\ s.remove[k].Vector <= r.remove[k].Vector
                      \/ s.remove[k].Vector <= r.highestStale
    BY DEF EntriesKept
  <2>1. CASE k \in stale
    BY <1>2, <1>3, <2>1 DEF Covered, CoveredBy
  <2>2. CASE k \notin stale
    BY <1>1, <1>2, <1>3, <2>2
  <2> QED
    BY <2>1, <2>2
<1> QED
  BY <1>1, <1>4, <1>5, <1>6, <1>7, <1>8 DEF Grows, Covered, r

\* The new store of a node, and one loaded from a snapshot, before anything else.
LEMMA NewCovered == Covered(NewTwoPhaseMap)
BY EmptyMapType DEF NewTwoPhaseMap, Covered
-----------------------------------------------------------------------------
(* What a step does to one replica, and to the messages                      *)

\* A node creates the mesh, or joins it with what a member knows.
Joins(n, r) ==
    /\ \/ status[n] = "out"
       \/ /\ n \in Rejoiners /\ status[n] = "left"
          /\ \A c \in OpenSessions : sync[c].server # n
    /\ status' = [status EXCEPT ![n] = "in"]
    /\ \/ r = Put(NewTwoPhaseMap, n, n, FreshData, now)
       \/ \E p \in Node : r = Loaded(n, p)

\* A handler puts the node's entry.
Writes(n, r) ==
    /\ status[n] # "out" /\ Handled(n) /\ status' = status
    /\ \E d \in Data \cup {Tombstone, NoData} : r = Put(store[n], n, n, d, now)

\* A handler changes the node's entry in place.
Edits(n, r) ==
    /\ status[n] # "out" /\ Changing(n)' /\ status' = status
    /\ \E t \in Table : r = ChangedInPlace(store[n], n, t)

\* A member removes itself.
Leaves(n, r) ==
    /\ InMesh(n) /\ Contains(store[n], n)
    /\ status' = [status EXCEPT ![n] = "leaving"]
    /\ r = Remove(store[n], n, n, now)
    /\ Handled(n)' => n \in raced'

\* Nobody joins.
NobodyJoins ==
    \A k \in Node : \/ status'[k] = status[k]
                    \/ status[k] # "out" /\ status'[k] \in {"leaving", "left", "crashed"}

\* No version changes: nothing happens to the replica, a node is marked, or
\* what is stale is collected.
Cleans(n, r) ==
    /\ NobodyJoins /\ status[n] # "out"
    /\ \/ r = store[n]
       \/ \E k : r = Mark(store[n], k)
       \/ InMesh(n) /\ r = Prune(store[n])

\* A state function of a session runs, on what the peer sent, and gives m.
Generates(n, r, m) ==
    /\ NobodyJoins /\ status[n] # "out"
    /\ \E e : /\ IsEndpoint(e) /\ e.peerMsg \in Messages
              /\ r = GenerateMessage(e, n).store
              /\ m = GenerateMessage(e, n).msg

\* A step changes the replica of n to r and puts at most the message m in flight.
Touches(n, r, m) ==
    /\ store' = [store EXCEPT ![n] = r]
    /\ Messages' \subseteq Messages \cup {NoMsg, m}
    /\ \/ m = NoMsg /\ (\/ Joins(n, r) \/ Writes(n, r) \/ Edits(n, r)
                       \/ Leaves(n, r) \/ Cleans(n, r))
       \/ Generates(n, r, m)

\* The handlers of nodes other than W stay where a change in place left them, a
\* handler begins in a member only, and a node is raced when it leaves.
HandlersGoOn(W) ==
    /\ raced \subseteq raced' /\ \A k \in raced' : k \in raced \/ status[k] = "in"
    /\ \A k \in Node : Handled(k)' => Handled(k) \/ Contains(store[k], k)
    /\ \A k \in Node \ W : Changing(k) => Changing(k)'
HandlersMay(n, r) == HandlersGoOn({}) \/ (Writes(n, r) /\ HandlersGoOn({n}))

\* A step that is about no replica.
TouchesNone ==
    store' = store /\ Messages' \subseteq Messages \cup {NoMsg} /\ NobodyJoins

\* The messages when the record of one Sync changes.
LEMMA MessagesNext ==
    ASSUME NEW c \in Node, NEW m, \A d \in Node : d # c => sync'[d] = sync[d],
           sync'[c].msg \in Messages \cup {NoMsg, m},
           sync'[c].cli.peerMsg \in Messages \cup {NoMsg, m},
           sync'[c].srv.peerMsg \in Messages \cup {NoMsg, m}
    PROVE  Messages' \subseteq Messages \cup {NoMsg, m}
<1> SUFFICES ASSUME NEW x \in Messages' PROVE x \in Messages \cup {NoMsg, m}
  OBVIOUS
<1>1. PICK d \in Node : x \in {sync'[d].msg, sync'[d].cli.peerMsg, sync'[d].srv.peerMsg}
  BY DEF Messages
<1>2. CASE d = c
  BY <1>1, <1>2
<1>3. CASE d # c
  BY <1>1, <1>3 DEF Messages
<1> QED
  BY <1>2, <1>3

\* The messages of an open or a closed session are among them.
LEMMA MessagesOf ==
    \A c \in Node : /\ sync[c].msg \in Messages
                    /\ sync[c].cli.peerMsg \in Messages
                    /\ sync[c].srv.peerMsg \in Messages
BY DEF Messages

\* The messages when a Sync is without a session.
LEMMA CalmMessages ==
    ASSUME NEW c \in Node, \A d \in Node : d # c => sync'[d] = sync[d],
           sync'[c].msg = NoMsg, sync'[c].cli = NewTwoPhaseSyncer,
           sync'[c].srv = NewTwoPhaseSyncer
    PROVE  Messages' \subseteq Messages \cup {NoMsg}
<1>1. NewTwoPhaseSyncer.peerMsg = NoMsg
  BY DEF NewTwoPhaseSyncer
<1>2. Messages' \subseteq Messages \cup {NoMsg, NoMsg}
  <2> DEFINE m == NoMsg
  <2>1. sync'[c].msg \in Messages \cup {NoMsg, m}
    OBVIOUS
  <2>2. sync'[c].cli.peerMsg \in Messages \cup {NoMsg, m}
    BY <1>1
  <2>3. sync'[c].srv.peerMsg \in Messages \cup {NoMsg, m}
    BY <1>1
  <2> HIDE DEF m
  <2>4. Messages' \subseteq Messages \cup {NoMsg, m}
    BY <2>1, <2>2, <2>3, MessagesNext
  <2> QED
    BY <2>4 DEF m
<1> QED
  BY <1>2

\* Joins and leaves touch one replica and no message.
LEMMA JoinsTouch ==
    ASSUME TypeOK, NEW n \in Node,
           \/ CreateMesh(n)
           \/ \E p \in Node : JoinMesh(n, p) \/ RejoinMesh(n, p)
           \/ LeaveMesh(n)
    PROVE  \E r : Touches(n, r, NoMsg)
<1> USE DEF boundVars, syncerVars, handlerVars
<1>t. StoresTyped /\ status \in [Node -> Status] /\ FreshData \in Data
  BY ConfigAssumption DEF TypeOK
<1>0. sync' = sync => Messages' \subseteq Messages \cup {NoMsg, NoMsg}
  BY DEF Messages
<1>1. CASE CreateMesh(n)
  <2> DEFINE r == Put(NewTwoPhaseMap, n, n, FreshData, now)
  <2>1. /\ status[n] = "out" /\ status' = [status EXCEPT ![n] = "in"]
        /\ store' = [store EXCEPT ![n] = r] /\ sync' = sync
    BY <1>1 DEF CreateMesh
  <2>2. Joins(n, r)
    BY <2>1 DEF Joins
  <2> HIDE DEF r
  <2> QED
    BY <1>0, <2>1, <2>2 DEF Touches
<1>2. ASSUME NEW p \in Node, JoinMesh(n, p) \/ RejoinMesh(n, p)
      PROVE  \E r : Touches(n, r, NoMsg)
  <2> DEFINE r == Loaded(n, p)
  <2>1. store' = [store EXCEPT ![n] = r] /\ sync' = sync
    BY <1>2 DEF JoinMesh, RejoinMesh
  <2>2. Joins(n, r)
    BY <1>2 DEF Joins, JoinMesh, RejoinMesh
  <2> HIDE DEF r
  <2> QED
    BY <1>0, <2>1, <2>2 DEF Touches
<1>4. CASE LeaveMesh(n)
  <2> DEFINE r == IF Contains(store[n], n) THEN Remove(store[n], n, n, now) ELSE store[n]
  <2>1. /\ status[n] = "in" /\ status' = [status EXCEPT ![n] = "leaving"]
        /\ store' = [store EXCEPT ![n] = r] /\ sync' = sync
    BY <1>4 DEF LeaveMesh
  <2>h. Handled(n)' => n \in raced'
    BY <1>4 DEF LeaveMesh, Handled
  <2>2. CASE Contains(store[n], n)
    <3>1. Leaves(n, r)
      BY <2>1, <2>2, <2>h DEF Leaves, InMesh
    <3> HIDE DEF r
    <3> QED
      BY <1>0, <2>1, <3>1 DEF Touches
  <2>3. CASE ~Contains(store[n], n)
    <3>1. NobodyJoins
      BY <1>t, <2>1 DEF NobodyJoins
    <3>2. Cleans(n, r)
      BY <2>1, <2>3, <3>1 DEF Cleans
    <3> HIDE DEF r
    <3> QED
      BY <1>0, <2>1, <3>2 DEF Touches
  <2> QED
    BY <2>2, <2>3
<1> QED
  BY <1>1, <1>2, <1>4

\* A step that is about no handler.
LEMMA HandlersRest ==
    ASSUME UNCHANGED handlerVars
    PROVE  \A W : HandlersGoOn(W)
BY DEF handlerVars, HandlersGoOn, Handled, Changing

\* Only Put ends a change in place.
LEMMA PutEndsChange ==
    ASSUME TypeOK, NEW h \in Handler, UpdateStep(h)
    PROVE  \A k \in Node : Changing(k) => Changing(k)' \/ (PutEntry(h) /\ k = upd[h].node)
<1> USE DEF handlerVars
<1>1. upd \in [Handler -> UpdateRecord]
  BY DEF TypeOK, UpdatesTyped
<1>2. ASSUME \A g \in Handler : upd[g].pc = "put" => upd'[g] = upd[g]
      PROVE  \A k \in Node : Changing(k) => Changing(k)'
  BY <1>2 DEF Changing
<1>3. CASE \/ ReadPeers(h) \/ MarkLeader(h) \/ GetEntry(h) \/ NothingToChange(h)
           \/ DeleteFromNil(h) \/ AssignToNil(h)
  <2>1. \A g \in Handler : upd[g].pc = "put" => upd'[g] = upd[g]
    <3>1. CASE ReadPeers(h) \/ GetEntry(h) \/ NothingToChange(h) \/ DeleteFromNil(h)
      <4>1. upd[h].pc # "put" /\ \E u : upd' = [upd EXCEPT ![h] = u]
        BY <3>1 DEF ReadPeers, GetEntry, NothingToChange, DeleteFromNil, HandlerAt
      <4> QED
        BY <1>1, <4>1
    <3>2. CASE MarkLeader(h)
      <4>1. upd[h].pc # "put" /\ \E u : upd' = [upd EXCEPT ![h] = u]
        BY <3>2 DEF MarkLeader, HandlerAt
      <4> QED
        BY <1>1, <4>1
    <3>3. CASE AssignToNil(h)
      BY <3>3 DEF AssignToNil
    <3> QED
      BY <1>3, <3>1, <3>2, <3>3
  <2> QED
    BY <1>2, <2>1
<1>4. ASSUME NEW t \in Table, ChangeTable(h, t)
      PROVE  \A k \in Node : Changing(k) => Changing(k)'
  <2>1. \A g \in Handler : /\ upd'[g].kind = upd[g].kind /\ upd'[g].node = upd[g].node
                           /\ upd[g].pc = "put" => upd'[g].pc = "put"
    BY <1>1, <1>4 DEF ChangeTable, UpdateRecord
  <2> QED
    BY <2>1 DEF Changing
<1>5. CASE PutEntry(h)
  <2>1. \A g \in Handler : g # h => upd'[g] = upd[g]
    BY <1>1, <1>5 DEF PutEntry
  <2> QED
    BY <1>5, <2>1 DEF Changing
<1> QED
  BY <1>3, <1>4, <1>5 DEF UpdateStep

\* A step of a handler puts or changes the entry of its node, or changes no
\* version and no entry.
LEMMA UpdatesTouch ==
    ASSUME TypeOK, HandlersJoined, NEW h \in Handler, UpdateStep(h)
    PROVE  \E n \in Node : \E r : Touches(n, r, NoMsg) /\ HandlersMay(n, r)
<1> USE DEF boundVars, syncerVars, handlerVars
<1>1. PICK n \in Node : n = upd[h].node
  BY UpdateMoves
<1>2. Handled(n) /\ status[n] # "out"
  BY <1>1, UpdateMoves DEF HandlersJoined, Handled
<1>t. /\ StoresTyped /\ SyncsTyped /\ status \in [Node -> Status]
      /\ upd \in [Handler -> UpdateRecord] /\ IsReplica(store[n])
  BY DEF TypeOK, UpdatesTyped, StoresTyped
<1>3. /\ raced \subseteq raced' /\ \A k \in raced' : k \in raced \/ status[k] = "in"
      /\ \A k \in Node : Handled(k)' => Handled(k) \/ Contains(store[k], k)
  <2>1. raced' = raced
    BY UpdateMoves
  <2>2. \A k \in Node : Handled(k)' => Handled(k)
    BY HandlersKeepNode DEF Handled
  <2> QED
    BY <2>1, <2>2
<1>4. Messages' \subseteq Messages \cup {NoMsg, NoMsg}
  <2>1. CASE sync' = sync
    BY <2>1 DEF Messages
  <2>2. CASE sync' = [sync EXCEPT ![n] = Idle]
    <3>1. sync'[n] = Idle /\ \A d \in Node : d # n => sync'[d] = sync[d]
      BY <1>t, <2>2, IdleType, SetSync
    <3>2. Idle.msg = NoMsg /\ Idle.cli = NewTwoPhaseSyncer /\ Idle.srv = NewTwoPhaseSyncer
      BY DEF Idle
    <3>3. Messages' \subseteq Messages \cup {NoMsg}
      BY <3>1, <3>2, CalmMessages
    <3> QED
      BY <3>3
  <2> QED
    BY <1>1, <2>1, <2>2, UpdateMoves
<1>5. CASE PutEntry(h)
  <2>1. PICK r : \E d \in Data \cup {Tombstone, NoData} :
            r = Put(store[n], n, n, d, now) /\ store' = [store EXCEPT ![n] = r]
    <3>1. PICK d \in Updated(upd[h]) : store' = [store EXCEPT ![n] = Put(store[n], n, n, d, now)]
      BY <1>1, <1>5 DEF PutEntry
    <3>2. d \in Data \cup {Tombstone, NoData}
      BY <3>1, <1>t, UpdatedType
    <3> QED
      BY <3>1, <3>2
  <2>2. Writes(n, r)
    BY <1>2, <1>5, <2>1 DEF Writes, PutEntry
  <2>3. HandlersGoOn({n})
    BY <1>1, <1>3, PutEndsChange DEF HandlersGoOn
  <2> QED
    BY <1>4, <2>1, <2>2, <2>3 DEF Touches, HandlersMay
<1>6. ~PutEntry(h) => HandlersGoOn({})
  BY <1>3, PutEndsChange DEF HandlersGoOn
<1>7. ASSUME NEW t \in Table, ChangeTable(h, t), ~PutEntry(h)
      PROVE  \E r : Touches(n, r, NoMsg) /\ HandlersMay(n, r)
  <2> DEFINE r == ChangedInPlace(store[n], n, t)
  <2>1. store' = [store EXCEPT ![n] = r] /\ status' = status
    BY <1>1, <1>7 DEF ChangeTable
  <2>2. upd'[h].pc = "put" /\ upd'[h].kind = "table" /\ upd'[h].node = n
    BY <1>1, <1>7, <1>t DEF ChangeTable, UpdateRecord
  <2>3. Changing(n)'
    BY <2>2 DEF Changing
  <2>4. Edits(n, r)
    BY <1>2, <2>1, <2>3 DEF Edits
  <2> HIDE DEF r
  <2> QED
    BY <1>4, <1>6, <1>7, <2>1, <2>4 DEF Touches, HandlersMay
<1>8. CASE \/ ReadPeers(h) \/ MarkLeader(h) \/ GetEntry(h) \/ NothingToChange(h)
           \/ DeleteFromNil(h) \/ AssignToNil(h)
  <2>1. upd[h].pc # "put"
    BY <1>8 DEF ReadPeers, MarkLeader, GetEntry, NothingToChange, DeleteFromNil, AssignToNil,
                HandlerAt
  <2>2. NobodyJoins
    BY <1>1, <1>2, <1>t, UpdateMoves DEF NobodyJoins
  <2>3. PICK r : /\ r = store[n] \/ \E k : r = Mark(store[n], k)
                 /\ store' = [store EXCEPT ![n] = r]
    <3>1. CASE MarkLeader(h)
      BY <1>1, <3>1 DEF MarkLeader
    <3>2. CASE ~MarkLeader(h)
      <4>1. store' = store
        BY <1>8, <3>2 DEF ReadPeers, GetEntry, NothingToChange, DeleteFromNil, AssignToNil
      <4>2. store = [store EXCEPT ![n] = store[n]]
        BY <1>t DEF StoresTyped
      <4> QED
        BY <4>1, <4>2
    <3> QED
      BY <3>1, <3>2
  <2>4. Cleans(n, r)
    BY <1>2, <2>2, <2>3 DEF Cleans
  <2>5. ~PutEntry(h)
    BY <2>1 DEF PutEntry, HandlerAt
  <2> QED
    BY <1>4, <1>6, <2>3, <2>4, <2>5 DEF Touches, HandlersMay
<1> QED
  BY <1>5, <1>7, <1>8 DEF UpdateStep
-----------------------------------------------------------------------------
(* The two endpoints of a session stay in step                               *)

\* GenerateMessage keeps what was received, and moves to the next state with a
\* message to send, or stays and is done.
LEMMA GenerateEnd ==
    ASSUME NEW n \in Node, NEW e, IsEndpoint(e)
    PROVE  LET g == GenerateMessage(e, n)
           IN  /\ g.end.peerMsg = e.peerMsg
               /\ \/ /\ e.state \in DOMAIN After /\ g.end.state = After[e.state]
                     /\ g.more = TRUE /\ g.msg.kind # "nil"
                  \/ /\ e.state \in {"PREPARE", "MERGE"} /\ g.end.state = e.state
                     /\ g.more = FALSE /\ g.msg = NoMsg
<1> DEFINE s == store[n]
           A == DOMAIN After
<1>a. /\ A = {"HASH", "PREPARE", "PRESENT", "EXCHANGE"}
      /\ After["HASH"] = "PREPARE" /\ After["PREPARE"] = "PRESENT"
      /\ After["PRESENT"] = "EXCHANGE" /\ After["EXCHANGE"] = "MERGE"
  BY DEF After
<1>e. /\ e.state \in SyncState
      /\ \A x : [e EXCEPT !.state = x].state = x /\ [e EXCEPT !.state = x].peerMsg = e.peerMsg
      /\ \A x, y : /\ [e EXCEPT !.state = x, !.mapState = y].state = x
                   /\ [e EXCEPT !.state = x, !.mapState = y].peerMsg = e.peerMsg
  BY DEF IsEndpoint
<1>m. /\ \A h : HashMsg(h).kind # "nil"
      /\ \A st : StateMsg(st).kind # "nil"
      /\ \A sn : SnapshotMsg(sn).kind # "nil"
  BY DEF HashMsg, StateMsg, SnapshotMsg
<1> HIDE DEF s
<1>1. CASE e.state = "HASH"
  <2>1. GenerateMessage(e, n) = hash(e, s)
    BY <1>1 DEF GenerateMessage, s
  <2> DEFINE e1 == [e EXCEPT !.state = "PREPARE"]
             s1 == s
             m == HashMsg(ClockHash(s))
  <2>2. e1.state = "PREPARE" /\ e1.peerMsg = e.peerMsg /\ m.kind # "nil"
    BY <1>e, <1>m
  <2>3. hash(e, s) = Generated(e1, s1, m, TRUE)
    BY DEF hash
  <2> HIDE DEF e1, s1, m
  <2> QED
    BY <1>a, <1>1, <2>1, <2>2, <2>3 DEF Generated
<1>2. CASE e.state = "PREPARE"
  <2>1. GenerateMessage(e, n) = prepare(e, s, n)
    BY <1>2 DEF GenerateMessage, s
  <2> DEFINE s1 == IncrementClock(s, n, now)
             st == GenerateState(s1)
             e1 == [e EXCEPT !.state = "PRESENT", !.mapState = st]
  <2>2. \/ prepare(e, s, n) = Generated(e, s, NoMsg, FALSE)
        \/ prepare(e, s, n) = Generated(e1, s1, StateMsg(st), TRUE)
    BY DEF prepare
  <2>3. e1.state = "PRESENT" /\ e1.peerMsg = e.peerMsg
    BY <1>e
  <2> HIDE DEF s1, st, e1
  <2> QED
    BY <1>a, <1>m, <1>2, <2>1, <2>2, <2>3 DEF Generated
<1>3. CASE e.state = "PRESENT"
  <2>1. GenerateMessage(e, n) = present(e, s)
    BY <1>3 DEF GenerateMessage, s
  <2> DEFINE e1 == [e EXCEPT !.state = "EXCHANGE"]
             s1 == ClockMerge(s, DecodeState(e.peerMsg).vectors, now)
             m == StateMsg(Difference(e.mapState, DecodeState(e.peerMsg), s.highestStale))
  <2>2. e1.state = "EXCHANGE" /\ e1.peerMsg = e.peerMsg /\ m.kind # "nil"
    BY <1>e, <1>m
  <2>3. present(e, s) = Generated(e1, s1, m, TRUE)
    BY DEF present
  <2> HIDE DEF e1, s1, m
  <2> QED
    BY <1>a, <1>3, <2>1, <2>2, <2>3 DEF Generated
<1>4. CASE e.state = "EXCHANGE"
  <2>1. GenerateMessage(e, n) = exchange(e, s)
    BY <1>4 DEF GenerateMessage, s
  <2> DEFINE e1 == [e EXCEPT !.state = "MERGE"]
             s1 == s
             m == SnapshotMsg(SnapShotFromState(s, DecodeState(e.peerMsg)))
  <2>2. e1.state = "MERGE" /\ e1.peerMsg = e.peerMsg /\ m.kind # "nil"
    BY <1>e, <1>m
  <2>3. exchange(e, s) = Generated(e1, s1, m, TRUE)
    BY DEF exchange
  <2> HIDE DEF e1, s1, m
  <2> QED
    BY <1>a, <1>4, <2>1, <2>2, <2>3 DEF Generated
<1>5. CASE e.state = "MERGE"
  <2>1. GenerateMessage(e, n) = merge(e, s)
    BY <1>5 DEF GenerateMessage, s
  <2> QED
    BY <1>5, <2>1 DEF merge, Generated
<1> QED
  BY <1>e, <1>1, <1>2, <1>3, <1>4, <1>5 DEF SyncState

\* RecvMessage keeps the message, if there is one.
LEMMA RecvMessageKeeps ==
    ASSUME NEW e, IsEndpoint(e), NEW m, IsMsg(m)
    PROVE  /\ RecvMessage(e, m).state = e.state
           /\ RecvMessage(e, m).mapState = e.mapState
           /\ m.kind # "nil" => RecvMessage(e, m).peerMsg = m
           /\ m.kind = "nil" => RecvMessage(e, m).peerMsg = e.peerMsg
BY DEF RecvMessage, IsEndpoint

\* A Sync of which nothing changes, while members stay members.
LEMMA StepKept ==
    ASSUME NEW c \in Node, InStep(c), sync'[c] = sync[c], InMesh(c) => InMesh(c)',
           IsSyncRecord(sync[c]),
           \A k \in Node : status[k] # "out" => status'[k] # "out"
    PROVE  InStep(c)'
BY DEF InStep, InSession, IsSyncRecord

\* A Sync without a session.
LEMMA CalmInStep ==
    ASSUME NEW c \in Node, sync'[c].pc \in {"idle", "loop"},
           sync'[c].pc = "loop" => InMesh(c)'
    PROVE  InStep(c)'
BY DEF InStep, InSession

\* gossipNodes are nodes.
LEMMA TargetsAreNodes ==
    ASSUME StoresTyped, NEW c \in Node
    PROVE  \A ts \in GossipNodes(c, GetPeers(Prune(store[c])) \ {c}) : ts \in SUBSET Node
<1> DEFINE P == GetPeers(Prune(store[c])) \ {c}
<1>1. IsReplica(Prune(store[c]))
  BY PruneType DEF StoresTyped
<1>2. P \subseteq Node
  BY <1>1 DEF GetPeers, Members, IsReplica, IsMapOf
<1> HIDE DEF P
<1>3. \A Q \in GossipNodes(c, P) : Q \subseteq P
  BY DEF GossipNodes, kSubset, Lowest
<1> QED
  BY <1>2, <1>3 DEF P

\* The steps outside a session keep everybody in step.
LEMMA SyncersInStep ==
    ASSUME TypeOK, EndpointsInStep, NEW c \in Node,
           \/ CreateMesh(c)
           \/ \E p \in Node : JoinMesh(c, p) \/ RejoinMesh(c, p)
           \/ LeaveMesh(c)
           \/ Crash(c)
           \/ SyncQuietly(c)
           \/ \E p \in Node : Pull(c, p)
           \/ StartSync(c)
           \/ \E s \in Node : SkipTarget(c, s) \/ OpenStream(c, s)
           \/ EndSync(c) \/ EndPull(c)
    PROVE  EndpointsInStep'
<1> USE DEF boundVars, syncerVars, handlerVars
<1>t. /\ SyncsTyped /\ status \in [Node -> Status]
      /\ \A d \in Node : IsSyncRecord(sync[d]) /\ InStep(d)
  BY DEF TypeOK, SyncsTyped, EndpointsInStep
<1>1. ASSUME sync' = sync,
             \A k \in Node : /\ status[k] # "out" => status'[k] # "out"
                             /\ InMesh(k) => InMesh(k)'
      PROVE  EndpointsInStep'
  BY <1>1, <1>t, StepKept DEF EndpointsInStep
<1>2. ASSUME NEW q, IsSyncRecord(q), sync' = [sync EXCEPT ![c] = q],
             \A k \in Node : /\ status[k] # "out" => status'[k] # "out"
                             /\ k # c /\ InMesh(k) => InMesh(k)',
             q.pc \in {"idle", "loop"}, q.pc = "loop" => InMesh(c)'
      PROVE  EndpointsInStep'
  <2>1. sync'[c] = q /\ \A d \in Node : d # c => sync'[d] = sync[d]
    BY <1>2, <1>t, SetSync
  <2>2. InStep(c)'
    BY <1>2, <2>1, CalmInStep
  <2>3. ASSUME NEW d \in Node, d # c PROVE InStep(d)'
    BY <1>2, <1>t, <2>1, <2>3, StepKept
  <2> QED
    BY <2>2, <2>3 DEF EndpointsInStep
<1>i. IsSyncRecord(Idle) /\ Idle.pc = "idle"
  BY IdleType DEF Idle
<1>3. CASE \/ CreateMesh(c)
           \/ \E p \in Node : JoinMesh(c, p) \/ RejoinMesh(c, p)
  <2>1. sync' = sync /\ status' = [status EXCEPT ![c] = "in"]
    BY <1>3 DEF CreateMesh, JoinMesh, RejoinMesh
  <2> QED
    BY <1>1, <1>t, <2>1 DEF InMesh
<1>4. CASE SyncQuietly(c)
  <2>1. sync' = sync /\ status' = status
    BY <1>4 DEF SyncQuietly
  <2> QED
    BY <1>1, <2>1 DEF InMesh
<1>5. CASE LeaveMesh(c)
  <2>1. sync' = sync /\ status' = [status EXCEPT ![c] = "leaving"]
    BY <1>5 DEF LeaveMesh
  <2> QED
    BY <1>1, <1>t, <2>1 DEF InMesh
<1>6. CASE Crash(c)
  <2>1. sync' = [sync EXCEPT ![c] = Idle] /\ status' = [status EXCEPT ![c] = "crashed"]
    BY <1>6 DEF Crash
  <2> QED
    BY <1>2, <1>i, <1>t, <2>1 DEF InMesh
<1>7. ASSUME NEW p \in Node, Pull(c, p) PROVE EndpointsInStep'
  <2> DEFINE q == [Idle EXCEPT !.pc = "loop", !.pull = TRUE, !.targets = {p}]
  <2>0. {p} \in SUBSET Node
    OBVIOUS
  <2>1. IsSyncRecord(q) /\ q.pc = "loop"
    BY <2>0, IdleType, StartType
  <2>2. sync' = [sync EXCEPT ![c] = q] /\ InMesh(c) /\ status' = status
    BY <1>7 DEF Pull
  <2> HIDE DEF q
  <2> QED
    BY <1>2, <2>1, <2>2 DEF InMesh
<1>8. CASE StartSync(c)
  <2>1. PICK ts \in GossipNodes(c, GetPeers(Prune(store[c])) \ {c}) :
            sync' = [sync EXCEPT ![c] = [Idle EXCEPT !.pc = "loop", !.targets = ts]]
    BY <1>8 DEF StartSync
  <2> DEFINE q == [Idle EXCEPT !.pc = "loop", !.targets = ts]
  <2>2. ts \in SUBSET Node
    BY <2>1, TargetsAreNodes DEF TypeOK
  <2>3. IsSyncRecord(q) /\ q.pc = "loop"
    BY <2>2, IdleType, StartType
  <2>4. sync' = [sync EXCEPT ![c] = q] /\ InMesh(c) /\ status' = status
    BY <1>8, <2>1 DEF StartSync
  <2> HIDE DEF q
  <2> QED
    BY <1>2, <2>3, <2>4 DEF InMesh
<1>9. ASSUME NEW s \in Node, SkipTarget(c, s) PROVE EndpointsInStep'
  <2> DEFINE q == [sync[c] EXCEPT !.targets = @ \ {s}]
  <2>1. IsSyncRecord(q) /\ q.pc = sync[c].pc
    BY <1>t DEF IsSyncRecord
  <2>2. sync' = [sync EXCEPT ![c] = q] /\ status' = status /\ sync[c].pc = "loop"
    BY <1>9 DEF SkipTarget
  <2>3. InMesh(c)
    BY <1>t, <2>2 DEF InStep
  <2> HIDE DEF q
  <2> QED
    BY <1>2, <2>1, <2>2, <2>3 DEF InMesh
<1>10. ASSUME NEW s \in Node, OpenStream(c, s) PROVE EndpointsInStep'
  <2> DEFINE e == NewTwoPhaseSyncer
             o == sync[c]
             q == [o EXCEPT !.pc = "client", !.targets = @ \ {s}, !.server = s,
                      !.start = now, !.cli = e, !.srv = e, !.msg = NoMsg,
                      !.more = TRUE, !.open = TRUE]
  <2>1. IsEndpoint(e) /\ IsMsg(NoMsg) /\ IsSyncRecord(o) /\ now \in Nat
    BY <1>t, NewSyncerType, MsgType DEF TypeOK
  <2>2. sync' = [sync EXCEPT ![c] = q] /\ status' = status /\ o.pc = "loop"
    BY <1>10 DEF OpenStream
  <2>e. e.state = "HASH"
    BY DEF NewTwoPhaseSyncer
  <2>m. InMesh(c)
    BY <1>t, <2>2 DEF InStep
  <2> HIDE DEF e, o
  <2>3. IsSyncRecord(q)
    BY <1>t, <2>1 DEF IsSyncRecord, SyncPC
  <2>4. /\ q.cli = e /\ q.srv = e /\ q.pc = "client" /\ q.more = TRUE /\ q.open = TRUE
    BY <2>1 DEF IsSyncRecord
  <2> HIDE DEF q
  <2>5. sync'[c] = q /\ \A d \in Node : d # c => sync'[d] = sync[d]
    BY <1>t, <2>2, <2>3, SetSync
  <2>6. InStep(c)'
    BY <2>e, <2>m, <2>2, <2>4, <2>5 DEF InStep, InMesh, ClientInStep
  <2>7. ASSUME NEW d \in Node, d # c PROVE InStep(d)'
    BY <1>t, <2>2, <2>5, <2>7, StepKept DEF InMesh
  <2> QED
    BY <2>6, <2>7 DEF EndpointsInStep
<1>11. CASE EndSync(c)
  <2>1. /\ sync' = [sync EXCEPT ![c] = Idle]
        /\ status' = [status EXCEPT ![c] = IF @ = "leaving" THEN "left" ELSE @]
    BY <1>11 DEF EndSync
  <2> QED
    BY <1>2, <1>i, <1>t, <2>1 DEF InMesh
<1>12. CASE EndPull(c)
  <2>1. sync' = [sync EXCEPT ![c] = Idle] /\ status' = status
    BY <1>12 DEF EndPull
  <2> QED
    BY <1>2, <1>i, <2>1 DEF InMesh
<1> QED
  BY <1>3, <1>4, <1>5, <1>6, <1>7, <1>8, <1>9, <1>10, <1>11, <1>12

\* The steps of a session keep everybody in step.
LEMMA SessionsInStep ==
    ASSUME TypeOK, EndpointsInStep, NEW c \in Node, SessionStep(c)
    PROVE  EndpointsInStep'
<1> USE DEF boundVars, syncerVars, handlerVars
<1>t. /\ StoresTyped /\ SyncsTyped /\ now \in Nat /\ status \in [Node -> Status]
      /\ IsSyncRecord(sync[c]) /\ InStep(c)
      /\ IsEndpoint(sync[c].cli) /\ IsEndpoint(sync[c].srv) /\ IsMsg(sync[c].msg)
      /\ \A d \in Node : IsSyncRecord(sync[d]) /\ InStep(d)
  BY DEF TypeOK, SyncsTyped, IsSyncRecord, EndpointsInStep
<1>r. \A n \in Node : IsReplica(store[n])
  BY <1>t DEF StoresTyped
<1>a. /\ DOMAIN After = {"HASH", "PREPARE", "PRESENT", "EXCHANGE"}
      /\ After["HASH"] = "PREPARE" /\ After["PREPARE"] = "PRESENT"
      /\ After["PRESENT"] = "EXCHANGE" /\ After["EXCHANGE"] = "MERGE"
  BY DEF After
<1>o. ASSUME NEW q, IsSyncRecord(q), sync' = [sync EXCEPT ![c] = q], status' = status,
             InStep(c)'
      PROVE  EndpointsInStep'
  <2>1. sync'[c] = q /\ \A d \in Node : d # c => sync'[d] = sync[d]
    BY <1>o, <1>t, SetSync
  <2>3. ASSUME NEW d \in Node, d # c PROVE InStep(d)'
    BY <1>o, <1>t, <2>1, <2>3, StepKept DEF InMesh
  <2> QED
    BY <1>o, <2>3 DEF EndpointsInStep
<1>1. CASE ClientSend(c)
  <2> DEFINE q == sync[c]
             g == GenerateMessage(q.cli, c)
             x == [q EXCEPT !.pc = "server", !.cli = g.end, !.msg = g.msg, !.more = g.more]
  <2>1. /\ q.pc = "client" /\ sync' = [sync EXCEPT ![c] = x] /\ status' = status
    BY <1>1 DEF ClientSend
  <2>2. IsGenerated(g)
    BY <1>t, <1>r, GenerateMessageType
  <2>3. /\ g.end.peerMsg = q.cli.peerMsg
        /\ \/ /\ q.cli.state \in DOMAIN After /\ g.end.state = After[q.cli.state]
              /\ g.more = TRUE /\ g.msg.kind # "nil"
           \/ /\ q.cli.state \in {"PREPARE", "MERGE"} /\ g.end.state = q.cli.state
              /\ g.more = FALSE /\ g.msg = NoMsg
    BY <1>t, GenerateEnd
  <2>4. IsSyncRecord(q) /\ q.server \in Node /\ q.open \in BOOLEAN
    BY <1>t, <2>1 DEF IsSyncRecord
  <2>5. /\ InMesh(c) /\ ClientInStep(q)
        /\ q.srv.state # "HASH" => status[q.server] # "out"
    BY <1>t, <2>1 DEF InStep, InSession
  <2> HIDE DEF g, q
  <2>6. IsSyncRecord(x)
    BY <2>2, <2>4 DEF IsSyncRecord, IsGenerated, SyncPC
  <2>7. /\ x.cli = g.end /\ x.srv = q.srv /\ x.msg = g.msg /\ x.more = g.more
        /\ x.open = q.open /\ x.server = q.server /\ x.pc = "server"
    BY <2>4 DEF IsSyncRecord
  <2> HIDE DEF x
  <2>8. ServerInStep(x)
    <3>1. ASSUME x.open, x.more
          PROVE  /\ x.srv.state \in DOMAIN After /\ x.cli.state = After[x.srv.state]
                 /\ x.msg.kind # "nil"
      BY <2>3, <2>5, <2>7, <3>1 DEF ClientInStep
    <3>2. ASSUME x.open, ~x.more
          PROVE  x.srv.state = x.cli.state /\ x.srv.state \in {"PREPARE", "MERGE"}
      BY <2>3, <2>5, <2>7, <3>2 DEF ClientInStep
    <3>3. ASSUME x.srv.state # "HASH"
          PROVE  x.cli.peerMsg.kind # "nil" /\ x.srv.peerMsg.kind # "nil"
      BY <2>3, <2>5, <2>7, <3>3 DEF ClientInStep
    <3> QED
      BY <3>1, <3>2, <3>3 DEF ServerInStep
  <2>9. sync'[c] = x
    BY <1>t, <2>1, <2>6, SetSync
  <2>10. InStep(c)'
    BY <2>1, <2>5, <2>7, <2>8, <2>9 DEF InStep, InMesh
  <2> QED
    BY <1>o, <2>1, <2>6, <2>10
<1>2. CASE ServerReply(c)
  <2> DEFINE q == sync[c]
  <2>0. q.pc = "server" /\ q.open
    BY <1>2 DEF ServerReply
  <2>1. PICK v \in Node : v = q.server
    BY <1>t, <2>0 DEF IsSyncRecord
  <2> DEFINE g == GenerateMessage(q.srv, v)
             e == RecvMessage(g.end, q.msg)
             x == [q EXCEPT !.pc = "reply", !.srv = e, !.msg = g.msg, !.open = g.more]
  <2>2. /\ sync' = [sync EXCEPT ![c] = x] /\ status' = status
        /\ q.srv.state = "HASH" => InMesh(v)
    BY <1>2, <2>1 DEF ServerReply
  <2>3. IsGenerated(g)
    BY <1>t, <1>r, GenerateMessageType
  <2>4. /\ g.end.peerMsg = q.srv.peerMsg
        /\ \/ /\ q.srv.state \in DOMAIN After /\ g.end.state = After[q.srv.state]
              /\ g.more = TRUE /\ g.msg.kind # "nil"
           \/ /\ q.srv.state \in {"PREPARE", "MERGE"} /\ g.end.state = q.srv.state
              /\ g.more = FALSE /\ g.msg = NoMsg
    BY <1>t, GenerateEnd
  <2>5. /\ e.state = g.end.state
        /\ q.msg.kind # "nil" => e.peerMsg = q.msg
        /\ q.msg.kind = "nil" => e.peerMsg = g.end.peerMsg
    BY <1>t, <2>3, RecvMessageKeeps DEF IsGenerated
  <2>6. /\ InMesh(c) /\ ServerInStep(q)
        /\ q.srv.state # "HASH" => status[v] # "out"
    BY <1>t, <2>0, <2>1 DEF InStep, InSession
  <2>7. IsSyncRecord(q) /\ IsEndpoint(e) /\ q.more \in BOOLEAN
    BY <1>t, <2>3, RecvMessageType DEF IsGenerated, IsSyncRecord
  <2> HIDE DEF g, e, q
  <2>8. IsSyncRecord(x)
    BY <2>1, <2>3, <2>7 DEF IsSyncRecord, IsGenerated, SyncPC
  <2>9. /\ x.cli = q.cli /\ x.srv = e /\ x.msg = g.msg /\ x.more = q.more
        /\ x.open = g.more /\ x.server = v /\ x.pc = "reply"
    BY <2>1, <2>7 DEF IsSyncRecord
  <2> HIDE DEF x
  <2>10. ASSUME x.more
         PROVE  /\ x.cli.state # "HASH"
                /\ IF x.open THEN x.srv.state = x.cli.state ELSE x.cli.state = "PRESENT"
                /\ x.srv.peerMsg.kind # "nil"
                /\ x.msg.kind = "nil" => x.cli.peerMsg.kind # "nil"
    <3>1. /\ q.srv.state \in DOMAIN After /\ q.cli.state = After[q.srv.state]
          /\ q.msg.kind # "nil"
          /\ q.srv.state # "HASH" => q.cli.peerMsg.kind # "nil" /\ q.srv.peerMsg.kind # "nil"
      BY <2>0, <2>6, <2>9, <2>10 DEF ServerInStep
    <3>2. x.cli.state # "HASH" /\ x.srv.peerMsg.kind # "nil"
      BY <1>a, <2>5, <2>9, <3>1
    <3>3. x.msg.kind = "nil" => x.cli.peerMsg.kind # "nil"
      BY <2>4, <2>9, <3>1
    <3>4. IF x.open THEN x.srv.state = x.cli.state ELSE x.cli.state = "PRESENT"
      BY <1>a, <2>4, <2>5, <2>9, <3>1
    <3> QED
      BY <3>2, <3>3, <3>4
  <2>11. ReplyInStep(x)
    BY <2>10 DEF ReplyInStep
  <2>12. status[v] # "out"
    BY <2>2, <2>6 DEF InMesh
  <2>13. sync'[c] = x
    BY <1>t, <2>2, <2>8, SetSync
  <2>14. InStep(c)'
    BY <2>2, <2>6, <2>9, <2>11, <2>12, <2>13 DEF InStep, InMesh
  <2> QED
    BY <1>o, <2>2, <2>8, <2>14
<1>3. ASSUME NEW ok \in BOOLEAN, sync' = [sync EXCEPT ![c] = SessionOver(c, ok)],
             status' = status, InSession(c)
      PROVE  EndpointsInStep'
  <2> DEFINE x == SessionOver(c, ok)
  <2>1. IsSyncRecord(x) /\ x.pc = "loop"
    BY <1>t, SessionOverType
  <2> HIDE DEF x
  <2>2. sync'[c] = x
    BY <1>t, <1>3, <2>1, SetSync DEF x
  <2>3. InMesh(c)
    BY <1>3, <1>t DEF InStep, InSession
  <2>4. InStep(c)'
    BY <1>3, <2>1, <2>2, <2>3, CalmInStep DEF InMesh
  <2> QED
    BY <1>3, <1>o, <2>1, <2>4 DEF x
<1>4. CASE ClientReceive(c)
  <2> DEFINE q == sync[c]
             e == RecvMessage(q.cli, q.msg)
             x == [q EXCEPT !.pc = "client", !.msg = NoMsg, !.cli = e]
  <2>1. q.pc = "reply" /\ status' = status /\ InSession(c)
    BY <1>4 DEF ClientReceive, InSession
  <2>2. CASE ~q.more
    <3>1. sync' = [sync EXCEPT ![c] = SessionOver(c, TRUE)]
      BY <1>4, <2>2 DEF ClientReceive
    <3> QED
      BY <1>3, <2>1, <3>1
  <2>3. CASE q.more
    <3>1. sync' = [sync EXCEPT ![c] = x]
      BY <1>4, <2>3 DEF ClientReceive
    <3>2. /\ e.state = q.cli.state
          /\ q.msg.kind # "nil" => e.peerMsg = q.msg
          /\ q.msg.kind = "nil" => e.peerMsg = q.cli.peerMsg
      BY <1>t, RecvMessageKeeps
    <3>3. /\ IsSyncRecord(q) /\ q.server \in Node /\ IsMsg(NoMsg) /\ IsEndpoint(e)
          /\ q.more \in BOOLEAN
      BY <1>t, <2>1, MsgType, RecvMessageType DEF IsSyncRecord
    <3>4. /\ InMesh(c) /\ ReplyInStep(q)
          /\ q.srv.state # "HASH" => status[q.server] # "out"
      BY <1>t, <2>1 DEF InStep, InSession
    <3> HIDE DEF q, e
    <3>5. IsSyncRecord(x)
      BY <3>3 DEF IsSyncRecord, SyncPC
    <3>6. /\ x.cli = e /\ x.srv = q.srv /\ x.more = q.more /\ x.open = q.open
          /\ x.server = q.server /\ x.pc = "client"
      BY <3>3 DEF IsSyncRecord
    <3> HIDE DEF x
    <3>7. ClientInStep(x)
      BY <2>3, <3>2, <3>3, <3>4, <3>6 DEF ReplyInStep, ClientInStep
    <3>8. sync'[c] = x
      BY <1>t, <3>1, <3>5, SetSync
    <3>9. InStep(c)'
      BY <2>1, <3>4, <3>6, <3>7, <3>8 DEF InStep, InMesh
    <3> QED
      BY <1>o, <2>1, <3>1, <3>5, <3>9
  <2> QED
    BY <2>2, <2>3
<1>5. ASSUME NEW ok \in BOOLEAN, HandleFailed(c, ok), InSession(c)
      PROVE  EndpointsInStep'
  <2>1. \/ sync' = [sync EXCEPT ![c] = SessionOver(c, ok)] /\ status' = status
        \/ sync' = [sync EXCEPT ![c] = Idle] /\ status' = [status EXCEPT ![c] = "crashed"]
    BY <1>5 DEF HandleFailed
  <2>2. CASE sync' = [sync EXCEPT ![c] = SessionOver(c, ok)] /\ status' = status
    BY <1>3, <1>5, <2>2
  <2>3. CASE sync' = [sync EXCEPT ![c] = Idle] /\ status' = [status EXCEPT ![c] = "crashed"]
    <3>1. sync'[c] = Idle /\ \A d \in Node : d # c => sync'[d] = sync[d]
      BY <1>t, <2>3, IdleType, SetSync
    <3>2. InStep(c)'
      BY <3>1, CalmInStep DEF Idle
    <3>3. ASSUME NEW d \in Node, d # c PROVE InStep(d)'
      BY <1>t, <2>3, <3>1, <3>3, StepKept DEF InMesh
    <3> QED
      BY <3>2, <3>3 DEF EndpointsInStep
  <2> QED
    BY <2>1, <2>2, <2>3
<1>6. CASE StreamEOF(c) \/ ServerRefuses(c) \/ StreamBroken(c)
  <2>1. InSession(c)
    BY <1>6 DEF StreamEOF, ServerRefuses, StreamBroken, AtStream, InSession
  <2>2. HandleFailed(c, TRUE) \/ HandleFailed(c, FALSE)
    BY <1>6 DEF StreamEOF, ServerRefuses, StreamBroken
  <2> QED
    BY <1>5, <2>1, <2>2
<1>7. CASE StreamTimesOut(c)
  <2>1. /\ status' = status /\ InSession(c)
        /\ sync' = [sync EXCEPT ![c] = SessionOver(c, FALSE)]
    BY <1>7 DEF StreamTimesOut, AtStream, InSession
  <2> QED
    BY <1>3, <2>1
<1> QED
  BY <1>1, <1>2, <1>4, <1>6, <1>7 DEF SessionStep

\* A step of a handler, which may end its daemon.
LEMMA HandlersInStep ==
    ASSUME TypeOK, EndpointsInStep, NEW h \in Handler, UpdateStep(h)
    PROVE  EndpointsInStep'
<1>1. PICK n \in Node : n = upd[h].node
  BY UpdateMoves
<1>2. \/ status' = status /\ sync' = sync
      \/ status' = [status EXCEPT ![n] = "crashed"] /\ sync' = [sync EXCEPT ![n] = Idle]
  BY <1>1, UpdateMoves
<1>t. /\ SyncsTyped /\ status \in [Node -> Status]
      /\ \A d \in Node : IsSyncRecord(sync[d]) /\ InStep(d)
  BY DEF TypeOK, SyncsTyped, EndpointsInStep
<1>3. CASE status' = status /\ sync' = sync
  BY <1>3, <1>t, StepKept DEF EndpointsInStep, InMesh
<1>4. CASE status' = [status EXCEPT ![n] = "crashed"] /\ sync' = [sync EXCEPT ![n] = Idle]
  <2>1. sync'[n] = Idle /\ \A d \in Node : d # n => sync'[d] = sync[d]
    BY <1>4, <1>t, IdleType, SetSync
  <2>2. Idle.pc = "idle"
    BY DEF Idle
  <2>3. InStep(n)'
    BY <2>1, <2>2, CalmInStep
  <2>4. /\ \A k \in Node : status[k] # "out" => status'[k] # "out"
        /\ \A k \in Node : k # n /\ InMesh(k) => InMesh(k)'
    BY <1>4, <1>t DEF InMesh
  <2>5. ASSUME NEW d \in Node, d # n PROVE InStep(d)'
    BY <1>t, <2>1, <2>4, <2>5, StepKept
  <2> QED
    BY <2>3, <2>5 DEF EndpointsInStep
<1> QED
  BY <1>2, <1>3, <1>4

\* The invariant holds of the first state and is kept by every step.
LEMMA InStepStep == TypeOK /\ EndpointsInStep /\ [Next]_vars => EndpointsInStep'
<1> SUFFICES ASSUME TypeOK, EndpointsInStep, [Next]_vars PROVE EndpointsInStep'
  OBVIOUS
<1>1. CASE UNCHANGED vars \/ Tick
  <2>1. sync' = sync /\ status' = status
    BY <1>1 DEF vars, Tick
  <2>2. \A c \in Node : IsSyncRecord(sync[c])
    BY DEF TypeOK, SyncsTyped
  <2> QED
    BY <2>1, <2>2, StepKept DEF EndpointsInStep, InMesh
<1>2. ASSUME NEW c \in Node, SessionStep(c) PROVE EndpointsInStep'
  BY <1>2, SessionsInStep
<1>3. ASSUME NEW c \in Node,
             \/ CreateMesh(c)
             \/ \E p \in Node : JoinMesh(c, p) \/ RejoinMesh(c, p)
             \/ LeaveMesh(c)
             \/ Crash(c)
             \/ SyncQuietly(c)
             \/ \E p \in Node : Pull(c, p)
             \/ StartSync(c)
             \/ \E s \in Node : SkipTarget(c, s) \/ OpenStream(c, s)
             \/ EndSync(c) \/ EndPull(c)
      PROVE  EndpointsInStep'
  BY <1>3, SyncersInStep
<1>4. ASSUME NEW h \in Handler, UpdateStep(h) PROVE EndpointsInStep'
  BY <1>4, HandlersInStep
<1>5. ASSUME NEW h \in Handler, NEW n \in Node, NEW kind \in Kind, BeginUpdate(h, n, kind)
      PROVE  EndpointsInStep'
  <2>1. sync' = sync /\ status' = status
    BY <1>5 DEF BeginUpdate
  <2>2. \A c \in Node : IsSyncRecord(sync[c])
    BY DEF TypeOK, SyncsTyped
  <2> QED
    BY <2>1, <2>2, StepKept DEF EndpointsInStep, InMesh
<1> QED
  BY <1>1, <1>2, <1>3, <1>4, <1>5 DEF Next, SyncStep

\* In the beginning nobody runs Sync.
LEMMA InStepInit == Init => EndpointsInStep
<1> SUFFICES ASSUME Init, NEW c \in Node PROVE InStep(c)
  BY DEF EndpointsInStep
<1>1. sync[c].pc = "idle"
  BY DEF Init, Idle
<1> QED
  BY <1>1 DEF InStep, InSession

\* TwoPhaseSyncer and the two loops that drive it (SyncMesh of the requester and
\* of the service): whatever fails, and whenever the two stores change between
\* two messages, the endpoints stay in step.
THEOREM SessionsStayInStep == Spec => []EndpointsInStep
<1>1. TypeOK /\ EndpointsInStep /\ [Next]_vars => EndpointsInStep'
  BY InStepStep
<1> QED
  BY <1>1, InStepInit, TypeCorrect, PTL DEF Spec

\* present, exchange and merge dereference the peer's last message: no endpoint
\* ever gets there without one, in any mesh, for any sequence of failures, also
\* when nodes join again.
THEOREM NoSyncerPanics == Spec => []SyncersNeverPanic
<1>1. EndpointsInStep => SyncersNeverPanic
  BY DEF EndpointsInStep, InStep, ClientInStep, ServerInStep, SyncersNeverPanic, Panics
<1> QED
  BY <1>1, SessionsStayInStep, PTL

\* The steps of Sync outside a session.
LEMMA SyncersTouch ==
    ASSUME TypeOK, NEW c \in Node,
           \/ Crash(c)
           \/ SyncQuietly(c)
           \/ \E p \in Node : Pull(c, p)
           \/ StartSync(c)
           \/ \E s \in Node : SkipTarget(c, s) \/ OpenStream(c, s)
           \/ EndSync(c) \/ EndPull(c)
    PROVE  TouchesNone \/ \E r : Touches(c, r, NoMsg)
<1> USE DEF boundVars, syncerVars, handlerVars
<1>t. /\ StoresTyped /\ SyncsTyped /\ status \in [Node -> Status] /\ IsSyncRecord(sync[c])
  BY DEF TypeOK, SyncsTyped
<1>i. /\ Idle.pc = "idle" /\ Idle.msg = NoMsg /\ Idle.cli = NewTwoPhaseSyncer
      /\ Idle.srv = NewTwoPhaseSyncer
  BY DEF Idle
<1>m. /\ sync[c].msg \in Messages /\ sync[c].cli.peerMsg \in Messages
      /\ sync[c].srv.peerMsg \in Messages
  BY MessagesOf
<1>n. NewTwoPhaseSyncer.peerMsg = NoMsg
  BY DEF NewTwoPhaseSyncer
<1>1. ASSUME sync' = [sync EXCEPT ![c] = Idle], store' = store, NobodyJoins
      PROVE  TouchesNone
  <2>1. sync'[c] = Idle /\ \A d \in Node : d # c => sync'[d] = sync[d]
    BY <1>1, <1>t, IdleType, SetSync
  <2>2. Messages' \subseteq Messages \cup {NoMsg}
    BY <1>i, <2>1, CalmMessages
  <2> QED
    BY <1>1, <2>2 DEF TouchesNone
<1>2. CASE Crash(c)
  <2>1. NobodyJoins
    BY <1>2, <1>t DEF Crash, InMesh, NobodyJoins
  <2> QED
    BY <1>1, <1>2, <2>1 DEF Crash
<1>3. CASE SyncQuietly(c)
  <2> DEFINE r == Prune(store[c])
  <2>1. /\ InMesh(c) /\ status' = status /\ sync' = sync
        /\ store' = [store EXCEPT ![c] = r]
    BY <1>3 DEF SyncQuietly
  <2>2. Cleans(c, r)
    BY <2>1 DEF Cleans, NobodyJoins, InMesh
  <2> HIDE DEF r
  <2>3. Messages' = Messages
    BY <2>1 DEF Messages
  <2> QED
    BY <2>1, <2>2, <2>3 DEF Touches
<1>4. ASSUME NEW q, IsSyncRecord(q), q.msg = NoMsg,
             q.cli = NewTwoPhaseSyncer, q.srv = NewTwoPhaseSyncer,
             sync' = [sync EXCEPT ![c] = q], InMesh(c), status' = status,
             store' = [store EXCEPT ![c] = Prune(store[c])]
      PROVE  \E r : Touches(c, r, NoMsg)
  <2> DEFINE r == Prune(store[c])
  <2>1. sync'[c] = q /\ \A d \in Node : d # c => sync'[d] = sync[d]
    BY <1>4, <1>t, SetSync
  <2>2. Messages' \subseteq Messages \cup {NoMsg}
    BY <1>4, <2>1, CalmMessages
  <2>3. Cleans(c, r)
    BY <1>4 DEF Cleans, NobodyJoins, InMesh
  <2>4. store' = [store EXCEPT ![c] = r]
    BY <1>4
  <2> HIDE DEF r
  <2> QED
    BY <2>2, <2>3, <2>4 DEF Touches
<1>5. ASSUME NEW p \in Node, Pull(c, p) PROVE \E r : Touches(c, r, NoMsg)
  <2> DEFINE q == [Idle EXCEPT !.pc = "loop", !.pull = TRUE, !.targets = {p}]
  <2>0. {p} \in SUBSET Node
    OBVIOUS
  <2>1. /\ IsSyncRecord(q) /\ q.pc = "loop" /\ q.msg = Idle.msg
        /\ q.cli = Idle.cli /\ q.srv = Idle.srv
    BY <2>0, IdleType, StartType
  <2>2. /\ sync' = [sync EXCEPT ![c] = q] /\ InMesh(c) /\ status' = status
        /\ store' = [store EXCEPT ![c] = Prune(store[c])]
    BY <1>5 DEF Pull
  <2> HIDE DEF q
  <2> QED
    BY <1>4, <1>i, <2>1, <2>2
<1>6. CASE StartSync(c)
  <2>1. PICK ts \in GossipNodes(c, GetPeers(Prune(store[c])) \ {c}) :
            sync' = [sync EXCEPT ![c] = [Idle EXCEPT !.pc = "loop", !.targets = ts]]
    BY <1>6 DEF StartSync
  <2> DEFINE q == [Idle EXCEPT !.pc = "loop", !.targets = ts]
  <2>2. ts \in SUBSET Node
    BY <1>t, <2>1, TargetsAreNodes
  <2>3. /\ IsSyncRecord(q) /\ q.pc = "loop" /\ q.msg = Idle.msg
        /\ q.cli = Idle.cli /\ q.srv = Idle.srv
    BY <2>2, IdleType, StartType
  <2>4. /\ sync' = [sync EXCEPT ![c] = q] /\ InMesh(c) /\ status' = status
        /\ store' = [store EXCEPT ![c] = Prune(store[c])]
    BY <1>6, <2>1 DEF StartSync
  <2> HIDE DEF q
  <2> QED
    BY <1>4, <1>i, <2>3, <2>4
<1>7. ASSUME NEW s \in Node, SkipTarget(c, s) PROVE TouchesNone
  <2> DEFINE q == [sync[c] EXCEPT !.targets = @ \ {s}]
  <2>1. /\ IsSyncRecord(q) /\ q.msg = sync[c].msg
        /\ q.cli = sync[c].cli /\ q.srv = sync[c].srv
    BY <1>t DEF IsSyncRecord
  <2>2. /\ sync' = [sync EXCEPT ![c] = q] /\ status' = status /\ store' = store
    BY <1>7 DEF SkipTarget
  <2> HIDE DEF q
  <2>3. sync'[c] = q /\ \A d \in Node : d # c => sync'[d] = sync[d]
    BY <1>t, <2>1, <2>2, SetSync
  <2>4. Messages' \subseteq Messages \cup {NoMsg, sync[c].msg}
    BY <1>m, <2>1, <2>3, MessagesNext
  <2> QED
    BY <1>m, <2>2, <2>4 DEF TouchesNone, NobodyJoins
<1>8. ASSUME NEW s \in Node, OpenStream(c, s) PROVE TouchesNone
  <2> DEFINE e == NewTwoPhaseSyncer
             o == sync[c]
             q == [o EXCEPT !.pc = "client", !.targets = @ \ {s}, !.server = s,
                      !.start = now, !.cli = e, !.srv = e, !.msg = NoMsg,
                      !.more = TRUE, !.open = TRUE]
  <2>1. IsEndpoint(e) /\ IsMsg(NoMsg) /\ IsSyncRecord(o) /\ now \in Nat
    BY <1>t, NewSyncerType, MsgType DEF TypeOK
  <2>2. sync' = [sync EXCEPT ![c] = q] /\ store' = store /\ status' = status
    BY <1>8 DEF OpenStream
  <2> HIDE DEF e, o
  <2>3. IsSyncRecord(q)
    BY <1>t, <2>1 DEF IsSyncRecord, SyncPC
  <2>4. q.cli = e /\ q.srv = e /\ q.msg = NoMsg
    BY <2>1 DEF IsSyncRecord
  <2> HIDE DEF q
  <2>5. sync'[c] = q /\ \A d \in Node : d # c => sync'[d] = sync[d]
    BY <1>t, <2>2, <2>3, SetSync
  <2>6. Messages' \subseteq Messages \cup {NoMsg}
    BY <2>4, <2>5, CalmMessages DEF e
  <2> QED
    BY <2>2, <2>6 DEF TouchesNone, NobodyJoins
<1>9. CASE EndSync(c)
  <2>1. NobodyJoins
    BY <1>9, <1>t DEF EndSync, NobodyJoins
  <2> QED
    BY <1>1, <1>9, <2>1 DEF EndSync
<1>10. CASE EndPull(c)
  BY <1>1, <1>10 DEF EndPull, NobodyJoins
<1> QED
  BY <1>2, <1>3, <1>5, <1>6, <1>7, <1>8, <1>9, <1>10

\* The steps of a session: one state function on one replica, or a mark.
LEMMA SessionsTouch ==
    ASSUME TypeOK, EndpointsInStep, NEW c \in Node, SessionStep(c)
    PROVE  TouchesNone \/ \E n \in Node : \E r, m : Touches(n, r, m)
<1> USE DEF boundVars, syncerVars, handlerVars
<1>t. /\ StoresTyped /\ SyncsTyped /\ now \in Nat /\ status \in [Node -> Status]
      /\ IsSyncRecord(sync[c])
      /\ IsEndpoint(sync[c].cli) /\ IsEndpoint(sync[c].srv) /\ IsMsg(sync[c].msg)
  BY DEF TypeOK, SyncsTyped, IsSyncRecord
<1>m. /\ sync[c].msg \in Messages /\ sync[c].cli.peerMsg \in Messages
      /\ sync[c].srv.peerMsg \in Messages
  BY MessagesOf
<1>r. \A n \in Node : IsReplica(store[n])
  BY <1>t DEF StoresTyped
<1>1. CASE ClientSend(c)
  <2> DEFINE q == sync[c]
             g == GenerateMessage(q.cli, c)
             x == [q EXCEPT !.pc = "server", !.cli = g.end, !.msg = g.msg, !.more = g.more]
  <2>1. /\ q.pc = "client" /\ store' = [store EXCEPT ![c] = g.store]
        /\ sync' = [sync EXCEPT ![c] = x] /\ status' = status
    BY <1>1 DEF ClientSend
  <2>2. IsGenerated(g) /\ g.end.peerMsg = q.cli.peerMsg
    <3>1. IsGenerated(g)
      BY <1>t, <1>r, GenerateMessageType
    <3>2. q.cli.state \in SyncState
      BY <1>t DEF IsEndpoint
    <3>3. g.end.peerMsg = q.cli.peerMsg
      BY <1>t, GenerateEnd
    <3> QED
      BY <3>1, <3>3
  <2>3. Generates(c, g.store, g.msg)
    <3>1. NobodyJoins
      BY <2>1 DEF NobodyJoins
    <3> QED
      BY <1>t, <1>m, <2>1, <3>1 DEF Generates, EndpointsInStep, InStep, InMesh
  <2> HIDE DEF g, q
  <2>4. IsSyncRecord(q) /\ q.server \in Node
    BY <1>t, <2>1 DEF IsSyncRecord, q
  <2>5. IsSyncRecord(x)
    BY <2>2, <2>4 DEF IsSyncRecord, IsGenerated, SyncPC
  <2>6. x.cli = g.end /\ x.srv = q.srv /\ x.msg = g.msg
    BY <2>4 DEF IsSyncRecord
  <2> HIDE DEF x
  <2>7. sync'[c] = x /\ \A d \in Node : d # c => sync'[d] = sync[d]
    BY <1>t, <2>1, <2>5, SetSync
  <2>8. Messages' \subseteq Messages \cup {NoMsg, g.msg}
    BY <1>m, <2>2, <2>6, <2>7, MessagesNext DEF q
  <2> QED
    BY <2>1, <2>3, <2>8 DEF Touches
<1>2. CASE ServerReply(c)
  <2> DEFINE q == sync[c]
  <2>0. q.pc = "server"
    BY <1>2 DEF ServerReply
  <2>1. PICK v \in Node : v = q.server
    BY <1>t, <2>0 DEF IsSyncRecord
  <2> DEFINE g == GenerateMessage(q.srv, v)
             e == RecvMessage(g.end, q.msg)
             x == [q EXCEPT !.pc = "reply", !.srv = e, !.msg = g.msg, !.open = g.more]
  <2>2. /\ store' = [store EXCEPT ![v] = g.store]
        /\ sync' = [sync EXCEPT ![c] = x] /\ status' = status
    BY <1>2, <2>1 DEF ServerReply
  <2>3. IsGenerated(g) /\ g.end.peerMsg = q.srv.peerMsg
    <3>1. IsGenerated(g)
      BY <1>t, <1>r, GenerateMessageType
    <3>2. g.end.peerMsg = q.srv.peerMsg
      BY <1>t, GenerateEnd
    <3> QED
      BY <3>1, <3>2
  <2>4. Generates(v, g.store, g.msg)
    <3>1. NobodyJoins
      BY <2>2 DEF NobodyJoins
    <3>2. status[v] # "out"
      BY <1>2, <2>0, <2>1 DEF ServerReply, EndpointsInStep, InStep, InSession, InMesh
    <3> QED
      BY <1>t, <1>m, <3>1, <3>2 DEF Generates
  <2> HIDE DEF g
  <2>5. IsEndpoint(e) /\ e.peerMsg \in {g.end.peerMsg, q.msg}
    BY <1>t, <2>3, RecvMessageType DEF IsGenerated
  <2> HIDE DEF e, q
  <2>6. IsSyncRecord(q)
    BY <1>t DEF q
  <2>7. IsSyncRecord(x)
    BY <2>1, <2>3, <2>5, <2>6 DEF IsSyncRecord, IsGenerated, SyncPC
  <2>8. x.cli = q.cli /\ x.srv = e /\ x.msg = g.msg
    BY <2>6 DEF IsSyncRecord
  <2> HIDE DEF x
  <2>9. sync'[c] = x /\ \A d \in Node : d # c => sync'[d] = sync[d]
    BY <1>t, <2>2, <2>7, SetSync
  <2>10. e.peerMsg \in Messages
    BY <1>m, <2>3, <2>5 DEF q
  <2>11. Messages' \subseteq Messages \cup {NoMsg, g.msg}
    BY <1>m, <2>8, <2>9, <2>10, MessagesNext DEF q
  <2> QED
    BY <2>2, <2>4, <2>11 DEF Touches
<1>3. ASSUME NEW ok \in BOOLEAN, sync' = [sync EXCEPT ![c] = SessionOver(c, ok)]
      PROVE  Messages' \subseteq Messages \cup {NoMsg}
  <2> DEFINE x == SessionOver(c, ok)
  <2>1. /\ IsSyncRecord(x) /\ x.cli = NewTwoPhaseSyncer
        /\ x.srv = NewTwoPhaseSyncer /\ x.msg = NoMsg
    BY <1>t, SessionOverType
  <2> HIDE DEF x
  <2>2. sync'[c] = x /\ \A d \in Node : d # c => sync'[d] = sync[d]
    BY <1>t, <1>3, <2>1, SetSync DEF x
  <2> QED
    BY <2>1, <2>2, CalmMessages
<1>4. CASE ClientReceive(c)
  <2> DEFINE q == sync[c]
             e == RecvMessage(q.cli, q.msg)
             x == [q EXCEPT !.pc = "client", !.msg = NoMsg, !.cli = e]
  <2>1. q.pc = "reply" /\ store' = store /\ NobodyJoins
    BY <1>4 DEF ClientReceive, NobodyJoins
  <2>2. CASE ~q.more
    <3>1. sync' = [sync EXCEPT ![c] = SessionOver(c, TRUE)]
      BY <1>4, <2>2 DEF ClientReceive
    <3> QED
      BY <1>3, <2>1, <3>1 DEF TouchesNone
  <2>3. CASE q.more
    <3>1. sync' = [sync EXCEPT ![c] = x]
      BY <1>4, <2>3 DEF ClientReceive
    <3>2. IsEndpoint(e) /\ e.peerMsg \in {q.cli.peerMsg, q.msg}
      BY <1>t, RecvMessageType
    <3>3. IsSyncRecord(q) /\ q.server \in Node /\ IsMsg(NoMsg)
      BY <1>t, <2>1, MsgType DEF IsSyncRecord
    <3>4. e.peerMsg \in Messages /\ q.srv.peerMsg \in Messages
      BY <1>m, <3>2
    <3> HIDE DEF q, e
    <3>5. IsSyncRecord(x)
      BY <3>2, <3>3 DEF IsSyncRecord, SyncPC
    <3>6. x.cli = e /\ x.srv = q.srv /\ x.msg = NoMsg
      BY <3>3 DEF IsSyncRecord
    <3> HIDE DEF x
    <3>7. sync'[c] = x /\ \A d \in Node : d # c => sync'[d] = sync[d]
      BY <1>t, <3>1, <3>5, SetSync
    <3>8. Messages' \subseteq Messages \cup {NoMsg, e.peerMsg}
      BY <3>4, <3>6, <3>7, MessagesNext
    <3> QED
      BY <2>1, <3>4, <3>8 DEF TouchesNone
  <2> QED
    BY <2>2, <2>3
<1>5. ASSUME NEW ok \in BOOLEAN, HandleFailed(c, ok), sync[c].pc # "idle", InSession(c),
             status[c] # "out"
      PROVE  \E r : Touches(c, r, NoMsg)
  <2> DEFINE r == Mark(store[c], sync[c].server)
  <2>1. /\ store' = [store EXCEPT ![c] = r]
        /\ \/ sync' = [sync EXCEPT ![c] = SessionOver(c, ok)] /\ status' = status
           \/ sync' = [sync EXCEPT ![c] = Idle] /\ status' = [status EXCEPT ![c] = "crashed"]
    BY <1>5 DEF HandleFailed
  <2>2. NobodyJoins
    BY <1>5, <1>t, <2>1 DEF NobodyJoins
  <2>3. Cleans(c, r)
    BY <1>5, <2>2 DEF Cleans
  <2> HIDE DEF r
  <2>4. Messages' \subseteq Messages \cup {NoMsg}
    <3>1. CASE sync' = [sync EXCEPT ![c] = SessionOver(c, ok)]
      BY <1>3, <3>1
    <3>2. CASE sync' = [sync EXCEPT ![c] = Idle]
      <4>1. sync'[c] = Idle /\ \A d \in Node : d # c => sync'[d] = sync[d]
        BY <1>t, <3>2, IdleType, SetSync
      <4>2. /\ Idle.msg = NoMsg /\ Idle.cli = NewTwoPhaseSyncer
            /\ Idle.srv = NewTwoPhaseSyncer
        BY DEF Idle
      <4> QED
        BY <4>1, <4>2, CalmMessages
    <3> QED
      BY <2>1, <3>1, <3>2
  <2> QED
    BY <2>1, <2>3, <2>4 DEF Touches
<1>6. CASE StreamEOF(c) \/ ServerRefuses(c) \/ StreamBroken(c)
  <2>1. InSession(c)
    BY <1>6 DEF StreamEOF, ServerRefuses, StreamBroken, AtStream, InSession
  <2>2. HandleFailed(c, TRUE) \/ HandleFailed(c, FALSE)
    BY <1>6 DEF StreamEOF, ServerRefuses, StreamBroken
  <2>3. status[c] # "out"
    BY <2>1 DEF EndpointsInStep, InStep, InSession, InMesh
  <2> QED
    BY <1>5, <2>1, <2>2, <2>3 DEF InSession
<1>7. CASE StreamTimesOut(c)
  <2>1. /\ store' = store /\ NobodyJoins
        /\ sync' = [sync EXCEPT ![c] = SessionOver(c, FALSE)]
    BY <1>7 DEF StreamTimesOut, NobodyJoins
  <2> QED
    BY <1>3, <2>1 DEF TouchesNone
<1> QED
  BY <1>1, <1>2, <1>4, <1>6, <1>7 DEF SessionStep


\* Sync and its sessions, joins and crashes leave the handlers alone.
LEMMA SyncersLeaveHandlers ==
    ASSUME NEW c \in Node,
           \/ SyncStep(c) \/ CreateMesh(c) \/ Crash(c) \/ SyncQuietly(c) \/ StartSync(c)
           \/ \E p \in Node : JoinMesh(c, p) \/ RejoinMesh(c, p) \/ Pull(c, p)
    PROVE  UNCHANGED handlerVars
<1> USE DEF boundVars, syncerVars, handlerVars
<1>1. CASE StreamEOF(c) \/ ServerRefuses(c) \/ StreamBroken(c) \/ StreamTimesOut(c)
  <2>1. HandleFailed(c, TRUE) \/ HandleFailed(c, FALSE) \/ StreamTimesOut(c)
    BY <1>1 DEF StreamEOF, ServerRefuses, StreamBroken
  <2> QED
    BY <2>1 DEF HandleFailed, StreamTimesOut
<1>2. CASE ClientSend(c) \/ ServerReply(c) \/ ClientReceive(c)
  BY <1>2 DEF ClientSend, ServerReply, ClientReceive
<1>3. CASE \/ \E s \in Node : SkipTarget(c, s) \/ OpenStream(c, s)
           \/ EndSync(c) \/ EndPull(c)
  BY <1>3 DEF SkipTarget, OpenStream, EndSync, EndPull
<1>4. CASE \/ CreateMesh(c) \/ Crash(c) \/ SyncQuietly(c) \/ StartSync(c)
           \/ \E p \in Node : JoinMesh(c, p) \/ RejoinMesh(c, p) \/ Pull(c, p)
  BY <1>4 DEF CreateMesh, Crash, SyncQuietly, StartSync, JoinMesh, RejoinMesh, Pull
<1> QED
  BY <1>1, <1>2, <1>3, <1>4 DEF SyncStep, SessionStep

\* A request arrives, or a node leaves.
LEMMA BeginsGoOn ==
    ASSUME TypeOK, NEW n \in Node,
           LeaveMesh(n) \/ \E h \in Handler, kind \in Kind : BeginUpdate(h, n, kind)
    PROVE  HandlersGoOn({})
<1>1. CASE LeaveMesh(n)
  <2>1. /\ upd' = upd /\ raced \subseteq raced' /\ raced' \subseteq raced \cup {n}
        /\ status[n] = "in"
    BY <1>1 DEF LeaveMesh
  <2> QED
    BY <2>1 DEF HandlersGoOn, Handled, Changing
<1>2. ASSUME NEW h \in Handler, NEW kind \in Kind, BeginUpdate(h, n, kind)
      PROVE  HandlersGoOn({})
  <2>0. upd \in [Handler -> UpdateRecord]
    BY DEF TypeOK, UpdatesTyped
  <2>1. /\ raced' = raced /\ Contains(store[n], n) /\ upd[h].pc = "idle"
        /\ upd'[h].node = n
        /\ \A g \in Handler : g # h => upd'[g] = upd[g]
    <3> DEFINE pc == IF kind = "beat" THEN "peers" ELSE "get"
    <3>1. /\ upd' = [upd EXCEPT ![h] = [upd[h] EXCEPT !.pc = pc, !.node = n, !.kind = kind]]
          /\ raced' = raced /\ Contains(store[n], n) /\ upd[h].pc = "idle"
      BY <1>2 DEF BeginUpdate
    <3> HIDE DEF pc
    <3> QED
      BY <2>0, <3>1 DEF UpdateRecord
  <2>2. \A k \in Node : Handled(k)' => Handled(k) \/ Contains(store[k], k)
    BY <2>1 DEF Handled
  <2>3. \A k \in Node : Changing(k) => Changing(k)'
    BY <2>1 DEF Changing
  <2> QED
    BY <2>1, <2>2, <2>3 DEF HandlersGoOn
<1> QED
  BY <1>1, <1>2

\* Every step is about no replica, or about one, in one of these ways.
LEMMA StepTouches ==
    ASSUME TypeOK, HandlersJoined, EndpointsInStep, [Next]_vars
    PROVE  \/ TouchesNone /\ HandlersGoOn({})
           \/ \E n \in Node : \E r, m : Touches(n, r, m) /\ HandlersMay(n, r)
<1> DEFINE Moves == \/ TouchesNone /\ HandlersGoOn({})
                    \/ \E n \in Node : \E r, m : Touches(n, r, m) /\ HandlersMay(n, r)
<1>0. HandlersGoOn({}) => \A n, r : HandlersMay(n, r)
  BY DEF HandlersMay
<1>1. CASE UNCHANGED vars \/ Tick
  <2>1. sync' = sync /\ status' = status /\ store' = store /\ UNCHANGED handlerVars
    BY <1>1 DEF vars, Tick, handlerVars
  <2> QED
    BY <2>1, HandlersRest DEF TouchesNone, NobodyJoins, Messages
<1>2. ASSUME NEW c \in Node, SessionStep(c) PROVE Moves
  <2>1. HandlersGoOn({})
    BY <1>2, SyncersLeaveHandlers, HandlersRest DEF SyncStep
  <2>2. TouchesNone \/ \E n \in Node : \E r, m : Touches(n, r, m)
    BY <1>2, SessionsTouch
  <2> QED
    BY <1>0, <2>1, <2>2
<1>3. ASSUME NEW c \in Node,
             \/ Crash(c)
             \/ SyncQuietly(c)
             \/ \E p \in Node : Pull(c, p)
             \/ StartSync(c)
             \/ \E s \in Node : SkipTarget(c, s) \/ OpenStream(c, s)
             \/ EndSync(c) \/ EndPull(c)
      PROVE  Moves
  <2>1. HandlersGoOn({})
    <3>1. UNCHANGED handlerVars
      BY <1>3, SyncersLeaveHandlers DEF SyncStep
    <3> QED
      BY <3>1, HandlersRest
  <2>2. TouchesNone \/ \E r : Touches(c, r, NoMsg)
    BY <1>3, SyncersTouch
  <2> QED
    BY <1>0, <2>1, <2>2
<1>4. ASSUME NEW n \in Node,
             \/ CreateMesh(n)
             \/ \E p \in Node : JoinMesh(n, p) \/ RejoinMesh(n, p)
             \/ LeaveMesh(n)
      PROVE  Moves
  <2>1. \E r : Touches(n, r, NoMsg)
    BY <1>4, JoinsTouch
  <2>2. HandlersGoOn({})
    <3>1. CASE LeaveMesh(n)
      BY <3>1, BeginsGoOn
    <3>2. CASE ~LeaveMesh(n)
      <4>1. UNCHANGED handlerVars
        BY <1>4, <3>2, SyncersLeaveHandlers
      <4> QED
        BY <4>1, HandlersRest
    <3> QED
      BY <3>1, <3>2
  <2> QED
    BY <1>0, <2>1, <2>2
<1>5. ASSUME NEW h \in Handler, UpdateStep(h) PROVE Moves
  BY <1>5, UpdatesTouch
<1>6. ASSUME NEW h \in Handler, NEW n \in Node, NEW kind \in Kind, BeginUpdate(h, n, kind)
      PROVE  Moves
  <2>1. sync' = sync /\ status' = status /\ store' = store
    BY <1>6 DEF BeginUpdate
  <2>2. TouchesNone
    BY <2>1 DEF TouchesNone, NobodyJoins, Messages
  <2> QED
    BY <1>6, <2>2, BeginsGoOn
<1> QED
  BY <1>1, <1>2, <1>3, <1>4, <1>5, <1>6 DEF Next, SyncStep
-----------------------------------------------------------------------------
(* Entries are covered by clocks                                             *)

\* The state functions.
LEMMA GenerateGrows ==
    ASSUME NEW n \in Node, IsReplica(store[n]), Covered(store[n]), now \in Nat,
           NEW e, IsEndpoint(e)
    PROVE  Grows(store[n], GenerateMessage(e, n).store)
<1> DEFINE s == store[n]
<1>t. IsMapState(e.mapState) /\ IsMsg(e.peerMsg) /\ e.state \in SyncState
  BY DEF IsEndpoint
<1>s. IsReplica(s) /\ Covered(s) /\ Grows(s, s)
  BY MarkGrows
<1>1. CASE e.state = "HASH"
  <2>1. GenerateMessage(e, n).store = s
    BY <1>1 DEF GenerateMessage, hash, Generated
  <2> QED
    BY <1>s, <2>1
<1>2. CASE e.state = "PREPARE"
  <2>1. GenerateMessage(e, n).store \in {s, IncrementClock(s, n, now)}
    BY <1>2 DEF GenerateMessage, prepare, Generated
  <2>2. Grows(s, IncrementClock(s, n, now))
    BY <1>s, IncrementGrows
  <2> QED
    BY <1>s, <2>1, <2>2
<1>3. CASE e.state = "PRESENT"
  <2> DEFINE vs == DecodeState(e.peerMsg).vectors
  <2>1. GenerateMessage(e, n).store = ClockMerge(s, vs, now)
    BY <1>3 DEF GenerateMessage, present, Generated
  <2>2. IsMapOf(vs, Node, Nat)
    BY <1>t, DecodeType DEF IsMapState
  <2> HIDE DEF vs, s
  <2>3. Grows(s, ClockMerge(s, vs, now))
    BY <1>s, <2>2, ClockMergeGrows
  <2> QED
    BY <2>1, <2>3 DEF s
<1>4. CASE e.state = "EXCHANGE"
  <2>1. GenerateMessage(e, n).store = s
    BY <1>4 DEF GenerateMessage, exchange, Generated
  <2> QED
    BY <1>s, <2>1
<1>5. CASE e.state = "MERGE"
  <2> DEFINE sn == DecodeSnapshot(e.peerMsg)
  <2>1. GenerateMessage(e, n).store = Merge(s, sn, now)
    BY <1>5 DEF GenerateMessage, merge, Generated
  <2>2. IsSnapshot(sn)
    BY <1>t, DecodeType
  <2> HIDE DEF sn, s
  <2>3. Grows(s, Merge(s, sn, now))
    BY <1>s, <2>2, MergeGrows
  <2> QED
    BY <2>1, <2>3 DEF s
<1> QED
  BY <1>t, <1>1, <1>2, <1>3, <1>4, <1>5 DEF SyncState

\* A change in place.
LEMMA RelabelGrows ==
    ASSUME NEW s, IsReplica(s), Covered(s), NEW r, Relabels(s, r)
    PROVE  Grows(s, r)
<1>1. /\ \A x \in DOMAIN s.vectors : s.vectors[x].clock \in Nat
      /\ s.highestStale \in Nat
  BY ReplicaNat DEF IsReplica
<1>2. ClocksKept(s, r)
  BY <1>1 DEF Relabels, ClocksKept, CoveredBy
<1> QED
  BY <1>2, SameEntriesGrow DEF Relabels

\* The store of a node that joins holds what it loaded, and its own entry.
LEMMA LoadedGrows ==
    ASSUME NEW n \in Node, NEW p \in Node, IsReplica(store[p]), now \in Nat
    PROVE  /\ Grows(NewTwoPhaseMap, Put(NewTwoPhaseMap, n, n, FreshData, now))
           /\ IsReplica(Loaded(n, p)) /\ Covered(Loaded(n, p))
<1> DEFINE sn == TakeSnapshot(store[p])
           m == Merge(NewTwoPhaseMap, sn, now)
<1>1. IsSnapshot(sn)
  BY DEF TakeSnapshot, IsSnapshot, IsReplica
<1>2. IsReplica(NewTwoPhaseMap) /\ Covered(NewTwoPhaseMap)
      /\ FreshData \in Data \cup {Tombstone, NoData}
  BY NewCovered, NewTwoPhaseMapType, ConfigAssumption
<1> HIDE DEF sn
<1>3. Grows(NewTwoPhaseMap, m)
  BY <1>1, <1>2, MergeGrows
<1>4. IsReplica(m) /\ Covered(m)
  BY <1>3 DEF Grows
<1> HIDE DEF m
<1>5. Grows(m, Put(m, n, n, FreshData, now))
  BY <1>2, <1>4, PutGrows
<1>6. Grows(NewTwoPhaseMap, Put(NewTwoPhaseMap, n, n, FreshData, now))
  BY <1>2, PutGrows
<1> QED
  BY <1>5, <1>6 DEF Grows, Loaded, m, sn

\* The replica a step touches loses nothing but what it collects, and is well-
\* formed; a node that joins starts anew.
LEMMA TouchGrows ==
    ASSUME TypeOK, EntriesCovered, NEW n \in Node, NEW r, NEW m, Touches(n, r, m)
    PROVE  /\ IsReplica(r) /\ Covered(r)
           /\ Joins(n, r) \/ Grows(store[n], r)
<1>t. IsReplica(store[n]) /\ Covered(store[n]) /\ now \in Nat
      /\ \A p \in Node : IsReplica(store[p])
  BY DEF TypeOK, StoresTyped, EntriesCovered
<1>1. CASE Joins(n, r)
  BY <1>1, <1>t, LoadedGrows DEF Joins, Grows
<1>2. CASE Writes(n, r)
  <2>1. PICK d \in Data \cup {Tombstone, NoData} : r = Put(store[n], n, n, d, now)
    BY <1>2 DEF Writes
  <2>2. Grows(store[n], r)
    BY <1>t, <2>1, PutGrows
  <2> QED
    BY <2>2 DEF Grows
<1>6. CASE Edits(n, r)
  <2>1. PICK t \in Table : r = ChangedInPlace(store[n], n, t)
    BY <1>6 DEF Edits
  <2>2. Relabels(store[n], r)
    BY <1>t, <2>1, ChangedInPlaceType DEF Relabels
  <2>3. Grows(store[n], r)
    BY <1>t, <2>2, RelabelGrows
  <2> QED
    BY <2>3 DEF Grows
<1>3. CASE Leaves(n, r)
  <2>1. Grows(store[n], r)
    BY <1>3, <1>t, RemoveGrows DEF Leaves
  <2> QED
    BY <2>1 DEF Grows
<1>4. CASE Cleans(n, r)
  <2>1. Grows(store[n], r)
    BY <1>4, <1>t, MarkGrows, PruneGrows DEF Cleans
  <2> QED
    BY <2>1 DEF Grows
<1>5. CASE Generates(n, r, m)
  <2>1. Grows(store[n], r)
    BY <1>5, <1>t, GenerateGrows DEF Generates
  <2> QED
    BY <2>1 DEF Grows
<1> QED
  BY <1>1, <1>2, <1>3, <1>4, <1>5, <1>6 DEF Touches

\* Every step keeps the entries covered.
LEMMA CoveredStep ==
    TypeOK /\ HandlersJoined /\ EndpointsInStep /\ EntriesCovered /\ [Next]_vars
        => EntriesCovered'
<1> SUFFICES ASSUME TypeOK, HandlersJoined, EndpointsInStep, EntriesCovered, [Next]_vars
             PROVE  EntriesCovered'
  OBVIOUS
<1>1. CASE TouchesNone
  BY <1>1 DEF TouchesNone, EntriesCovered
<1>2. ASSUME NEW n \in Node, NEW r, NEW m, Touches(n, r, m) PROVE EntriesCovered'
  <2>1. IsReplica(r) /\ Covered(r)
    BY <1>2, TouchGrows
  <2>2. store'[n] = r /\ \A k \in Node : k # n => store'[k] = store[k]
    BY <1>2, <2>1, SetStore DEF TypeOK, Touches
  <2> QED
    BY <2>1, <2>2 DEF EntriesCovered
<1> QED
  BY <1>1, <1>2, StepTouches

\* Merge, Prune and highestStale: whatever is merged, collected and brought back
\* by a late message, every entry of a replica is covered by a clock through
\* which Prune can find it stale, or was collected before.
THEOREM EntriesStayCovered == Spec => []EntriesCovered
<1>1. Init => EntriesCovered
  BY NewCovered DEF Init, EntriesCovered
<1>2. TypeOK /\ HandlersJoined /\ EndpointsInStep /\ EntriesCovered /\ [Next]_vars
        => EntriesCovered'
  BY CoveredStep
<1> QED
  BY <1>1, <1>2, TypeCorrect, OnlyMembersHandle, SessionsStayInStep, PTL DEF Spec
-----------------------------------------------------------------------------
(* What a step does to the clocks of one replica, when the mesh is in order   *)

\* The clocks of a node that joins: its own, and what it loaded.
Enters(n, r) ==
    /\ status[n] = "out" /\ store[n] = NewTwoPhaseMap
    /\ 0 < r.vectors[n].clock
    /\ \A k \in DOMAIN r.vectors \ {n} : r.vectors[k].clock <= Own[k]

\* Only the own clock advances.
Publishes(n, r) ==
    /\ n \in DOMAIN store[n].vectors
    /\ Own[n] < r.vectors[n].clock
    /\ DOMAIN r.vectors = DOMAIN store[n].vectors
    /\ \A k \in DOMAIN r.vectors \ {n} : r.vectors[k] = store[n].vectors[k]

\* Other clocks come nearer to their owners'.
Learns(n, r) ==
    /\ r.vectors[n].clock = Own[n]
    /\ \A k \in DOMAIN store[n].vectors :
        k \in DOMAIN r.vectors /\ store[n].vectors[k].clock <= r.vectors[k].clock
    /\ \A k \in DOMAIN r.vectors \ {n} : r.vectors[k].clock <= Own[k]

\* Other clocks are collected.
Forgets(n, r) ==
    /\ DOMAIN r.vectors \subseteq DOMAIN store[n].vectors
    /\ \A k \in DOMAIN r.vectors : r.vectors[k] = store[n].vectors[k]

\* A message of an open or closed session carries no clock beyond its owner's.
LEMMA MessagesUnder ==
    ASSUME SyncInOrder, NEW x \in Messages
    PROVE  UnderMsg(x, Own)
<1>1. PICK c \in Node : x \in {sync[c].msg, sync[c].cli.peerMsg, sync[c].srv.peerMsg}
  BY DEF Messages
<1>2. SessionInOrder(c)
  BY DEF SyncInOrder
<1> QED
  BY <1>1, <1>2 DEF SessionInOrder

\* The owners' clocks when one replica changes.
LEMMA OwnNext ==
    ASSUME TypeOK, TypeOK', NEW n \in Node, NEW r, IsReplica(r),
           store' = [store EXCEPT ![n] = r]
    PROVE  /\ store'[n] = r
           /\ \A k \in Node : k # n => store'[k] = store[k] /\ Own'[k] = Own[k]
           /\ n \in DOMAIN r.vectors => Own'[n] = r.vectors[n].clock
<1>1. store'[n] = r /\ \A k \in Node : k # n => store'[k] = store[k]
  BY SetStore DEF TypeOK
<1>2. \A k \in Node : k # n => OwnClock(k)' = OwnClock(k)
  BY <1>1 DEF OwnClock
<1>3. n \in DOMAIN r.vectors => OwnClock(n)' = r.vectors[n].clock
  BY <1>1 DEF OwnClock, At
<1> QED
  BY <1>1, <1>2, <1>3 DEF Own

\* What a state function leaves in the store.
LEMMA GenerateStore ==
    ASSUME NEW n \in Node, NEW e, e.state \in SyncState
    PROVE  LET s == store[n]
               r == GenerateMessage(e, n).store
           IN  \/ r = s
               \/ e.state = "PREPARE" /\ r = IncrementClock(s, n, now)
               \/ e.state = "PRESENT" /\ r = ClockMerge(s, DecodeState(e.peerMsg).vectors, now)
               \/ e.state = "MERGE" /\ r = Merge(s, DecodeSnapshot(e.peerMsg), now)
<1> DEFINE s == store[n]
<1>1. CASE e.state \in {"HASH", "EXCHANGE"}
  BY <1>1 DEF GenerateMessage, hash, exchange, Generated
<1>2. CASE e.state = "PREPARE"
  BY <1>2 DEF GenerateMessage, prepare, Generated
<1>3. CASE e.state = "PRESENT"
  BY <1>3 DEF GenerateMessage, present, Generated
<1>4. CASE e.state = "MERGE"
  BY <1>4 DEF GenerateMessage, merge, Generated
<1> QED
  BY <1>1, <1>2, <1>3, <1>4 DEF SyncState

\* Each way of touching a replica is one of these, for its clocks.
LEMMA TouchClocks ==
    ASSUME Rejoiners = {}, TypeOK, TypeOK', SyncInOrder, SyncInOrder', EntriesCovered,
           NEW n \in Node, NEW r, NEW m, Touches(n, r, m)
    PROVE  /\ IsReplica(r) /\ n \in DOMAIN r.vectors /\ status'[n] # "out"
           /\ Joins(n, r) => Enters(n, r)
           /\ Writes(n, r) \/ Leaves(n, r) => Publishes(n, r)
           /\ Cleans(n, r) \/ Edits(n, r) => Forgets(n, r)
           /\ Generates(n, r, m) => Publishes(n, r) \/ Learns(n, r) \/ Forgets(n, r)
<1> DEFINE s == store[n]
<1>t. /\ StoresTyped /\ StoresTyped' /\ now \in Nat /\ StoresInOrder /\ StoresInOrder'
      /\ \A p \in Node : IsReplica(store[p])
      /\ status \in [Node -> Status]
  BY DEF TypeOK, SyncInOrder, StoresTyped
<1>r. IsReplica(r)
  BY TouchGrows
<1>o. status'[n] # "out"
  BY <1>t DEF Touches, Joins, Writes, Edits, Leaves, Cleans, Generates, NobodyJoins, InMesh
<1>s. store' = [store EXCEPT ![n] = r]
  BY DEF Touches
<1>1. /\ store'[n] = r
      /\ \A k \in Node : k # n => store'[k] = store[k] /\ Own'[k] = Own[k]
      /\ n \in DOMAIN r.vectors => Own'[n] = r.vectors[n].clock
  BY <1>r, <1>s, OwnNext
<1>2. n \in DOMAIN r.vectors
  BY <1>1, <1>o, <1>t DEF StoresInOrder, Fresh
<1>3. \A k \in DOMAIN r.vectors \ {n} : k \in Node /\ r.vectors[k].clock <= Own[k]
  <2>1. Under(r, Own')
    BY <1>1, <1>t DEF StoresInOrder
  <2> QED
    BY <1>1, <1>r, <2>1, ReplicaNat DEF Under
<1>4. ASSUME Joins(n, r) PROVE Enters(n, r)
  <2>1. status[n] = "out"
    BY <1>4 DEF Joins
  <2>2. store[n] = NewTwoPhaseMap
    BY <1>t, <2>1 DEF StoresInOrder
  <2>3. 0 < r.vectors[n].clock
    <3>1. PICK q : IsReplica(q) /\ r = Put(q, n, n, FreshData, now)
      <4> DEFINE New == NewTwoPhaseMap
                 ld(p) == Merge(New, TakeSnapshot(store[p]), now)
      <4>1. r = Put(New, n, n, FreshData, now)
            \/ \E p \in Node : r = Put(ld(p), n, n, FreshData, now)
        BY <1>4 DEF Joins, Loaded
      <4>2. \A p \in Node : IsReplica(ld(p))
        <5> TAKE p \in Node
        <5>1. IsMapOf(store[p].add, Node, Bucket) /\ IsMapOf(store[p].remove, Node, Bucket)
          BY <1>t DEF IsReplica
        <5>2. IsReplica(Merge(New, [add |-> store[p].add, remove |-> store[p].remove], now))
          BY <1>t, <5>1, NewTwoPhaseMapType, MergeType
        <5> QED
          BY <5>2 DEF TakeSnapshot
      <4> HIDE DEF New, ld
      <4>3. IsReplica(New)
        BY NewTwoPhaseMapType DEF New
      <4> QED
        BY <4>1, <4>2, <4>3
    <3>2. 0 < r.add[n].Vector /\ r.add[n].Vector < r.vectors[n].clock /\ n \in DOMAIN r.add
      BY <1>t, <3>1, PutType, ConfigAssumption
    <3>3. r.add[n].Vector \in Nat /\ r.vectors[n].clock \in Nat
      BY <1>r, <1>2, <3>2, ReplicaNat
    <3> QED
      BY <3>2, <3>3
  <2> QED
    BY <1>3, <2>1, <2>2, <2>3 DEF Enters
<1>5. ASSUME status[n] # "out"
      PROVE  /\ n \in DOMAIN s.vectors /\ Own[n] = s.vectors[n].clock /\ IsReplica(s)
             /\ s.vectors[n].clock \in Nat
  BY <1>5, <1>t, MemberStore, ReplicaNat
<1>6. ASSUME Writes(n, r) PROVE Publishes(n, r)
  <2>1. PICK d \in Data \cup {Tombstone, NoData} : r = Put(s, n, n, d, now)
    BY <1>6 DEF Writes
  <2>2. now \in Nat /\ IsReplica(s)
    BY <1>t
  <2> HIDE DEF s
  <2>3. /\ DOMAIN r.vectors = DOMAIN s.vectors \cup {n}
        /\ \A k \in DOMAIN s.vectors \ {n} : r.vectors[k] = s.vectors[k]
        /\ r.add[n].Vector < r.vectors[n].clock
        /\ \A k \in DOMAIN s.vectors : s.vectors[k].clock < r.add[n].Vector
        /\ DOMAIN r.add = DOMAIN s.add \cup {n}
    <3> DEFINE x == Put(s, n, n, d, now)
    <3>1. /\ DOMAIN x.vectors = DOMAIN s.vectors \cup {n}
          /\ \A k \in DOMAIN s.vectors \ {n} : x.vectors[k] = s.vectors[k]
          /\ x.add[n].Vector < x.vectors[n].clock
          /\ \A k \in DOMAIN s.vectors : s.vectors[k].clock < x.add[n].Vector
          /\ DOMAIN x.add = DOMAIN s.add \cup {n}
      BY <2>2, PutType
    <3> HIDE DEF x
    <3>2. r = x
      BY <2>1 DEF x
    <3> QED
      BY <3>1, <3>2
  <2>4. /\ n \in DOMAIN s.vectors /\ Own[n] = s.vectors[n].clock
        /\ s.vectors[n].clock \in Nat
    BY <1>5, <1>6 DEF Writes
  <2>5. r.add[n].Vector \in Nat /\ r.vectors[n].clock \in Nat
    BY <1>r, <1>2, <2>3, ReplicaNat
  <2> QED
    BY <2>3, <2>4, <2>5 DEF Publishes, s
<1>7. ASSUME Leaves(n, r) PROVE Publishes(n, r)
  <2>1. /\ DOMAIN r.vectors = DOMAIN s.vectors \cup {n}
        /\ \A k \in DOMAIN s.vectors \ {n} : r.vectors[k] = s.vectors[k]
        /\ r.remove[n].Vector < r.vectors[n].clock
        /\ \A k \in DOMAIN s.vectors : s.vectors[k].clock <= r.remove[n].Vector
        /\ n \in DOMAIN r.remove
    BY <1>7, <1>t, RemoveType DEF Leaves
  <2>2. /\ n \in DOMAIN s.vectors /\ Own[n] = s.vectors[n].clock
        /\ s.vectors[n].clock \in Nat
    BY <1>5, <1>7 DEF Leaves, InMesh
  <2>3. r.remove[n].Vector \in Nat /\ r.vectors[n].clock \in Nat
    BY <1>r, <1>2, <2>1, ReplicaNat
  <2> QED
    BY <2>1, <2>2, <2>3 DEF Publishes
<1>8. ASSUME Cleans(n, r) PROVE Forgets(n, r)
  <2>1. CASE r = s \/ \E k : r = Mark(s, k)
    <3>1. r.vectors = s.vectors
      BY <1>t, <2>1, MarkType
    <3> QED
      BY <3>1 DEF Forgets
  <2>2. CASE r = Prune(s)
    BY <1>t, <2>2, PruneType DEF Forgets
  <2> QED
    BY <1>8, <2>1, <2>2 DEF Cleans
<1>10. ASSUME Edits(n, r) PROVE Forgets(n, r)
  <2>1. PICK t \in Table : r = ChangedInPlace(store[n], n, t)
    BY <1>10 DEF Edits
  <2>2. r.vectors = store[n].vectors
    BY <1>t, <2>1, ChangedInPlaceType
  <2> QED
    BY <2>2 DEF Forgets
<1>9. ASSUME Generates(n, r, m) PROVE Publishes(n, r) \/ Learns(n, r) \/ Forgets(n, r)
  <2>1. PICK e : /\ IsEndpoint(e) /\ e.peerMsg \in Messages
                 /\ r = GenerateMessage(e, n).store
    BY <1>9 DEF Generates
  <2>2. /\ n \in DOMAIN s.vectors /\ Own[n] = s.vectors[n].clock /\ IsReplica(s)
        /\ s.vectors[n].clock \in Nat
    BY <1>5, <1>9 DEF Generates
  <2>3. UnderMsg(e.peerMsg, Own)
    BY <2>1, MessagesUnder
  <2>4. IsMsg(e.peerMsg) /\ e.state \in SyncState
    BY <2>1 DEF IsEndpoint
  <2> DEFINE vs == DecodeState(e.peerMsg).vectors
             sn == DecodeSnapshot(e.peerMsg)
  <2>5. /\ Below(vs, Own) /\ BucketsBelow(sn.add, Own) /\ BucketsBelow(sn.remove, Own)
        /\ IsMapOf(vs, Node, Nat) /\ IsSnapshot(sn)
    BY <2>3, <2>4, DecodeUnder, DecodeType DEF IsMapState
  <2>6. ASSUME r = s PROVE Forgets(n, r)
    BY <2>6 DEF Forgets
  <2>7. ASSUME r = IncrementClock(s, n, now) PROVE Publishes(n, r)
    <3>1. MaxClock(s) \in Nat /\ \A k \in DOMAIN s.vectors : s.vectors[k].clock <= MaxClock(s)
      BY <2>2, MaxClockBounds
    <3>2. /\ DOMAIN r.vectors = DOMAIN s.vectors \cup {n}
          /\ r.vectors[n] = [clock |-> MaxClock(s) + 1, lastUpdate |-> now]
          /\ \A k \in DOMAIN s.vectors \ {n} : r.vectors[k] = s.vectors[k]
      BY <1>t, <2>2, <2>7, IncrementClockType
    <3>3. r.vectors[n].clock = MaxClock(s) + 1
      BY <3>2
    <3> QED
      BY <2>2, <3>1, <3>2, <3>3 DEF Publishes
  <2>8. ASSUME r = ClockMerge(s, vs, now) PROVE Learns(n, r)
    <3> HIDE DEF vs
    <3>1. \A k \in DOMAIN r.vectors :
                \/ k \in DOMAIN s.vectors /\ r.vectors[k] = s.vectors[k]
                \/ /\ k \in DOMAIN vs
                   /\ r.vectors[k].clock = vs[k] /\ r.vectors[k].lastUpdate = now
                   /\ k \in DOMAIN s.vectors => s.vectors[k].clock < vs[k]
      BY <1>t, <2>2, <2>5, <2>8, ClockMergeType
    <3>2. \A k \in DOMAIN s.vectors :
            k \in DOMAIN r.vectors /\ s.vectors[k].clock <= r.vectors[k].clock
      BY <1>t, <2>2, <2>5, <2>8, ClockMergeKeeps
    <3>3. n \in DOMAIN vs => vs[n] <= Own[n] /\ vs[n] \in Nat
      BY <2>5 DEF Below, IsMapOf
    <3>4. r.vectors[n].clock = Own[n]
      BY <1>2, <2>2, <3>1, <3>3
    <3> QED
      BY <1>3, <3>2, <3>4 DEF Learns
  <2>9. ASSUME r = Merge(s, sn, now) PROVE Learns(n, r)
    <3> DEFINE a == sn.add
               d == sn.remove
    <3>0. /\ IsMapOf(a, Node, Bucket) /\ IsMapOf(d, Node, Bucket)
          /\ r = Merge(s, [add |-> a, remove |-> d], now)
          /\ BucketsBelow(a, Own) /\ BucketsBelow(d, Own)
      BY <2>5, <2>9 DEF IsSnapshot
    <3> HIDE DEF a, d, sn
    <3>1. \A k \in DOMAIN r.vectors :
            \/ k \in DOMAIN s.vectors /\ r.vectors[k] = s.vectors[k]
            \/ /\ r.vectors[k].lastUpdate = now
               /\ \/ k \in DOMAIN a /\ r.vectors[k].clock = a[k].Vector
                  \/ k \in DOMAIN d /\ r.vectors[k].clock = d[k].Vector
               /\ k \in DOMAIN s.vectors => s.vectors[k].clock < r.vectors[k].clock
      BY <1>t, <2>2, <3>0, MergeType
    <3>2. \A k \in DOMAIN s.vectors :
            k \in DOMAIN r.vectors /\ s.vectors[k].clock <= r.vectors[k].clock
      BY <1>t, <2>2, <3>0, MergeKeeps
    <3>3. /\ n \in DOMAIN a => a[n].Vector <= Own[n] /\ a[n].Vector \in Nat
          /\ n \in DOMAIN d => d[n].Vector <= Own[n] /\ d[n].Vector \in Nat
      BY <3>0 DEF BucketsBelow, IsMapOf, Bucket
    <3>4. r.vectors[n].clock = Own[n]
      BY <1>2, <2>2, <3>1, <3>3
    <3> QED
      BY <1>3, <3>2, <3>4 DEF Learns
  <2>10. \/ r = s \/ r = IncrementClock(s, n, now)
         \/ r = ClockMerge(s, vs, now) \/ r = Merge(s, sn, now)
    BY <2>1, <2>4, GenerateStore
  <2> QED
    BY <2>6, <2>7, <2>8, <2>9, <2>10
<1> QED
  BY <1>2, <1>4, <1>6, <1>7, <1>8, <1>9, <1>10, <1>o, <1>r
-----------------------------------------------------------------------------
(* MeshSync implements MeshRegisters                                         *)

\* What replica n knows of k, once the store is typed.
LEMMA SeenType ==
    ASSUME StoresTyped
    PROVE  /\ \A n, k \in Node : Seen[n][k] \in Nat
           /\ \A n, k \in Node : k \in DOMAIN store[n].vectors =>
                Seen[n][k] = store[n].vectors[k].clock
           /\ \A n, k \in Node : k \notin DOMAIN store[n].vectors => Seen[n][k] = 0
           /\ \A n \in Node : Seen[n][n] = Own[n]
<1>1. \A n \in Node : \A k \in DOMAIN store[n].vectors : store[n].vectors[k].clock \in Nat
  BY ReplicaNat DEF StoresTyped
<1>2. \A n, k \in Node : Seen[n][k] = At(store[n].vectors, k, ZeroVector).clock
  BY DEF Seen
<1>3. \A n, k \in Node : k \in DOMAIN store[n].vectors =>
                Seen[n][k] = store[n].vectors[k].clock
  BY <1>2 DEF At
<1>4. \A n, k \in Node : k \notin DOMAIN store[n].vectors => Seen[n][k] = 0
  BY <1>2 DEF At, ZeroVector
<1>5. \A n \in Node : Seen[n][n] = Own[n]
  BY <1>2 DEF Own, OwnClock
<1> QED
  BY <1>1, <1>3, <1>4, <1>5

\* A step of the mesh is a step of one register's replica, or none.
LEMMA RegistersStep ==
    ASSUME Rejoiners = {}, TypeOK, TypeOK', HandlersJoined, EndpointsInStep,
           EntriesCovered, SyncInOrder, SyncInOrder', [Next]_vars
    PROVE  [Registers!Next]_Seen
<1>t. StoresTyped /\ StoresTyped'
  BY DEF TypeOK
<1>1. CASE TouchesNone
  <2>1. Seen' = Seen
    BY <1>1 DEF TouchesNone, Seen
  <2> QED
    BY <2>1
<1>2. ASSUME NEW n \in Node, NEW r, NEW m, Touches(n, r, m) PROVE Registers!Next
  <2>1. /\ IsReplica(r) /\ n \in DOMAIN r.vectors
        /\ Enters(n, r) \/ Publishes(n, r) \/ Learns(n, r) \/ Forgets(n, r)
    BY <1>2, TouchClocks DEF Touches
  <2>2. store' = [store EXCEPT ![n] = r]
    BY <1>2 DEF Touches
  <2>3. /\ store'[n] = r
        /\ \A k \in Node : k # n => store'[k] = store[k]
    BY <2>1, <2>2, OwnNext
  <2>4. \A o \in Node \ {n} : Seen'[o] = Seen[o]
    BY <2>3 DEF Seen
  <2>5. /\ \A k \in Node : Seen[n][k] \in Nat
        /\ \A k \in Node : k \in DOMAIN store[n].vectors =>
             Seen[n][k] = store[n].vectors[k].clock
        /\ \A k \in Node : k \notin DOMAIN store[n].vectors => Seen[n][k] = 0
        /\ \A k \in Node : Seen[k][k] = Own[k]
        /\ \A k \in Node : Own[k] \in Nat
    BY <1>t, SeenType, OwnType
  <2>6. /\ \A k \in Node : k \in DOMAIN r.vectors => Seen'[n][k] = r.vectors[k].clock
        /\ \A k \in Node : k \notin DOMAIN r.vectors => Seen'[n][k] = 0
    <3>1. \A k \in Node : Seen'[n][k] = At(r.vectors, k, ZeroVector).clock
      BY <2>3 DEF Seen
    <3> QED
      BY <3>1 DEF At, ZeroVector
  <2>7. \A k \in DOMAIN r.vectors : k \in Node /\ r.vectors[k].clock \in Nat
    BY <2>1, ReplicaNat
  <2>8. \A k \in DOMAIN store[n].vectors : k \in Node /\ store[n].vectors[k].clock \in Nat
    BY <1>t, ReplicaNat DEF StoresTyped
  <2>9. CASE Enters(n, r)
    <3>1. DOMAIN store[n].vectors = {}
      BY <2>9, EmptyMapType DEF Enters, NewTwoPhaseMap
    <3>2. \A k \in Node : Seen[n][k] = 0
      BY <2>5, <3>1
    <3>3. Seen'[n][n] > 0
      BY <2>1, <2>6, <2>7, <2>9 DEF Enters
    <3>4. \A k \in Node \ {n} : Seen[n][k] <= Seen'[n][k] /\ Seen'[n][k] <= Seen[k][k]
      BY <2>5, <2>6, <2>7, <2>9, <3>2 DEF Enters
    <3>5. Registers!Enter(n)
      BY <3>2, <3>3, <3>4 DEF Registers!Enter, Registers!CatchesUp
    <3> QED
      BY <2>4, <3>5 DEF Registers!Next
  <2>10. CASE Publishes(n, r)
    <3>1. Seen'[n][n] > Seen[n][n]
      BY <2>1, <2>5, <2>6, <2>7, <2>10 DEF Publishes
    <3>2. \A k \in Node \ {n} : Seen'[n][k] = Seen[n][k]
      BY <2>5, <2>6, <2>10 DEF Publishes
    <3>3. Registers!Publish(n)
      BY <3>1, <3>2 DEF Registers!Publish
    <3> QED
      BY <2>4, <3>3 DEF Registers!Next
  <2>11. CASE Learns(n, r)
    <3>1. Seen'[n][n] = Seen[n][n]
      BY <2>1, <2>5, <2>6, <2>11 DEF Learns
    <3>2. ASSUME NEW k \in Node \ {n}
          PROVE  Seen[n][k] <= Seen'[n][k] /\ Seen'[n][k] <= Seen[k][k]
      <4>1. CASE k \in DOMAIN store[n].vectors
        BY <2>5, <2>6, <2>7, <2>11, <4>1 DEF Learns
      <4>2. CASE k \notin DOMAIN store[n].vectors
        BY <2>5, <2>6, <2>7, <2>11, <4>2 DEF Learns
      <4> QED
        BY <4>1, <4>2
    <3>3. Registers!Learn(n)
      BY <3>1, <3>2 DEF Registers!Learn, Registers!CatchesUp
    <3> QED
      BY <2>4, <3>3 DEF Registers!Next
  <2>12. CASE Forgets(n, r)
    <3>1. Seen'[n][n] = Seen[n][n]
      BY <2>1, <2>5, <2>6, <2>12 DEF Forgets
    <3>2. \A k \in Node \ {n} : Seen'[n][k] \in {0, Seen[n][k]}
      BY <2>5, <2>6, <2>12 DEF Forgets
    <3>3. Registers!Forget(n)
      BY <3>1, <3>2 DEF Registers!Forget
    <3> QED
      BY <2>4, <3>3 DEF Registers!Next
  <2> QED
    BY <2>1, <2>9, <2>10, <2>11, <2>12
<1> QED
  BY <1>1, <1>2, StepTouches

\* The clocks of the store under sessions, updates, joins, leaves, crashes,
\* broken streams and garbage collection behave like registers that only their
\* owners advance, in a mesh of any size, for sessions no longer than StaleTime
\* and nodes that do not come back with a key that they used before.
THEOREM ClocksAreRegisters ==
    ASSUME SyncInterval <= StaleTime, Rejoiners = {}
    PROVE  Spec => ImplementsRegisters
<1>1. Init => Registers!Init
  <2> SUFFICES ASSUME Init PROVE Registers!Init
    OBVIOUS
  <2>1. \A n, k \in Node : At(store[n].vectors, k, ZeroVector).clock = 0
    BY EmptyMapType DEF Init, NewTwoPhaseMap, At, ZeroVector
  <2> QED
    BY <2>1 DEF Registers!Init, Seen
<1>2. /\ TypeOK /\ TypeOK' /\ HandlersJoined /\ EndpointsInStep /\ EntriesCovered
      /\ SyncInOrder /\ SyncInOrder' /\ [Next]_vars
      => [Registers!Next]_Seen
  BY RegistersStep
<1>3. Spec => []TypeOK
  BY TypeCorrect
<1>4. Spec => []EndpointsInStep
  BY SessionsStayInStep
<1>5. Spec => []EntriesCovered
  BY EntriesStayCovered
<1>6. Spec => []SyncInOrder
  BY MeshInOrder
<1> QED
  BY <1>1, <1>2, <1>3, <1>4, <1>5, <1>6, OnlyMembersHandle, PTL
     DEF Spec, ImplementsRegisters, Registers!Spec
-----------------------------------------------------------------------------
(* Versions identify data, and removals are final                            *)

\* A bucket for k whose version and contents are those of a map there is.
KnownAdd(k, b) ==
    \E f \in AddMaps : /\ k \in DOMAIN f
                       /\ f[k].Vector = b.Vector /\ f[k].Contents = b.Contents
KnownRemove(k, b) ==
    \E g \in RemoveMaps : k \in DOMAIN g /\ g[k].Vector = b.Vector

IsZero(b) == b.Vector = 0 /\ b.Contents = NoData

\* Node n publishes a version: it is behind the clock it has then, and beyond
\* everything it published before; after its removal only a raced node does.
NewVersion(n, r) ==
    /\ Own[n] <= r.add[n].Vector
    /\ n \notin DOMAIN store[n].remove \/ n \in raced

\* A step keeps the version of its own that n has, with the data, or with a
\* handler that is about to put the data anew.
SameVersion(n, r) ==
    /\ n \in DOMAIN store[n].add
    /\ r.add[n].Vector = store[n].add[n].Vector
    /\ \/ r.add[n].Contents = store[n].add[n].Contents
       \/ Changing(n)'

\* The entries of the replica of n after a step: what was known, and its own.
AddsKnown(n, r) ==
    /\ \A k \in DOMAIN r.add \ {n} : 0 < r.add[k].Vector /\ KnownAdd(k, r.add[k])
    /\ n \in DOMAIN r.add
    /\ 0 < r.add[n].Vector /\ r.add[n].Vector < r.vectors[n].clock
    /\ SameVersion(n, r) \/ NewVersion(n, r)

\* Likewise for removals.
RemovesKnown(n, r) ==
    \A k \in DOMAIN r.remove :
        /\ 0 < r.remove[k].Vector
        /\ \/ KnownRemove(k, r.remove[k])
           \/ k = n /\ Leaves(n, r) /\ Own[n] <= r.remove[k].Vector

\* The maps of the stores, and of the messages, are among the maps.
LEMMA MapsOf ==
    /\ \A n \in Node : store[n].add \in AddMaps /\ store[n].remove \in RemoveMaps
    /\ \A x \in Messages : /\ DecodeSnapshot(x).add \in AddMaps
                           /\ DecodeSnapshot(x).remove \in RemoveMaps
BY DEF AddMaps, RemoveMaps

\* A node's own entry is behind its clock.
LEMMA OwnVersion ==
    ASSUME TypeOK, VersionsInOrder, NEW n \in Node, n \in DOMAIN store[n].add
    PROVE  /\ 0 < store[n].add[n].Vector /\ store[n].add[n].Vector < Own[n]
           /\ store[n].add[n].Vector \in Nat /\ Own[n] \in Nat
<1>1. store[n].add \in AddMaps /\ store[n].add[n].Vector > 0
  BY MapsOf DEF VersionsInOrder, OwnEntryKept
<1>2. store[n].add[n].Vector \in Nat /\ Own[n] \in Nat
  BY ReplicaNat, OwnType DEF TypeOK, StoresTyped
<1> QED
  BY <1>1, <1>2 DEF VersionsInOrder, VersionsUnique

\* A replica with the entries of the one before, and its own version.
LEMMA SameAddsKnown ==
    ASSUME TypeOK, VersionsInOrder, NEW n \in Node, NEW r,
           n \in DOMAIN store[n].add, n \in DOMAIN r.add,
           Own[n] <= r.vectors[n].clock, r.vectors[n].clock \in Nat,
           \A k \in DOMAIN r.add \ {n} : /\ k \in DOMAIN store[n].add
                                         /\ r.add[k].Vector = store[n].add[k].Vector
                                         /\ r.add[k].Contents = store[n].add[k].Contents,
           r.add[n].Vector = store[n].add[n].Vector,
           r.add[n].Contents = store[n].add[n].Contents \/ Changing(n)'
    PROVE  AddsKnown(n, r)
<1>1. store[n].add \in AddMaps
  BY MapsOf
<1>2. \A k \in DOMAIN store[n].add : store[n].add[k].Vector > 0
  BY DEF VersionsInOrder, OwnEntryKept
<1>3. \A k \in DOMAIN r.add \ {n} : 0 < r.add[k].Vector /\ KnownAdd(k, r.add[k])
  BY <1>1, <1>2 DEF KnownAdd
<1>4. 0 < r.add[n].Vector /\ r.add[n].Vector < r.vectors[n].clock
  BY OwnVersion
<1> QED
  BY <1>3, <1>4 DEF AddsKnown, SameVersion

\* A replica with the removals of the one before.
LEMMA SameRemovesKnown ==
    ASSUME NEW n \in Node, NEW r, OwnEntryKept,
           \A k \in DOMAIN r.remove : /\ k \in DOMAIN store[n].remove
                                      /\ r.remove[k] = store[n].remove[k]
    PROVE  RemovesKnown(n, r)
<1> SUFFICES ASSUME NEW k \in DOMAIN r.remove
             PROVE  0 < r.remove[k].Vector /\ KnownRemove(k, r.remove[k])
  BY DEF RemovesKnown
<1>1. store[n].remove \in RemoveMaps
  BY MapsOf
<1>2. store[n].remove[k].Vector > 0
  BY DEF OwnEntryKept
<1> QED
  BY <1>1, <1>2 DEF KnownRemove

\* GMap.Merge of known maps gives known entries.
LEMMA MergeKnown ==
    ASSUME NEW n \in Node, NEW s, NEW a, NEW d,
           IsMapOf(s.add, Node, Bucket), IsMapOf(s.remove, Node, Bucket),
           IsMapOf(a, Node, Bucket), IsMapOf(d, Node, Bucket),
           s.add \in AddMaps \cup {EmptyMap}, s.remove \in RemoveMaps \cup {EmptyMap},
           a \in AddMaps, d \in RemoveMaps,
           \A k \in DOMAIN s.add : 0 < s.add[k].Vector,
           \A k \in DOMAIN s.remove : 0 < s.remove[k].Vector
    PROVE  /\ \A k \in DOMAIN GMapMerge(s.add, a) :
                /\ 0 < GMapMerge(s.add, a)[k].Vector
                /\ KnownAdd(k, GMapMerge(s.add, a)[k])
           /\ \A k \in DOMAIN GMapMerge(s.remove, d) :
                /\ 0 < GMapMerge(s.remove, d)[k].Vector
                /\ KnownRemove(k, GMapMerge(s.remove, d)[k])
<1>0. DOMAIN EmptyMap = {}
  BY EmptyMapType
<1> DEFINE x == GMapMerge(s.add, a)
           y == GMapMerge(s.remove, d)
<1>1. \A k \in DOMAIN x : \/ k \in DOMAIN s.add /\ x[k] = s.add[k]
                          \/ k \in DOMAIN a /\ x[k] = a[k] /\ 0 < a[k].Vector
  BY GMapMergeKeeps
<1>2. \A k \in DOMAIN y : \/ k \in DOMAIN s.remove /\ y[k] = s.remove[k]
                          \/ k \in DOMAIN d /\ y[k] = d[k] /\ 0 < d[k].Vector
  BY GMapMergeKeeps
<1> HIDE DEF x, y
<1>3. \A k \in DOMAIN x : 0 < x[k].Vector /\ KnownAdd(k, x[k])
  BY <1>0, <1>1 DEF KnownAdd
<1>4. \A k \in DOMAIN y : 0 < y[k].Vector /\ KnownRemove(k, y[k])
  BY <1>0, <1>2 DEF KnownRemove
<1> QED
  BY <1>3, <1>4 DEF x, y

\* A member that is in its own map has not removed itself, unless it was raced.
LEMMA MemberNotRemoved ==
    ASSUME StoresTyped, VersionsInOrder, NEW n \in Node, Contains(store[n], n)
    PROVE  n \notin DOMAIN store[n].remove \/ n \in raced
<1> SUFFICES ASSUME n \in DOMAIN store[n].remove, n \notin raced PROVE FALSE
  OBVIOUS
<1>1. store[n].remove[n].Vector > 0
  BY DEF VersionsInOrder, OwnEntryKept
<1>2. store[n].add[n].Vector < store[n].remove[n].Vector
  BY <1>1, MapsOf DEF VersionsInOrder, RemovalsNewer, Contains
<1>3. store[n].add[n].Vector >= store[n].remove[n].Vector
  BY DEF Contains
<1>4. /\ \A k \in DOMAIN store[n].add : store[n].add[k].Vector \in Nat
      /\ \A k \in DOMAIN store[n].remove : store[n].remove[k].Vector \in Nat
  BY ReplicaNat DEF StoresTyped
<1> QED
  BY <1>2, <1>3, <1>4 DEF Contains

\* Put, on a replica of which everything is known.
LEMMA PutKnown ==
    ASSUME NEW n \in Node, NEW q, IsReplica(q), NEW t \in Nat,
           NEW d \in Data \cup {Tombstone, NoData},
           n \notin DOMAIN store[n].remove \/ n \in raced,
           Own[n] = 0 \/ (n \in DOMAIN q.vectors /\ Own[n] = q.vectors[n].clock),
           \A k \in DOMAIN q.add : 0 < q.add[k].Vector /\ KnownAdd(k, q.add[k])
    PROVE  LET r == Put(q, n, n, d, t)
           IN  /\ AddsKnown(n, r)
               /\ NewVersion(n, r)
               /\ r.remove = q.remove
<1> DEFINE r == Put(q, n, n, d, t)
<1>1. /\ IsReplica(r)
      /\ DOMAIN r.vectors = DOMAIN q.vectors \cup {n}
      /\ 0 < r.add[n].Vector
      /\ r.add[n].Vector < r.vectors[n].clock
      /\ \A k \in DOMAIN q.vectors : q.vectors[k].clock < r.add[n].Vector
      /\ DOMAIN r.add = DOMAIN q.add \cup {n}
      /\ \A k \in DOMAIN q.add \ {n} : r.add[k] = q.add[k]
      /\ r.remove = q.remove
  BY PutType
<1> HIDE DEF r
<1>2. r.add[n].Vector \in Nat /\ \A k \in DOMAIN q.vectors : q.vectors[k].clock \in Nat
  BY <1>1, ReplicaNat
<1>3. NewVersion(n, r)
  BY <1>1, <1>2 DEF NewVersion
<1>4. AddsKnown(n, r)
  BY <1>1, <1>3 DEF AddsKnown
<1> QED
  BY <1>1, <1>3, <1>4 DEF r

\* A node that joins publishes its first version, and knows what it loaded.
LEMMA JoinsKnown ==
    ASSUME TypeOK, SyncInOrder, VersionsInOrder, NEW n \in Node, NEW r,
           status[n] = "out",
           \/ r = Put(NewTwoPhaseMap, n, n, FreshData, now)
           \/ \E p \in Node : r = Loaded(n, p)
    PROVE  /\ AddsKnown(n, r) /\ NewVersion(n, r)
           /\ RemovesKnown(n, r)
           /\ n \notin DOMAIN r.remove
           /\ DOMAIN store[n].remove = {}
<1> DEFINE New == NewTwoPhaseMap
<1>t. /\ StoresTyped /\ now \in Nat /\ StoresInOrder
      /\ \A p \in Node : IsReplica(store[p])
      /\ FreshData \in Data \cup {Tombstone, NoData}
  BY ConfigAssumption DEF TypeOK, SyncInOrder, StoresTyped
<1>0. Own[n] = 0 /\ store[n] = New
  BY <1>t, OutStore
<1>1. /\ IsReplica(New) /\ New.add = EmptyMap /\ New.remove = EmptyMap
      /\ DOMAIN New.add = {} /\ DOMAIN New.remove = {}
  BY NewTwoPhaseMapType, EmptyMapType DEF NewTwoPhaseMap
<1> HIDE DEF New
<1>2. PICK q : /\ r = Put(q, n, n, FreshData, now)
               /\ IsReplica(q)
               /\ \A k \in DOMAIN q.add : 0 < q.add[k].Vector /\ KnownAdd(k, q.add[k])
               /\ \A k \in DOMAIN q.remove : 0 < q.remove[k].Vector /\ KnownRemove(k, q.remove[k])
  <2>1. CASE r = Put(NewTwoPhaseMap, n, n, FreshData, now)
    BY <1>1, <2>1 DEF New
  <2>2. ASSUME NEW p \in Node, r = Loaded(n, p)
        PROVE  \E q : /\ r = Put(q, n, n, FreshData, now)
                      /\ IsReplica(q)
                      /\ \A k \in DOMAIN q.add : 0 < q.add[k].Vector /\ KnownAdd(k, q.add[k])
                      /\ \A k \in DOMAIN q.remove :
                            0 < q.remove[k].Vector /\ KnownRemove(k, q.remove[k])
    <3> DEFINE a == store[p].add
               d == store[p].remove
               q == Merge(New, [add |-> a, remove |-> d], now)
    <3>1. /\ IsMapOf(a, Node, Bucket) /\ IsMapOf(d, Node, Bucket)
          /\ IsMapOf(New.add, Node, Bucket) /\ IsMapOf(New.remove, Node, Bucket)
      BY <1>1, <1>t DEF IsReplica
    <3>2. a \in AddMaps /\ d \in RemoveMaps
      BY MapsOf
    <3>3. r = Put(q, n, n, FreshData, now)
      BY <2>2 DEF Loaded, TakeSnapshot, New
    <3> HIDE DEF a, d
    <3>4. IsReplica(q) /\ q.add = GMapMerge(New.add, a) /\ q.remove = GMapMerge(New.remove, d)
      BY <1>1, <1>t, <3>1, MergeType
    <3> HIDE DEF q
    <3>5. /\ \A k \in DOMAIN GMapMerge(New.add, a) :
                /\ 0 < GMapMerge(New.add, a)[k].Vector
                /\ KnownAdd(k, GMapMerge(New.add, a)[k])
          /\ \A k \in DOMAIN GMapMerge(New.remove, d) :
                /\ 0 < GMapMerge(New.remove, d)[k].Vector
                /\ KnownRemove(k, GMapMerge(New.remove, d)[k])
      BY <1>1, <3>1, <3>2, MergeKnown
    <3> QED
      BY <3>3, <3>4, <3>5
  <2> QED
    BY <2>1, <2>2
<1>3. n \notin DOMAIN store[n].remove /\ DOMAIN store[n].remove = {}
  BY <1>0, <1>1
<1> DEFINE x == Put(q, n, n, FreshData, now)
<1>4. /\ AddsKnown(n, x) /\ NewVersion(n, x)
      /\ x.remove = q.remove
  BY <1>0, <1>2, <1>3, <1>t, PutKnown
<1>5. r = x
  BY <1>2
<1> HIDE DEF x
<1>6. RemovesKnown(n, r)
  BY <1>2, <1>4, <1>5 DEF RemovesKnown
<1>7. n \notin DOMAIN q.remove
  <2> SUFFICES ASSUME n \in DOMAIN q.remove PROVE FALSE
    OBVIOUS
  <2>1. PICK g \in RemoveMaps : n \in DOMAIN g /\ g[n].Vector > 0
    BY <1>2 DEF KnownRemove
  <2> QED
    BY <1>3, <2>1 DEF VersionsInOrder, RemovalsNewer
<1> QED
  BY <1>3, <1>4, <1>5, <1>6, <1>7

\* A handler that puts publishes a new version.
LEMMA WritesKnown ==
    ASSUME TypeOK, SyncInOrder, VersionsInOrder, NEW n \in Node, NEW r, Writes(n, r)
    PROVE  /\ AddsKnown(n, r) /\ NewVersion(n, r)
           /\ RemovesKnown(n, r)
           /\ r.remove = store[n].remove
<1> DEFINE s == store[n]
<1>t. /\ StoresTyped /\ now \in Nat /\ StoresInOrder /\ IsReplica(s)
      /\ OwnEntryKept
  BY DEF TypeOK, SyncInOrder, StoresTyped, VersionsInOrder
<1>1. status[n] # "out" /\ Handled(n)
  BY DEF Writes
<1>2. n \notin DOMAIN s.remove \/ n \in raced
  BY <1>1 DEF VersionsInOrder, UpdatesInOrder
<1>3. n \in DOMAIN s.vectors /\ Own[n] = s.vectors[n].clock
  BY <1>1, <1>t, MemberStore
<1>4. PICK d \in Data \cup {Tombstone, NoData} : r = Put(s, n, n, d, now)
  BY DEF Writes
<1>5. \A k \in DOMAIN s.add : 0 < s.add[k].Vector /\ KnownAdd(k, s.add[k])
  <2>1. s.add \in AddMaps /\ \A k \in DOMAIN s.add : s.add[k].Vector > 0
    BY <1>t, MapsOf DEF OwnEntryKept
  <2> HIDE DEF s
  <2> QED
    BY <2>1 DEF KnownAdd
<1> DEFINE x == Put(s, n, n, d, now)
<1>6. /\ AddsKnown(n, x) /\ NewVersion(n, x)
      /\ x.remove = s.remove
  BY <1>2, <1>3, <1>5, <1>t, PutKnown
<1>7. r = x
  BY <1>4
<1> HIDE DEF x
<1>8. r.remove = s.remove /\ AddsKnown(n, r) /\ NewVersion(n, r)
  BY <1>6, <1>7
<1>9. RemovesKnown(n, r)
  BY <1>8, <1>t, SameRemovesKnown
<1> QED
  BY <1>8, <1>9

\* A handler that changes the entry in place leaves the version to a Put.
LEMMA EditsKnown ==
    ASSUME TypeOK, SyncInOrder, VersionsInOrder, NEW n \in Node, NEW r, Edits(n, r)
    PROVE  /\ AddsKnown(n, r) /\ SameVersion(n, r)
           /\ RemovesKnown(n, r)
           /\ r.remove = store[n].remove
<1> DEFINE s == store[n]
<1>t. /\ StoresTyped /\ now \in Nat /\ StoresInOrder /\ IsReplica(s) /\ OwnEntryKept
  BY DEF TypeOK, SyncInOrder, StoresTyped, VersionsInOrder
<1>1. status[n] # "out" /\ Changing(n)'
  BY DEF Edits
<1>2. n \in DOMAIN s.add
  BY <1>1, <1>t DEF OwnEntryKept
<1>3. n \in DOMAIN s.vectors /\ Own[n] = s.vectors[n].clock /\ s.vectors[n].clock \in Nat
  BY <1>1, <1>t, MemberStore, ReplicaNat
<1>4. PICK t \in Table : r = ChangedInPlace(s, n, t)
  BY DEF Edits
<1> DEFINE x == ChangedInPlace(s, n, t)
<1>5. /\ x.vectors = s.vectors /\ x.remove = s.remove /\ DOMAIN x.add = DOMAIN s.add
      /\ \A k \in DOMAIN s.add : /\ x.add[k].Vector = s.add[k].Vector
                                 /\ k # n => x.add[k] = s.add[k]
  BY <1>t, ChangedInPlaceType
<1>6. r = x
  BY <1>4
<1> HIDE DEF x, s
<1>7. /\ \A k \in DOMAIN r.add \ {n} : /\ k \in DOMAIN s.add
                                       /\ r.add[k].Vector = s.add[k].Vector
                                       /\ r.add[k].Contents = s.add[k].Contents
      /\ n \in DOMAIN r.add /\ r.add[n].Vector = s.add[n].Vector
      /\ r.vectors[n].clock \in Nat /\ Own[n] <= r.vectors[n].clock /\ r.remove = s.remove
  BY <1>2, <1>3, <1>5, <1>6
<1>8. AddsKnown(n, r)
  BY <1>1, <1>2, <1>7, SameAddsKnown DEF s
<1>9. RemovesKnown(n, r)
  BY <1>7, <1>t, SameRemovesKnown DEF s
<1>10. SameVersion(n, r)
  BY <1>1, <1>2, <1>7 DEF SameVersion, s
<1> QED
  BY <1>7, <1>8, <1>9, <1>10 DEF s

\* A member that leaves publishes its removal.
LEMMA LeavesKnown ==
    ASSUME TypeOK, SyncInOrder, VersionsInOrder, NEW n \in Node, NEW r, Leaves(n, r)
    PROVE  /\ AddsKnown(n, r) /\ SameVersion(n, r)
           /\ RemovesKnown(n, r)
           /\ \A k \in DOMAIN store[n].remove : k \in DOMAIN r.remove
           /\ n \in DOMAIN r.remove
<1> DEFINE s == store[n]
<1>t. /\ StoresTyped /\ now \in Nat /\ StoresInOrder /\ IsReplica(s)
      /\ OwnEntryKept /\ VersionsUnique
  BY DEF TypeOK, SyncInOrder, StoresTyped, VersionsInOrder
<1>1. Contains(s, n) /\ status[n] # "out" /\ r = Remove(s, n, n, now)
  BY DEF Leaves, InMesh
<1>2. n \in DOMAIN s.vectors /\ Own[n] = s.vectors[n].clock
  BY <1>1, <1>t, MemberStore
<1> HIDE DEF s
<1>3. /\ \A k \in DOMAIN s.vectors : s.vectors[k].clock <= r.remove[n].Vector
      /\ DOMAIN r.vectors = DOMAIN s.vectors \cup {n}
      /\ r.remove[n].Vector < r.vectors[n].clock
      /\ DOMAIN r.remove = DOMAIN s.remove \cup {n}
      /\ \A k \in DOMAIN s.remove \ {n} : r.remove[k] = s.remove[k]
      /\ r.add = s.add
      /\ IsReplica(r)
  BY <1>1, <1>t, RemoveType
<1>4. n \in DOMAIN r.add
  BY <1>1, <1>3 DEF Contains
<1>11. r.vectors[n].clock \in Nat /\ r.remove[n].Vector \in Nat /\ Own[n] \in Nat
  BY <1>3, <1>t, ReplicaNat, OwnType
<1>12. Own[n] <= r.vectors[n].clock
  BY <1>2, <1>3, <1>11
<1>5. AddsKnown(n, r)
  BY <1>3, <1>4, <1>11, <1>12, SameAddsKnown DEF s
<1>13. SameVersion(n, r)
  BY <1>3, <1>4 DEF SameVersion, s
<1>6. Own[n] <= r.remove[n].Vector
  BY <1>2, <1>3
<1>7. 0 < Own[n]
  BY <1>3, <1>4, OwnVersion DEF s
<1>8. Own[n] \in Nat /\ r.remove[n].Vector \in Nat
  BY <1>3, <1>t, OwnType, ReplicaNat
<1>9. ASSUME NEW k \in DOMAIN r.remove
      PROVE  /\ 0 < r.remove[k].Vector
             /\ \/ KnownRemove(k, r.remove[k])
                \/ k = n /\ Leaves(n, r) /\ Own[n] <= r.remove[k].Vector
  <2>1. CASE k = n
    BY <1>6, <1>7, <1>8, <2>1
  <2>2. CASE k # n
    <3>1. k \in DOMAIN s.remove /\ r.remove[k] = s.remove[k]
      BY <1>3, <2>2
    <3>2. s.remove \in RemoveMaps /\ s.remove[k].Vector > 0
      BY <1>t, <3>1, MapsOf DEF OwnEntryKept, s
    <3> QED
      BY <3>1, <3>2 DEF KnownRemove
  <2> QED
    BY <2>1, <2>2
<1>10. RemovesKnown(n, r)
  BY <1>9 DEF RemovesKnown
<1> QED
  BY <1>3, <1>4, <1>5, <1>10, <1>13 DEF s

\* Marking and collecting change no version; an entry is collected with its
\* removal.
LEMMA CleansKnown ==
    ASSUME TypeOK, SyncInOrder, VersionsInOrder, NEW n \in Node, NEW r, Cleans(n, r),
           n \in DOMAIN r.vectors
    PROVE  /\ AddsKnown(n, r) /\ SameVersion(n, r)
           /\ r.add[n].Contents = store[n].add[n].Contents
           /\ RemovesKnown(n, r)
           /\ n \in DOMAIN store[n].remove => n \in DOMAIN r.remove
           /\ n \in DOMAIN r.remove => n \in DOMAIN store[n].remove
           /\ \A k \in DOMAIN store[n].remove : k \in DOMAIN r.remove \/ k \notin DOMAIN r.add
<1> DEFINE s == store[n]
<1>t. /\ StoresTyped /\ now \in Nat /\ StoresInOrder /\ IsReplica(s)
      /\ OwnEntryKept /\ VersionsUnique
  BY DEF TypeOK, SyncInOrder, StoresTyped, VersionsInOrder
<1>1. n \in DOMAIN s.add
  BY <1>t DEF Cleans, OwnEntryKept
<1>4. n \in DOMAIN s.vectors /\ Own[n] = s.vectors[n].clock /\ s.vectors[n].clock \in Nat
  BY <1>t, MemberStore, ReplicaNat DEF Cleans
<1>5. ASSUME \A k \in DOMAIN r.add : /\ k \in DOMAIN s.add
                                     /\ r.add[k].Vector = s.add[k].Vector
                                     /\ r.add[k].Contents = s.add[k].Contents,
             n \in DOMAIN r.add, r.vectors[n] = s.vectors[n]
      PROVE  /\ AddsKnown(n, r) /\ SameVersion(n, r)
             /\ r.add[n].Contents = s.add[n].Contents
  <2>1. r.vectors[n].clock \in Nat /\ Own[n] <= r.vectors[n].clock
    BY <1>4, <1>5
  <2>2. AddsKnown(n, r)
    BY <1>1, <1>5, <2>1, SameAddsKnown
  <2> QED
    BY <1>1, <1>5, <2>2 DEF SameVersion
<1>2. CASE r = s \/ \E k : r = Mark(s, k)
  <2>1. /\ r.remove = s.remove /\ r.vectors = s.vectors
        /\ DOMAIN r.add = DOMAIN s.add
        /\ \A k \in DOMAIN s.add : /\ r.add[k].Vector = s.add[k].Vector
                                   /\ r.add[k].Contents = s.add[k].Contents
    BY <1>2, <1>t, MarkType
  <2>2. RemovesKnown(n, r)
    BY <1>t, <2>1, SameRemovesKnown
  <2>3. /\ AddsKnown(n, r) /\ SameVersion(n, r)
        /\ r.add[n].Contents = s.add[n].Contents
    <3>1. n \in DOMAIN r.add /\ r.vectors[n] = s.vectors[n]
      BY <1>1, <2>1
    <3> HIDE DEF s
    <3> QED
      BY <1>5, <2>1, <3>1
  <2> QED
    BY <1>1, <2>1, <2>2, <2>3
<1>3. CASE r = Prune(s)
  <2> DEFINE stale == GetStale(s)
  <2>1. /\ DOMAIN r.vectors = DOMAIN s.vectors \ stale
        /\ DOMAIN r.add = DOMAIN s.add \ stale
        /\ DOMAIN r.remove = DOMAIN s.remove \ stale
    BY <1>3, <1>t, PruneDrops
  <2>2. /\ \A k \in DOMAIN r.add : r.add[k] = s.add[k]
        /\ \A k \in DOMAIN r.remove : r.remove[k] = s.remove[k]
        /\ \A k \in DOMAIN r.vectors : r.vectors[k] = s.vectors[k]
    BY <1>3, <1>t, PruneType
  <2> HIDE DEF stale
  <2>3. RemovesKnown(n, r)
    BY <1>t, <2>1, <2>2, SameRemovesKnown
  <2>4. /\ AddsKnown(n, r) /\ SameVersion(n, r)
        /\ r.add[n].Contents = s.add[n].Contents
    <3>1. n \in DOMAIN r.add /\ r.vectors[n] = s.vectors[n]
      BY <1>1, <2>1, <2>2
    <3>2. \A k \in DOMAIN r.add : /\ k \in DOMAIN s.add
                                  /\ r.add[k].Vector = s.add[k].Vector
                                  /\ r.add[k].Contents = s.add[k].Contents
      BY <2>1, <2>2
    <3> HIDE DEF s
    <3> QED
      BY <1>5, <3>1, <3>2
  <2> QED
    BY <1>1, <2>1, <2>3, <2>4
<1> QED
  BY <1>2, <1>3 DEF Cleans

\* A message that a state function generates carries known entries.
LEMMA GeneratedKnown ==
    ASSUME TypeOK, NEW n \in Node, NEW e, IsEndpoint(e)
    PROVE  LET sn == DecodeSnapshot(GenerateMessage(e, n).msg)
           IN  /\ \A k \in DOMAIN sn.add : KnownAdd(k, sn.add[k]) \/ IsZero(sn.add[k])
               /\ \A k \in DOMAIN sn.remove :
                    KnownRemove(k, sn.remove[k]) \/ sn.remove[k].Vector = 0
<1> DEFINE s == store[n]
           m == GenerateMessage(e, n).msg
           sn == DecodeSnapshot(m)
<1>t. IsReplica(s) /\ IsMsg(e.peerMsg) /\ e.state \in SyncState
  BY DEF TypeOK, StoresTyped, IsEndpoint
<1>0. DOMAIN EmptyMap = {}
  BY EmptyMapType
<1>1. CASE e.state = "EXCHANGE"
  <2> DEFINE st == DecodeState(e.peerMsg)
             a == SaveWithKeys(s.add, DOMAIN st.add)
             d == SaveWithKeys(s.remove, DOMAIN st.remove)
  <2>1. m = SnapshotMsg([add |-> a, remove |-> d])
    BY <1>1 DEF GenerateMessage, exchange, Generated, SnapShotFromState
  <2>2. IsMapState(st)
    BY <1>t, DecodeType
  <2>3. DOMAIN st.add \in SUBSET Node /\ DOMAIN st.remove \in SUBSET Node
    BY <2>2 DEF IsMapState, IsMapOf
  <2>4. IsMapOf(s.add, Node, Bucket) /\ IsMapOf(s.remove, Node, Bucket)
    BY <1>t DEF IsReplica
  <2>5. s.add \in AddMaps /\ s.remove \in RemoveMaps
    BY MapsOf
  <2> HIDE DEF st, s, m
  <2>6. /\ \A k \in DOMAIN a : \/ k \in DOMAIN s.add /\ a[k] = s.add[k]
                               \/ a[k] = ZeroBucket
        /\ \A k \in DOMAIN d : \/ k \in DOMAIN s.remove /\ d[k] = s.remove[k]
                               \/ d[k] = ZeroBucket
    BY <2>3, <2>4, SaveWithKeysType
  <2> HIDE DEF a, d
  <2>7. sn.add = a /\ sn.remove = d
    BY <2>1 DEF DecodeSnapshot, SnapshotMsg
  <2>8. ZeroBucket.Vector = 0 /\ IsZero(ZeroBucket)
    BY DEF ZeroBucket, IsZero
  <2>9. \A k \in DOMAIN a : KnownAdd(k, a[k]) \/ IsZero(a[k])
    BY <2>5, <2>6, <2>8 DEF KnownAdd
  <2>10. \A k \in DOMAIN d : KnownRemove(k, d[k]) \/ d[k].Vector = 0
    BY <2>5, <2>6, <2>8 DEF KnownRemove
  <2> QED
    BY <2>7, <2>9, <2>10 DEF m
<1>2. CASE e.state # "EXCHANGE"
  <2>1. m.kind # "snapshot"
    <3>1. CASE e.state = "HASH"
      BY <3>1 DEF GenerateMessage, hash, Generated, HashMsg
    <3>2. CASE e.state = "PREPARE"
      BY <3>2 DEF GenerateMessage, prepare, Generated, StateMsg, NoMsg
    <3>3. CASE e.state = "PRESENT"
      BY <3>3 DEF GenerateMessage, present, Generated, StateMsg
    <3>4. CASE e.state = "MERGE"
      BY <3>4 DEF GenerateMessage, merge, Generated, NoMsg
    <3> QED
      BY <1>2, <1>t, <3>1, <3>2, <3>3, <3>4 DEF SyncState
  <2>2. sn = EmptySnapshot
    BY <2>1 DEF DecodeSnapshot
  <2> QED
    BY <1>0, <2>2 DEF EmptySnapshot
<1> QED
  BY <1>1, <1>2

\* A state function brings nothing that is not known.
LEMMA GeneratesKnown ==
    ASSUME TypeOK, VersionsInOrder, NEW n \in Node, NEW r, NEW m, Generates(n, r, m),
           IsReplica(r), n \in DOMAIN r.vectors, Own[n] <= r.vectors[n].clock
    PROVE  /\ AddsKnown(n, r) /\ SameVersion(n, r)
           /\ r.add[n].Contents = store[n].add[n].Contents
           /\ RemovesKnown(n, r)
           /\ n \in DOMAIN r.remove => n \in DOMAIN store[n].remove
           /\ \A k \in DOMAIN store[n].remove : k \in DOMAIN r.remove
<1> DEFINE s == store[n]
<1>t. /\ StoresTyped /\ now \in Nat /\ IsReplica(s) /\ OwnEntryKept
      /\ n \in DOMAIN s.add
      /\ IsMapOf(s.add, Node, Bucket) /\ IsMapOf(s.remove, Node, Bucket)
  BY DEF TypeOK, StoresTyped, VersionsInOrder, OwnEntryKept, Generates, IsReplica
<1>c. r.vectors[n].clock \in Nat
  BY ReplicaNat
<1>1. PICK e : /\ IsEndpoint(e) /\ e.peerMsg \in Messages
               /\ r = GenerateMessage(e, n).store
  BY DEF Generates
<1>2. IsMsg(e.peerMsg) /\ e.state \in SyncState
  BY <1>1 DEF IsEndpoint
<1> DEFINE vs == DecodeState(e.peerMsg).vectors
           sn == DecodeSnapshot(e.peerMsg)
<1>3. \/ r = s \/ r = IncrementClock(s, n, now)
      \/ r = ClockMerge(s, vs, now) \/ r = Merge(s, sn, now)
  BY <1>1, <1>2, GenerateStore
<1>4. IsMapOf(vs, Node, Nat) /\ IsSnapshot(sn)
  BY <1>2, DecodeType DEF IsMapState
<1>5. CASE r = s \/ r = IncrementClock(s, n, now) \/ r = ClockMerge(s, vs, now)
  <2> DEFINE x == IncrementClock(s, n, now)
             y == ClockMerge(s, vs, now)
  <2>3. x.add = s.add /\ x.remove = s.remove
    <3>1. ASSUME NEW u, IsReplica(u), NEW t \in Nat
          PROVE  IncrementClock(u, n, t).add = u.add /\ IncrementClock(u, n, t).remove = u.remove
      BY <3>1 DEF IncrementClock, IsReplica
    <3> QED
      BY <1>t, <3>1
  <2>4. y.add = s.add /\ y.remove = s.remove
    <3> HIDE DEF s, vs
    <3> QED
      BY <1>4, <1>t, ClockMergeType
  <2>1. r.add = s.add /\ r.remove = s.remove
    <3> HIDE DEF x, y, s
    <3> QED
      BY <1>5, <2>3, <2>4 DEF x, y
  <2>2. RemovesKnown(n, r)
    BY <1>t, <2>1, SameRemovesKnown
  <2>5. AddsKnown(n, r) /\ SameVersion(n, r)
    <3>1. AddsKnown(n, r)
      BY <1>c, <1>t, <2>1, SameAddsKnown
    <3> QED
      BY <1>t, <2>1, <3>1 DEF SameVersion
  <2> QED
    BY <1>t, <2>1, <2>2, <2>5
<1>6. CASE r = Merge(s, sn, now)
  <2> DEFINE a == sn.add
             d == sn.remove
  <2>1. /\ IsMapOf(a, Node, Bucket) /\ IsMapOf(d, Node, Bucket)
        /\ r = Merge(s, [add |-> a, remove |-> d], now)
    BY <1>4, <1>6 DEF IsSnapshot
  <2>2. /\ a \in AddMaps /\ d \in RemoveMaps
        /\ s.add \in AddMaps /\ s.remove \in RemoveMaps
    BY <1>1, MapsOf
  <2>3. /\ \A k \in DOMAIN s.add : 0 < s.add[k].Vector
        /\ \A k \in DOMAIN s.remove : 0 < s.remove[k].Vector
    BY <1>t DEF OwnEntryKept
  <2> HIDE DEF a, d, s, sn
  <2>4. r.add = GMapMerge(s.add, a) /\ r.remove = GMapMerge(s.remove, d)
    BY <1>t, <2>1, MergeType
  <2>5. /\ \A k \in DOMAIN s.add : k \in DOMAIN r.add
        /\ \A k \in DOMAIN s.remove : k \in DOMAIN r.remove
    BY <1>t, <2>1, <2>4, GMapMergeKeeps
  <2>6. /\ \A k \in DOMAIN r.add : 0 < r.add[k].Vector /\ KnownAdd(k, r.add[k])
        /\ \A k \in DOMAIN r.remove : 0 < r.remove[k].Vector /\ KnownRemove(k, r.remove[k])
    BY <1>t, <2>1, <2>2, <2>3, <2>4, MergeKnown
  <2>9. n \in DOMAIN r.add /\ r.add[n] = s.add[n]
    <3>1. n \in DOMAIN a => a[n].Vector <= s.add[n].Vector
      <4>1. n \in DOMAIN a => \/ a[n].Vector = 0
                              \/ a[n].Vector <= s.add[n].Vector
        BY <2>2 DEF VersionsInOrder, VersionsUnique, s
      <4>2. s.add[n].Vector \in Nat
        BY <1>t, OwnVersion DEF s
      <4> QED
        BY <4>1, <4>2
    <3> QED
      BY <1>t, <2>1, <2>4, <3>1, GMapMergeIgnores
  <2>10. SameVersion(n, r)
    BY <1>t, <2>9 DEF SameVersion, s
  <2>11. 0 < r.add[n].Vector /\ r.add[n].Vector < r.vectors[n].clock
    <3>1. /\ 0 < s.add[n].Vector /\ s.add[n].Vector < Own[n]
          /\ s.add[n].Vector \in Nat /\ Own[n] \in Nat
      BY <1>t, OwnVersion DEF s
    <3> QED
      BY <1>c, <2>9, <3>1
  <2>7. AddsKnown(n, r) /\ RemovesKnown(n, r)
    BY <2>6, <2>9, <2>10, <2>11 DEF AddsKnown, RemovesKnown
  <2>8. ASSUME n \in DOMAIN r.remove PROVE n \in DOMAIN s.remove
    <3>1. PICK g \in RemoveMaps : n \in DOMAIN g /\ g[n].Vector > 0
      BY <2>6, <2>8 DEF KnownRemove
    <3> QED
      BY <3>1 DEF VersionsInOrder, RemovalsNewer, s
  <2> QED
    BY <1>t, <2>5, <2>7, <2>8, <2>9, <2>10 DEF s
<1> QED
  BY <1>3, <1>5, <1>6

\* The owners' clocks do not go back.
LEMMA OwnGrows ==
    ASSUME Rejoiners = {}, TypeOK, TypeOK', SyncInOrder, SyncInOrder', EntriesCovered,
           NEW n \in Node, NEW r, NEW m, Touches(n, r, m)
    PROVE  /\ \A k \in Node : Own[k] \in Nat /\ Own'[k] \in Nat /\ Own[k] <= Own'[k]
           /\ Own'[n] = r.vectors[n].clock
           /\ store'[n] = r
           /\ \A k \in Node : k # n => store'[k] = store[k]
<1>1. /\ IsReplica(r) /\ n \in DOMAIN r.vectors
      /\ Enters(n, r) \/ Publishes(n, r) \/ Learns(n, r) \/ Forgets(n, r)
  BY TouchClocks DEF Touches
<1>2. store' = [store EXCEPT ![n] = r]
  BY DEF Touches
<1>3. /\ store'[n] = r
      /\ \A k \in Node : k # n => store'[k] = store[k] /\ Own'[k] = Own[k]
      /\ Own'[n] = r.vectors[n].clock
  BY <1>1, <1>2, OwnNext
<1>t. StoresTyped /\ StoresInOrder
  BY DEF TypeOK, SyncInOrder
<1>4. \A k \in Node : Own[k] \in Nat
  BY <1>t, OwnType
<1>5. r.vectors[n].clock \in Nat
  BY <1>1, ReplicaNat
<1>6. CASE Enters(n, r)
  <2>1. Own[n] = 0
    BY <1>6, <1>t, OutStore DEF Enters
  <2> QED
    BY <1>3, <1>4, <1>5, <2>1
<1>7. CASE Publishes(n, r) \/ Learns(n, r)
  BY <1>3, <1>4, <1>5, <1>7 DEF Publishes, Learns
<1>8. CASE Forgets(n, r)
  <2>1. n \in DOMAIN store[n].vectors /\ r.vectors[n] = store[n].vectors[n]
    BY <1>1, <1>8 DEF Forgets
  <2>2. Own[n] = r.vectors[n].clock
    BY <2>1 DEF Own, OwnClock, At
  <2> QED
    BY <1>3, <1>4, <1>5, <2>2
<1> QED
  BY <1>1, <1>6, <1>7, <1>8

\* What a step leaves in the replica it touches was known, or is the next version
\* of the node itself.
LEMMA TouchKnown ==
    ASSUME Rejoiners = {}, TypeOK, TypeOK', SyncInOrder, SyncInOrder', EntriesCovered,
           VersionsInOrder, NEW n \in Node, NEW r, NEW m, Touches(n, r, m)
    PROVE  /\ AddsKnown(n, r)
           /\ Leaves(n, r) => SameVersion(n, r)
           /\ \/ NewVersion(n, r) \/ Changing(n)'
              \/ r.add[n].Contents = store[n].add[n].Contents
           /\ RemovesKnown(n, r)
           /\ n \in DOMAIN store[n].remove \/ Leaves(n, r) => n \in DOMAIN r.remove
           /\ status'[n] \in {"out", "in"} => n \notin DOMAIN r.remove
           /\ n \in DOMAIN r.remove => n \in DOMAIN store[n].remove \/ Leaves(n, r)
           /\ \A k \in DOMAIN store[n].remove : k \in DOMAIN r.remove \/ k \notin DOMAIN r.add
           /\ Writes(n, r) => NewVersion(n, r)
<1>t. /\ OwnEntryKept /\ status \in [Node -> Status] /\ n \in DOMAIN r.vectors
      /\ IsReplica(r)
  BY TouchClocks DEF TypeOK, VersionsInOrder
<1>c. Own[n] <= r.vectors[n].clock
  BY OwnGrows
<1>w. Writes(n, r) => NewVersion(n, r)
  BY WritesKnown
<1>4. ASSUME NobodyJoins, n \in DOMAIN r.remove, n \in DOMAIN store[n].remove
      PROVE  status'[n] \notin {"out", "in"}
  BY <1>4, <1>t DEF NobodyJoins, OwnEntryKept
<1>1. CASE Leaves(n, r)
  <2>1. /\ AddsKnown(n, r) /\ SameVersion(n, r)
        /\ RemovesKnown(n, r)
        /\ \A k \in DOMAIN store[n].remove : k \in DOMAIN r.remove
        /\ n \in DOMAIN r.remove
    BY <1>1, LeavesKnown
  <2>2. status'[n] = "leaving"
    BY <1>1, <1>t DEF Leaves
  <2>3. r.add[n].Contents = store[n].add[n].Contents \/ Changing(n)'
    BY <2>1 DEF SameVersion
  <2> QED
    BY <1>1, <1>w, <2>1, <2>2, <2>3
<1>2. CASE ~Leaves(n, r) /\ Joins(n, r)
  <2>1. status[n] = "out"
    BY <1>2 DEF Joins
  <2>2. \/ r = Put(NewTwoPhaseMap, n, n, FreshData, now)
        \/ \E p \in Node : r = Loaded(n, p)
    BY <1>2 DEF Joins
  <2>3. /\ AddsKnown(n, r) /\ NewVersion(n, r)
        /\ RemovesKnown(n, r)
        /\ n \notin DOMAIN r.remove
        /\ DOMAIN store[n].remove = {}
    BY <2>1, <2>2, JoinsKnown
  <2> QED
    BY <1>2, <1>w, <2>3
<1>3. CASE ~Leaves(n, r) /\ Writes(n, r)
  <2>1. /\ AddsKnown(n, r) /\ NewVersion(n, r)
        /\ RemovesKnown(n, r)
        /\ r.remove = store[n].remove
    BY <1>3, WritesKnown
  <2>2. NobodyJoins
    BY <1>3 DEF Writes, NobodyJoins
  <2> QED
    BY <1>3, <1>4, <2>1, <2>2
<1>7. CASE ~Leaves(n, r) /\ Edits(n, r)
  <2>1. /\ AddsKnown(n, r) /\ SameVersion(n, r)
        /\ RemovesKnown(n, r)
        /\ r.remove = store[n].remove
    BY <1>7, EditsKnown
  <2>2. NobodyJoins /\ Changing(n)'
    BY <1>7 DEF Edits, NobodyJoins
  <2> QED
    BY <1>4, <1>7, <1>w, <2>1, <2>2
<1>5. CASE ~Leaves(n, r) /\ Cleans(n, r)
  <2>1. /\ AddsKnown(n, r) /\ SameVersion(n, r)
        /\ r.add[n].Contents = store[n].add[n].Contents
        /\ RemovesKnown(n, r)
        /\ n \in DOMAIN store[n].remove => n \in DOMAIN r.remove
        /\ n \in DOMAIN r.remove => n \in DOMAIN store[n].remove
        /\ \A k \in DOMAIN store[n].remove : k \in DOMAIN r.remove \/ k \notin DOMAIN r.add
    BY <1>5, <1>t, CleansKnown
  <2>2. NobodyJoins
    BY <1>5 DEF Cleans
  <2> QED
    BY <1>4, <1>5, <1>w, <2>1, <2>2
<1>6. CASE ~Leaves(n, r) /\ Generates(n, r, m)
  <2>1. /\ AddsKnown(n, r) /\ SameVersion(n, r)
        /\ r.add[n].Contents = store[n].add[n].Contents
        /\ RemovesKnown(n, r)
        /\ n \in DOMAIN r.remove => n \in DOMAIN store[n].remove
        /\ \A k \in DOMAIN store[n].remove : k \in DOMAIN r.remove
    BY <1>6, <1>c, <1>t, GeneratesKnown
  <2>2. NobodyJoins
    BY <1>6 DEF Generates
  <2> QED
    BY <1>4, <1>6, <1>w, <2>1, <2>2
<1> QED
  BY <1>1, <1>2, <1>3, <1>5, <1>6, <1>7 DEF Touches

\* The message a step puts in flight carries nothing that is not known.
LEMMA TouchMessage ==
    ASSUME TypeOK, NEW n \in Node, NEW r, NEW m, Touches(n, r, m)
    PROVE  LET sn == DecodeSnapshot(m)
           IN  /\ \A k \in DOMAIN sn.add : KnownAdd(k, sn.add[k]) \/ IsZero(sn.add[k])
               /\ \A k \in DOMAIN sn.remove :
                    KnownRemove(k, sn.remove[k]) \/ sn.remove[k].Vector = 0
<1>1. CASE m = NoMsg
  BY <1>1, EmptyMapType DEF DecodeSnapshot, NoMsg, EmptySnapshot
<1>2. CASE Generates(n, r, m)
  <2>1. PICK e : IsEndpoint(e) /\ m = GenerateMessage(e, n).msg
    BY <1>2 DEF Generates
  <2> DEFINE x == GenerateMessage(e, n).msg
             sn == DecodeSnapshot(x)
  <2>2. /\ \A k \in DOMAIN sn.add : KnownAdd(k, sn.add[k]) \/ IsZero(sn.add[k])
        /\ \A k \in DOMAIN sn.remove :
              KnownRemove(k, sn.remove[k]) \/ sn.remove[k].Vector = 0
    BY <2>1, GeneratedKnown
  <2>3. m = x
    BY <2>1
  <2> HIDE DEF x
  <2> QED
    BY <2>2, <2>3
<1> QED
  BY <1>1, <1>2 DEF Touches

\* The versions that the maps of the replicas and the messages hold are numbers,
\* and belong to nodes.
LEMMA MapsTyped ==
    ASSUME TypeOK
    PROVE  /\ \A f \in AddMaps : \A k \in DOMAIN f : k \in Node /\ f[k].Vector \in Nat
           /\ \A f \in RemoveMaps : \A k \in DOMAIN f : k \in Node /\ f[k].Vector \in Nat
<1>1. ASSUME NEW f, IsMapOf(f, Node, Bucket)
      PROVE  \A k \in DOMAIN f : k \in Node /\ f[k].Vector \in Nat
  BY <1>1 DEF IsMapOf, Bucket
<1>2. \A n \in Node : IsMapOf(store[n].add, Node, Bucket) /\ IsMapOf(store[n].remove, Node, Bucket)
  BY DEF TypeOK, StoresTyped, IsReplica
<1>3. \A m \in Messages : IsMsg(m)
  BY DEF Messages, TypeOK, SyncsTyped, IsSyncRecord, IsEndpoint
<1>4. \A m \in Messages : IsSnapshot(DecodeSnapshot(m))
  BY <1>3, DecodeType
<1>5. \A m \in Messages : /\ IsMapOf(DecodeSnapshot(m).add, Node, Bucket)
                          /\ IsMapOf(DecodeSnapshot(m).remove, Node, Bucket)
  BY <1>4 DEF IsSnapshot
<1> QED
  BY <1>1, <1>2, <1>5 DEF AddMaps, RemoveMaps

\* An entry somewhere after a step: a zero bucket, or an entry that was known.
OldEntry(k, b) ==
    /\ k \in Node /\ b.Vector \in Nat /\ 0 < b.Vector /\ b.Vector < Own[k]
    /\ k \in DOMAIN store[k].add
    /\ b.Vector <= store[k].add[k].Vector
    /\ b.Vector = store[k].add[k].Vector
            => Changing(k) \/ b.Contents = store[k].add[k].Contents
    /\ \E f \in AddMaps : k \in DOMAIN f /\ f[k].Vector = b.Vector

\* What is known is in order.
LEMMA KnownIsOld ==
    ASSUME TypeOK, VersionsUnique, NEW k, NEW b, KnownAdd(k, b)
    PROVE  IsZero(b) \/ OldEntry(k, b)
<1>1. PICK f \in AddMaps : /\ k \in DOMAIN f
                           /\ f[k].Vector = b.Vector /\ f[k].Contents = b.Contents
  BY DEF KnownAdd
<1>2. k \in Node /\ f[k].Vector \in Nat
  BY <1>1, MapsTyped
<1>3. \/ f[k].Vector = 0 /\ f[k].Contents = NoData
      \/ /\ 0 < f[k].Vector /\ f[k].Vector < Own[k]
         /\ k \in DOMAIN store[k].add
         /\ f[k].Vector <= store[k].add[k].Vector
         /\ f[k].Vector = store[k].add[k].Vector
                => Changing(k) \/ f[k].Contents = store[k].add[k].Contents
  BY <1>1 DEF VersionsUnique
<1> QED
  BY <1>1, <1>2, <1>3 DEF IsZero, OldEntry

\* The entries of all maps after a step: what was known, or the own entry of the
\* node whose replica it touched.
LEMMA AddMapsNext ==
    ASSUME TypeOK, VersionsUnique, NEW n \in Node, NEW r, NEW m, Touches(n, r, m),
           AddsKnown(n, r), store'[n] = r,
           \A k \in Node : k # n => store'[k] = store[k]
    PROVE  \A f \in AddMaps' : \A k \in DOMAIN f :
                IsZero(f[k]) \/ OldEntry(k, f[k]) \/ (k = n /\ f = r.add)
<1>2. ASSUME NEW f \in AddMaps, NEW k \in DOMAIN f
      PROVE  IsZero(f[k]) \/ OldEntry(k, f[k])
  <2>1. KnownAdd(k, f[k])
    BY DEF KnownAdd
  <2> QED
    BY <2>1, KnownIsOld
<1>3. ASSUME NEW k \in DOMAIN r.add, k # n
      PROVE  IsZero(r.add[k]) \/ OldEntry(k, r.add[k])
  BY <1>3, KnownIsOld DEF AddsKnown
<1> DEFINE sn == DecodeSnapshot(m)
<1>4. ASSUME NEW k \in DOMAIN sn.add
      PROVE  IsZero(sn.add[k]) \/ OldEntry(k, sn.add[k])
  <2>1. KnownAdd(k, sn.add[k]) \/ IsZero(sn.add[k])
    BY TouchMessage
  <2> QED
    BY <2>1, KnownIsOld
<1>5. DOMAIN DecodeSnapshot(NoMsg).add = {}
  BY EmptyMapType DEF DecodeSnapshot, NoMsg, EmptySnapshot
<1>6. Messages' \subseteq Messages \cup {NoMsg, m}
  BY DEF Touches
<1> SUFFICES ASSUME NEW f \in AddMaps', NEW k \in DOMAIN f
             PROVE  IsZero(f[k]) \/ OldEntry(k, f[k]) \/ (k = n /\ f = r.add)
  OBVIOUS
<1>7. (\E j \in Node : f = store'[j].add) \/ (\E x \in Messages' : f = DecodeSnapshot(x).add)
  BY DEF AddMaps
<1>8. f \in AddMaps \/ f = r.add \/ f = DecodeSnapshot(NoMsg).add \/ f = sn.add
  BY <1>6, <1>7 DEF AddMaps
<1> HIDE DEF sn
<1> QED
  BY <1>2, <1>3, <1>4, <1>5, <1>8

\* The removals of all maps after a step.
LEMMA RemoveMapsNext ==
    ASSUME TypeOK, NEW n \in Node, NEW r, NEW m, Touches(n, r, m),
           RemovesKnown(n, r), store'[n] = r,
           \A k \in Node : k # n => store'[k] = store[k]
    PROVE  \A g \in RemoveMaps' : \A k \in DOMAIN g :
                \/ g[k].Vector = 0
                \/ KnownRemove(k, g[k])
                \/ k = n /\ Leaves(n, r) /\ Own[n] <= g[k].Vector /\ g = r.remove
<1>1. ASSUME NEW g \in RemoveMaps, NEW k \in DOMAIN g PROVE KnownRemove(k, g[k])
  BY DEF KnownRemove
<1>2. ASSUME NEW k \in DOMAIN r.remove
      PROVE  \/ KnownRemove(k, r.remove[k])
             \/ k = n /\ Leaves(n, r) /\ Own[n] <= r.remove[k].Vector
  BY DEF RemovesKnown
<1> DEFINE sn == DecodeSnapshot(m)
<1>3. ASSUME NEW k \in DOMAIN sn.remove
      PROVE  KnownRemove(k, sn.remove[k]) \/ sn.remove[k].Vector = 0
  BY TouchMessage
<1>4. DOMAIN DecodeSnapshot(NoMsg).remove = {}
  BY EmptyMapType DEF DecodeSnapshot, NoMsg, EmptySnapshot
<1>5. Messages' \subseteq Messages \cup {NoMsg, m}
  BY DEF Touches
<1> SUFFICES ASSUME NEW g \in RemoveMaps', NEW k \in DOMAIN g
             PROVE  \/ g[k].Vector = 0
                    \/ KnownRemove(k, g[k])
                    \/ k = n /\ Leaves(n, r) /\ Own[n] <= g[k].Vector /\ g = r.remove
  OBVIOUS
<1>6. (\E j \in Node : g = store'[j].remove) \/ (\E x \in Messages' : g = DecodeSnapshot(x).remove)
  BY DEF RemoveMaps
<1>7. g \in RemoveMaps \/ g = r.remove \/ g = DecodeSnapshot(NoMsg).remove \/ g = sn.remove
  BY <1>5, <1>6 DEF RemoveMaps
<1> HIDE DEF sn
<1> QED
  BY <1>1, <1>2, <1>3, <1>4, <1>7

\* A step that touches a replica keeps the versions in order.
LEMMA VersionsTouch ==
    ASSUME Rejoiners = {}, TypeOK, TypeOK', SyncInOrder, SyncInOrder', EntriesCovered,
           VersionsInOrder, HandlersJoined', NEW n \in Node, NEW r, NEW m, Touches(n, r, m),
           HandlersMay(n, r)
    PROVE  VersionsInOrder'
<1>t. /\ VersionsUnique /\ RemovalsNewer /\ OwnEntryKept /\ UpdatesInOrder
      /\ status \in [Node -> Status] /\ StoresTyped
  BY DEF VersionsInOrder, TypeOK
<1>1. /\ AddsKnown(n, r)
      /\ Leaves(n, r) => SameVersion(n, r)
      /\ \/ NewVersion(n, r) \/ Changing(n)'
         \/ r.add[n].Contents = store[n].add[n].Contents
      /\ RemovesKnown(n, r)
      /\ n \in DOMAIN store[n].remove \/ Leaves(n, r) => n \in DOMAIN r.remove
      /\ status'[n] \in {"out", "in"} => n \notin DOMAIN r.remove
      /\ n \in DOMAIN r.remove => n \in DOMAIN store[n].remove \/ Leaves(n, r)
      /\ Writes(n, r) => NewVersion(n, r)
  BY TouchKnown
<1>2. /\ n \in DOMAIN r.add /\ 0 < r.add[n].Vector /\ r.add[n].Vector < r.vectors[n].clock
      /\ SameVersion(n, r) \/ NewVersion(n, r)
      /\ r.add[n].Vector \in Nat
  <2>1. IsReplica(r)
    BY TouchClocks
  <2> QED
    BY <1>1, <2>1, ReplicaNat DEF AddsKnown
<1>3. /\ \A k \in Node : Own[k] \in Nat /\ Own'[k] \in Nat /\ Own[k] <= Own'[k]
      /\ Own'[n] = r.vectors[n].clock
      /\ store'[n] = r
      /\ \A k \in Node : k # n => store'[k] = store[k]
  BY OwnGrows
<1>4. \A f \in AddMaps' : \A k \in DOMAIN f :
                IsZero(f[k]) \/ OldEntry(k, f[k]) \/ (k = n /\ f = r.add)
  BY <1>1, <1>3, <1>t, AddMapsNext
<1>5. \A g \in RemoveMaps' : \A k \in DOMAIN g :
                \/ g[k].Vector = 0
                \/ KnownRemove(k, g[k])
                \/ k = n /\ Leaves(n, r) /\ Own[n] <= g[k].Vector /\ g = r.remove
  BY <1>1, <1>3, RemoveMapsNext
<1>h. /\ raced \subseteq raced'
      /\ \A k \in Node : Handled(k)' => Handled(k) \/ Contains(store[k], k)
      /\ \A k \in Node : k # n /\ Changing(k) => Changing(k)'
      /\ Changing(n) => Changing(n)' \/ NewVersion(n, r)
  BY <1>1 DEF HandlersMay, HandlersGoOn
<1>6. VersionsUnique'
  <2> SUFFICES ASSUME NEW f \in AddMaps', NEW k \in DOMAIN f
               PROVE  \/ f[k].Vector = 0 /\ f[k].Contents = NoData
                      \/ /\ 0 < f[k].Vector /\ f[k].Vector < Own'[k]
                         /\ k \in DOMAIN store'[k].add
                         /\ f[k].Vector <= store'[k].add[k].Vector
                         /\ f[k].Vector = store'[k].add[k].Vector
                                => \/ Changing(k)'
                                   \/ f[k].Contents = store'[k].add[k].Contents
    BY DEF VersionsUnique
  <2>1. CASE IsZero(f[k])
    BY <2>1 DEF IsZero
  <2>2. CASE k = n /\ f = r.add
    BY <1>2, <1>3, <2>2
  <2>3. CASE OldEntry(k, f[k]) /\ k # n
    <3>1. /\ k \in Node /\ f[k].Vector \in Nat /\ 0 < f[k].Vector /\ f[k].Vector < Own[k]
          /\ k \in DOMAIN store[k].add /\ f[k].Vector <= store[k].add[k].Vector
          /\ f[k].Vector = store[k].add[k].Vector
                => Changing(k) \/ f[k].Contents = store[k].add[k].Contents
      BY <2>3 DEF OldEntry
    <3>2. store'[k] = store[k] /\ (Changing(k) => Changing(k)') /\ f[k].Vector < Own'[k]
      BY <1>3, <1>h, <2>3, <3>1
    <3> QED
      BY <3>1, <3>2
  <2>4. CASE OldEntry(k, f[k]) /\ k = n
    <3>1. /\ f[n].Vector \in Nat /\ 0 < f[n].Vector /\ f[n].Vector < Own[n]
          /\ n \in DOMAIN store[n].add /\ f[n].Vector <= store[n].add[n].Vector
          /\ f[n].Vector = store[n].add[n].Vector
                => Changing(n) \/ f[n].Contents = store[n].add[n].Contents
      BY <2>4 DEF OldEntry
    <3>2. CASE NewVersion(n, r)
      <4>1. f[n].Vector < r.add[n].Vector
        BY <1>2, <1>3, <3>1, <3>2 DEF NewVersion
      <4> QED
        BY <1>2, <1>3, <2>4, <3>1, <4>1
    <3>3. CASE ~NewVersion(n, r)
      <4>1. /\ r.add[n].Vector = store[n].add[n].Vector
            /\ Changing(n)' \/ r.add[n].Contents = store[n].add[n].Contents
        BY <1>1, <1>2, <3>3 DEF SameVersion
      <4>2. Changing(n) => Changing(n)'
        BY <1>h, <3>3
      <4> QED
        BY <1>2, <1>3, <2>4, <3>1, <4>1, <4>2
    <3> QED
      BY <3>2, <3>3
  <2> QED
    BY <1>4, <2>1, <2>2, <2>3, <2>4
<1>7. RemovalsNewer'
  <2> SUFFICES ASSUME NEW g \in RemoveMaps', NEW k \in DOMAIN g, g[k].Vector > 0
               PROVE  /\ k \in DOMAIN store'[k].remove
                      /\ k \notin raced' =>
                            \A f \in AddMaps' : k \in DOMAIN f => f[k].Vector < g[k].Vector
    BY DEF RemovalsNewer
  <2>1. CASE KnownRemove(k, g[k])
    <3>1. PICK h \in RemoveMaps : k \in DOMAIN h /\ h[k].Vector = g[k].Vector
      BY <2>1 DEF KnownRemove
    <3>2. k \in Node /\ h[k].Vector \in Nat /\ h[k].Vector > 0
      BY <3>1, MapsTyped
    <3>3. /\ k \in DOMAIN store[k].remove
          /\ k \notin raced => \A f \in AddMaps : k \in DOMAIN f => f[k].Vector < h[k].Vector
      BY <1>t, <3>1, <3>2 DEF RemovalsNewer
    <3>4. k \in DOMAIN store'[k].remove
      BY <1>1, <1>3, <3>2, <3>3
    <3>5. ASSUME NEW f \in AddMaps', k \in DOMAIN f, k \notin raced'
          PROVE  f[k].Vector < g[k].Vector
      <4>0. k \notin raced
        BY <1>h, <3>5
      <4>1. CASE k = n /\ f = r.add
        <5>1. ~NewVersion(n, r)
          BY <3>3, <4>0, <4>1 DEF NewVersion
        <5>2. r.add[n].Vector = store[n].add[n].Vector /\ n \in DOMAIN store[n].add
          BY <1>2, <5>1 DEF SameVersion
        <5> QED
          BY <3>1, <3>3, <4>0, <4>1, <5>2, MapsOf
      <4>2. CASE IsZero(f[k])
        BY <3>1, <3>2, <4>2 DEF IsZero
      <4>3. CASE OldEntry(k, f[k])
        BY <3>1, <3>3, <4>0, <4>3 DEF OldEntry
      <4> QED
        BY <1>4, <3>5, <4>1, <4>2, <4>3
    <3> QED
      BY <3>4, <3>5
  <2>2. CASE k = n /\ Leaves(n, r) /\ Own[n] <= g[k].Vector /\ g = r.remove
    <3>1. k \in DOMAIN store'[k].remove
      BY <1>1, <1>3, <2>2
    <3>2. /\ r.add[n].Vector = store[n].add[n].Vector /\ n \in DOMAIN store[n].add
          /\ Own[n] \in Nat
      BY <1>1, <1>3, <2>2 DEF SameVersion
    <3>0. g[k].Vector \in Nat
      BY <2>2, TouchGrows, ReplicaNat
    <3>3. ASSUME NEW f \in AddMaps', k \in DOMAIN f PROVE f[k].Vector < g[k].Vector
      <4>1. CASE k = n /\ f = r.add
        <5>1. r.add[n].Vector < Own[n]
          BY <3>2, OwnVersion
        <5> QED
          BY <1>2, <2>2, <3>0, <3>2, <4>1, <5>1
      <4>2. CASE IsZero(f[k])
        BY <4>2 DEF IsZero
      <4>3. CASE OldEntry(k, f[k])
        BY <2>2, <3>2, <3>0, <4>3 DEF OldEntry
      <4> QED
        BY <1>4, <3>3, <4>1, <4>2, <4>3
    <3> QED
      BY <3>1, <3>3
  <2> QED
    BY <1>5, <2>1, <2>2
<1>8. OwnEntryKept'
  <2> SUFFICES ASSUME NEW k \in Node
               PROVE  /\ \A j \in DOMAIN store'[k].add : store'[k].add[j].Vector > 0
                      /\ \A j \in DOMAIN store'[k].remove : store'[k].remove[j].Vector > 0
                      /\ status'[k] # "out" => k \in DOMAIN store'[k].add
                      /\ status'[k] \in {"out", "in"} => k \notin DOMAIN store'[k].remove
    BY DEF OwnEntryKept
  <2>1. CASE k = n
    BY <1>1, <1>2, <1>3, <2>1 DEF AddsKnown, RemovesKnown
  <2>2. CASE k # n
    <3>1. \/ status'[k] = status[k]
          \/ status[k] # "out" /\ status'[k] \notin {"out", "in"}
      BY <1>t, <2>2 DEF Touches, Joins, Writes, Edits, Leaves, Cleans, Generates, NobodyJoins
    <3> QED
      BY <1>3, <1>t, <2>2, <3>1 DEF OwnEntryKept
  <2> QED
    BY <2>1, <2>2
<1>9. UpdatesInOrder'
  <2> SUFFICES ASSUME NEW k \in Node, Handled(k)', k \in DOMAIN store'[k].remove
               PROVE  k \in raced'
    BY DEF UpdatesInOrder
  <2>1. CASE k = n /\ Leaves(n, r)
    BY <2>1 DEF Leaves
  <2>2. CASE ~(k = n /\ Leaves(n, r))
    <3>1. k \in DOMAIN store[k].remove
      BY <1>1, <1>3, <2>2
    <3> QED
      BY <1>h, <1>t, <3>1, MemberNotRemoved DEF UpdatesInOrder
  <2> QED
    BY <2>1, <2>2
<1> QED
  BY <1>6, <1>7, <1>8, <1>9 DEF VersionsInOrder

\* Every step keeps the versions in order.
LEMMA VersionsStep ==
    ASSUME Rejoiners = {}, TypeOK, TypeOK', EndpointsInStep, EntriesCovered,
           SyncInOrder, SyncInOrder', VersionsInOrder, HandlersJoined', [Next]_vars
    PROVE  VersionsInOrder'
<1>0. HandlersJoined /\ UpdatesInOrder /\ StoresTyped
  BY DEF VersionsInOrder, UpdatesInOrder, TypeOK
<1>1. CASE TouchesNone /\ HandlersGoOn({})
  <2>1. /\ store' = store /\ NobodyJoins
        /\ Messages' \subseteq Messages \cup {NoMsg}
    BY <1>1 DEF TouchesNone
  <2>h. /\ raced \subseteq raced'
        /\ \A k \in Node : Handled(k)' => Handled(k) \/ Contains(store[k], k)
        /\ \A k \in Node : Changing(k) => Changing(k)'
    BY <1>1 DEF HandlersGoOn
  <2>2. DOMAIN DecodeSnapshot(NoMsg).add = {} /\ DOMAIN DecodeSnapshot(NoMsg).remove = {}
    BY EmptyMapType DEF DecodeSnapshot, NoMsg, EmptySnapshot
  <2>3. \A f \in AddMaps' : f \in AddMaps \/ DOMAIN f = {}
    BY <2>1, <2>2 DEF AddMaps
  <2>4. \A g \in RemoveMaps' : g \in RemoveMaps \/ DOMAIN g = {}
    BY <2>1, <2>2 DEF RemoveMaps
  <2>5. Own' = Own
    BY <2>1 DEF Own, OwnClock
  <2>6. VersionsUnique'
    <3> SUFFICES ASSUME NEW f \in AddMaps', NEW k \in DOMAIN f
                 PROVE  \/ f[k].Vector = 0 /\ f[k].Contents = NoData
                        \/ /\ 0 < f[k].Vector /\ f[k].Vector < Own'[k]
                           /\ k \in DOMAIN store'[k].add
                           /\ f[k].Vector <= store'[k].add[k].Vector
                           /\ f[k].Vector = store'[k].add[k].Vector
                                => \/ Changing(k)'
                                   \/ f[k].Contents = store'[k].add[k].Contents
      BY DEF VersionsUnique
    <3>1. f \in AddMaps
      BY <2>3
    <3>2. k \in Node
      BY <3>1, MapsTyped
    <3>3. \/ f[k].Vector = 0 /\ f[k].Contents = NoData
          \/ /\ 0 < f[k].Vector /\ f[k].Vector < Own[k]
             /\ k \in DOMAIN store[k].add
             /\ f[k].Vector <= store[k].add[k].Vector
             /\ f[k].Vector = store[k].add[k].Vector
                    => Changing(k) \/ f[k].Contents = store[k].add[k].Contents
      BY <3>1 DEF VersionsInOrder, VersionsUnique
    <3> QED
      BY <2>1, <2>5, <2>h, <3>2, <3>3
  <2>7. RemovalsNewer'
    BY <2>1, <2>3, <2>4, <2>h DEF VersionsInOrder, RemovalsNewer
  <2>8. OwnEntryKept'
    BY <2>1 DEF VersionsInOrder, OwnEntryKept, NobodyJoins
  <2>9. UpdatesInOrder'
    <3> SUFFICES ASSUME NEW k \in Node, Handled(k)', k \in DOMAIN store'[k].remove
                 PROVE  k \in raced'
      BY DEF UpdatesInOrder
    <3> QED
      BY <1>0, <2>1, <2>h, MemberNotRemoved DEF UpdatesInOrder
  <2> QED
    BY <2>6, <2>7, <2>8, <2>9 DEF VersionsInOrder
<1>2. ASSUME NEW n \in Node, NEW r, NEW m, Touches(n, r, m), HandlersMay(n, r)
      PROVE  VersionsInOrder'
  BY <1>2, VersionsTouch
<1> QED
  BY <1>0, <1>1, <1>2, StepTouches

\* In the beginning there is no version.
LEMMA VersionsInit == Init => VersionsInOrder
<1> SUFFICES ASSUME Init PROVE VersionsInOrder
  OBVIOUS
<1>1. DOMAIN DecodeSnapshot(NoMsg).add = {} /\ DOMAIN DecodeSnapshot(NoMsg).remove = {}
  BY EmptyMapType DEF DecodeSnapshot, NoMsg, EmptySnapshot
<1>2. \A n \in Node : DOMAIN store[n].add = {} /\ DOMAIN store[n].remove = {}
  BY EmptyMapType DEF Init, NewTwoPhaseMap
<1>3. \A m \in Messages : m = NoMsg
  BY DEF Init, Idle, NewTwoPhaseSyncer, Messages
<1>4. \A f \in AddMaps \cup RemoveMaps : DOMAIN f = {}
  BY <1>1, <1>2, <1>3 DEF AddMaps, RemoveMaps
<1>5. OwnEntryKept
  BY <1>2 DEF OwnEntryKept, Init
<1>6. UpdatesInOrder
  <2>1. \A n \in Node : ~Handled(n)
    BY DEF Init, Handled, IdleHandler
  <2> QED
    BY <2>1 DEF UpdatesInOrder, HandlersJoined
<1> QED
  BY <1>4, <1>5, <1>6 DEF VersionsInOrder, VersionsUnique, RemovalsNewer

\* Sessions, joins, updates, leaves and garbage collection, with handlers that
\* test, get, change in place and put in separate steps: what a node has published
\* is behind its clock and its entry wherever a copy of it is, the version of that
\* entry has one content unless a handler is changing it, and nothing is published
\* after a removal unless a handler was under way when the node left.  It holds in
\* a mesh of any size, for any number of handlers, for sessions no longer than
\* StaleTime and keys that are not used again.
THEOREM VersionsStayInOrder ==
    ASSUME SyncInterval <= StaleTime, Rejoiners = {}
    PROVE  Spec => []VersionsInOrder
<1>1. Init => VersionsInOrder
  BY VersionsInit
<1>2. /\ TypeOK /\ TypeOK' /\ EndpointsInStep /\ EntriesCovered
      /\ SyncInOrder /\ SyncInOrder' /\ VersionsInOrder /\ HandlersJoined' /\ [Next]_vars
      => VersionsInOrder'
  BY VersionsStep
<1>3. Spec => []SyncInOrder
  BY MeshInOrder
<1> QED
  BY <1>1, <1>2, <1>3, TypeCorrect, OnlyMembersHandle, SessionsStayInStep,
     EntriesStayCovered, PTL DEF Spec

\* GMap.put may keep the bucket it has when the versions are equal: a replica with
\* the version its owner holds has the owner's data, unless a handler of the owner
\* is between its change in place and its Put.
THEOREM VersionsIdentifyData ==
    ASSUME SyncInterval <= StaleTime, Rejoiners = {}
    PROVE  Spec => []SameVersionSameData
<1>1. VersionsInOrder => SameVersionSameData
  <2> SUFFICES ASSUME VersionsInOrder, NEW n \in Node, NEW k \in Node,
                      k \in DOMAIN store[n].add, k \in DOMAIN store[k].add,
                      store[n].add[k].Vector = store[k].add[k].Vector, ~Changing(k)
               PROVE  store[n].add[k].Contents = store[k].add[k].Contents
    BY DEF SameVersionSameData
  <2>1. store[n].add \in AddMaps /\ store[n].add[k].Vector > 0
    BY MapsOf DEF VersionsInOrder, OwnEntryKept
  <2> QED
    BY <2>1 DEF VersionsInOrder, VersionsUnique
<1> QED
  BY <1>1, VersionsStayInOrder, PTL

\* A node that has joined, and has not begun to leave, is a member in its own
\* replica, whatever it merged and collected since.
THEOREM MembersListThemselves ==
    ASSUME SyncInterval <= StaleTime, Rejoiners = {}
    PROVE  Spec => []SelfListed
<1>1. VersionsInOrder => SelfListed
  BY DEF VersionsInOrder, OwnEntryKept, SelfListed, Contains
<1> QED
  BY <1>1, VersionsStayInOrder, PTL

\* A replica that knows of a removal has no version that is not older.
LEMMA RemovedIsGone ==
    ASSUME TypeOK, VersionsInOrder, NEW n \in Node, NEW k \in DOMAIN store[n].remove,
           k \notin raced
    PROVE  ~Contains(store[n], k)
<1> SUFFICES ASSUME k \in DOMAIN store[n].add
             PROVE  store[n].add[k].Vector < store[n].remove[k].Vector
  <2>1. /\ \A j \in DOMAIN store[n].add : store[n].add[j].Vector \in Nat
        /\ \A j \in DOMAIN store[n].remove : store[n].remove[j].Vector \in Nat
    BY ReplicaNat DEF TypeOK, StoresTyped
  <2> QED
    BY <2>1 DEF Contains
<1>1. store[n].remove[k].Vector > 0
  BY DEF VersionsInOrder, OwnEntryKept
<1> QED
  BY <1>1, MapsOf DEF VersionsInOrder, RemovalsNewer

\* A node whose removal is known somewhere is not raced any more.
LEMMA RacedBefore ==
    ASSUME TypeOK, VersionsInOrder, NEW n \in Node, NEW k \in DOMAIN store[n].remove,
           k \in raced', \A j \in raced' : j \in raced \/ status[j] = "in"
    PROVE  k \in raced
<1>1. store[n].remove[k].Vector > 0 /\ store[n].remove \in RemoveMaps
  BY MapsOf DEF VersionsInOrder, OwnEntryKept
<1>2. k \in DOMAIN store[k].remove
  BY <1>1 DEF VersionsInOrder, RemovalsNewer
<1>3. k \in Node
  BY <1>1, MapsTyped
<1>4. status[k] # "in"
  BY <1>2, <1>3 DEF VersionsInOrder, OwnEntryKept
<1> QED
  BY <1>4

\* Leaving, late copies of older entries and Prune: a replica that has seen a
\* node leave never counts it as a member again, unless a handler of the node was
\* under way when it left.
THEOREM RemovalsAreFinal ==
    ASSUME SyncInterval <= StaleTime, Rejoiners = {}
    PROVE  Spec => RemovalIsFinal
<1> DEFINE Gone == \A n \in Node : \A k \in DOMAIN store[n].remove :
                        k \notin raced => ~Contains(store[n], k)
           Final == \A n, k \in Node :
                        k \in DOMAIN store[n].remove /\ ~Contains(store[n], k) /\ k \notin raced
                            => ~Contains(store'[n], k)
<1>1. TypeOK /\ VersionsInOrder => Gone
  BY RemovedIsGone
<1>2. /\ TypeOK /\ TypeOK' /\ EndpointsInStep /\ EntriesCovered
      /\ SyncInOrder /\ SyncInOrder' /\ VersionsInOrder /\ Gone' /\ [Next]_vars
      => [Final]_vars
  <2> SUFFICES ASSUME TypeOK, TypeOK', EndpointsInStep, EntriesCovered,
                      SyncInOrder, SyncInOrder', VersionsInOrder, Gone', [Next]_vars
               PROVE  Final
    OBVIOUS
  <2>0. HandlersJoined
    BY DEF VersionsInOrder, UpdatesInOrder
  <2>1. CASE TouchesNone
    BY <2>1 DEF TouchesNone
  <2>2. ASSUME NEW n \in Node, NEW r, NEW m, Touches(n, r, m), HandlersMay(n, r)
        PROVE  Final
    <3>1. \A k \in DOMAIN store[n].remove : k \in DOMAIN r.remove \/ k \notin DOMAIN r.add
      BY <2>2, TouchKnown
    <3>2. store'[n] = r /\ \A k \in Node : k # n => store'[k] = store[k]
      BY <2>2, OwnGrows
    <3>0. \A j \in raced' : j \in raced \/ status[j] = "in"
      BY <2>2 DEF HandlersMay, HandlersGoOn
    <3>3. ASSUME NEW k \in DOMAIN store[n].remove, k \notin raced
          PROVE  ~Contains(store'[n], k)
      <4>1. CASE k \in DOMAIN r.remove
        <5>1. k \notin raced'
          BY <3>0, <3>3, RacedBefore
        <5> QED
          BY <3>2, <4>1, <5>1
      <4>2. CASE k \notin DOMAIN r.add
        BY <3>2, <4>2 DEF Contains
      <4> QED
        BY <3>1, <4>1, <4>2
    <3> QED
      BY <3>2, <3>3
  <2> QED
    BY <2>0, <2>1, <2>2, StepTouches
<1>3. Spec => []SyncInOrder /\ []VersionsInOrder
  BY MeshInOrder, VersionsStayInOrder
<1> QED
  BY <1>1, <1>2, <1>3, TypeCorrect, SessionsStayInStep, EntriesStayCovered, PTL
     DEF Spec, RemovalIsFinal
-----------------------------------------------------------------------------
(* A session transfers everything                                            *)

\* A map f holds what was announced in a, unless it is as old as h or i.
HasAll(f, a, h, i) ==
    \A k \in DOMAIN a : a[k] > h /\ a[k] > i => k \in DOMAIN f /\ f[k].Vector >= a[k]

\* What it does not hold is asked for in q, ...
AsksFor(f, a, q, h, i) ==
    \A k \in DOMAIN a : a[k] > h /\ a[k] > i =>
        (k \in DOMAIN f /\ f[k].Vector >= a[k]) \/ k \in DOMAIN q

\* ... or answered in sn.
Answers(f, a, sn, h, i) ==
    \A k \in DOMAIN a : a[k] > h /\ a[k] > i =>
        \/ k \in DOMAIN f /\ f[k].Vector >= a[k]
        \/ k \in DOMAIN sn /\ sn[k].Vector >= a[k]

\* Replica s has what was announced in ann, unless it or p collected it.
Has(s, p, ann) ==
    /\ HasAll(s.add, ann.add, s.highestStale, p.highestStale)
    /\ HasAll(s.remove, ann.remove, s.highestStale, p.highestStale)

\* What s does not have of ann is in the request for p.
Asked(s, p, ann, request) ==
    /\ AsksFor(s.add, ann.add, request.add, s.highestStale, p.highestStale)
    /\ AsksFor(s.remove, ann.remove, request.remove, s.highestStale, p.highestStale)

\* What s does not have of ann is in the snapshot sn.
Answered(s, p, ann, sn) ==
    /\ Answers(s.add, ann.add, sn.add, s.highestStale, p.highestStale)
    /\ Answers(s.remove, ann.remove, sn.remove, s.highestStale, p.highestStale)

\* What m is for an endpoint with replica s in state st that received it from
\* one with replica p: p's announcement theirs, the request for what p does not
\* have of mine, or the answer with what s does not have of theirs.
Informed(s, st, mine, p, theirs, m) ==
    /\ st = "PRESENT" => DecodeState(m) = theirs
    /\ st = "EXCHANGE" => Asked(p, s, mine, DecodeState(m))
    /\ st = "MERGE" => Answered(s, p, theirs, DecodeSnapshot(m))

\* Both endpoints of session q, with replicas s and p, m being the last message
\* of the server.
BothInformed(q, s, p, m) ==
    /\ Informed(s, q.cli.state, q.cli.mapState, p, q.srv.mapState, m)
    /\ Informed(p, q.srv.state, q.srv.mapState, s, q.cli.mapState, q.srv.peerMsg)

\* An endpoint has what it announced, unless it collected it.
KeepsItsWord(s, e) == e.state \in Late => Has(s, s, e.mapState)

\* Session q between a client with replica s and a server with replica p: who
\* has, asked for or was sent what, in each of its phases.
OnItsWay(q, s, p) ==
    /\ KeepsItsWord(s, q.cli)
    /\ KeepsItsWord(p, q.srv)
    /\ q.pc = "reply" => q.srv.state # "HASH"
    /\ q.pc = "client" /\ q.open => BothInformed(q, s, p, q.cli.peerMsg)
    /\ q.pc = "server" /\ q.open /\ q.more =>
        /\ Informed(p, q.cli.state, q.srv.mapState, s, q.cli.mapState, q.msg)
        /\ Informed(p, q.srv.state, q.srv.mapState, s, q.cli.mapState, q.srv.peerMsg)
    /\ q.pc = "server" /\ q.open /\ ~q.more /\ q.srv.state = "MERGE" =>
        /\ Informed(p, "MERGE", q.srv.mapState, s, q.cli.mapState, q.srv.peerMsg)
        /\ Has(s, p, q.srv.mapState)
    /\ q.pc = "reply" /\ q.open /\ q.more => q.msg.kind # "nil" /\ BothInformed(q, s, p, q.msg)
    /\ q.pc = "reply" /\ ~q.more /\ q.cli.state = "MERGE" =>
        Has(s, p, q.srv.mapState) /\ Has(p, s, q.cli.mapState)

\* Why a session that ends well has transferred everything.
TransfersOnTheirWay ==
    \A c \in Node : InSession(c) => OnItsWay(sync[c], store[c], store[sync[c].server])

\* A map of announced versions, or of buckets: the versions are numbers.
LEMMA MapNat ==
    /\ \A a : IsMapOf(a, Node, Nat) => \A k \in DOMAIN a : k \in Node /\ a[k] \in Nat
    /\ \A f : IsMapOf(f, Node, Bucket) => \A k \in DOMAIN f : k \in Node /\ f[k].Vector \in Nat
BY DEF IsMapOf, Bucket

\* What is held, asked for or answered stays so while the two replicas grow.
LEMMA MapsStay ==
    ASSUME NEW f, IsMapOf(f, Node, Bucket), NEW g, IsMapOf(g, Node, Bucket),
           NEW a, IsMapOf(a, Node, Nat), NEW sn, IsMapOf(sn, Node, Bucket), NEW q,
           NEW h \in Nat, NEW h1 \in Nat, NEW i \in Nat, NEW i1 \in Nat,
           h <= h1, i <= i1, EntriesKept(f, g, h1)
    PROVE  /\ HasAll(f, a, h, i) => HasAll(g, a, h1, i1)
           /\ AsksFor(f, a, q, h, i) => AsksFor(g, a, q, h1, i1)
           /\ Answers(f, a, sn, h, i) => Answers(g, a, sn, h1, i1)
<1>t. /\ \A k \in DOMAIN a : a[k] \in Nat
      /\ \A k \in DOMAIN f : f[k].Vector \in Nat
      /\ \A k \in DOMAIN g : g[k].Vector \in Nat
  BY MapNat
<1>1. ASSUME NEW k \in DOMAIN a, a[k] > h1, a[k] > i1
      PROVE  /\ a[k] > h /\ a[k] > i
             /\ k \in DOMAIN f /\ f[k].Vector >= a[k] => k \in DOMAIN g /\ g[k].Vector >= a[k]
  BY <1>1, <1>t DEF EntriesKept
<1>2. HasAll(f, a, h, i) => HasAll(g, a, h1, i1)
  BY <1>1 DEF HasAll
<1>3. AsksFor(f, a, q, h, i) => AsksFor(g, a, q, h1, i1)
  BY <1>1 DEF AsksFor
<1>4. Answers(f, a, sn, h, i) => Answers(g, a, sn, h1, i1)
  BY <1>1 DEF Answers
<1> QED
  BY <1>2, <1>3, <1>4

\* prepare: a replica has what it announces.
LEMMA AnnouncedIsHeld ==
    ASSUME NEW f, IsMapOf(f, Node, Bucket), NEW h, NEW i
    PROVE  HasAll(f, GMapClock(f), h, i)
<1>1. /\ DOMAIN GMapClock(f) = DOMAIN f
      /\ \A k \in DOMAIN f : GMapClock(f)[k] = f[k].Vector /\ f[k].Vector \in Nat
  BY GMapClockType, MapNat
<1> QED
  BY <1>1 DEF HasAll

\* present: Difference asks for what is newer than one's own announcement.
LEMMA NewerAsks ==
    ASSUME NEW f, IsMapOf(f, Node, Bucket), NEW mine, IsMapOf(mine, Node, Nat),
           NEW theirs, IsMapOf(theirs, Node, Nat), NEW h \in Nat, NEW i,
           HasAll(f, mine, h, h)
    PROVE  AsksFor(f, theirs, Newer(mine, theirs, h), h, i)
<1>t. /\ \A k \in DOMAIN mine : mine[k] \in Nat
      /\ \A k \in DOMAIN theirs : theirs[k] \in Nat
      /\ \A k \in DOMAIN f : f[k].Vector \in Nat
  BY MapNat
<1>1. DOMAIN Newer(mine, theirs, h) =
        {k \in DOMAIN theirs : theirs[k] > h /\ (k \in DOMAIN mine => mine[k] < theirs[k])}
  BY DEF Newer, Restrict
<1> SUFFICES ASSUME NEW k \in DOMAIN theirs, theirs[k] > h, k \notin DOMAIN Newer(mine, theirs, h)
             PROVE  k \in DOMAIN f /\ f[k].Vector >= theirs[k]
  BY DEF AsksFor
<1>2. k \in DOMAIN mine /\ ~(mine[k] < theirs[k])
  BY <1>1
<1>3. mine[k] >= theirs[k] /\ mine[k] > h
  BY <1>2, <1>t
<1>4. k \in DOMAIN f /\ f[k].Vector >= mine[k]
  BY <1>2, <1>3 DEF HasAll
<1> QED
  BY <1>2, <1>3, <1>4, <1>t

\* exchange: what is asked for is answered by one that has what it announced.
LEMMA SavedAnswers ==
    ASSUME NEW f, NEW g, IsMapOf(g, Node, Bucket), NEW mine, IsMapOf(mine, Node, Nat),
           NEW q, IsMapOf(q, Node, Nat), NEW h \in Nat, NEW i \in Nat,
           AsksFor(f, mine, q, h, i), HasAll(g, mine, i, i)
    PROVE  Answers(f, mine, SaveWithKeys(g, DOMAIN q), h, i)
<1> SUFFICES ASSUME NEW k \in DOMAIN mine, mine[k] > h, mine[k] > i,
                    ~(k \in DOMAIN f /\ f[k].Vector >= mine[k])
             PROVE  /\ k \in DOMAIN SaveWithKeys(g, DOMAIN q)
                    /\ SaveWithKeys(g, DOMAIN q)[k].Vector >= mine[k]
  BY DEF Answers
<1>1. k \in DOMAIN q
  BY DEF AsksFor
<1>2. k \in DOMAIN g /\ g[k].Vector >= mine[k]
  BY DEF HasAll
<1>3. SaveWithKeys(g, DOMAIN q)[k] = g[k] /\ k \in DOMAIN SaveWithKeys(g, DOMAIN q)
  BY <1>1, <1>2 DEF SaveWithKeys, At
<1> QED
  BY <1>2, <1>3

\* merge: what is held or answered is held.
LEMMA MergedHas ==
    ASSUME NEW f, IsMapOf(f, Node, Bucket), NEW theirs, IsMapOf(theirs, Node, Nat),
           NEW sn, IsMapOf(sn, Node, Bucket), NEW h \in Nat, NEW i \in Nat,
           Answers(f, theirs, sn, h, i)
    PROVE  HasAll(GMapMerge(f, sn), theirs, h, i)
<1> DEFINE r == GMapMerge(f, sn)
<1>1. /\ \A k \in DOMAIN f : k \in DOMAIN r /\ f[k].Vector <= r[k].Vector
      /\ \A k \in DOMAIN sn : 0 < sn[k].Vector => k \in DOMAIN r /\ sn[k].Vector <= r[k].Vector
  BY GMapMergeKeeps
<1>2. IsMapOf(r, Node, Bucket)
  BY GMapMergeType
<1> HIDE DEF r
<1>t. /\ \A k \in DOMAIN theirs : theirs[k] \in Nat
      /\ \A k \in DOMAIN f : f[k].Vector \in Nat
      /\ \A k \in DOMAIN sn : sn[k].Vector \in Nat
      /\ \A k \in DOMAIN r : r[k].Vector \in Nat
  BY <1>2, MapNat
<1>3. HasAll(r, theirs, h, i)
  BY <1>1, <1>t DEF HasAll, Answers
<1> QED
  BY <1>3 DEF r

\* The same for replicas, announcements and messages.
LEMMA ReplicasStay ==
    ASSUME NEW s, IsReplica(s), NEW r, Grows(s, r), NEW p, IsReplica(p), NEW o, Grows(p, o),
           NEW ann, IsMapState(ann), NEW request, NEW sn, IsSnapshot(sn)
    PROVE  /\ Has(s, p, ann) => Has(r, o, ann)
           /\ Asked(s, p, ann, request) => Asked(r, o, ann, request)
           /\ Answered(s, p, ann, sn) => Answered(r, o, ann, sn)
<1>1. /\ IsMapOf(s.add, Node, Bucket) /\ IsMapOf(s.remove, Node, Bucket)
      /\ IsMapOf(r.add, Node, Bucket) /\ IsMapOf(r.remove, Node, Bucket)
      /\ s.highestStale \in Nat /\ r.highestStale \in Nat
      /\ p.highestStale \in Nat /\ o.highestStale \in Nat
      /\ s.highestStale <= r.highestStale /\ p.highestStale <= o.highestStale
      /\ EntriesKept(s.add, r.add, r.highestStale)
      /\ EntriesKept(s.remove, r.remove, r.highestStale)
  BY DEF Grows, ClocksKept, IsReplica
<1>2. /\ IsMapOf(ann.add, Node, Nat) /\ IsMapOf(ann.remove, Node, Nat)
      /\ IsMapOf(sn.add, Node, Bucket) /\ IsMapOf(sn.remove, Node, Bucket)
  BY DEF IsMapState, IsSnapshot
<1> DEFINE h == s.highestStale
           h1 == r.highestStale
           i == p.highestStale
           i1 == o.highestStale
<1>3. h \in Nat /\ h1 \in Nat /\ i \in Nat /\ i1 \in Nat /\ h <= h1 /\ i <= i1
  BY <1>1
<1>4. EntriesKept(s.add, r.add, h1) /\ EntriesKept(s.remove, r.remove, h1)
  BY <1>1
<1>5. /\ HasAll(s.add, ann.add, h, i) => HasAll(r.add, ann.add, h1, i1)
      /\ HasAll(s.remove, ann.remove, h, i) => HasAll(r.remove, ann.remove, h1, i1)
  <2> HIDE DEF h, h1, i, i1
  <2> QED
    BY <1>1, <1>2, <1>3, <1>4, MapsStay
<1>6. /\ AsksFor(s.add, ann.add, request.add, h, i) => AsksFor(r.add, ann.add, request.add, h1, i1)
      /\ AsksFor(s.remove, ann.remove, request.remove, h, i)
            => AsksFor(r.remove, ann.remove, request.remove, h1, i1)
  <2> HIDE DEF h, h1, i, i1
  <2> QED
    BY <1>1, <1>2, <1>3, <1>4, MapsStay
<1>7. /\ Answers(s.add, ann.add, sn.add, h, i) => Answers(r.add, ann.add, sn.add, h1, i1)
      /\ Answers(s.remove, ann.remove, sn.remove, h, i)
            => Answers(r.remove, ann.remove, sn.remove, h1, i1)
  <2> HIDE DEF h, h1, i, i1
  <2> QED
    BY <1>1, <1>2, <1>3, <1>4, MapsStay
<1> QED
  BY <1>5, <1>6, <1>7 DEF Has, Asked, Answered

\* What a message is for an endpoint does not change while the replicas grow.
LEMMA InformedStays ==
    ASSUME NEW s, IsReplica(s), NEW r, Grows(s, r), NEW p, IsReplica(p), NEW o, Grows(p, o),
           NEW mine, IsMapState(mine), NEW theirs, IsMapState(theirs), NEW m, IsMsg(m),
           NEW st, Informed(s, st, mine, p, theirs, m)
    PROVE  Informed(r, st, mine, o, theirs, m)
<1> DEFINE x == DecodeState(m)
           y == DecodeSnapshot(m)
<1>1. IsSnapshot(y)
  BY DecodeType
<1> HIDE DEF x, y
<1>2. Asked(p, s, mine, x) => Asked(o, r, mine, x)
  BY <1>1, ReplicasStay
<1>3. Answered(s, p, theirs, y) => Answered(r, o, theirs, y)
  BY <1>1, ReplicasStay
<1> QED
  BY <1>2, <1>3 DEF Informed, x, y

\* An endpoint has what it announced, as its replica grows.
LEMMA WordStays ==
    ASSUME NEW s, IsReplica(s), NEW r, Grows(s, r), NEW e, IsEndpoint(e), KeepsItsWord(s, e)
    PROVE  KeepsItsWord(r, e)
<1>1. IsMapState(e.mapState) /\ IsSnapshot(EmptySnapshot)
  <2>1. IsMapOf(EmptyMap, Node, Bucket)
    BY EmptyMapType
  <2> QED
    BY <2>1 DEF IsEndpoint, EmptySnapshot, IsSnapshot
<1>2. Has(s, s, e.mapState) => Has(r, r, e.mapState)
  BY <1>1, ReplicasStay
<1> QED
  BY <1>2 DEF KeepsItsWord

\* A session of which no message moves, while the replicas grow.
LEMMA OnItsWayStays ==
    ASSUME NEW q, IsSyncRecord(q), NEW s, IsReplica(s), NEW r, Grows(s, r),
           NEW p, IsReplica(p), NEW o, Grows(p, o), OnItsWay(q, s, p)
    PROVE  OnItsWay(q, r, o)
<1>t. /\ IsEndpoint(q.cli) /\ IsEndpoint(q.srv)
      /\ IsMapState(q.cli.mapState) /\ IsMapState(q.srv.mapState)
      /\ IsMsg(q.cli.peerMsg) /\ IsMsg(q.srv.peerMsg) /\ IsMsg(q.msg)
  BY DEF IsSyncRecord, IsEndpoint
<1>1. KeepsItsWord(r, q.cli) /\ KeepsItsWord(o, q.srv)
  BY <1>t, WordStays DEF OnItsWay
<1> DEFINE A == q.cli.mapState
           B == q.srv.mapState
<1>2. \A m, st : IsMsg(m) /\ Informed(s, st, A, p, B, m) => Informed(r, st, A, o, B, m)
  BY <1>t, InformedStays
<1>3. \A m, st : IsMsg(m) /\ Informed(p, st, B, s, A, m) => Informed(o, st, B, r, A, m)
  BY <1>t, InformedStays
<1>4. (Has(s, p, B) => Has(r, o, B)) /\ (Has(p, s, A) => Has(o, r, A))
  <2>1. IsSnapshot(EmptySnapshot)
    BY EmptyMapType DEF EmptySnapshot, IsSnapshot
  <2> QED
    BY <1>t, <2>1, ReplicasStay
<1> QED
  BY <1>t, <1>1, <1>2, <1>3, <1>4 DEF OnItsWay, BothInformed

\* Each state function tells the peer what the peer's next one needs.
LEMMA GenerateInforms ==
    ASSUME NEW n \in Node, IsReplica(store[n]), Covered(store[n]), now \in Nat,
           NEW e, IsEndpoint(e), NEW p, IsReplica(p), NEW theirs, IsMapState(theirs),
           KeepsItsWord(store[n], e),
           Informed(store[n], e.state, e.mapState, p, theirs, e.peerMsg)
    PROVE  LET g == GenerateMessage(e, n)
           IN  /\ KeepsItsWord(g.store, g.end)
               /\ g.more => Informed(p, g.end.state, theirs, g.store, g.end.mapState, g.msg)
               /\ e.state = "MERGE" => Has(g.store, p, theirs)
               /\ e.state # "PREPARE" => g.end.mapState = e.mapState
<1> DEFINE s == store[n]
           g == GenerateMessage(e, n)
           mine == e.mapState
<1>t. /\ e.state \in SyncState /\ IsMsg(e.peerMsg) /\ IsMapState(mine)
      /\ IsMapOf(mine.add, Node, Nat) /\ IsMapOf(mine.remove, Node, Nat)
      /\ IsMapOf(theirs.add, Node, Nat) /\ IsMapOf(theirs.remove, Node, Nat)
      /\ IsMapOf(s.add, Node, Bucket) /\ IsMapOf(s.remove, Node, Bucket)
      /\ s.highestStale \in Nat /\ p.highestStale \in Nat
  BY DEF IsEndpoint, IsMapState, IsReplica
<1>e. /\ \A x : [e EXCEPT !.state = x].state = x /\ [e EXCEPT !.state = x].mapState = mine
      /\ \A x, y : /\ [e EXCEPT !.state = x, !.mapState = y].state = x
                   /\ [e EXCEPT !.state = x, !.mapState = y].mapState = y
  BY DEF IsEndpoint
<1>g. IsEndpoint(e) /\ Grows(s, g.store) /\ IsReplica(s)
  BY GenerateGrows
<1>w. KeepsItsWord(g.store, e)
  <2> HIDE DEF g, s
  <2> QED
    BY <1>g, WordStays DEF s
<1>0. e.state \in Late => Has(s, s, mine)
  BY DEF KeepsItsWord
<1>1. CASE e.state = "HASH"
  <2> DEFINE e1 == [e EXCEPT !.state = "PREPARE"]
             m == HashMsg(ClockHash(s))
  <2>1. g = Generated(e1, s, m, TRUE)
    BY <1>1 DEF GenerateMessage, hash
  <2>2. e1.state = "PREPARE" /\ e1.mapState = mine
    BY <1>e
  <2> HIDE DEF e1, m, s, g
  <2>3. g.end = e1 /\ g.end.state = "PREPARE" /\ g.end.mapState = mine
    BY <2>1, <2>2 DEF Generated
  <2>4. /\ KeepsItsWord(g.store, g.end)
        /\ Informed(p, g.end.state, theirs, g.store, g.end.mapState, g.msg)
    BY <2>3 DEF KeepsItsWord, Informed, Late
  <2> QED
    BY <1>1, <2>3, <2>4 DEF g
<1>2. CASE e.state = "PREPARE"
  <2> DEFINE s1 == IncrementClock(s, n, now)
             st == GenerateState(s1)
             e1 == [e EXCEPT !.state = "PRESENT", !.mapState = st]
  <2>1. \/ g = Generated(e, s, NoMsg, FALSE)
        \/ g = Generated(e1, s1, StateMsg(st), TRUE)
    BY <1>2 DEF GenerateMessage, prepare
  <2>2. e1.state = "PRESENT" /\ e1.mapState = st
    BY <1>e
  <2>3. IsReplica(s1)
    BY <1>g, IncrementClockType
  <2>4. Has(s1, s1, st)
    <3> HIDE DEF s1
    <3>1. /\ HasAll(s1.add, GMapClock(s1.add), s1.highestStale, s1.highestStale)
          /\ HasAll(s1.remove, GMapClock(s1.remove), s1.highestStale, s1.highestStale)
      BY <2>3, AnnouncedIsHeld DEF IsReplica
    <3> QED
      BY <3>1 DEF Has, GenerateState
  <2>5. CASE g = Generated(e, s, NoMsg, FALSE)
    <3> HIDE DEF s, g
    <3>1. g.end = e /\ g.more = FALSE
      BY <2>5 DEF Generated
    <3>2. KeepsItsWord(g.store, g.end)
      BY <1>2, <3>1 DEF KeepsItsWord, Late
    <3> QED
      BY <1>2, <3>1, <3>2 DEF g
  <2>6. CASE g = Generated(e1, s1, StateMsg(st), TRUE)
    <3> HIDE DEF s, g, e1, s1, st
    <3>1. g.end = e1 /\ g.store = s1 /\ g.msg = StateMsg(st)
      BY <2>6 DEF Generated
    <3>2. KeepsItsWord(g.store, g.end)
      BY <2>2, <2>4, <3>1 DEF KeepsItsWord
    <3>3. DecodeState(g.msg) = st
      BY <3>1 DEF DecodeState, StateMsg
    <3>4. Informed(p, g.end.state, theirs, g.store, g.end.mapState, g.msg)
      BY <2>2, <3>1, <3>3 DEF Informed
    <3> QED
      BY <1>2, <3>2, <3>4 DEF g
  <2> QED
    BY <2>1, <2>5, <2>6
<1>3. CASE e.state = "PRESENT"
  <2> DEFINE e1 == [e EXCEPT !.state = "EXCHANGE"]
             th == DecodeState(e.peerMsg)
             s1 == ClockMerge(s, th.vectors, now)
             d == Difference(mine, th, s.highestStale)
  <2>1. g = Generated(e1, s1, StateMsg(d), TRUE)
    BY <1>3 DEF GenerateMessage, present
  <2>2. e1.state = "EXCHANGE" /\ e1.mapState = mine
    BY <1>e
  <2>3. th = theirs
    BY <1>3 DEF Informed
  <2>4. s1.add = s.add /\ s1.remove = s.remove /\ s1.highestStale = s.highestStale
    <3> DEFINE vs == th.vectors
    <3>1. IsMapOf(vs, Node, Nat)
      BY <2>3 DEF IsMapState
    <3> HIDE DEF vs, s
    <3> QED
      BY <1>g, <3>1, ClockMergeType DEF vs
  <2>5. Has(s, s, mine)
    BY <1>0, <1>3 DEF Late
  <2> HIDE DEF s, g, e1, s1
  <2>6. /\ AsksFor(s.add, theirs.add, Newer(mine.add, theirs.add, s.highestStale),
                   s.highestStale, p.highestStale)
        /\ AsksFor(s.remove, theirs.remove, Newer(mine.remove, theirs.remove, s.highestStale),
                   s.highestStale, p.highestStale)
    <3>1. /\ HasAll(s.add, mine.add, s.highestStale, s.highestStale)
          /\ HasAll(s.remove, mine.remove, s.highestStale, s.highestStale)
      BY <2>5 DEF Has
    <3> HIDE DEF mine
    <3> QED
      BY <1>t, <3>1, NewerAsks
  <2>7. /\ d.add = Newer(mine.add, theirs.add, s.highestStale)
        /\ d.remove = Newer(mine.remove, theirs.remove, s.highestStale)
    BY <2>3 DEF Difference
  <2> HIDE DEF d, th, mine
  <2>8. Asked(s1, p, theirs, d)
    BY <2>4, <2>6, <2>7 DEF Asked
  <2>9. g.end = e1 /\ g.store = s1 /\ g.msg = StateMsg(d)
    BY <2>1 DEF Generated
  <2>10. DecodeState(g.msg) = d
    BY <2>9 DEF DecodeState, StateMsg
  <2>11. Informed(p, g.end.state, theirs, g.store, g.end.mapState, g.msg)
    BY <2>2, <2>8, <2>9, <2>10 DEF Informed
  <2>12. KeepsItsWord(g.store, g.end)
    BY <1>w, <1>3, <2>2, <2>9 DEF KeepsItsWord, Late, mine
  <2> QED
    BY <1>3, <2>2, <2>9, <2>11, <2>12 DEF g, mine
<1>4. CASE e.state = "EXCHANGE"
  <2> DEFINE e1 == [e EXCEPT !.state = "MERGE"]
             st == DecodeState(e.peerMsg)
             sn == SnapShotFromState(s, st)
  <2>1. g = Generated(e1, s, SnapshotMsg(sn), TRUE)
    BY <1>4 DEF GenerateMessage, exchange
  <2>2. e1.state = "MERGE" /\ e1.mapState = mine
    BY <1>e
  <2>3. Asked(p, s, mine, st)
    BY <1>4 DEF Informed
  <2>4. IsMapOf(st.add, Node, Nat) /\ IsMapOf(st.remove, Node, Nat)
    BY <1>t, DecodeType DEF IsMapState
  <2>5. Has(s, s, mine)
    BY <1>0, <1>4 DEF Late
  <2>6. sn.add = SaveWithKeys(s.add, DOMAIN st.add) /\ sn.remove = SaveWithKeys(s.remove, DOMAIN st.remove)
    BY DEF SnapShotFromState
  <2> HIDE DEF s, g, e1, st, sn, mine
  <2>7. /\ Answers(p.add, mine.add, SaveWithKeys(s.add, DOMAIN st.add),
                   p.highestStale, s.highestStale)
        /\ Answers(p.remove, mine.remove, SaveWithKeys(s.remove, DOMAIN st.remove),
                   p.highestStale, s.highestStale)
    BY <1>t, <2>3, <2>4, <2>5, SavedAnswers DEF Asked, Has
  <2>8. Answered(p, s, mine, sn)
    BY <2>6, <2>7 DEF Answered
  <2>9. g.end = e1 /\ g.store = s /\ g.msg = SnapshotMsg(sn)
    BY <2>1 DEF Generated
  <2>10. DecodeSnapshot(g.msg) = sn
    BY <2>9 DEF DecodeSnapshot, SnapshotMsg
  <2>11. Informed(p, g.end.state, theirs, g.store, g.end.mapState, g.msg)
    BY <2>2, <2>8, <2>9, <2>10 DEF Informed
  <2>12. KeepsItsWord(g.store, g.end)
    BY <2>2, <2>5, <2>9 DEF KeepsItsWord
  <2> QED
    BY <1>4, <2>2, <2>9, <2>11, <2>12 DEF g, mine
<1>5. CASE e.state = "MERGE"
  <2> DEFINE sn == DecodeSnapshot(e.peerMsg)
             a == sn.add
             d == sn.remove
             s1 == Merge(s, [add |-> a, remove |-> d], now)
  <2>0. IsSnapshot(sn)
    BY <1>t, DecodeType
  <2>1. g = Generated(e, s1, NoMsg, FALSE)
    BY <1>5, <2>0 DEF GenerateMessage, merge, IsSnapshot
  <2>2. IsMapOf(a, Node, Bucket) /\ IsMapOf(d, Node, Bucket)
    BY <2>0 DEF IsSnapshot
  <2>3. Answered(s, p, theirs, sn)
    BY <1>5 DEF Informed
  <2>4. /\ Answers(s.add, theirs.add, a, s.highestStale, p.highestStale)
        /\ Answers(s.remove, theirs.remove, d, s.highestStale, p.highestStale)
    BY <2>3 DEF Answered
  <2> HIDE DEF a, d, s
  <2>5. /\ s1.add = GMapMerge(s.add, a) /\ s1.remove = GMapMerge(s.remove, d)
        /\ s1.highestStale = s.highestStale
    BY <1>g, <2>2, MergeType
  <2> HIDE DEF s1, g
  <2>6. /\ HasAll(GMapMerge(s.add, a), theirs.add, s.highestStale, p.highestStale)
        /\ HasAll(GMapMerge(s.remove, d), theirs.remove, s.highestStale, p.highestStale)
    BY <1>t, <2>2, <2>4, MergedHas
  <2>7. Has(s1, p, theirs)
    BY <2>5, <2>6 DEF Has
  <2>8. g.end = e /\ g.store = s1 /\ g.more = FALSE
    BY <2>1 DEF Generated
  <2> QED
    BY <1>w, <2>7, <2>8 DEF g
<1> QED
  BY <1>t, <1>1, <1>2, <1>3, <1>4, <1>5 DEF SyncState

\* A session whose server has not answered yet needs nothing of the server.
LEMMA OnItsWayToAnybody ==
    ASSUME NEW c \in Node, InStep(c), IsSyncRecord(sync[c]), sync[c].srv.state = "HASH",
           NEW s, IsReplica(s), NEW r, Grows(s, r), NEW p, NEW o, OnItsWay(sync[c], s, p)
    PROVE  OnItsWay(sync[c], r, o)
<1> DEFINE q == sync[c]
<1>1. /\ q.pc = "client" => ClientInStep(q)
      /\ q.pc = "server" => ServerInStep(q)
      /\ q.pc = "reply" => ReplyInStep(q)
      /\ IsEndpoint(q.cli) /\ KeepsItsWord(s, q.cli)
      /\ q.pc # "reply" /\ q.srv.state = "HASH"
      /\ q.more \in BOOLEAN /\ q.open \in BOOLEAN
  BY DEF InStep, OnItsWay, IsSyncRecord
<1> HIDE DEF q
<1>2. KeepsItsWord(r, q.cli)
  BY <1>1, WordStays
<1>3. KeepsItsWord(o, q.srv)
  BY <1>1 DEF KeepsItsWord, Late
<1>4. \A x, y, a, b, m : Informed(x, "HASH", a, y, b, m) /\ Informed(x, "PREPARE", a, y, b, m)
  BY DEF Informed
<1>5. q.pc = "client" /\ q.open => q.cli.state = "HASH"
  BY <1>1 DEF ClientInStep
<1>6. q.pc = "server" /\ q.open => q.more /\ q.cli.state = "PREPARE"
  BY <1>1 DEF ServerInStep, After
<1>7. OnItsWay(q, r, o)
  BY <1>1, <1>2, <1>3, <1>4, <1>5, <1>6 DEF OnItsWay, BothInformed
<1> QED
  BY <1>7 DEF q

\* The client's state function.
LEMMA ClientSendTransfers ==
    ASSUME TypeOK, EndpointsInStep, EntriesCovered, NEW c \in Node,
           InSession(c) => OnItsWay(sync[c], store[c], store[sync[c].server]),
           ClientSend(c)
    PROVE  OnItsWay(sync'[c], store'[c], store'[sync'[c].server])
<1> DEFINE q == sync[c]
           g == GenerateMessage(q.cli, c)
           x == [q EXCEPT !.pc = "server", !.cli = g.end, !.msg = g.msg, !.more = g.more]
<1>t. /\ StoresTyped /\ SyncsTyped /\ now \in Nat
      /\ IsSyncRecord(q) /\ InStep(c) /\ IsEndpoint(q.cli) /\ IsEndpoint(q.srv)
      /\ IsMsg(q.msg) /\ IsMapState(q.cli.mapState) /\ IsMapState(q.srv.mapState)
      /\ IsMsg(q.cli.peerMsg) /\ IsMsg(q.srv.peerMsg)
      /\ \A n \in Node : IsReplica(store[n]) /\ Covered(store[n])
  BY DEF TypeOK, SyncsTyped, IsSyncRecord, EndpointsInStep, IsEndpoint, StoresTyped, EntriesCovered
<1>1. /\ q.pc = "client" /\ sync' = [sync EXCEPT ![c] = x]
      /\ store' = [store EXCEPT ![c] = g.store]
  BY DEF ClientSend
<1>2. PICK v \in Node : v = q.server
  BY <1>1, <1>t DEF IsSyncRecord
<1>3. IsGenerated(g)
  BY <1>t, GenerateMessageType
<1>4. IsSyncRecord(x)
  <2> HIDE DEF g, q
  <2> QED
    BY <1>2, <1>3, <1>t DEF IsSyncRecord, IsGenerated, SyncPC
<1>5. /\ x.cli = g.end /\ x.srv = q.srv /\ x.msg = g.msg /\ x.more = g.more
      /\ x.open = q.open /\ x.server = v /\ x.pc = "server"
  <2> HIDE DEF g, q
  <2> QED
    BY <1>2, <1>t DEF IsSyncRecord
<1>6. sync'[c] = x
  <2> HIDE DEF x
  <2> QED
    BY <1>1, <1>4, <1>t, SetSync
<1>7. store'[c] = g.store /\ \A n \in Node : n # c => store'[n] = store[n]
  <2> HIDE DEF g
  <2> QED
    BY <1>1, <1>3, <1>t, SetStore DEF IsGenerated
<1> DEFINE s == store[c]
           p == store[v]
           r == g.store
           o == store'[v]
           A == q.cli.mapState
           B == q.srv.mapState
<1>8. Grows(s, r) /\ IsReplica(r) /\ Covered(r)
  BY <1>t, GenerateGrows DEF Grows
<1>9. Grows(p, o) /\ Grows(r, r) /\ IsReplica(s) /\ IsReplica(p)
  <2>1. Grows(p, p)
    BY <1>t, MarkGrows
  <2>2. Grows(r, r)
    <3> HIDE DEF r
    <3> QED
      BY <1>8, MarkGrows
  <2> QED
    BY <1>7, <1>8, <1>t, <2>1, <2>2
<1>10. OnItsWay(q, s, p) /\ ClientInStep(q)
  BY <1>1, <1>2, <1>t DEF InSession, InStep
<1>11. /\ g.end.peerMsg = q.cli.peerMsg
       /\ \/ /\ q.cli.state \in DOMAIN After /\ g.end.state = After[q.cli.state]
             /\ g.more = TRUE /\ g.msg.kind # "nil"
          \/ /\ q.cli.state \in {"PREPARE", "MERGE"} /\ g.end.state = q.cli.state
             /\ g.more = FALSE /\ g.msg = NoMsg
  BY <1>t, GenerateEnd
<1>12. KeepsItsWord(o, q.srv) /\ KeepsItsWord(s, q.cli)
  <2>1. KeepsItsWord(p, q.srv) /\ KeepsItsWord(s, q.cli)
    BY <1>10 DEF OnItsWay
  <2> HIDE DEF o, p, q
  <2> QED
    BY <1>9, <1>t, <2>1, WordStays
<1>13. q.open \in BOOLEAN /\ g.more \in BOOLEAN
  BY <1>3, <1>t DEF IsSyncRecord, IsGenerated
<1>14. CASE ~q.open
  <2> DEFINE th == DecodeState(q.cli.peerMsg)
             e == q.cli
  <2>1. e.state = "PRESENT"
    BY <1>10, <1>14 DEF ClientInStep
  <2>2. IsMapState(th)
    BY <1>t, DecodeType
  <2>3. Informed(store[c], e.state, e.mapState, s, th, e.peerMsg)
    BY <2>1 DEF Informed
  <2>4. KeepsItsWord(r, g.end)
    <3> HIDE DEF th, e, q
    <3>1. IsEndpoint(e) /\ KeepsItsWord(store[c], e)
      BY <1>12, <1>t DEF e
    <3>2. KeepsItsWord(GenerateMessage(e, c).store, GenerateMessage(e, c).end)
      BY <1>t, <2>2, <2>3, <3>1, GenerateInforms
    <3> QED
      BY <3>2 DEF e
  <2> HIDE DEF x, g, q, r, o
  <2>5. OnItsWay(x, r, o)
    BY <1>5, <1>12, <1>14, <2>4 DEF OnItsWay
  <2> QED
    BY <1>5, <1>6, <1>7, <2>5 DEF r, o
<1>15. CASE q.open
  <2>1. /\ Informed(s, q.cli.state, A, p, B, q.cli.peerMsg)
        /\ Informed(p, q.srv.state, B, s, A, q.srv.peerMsg)
        /\ q.srv.state = q.cli.state
    BY <1>1, <1>10, <1>15 DEF OnItsWay, BothInformed, ClientInStep
  <2>2. /\ KeepsItsWord(r, g.end)
        /\ g.more => Informed(p, g.end.state, B, r, g.end.mapState, g.msg)
        /\ q.cli.state = "MERGE" => Has(r, p, B)
        /\ q.cli.state # "PREPARE" => g.end.mapState = A
    <3> DEFINE e == q.cli
               th == B
    <3>1. /\ IsEndpoint(e) /\ KeepsItsWord(store[c], e) /\ IsMapState(th) /\ IsReplica(p)
          /\ Informed(store[c], e.state, e.mapState, p, th, e.peerMsg)
          /\ IsReplica(store[c]) /\ Covered(store[c]) /\ now \in Nat
      BY <1>12, <1>t, <2>1
    <3> HIDE DEF e, th, p
    <3>2. LET gg == GenerateMessage(e, c)
          IN  /\ KeepsItsWord(gg.store, gg.end)
              /\ gg.more => Informed(p, gg.end.state, th, gg.store, gg.end.mapState, gg.msg)
              /\ e.state = "MERGE" => Has(gg.store, p, th)
              /\ e.state # "PREPARE" => gg.end.mapState = e.mapState
      BY <3>1, GenerateInforms
    <3> QED
      BY <3>2 DEF e, th
  <2>3. IsEndpoint(g.end) /\ IsMapState(g.end.mapState) /\ IsMsg(g.msg)
    BY <1>3 DEF IsGenerated, IsEndpoint
  <2>4. IsSnapshot(EmptySnapshot)
    BY EmptyMapType DEF EmptySnapshot, IsSnapshot
  <2> HIDE DEF x, g, q, r, o, s, p
  <2>5. g.more => Informed(o, g.end.state, B, r, g.end.mapState, g.msg)
    BY <1>8, <1>9, <1>t, <2>2, <2>3, InformedStays
  <2>6. Informed(o, q.srv.state, B, r, A, q.srv.peerMsg)
    BY <1>8, <1>9, <1>t, <2>1, InformedStays
  <2>7. Informed(o, q.srv.state, B, r, g.end.mapState, q.srv.peerMsg)
    <3>1. CASE q.cli.state = "PREPARE"
      BY <2>1, <3>1 DEF Informed
    <3>2. CASE q.cli.state # "PREPARE"
      BY <2>2, <2>6, <3>2
    <3> QED
      BY <3>1, <3>2
  <2>8. q.cli.state = "MERGE" => Has(r, o, B)
    BY <1>8, <1>9, <1>t, <2>2, <2>4, ReplicasStay
  <2>9. OnItsWay(x, r, o)
    BY <1>5, <1>12, <1>13, <2>1, <2>2, <2>5, <2>7, <2>8 DEF OnItsWay
  <2> QED
    BY <1>5, <1>6, <1>7, <2>9 DEF r, o
<1> QED
  BY <1>13, <1>14, <1>15

\* The server's state function.
LEMMA ServerReplyTransfers ==
    ASSUME TypeOK, EndpointsInStep, EntriesCovered, NEW c \in Node,
           InSession(c) => OnItsWay(sync[c], store[c], store[sync[c].server]),
           ServerReply(c)
    PROVE  OnItsWay(sync'[c], store'[c], store'[sync'[c].server])
<1> DEFINE q == sync[c]
<1>t. /\ StoresTyped /\ SyncsTyped /\ now \in Nat
      /\ IsSyncRecord(q) /\ InStep(c) /\ IsEndpoint(q.cli) /\ IsEndpoint(q.srv)
      /\ IsMsg(q.msg) /\ IsMapState(q.cli.mapState) /\ IsMapState(q.srv.mapState)
      /\ IsMsg(q.cli.peerMsg) /\ IsMsg(q.srv.peerMsg)
      /\ \A n \in Node : IsReplica(store[n]) /\ Covered(store[n])
  BY DEF TypeOK, SyncsTyped, IsSyncRecord, EndpointsInStep, IsEndpoint, StoresTyped, EntriesCovered
<1>0. q.pc = "server" /\ q.open
  BY DEF ServerReply
<1>2. PICK v \in Node : v = q.server
  BY <1>0, <1>t DEF IsSyncRecord
<1> DEFINE g == GenerateMessage(q.srv, v)
           e == RecvMessage(g.end, q.msg)
           x == [q EXCEPT !.pc = "reply", !.srv = e, !.msg = g.msg, !.open = g.more]
<1>1. /\ sync' = [sync EXCEPT ![c] = x]
      /\ store' = [store EXCEPT ![v] = g.store]
  BY <1>2 DEF ServerReply
<1>3. IsGenerated(g)
  BY <1>t, GenerateMessageType
<1>e. /\ e.state = g.end.state /\ e.mapState = g.end.mapState /\ IsEndpoint(e)
      /\ q.msg.kind # "nil" => e.peerMsg = q.msg
  <2>1. IsEndpoint(g.end) /\ IsMsg(q.msg)
    BY <1>3, <1>t DEF IsGenerated
  <2> HIDE DEF g, q
  <2>2. e.state = g.end.state /\ e.mapState = g.end.mapState
        /\ (q.msg.kind # "nil" => e.peerMsg = q.msg)
    BY <2>1, RecvMessageKeeps
  <2>3. IsEndpoint(e)
    BY <2>1, RecvMessageType
  <2> QED
    BY <2>2, <2>3
<1>4. IsSyncRecord(x)
  <2> HIDE DEF g, q, e
  <2> QED
    BY <1>2, <1>3, <1>e, <1>t DEF IsSyncRecord, IsGenerated, SyncPC
<1>5. /\ x.cli = q.cli /\ x.srv = e /\ x.msg = g.msg /\ x.more = q.more
      /\ x.open = g.more /\ x.server = v /\ x.pc = "reply"
  <2> HIDE DEF g, q, e
  <2> QED
    BY <1>2, <1>t DEF IsSyncRecord
<1>6. sync'[c] = x
  <2> HIDE DEF x
  <2> QED
    BY <1>1, <1>4, <1>t, SetSync
<1>7. store'[v] = g.store /\ \A n \in Node : n # v => store'[n] = store[n]
  <2> HIDE DEF g
  <2> QED
    BY <1>1, <1>3, <1>t, SetStore DEF IsGenerated
<1> DEFINE s == store[c]
           p == store[v]
           r == g.store
           o == store'[c]
           A == q.cli.mapState
           B == q.srv.mapState
<1>8. Grows(p, r) /\ IsReplica(r) /\ Covered(r)
  BY <1>t, GenerateGrows DEF Grows
<1>9. Grows(s, o) /\ Grows(r, r) /\ IsReplica(s) /\ IsReplica(p)
  <2>1. Grows(s, s)
    BY <1>t, MarkGrows
  <2>2. Grows(r, r)
    <3> HIDE DEF r
    <3> QED
      BY <1>8, MarkGrows
  <2> QED
    BY <1>7, <1>8, <1>t, <2>1, <2>2
<1>10. OnItsWay(q, s, p) /\ ServerInStep(q)
  BY <1>0, <1>2, <1>t DEF InSession, InStep
<1>11. \/ /\ q.srv.state \in DOMAIN After /\ g.end.state = After[q.srv.state]
          /\ g.more = TRUE /\ g.msg.kind # "nil"
       \/ /\ q.srv.state \in {"PREPARE", "MERGE"} /\ g.end.state = q.srv.state
          /\ g.more = FALSE /\ g.msg = NoMsg
  BY <1>t, GenerateEnd
<1>12. KeepsItsWord(o, q.cli) /\ KeepsItsWord(p, q.srv)
  <2>1. KeepsItsWord(s, q.cli) /\ KeepsItsWord(p, q.srv)
    BY <1>10 DEF OnItsWay
  <2> HIDE DEF o, s, q
  <2> QED
    BY <1>9, <1>t, <2>1, WordStays
<1>13. q.more \in BOOLEAN /\ g.more \in BOOLEAN
  BY <1>3, <1>t DEF IsSyncRecord, IsGenerated
<1>14. Informed(p, q.srv.state, B, s, A, q.srv.peerMsg)
  <2>1. CASE q.more
    BY <1>0, <1>10, <2>1 DEF OnItsWay
  <2>2. CASE ~q.more /\ q.srv.state = "MERGE"
    BY <1>0, <1>10, <2>2 DEF OnItsWay
  <2>3. CASE ~q.more /\ q.srv.state = "PREPARE"
    BY <2>3 DEF Informed
  <2> QED
    BY <1>0, <1>10, <1>13, <2>1, <2>2, <2>3 DEF ServerInStep
<1>15. /\ KeepsItsWord(r, g.end)
       /\ g.more => Informed(s, g.end.state, A, r, g.end.mapState, g.msg)
       /\ q.srv.state = "MERGE" => Has(r, s, A)
       /\ q.srv.state # "PREPARE" => g.end.mapState = B
  <2> DEFINE f == q.srv
             th == A
  <2>1. /\ IsEndpoint(f) /\ KeepsItsWord(store[v], f) /\ IsMapState(th) /\ IsReplica(s)
        /\ Informed(store[v], f.state, f.mapState, s, th, f.peerMsg)
        /\ IsReplica(store[v]) /\ Covered(store[v]) /\ now \in Nat
    BY <1>12, <1>14, <1>t
  <2> HIDE DEF f, th, s
  <2>2. LET gg == GenerateMessage(f, v)
        IN  /\ KeepsItsWord(gg.store, gg.end)
            /\ gg.more => Informed(s, gg.end.state, th, gg.store, gg.end.mapState, gg.msg)
            /\ f.state = "MERGE" => Has(gg.store, s, th)
            /\ f.state # "PREPARE" => gg.end.mapState = f.mapState
    BY <2>1, GenerateInforms
  <2> QED
    BY <2>2 DEF f, th
<1>16. IsEndpoint(g.end) /\ IsMapState(g.end.mapState) /\ IsMsg(g.msg) /\ IsSnapshot(EmptySnapshot)
  BY <1>3, EmptyMapType DEF IsGenerated, IsEndpoint, EmptySnapshot, IsSnapshot
<1> HIDE DEF x, g, q, e, r, o, s, p
<1>17. KeepsItsWord(r, e)
  BY <1>15, <1>e DEF KeepsItsWord
<1>18. e.state # "HASH"
  BY <1>11, <1>e DEF After
<1>19. ASSUME q.more, g.more
       PROVE  g.msg.kind # "nil" /\ BothInformed(x, o, r, g.msg)
  <2>1. /\ q.srv.state \in DOMAIN After /\ q.cli.state = After[q.srv.state]
        /\ q.msg.kind # "nil"
    BY <1>0, <1>10, <1>19 DEF ServerInStep
  <2>2. g.end.state = q.cli.state /\ g.msg.kind # "nil"
    BY <1>11, <1>19, <2>1
  <2>3. Informed(o, g.end.state, A, r, g.end.mapState, g.msg)
    BY <1>8, <1>9, <1>15, <1>16, <1>19, <1>t, InformedStays
  <2>4. Informed(p, q.cli.state, B, s, A, q.msg)
    BY <1>0, <1>10, <1>19 DEF OnItsWay
  <2>5. Informed(r, q.cli.state, B, o, A, q.msg)
    BY <1>8, <1>9, <1>t, <2>4, InformedStays
  <2>6. Informed(r, q.cli.state, g.end.mapState, o, A, q.msg)
    <3>1. CASE q.srv.state = "PREPARE"
      <4>1. q.cli.state = "PRESENT"
        BY <2>1, <3>1 DEF After
      <4> QED
        BY <2>5, <4>1 DEF Informed
    <3>2. CASE q.srv.state # "PREPARE"
      BY <1>15, <2>5, <3>2
    <3> QED
      BY <3>1, <3>2
  <2> QED
    BY <1>5, <1>e, <2>1, <2>2, <2>3, <2>6 DEF BothInformed
<1>20. ASSUME ~q.more, q.cli.state = "MERGE" PROVE Has(o, r, e.mapState) /\ Has(r, o, A)
  <2>1. q.srv.state = "MERGE"
    BY <1>0, <1>10, <1>20 DEF ServerInStep
  <2>2. Has(s, p, B) /\ Has(r, s, A) /\ e.mapState = B
    BY <1>0, <1>10, <1>15, <1>20, <1>e, <2>1 DEF OnItsWay
  <2> QED
    BY <1>8, <1>9, <1>16, <1>t, <2>2, ReplicasStay
<1>21. OnItsWay(x, o, r)
  BY <1>5, <1>12, <1>13, <1>17, <1>18, <1>19, <1>20 DEF OnItsWay
<1> QED
  BY <1>5, <1>6, <1>7, <1>21 DEF r, o

\* A new session, and one whose client receives a reply.
LEMMA OthersTransfer ==
    ASSUME TypeOK, EndpointsInStep, NEW c \in Node,
           InSession(c) => OnItsWay(sync[c], store[c], store[sync[c].server]),
           (\E s \in Node : OpenStream(c, s)) \/ (ClientReceive(c) /\ sync[c].more)
    PROVE  OnItsWay(sync'[c], store'[c], store'[sync'[c].server])
<1> DEFINE q == sync[c]
<1>t. /\ SyncsTyped /\ IsSyncRecord(q) /\ InStep(c) /\ now \in Nat
      /\ IsEndpoint(q.cli) /\ IsMsg(q.msg)
  BY DEF TypeOK, SyncsTyped, IsSyncRecord, EndpointsInStep
<1>1. ASSUME NEW s \in Node, OpenStream(c, s)
      PROVE  OnItsWay(sync'[c], store'[c], store'[sync'[c].server])
  <2> DEFINE x == [q EXCEPT !.pc = "client", !.targets = @ \ {s}, !.server = s,
                            !.start = now, !.cli = NewTwoPhaseSyncer,
                            !.srv = NewTwoPhaseSyncer, !.msg = NoMsg,
                            !.more = TRUE, !.open = TRUE]
  <2>1. sync' = [sync EXCEPT ![c] = x]
    BY <1>1 DEF OpenStream
  <2>2. x.pc = "client" /\ x.cli.state = "HASH" /\ x.srv.state = "HASH"
    BY <1>t DEF IsSyncRecord, NewTwoPhaseSyncer
  <2> HIDE DEF x
  <2>3. sync'[c] = x
    BY <1>t, <2>1 DEF SyncsTyped
  <2>4. \A a, b : OnItsWay(x, a, b)
    BY <2>2 DEF OnItsWay, KeepsItsWord, BothInformed, Informed, Late
  <2> QED
    BY <2>3, <2>4
<1>2. ASSUME ClientReceive(c), q.more
      PROVE  OnItsWay(sync'[c], store'[c], store'[sync'[c].server])
  <2> DEFINE e == RecvMessage(q.cli, q.msg)
             x == [q EXCEPT !.pc = "client", !.msg = NoMsg, !.cli = e]
  <2>1. q.pc = "reply" /\ sync' = [sync EXCEPT ![c] = x] /\ store' = store
    BY <1>2 DEF ClientReceive
  <2>2. /\ e.state = q.cli.state /\ e.mapState = q.cli.mapState
        /\ q.msg.kind # "nil" => e.peerMsg = q.msg
    BY <1>t, RecvMessageKeeps
  <2>3. OnItsWay(q, store[c], store[q.server])
    BY <2>1 DEF InSession
  <2> HIDE DEF q, e
  <2>4. /\ x.cli = e /\ x.srv = q.srv /\ x.open = q.open /\ x.server = q.server
        /\ x.pc = "client"
    BY <1>t DEF IsSyncRecord
  <2> HIDE DEF x
  <2>5. sync'[c] = x
    BY <1>t, <2>1 DEF SyncsTyped
  <2>6. OnItsWay(x, store[c], store[q.server])
    BY <1>2, <2>1, <2>2, <2>3, <2>4 DEF OnItsWay, BothInformed, KeepsItsWord
  <2> QED
    BY <2>1, <2>4, <2>5, <2>6
<1> QED
  BY <1>1, <1>2

\* The ways in which a step changes the record of a Sync.
LEMMA SyncMoves ==
    ASSUME TypeOK, [Next]_vars, NEW d \in Node
    PROVE  \/ sync'[d] = sync[d]
           \/ sync'[d].pc \in {"idle", "loop"}
           \/ \E s \in Node : OpenStream(d, s)
           \/ ClientSend(d)
           \/ ServerReply(d)
           \/ ClientReceive(d) /\ sync[d].more
<1>t. /\ SyncsTyped /\ IsSyncRecord(sync[d]) /\ sync[d].more \in BOOLEAN
      /\ \A c \in Node : IsSyncRecord(sync[c])
  BY DEF TypeOK, SyncsTyped, IsSyncRecord
<1>1. CASE sync' = sync
  BY <1>1
<1>2. ASSUME NEW c \in Node, NEW x, sync' = [sync EXCEPT ![c] = x], x.pc \in {"idle", "loop"}
      PROVE  sync'[d] = sync[d] \/ sync'[d].pc \in {"idle", "loop"}
  BY <1>2, <1>t DEF SyncsTyped
<1>3. ASSUME NEW c \in Node, NEW x, sync' = [sync EXCEPT ![c] = x], c # d
      PROVE  sync'[d] = sync[d]
  BY <1>3, <1>t DEF SyncsTyped
<1>i. Idle.pc = "idle" /\ \A c \in Node : \A ok : SessionOver(c, ok).pc = "loop"
  BY <1>t DEF Idle, SessionOver, IsSyncRecord
<1>4. ASSUME NEW c \in Node,
             \/ CreateMesh(c)
             \/ \E p \in Node : JoinMesh(c, p) \/ RejoinMesh(c, p)
             \/ \E h \in Handler, kind \in Kind : BeginUpdate(h, c, kind)
             \/ LeaveMesh(c) \/ SyncQuietly(c)
             \/ UNCHANGED vars \/ Tick
      PROVE  sync' = sync
  BY <1>4 DEF CreateMesh, JoinMesh, RejoinMesh, BeginUpdate, LeaveMesh, SyncQuietly, vars, Tick
<1>10. ASSUME NEW h \in Handler, UpdateStep(h)
       PROVE  sync'[d] = sync[d] \/ sync'[d].pc \in {"idle", "loop"}
  <2>1. sync' = sync \/ \E c \in Node : sync' = [sync EXCEPT ![c] = Idle]
    BY <1>10, UpdateMoves
  <2> QED
    BY <1>2, <1>i, <2>1
<1>5. ASSUME NEW c \in Node,
             \/ Crash(c) \/ EndSync(c) \/ EndPull(c)
             \/ \E p \in Node : Pull(c, p)
             \/ StartSync(c)
             \/ \E s \in Node : SkipTarget(c, s)
      PROVE  sync'[d] = sync[d] \/ sync'[d].pc \in {"idle", "loop"}
  <2>1. CASE Crash(c) \/ EndSync(c) \/ EndPull(c)
    <3>1. sync' = [sync EXCEPT ![c] = Idle]
      BY <2>1 DEF Crash, EndSync, EndPull
    <3> QED
      BY <1>2, <1>i, <3>1
  <2>2. ASSUME NEW p \in Node, Pull(c, p)
        PROVE  sync'[d] = sync[d] \/ sync'[d].pc \in {"idle", "loop"}
    <3> DEFINE x == [Idle EXCEPT !.pc = "loop", !.pull = TRUE, !.targets = {p}]
    <3>1. sync' = [sync EXCEPT ![c] = x]
      BY <2>2 DEF Pull
    <3>2. x.pc = "loop"
      BY DEF Idle
    <3> QED
      BY <1>2, <3>1, <3>2
  <2>3. CASE StartSync(c)
    <3>1. PICK ts : sync' = [sync EXCEPT ![c] = [Idle EXCEPT !.pc = "loop", !.targets = ts]]
      BY <2>3 DEF StartSync
    <3> DEFINE x == [Idle EXCEPT !.pc = "loop", !.targets = ts]
    <3>2. x.pc = "loop"
      BY DEF Idle
    <3> QED
      BY <1>2, <3>1, <3>2
  <2>4. ASSUME NEW s \in Node, SkipTarget(c, s)
        PROVE  sync'[d] = sync[d] \/ sync'[d].pc \in {"idle", "loop"}
    <3> DEFINE x == [sync[c] EXCEPT !.targets = @ \ {s}]
    <3>1. sync' = [sync EXCEPT ![c] = x] /\ sync[c].pc = "loop"
      BY <2>4, <1>t DEF SkipTarget, SyncsTyped
    <3>2. x.pc = "loop"
      BY <1>t, <3>1 DEF IsSyncRecord
    <3> HIDE DEF x
    <3> QED
      BY <1>2, <3>1, <3>2
  <2> QED
    BY <1>5, <2>1, <2>2, <2>3, <2>4
<1>6. ASSUME NEW c \in Node, \E s \in Node : OpenStream(c, s)
      PROVE  sync'[d] = sync[d] \/ \E s \in Node : OpenStream(d, s)
  <2>1. \E x : sync' = [sync EXCEPT ![c] = x]
    BY <1>6 DEF OpenStream
  <2> QED
    BY <1>3, <1>6, <2>1
<1>7. ASSUME NEW c \in Node, ClientSend(c) \/ ServerReply(c)
      PROVE  sync'[d] = sync[d] \/ ClientSend(d) \/ ServerReply(d)
  <2>1. \E x : sync' = [sync EXCEPT ![c] = x]
    BY <1>7 DEF ClientSend, ServerReply
  <2> QED
    BY <1>3, <1>7, <2>1
<1>8. ASSUME NEW c \in Node, ClientReceive(c)
      PROVE  \/ sync'[d] = sync[d] \/ sync'[d].pc \in {"idle", "loop"}
             \/ ClientReceive(d) /\ sync[d].more
  <2>1. \E x : sync' = [sync EXCEPT ![c] = x]
    BY <1>8 DEF ClientReceive
  <2>2. ~sync[c].more => sync' = [sync EXCEPT ![c] = SessionOver(c, TRUE)]
    BY <1>8 DEF ClientReceive
  <2> QED
    BY <1>2, <1>3, <1>8, <1>i, <2>1, <2>2
<1>9. ASSUME NEW c \in Node,
             StreamEOF(c) \/ ServerRefuses(c) \/ StreamBroken(c) \/ StreamTimesOut(c)
      PROVE  sync'[d] = sync[d] \/ sync'[d].pc \in {"idle", "loop"}
  <2>1. \/ sync' = [sync EXCEPT ![c] = SessionOver(c, TRUE)]
        \/ sync' = [sync EXCEPT ![c] = SessionOver(c, FALSE)]
        \/ sync' = [sync EXCEPT ![c] = Idle]
    BY <1>9 DEF StreamEOF, ServerRefuses, StreamBroken, StreamTimesOut, HandleFailed
  <2> QED
    BY <1>2, <1>i, <2>1
<1> QED
  BY <1>1, <1>4, <1>5, <1>6, <1>7, <1>8, <1>9, <1>10 DEF Next, SyncStep, SessionStep

\* The replicas of a session grow, unless its server joins in before it answers.
LEMMA SessionGrows ==
    ASSUME TypeOK, HandlersJoined, EndpointsInStep, EntriesCovered, [Next]_vars,
           NEW c \in Node, InSession(c)
    PROVE  /\ Grows(store[c], store'[c])
           /\ \/ Grows(store[sync[c].server], store'[sync[c].server])
              \/ sync[c].srv.state = "HASH"
<1>t. /\ StoresTyped /\ IsSyncRecord(sync[c]) /\ InStep(c)
      /\ \A n \in Node : IsReplica(store[n]) /\ Covered(store[n])
  BY DEF TypeOK, SyncsTyped, EndpointsInStep, StoresTyped, EntriesCovered
<1>0. \A n \in Node : Grows(store[n], store[n])
  BY <1>t, MarkGrows
<1>1. \A n \in Node : Grows(store[n], store'[n]) \/ \E r : Joins(n, r)
  <2>1. CASE TouchesNone
    BY <1>0, <2>1 DEF TouchesNone
  <2>2. ASSUME NEW k \in Node, NEW r, NEW m, Touches(k, r, m), NEW n \in Node
        PROVE  Grows(store[n], store'[n]) \/ \E x : Joins(n, x)
    <3>1. IsReplica(r) /\ (Joins(k, r) \/ Grows(store[k], r))
      BY <2>2, TouchGrows
    <3>2. store'[k] = r /\ \A j \in Node : j # k => store'[j] = store[j]
      BY <1>t, <2>2, <3>1, SetStore DEF Touches
    <3> QED
      BY <1>0, <3>1, <3>2
  <2> QED
    BY <2>1, <2>2, StepTouches
<1>2. PICK v \in Node : v = sync[c].server
  BY <1>t DEF IsSyncRecord, InSession
<1>3. \A r : ~Joins(c, r)
  BY <1>t DEF InStep, InSession, InMesh, Joins
<1>4. sync[c].srv.state = "HASH" \/ \A r : ~Joins(v, r)
  BY <1>2, <1>t DEF InStep, Joins, OpenSessions
<1> QED
  BY <1>1, <1>2, <1>3, <1>4

\* Every step keeps the sessions on their way.
LEMMA TransferStep ==
    ASSUME TypeOK, HandlersJoined, EndpointsInStep, EntriesCovered, TransfersOnTheirWay,
           [Next]_vars
    PROVE  TransfersOnTheirWay'
<1> SUFFICES ASSUME NEW c \in Node, InSession(c)'
             PROVE  OnItsWay(sync'[c], store'[c], store'[sync'[c].server])
  BY DEF TransfersOnTheirWay
<1>t. /\ StoresTyped /\ IsSyncRecord(sync[c]) /\ InStep(c)
      /\ \A n \in Node : IsReplica(store[n])
  BY DEF TypeOK, SyncsTyped, EndpointsInStep, StoresTyped
<1>0. sync'[c].pc \notin {"idle", "loop"}
  BY DEF InSession
<1>w. InSession(c) => OnItsWay(sync[c], store[c], store[sync[c].server])
  BY DEF TransfersOnTheirWay
<1>1. CASE sync'[c] = sync[c]
  <2>1. InSession(c)
    BY <1>1 DEF InSession
  <2>2. PICK v \in Node : v = sync[c].server
    BY <1>t, <2>1 DEF IsSyncRecord, InSession
  <2>3. Grows(store[c], store'[c]) /\ (Grows(store[v], store'[v]) \/ sync[c].srv.state = "HASH")
    BY <2>1, <2>2, SessionGrows
  <2>4. OnItsWay(sync[c], store[c], store[v]) /\ IsReplica(store[c]) /\ IsReplica(store[v])
    BY <1>t, <1>w, <2>1, <2>2
  <2>5. OnItsWay(sync[c], store'[c], store'[v])
    <3>1. CASE Grows(store[v], store'[v])
      BY <1>t, <2>3, <2>4, <3>1, OnItsWayStays
    <3>2. CASE sync[c].srv.state = "HASH"
      BY <1>t, <2>3, <2>4, <3>2, OnItsWayToAnybody
    <3> QED
      BY <2>3, <3>1, <3>2
  <2> QED
    BY <1>1, <2>2, <2>5
<1>2. CASE ClientSend(c)
  BY <1>2, <1>w, ClientSendTransfers
<1>3. CASE ServerReply(c)
  BY <1>3, <1>w, ServerReplyTransfers
<1>4. CASE (\E s \in Node : OpenStream(c, s)) \/ (ClientReceive(c) /\ sync[c].more)
  BY <1>4, <1>w, OthersTransfer
<1> QED
  BY <1>0, <1>1, <1>2, <1>3, <1>4, SyncMoves

\* The larger of two numbers.
LEMMA MaxOfTwo ==
    ASSUME NEW a \in Nat, NEW b \in Nat
    PROVE  Max({a, b}) \in Nat /\ Max({a, b}) >= a /\ Max({a, b}) >= b
<1>1. \E m \in {a, b} : \A x \in {a, b} : m >= x
  <2>1. CASE a >= b
    BY <2>1
  <2>2. CASE b >= a
    BY <2>2
  <2> QED
    BY <2>1, <2>2
<1>2. /\ Max({a, b}) \in {a, b}
      /\ \A x \in {a, b} : Max({a, b}) >= x
  BY <1>1 DEF Max
<1> QED
  BY <1>2

\* The five rounds of two_phase_map_syncer.go, with the server answering before
\* it keeps what it received, and with other sessions, updates and Prune between
\* any two messages: a session that ends without an error has transferred to
\* each side whatever the other announced and neither has collected.  It holds
\* for every mesh, also when nodes fail, leave and join again.
THEOREM SessionsTransferAll == Spec => []SessionTransfersAll
<1>1. Init => TransfersOnTheirWay
  BY DEF Init, Idle, TransfersOnTheirWay, InSession
<1>2. /\ TypeOK /\ HandlersJoined /\ EndpointsInStep /\ EntriesCovered
      /\ TransfersOnTheirWay /\ [Next]_vars
      => TransfersOnTheirWay'
  BY TransferStep
<1>3. TypeOK /\ TransfersOnTheirWay => SessionTransfersAll
  <2> SUFFICES ASSUME TypeOK, TransfersOnTheirWay, NEW c \in Node, Exchanged(c)
               PROVE  LET s == sync[c].server
                          stale == Max({store[c].highestStale, store[s].highestStale})
                      IN  /\ Holds(c, sync[c].srv.mapState, stale)
                          /\ Holds(s, sync[c].cli.mapState, stale)
    BY DEF SessionTransfersAll
  <2>1. InSession(c) /\ IsSyncRecord(sync[c])
    BY DEF Exchanged, InSession, TypeOK, SyncsTyped
  <2>2. PICK v \in Node : v = sync[c].server
    BY <2>1 DEF InSession, IsSyncRecord
  <2> DEFINE A == sync[c].cli.mapState
             B == sync[c].srv.mapState
             h == store[c].highestStale
             i == store[v].highestStale
             stale == Max({h, i})
  <2>3. OnItsWay(sync[c], store[c], store[v])
    BY <2>1, <2>2 DEF TransfersOnTheirWay
  <2>4. Has(store[c], store[v], B) /\ Has(store[v], store[c], A)
    BY <2>3 DEF OnItsWay, Exchanged
  <2>5. h \in Nat /\ i \in Nat
    BY DEF TypeOK, StoresTyped, IsReplica
  <2>6. stale \in Nat /\ stale >= h /\ stale >= i
    <3> HIDE DEF h, i
    <3> QED
      BY <2>5, MaxOfTwo
  <2>7. /\ IsMapOf(A.add, Node, Nat) /\ IsMapOf(A.remove, Node, Nat)
        /\ IsMapOf(B.add, Node, Nat) /\ IsMapOf(B.remove, Node, Nat)
    BY <2>1 DEF IsSyncRecord, IsEndpoint, IsMapState
  <2> HIDE DEF stale
  <2>8. ASSUME NEW f, NEW a, IsMapOf(a, Node, Nat), HasAll(f, a, h, i) \/ HasAll(f, a, i, h),
               NEW k \in DOMAIN a, a[k] > stale
        PROVE  At(f, k, ZeroBucket).Vector >= a[k]
    <3>1. a[k] \in Nat /\ a[k] > h /\ a[k] > i
      BY <2>5, <2>6, <2>8, MapNat
    <3> QED
      BY <2>8, <3>1 DEF HasAll, At
  <2> HIDE DEF A, B, h, i
  <2>9. Holds(c, B, stale)
    <3>1. HasAll(store[c].add, B.add, h, i) /\ HasAll(store[c].remove, B.remove, h, i)
      BY <2>4 DEF Has, h, i
    <3>2. \A k \in DOMAIN B.add : B.add[k] > stale => At(store[c].add, k, ZeroBucket).Vector >= B.add[k]
      BY <2>7, <2>8, <3>1
    <3>3. \A k \in DOMAIN B.remove : B.remove[k] > stale
            => At(store[c].remove, k, ZeroBucket).Vector >= B.remove[k]
      BY <2>7, <2>8, <3>1
    <3> QED
      BY <3>2, <3>3 DEF Holds
  <2>10. Holds(v, A, stale)
    <3>1. HasAll(store[v].add, A.add, i, h) /\ HasAll(store[v].remove, A.remove, i, h)
      BY <2>4 DEF Has, h, i
    <3>2. \A k \in DOMAIN A.add : A.add[k] > stale => At(store[v].add, k, ZeroBucket).Vector >= A.add[k]
      BY <2>7, <2>8, <3>1
    <3>3. \A k \in DOMAIN A.remove : A.remove[k] > stale
            => At(store[v].remove, k, ZeroBucket).Vector >= A.remove[k]
      BY <2>7, <2>8, <3>1
    <3> QED
      BY <3>2, <3>3 DEF Holds
  <2> QED
    BY <2>2, <2>9, <2>10 DEF A, B, h, i, stale
<1> QED
  BY <1>1, <1>2, <1>3, TypeCorrect, OnlyMembersHandle, SessionsStayInStep, EntriesStayCovered,
     PTL DEF Spec
=============================================================================
