----------------------------- MODULE MeshSyncProofs -----------------------------
(***************************************************************************)
(* Type correctness of MeshSync, and the proof that no replica is ever      *)
(* ahead of the owner of a clock and that no node collects its own clock.   *)
(***************************************************************************)
EXTENDS MeshSync, TwoPhaseMapProofs
-----------------------------------------------------------------------------
(* Messages *)

\* The constructors of messages.
LEMMA MsgType ==
    /\ IsMsg(NoMsg)
    /\ \A h \in Nat : IsMsg(HashMsg(h))
    /\ \A st : IsMapState(st) => IsMsg(StateMsg(st))
    /\ \A sn : IsSnapshot(sn) => IsMsg(SnapshotMsg(sn))
BY DEF IsMsg, NoMsg, HashMsg, StateMsg, SnapshotMsg

\* Decoding gives a well-formed value whatever was received.
LEMMA DecodeType ==
    ASSUME NEW m, IsMsg(m)
    PROVE  /\ IsMapState(DecodeState(m))
           /\ IsSnapshot(DecodeSnapshot(m))
<1>1. IsMapState(EmptyState) /\ IsSnapshot(EmptySnapshot)
  <2>1. IsMapOf(EmptyMap, Node, Nat) /\ IsMapOf(EmptyMap, Node, Bucket)
    BY EmptyMapType
  <2> QED
    BY <2>1 DEF EmptyState, EmptySnapshot, IsMapState, IsSnapshot
<1>2. m.kind = "state" => IsMapState(m.state)
  BY DEF IsMsg, NoMsg
<1>3. m.kind = "snapshot" => IsSnapshot(m.snapshot)
  BY DEF IsMsg, NoMsg
<1> QED
  BY <1>1, <1>2, <1>3 DEF DecodeState, DecodeSnapshot

\* GenerateMessage of the map: the state that is announced.
LEMMA GenerateStateType ==
    ASSUME NEW s, IsReplica(s)
    PROVE  IsMapState(GenerateState(s))
<1>1. IsMapOf(GetClock(s), Node, Nat)
  BY GetClockType
<1>2. IsMapOf(GMapClock(s.add), Node, Nat) /\ IsMapOf(GMapClock(s.remove), Node, Nat)
  BY GMapClockType DEF IsReplica
<1> QED
  BY <1>1, <1>2 DEF GenerateState, IsMapState

\* Newer keeps entries of what the peer announced.
LEMMA NewerType ==
    ASSUME NEW mine, NEW theirs, IsMapOf(theirs, Node, Nat), NEW h
    PROVE  /\ IsMapOf(Newer(mine, theirs, h), Node, Nat)
           /\ DOMAIN Newer(mine, theirs, h) \subseteq DOMAIN theirs
           /\ \A k \in DOMAIN Newer(mine, theirs, h) :
                Newer(mine, theirs, h)[k] = theirs[k]
<1> DEFINE D == {k \in DOMAIN theirs : theirs[k] > h /\ (k \in DOMAIN mine => mine[k] < theirs[k])}
<1>1. Newer(mine, theirs, h) = [k \in D |-> theirs[k]]
  BY DEF Newer, Restrict
<1>2. D \subseteq DOMAIN theirs
  OBVIOUS
<1> HIDE DEF D
<1> QED
  BY <1>1, <1>2 DEF IsMapOf

\* Difference: the state that is asked for.
LEMMA DifferenceType ==
    ASSUME NEW mine, NEW theirs, IsMapState(theirs), NEW h
    PROVE  IsMapState(Difference(mine, theirs, h))
<1>1. IsMapOf(Newer(mine.add, theirs.add, h), Node, Nat)
  BY NewerType DEF IsMapState
<1>2. IsMapOf(Newer(mine.remove, theirs.remove, h), Node, Nat)
  BY NewerType DEF IsMapState
<1>3. IsMapOf(EmptyMap, Node, Nat)
  BY EmptyMapType
<1> QED
  BY <1>1, <1>2, <1>3 DEF Difference, IsMapState

\* SnapShotFromState: the buckets that are sent.
LEMMA SnapShotFromStateType ==
    ASSUME NEW s, IsReplica(s), NEW st, IsMapState(st)
    PROVE  IsSnapshot(SnapShotFromState(s, st))
<1>1. DOMAIN st.add \in SUBSET Node /\ DOMAIN st.remove \in SUBSET Node
  BY DEF IsMapState, IsMapOf
<1>2. IsMapOf(s.add, Node, Bucket) /\ IsMapOf(s.remove, Node, Bucket)
  BY DEF IsReplica
<1>3. IsMapOf(SaveWithKeys(s.add, DOMAIN st.add), Node, Bucket)
  BY <1>1, <1>2, SaveWithKeysType
<1>4. IsMapOf(SaveWithKeys(s.remove, DOMAIN st.remove), Node, Bucket)
  BY <1>1, <1>2, SaveWithKeysType
<1> QED
  BY <1>3, <1>4 DEF SnapShotFromState, IsSnapshot
-----------------------------------------------------------------------------
(* Endpoints *)

\* RecvMessage keeps an endpoint an endpoint, in the same state.
LEMMA RecvMessageType ==
    ASSUME NEW e, IsEndpoint(e), NEW m, IsMsg(m)
    PROVE  /\ IsEndpoint(RecvMessage(e, m))
           /\ RecvMessage(e, m).state = e.state
           /\ RecvMessage(e, m).peerMsg \in {e.peerMsg, m}
<1>1. CASE m.kind = "nil"
  BY <1>1 DEF RecvMessage
<1>2. CASE m.kind # "nil"
  <2>1. RecvMessage(e, m) = [state |-> e.state, mapState |-> e.mapState, peerMsg |-> m]
    BY <1>2 DEF RecvMessage, IsEndpoint
  <2> QED
    BY <2>1 DEF IsEndpoint
<1> QED
  BY <1>1, <1>2

\* What a state function returns is well-formed.
IsGenerated(g) ==
    /\ IsEndpoint(g.end)
    /\ IsReplica(g.store)
    /\ IsMsg(g.msg)
    /\ g.more \in BOOLEAN

\* GenerateMessage: each state function keeps the endpoint and the store
\* well-formed, and generates a well-formed message.
LEMMA GenerateMessageType ==
    ASSUME NEW n \in Node, IsReplica(store[n]), NEW e, IsEndpoint(e), now \in Nat
    PROVE  IsGenerated(GenerateMessage(e, n))
<1> DEFINE s == store[n]
<1>0. ASSUME NEW x \in SyncState, NEW st, IsMapState(st)
      PROVE  IsEndpoint([state |-> x, mapState |-> st, peerMsg |-> e.peerMsg])
  BY <1>0 DEF IsEndpoint
<1> HIDE DEF s
<1>s. IsReplica(s)
  BY DEF s
<1>m. IsMsg(NoMsg)
  BY MsgType
<1>t. IsMapState(e.mapState) /\ IsMsg(e.peerMsg)
  BY DEF IsEndpoint
<1>1. IsGenerated(hash(e, s))
  <2>1. IsMsg(HashMsg(ClockHash(s)))
    BY MsgType, WrapType DEF ClockHash
  <2>2. [e EXCEPT !.state = "PREPARE"] =
            [state |-> "PREPARE", mapState |-> e.mapState, peerMsg |-> e.peerMsg]
    BY DEF IsEndpoint
  <2>3. IsEndpoint([e EXCEPT !.state = "PREPARE"])
    BY <1>0, <1>t, <2>2 DEF SyncState
  <2> QED
    BY <1>s, <2>1, <2>3 DEF hash, Generated, IsGenerated
<1>2. IsGenerated(prepare(e, s, n))
  <2> DEFINE s1 == IncrementClock(s, n, now)
             st == GenerateState(s1)
             e1 == [e EXCEPT !.state = "PRESENT", !.mapState = st]
  <2>1. IsReplica(s1)
    BY <1>s, IncrementClockType
  <2> HIDE DEF s1
  <2>2. IsMapState(st)
    BY <2>1, GenerateStateType
  <2> HIDE DEF st
  <2>3. /\ e1 \in [state : SyncState, mapState : {st}, peerMsg : {e.peerMsg}]
        /\ e1.mapState = st /\ e1.peerMsg = e.peerMsg
    BY DEF IsEndpoint, SyncState
  <2> HIDE DEF e1
  <2>4. IsEndpoint(e1)
    BY <1>t, <2>2, <2>3 DEF IsEndpoint
  <2>5. IsGenerated(Generated(e1, s1, StateMsg(st), TRUE))
    BY <2>1, <2>2, <2>4, MsgType DEF Generated, IsGenerated
  <2>6. IsGenerated(Generated(e, s, NoMsg, FALSE))
    BY <1>s, <1>m DEF Generated, IsGenerated
  <2>7. \/ prepare(e, s, n) = Generated(e, s, NoMsg, FALSE)
        \/ prepare(e, s, n) = Generated(e1, s1, StateMsg(st), TRUE)
    BY DEF prepare, e1, s1, st
  <2> QED
    BY <2>5, <2>6, <2>7
<1>3. IsGenerated(present(e, s))
  <2> DEFINE theirs == DecodeState(e.peerMsg)
             s1 == ClockMerge(s, theirs.vectors, now)
             df == Difference(e.mapState, theirs, s.highestStale)
             e1 == [e EXCEPT !.state = "EXCHANGE"]
  <2>1. IsMapState(theirs)
    BY <1>t, DecodeType
  <2> HIDE DEF theirs
  <2>2. IsReplica(s1)
    BY <1>s, <2>1, ClockMergeType DEF IsMapState
  <2>3. IsMapState(df)
    BY <2>1, DifferenceType
  <2>4. e1 = [state |-> "EXCHANGE", mapState |-> e.mapState, peerMsg |-> e.peerMsg]
    BY DEF IsEndpoint
  <2>5. IsEndpoint(e1)
    BY <1>0, <1>t, <2>4 DEF SyncState
  <2>6. present(e, s) = Generated(e1, s1, StateMsg(df), TRUE)
    BY DEF present, theirs
  <2> HIDE DEF e1, s1, df
  <2> QED
    BY <2>2, <2>3, <2>5, <2>6, MsgType DEF Generated, IsGenerated
<1>4. IsGenerated(exchange(e, s))
  <2> DEFINE st == DecodeState(e.peerMsg)
             sn == SnapShotFromState(s, st)
             e1 == [e EXCEPT !.state = "MERGE"]
  <2>1. IsMapState(st)
    BY <1>t, DecodeType
  <2> HIDE DEF st
  <2>2. IsSnapshot(sn)
    BY <1>s, <2>1, SnapShotFromStateType
  <2>3. e1 = [state |-> "MERGE", mapState |-> e.mapState, peerMsg |-> e.peerMsg]
    BY DEF IsEndpoint
  <2>4. IsEndpoint(e1)
    BY <1>0, <1>t, <2>3 DEF SyncState
  <2>5. exchange(e, s) = Generated(e1, s, SnapshotMsg(sn), TRUE)
    BY DEF exchange, st
  <2> HIDE DEF e1, sn
  <2> QED
    BY <1>s, <2>2, <2>4, <2>5, MsgType DEF Generated, IsGenerated
<1>5. IsGenerated(merge(e, s))
  <2> DEFINE sn == DecodeSnapshot(e.peerMsg)
             s1 == Merge(s, sn, now)
  <2>1. IsSnapshot(sn)
    BY <1>t, DecodeType
  <2> HIDE DEF sn
  <2>2. IsReplica(Merge(s, [add |-> sn.add, remove |-> sn.remove], now))
    BY <1>s, <2>1, MergeType DEF IsSnapshot
  <2>3. sn = [add |-> sn.add, remove |-> sn.remove]
    BY <2>1 DEF IsSnapshot
  <2>4. IsReplica(s1)
    BY <2>2, <2>3
  <2>5. merge(e, s) = Generated(e, s1, NoMsg, FALSE)
    BY DEF merge, sn
  <2> HIDE DEF s1
  <2> QED
    BY <1>m, <2>4, <2>5 DEF Generated, IsGenerated
<1>6. e.state \in SyncState
  BY DEF IsEndpoint
<1>7. GenerateMessage(e, n) \in
        {hash(e, s), prepare(e, s, n), present(e, s), exchange(e, s), merge(e, s)}
  BY <1>6 DEF GenerateMessage, SyncState, s
<1> QED
  BY <1>1, <1>2, <1>3, <1>4, <1>5, <1>7
-----------------------------------------------------------------------------
(* Type correctness *)

\* One replica is replaced.
LEMMA SetStore ==
    ASSUME StoresTyped, NEW n \in Node, NEW r, IsReplica(r),
           store' = [store EXCEPT ![n] = r]
    PROVE  /\ StoresTyped'
           /\ store'[n] = r
           /\ \A m \in Node : m # n => store'[m] = store[m]
BY DEF StoresTyped

\* One Sync is replaced.
LEMMA SetSync ==
    ASSUME SyncsTyped, NEW c \in Node, NEW r, IsSyncRecord(r),
           sync' = [sync EXCEPT ![c] = r]
    PROVE  /\ SyncsTyped'
           /\ sync'[c] = r
           /\ \A d \in Node : d # c => sync'[d] = sync[d]
BY DEF SyncsTyped

\* A new TwoPhaseSyncer.
LEMMA NewSyncerType == IsEndpoint(NewTwoPhaseSyncer)
<1>1. IsMapState(EmptyState)
  <2>1. IsMapOf(EmptyMap, Node, Nat)
    BY EmptyMapType
  <2> QED
    BY <2>1 DEF EmptyState, IsMapState
<1>2. IsMsg(NoMsg)
  BY MsgType
<1> QED
  BY <1>1, <1>2 DEF NewTwoPhaseSyncer, IsEndpoint, SyncState

\* The record of a daemon that runs no Sync.
LEMMA IdleType == IsSyncRecord(Idle)
<1> DEFINE e == NewTwoPhaseSyncer
<1>1. IsEndpoint(e) /\ IsMsg(NoMsg)
  BY NewSyncerType, MsgType
<1>2. Idle = [pc |-> "idle", targets |-> {}, succeeded |-> FALSE, pull |-> FALSE,
              server |-> NoNode, start |-> 0, cli |-> e, srv |-> e,
              msg |-> NoMsg, more |-> FALSE, open |-> FALSE]
  BY DEF Idle
<1> HIDE DEF e
<1> QED
  BY <1>1, <1>2 DEF IsSyncRecord, SyncPC

\* The record of a Sync that begins, and of a Pull.
LEMMA StartType ==
    ASSUME NEW r, IsSyncRecord(r), NEW ts \in SUBSET Node
    PROVE  /\ IsSyncRecord([r EXCEPT !.pc = "loop", !.targets = ts])
           /\ IsSyncRecord([r EXCEPT !.pc = "loop", !.pull = TRUE, !.targets = ts])
           /\ [r EXCEPT !.pc = "loop", !.targets = ts].pc = "loop"
           /\ [r EXCEPT !.pc = "loop", !.targets = ts].msg = r.msg
           /\ [r EXCEPT !.pc = "loop", !.targets = ts].cli = r.cli
           /\ [r EXCEPT !.pc = "loop", !.targets = ts].srv = r.srv
           /\ [r EXCEPT !.pc = "loop", !.pull = TRUE, !.targets = ts].pc = "loop"
           /\ [r EXCEPT !.pc = "loop", !.pull = TRUE, !.targets = ts].msg = r.msg
           /\ [r EXCEPT !.pc = "loop", !.pull = TRUE, !.targets = ts].cli = r.cli
           /\ [r EXCEPT !.pc = "loop", !.pull = TRUE, !.targets = ts].srv = r.srv
BY DEF IsSyncRecord, SyncPC

\* SessionOver, whatever the outcome.
LEMMA SessionOverType ==
    ASSUME NEW c \in Node, IsSyncRecord(sync[c]), NEW ok \in BOOLEAN
    PROVE  LET r == SessionOver(c, ok)
           IN  /\ IsSyncRecord(r)
               /\ r.pc = "loop"
               /\ r.cli = NewTwoPhaseSyncer
               /\ r.srv = NewTwoPhaseSyncer
               /\ r.msg = NoMsg
<1> DEFINE e == NewTwoPhaseSyncer
           q == sync[c]
           r == [q EXCEPT !.pc = "loop", !.server = NoNode, !.start = 0,
                    !.cli = e, !.srv = e,
                    !.msg = NoMsg, !.more = FALSE, !.open = FALSE,
                    !.succeeded = @ \/ ok]
<1>1. IsEndpoint(e) /\ IsMsg(NoMsg)
  BY NewSyncerType, MsgType
<1>2. SessionOver(c, ok) = r
  BY DEF SessionOver
<1> HIDE DEF e, q
<1>3. IsSyncRecord(q)
  BY DEF q
<1>4. r.cli = e /\ r.srv = e /\ r.msg = NoMsg /\ r.pc = "loop"
  BY <1>3 DEF IsSyncRecord
<1>5. r \in [pc : SyncPC, targets : SUBSET Node, succeeded : BOOLEAN,
              pull : BOOLEAN, server : Node \cup {NoNode}, start : Nat,
              cli : {e}, srv : {e}, msg : {NoMsg},
              more : BOOLEAN, open : BOOLEAN]
  BY <1>3 DEF IsSyncRecord, SyncPC
<1> HIDE DEF r
<1>6. IsSyncRecord(r)
  BY <1>1, <1>4, <1>5 DEF IsSyncRecord
<1> QED
  BY <1>2, <1>4, <1>6 DEF e

\* The store a node joins with is a replica.
LEMMA LoadedType ==
    ASSUME NEW n \in Node, NEW p \in Node, IsReplica(store[p]), now \in Nat,
           FreshData \in Data
    PROVE  IsReplica(Loaded(n, p))
<1> DEFINE m == Merge(NewTwoPhaseMap, TakeSnapshot(store[p]), now)
<1>1. IsMapOf(store[p].add, Node, Bucket) /\ IsMapOf(store[p].remove, Node, Bucket)
  BY DEF IsReplica
<1>2. IsReplica(m)
  BY <1>1, NewTwoPhaseMapType, MergeType DEF TakeSnapshot
<1> HIDE DEF m
<1>3. IsReplica(Put(m, n, n, FreshData, now))
  BY <1>2, PutType
<1> QED
  BY <1>3 DEF Loaded, m

-----------------------------------------------------------------------------
(* What a step of a handler does *)

\* Another table makes another MeshNode of a MeshNode, and nothing of nothing.
LEMMA WithTableType ==
    ASSUME NEW t \in Table
    PROVE  /\ \A d \in Data : WithTable(d, t) \in Data
           /\ \A d : d \notin Data => WithTable(d, t) = d
<1>1. Data = [value : Value, table : Table]
  BY ConfigAssumption
<1> QED
  BY <1>1 DEF WithTable

\* A table changed in place: the entry keeps its version.
LEMMA ChangedInPlaceType ==
    ASSUME NEW s, IsReplica(s), NEW k, NEW t \in Table
    PROVE  LET r == ChangedInPlace(s, k, t)
           IN  /\ IsReplica(r)
               /\ r.vectors = s.vectors
               /\ r.highestStale = s.highestStale
               /\ r.remove = s.remove
               /\ DOMAIN r.add = DOMAIN s.add
               /\ \A x \in DOMAIN s.add :
                    /\ r.add[x].Vector = s.add[x].Vector
                    /\ x # k => r.add[x] = s.add[x]
<1>1. CASE k \notin DOMAIN s.add
  BY <1>1 DEF ChangedInPlace
<1>2. CASE k \in DOMAIN s.add
  <2> DEFINE c == WithTable(s.add[k].Contents, t)
             b == [s.add[k] EXCEPT !.Contents = c]
             a == [s.add EXCEPT ![k] = b]
  <2>1. ChangedInPlace(s, k, t) = [s EXCEPT !.add = a]
    BY <1>2 DEF ChangedInPlace
  <2>2. s.add[k] \in Bucket /\ s.add \in [DOMAIN s.add -> Bucket] /\ DOMAIN s.add \subseteq Node
    BY <1>2 DEF IsReplica, IsMapOf
  <2>3. c \in Data \cup {Tombstone, NoData}
    BY <2>2, WithTableType DEF Bucket
  <2> HIDE DEF c
  <2>4. b \in Bucket /\ b.Vector = s.add[k].Vector
    BY <2>2, <2>3 DEF Bucket
  <2> HIDE DEF b
  <2>5. /\ IsMapOf(a, Node, Bucket) /\ DOMAIN a = DOMAIN s.add
        /\ \A x \in DOMAIN s.add : a[x].Vector = s.add[x].Vector /\ (x # k => a[x] = s.add[x])
    BY <2>2, <2>4 DEF IsMapOf
  <2> HIDE DEF a
  <2>6. [s EXCEPT !.add = a] = [vectors |-> s.vectors, highestStale |-> s.highestStale,
                                add |-> a, remove |-> s.remove]
    BY DEF IsReplica
  <2>7. IsReplica([s EXCEPT !.add = a])
    BY <2>5, <2>6 DEF IsReplica
  <2> QED
    BY <2>1, <2>5, <2>6, <2>7
<1> QED
  BY <1>1, <1>2

\* From s to r nothing changes but what entries say, or which are marked.
Relabels(s, r) ==
    /\ IsReplica(r)
    /\ r.vectors = s.vectors
    /\ r.highestStale = s.highestStale
    /\ r.remove = s.remove
    /\ DOMAIN r.add = DOMAIN s.add
    /\ \A x \in DOMAIN s.add : r.add[x].Vector = s.add[x].Vector

\* What a handler of node n may make of its store s.
Rewrites(n, s, r) ==
    \/ r = s
    \/ \E leader \in Node : r = Mark(s, leader)
    \/ \E t \in Table : r = ChangedInPlace(s, n, t)
    \/ \E d \in Data \cup {Tombstone, NoData} : r = Put(s, n, n, d, now)

\* A mark or a change in place leaves versions and clocks alone.
LEMMA RewritesLabels ==
    ASSUME NEW n \in Node, NEW s, IsReplica(s), NEW r, Rewrites(n, s, r)
    PROVE  \/ Relabels(s, r)
           \/ \E d \in Data \cup {Tombstone, NoData} : r = Put(s, n, n, d, now)
<1>1. CASE r = s
  BY <1>1 DEF Relabels
<1>2. CASE \E leader \in Node : r = Mark(s, leader)
  BY <1>2, MarkType DEF Relabels
<1>3. CASE \E t \in Table : r = ChangedInPlace(s, n, t)
  BY <1>3, ChangedInPlaceType DEF Relabels
<1> QED
  BY <1>1, <1>2, <1>3 DEF Rewrites

\* A handler leaves a replica in the store.
LEMMA RewritesType ==
    ASSUME NEW n \in Node, NEW s, IsReplica(s), NEW r, Rewrites(n, s, r), now \in Nat
    PROVE  IsReplica(r)
<1>1. CASE \E d \in Data \cup {Tombstone, NoData} : r = Put(s, n, n, d, now)
  BY <1>1, PutType
<1> QED
  BY <1>1, RewritesLabels DEF Relabels

\* What Get returns in a store that is a replica.
LEMMA GetType ==
    ASSUME NEW s, IsReplica(s), NEW k
    PROVE  Get(s, k) \in Data \cup {Tombstone, NoData}
BY DEF Get, Contains, IsReplica, IsMapOf, Bucket

\* What a handler puts is data, or what Get returned.
LEMMA UpdatedType ==
    ASSUME NEW u \in UpdateRecord
    PROVE  \A d \in Updated(u) : d \in Data \cup {Tombstone, NoData}
<1>1. u.copy \in Data \cup {Tombstone, NoData}
  BY DEF UpdateRecord
<1>2. u.copy \in Data => \A v \in Value : [u.copy EXCEPT !.value = v] \in Data
  BY ConfigAssumption
<1> QED
  BY <1>1, <1>2 DEF Updated

\* The record of a handler that goes on to pc with the peers ps and the copy d.
LEMMA GoesOn ==
    ASSUME UpdatesTyped, NEW h \in Handler, upd[h].pc # "idle"
    PROVE  /\ \A pc \in UpdatePC : [upd[h] EXCEPT !.pc = pc] \in UpdateRecord
           /\ \A pc \in UpdatePC, ps \in SUBSET Node :
                [upd[h] EXCEPT !.pc = pc, !.peers = ps] \in UpdateRecord
           /\ \A pc \in UpdatePC, d \in Data \cup {Tombstone, NoData} :
                [upd[h] EXCEPT !.pc = pc, !.copy = d] \in UpdateRecord
           /\ \A pc, ps : /\ [upd[h] EXCEPT !.pc = pc].node = upd[h].node
                          /\ [upd[h] EXCEPT !.pc = pc, !.peers = ps].node = upd[h].node
                          /\ [upd[h] EXCEPT !.pc = pc, !.copy = ps].node = upd[h].node
           /\ IdleHandler \in UpdateRecord /\ IdleHandler.pc = "idle"
<1>1. upd[h] \in UpdateRecord
  BY DEF UpdatesTyped
<1> QED
  BY <1>1 DEF UpdateRecord, IdleHandler, UpdatePC, Kind

\* One handler is replaced.
LEMMA SetUpdate ==
    ASSUME UpdatesTyped, NEW h \in Handler, NEW u \in UpdateRecord,
           u.pc # "idle" => u.node \in Node,
           upd' = [upd EXCEPT ![h] = u], raced' = raced
    PROVE  UpdatesTyped'
BY DEF UpdatesTyped

\* A handler works on the store of its own node, and changes what it holds of
\* itself there or puts it anew; the daemon goes on, or dies of a nil map.
LEMMA UpdateMoves ==
    ASSUME TypeOK, NEW h \in Handler, UpdateStep(h)
    PROVE  /\ upd[h].node \in Node /\ upd[h].pc # "idle"
           /\ \E r : /\ Rewrites(upd[h].node, store[upd[h].node], r)
                    /\ store' = [store EXCEPT ![upd[h].node] = r]
           /\ \/ status' = status /\ sync' = sync
              \/ /\ status' = [status EXCEPT ![upd[h].node] = "crashed"]
                 /\ sync' = [sync EXCEPT ![upd[h].node] = Idle]
           /\ UNCHANGED <<raced, syncerVars, now, boundVars>>
           /\ UpdatesTyped'
<1> DEFINE n == upd[h].node
           Same == /\ store' = [store EXCEPT ![n] = store[n]]
                   /\ status' = status /\ sync' = sync
<1> USE DEF handlerVars, syncerVars, boundVars
<1>1. UpdatesTyped /\ StoresTyped
  BY DEF TypeOK
<1>2. upd[h].pc # "idle" /\ n \in Node
  <2>1. upd[h].pc # "idle"
    BY DEF UpdateStep, ReadPeers, MarkLeader, GetEntry, ChangeTable, NothingToChange,
           DeleteFromNil, AssignToNil, PutEntry, HandlerAt
  <2> QED
    BY <1>1, <2>1 DEF UpdatesTyped
<1>3. IsReplica(store[n]) /\ (store' = store => store' = [store EXCEPT ![n] = store[n]])
  BY <1>1, <1>2 DEF StoresTyped
<1>4. Rewrites(n, store[n], store[n])
  BY DEF Rewrites
<1>g. /\ \A pc \in UpdatePC : [upd[h] EXCEPT !.pc = pc] \in UpdateRecord
      /\ \A pc \in UpdatePC, ps \in SUBSET Node :
                [upd[h] EXCEPT !.pc = pc, !.peers = ps] \in UpdateRecord
      /\ \A pc \in UpdatePC, d \in Data \cup {Tombstone, NoData} :
                [upd[h] EXCEPT !.pc = pc, !.copy = d] \in UpdateRecord
      /\ \A pc, ps : /\ [upd[h] EXCEPT !.pc = pc].node = n
                     /\ [upd[h] EXCEPT !.pc = pc, !.peers = ps].node = n
                     /\ [upd[h] EXCEPT !.pc = pc, !.copy = ps].node = n
      /\ IdleHandler \in UpdateRecord /\ IdleHandler.pc = "idle"
  BY <1>1, <1>2, GoesOn
<1>i. ASSUME upd' = [upd EXCEPT ![h] = IdleHandler], raced' = raced PROVE UpdatesTyped'
  BY <1>1, <1>g, <1>i, SetUpdate
<1>5. CASE ReadPeers(h)
  <2> DEFINE ps == Lowest(GetPeers(store[n]), 2)
             u == IF ps = {} THEN IdleHandler
                             ELSE [upd[h] EXCEPT !.pc = "leader", !.peers = ps]
  <2>1. ps \in SUBSET Node
    BY <1>3 DEF Lowest, GetPeers, Members, IsReplica, IsMapOf
  <2>2. upd' = [upd EXCEPT ![h] = u]
    BY <1>5 DEF ReadPeers
  <2> HIDE DEF ps
  <2>3. u \in UpdateRecord /\ (u.pc # "idle" => u.node \in Node)
    BY <1>g, <1>2, <2>1 DEF UpdatePC
  <2> HIDE DEF u
  <2>4. UpdatesTyped'
    BY <1>1, <1>5, <2>2, <2>3, SetUpdate DEF ReadPeers
  <2> QED
    BY <1>2, <1>3, <1>4, <1>5, <2>4 DEF ReadPeers
<1>6. CASE MarkLeader(h)
  <2> DEFINE s == store[n]
             late == now - s.vectors[n].lastUpdate > StaleTime
             toUpdate(leader) == IF late THEN upd[h].peers \ {leader} ELSE {leader}
  <2>1. PICK leader \in Lowest(upd[h].peers, 1) :
            /\ store' = [store EXCEPT ![n] = IF late THEN Mark(s, leader) ELSE s]
            /\ upd' = [upd EXCEPT ![h] = IF n \in toUpdate(leader)
                            THEN [upd[h] EXCEPT !.pc = "get"] ELSE IdleHandler]
    BY <1>6 DEF MarkLeader
  <2>2. leader \in Node
    BY <1>1, <2>1 DEF Lowest, UpdatesTyped, UpdateRecord
  <2>3. /\ UNCHANGED <<status, sync, raced, syncerVars, now, boundVars>>
    BY <1>6 DEF MarkLeader
  <2>4. Rewrites(n, s, IF late THEN Mark(s, leader) ELSE s)
    BY <2>2 DEF Rewrites
  <2> DEFINE u == IF n \in toUpdate(leader) THEN [upd[h] EXCEPT !.pc = "get"] ELSE IdleHandler
  <2> HIDE DEF toUpdate, late
  <2>5. u \in UpdateRecord /\ (u.pc # "idle" => u.node \in Node)
    BY <1>g, <1>2 DEF UpdatePC
  <2>6. upd' = [upd EXCEPT ![h] = u]
    BY <2>1
  <2> HIDE DEF u
  <2>7. UpdatesTyped'
    BY <1>1, <2>3, <2>5, <2>6, SetUpdate
  <2> QED
    BY <1>2, <2>1, <2>3, <2>4, <2>7
<1>7. CASE GetEntry(h)
  <2> DEFINE pc == IF upd[h].kind = "table" THEN "change" ELSE "put"
             d == Get(store[n], n)
             u == [upd[h] EXCEPT !.pc = pc, !.copy = d]
  <2>1. d \in Data \cup {Tombstone, NoData} /\ pc \in UpdatePC
    BY <1>3, GetType DEF UpdatePC
  <2>2. upd' = [upd EXCEPT ![h] = u]
    BY <1>7 DEF GetEntry
  <2> HIDE DEF d, pc
  <2>3. u \in UpdateRecord /\ u.node \in Node
    BY <1>g, <1>2, <2>1
  <2> HIDE DEF u
  <2>4. UpdatesTyped'
    BY <1>1, <1>7, <2>2, <2>3, SetUpdate DEF GetEntry
  <2> QED
    BY <1>2, <1>3, <1>4, <1>7, <2>4 DEF GetEntry
<1>8. ASSUME NEW t \in Table, ChangeTable(h, t)
      PROVE  /\ UpdatesTyped' /\ status' = status /\ sync' = sync
             /\ UNCHANGED <<raced, syncerVars, now, boundVars>>
             /\ store' = [store EXCEPT ![n] = ChangedInPlace(store[n], n, t)]
  <2> DEFINE pc(g) == IF g = h THEN "put" ELSE upd[g].pc
             d(g) == IF upd[g].node = n THEN WithTable(upd[g].copy, t) ELSE upd[g].copy
  <2>1. /\ upd' = [g \in Handler |-> [upd[g] EXCEPT !.pc = pc(g), !.copy = d(g)]]
        /\ raced' = raced
    BY <1>8 DEF ChangeTable
  <2>2. ASSUME NEW g \in Handler
        PROVE  /\ upd[g] \in UpdateRecord /\ pc(g) \in UpdatePC
               /\ d(g) \in Data \cup {Tombstone, NoData}
               /\ pc(g) # "idle" => upd[g].node \in Node
    BY <1>1, <1>2, WithTableType DEF UpdatesTyped, UpdateRecord, UpdatePC
  <2> HIDE DEF pc, d
  <2>3. ASSUME NEW g \in Handler
        PROVE  LET u == [upd[g] EXCEPT !.pc = pc(g), !.copy = d(g)]
               IN  u \in UpdateRecord /\ (u.pc # "idle" => u.node \in Node)
    BY <2>2 DEF UpdateRecord
  <2>4. UpdatesTyped'
    BY <1>1, <2>1, <2>3 DEF UpdatesTyped
  <2> QED
    BY <1>8, <2>4 DEF ChangeTable
<1>9. CASE NothingToChange(h)
  BY <1>2, <1>3, <1>4, <1>9, <1>i DEF NothingToChange
<1>10. CASE DeleteFromNil(h)
  <2>1. upd' = [upd EXCEPT ![h] = [upd[h] EXCEPT !.pc = "put"]] /\ raced' = raced
    BY <1>10 DEF DeleteFromNil
  <2>2. [upd[h] EXCEPT !.pc = "put"] \in UpdateRecord /\ [upd[h] EXCEPT !.pc = "put"].node \in Node
    BY <1>g, <1>2 DEF UpdatePC
  <2>3. UpdatesTyped'
    BY <1>1, <2>1, <2>2, SetUpdate
  <2> QED
    BY <1>2, <1>3, <1>4, <1>10, <2>3 DEF DeleteFromNil
<1>11. CASE AssignToNil(h)
  <2>1. UpdatesTyped'
    BY <1>1, <1>11 DEF AssignToNil, UpdatesTyped
  <2> QED
    BY <1>2, <1>3, <1>4, <1>11, <2>1 DEF AssignToNil
<1>12. CASE PutEntry(h)
  <2>1. PICK d \in Updated(upd[h]) : store' = [store EXCEPT ![n] = Put(store[n], n, n, d, now)]
    BY <1>12 DEF PutEntry
  <2>2. d \in Data \cup {Tombstone, NoData}
    BY <1>1, <2>1, UpdatedType DEF UpdatesTyped
  <2>3. Rewrites(n, store[n], Put(store[n], n, n, d, now))
    BY <2>2 DEF Rewrites
  <2> QED
    BY <1>2, <1>12, <2>1, <2>3, <1>i DEF PutEntry
<1>13. ASSUME NEW t \in Table PROVE Rewrites(n, store[n], ChangedInPlace(store[n], n, t))
  BY DEF Rewrites
<1> QED
  BY <1>2, <1>5, <1>6, <1>7, <1>8, <1>9, <1>10, <1>11, <1>12, <1>13 DEF UpdateStep

\* No step of a handler begins another one or moves it to another node.
LEMMA HandlersKeepNode ==
    ASSUME TypeOK, NEW h \in Handler, UpdateStep(h)
    PROVE  \A g \in Handler : upd'[g].pc # "idle" =>
                upd[g].pc # "idle" /\ upd'[g].node = upd[g].node
<1> USE DEF handlerVars
<1>1. upd \in [Handler -> UpdateRecord] /\ upd[h].pc # "idle"
  BY UpdateMoves DEF TypeOK, UpdatesTyped
<1>2. CASE ReadPeers(h)
  BY <1>1, <1>2 DEF ReadPeers, UpdateRecord, IdleHandler
<1>3. CASE MarkLeader(h)
  <2>1. \/ upd' = [upd EXCEPT ![h] = [upd[h] EXCEPT !.pc = "get"]]
        \/ upd' = [upd EXCEPT ![h] = IdleHandler]
    BY <1>3 DEF MarkLeader
  <2> QED
    BY <1>1, <2>1 DEF UpdateRecord, IdleHandler
<1>4. CASE GetEntry(h)
  <2> DEFINE d == Get(store[upd[h].node], upd[h].node)
             pc == IF upd[h].kind = "table" THEN "change" ELSE "put"
  <2>1. upd' = [upd EXCEPT ![h] = [upd[h] EXCEPT !.pc = pc, !.copy = d]]
    BY <1>4 DEF GetEntry
  <2> HIDE DEF d, pc
  <2> QED
    BY <1>1, <2>1 DEF UpdateRecord
<1>6. CASE NothingToChange(h) \/ PutEntry(h)
  <2>1. upd' = [upd EXCEPT ![h] = IdleHandler]
    BY <1>6 DEF NothingToChange, PutEntry
  <2> QED
    BY <1>1, <2>1 DEF IdleHandler
<1>7. CASE DeleteFromNil(h)
  <2>1. upd' = [upd EXCEPT ![h] = [upd[h] EXCEPT !.pc = "put"]]
    BY <1>7 DEF DeleteFromNil
  <2> QED
    BY <1>1, <2>1 DEF UpdateRecord
<1>8. CASE AssignToNil(h)
  BY <1>8 DEF AssignToNil
<1>5. ASSUME NEW t \in Table, ChangeTable(h, t)
      PROVE  \A g \in Handler : upd'[g].pc # "idle" =>
                upd[g].pc # "idle" /\ upd'[g].node = upd[g].node
  BY <1>1, <1>5 DEF ChangeTable, UpdateRecord
<1> QED
  BY <1>2, <1>3, <1>4, <1>5, <1>6, <1>7, <1>8 DEF UpdateStep

\* Every step of every handler and of every session keeps the types.
LEMMA TypeStep == TypeOK /\ [Next]_vars => TypeOK'
<1> SUFFICES ASSUME TypeOK, [Next]_vars PROVE TypeOK'
  OBVIOUS
<1> USE DEF boundVars, syncerVars, handlerVars
<1>t. /\ StoresTyped /\ SyncsTyped /\ status \in [Node -> Status]
      /\ infection \in [Node -> Nat] /\ lastClock \in [Node -> Nat]
      /\ lastSync \in [Node -> Nat] /\ now \in Nat /\ syncs \in Nat
      /\ writes \in Nat /\ failures \in Nat /\ UpdatesTyped
  BY DEF TypeOK
<1>u. UNCHANGED <<upd, raced>> => UpdatesTyped'
  BY <1>t DEF UpdatesTyped
<1>r. \A n \in Node : IsReplica(store[n]) /\ IsSyncRecord(sync[n])
  BY <1>t DEF StoresTyped, SyncsTyped
<1>f. FreshData \in Data
  BY ConfigAssumption
<1>1. ASSUME NEW n \in Node, CreateMesh(n) PROVE TypeOK'
  <2>1. IsReplica(Put(NewTwoPhaseMap, n, n, FreshData, now))
    BY <1>t, <1>f, NewTwoPhaseMapType, PutType
  <2>2. StoresTyped'
    BY <1>1, <1>t, <2>1, SetStore DEF CreateMesh
  <2>3. status' \in [Node -> Status]
    BY <1>1, <1>t DEF CreateMesh, Status
  <2>4. SyncsTyped'
    BY <1>1, <1>t DEF CreateMesh, SyncsTyped
  <2> QED
    BY <1>1, <1>t, <1>u, <2>2, <2>3, <2>4 DEF CreateMesh, TypeOK
<1>2. ASSUME NEW n \in Node, NEW p \in Node, JoinMesh(n, p) PROVE TypeOK'
  <2>1. IsReplica(Loaded(n, p))
    BY <1>t, <1>r, <1>f, LoadedType
  <2>2. StoresTyped'
    BY <1>2, <1>t, <2>1, SetStore DEF JoinMesh
  <2>3. status' \in [Node -> Status]
    BY <1>2, <1>t DEF JoinMesh, Status
  <2>4. SyncsTyped'
    BY <1>2, <1>t DEF JoinMesh, SyncsTyped
  <2> QED
    BY <1>2, <1>t, <1>u, <2>2, <2>3, <2>4 DEF JoinMesh, TypeOK
<1>2r. ASSUME NEW n \in Node, NEW p \in Node, RejoinMesh(n, p) PROVE TypeOK'
  <2>1. IsReplica(Loaded(n, p))
    BY <1>t, <1>r, <1>f, LoadedType
  <2>2. StoresTyped'
    BY <1>2r, <1>t, <2>1, SetStore DEF RejoinMesh
  <2>3. status' \in [Node -> Status] /\ lastClock' \in [Node -> Nat]
    BY <1>2r, <1>t DEF RejoinMesh, Status
  <2>4. SyncsTyped'
    BY <1>2r, <1>t DEF RejoinMesh, SyncsTyped
  <2> QED
    BY <1>2r, <1>t, <1>u, <2>2, <2>3, <2>4 DEF RejoinMesh, TypeOK
<1>3. ASSUME NEW h \in Handler, NEW n \in Node, NEW kind \in Kind, BeginUpdate(h, n, kind)
      PROVE  TypeOK'
  <2> DEFINE pc == IF kind = "beat" THEN "peers" ELSE "get"
             u == [upd[h] EXCEPT !.pc = pc, !.node = n, !.kind = kind]
  <2>u. upd[h] \in UpdateRecord /\ pc \in UpdatePC
    BY <1>t DEF UpdatesTyped, UpdatePC
  <2>v. upd' = [upd EXCEPT ![h] = u] /\ raced' = raced
    BY <1>3 DEF BeginUpdate
  <2> HIDE DEF pc
  <2>w. u \in UpdateRecord /\ u.node = n
    BY <2>u DEF UpdateRecord
  <2> HIDE DEF u
  <2>1. UpdatesTyped'
    BY <1>t, <2>v, <2>w, SetUpdate
  <2>2. StoresTyped' /\ SyncsTyped'
    BY <1>3, <1>t DEF BeginUpdate, StoresTyped, SyncsTyped
  <2> QED
    BY <1>3, <1>t, <2>1, <2>2 DEF BeginUpdate, TypeOK
<1>4. ASSUME NEW n \in Node, LeaveMesh(n) PROVE TypeOK'
  <2> DEFINE r == IF Contains(store[n], n) THEN Remove(store[n], n, n, now) ELSE store[n]
  <2>1. IsReplica(r)
    BY <1>t, <1>r, RemoveType
  <2>2. store' = [store EXCEPT ![n] = r]
    BY <1>4 DEF LeaveMesh
  <2> HIDE DEF r
  <2>3. StoresTyped'
    BY <1>t, <2>1, <2>2, SetStore
  <2>4. status' \in [Node -> Status]
    BY <1>4, <1>t DEF LeaveMesh, Status
  <2>5. SyncsTyped'
    BY <1>4, <1>t DEF LeaveMesh, SyncsTyped
  <2>6. UpdatesTyped'
    BY <1>4, <1>t DEF LeaveMesh, UpdatesTyped
  <2> QED
    BY <1>4, <1>t, <2>3, <2>4, <2>5, <2>6 DEF LeaveMesh, TypeOK
<1>5. ASSUME NEW n \in Node, Crash(n) PROVE TypeOK'
  <2>1. SyncsTyped'
    BY <1>5, <1>t, IdleType, SetSync DEF Crash
  <2>2. status' \in [Node -> Status]
    BY <1>5, <1>t DEF Crash, Status
  <2>3. StoresTyped'
    BY <1>5, <1>t DEF Crash, StoresTyped
  <2> QED
    BY <1>5, <1>t, <1>u, <2>1, <2>2, <2>3 DEF Crash, TypeOK
<1>6. ASSUME NEW h \in Handler, UpdateStep(h) PROVE TypeOK'
  <2> DEFINE n == upd[h].node
  <2>1. /\ n \in Node
        /\ \E r : Rewrites(n, store[n], r) /\ store' = [store EXCEPT ![n] = r]
        /\ \/ status' = status /\ sync' = sync
           \/ status' = [status EXCEPT ![n] = "crashed"] /\ sync' = [sync EXCEPT ![n] = Idle]
        /\ UNCHANGED <<raced, syncerVars, now, boundVars>>
        /\ UpdatesTyped'
    BY <1>6, UpdateMoves
  <2> HIDE DEF n
  <2>2. PICK r : Rewrites(n, store[n], r) /\ store' = [store EXCEPT ![n] = r]
    BY <2>1
  <2>3. IsReplica(r)
    BY <1>t, <1>r, <2>1, <2>2, RewritesType
  <2>4. StoresTyped'
    BY <1>t, <2>1, <2>2, <2>3, SetStore
  <2>5. SyncsTyped'
    BY <1>t, <2>1, IdleType, SetSync DEF SyncsTyped
  <2>6. status' \in [Node -> Status]
    BY <1>t, <2>1 DEF Status
  <2> QED
    BY <1>t, <2>1, <2>4, <2>5, <2>6 DEF TypeOK
<1>7. ASSUME NEW c \in Node, SyncQuietly(c) PROVE TypeOK'
  <2>1. IsReplica(Prune(store[c]))
    BY <1>r, PruneType
  <2>2. StoresTyped'
    BY <1>7, <1>t, <2>1, SetStore DEF SyncQuietly
  <2>3. SyncsTyped'
    BY <1>7, <1>t DEF SyncQuietly, SyncsTyped
  <2> QED
    BY <1>7, <1>t, <1>u, <2>2, <2>3 DEF SyncQuietly, TypeOK
<1>8. ASSUME NEW c \in Node, NEW p \in Node, Pull(c, p) PROVE TypeOK'
  <2> DEFINE r == [Idle EXCEPT !.pc = "loop", !.pull = TRUE, !.targets = {p}]
  <2>1. IsReplica(Prune(store[c]))
    BY <1>r, PruneType
  <2>2. StoresTyped'
    BY <1>8, <1>t, <2>1, SetStore DEF Pull
  <2>3. IsSyncRecord(r)
    BY IdleType, StartType
  <2>4. sync' = [sync EXCEPT ![c] = r]
    BY <1>8 DEF Pull
  <2> HIDE DEF r
  <2>5. SyncsTyped'
    BY <1>t, <2>3, <2>4, SetSync
  <2> QED
    BY <1>8, <1>t, <1>u, <2>2, <2>5 DEF Pull, TypeOK
<1>9. ASSUME NEW c \in Node, StartSync(c) PROVE TypeOK'
  <2>1. IsReplica(Prune(store[c]))
    BY <1>r, PruneType
  <2>2. StoresTyped'
    BY <1>9, <1>t, <2>1, SetStore DEF StartSync
  <2>3. PICK ts \in GossipNodes(c, GetPeers(Prune(store[c])) \ {c}) :
            sync' = [sync EXCEPT ![c] = [Idle EXCEPT !.pc = "loop", !.targets = ts]]
    BY <1>9 DEF StartSync
  <2>4. ts \in SUBSET Node
    <3> DEFINE P == GetPeers(Prune(store[c])) \ {c}
    <3>1. P \subseteq Node
      BY <2>1 DEF GetPeers, Members, IsReplica, IsMapOf
    <3> HIDE DEF P
    <3>2. \A Q \in GossipNodes(c, P) : Q \subseteq P
      BY DEF GossipNodes, kSubset, Lowest
    <3> QED
      BY <2>3, <3>1, <3>2 DEF P
  <2>5. IsSyncRecord([Idle EXCEPT !.pc = "loop", !.targets = ts])
    BY <2>4, IdleType, StartType
  <2>6. SyncsTyped'
    BY <1>t, <2>3, <2>5, SetSync
  <2> QED
    BY <1>9, <1>t, <1>u, <2>2, <2>6 DEF StartSync, TypeOK
<1>10. ASSUME NEW c \in Node, EndSync(c) PROVE TypeOK'
  <2>1. SyncsTyped'
    BY <1>10, <1>t, IdleType, SetSync DEF EndSync
  <2>2. StoresTyped'
    BY <1>10, <1>t DEF EndSync, StoresTyped
  <2>3. status' \in [Node -> Status]
    BY <1>10, <1>t DEF EndSync, Status
  <2>4. MapHash(store[c]) \in Nat
    BY WrapType DEF MapHash
  <2>5. lastClock' \in [Node -> Nat] /\ lastSync' \in [Node -> Nat]
    BY <1>10, <1>t, <2>4 DEF EndSync
  <2>6. infection' \in [Node -> Nat]
    <3>1. ((InfectionCount + infection[c] - 1) % InfectionCount) \in Nat
      BY <1>t, ConfigAssumption
    <3> QED
      BY <1>10, <1>t, <3>1 DEF EndSync
  <2> QED
    BY <1>10, <1>t, <1>u, <2>1, <2>2, <2>3, <2>5, <2>6 DEF EndSync, TypeOK
<1>11. ASSUME NEW c \in Node, EndPull(c) PROVE TypeOK'
  <2>1. SyncsTyped'
    BY <1>11, <1>t, IdleType, SetSync DEF EndPull
  <2>2. StoresTyped'
    BY <1>11, <1>t DEF EndPull, StoresTyped
  <2>3. lastSync' \in [Node -> Nat]
    BY <1>11, <1>t DEF EndPull
  <2> QED
    BY <1>11, <1>t, <1>u, <2>1, <2>2, <2>3 DEF EndPull, TypeOK
<1>12. ASSUME NEW c \in Node, NEW s \in Node, SkipTarget(c, s) PROVE TypeOK'
  <2> DEFINE r == [sync[c] EXCEPT !.targets = @ \ {s}]
  <2>1. IsSyncRecord(r)
    BY <1>r DEF IsSyncRecord
  <2>2. sync' = [sync EXCEPT ![c] = r]
    BY <1>12 DEF SkipTarget
  <2> HIDE DEF r
  <2>3. SyncsTyped'
    BY <1>t, <2>1, <2>2, SetSync
  <2>4. StoresTyped'
    BY <1>12, <1>t DEF SkipTarget, StoresTyped
  <2>5. failures' \in Nat
    BY <1>12, <1>t DEF SkipTarget
  <2> QED
    BY <1>12, <1>t, <1>u, <2>3, <2>4, <2>5 DEF SkipTarget, TypeOK
<1>13. ASSUME NEW c \in Node, NEW s \in Node, OpenStream(c, s) PROVE TypeOK'
  <2> DEFINE e == NewTwoPhaseSyncer
             q == sync[c]
             r == [q EXCEPT !.pc = "client", !.targets = @ \ {s}, !.server = s,
                      !.start = now, !.cli = e, !.srv = e, !.msg = NoMsg,
                      !.more = TRUE, !.open = TRUE]
  <2>1. IsEndpoint(e) /\ IsMsg(NoMsg) /\ IsSyncRecord(q)
    BY <1>r, NewSyncerType, MsgType
  <2>2. sync' = [sync EXCEPT ![c] = r]
    BY <1>13 DEF OpenStream
  <2> HIDE DEF e, q
  <2>3. IsSyncRecord(r)
    BY <1>t, <2>1 DEF IsSyncRecord, SyncPC
  <2> HIDE DEF r
  <2>4. SyncsTyped'
    BY <1>t, <2>2, <2>3, SetSync
  <2>5. StoresTyped'
    BY <1>13, <1>t DEF OpenStream, StoresTyped
  <2> QED
    BY <1>13, <1>t, <1>u, <2>4, <2>5 DEF OpenStream, TypeOK
<1>14. ASSUME NEW c \in Node, ClientSend(c) PROVE TypeOK'
  <2> DEFINE q == sync[c]
             g == GenerateMessage(q.cli, c)
             r == [q EXCEPT !.pc = "server", !.cli = g.end, !.msg = g.msg,
                            !.more = g.more]
  <2>1. IsSyncRecord(q) /\ q.pc = "client" /\ q.server \in Node /\ IsEndpoint(q.cli)
    BY <1>14, <1>r DEF ClientSend, IsSyncRecord
  <2>2. IsGenerated(g)
    BY <1>r, <1>t, <2>1, GenerateMessageType
  <2>3. store' = [store EXCEPT ![c] = g.store] /\ sync' = [sync EXCEPT ![c] = r]
    BY <1>14 DEF ClientSend
  <2> HIDE DEF q, g
  <2>4. IsSyncRecord(r)
    BY <2>1, <2>2 DEF IsSyncRecord, IsGenerated, SyncPC
  <2> HIDE DEF r
  <2>5. SyncsTyped'
    BY <1>t, <2>3, <2>4, SetSync
  <2>6. StoresTyped'
    BY <1>t, <2>2, <2>3, SetStore DEF IsGenerated
  <2> QED
    BY <1>14, <1>t, <1>u, <2>5, <2>6 DEF ClientSend, TypeOK
<1>15. ASSUME NEW c \in Node, ServerReply(c) PROVE TypeOK'
  <2> DEFINE q == sync[c]
             g == GenerateMessage(q.srv, q.server)
             e == RecvMessage(g.end, q.msg)
             r == [q EXCEPT !.pc = "reply", !.srv = e, !.msg = g.msg, !.open = g.more]
  <2>1. /\ IsSyncRecord(q) /\ q.pc = "server" /\ q.server \in Node
        /\ IsEndpoint(q.srv) /\ IsMsg(q.msg)
    BY <1>15, <1>r DEF ServerReply, IsSyncRecord
  <2>2. IsGenerated(g)
    BY <1>r, <1>t, <2>1, GenerateMessageType
  <2>3. store' = [store EXCEPT ![q.server] = g.store] /\ sync' = [sync EXCEPT ![c] = r]
    BY <1>15 DEF ServerReply
  <2> HIDE DEF q, g
  <2>4. IsEndpoint(e)
    BY <2>1, <2>2, RecvMessageType DEF IsGenerated
  <2> HIDE DEF e
  <2>5. IsSyncRecord(r)
    BY <2>1, <2>2, <2>4 DEF IsSyncRecord, IsGenerated, SyncPC
  <2> HIDE DEF r
  <2>6. SyncsTyped'
    BY <1>t, <2>3, <2>5, SetSync
  <2>7. StoresTyped'
    BY <1>t, <2>1, <2>2, <2>3, SetStore DEF IsGenerated
  <2> QED
    BY <1>15, <1>t, <1>u, <2>6, <2>7 DEF ServerReply, TypeOK
<1>16. ASSUME NEW c \in Node, ClientReceive(c) PROVE TypeOK'
  <2> DEFINE q == sync[c]
             e == RecvMessage(q.cli, q.msg)
             more == [q EXCEPT !.pc = "client", !.msg = NoMsg, !.cli = e]
             r == IF q.more THEN more ELSE SessionOver(c, TRUE)
  <2>1. /\ IsSyncRecord(q) /\ q.pc = "reply" /\ q.server \in Node
        /\ IsEndpoint(q.cli) /\ IsMsg(q.msg)
    BY <1>16, <1>r DEF ClientReceive, IsSyncRecord
  <2>2. sync' = [sync EXCEPT ![c] = r]
    BY <1>16 DEF ClientReceive
  <2>3. IsSyncRecord(SessionOver(c, TRUE))
    BY <1>r, SessionOverType
  <2> HIDE DEF q
  <2>4. IsEndpoint(e) /\ IsMsg(NoMsg)
    BY <2>1, RecvMessageType, MsgType
  <2> HIDE DEF e
  <2>5. IsSyncRecord(more)
    BY <2>1, <2>4 DEF IsSyncRecord, SyncPC
  <2> HIDE DEF more
  <2>6. IsSyncRecord(r)
    BY <2>3, <2>5
  <2> HIDE DEF r
  <2>7. SyncsTyped'
    BY <1>t, <2>2, <2>6, SetSync
  <2>8. StoresTyped'
    BY <1>16, <1>t DEF ClientReceive, StoresTyped
  <2> QED
    BY <1>16, <1>t, <1>u, <2>7, <2>8 DEF ClientReceive, TypeOK
<1>17. ASSUME NEW c \in Node, NEW ok \in BOOLEAN, HandleFailed(c, ok), failures' \in Nat
       PROVE  TypeOK'
  <2> DEFINE marked == Mark(store[c], sync[c].server)
  <2>1. IsReplica(marked)
    BY <1>r, MarkType
  <2>2. store' = [store EXCEPT ![c] = marked]
    BY <1>17 DEF HandleFailed
  <2> HIDE DEF marked
  <2>3. StoresTyped'
    BY <1>t, <2>1, <2>2, SetStore
  <2>4. IsSyncRecord(SessionOver(c, ok)) /\ IsSyncRecord(Idle)
    BY <1>r, SessionOverType, IdleType
  <2>5. \/ sync' = [sync EXCEPT ![c] = SessionOver(c, ok)] /\ status' = status
        \/ sync' = [sync EXCEPT ![c] = Idle] /\ status' = [status EXCEPT ![c] = "crashed"]
    BY <1>17 DEF HandleFailed
  <2>6. SyncsTyped'
    BY <1>t, <2>4, <2>5, SetSync
  <2>7. status' \in [Node -> Status]
    BY <1>t, <2>5 DEF Status
  <2> QED
    BY <1>17, <1>t, <1>u, <2>3, <2>6, <2>7 DEF HandleFailed, TypeOK
<1>18. ASSUME NEW c \in Node, StreamEOF(c) \/ ServerRefuses(c) \/ StreamBroken(c)
       PROVE  TypeOK'
  <2>1. failures' \in Nat
    <3>1. failures' = failures \/ failures' = failures + 1
      <4>1. CASE StreamEOF(c)
        BY <4>1 DEF StreamEOF
      <4>2. CASE ServerRefuses(c)
        BY <4>2 DEF ServerRefuses
      <4>3. CASE StreamBroken(c)
        BY <4>3 DEF StreamBroken
      <4> QED
        BY <1>18, <4>1, <4>2, <4>3
    <3> QED
      BY <1>t, <3>1
  <2>2. HandleFailed(c, TRUE) \/ HandleFailed(c, FALSE)
    BY <1>18 DEF StreamEOF, ServerRefuses, StreamBroken
  <2> QED
    BY <1>17, <2>1, <2>2
<1>19. ASSUME NEW c \in Node, StreamTimesOut(c) PROVE TypeOK'
  <2>1. IsSyncRecord(SessionOver(c, FALSE))
    BY <1>r, SessionOverType
  <2>2. SyncsTyped'
    BY <1>19, <1>t, <2>1, SetSync DEF StreamTimesOut
  <2>3. StoresTyped'
    BY <1>19, <1>t DEF StreamTimesOut, StoresTyped
  <2> QED
    BY <1>19, <1>t, <1>u, <2>2, <2>3 DEF StreamTimesOut, TypeOK
<1>20. CASE Tick
  BY <1>20, <1>t, <1>u DEF Tick, TypeOK, StoresTyped, SyncsTyped
<1>21. CASE UNCHANGED vars
  BY <1>21, <1>t, <1>u DEF vars, TypeOK, StoresTyped, SyncsTyped
<1> QED
  BY <1>1, <1>2, <1>2r, <1>3, <1>4, <1>5, <1>6, <1>7, <1>8, <1>9, <1>10, <1>11, <1>12,
     <1>13, <1>14, <1>15, <1>16, <1>18, <1>19, <1>20, <1>21
  DEF Next, SyncStep, SessionStep

\* A new mesh is well-typed.
LEMMA TypeInit == Init => TypeOK
<1> SUFFICES ASSUME Init PROVE TypeOK
  OBVIOUS
<1>1. StoresTyped
  BY NewTwoPhaseMapType DEF Init, StoresTyped
<1>2. SyncsTyped
  BY IdleType DEF Init, SyncsTyped
<1>3. UpdatesTyped
  <2>1. IdleHandler \in UpdateRecord
    BY DEF IdleHandler, UpdateRecord, UpdatePC, Kind
  <2> QED
    BY <2>1 DEF Init, UpdatesTyped, IdleHandler
<1> QED
  BY <1>1, <1>2, <1>3 DEF Init, TypeOK, Status

\* Whatever the nodes, the configuration and the bounds are, the stores, the
\* messages in flight and the syncers stay well-formed: no handler writes a
\* value of another kind into a store, and decoding never produces one.
THEOREM TypeCorrect == Spec => []TypeOK
<1>1. TypeOK /\ [Next]_vars => TypeOK'
  BY TypeStep
<1> QED
  BY <1>1, TypeInit, PTL DEF Spec
-----------------------------------------------------------------------------
(* What one operation on the store of node n may do to it, and still leave    *)
(* the clocks of the mesh in order.                                            *)

\* The own clocks once node n's replica is r.
Raised(own, n, r) == [own EXCEPT ![n] = r.vectors[n].clock]

\* From s to r at time t: the own clock does not go back and stays ahead of
\* everything n holds of itself, and n's own bucket is kept fresh.
Advances(n, s, r, own, t) ==
    /\ IsReplica(r)
    /\ n \in DOMAIN r.vectors
    /\ own[n] <= r.vectors[n].clock
    /\ Under(r, Raised(own, n, r))
    /\ Fresh(r, n, t)
    /\ n \in DOMAIN s.vectors => s.vectors[n].lastUpdate <= r.vectors[n].lastUpdate

\* The components of a replica are naturals.
LEMMA ReplicaNat ==
    ASSUME NEW s, IsReplica(s)
    PROVE  /\ \A k \in DOMAIN s.vectors : /\ k \in Node
                                          /\ s.vectors[k].clock \in Nat
                                          /\ s.vectors[k].lastUpdate \in Nat
           /\ \A k \in DOMAIN s.add : k \in Node /\ s.add[k].Vector \in Nat
           /\ \A k \in DOMAIN s.remove : k \in Node /\ s.remove[k].Vector \in Nat
BY DEF IsReplica, IsMapOf, VectorBucket, Bucket

\* Put under the node's own key.
LEMMA PutAdvances ==
    ASSUME NEW n \in Node, NEW s, IsReplica(s), NEW own \in [Node -> Nat],
           NEW d \in Data \cup {Tombstone, NoData}, NEW t \in Nat,
           Under(s, own),
           own[n] = 0 \/ (n \in DOMAIN s.vectors /\ own[n] = s.vectors[n].clock),
           \A k \in DOMAIN s.vectors : s.vectors[k].lastUpdate <= t
    PROVE  /\ Advances(n, s, Put(s, n, n, d, t), own, t)
           /\ Put(s, n, n, d, t).vectors[n].lastUpdate = t
<1> DEFINE r == Put(s, n, n, d, t)
<1>1. /\ IsReplica(r)
      /\ DOMAIN r.vectors = DOMAIN s.vectors \cup {n}
      /\ \A k \in DOMAIN s.vectors \ {n} : r.vectors[k] = s.vectors[k]
      /\ r.vectors[n].lastUpdate = t
      /\ r.add[n].Vector < r.vectors[n].clock
      /\ \A k \in DOMAIN s.vectors : s.vectors[k].clock < r.add[n].Vector
      /\ DOMAIN r.add = DOMAIN s.add \cup {n}
      /\ \A k \in DOMAIN s.add \ {n} : r.add[k] = s.add[k]
      /\ r.remove = s.remove
  BY PutType
<1> HIDE DEF r
<1>2. SyncInterval \in Nat
  BY ConfigAssumption
<1>3. \A k \in DOMAIN r.vectors : r.vectors[k].clock \in Nat /\ k \in Node
  BY <1>1, ReplicaNat
<1>4. \A k \in DOMAIN s.vectors : s.vectors[k].clock \in Nat /\ s.vectors[k].lastUpdate \in Nat
  BY ReplicaNat
<1>5. \A k \in DOMAIN r.add : r.add[k].Vector \in Nat /\ k \in Node
  BY <1>1, ReplicaNat
<1>6. \A k \in DOMAIN r.remove : r.remove[k].Vector \in Nat /\ k \in Node
  BY <1>1, ReplicaNat
<1>7. own[n] <= r.vectors[n].clock
  BY <1>1, <1>3, <1>4, <1>5
<1> DEFINE o == Raised(own, n, r)
<1>8. o \in [Node -> Nat] /\ o[n] = r.vectors[n].clock /\ \A k \in Node : k # n => o[k] = own[k]
  BY <1>1, <1>3 DEF Raised
<1> HIDE DEF o
<1>9. Under(r, o)
  <2>1. \A k \in DOMAIN r.vectors : r.vectors[k].clock <= o[k]
    BY <1>1, <1>3, <1>8 DEF Under
  <2>2. BucketsBelow(r.add, o)
    BY <1>1, <1>3, <1>5, <1>8 DEF Under, BucketsBelow
  <2>3. BucketsBelow(r.remove, o)
    BY <1>1, <1>3, <1>6, <1>7, <1>8 DEF Under, BucketsBelow
  <2> QED
    BY <2>1, <2>2, <2>3 DEF Under
<1>10. Fresh(r, n, t)
  BY <1>1, <1>2, <1>4 DEF Fresh
<1> QED
  BY <1>1, <1>7, <1>9, <1>10 DEF Advances, o, r

\* Remove of the node's own key.
LEMMA RemoveAdvances ==
    ASSUME NEW n \in Node, NEW s, IsReplica(s), NEW own \in [Node -> Nat],
           NEW t \in Nat, Under(s, own),
           n \in DOMAIN s.vectors, own[n] = s.vectors[n].clock,
           \A k \in DOMAIN s.vectors : s.vectors[k].lastUpdate <= t
    PROVE  Advances(n, s, Remove(s, n, n, t), own, t)
<1> DEFINE r == Remove(s, n, n, t)
<1>1. /\ IsReplica(r)
      /\ DOMAIN r.vectors = DOMAIN s.vectors \cup {n}
      /\ \A k \in DOMAIN s.vectors \ {n} : r.vectors[k] = s.vectors[k]
      /\ r.vectors[n].lastUpdate = t
      /\ r.remove[n].Vector < r.vectors[n].clock
      /\ \A k \in DOMAIN s.vectors : s.vectors[k].clock <= r.remove[n].Vector
      /\ DOMAIN r.remove = DOMAIN s.remove \cup {n}
      /\ \A k \in DOMAIN s.remove \ {n} : r.remove[k] = s.remove[k]
      /\ r.add = s.add
  BY RemoveType
<1> HIDE DEF r
<1>2. SyncInterval \in Nat
  BY ConfigAssumption
<1>3. \A k \in DOMAIN r.vectors : r.vectors[k].clock \in Nat /\ k \in Node
  BY <1>1, ReplicaNat
<1>4. \A k \in DOMAIN s.vectors : s.vectors[k].clock \in Nat /\ s.vectors[k].lastUpdate \in Nat
  BY ReplicaNat
<1>5. \A k \in DOMAIN r.add : r.add[k].Vector \in Nat /\ k \in Node
  BY <1>1, ReplicaNat
<1>6. \A k \in DOMAIN r.remove : r.remove[k].Vector \in Nat /\ k \in Node
  BY <1>1, ReplicaNat
<1>7. own[n] <= r.vectors[n].clock
  BY <1>1, <1>3, <1>4, <1>6
<1> DEFINE o == Raised(own, n, r)
<1>8. o \in [Node -> Nat] /\ o[n] = r.vectors[n].clock /\ \A k \in Node : k # n => o[k] = own[k]
  BY <1>1, <1>3 DEF Raised
<1> HIDE DEF o
<1>9. Under(r, o)
  <2>1. \A k \in DOMAIN r.vectors : r.vectors[k].clock <= o[k]
    BY <1>1, <1>3, <1>8 DEF Under
  <2>2. BucketsBelow(r.add, o)
    BY <1>1, <1>3, <1>5, <1>7, <1>8 DEF Under, BucketsBelow
  <2>3. BucketsBelow(r.remove, o)
    BY <1>1, <1>3, <1>6, <1>8 DEF Under, BucketsBelow
  <2> QED
    BY <2>1, <2>2, <2>3 DEF Under
<1>10. Fresh(r, n, t)
  BY <1>1, <1>2, <1>4 DEF Fresh
<1> QED
  BY <1>1, <1>7, <1>9, <1>10 DEF Advances, o, r

\* IncrementClock, which prepare calls.
LEMMA IncrementAdvances ==
    ASSUME NEW n \in Node, NEW s, IsReplica(s), NEW own \in [Node -> Nat],
           NEW t \in Nat, Under(s, own),
           n \in DOMAIN s.vectors, own[n] = s.vectors[n].clock,
           \A k \in DOMAIN s.vectors : s.vectors[k].lastUpdate <= t
    PROVE  /\ Advances(n, s, IncrementClock(s, n, t), own, t)
           /\ IncrementClock(s, n, t).vectors[n].lastUpdate = t
<1> DEFINE r == IncrementClock(s, n, t)
<1>0. MaxClock(s) \in Nat /\ s.vectors[n].clock <= MaxClock(s)
  BY MaxClockBounds
<1>1. /\ IsReplica(r)
      /\ DOMAIN r.vectors = DOMAIN s.vectors \cup {n}
      /\ r.vectors[n] = [clock |-> MaxClock(s) + 1, lastUpdate |-> t]
      /\ \A k \in DOMAIN s.vectors \ {n} : r.vectors[k] = s.vectors[k]
      /\ r.add = s.add
      /\ r.remove = s.remove
  BY IncrementClockType
<1> HIDE DEF r
<1>2. SyncInterval \in Nat
  BY ConfigAssumption
<1>3. \A k \in DOMAIN r.vectors : r.vectors[k].clock \in Nat /\ k \in Node
  BY <1>1, ReplicaNat
<1>4. \A k \in DOMAIN s.vectors : s.vectors[k].clock \in Nat /\ s.vectors[k].lastUpdate \in Nat
  BY ReplicaNat
<1>5. \A k \in DOMAIN r.add : r.add[k].Vector \in Nat /\ k \in Node
  BY <1>1, ReplicaNat
<1>6. \A k \in DOMAIN r.remove : r.remove[k].Vector \in Nat /\ k \in Node
  BY <1>1, ReplicaNat
<1>7. own[n] <= r.vectors[n].clock /\ r.vectors[n].lastUpdate = t
  BY <1>0, <1>1, <1>3, <1>4
<1> DEFINE o == Raised(own, n, r)
<1>8. o \in [Node -> Nat] /\ o[n] = r.vectors[n].clock /\ \A k \in Node : k # n => o[k] = own[k]
  BY <1>1, <1>3 DEF Raised
<1> HIDE DEF o
<1>9. Under(r, o)
  <2>1. \A k \in DOMAIN r.vectors : r.vectors[k].clock <= o[k]
    BY <1>1, <1>3, <1>8 DEF Under
  <2>2. BucketsBelow(r.add, o)
    BY <1>1, <1>3, <1>5, <1>7, <1>8 DEF Under, BucketsBelow
  <2>3. BucketsBelow(r.remove, o)
    BY <1>1, <1>3, <1>6, <1>7, <1>8 DEF Under, BucketsBelow
  <2> QED
    BY <2>1, <2>2, <2>3 DEF Under
<1>10. Fresh(r, n, t)
  BY <1>1, <1>2, <1>4, <1>7 DEF Fresh
<1> QED
  BY <1>1, <1>4, <1>7, <1>9, <1>10 DEF Advances, o, r

\* What keeps the node's own bucket as it is, or the newest among its peers.
LEMMA KeepsOwnBucket ==
    ASSUME NEW n \in Node, NEW s, IsReplica(s), NEW r, IsReplica(r),
           NEW own \in [Node -> Nat], NEW t \in Nat,
           n \in DOMAIN s.vectors, own[n] = s.vectors[n].clock,
           n \in DOMAIN r.vectors, r.vectors[n] = s.vectors[n],
           Under(r, own), Fresh(r, n, t)
    PROVE  Advances(n, s, r, own, t)
<1>1. s.vectors[n].clock \in Nat /\ s.vectors[n].lastUpdate \in Nat
  BY ReplicaNat
<1>2. Raised(own, n, r) = own
  BY DEF Raised
<1> QED
  BY <1>1, <1>2 DEF Advances

\* Mark changes no clock and no version.
LEMMA MarkAdvances ==
    ASSUME NEW n \in Node, NEW s, IsReplica(s), NEW own \in [Node -> Nat],
           NEW t \in Nat, NEW k, Under(s, own), Fresh(s, n, t),
           own[n] = s.vectors[n].clock
    PROVE  Advances(n, s, Mark(s, k), own, t)
<1> DEFINE r == Mark(s, k)
<1>1. /\ IsReplica(r) /\ r.vectors = s.vectors /\ r.remove = s.remove
      /\ DOMAIN r.add = DOMAIN s.add
      /\ \A x \in DOMAIN s.add : r.add[x].Vector = s.add[x].Vector
  BY MarkType
<1> HIDE DEF r
<1>2. Under(r, own) /\ Fresh(r, n, t) /\ n \in DOMAIN s.vectors
  BY <1>1 DEF Under, BucketsBelow, Fresh
<1> QED
  BY <1>1, <1>2, KeepsOwnBucket DEF r

\* A handler's mark, or its change in place, changes no clock and no version.
LEMMA RelabelAdvances ==
    ASSUME NEW n \in Node, NEW s, IsReplica(s), NEW own \in [Node -> Nat],
           NEW t \in Nat, NEW r, Relabels(s, r), Under(s, own), Fresh(s, n, t),
           own[n] = s.vectors[n].clock
    PROVE  Advances(n, s, r, own, t)
<1>1. Under(r, own) /\ Fresh(r, n, t) /\ n \in DOMAIN s.vectors
  BY DEF Under, BucketsBelow, Fresh, Relabels
<1> QED
  BY <1>1, KeepsOwnBucket DEF Relabels

\* Prune keeps the own bucket, because a session is not longer than StaleTime.
LEMMA PruneAdvances ==
    ASSUME NEW n \in Node, NEW s, IsReplica(s), NEW own \in [Node -> Nat],
           NEW t \in Nat, Under(s, own), Fresh(s, n, t),
           own[n] = s.vectors[n].clock, SyncInterval <= StaleTime
    PROVE  Advances(n, s, Prune(s), own, t)
<1> DEFINE r == Prune(s)
<1>1. /\ IsReplica(r)
      /\ DOMAIN r.vectors \subseteq DOMAIN s.vectors
      /\ \A k \in DOMAIN r.vectors : r.vectors[k] = s.vectors[k]
      /\ DOMAIN r.add \subseteq DOMAIN s.add
      /\ \A k \in DOMAIN r.add : r.add[k] = s.add[k]
      /\ DOMAIN r.remove \subseteq DOMAIN s.remove
      /\ \A k \in DOMAIN r.remove : r.remove[k] = s.remove[k]
      /\ \A p \in DOMAIN s.vectors :
            (\A k \in DOMAIN s.vectors :
                s.vectors[k].lastUpdate <= s.vectors[p].lastUpdate + StaleTime)
            => p \in DOMAIN r.vectors
  BY PruneType
<1> HIDE DEF r
<1>2. \A k \in DOMAIN s.vectors : s.vectors[k].lastUpdate \in Nat
  BY ReplicaNat
<1>3. SyncInterval \in Nat /\ StaleTime \in Nat
  BY ConfigAssumption, StaleTimeAssumption
<1>4. n \in DOMAIN s.vectors
      /\ \A k \in DOMAIN s.vectors :
            s.vectors[k].lastUpdate <= s.vectors[n].lastUpdate + StaleTime
  BY <1>2, <1>3 DEF Fresh
<1>5. n \in DOMAIN r.vectors /\ r.vectors[n] = s.vectors[n]
  BY <1>1, <1>4
<1>6. Under(r, own)
  BY <1>1 DEF Under, BucketsBelow
<1>7. Fresh(r, n, t)
  BY <1>1, <1>5 DEF Fresh
<1> QED
  BY <1>1, <1>4, <1>5, <1>6, <1>7, KeepsOwnBucket DEF r

\* Clock.Merge of clocks that their owners have reached, within a deadline of
\* the node's own last update: the own bucket stays, because nobody has a higher
\* clock for it.
LEMMA ClockMergeAdvances ==
    ASSUME NEW n \in Node, NEW s, IsReplica(s), NEW own \in [Node -> Nat],
           NEW t \in Nat, Under(s, own), Fresh(s, n, t),
           own[n] = s.vectors[n].clock,
           NEW vs, IsMapOf(vs, Node, Nat), Below(vs, own),
           t <= s.vectors[n].lastUpdate + SyncInterval
    PROVE  Advances(n, s, ClockMerge(s, vs, t), own, t)
<1> DEFINE r == ClockMerge(s, vs, t)
<1>1. /\ IsReplica(r)
      /\ DOMAIN s.vectors \subseteq DOMAIN r.vectors
      /\ r.add = s.add
      /\ r.remove = s.remove
  BY ClockMergeType
<1>2. \A k \in DOMAIN r.vectors :
         \/ k \in DOMAIN s.vectors /\ r.vectors[k] = s.vectors[k]
         \/ /\ k \in DOMAIN vs
            /\ r.vectors[k].clock = vs[k] /\ r.vectors[k].lastUpdate = t
            /\ k \in DOMAIN s.vectors => s.vectors[k].clock < vs[k]
  BY ClockMergeType
<1> HIDE DEF r
<1>3. n \in DOMAIN s.vectors /\ n \in DOMAIN r.vectors
  BY <1>1 DEF Fresh
<1>4. s.vectors[n].clock \in Nat /\ s.vectors[n].lastUpdate \in Nat
  BY <1>3, ReplicaNat
<1>5. \A k \in DOMAIN vs : vs[k] \in Nat /\ k \in Node /\ vs[k] <= own[k]
  BY DEF IsMapOf, Below
<1>6. r.vectors[n] = s.vectors[n]
  BY <1>2, <1>3, <1>4, <1>5
<1>7. \A k \in DOMAIN r.vectors : r.vectors[k].clock <= own[k]
  BY <1>2, <1>5 DEF Under
<1>8. Under(r, own)
  BY <1>1, <1>7 DEF Under
<1>9. \A k \in DOMAIN r.vectors :
         /\ r.vectors[k].lastUpdate <= t
         /\ r.vectors[k].lastUpdate <= s.vectors[n].lastUpdate + SyncInterval
  BY <1>2 DEF Fresh
<1>10. Fresh(r, n, t)
  BY <1>3, <1>6, <1>9 DEF Fresh
<1> QED
  BY <1>1, <1>3, <1>6, <1>8, <1>10, KeepsOwnBucket DEF r

\* Merge of buckets whose versions their owners have reached.
LEMMA MergeUnder ==
    ASSUME NEW s, IsReplica(s), NEW own \in [Node -> Nat],
           NEW t \in Nat, Under(s, own),
           NEW a, IsMapOf(a, Node, Bucket), BucketsBelow(a, own),
           NEW d, IsMapOf(d, Node, Bucket), BucketsBelow(d, own)
    PROVE  LET r == Merge(s, [add |-> a, remove |-> d], t)
           IN  /\ IsReplica(r)
               /\ Under(r, own)
               /\ DOMAIN s.vectors \subseteq DOMAIN r.vectors
               /\ \A k \in DOMAIN r.vectors :
                    \/ k \in DOMAIN s.vectors /\ r.vectors[k] = s.vectors[k]
                    \/ /\ r.vectors[k].lastUpdate = t
                       /\ k \in DOMAIN s.vectors => s.vectors[k].clock < own[k]
<1> DEFINE r == Merge(s, [add |-> a, remove |-> d], t)
<1>1. /\ IsReplica(r)
      /\ DOMAIN s.vectors \subseteq DOMAIN r.vectors
      /\ r.add = GMapMerge(s.add, a)
      /\ r.remove = GMapMerge(s.remove, d)
  BY MergeType
<1>2. \A k \in DOMAIN r.vectors :
         \/ k \in DOMAIN s.vectors /\ r.vectors[k] = s.vectors[k]
         \/ /\ r.vectors[k].lastUpdate = t
            /\ \/ k \in DOMAIN a /\ r.vectors[k].clock = a[k].Vector
               \/ k \in DOMAIN d /\ r.vectors[k].clock = d[k].Vector
            /\ k \in DOMAIN s.vectors => s.vectors[k].clock < r.vectors[k].clock
  BY MergeType
<1> HIDE DEF r
<1>3. IsMapOf(s.add, Node, Bucket) /\ IsMapOf(s.remove, Node, Bucket)
  BY DEF IsReplica
<1>4. \A k \in DOMAIN r.add : \/ k \in DOMAIN s.add /\ r.add[k] = s.add[k]
                              \/ k \in DOMAIN a /\ r.add[k] = a[k]
  BY <1>1, <1>3, GMapMergeType
<1>5. \A k \in DOMAIN r.remove : \/ k \in DOMAIN s.remove /\ r.remove[k] = s.remove[k]
                                 \/ k \in DOMAIN d /\ r.remove[k] = d[k]
  BY <1>1, <1>3, GMapMergeType
<1>6. BucketsBelow(r.add, own) /\ BucketsBelow(r.remove, own)
  BY <1>4, <1>5 DEF Under, BucketsBelow
<1>7. \A k \in DOMAIN r.vectors : r.vectors[k].clock <= own[k]
  BY <1>2 DEF Under, BucketsBelow
<1>8. \A k \in DOMAIN r.vectors : r.vectors[k].clock \in Nat /\ own[k] \in Nat
  BY <1>1, ReplicaNat
<1>9. \A k \in DOMAIN s.vectors : s.vectors[k].clock \in Nat
  BY ReplicaNat
<1>10. ASSUME NEW k \in DOMAIN r.vectors
       PROVE  \/ k \in DOMAIN s.vectors /\ r.vectors[k] = s.vectors[k]
              \/ /\ r.vectors[k].lastUpdate = t
                 /\ k \in DOMAIN s.vectors => s.vectors[k].clock < own[k]
  BY <1>2, <1>7, <1>8, <1>9
<1> QED
  BY <1>1, <1>6, <1>7, <1>10 DEF Under, r

\* Merge in a session: the own bucket stays.
LEMMA MergeAdvances ==
    ASSUME NEW n \in Node, NEW s, IsReplica(s), NEW own \in [Node -> Nat],
           NEW t \in Nat, Under(s, own), Fresh(s, n, t),
           own[n] = s.vectors[n].clock,
           NEW sn, IsSnapshot(sn), BucketsBelow(sn.add, own), BucketsBelow(sn.remove, own),
           t <= s.vectors[n].lastUpdate + SyncInterval
    PROVE  Advances(n, s, Merge(s, sn, t), own, t)
<1> DEFINE r == Merge(s, sn, t)
<1>1. sn = [add |-> sn.add, remove |-> sn.remove]
      /\ IsMapOf(sn.add, Node, Bucket) /\ IsMapOf(sn.remove, Node, Bucket)
  BY DEF IsSnapshot
<1> DEFINE a == sn.add
           d == sn.remove
<1> HIDE DEF a, d
<1>2. r = Merge(s, [add |-> a, remove |-> d], t)
  BY <1>1 DEF a, d
<1>3. /\ IsReplica(r) /\ Under(r, own) /\ DOMAIN s.vectors \subseteq DOMAIN r.vectors
      /\ \A k \in DOMAIN r.vectors :
            \/ k \in DOMAIN s.vectors /\ r.vectors[k] = s.vectors[k]
            \/ /\ r.vectors[k].lastUpdate = t
               /\ k \in DOMAIN s.vectors => s.vectors[k].clock < own[k]
  <2>1. IsMapOf(a, Node, Bucket) /\ IsMapOf(d, Node, Bucket)
        /\ BucketsBelow(a, own) /\ BucketsBelow(d, own)
    BY <1>1 DEF a, d
  <2> HIDE DEF r
  <2> QED
    BY <1>2, <2>1, MergeUnder
<1> HIDE DEF r
<1>4. n \in DOMAIN s.vectors /\ n \in DOMAIN r.vectors
  BY <1>3 DEF Fresh
<1>5. s.vectors[n].clock \in Nat /\ s.vectors[n].lastUpdate \in Nat
  BY <1>4, ReplicaNat
<1>6. r.vectors[n] = s.vectors[n]
  BY <1>3, <1>4, <1>5
<1>7. \A k \in DOMAIN r.vectors :
         /\ r.vectors[k].lastUpdate <= t
         /\ r.vectors[k].lastUpdate <= s.vectors[n].lastUpdate + SyncInterval
  BY <1>3 DEF Fresh
<1>8. Fresh(r, n, t)
  BY <1>4, <1>6, <1>7 DEF Fresh
<1> QED
  BY <1>3, <1>4, <1>6, <1>8, KeepsOwnBucket DEF r

\* A replica that does not change.
LEMMA SameAdvances ==
    ASSUME NEW n \in Node, NEW s, IsReplica(s), NEW own \in [Node -> Nat],
           NEW t \in Nat, Under(s, own), Fresh(s, n, t),
           own[n] = s.vectors[n].clock
    PROVE  Advances(n, s, s, own, t)
<1>1. n \in DOMAIN s.vectors
  BY DEF Fresh
<1> QED
  BY <1>1, KeepsOwnBucket
-----------------------------------------------------------------------------
(* A state function leaves the store and its message in order *)

\* What GenerateMessage of endpoint e of node n, with replica s, guarantees.
GeneratesInOrder(g, e, n, s, own, t) ==
    /\ Advances(n, s, g.store, own, t)
    /\ UnderMsg(g.msg, Raised(own, n, g.store))
    /\ g.end.peerMsg = e.peerMsg
    /\ g.end.state \in Late =>
         e.state \in Late \/ g.store.vectors[n].lastUpdate = t

\* Messages without clocks.
LEMMA NoClocksInMsg ==
    \A own : UnderMsg(NoMsg, own) /\ \A h : UnderMsg(HashMsg(h), own)
BY DEF UnderMsg, NoMsg, HashMsg

\* prepare announces what the replica holds.
LEMMA StateUnder ==
    ASSUME NEW s, IsReplica(s), NEW own, Under(s, own)
    PROVE  UnderMsg(StateMsg(GenerateState(s)), own)
<1> DEFINE st == GenerateState(s)
<1>1. st.vectors = GetClock(s) /\ st.add = GMapClock(s.add) /\ st.remove = GMapClock(s.remove)
  BY DEF GenerateState
<1>2. Below(GetClock(s), own)
  BY GetClockType DEF Under, Below
<1>3. Below(GMapClock(s.add), own) /\ Below(GMapClock(s.remove), own)
  BY DEF Under, Below, BucketsBelow, GMapClock
<1> HIDE DEF st
<1>4. UnderMsg(StateMsg(st), own)
  BY <1>1, <1>2, <1>3 DEF UnderMsg, StateMsg
<1> QED
  BY <1>4 DEF st

\* present asks for a part of what the peer announced.
LEMMA DifferenceUnder ==
    ASSUME NEW mine, NEW theirs, IsMapState(theirs), NEW h, NEW own,
           Below(theirs.add, own), Below(theirs.remove, own)
    PROVE  UnderMsg(StateMsg(Difference(mine, theirs, h)), own)
<1> DEFINE st == Difference(mine, theirs, h)
           na == Newer(mine.add, theirs.add, h)
           nr == Newer(mine.remove, theirs.remove, h)
<1>1. st.vectors = EmptyMap /\ st.add = na /\ st.remove = nr
  BY DEF Difference
<1>2. DOMAIN na \subseteq DOMAIN theirs.add /\ \A k \in DOMAIN na : na[k] = theirs.add[k]
  BY NewerType DEF IsMapState
<1>3. DOMAIN nr \subseteq DOMAIN theirs.remove /\ \A k \in DOMAIN nr : nr[k] = theirs.remove[k]
  BY NewerType DEF IsMapState
<1> HIDE DEF st, na, nr
<1>4. Below(na, own) /\ Below(nr, own)
  BY <1>2, <1>3 DEF Below
<1>5. Below(EmptyMap, own)
  BY EmptyMapType DEF Below
<1>6. UnderMsg(StateMsg(st), own)
  BY <1>1, <1>4, <1>5 DEF UnderMsg, StateMsg
<1> QED
  BY <1>6 DEF st

\* exchange sends buckets of the replica, or zero buckets.
LEMMA SnapshotUnder ==
    ASSUME NEW s, IsReplica(s), NEW own \in [Node -> Nat], Under(s, own),
           NEW st, IsMapState(st)
    PROVE  UnderMsg(SnapshotMsg(SnapShotFromState(s, st)), own)
<1> DEFINE sn == SnapShotFromState(s, st)
           a == SaveWithKeys(s.add, DOMAIN st.add)
           d == SaveWithKeys(s.remove, DOMAIN st.remove)
<1>1. DOMAIN st.add \in SUBSET Node /\ DOMAIN st.remove \in SUBSET Node
  BY DEF IsMapState, IsMapOf
<1>2. IsMapOf(s.add, Node, Bucket) /\ IsMapOf(s.remove, Node, Bucket)
  BY DEF IsReplica
<1>3. /\ DOMAIN a = DOMAIN st.add
      /\ \A k \in DOMAIN a : (k \in DOMAIN s.add /\ a[k] = s.add[k]) \/ a[k] = ZeroBucket
  BY <1>1, <1>2, SaveWithKeysType
<1>4. /\ DOMAIN d = DOMAIN st.remove
      /\ \A k \in DOMAIN d : (k \in DOMAIN s.remove /\ d[k] = s.remove[k]) \/ d[k] = ZeroBucket
  BY <1>1, <1>2, SaveWithKeysType
<1>5. sn.add = a /\ sn.remove = d
  BY DEF SnapShotFromState
<1> HIDE DEF sn, a, d
<1>6. ZeroBucket.Vector = 0 /\ \A k \in Node : 0 <= own[k]
  BY DEF ZeroBucket
<1>7. BucketsBelow(a, own)
  BY <1>1, <1>3, <1>6 DEF Under, BucketsBelow
<1>8. BucketsBelow(d, own)
  BY <1>1, <1>4, <1>6 DEF Under, BucketsBelow
<1>9. UnderMsg(SnapshotMsg(sn), own)
  BY <1>5, <1>7, <1>8 DEF UnderMsg, SnapshotMsg
<1> QED
  BY <1>9 DEF sn

\* Raising the clocks keeps what is below them.
LEMMA UnderMonotone ==
    ASSUME NEW own \in [Node -> Nat], NEW more \in [Node -> Nat],
           \A k \in Node : own[k] <= more[k]
    PROVE  /\ \A s : IsReplica(s) /\ Under(s, own) => Under(s, more)
           /\ \A m : IsMsg(m) /\ UnderMsg(m, own) => UnderMsg(m, more)
<1>1. ASSUME NEW s, IsReplica(s), Under(s, own) PROVE Under(s, more)
  <2>1. \A k \in DOMAIN s.vectors : s.vectors[k].clock <= more[k]
    BY <1>1, ReplicaNat DEF Under
  <2>2. BucketsBelow(s.add, more)
    BY <1>1, ReplicaNat DEF Under, BucketsBelow
  <2>3. BucketsBelow(s.remove, more)
    BY <1>1, ReplicaNat DEF Under, BucketsBelow
  <2> QED
    BY <2>1, <2>2, <2>3 DEF Under
<1>2. ASSUME NEW vs, IsMapOf(vs, Node, Nat), Below(vs, own) PROVE Below(vs, more)
  <2>1. \A k \in DOMAIN vs : k \in Node /\ vs[k] \in Nat
    BY <1>2 DEF IsMapOf
  <2> QED
    BY <1>2, <2>1 DEF Below
<1>3. ASSUME NEW b, IsMapOf(b, Node, Bucket), BucketsBelow(b, own) PROVE BucketsBelow(b, more)
  <2>1. \A k \in DOMAIN b : k \in Node /\ b[k].Vector \in Nat
    BY <1>3 DEF IsMapOf, Bucket
  <2> QED
    BY <1>3, <2>1 DEF BucketsBelow
<1>4. ASSUME NEW m, IsMsg(m), UnderMsg(m, own) PROVE UnderMsg(m, more)
  <2>1. m.kind = "state" => IsMapState(m.state)
    BY <1>4 DEF IsMsg, NoMsg
  <2>2. m.kind = "snapshot" => IsSnapshot(m.snapshot)
    BY <1>4 DEF IsMsg, NoMsg
  <2>3. m.kind = "state" => /\ Below(m.state.vectors, more)
                            /\ Below(m.state.add, more)
                            /\ Below(m.state.remove, more)
    BY <1>2, <1>4, <2>1 DEF UnderMsg, IsMapState
  <2>4. m.kind = "snapshot" => /\ BucketsBelow(m.snapshot.add, more)
                               /\ BucketsBelow(m.snapshot.remove, more)
    BY <1>3, <1>4, <2>2 DEF UnderMsg, IsSnapshot
  <2> QED
    BY <2>3, <2>4 DEF UnderMsg
<1> QED
  BY <1>1, <1>4

\* The own clocks after a step of n are clocks, and none went back.
LEMMA RaisedType ==
    ASSUME NEW n \in Node, NEW s, NEW r, NEW own \in [Node -> Nat], NEW t,
           Advances(n, s, r, own, t)
    PROVE  /\ Raised(own, n, r) \in [Node -> Nat]
           /\ \A k \in Node : own[k] <= Raised(own, n, r)[k]
<1>1. IsReplica(r) /\ n \in DOMAIN r.vectors /\ own[n] <= r.vectors[n].clock
  BY DEF Advances
<1>2. r.vectors[n].clock \in Nat
  BY <1>1, ReplicaNat
<1> QED
  BY <1>1, <1>2 DEF Raised

\* A decoded message is bounded like the message.
LEMMA DecodeUnder ==
    ASSUME NEW m, NEW own, UnderMsg(m, own)
    PROVE  /\ Below(DecodeState(m).vectors, own)
           /\ Below(DecodeState(m).add, own)
           /\ Below(DecodeState(m).remove, own)
           /\ BucketsBelow(DecodeSnapshot(m).add, own)
           /\ BucketsBelow(DecodeSnapshot(m).remove, own)
<1>1. Below(EmptyMap, own) /\ BucketsBelow(EmptyMap, own)
  BY EmptyMapType DEF Below, BucketsBelow
<1>2. CASE m.kind = "state"
  <2>1. DecodeState(m) = m.state /\ DecodeSnapshot(m) = EmptySnapshot
    BY <1>2 DEF DecodeState, DecodeSnapshot
  <2> QED
    BY <1>1, <1>2, <2>1 DEF UnderMsg, EmptySnapshot
<1>3. CASE m.kind = "snapshot"
  <2>1. DecodeState(m) = EmptyState /\ DecodeSnapshot(m) = m.snapshot
    BY <1>3 DEF DecodeState, DecodeSnapshot
  <2> QED
    BY <1>1, <1>3, <2>1 DEF UnderMsg, EmptyState
<1>4. CASE m.kind # "state" /\ m.kind # "snapshot"
  <2>1. DecodeState(m) = EmptyState /\ DecodeSnapshot(m) = EmptySnapshot
    BY <1>4 DEF DecodeState, DecodeSnapshot
  <2> QED
    BY <1>1, <2>1 DEF EmptyState, EmptySnapshot
<1> QED
  BY <1>2, <1>3, <1>4

\* GenerateMessage: whatever the state function, the store and the message stay
\* in order, and a state function that merges runs after prepare has advanced
\* the node's own clock.
LEMMA GenerateInOrder ==
    ASSUME NEW n \in Node, IsReplica(store[n]), NEW e, IsEndpoint(e), now \in Nat,
           NEW own \in [Node -> Nat], Under(store[n], own),
           Fresh(store[n], n, now), own[n] = store[n].vectors[n].clock,
           UnderMsg(e.peerMsg, own),
           e.state \in Late => now <= store[n].vectors[n].lastUpdate + SyncInterval
    PROVE  GeneratesInOrder(GenerateMessage(e, n), e, n, store[n], own, now)
<1> DEFINE s == store[n]
           g == GenerateMessage(e, n)
           m == e.peerMsg
<1>t. e.state \in SyncState /\ IsMsg(m) /\ n \in DOMAIN s.vectors
      /\ IsMapState(e.mapState)
  BY DEF IsEndpoint, Fresh
<1>d. IsMapState(DecodeState(m)) /\ IsSnapshot(DecodeSnapshot(m))
  BY <1>t, DecodeType
<1>u. /\ Below(DecodeState(m).vectors, own)
      /\ Below(DecodeState(m).add, own)
      /\ Below(DecodeState(m).remove, own)
      /\ BucketsBelow(DecodeSnapshot(m).add, own)
      /\ BucketsBelow(DecodeSnapshot(m).remove, own)
  BY DecodeUnder
<1>same. Advances(n, s, s, own, now)
  BY SameAdvances
<1>times. \A k \in DOMAIN s.vectors : s.vectors[k].lastUpdate <= now
  BY DEF Fresh
<1> HIDE DEF s, m
<1>s. IsReplica(s) /\ Under(s, own) /\ Fresh(s, n, now) /\ own[n] = s.vectors[n].clock
  BY DEF s
<1>l. e.state \in Late => now <= s.vectors[n].lastUpdate + SyncInterval
  BY DEF s
<1>1. CASE e.state = "HASH"
  <2> DEFINE e1 == [e EXCEPT !.state = "PREPARE"]
  <2>1. g = Generated(e1, s, HashMsg(ClockHash(s)), TRUE)
    BY <1>1 DEF GenerateMessage, hash, s
  <2>2. e1.peerMsg = e.peerMsg /\ e1.state = "PREPARE"
    BY DEF IsEndpoint
  <2> HIDE DEF e1
  <2>3. g.store = s /\ g.msg = HashMsg(ClockHash(s)) /\ g.end = e1
    BY <2>1 DEF Generated
  <2> HIDE DEF g
  <2> QED
    BY <1>same, <2>2, <2>3, NoClocksInMsg DEF GeneratesInOrder, Late, g, s
<1>2. CASE e.state = "PREPARE"
  <2> DEFINE s1 == IncrementClock(s, n, now)
             st == GenerateState(s1)
             e1 == [e EXCEPT !.state = "PRESENT", !.mapState = st]
  <2>1. \/ g = Generated(e, s, NoMsg, FALSE)
        \/ g = Generated(e1, s1, StateMsg(st), TRUE)
    BY <1>2 DEF GenerateMessage, prepare, s
  <2>2. CASE g = Generated(e, s, NoMsg, FALSE)
    <3>1. g.store = s /\ g.msg = NoMsg /\ g.end = e
      BY <2>2 DEF Generated
    <3> HIDE DEF g
    <3> QED
      BY <1>2, <1>same, <3>1, NoClocksInMsg DEF GeneratesInOrder, Late, g, s
  <2>3. CASE g = Generated(e1, s1, StateMsg(st), TRUE)
    <3>1. Advances(n, s, s1, own, now) /\ s1.vectors[n].lastUpdate = now
      BY <1>s, <1>t, <1>times, IncrementAdvances
    <3>2. e1.peerMsg = e.peerMsg
      BY DEF IsEndpoint
    <3>3. g.store = s1 /\ g.msg = StateMsg(st) /\ g.end = e1
      BY <2>3 DEF Generated
    <3> HIDE DEF s1, g, e1
    <3>4. IsReplica(s1) /\ Under(s1, Raised(own, n, s1))
      BY <3>1 DEF Advances
    <3>5. UnderMsg(StateMsg(st), Raised(own, n, s1))
      BY <3>4, StateUnder
    <3> HIDE DEF st
    <3> QED
      BY <3>1, <3>2, <3>3, <3>5 DEF GeneratesInOrder, g, s
  <2> QED
    BY <2>1, <2>2, <2>3
<1>3. CASE e.state = "PRESENT"
  <2> DEFINE theirs == DecodeState(m)
             s1 == ClockMerge(s, theirs.vectors, now)
             df == Difference(e.mapState, theirs, s.highestStale)
             e1 == [e EXCEPT !.state = "EXCHANGE"]
  <2>1. g = Generated(e1, s1, StateMsg(df), TRUE)
    BY <1>3 DEF GenerateMessage, present, s, m
  <2>2. e1.peerMsg = e.peerMsg
    BY DEF IsEndpoint
  <2>3. g.store = s1 /\ g.msg = StateMsg(df) /\ g.end = e1
    BY <2>1 DEF Generated
  <2> HIDE DEF theirs
  <2>4. IsMapState(theirs) /\ Below(theirs.vectors, own)
        /\ Below(theirs.add, own) /\ Below(theirs.remove, own)
    BY <1>d, <1>u DEF theirs
  <2>5. Advances(n, s, s1, own, now)
    <3>1. now <= s.vectors[n].lastUpdate + SyncInterval
      BY <1>3, <1>l DEF Late
    <3>2. IsMapOf(theirs.vectors, Node, Nat)
      BY <2>4 DEF IsMapState
    <3> QED
      BY <1>s, <2>4, <3>1, <3>2, ClockMergeAdvances
  <2>6. UnderMsg(StateMsg(df), own)
    BY <2>4, DifferenceUnder
  <2>7. IsMsg(StateMsg(df))
    BY <2>4, DifferenceType, MsgType
  <2> HIDE DEF s1, df, e1, g
  <2>8. UnderMsg(StateMsg(df), Raised(own, n, s1))
    BY <2>5, <2>6, <2>7, RaisedType, UnderMonotone
  <2> QED
    BY <1>3, <2>2, <2>3, <2>5, <2>8 DEF GeneratesInOrder, g, s, Late
<1>4. CASE e.state = "EXCHANGE"
  <2> DEFINE st == DecodeState(m)
             sn == SnapShotFromState(s, st)
             e1 == [e EXCEPT !.state = "MERGE"]
  <2>1. g = Generated(e1, s, SnapshotMsg(sn), TRUE)
    BY <1>4 DEF GenerateMessage, exchange, s, m
  <2>2. e1.peerMsg = e.peerMsg
    BY DEF IsEndpoint
  <2>3. g.store = s /\ g.msg = SnapshotMsg(sn) /\ g.end = e1
    BY <2>1 DEF Generated
  <2>4. IsMapState(st)
    BY <1>d
  <2> HIDE DEF st
  <2>5. UnderMsg(SnapshotMsg(sn), own)
    BY <1>s, <2>4, SnapshotUnder
  <2>6. IsMsg(SnapshotMsg(sn))
    BY <1>s, <2>4, SnapShotFromStateType, MsgType
  <2> HIDE DEF sn, e1, g
  <2>7. UnderMsg(SnapshotMsg(sn), Raised(own, n, s))
    BY <1>same, <2>5, <2>6, RaisedType, UnderMonotone DEF s
  <2> QED
    BY <1>4, <1>same, <2>2, <2>3, <2>7 DEF GeneratesInOrder, g, s, Late
<1>5. CASE e.state = "MERGE"
  <2> DEFINE sn == DecodeSnapshot(m)
             s1 == Merge(s, sn, now)
  <2>1. g = Generated(e, s1, NoMsg, FALSE)
    BY <1>5 DEF GenerateMessage, merge, s, m
  <2>2. g.store = s1 /\ g.msg = NoMsg /\ g.end = e
    BY <2>1 DEF Generated
  <2>3. IsSnapshot(sn) /\ BucketsBelow(sn.add, own) /\ BucketsBelow(sn.remove, own)
    BY <1>d, <1>u
  <2> HIDE DEF sn
  <2>4. Advances(n, s, s1, own, now)
    <3>1. now <= s.vectors[n].lastUpdate + SyncInterval
      BY <1>5, <1>l DEF Late
    <3> QED
      BY <1>s, <2>3, <3>1, MergeAdvances
  <2> HIDE DEF s1, g
  <2> QED
    BY <1>5, <2>2, <2>4, NoClocksInMsg DEF GeneratesInOrder, g, s, Late
<1> QED
  BY <1>t, <1>1, <1>2, <1>3, <1>4, <1>5 DEF SyncState
-----------------------------------------------------------------------------
(* Steps of the mesh *)

\* Own is the map of the nodes' own clocks.
LEMMA OwnType ==
    ASSUME StoresTyped
    PROVE  /\ Own \in [Node -> Nat]
           /\ \A n \in Node : LastUpdate(n) \in Nat
           /\ \A n \in Node : n \in DOMAIN store[n].vectors =>
                /\ Own[n] = store[n].vectors[n].clock
                /\ LastUpdate(n) = store[n].vectors[n].lastUpdate
           /\ \A n \in Node : n \notin DOMAIN store[n].vectors => Own[n] = 0
<1>1. \A n \in Node : \A k \in DOMAIN store[n].vectors :
          store[n].vectors[k].clock \in Nat /\ store[n].vectors[k].lastUpdate \in Nat
  BY ReplicaNat DEF StoresTyped
<1>2. \A n \in Node : OwnClock(n) \in Nat /\ LastUpdate(n) \in Nat
  BY <1>1 DEF OwnClock, LastUpdate, At, ZeroVector
<1>3. \A n \in Node : n \in DOMAIN store[n].vectors =>
        OwnClock(n) = store[n].vectors[n].clock /\ LastUpdate(n) = store[n].vectors[n].lastUpdate
  BY DEF OwnClock, LastUpdate, At
<1>4. \A n \in Node : n \notin DOMAIN store[n].vectors => OwnClock(n) = 0
  BY DEF OwnClock, At, ZeroVector
<1> QED
  BY <1>2, <1>3, <1>4 DEF Own

\* The stores stay in order when node n's advances, and no clock goes back.
LEMMA StoreStep ==
    ASSUME TypeOK, TypeOK', StoresInOrder, NEW n \in Node, NEW r,
           Advances(n, store[n], r, Own, now),
           store' = [store EXCEPT ![n] = r], now' = now,
           status'[n] # "out",
           \A m \in Node : m # n => (status'[m] = "out" <=> status[m] = "out")
    PROVE  /\ StoresInOrder'
           /\ Own' = Raised(Own, n, r)
           /\ \A k \in Node : Own[k] <= Own'[k]
           /\ \A k \in Node : status[k] # "out" => LastUpdate(k) <= LastUpdate(k)'
           /\ LastUpdate(n)' = r.vectors[n].lastUpdate
<1>1. StoresTyped /\ StoresTyped'
  BY DEF TypeOK
<1>2. store'[n] = r /\ \A m \in Node : m # n => store'[m] = store[m]
  BY <1>1 DEF StoresTyped
<1>3. /\ IsReplica(r) /\ n \in DOMAIN r.vectors /\ Under(r, Raised(Own, n, r))
      /\ Fresh(r, n, now)
      /\ n \in DOMAIN store[n].vectors =>
            store[n].vectors[n].lastUpdate <= r.vectors[n].lastUpdate
  BY DEF Advances
<1>4. Own \in [Node -> Nat]
  BY <1>1, OwnType
<1>5. /\ Raised(Own, n, r) \in [Node -> Nat]
      /\ \A k \in Node : Own[k] <= Raised(Own, n, r)[k]
  BY <1>4, RaisedType
<1>6. Own' = Raised(Own, n, r)
  BY <1>2, <1>3 DEF Own, OwnClock, At, Raised
<1>7. LastUpdate(n)' = r.vectors[n].lastUpdate
  BY <1>2, <1>3 DEF LastUpdate, At
<1>8. ASSUME NEW k \in Node, status[k] # "out" PROVE LastUpdate(k) <= LastUpdate(k)'
  <2>1. CASE k = n
    <3>1. n \in DOMAIN store[n].vectors
      BY <1>8, <2>1 DEF StoresInOrder, Fresh
    <3> QED
      BY <1>1, <1>3, <1>7, <2>1, <3>1, OwnType
  <2>2. CASE k # n
    <3>1. LastUpdate(k)' = LastUpdate(k)
      BY <1>2, <2>2 DEF LastUpdate
    <3>2. LastUpdate(k) \in Nat
      BY <1>1, OwnType
    <3> QED
      BY <3>1, <3>2
  <2> QED
    BY <2>1, <2>2
<1>9. ASSUME NEW m \in Node
      PROVE  /\ Under(store'[m], Own')
             /\ status'[m] = "out" => store'[m] = NewTwoPhaseMap
             /\ status'[m] # "out" => Fresh(store'[m], m, now')
  <2>1. CASE m = n
    BY <1>2, <1>3, <1>6, <2>1
  <2>2. CASE m # n
    <3>1. Under(store[m], Own) /\ IsReplica(store[m])
      BY <1>1 DEF StoresInOrder, StoresTyped
    <3>2. Under(store[m], Raised(Own, n, r))
      BY <1>4, <1>5, <3>1, UnderMonotone
    <3>3. /\ status[m] = "out" => store[m] = NewTwoPhaseMap
          /\ status[m] # "out" => Fresh(store[m], m, now)
      BY DEF StoresInOrder
    <3> QED
      BY <1>2, <1>6, <2>2, <3>2, <3>3
  <2> QED
    BY <2>1, <2>2
<1>10. StoresInOrder'
  BY <1>9 DEF StoresInOrder
<1> QED
  BY <1>5, <1>6, <1>7, <1>8, <1>10

\* A Sync that takes no step stays in order.
LEMMA SessionKept ==
    ASSUME TypeOK, TypeOK', NEW c \in Node, SessionInOrder(c),
           sync'[c] = sync[c], now' = now,
           \A k \in Node : Own[k] <= Own'[k],
           \A k \in Node : status[k] # "out" =>
                status'[k] # "out" /\ LastUpdate(k) <= LastUpdate(k)'
    PROVE  SessionInOrder(c)'
<1>1. /\ StoresTyped /\ StoresTyped' /\ now \in Nat /\ IsSyncRecord(sync[c])
  BY DEF TypeOK, SyncsTyped
<1>2. Own \in [Node -> Nat] /\ \A n \in Node : LastUpdate(n) \in Nat
  BY <1>1, OwnType
<1>3. Own' \in [Node -> Nat] /\ \A n \in Node : LastUpdate(n)' \in Nat
  <2>1. \A n \in Node : IsReplica(store'[n])
    BY <1>1 DEF StoresTyped
  <2>2. \A n \in Node : \A k \in DOMAIN store'[n].vectors :
           store'[n].vectors[k].clock \in Nat /\ store'[n].vectors[k].lastUpdate \in Nat
    BY <2>1, ReplicaNat
  <2>3. \A n \in Node : OwnClock(n)' \in Nat /\ LastUpdate(n)' \in Nat
    BY <2>2 DEF OwnClock, LastUpdate, At, ZeroVector
  <2> QED
    BY <2>3 DEF Own
<1>4. /\ IsMsg(sync[c].msg) /\ IsMsg(sync[c].cli.peerMsg) /\ IsMsg(sync[c].srv.peerMsg)
      /\ sync[c].start \in Nat
      /\ InSession(c) => sync[c].server \in Node
  BY <1>1 DEF IsSyncRecord, IsEndpoint, InSession
<1>5. /\ UnderMsg(sync[c].msg, Own')
      /\ UnderMsg(sync[c].cli.peerMsg, Own')
      /\ UnderMsg(sync[c].srv.peerMsg, Own')
  BY <1>2, <1>3, <1>4, UnderMonotone DEF SessionInOrder
<1>6. sync[c].pc # "idle" => status'[c] # "out"
  BY DEF SessionInOrder
<1>7. ASSUME InSession(c)
      PROVE  /\ sync[c].start <= now /\ now <= sync[c].start + SyncInterval
             /\ sync[c].cli.state \in Late => sync[c].start <= LastUpdate(c)'
             /\ sync[c].srv.state # "HASH" => status'[sync[c].server] # "out"
             /\ sync[c].srv.state \in Late => sync[c].start <= LastUpdate(sync[c].server)'
  <2>1. /\ sync[c].start <= now /\ now <= sync[c].start + SyncInterval
        /\ sync[c].cli.state \in Late => sync[c].start <= LastUpdate(c)
        /\ sync[c].srv.state # "HASH" => status[sync[c].server] # "out"
        /\ sync[c].srv.state \in Late => sync[c].start <= LastUpdate(sync[c].server)
        /\ status[c] # "out"
    BY <1>7 DEF SessionInOrder, InSession
  <2>2. sync[c].cli.state \in Late => sync[c].start <= LastUpdate(c)'
    BY <1>2, <1>3, <1>4, <2>1
  <2> DEFINE v == sync[c].server
  <2>3. v \in Node
    BY <1>4, <1>7
  <2> HIDE DEF v
  <2>4. sync[c].srv.state \in Late => sync[c].srv.state # "HASH"
    BY DEF Late
  <2>5. sync[c].srv.state \in Late => sync[c].start <= LastUpdate(v)'
    BY <1>2, <1>3, <1>4, <2>1, <2>3, <2>4 DEF v
  <2>6. sync[c].srv.state # "HASH" => status'[v] # "out"
    BY <2>1, <2>3 DEF v
  <2> QED
    BY <2>1, <2>2, <2>5, <2>6 DEF v
<1>8. InSession(c)' <=> InSession(c)
  BY DEF InSession
<1> QED
  BY <1>5, <1>6, <1>7, <1>8 DEF SessionInOrder

\* A Sync without a session is in order.
LEMMA CalmSession ==
    ASSUME NEW c \in Node, sync'[c].pc \in {"idle", "loop"},
           sync'[c].msg = NoMsg, sync'[c].cli = NewTwoPhaseSyncer,
           sync'[c].srv = NewTwoPhaseSyncer,
           sync'[c].pc = "loop" => status'[c] # "out"
    PROVE  SessionInOrder(c)'
<1>1. NewTwoPhaseSyncer.peerMsg = NoMsg
  BY DEF NewTwoPhaseSyncer
<1>2. \A own : UnderMsg(NoMsg, own)
  BY NoClocksInMsg
<1>3. ~InSession(c)'
  BY DEF InSession
<1> QED
  BY <1>1, <1>2, <1>3 DEF SessionInOrder

\* A handler that writes to the store of node n and to no session.
LEMMA HandlerStep ==
    ASSUME TypeOK, TypeOK', SyncInOrder, NEW n \in Node, NEW r,
           Advances(n, store[n], r, Own, now),
           store' = [store EXCEPT ![n] = r], now' = now, sync' = sync,
           status'[n] # "out",
           \A m \in Node : m # n => (status'[m] = "out" <=> status[m] = "out")
    PROVE  SyncInOrder'
<1>1. StoresInOrder /\ \A c \in Node : SessionInOrder(c)
  BY DEF SyncInOrder
<1>2. /\ StoresInOrder'
      /\ \A k \in Node : Own[k] <= Own'[k]
      /\ \A k \in Node : status[k] # "out" => LastUpdate(k) <= LastUpdate(k)'
  BY <1>1, StoreStep
<1>3. ASSUME NEW c \in Node PROVE SessionInOrder(c)'
  BY <1>1, <1>2, SessionKept
<1> QED
  BY <1>2, <1>3 DEF SyncInOrder

\* A step of the Sync of node c, that also writes to the store of node n.
LEMMA SyncStepInOrder ==
    ASSUME TypeOK, TypeOK', SyncInOrder, NEW n \in Node, NEW r, NEW c \in Node,
           Advances(n, store[n], r, Own, now),
           store' = [store EXCEPT ![n] = r], now' = now,
           \A d \in Node : d # c => sync'[d] = sync[d],
           status'[n] # "out",
           \A m \in Node : m # n => (status'[m] = "out" <=> status[m] = "out"),
           SessionInOrder(c)'
    PROVE  SyncInOrder'
<1>1. StoresInOrder /\ \A d \in Node : SessionInOrder(d)
  BY DEF SyncInOrder
<1>2. /\ StoresInOrder'
      /\ \A k \in Node : Own[k] <= Own'[k]
      /\ \A k \in Node : status[k] # "out" => LastUpdate(k) <= LastUpdate(k)'
  BY <1>1, StoreStep
<1>3. ASSUME NEW d \in Node, d # c PROVE SessionInOrder(d)'
  BY <1>1, <1>2, <1>3, SessionKept
<1> QED
  BY <1>2, <1>3 DEF SyncInOrder

\* A step of the Sync of node c that leaves the stores alone.
LEMMA SyncOnlyInOrder ==
    ASSUME TypeOK, TypeOK', SyncInOrder, NEW c \in Node,
           store' = store, now' = now,
           \A d \in Node : d # c => sync'[d] = sync[d],
           \A m \in Node : status'[m] = "out" <=> status[m] = "out",
           SessionInOrder(c)'
    PROVE  SyncInOrder'
<1>1. StoresInOrder /\ \A d \in Node : SessionInOrder(d)
  BY DEF SyncInOrder
<1>2. StoresTyped
  BY DEF TypeOK
<1>3. Own' = Own /\ \A k \in Node : LastUpdate(k)' = LastUpdate(k)
  BY DEF Own, OwnClock, LastUpdate
<1>4. StoresInOrder'
  BY <1>1, <1>3 DEF StoresInOrder
<1>5. /\ \A k \in Node : Own[k] <= Own'[k]
      /\ \A k \in Node : LastUpdate(k) <= LastUpdate(k)'
  BY <1>2, <1>3, OwnType
<1>6. ASSUME NEW d \in Node, d # c PROVE SessionInOrder(d)'
  BY <1>1, <1>5, <1>6, SessionKept
<1> QED
  BY <1>4, <1>6 DEF SyncInOrder

\* A store that was never joined is empty, and nobody has heard of its owner.
LEMMA OutStore ==
    ASSUME TypeOK, StoresInOrder, NEW n \in Node, status[n] = "out"
    PROVE  store[n] = NewTwoPhaseMap /\ Own[n] = 0 /\ n \notin DOMAIN store[n].vectors
<1>1. store[n] = NewTwoPhaseMap
  BY DEF StoresInOrder
<1>2. DOMAIN store[n].vectors = {}
  BY <1>1, EmptyMapType DEF NewTwoPhaseMap
<1> QED
  BY <1>1, <1>2, OwnType DEF TypeOK

\* The new replica of a node that creates the mesh or joins it.
LEMMA NewReplicaUnder ==
    ASSUME NEW own
    PROVE  Under(NewTwoPhaseMap, own) /\ DOMAIN NewTwoPhaseMap.vectors = {}
BY EmptyMapType DEF NewTwoPhaseMap, Under, BucketsBelow

\* What the invariant says of the store of a node that has joined.
LEMMA MemberStore ==
    ASSUME TypeOK, StoresInOrder, NEW n \in Node, status[n] # "out"
    PROVE  /\ IsReplica(store[n])
           /\ Own \in [Node -> Nat]
           /\ now \in Nat
           /\ Under(store[n], Own)
           /\ Fresh(store[n], n, now)
           /\ n \in DOMAIN store[n].vectors
           /\ Own[n] = store[n].vectors[n].clock
           /\ LastUpdate(n) = store[n].vectors[n].lastUpdate
           /\ \A k \in DOMAIN store[n].vectors : store[n].vectors[k].lastUpdate <= now
<1>1. StoresTyped /\ now \in Nat
  BY DEF TypeOK
<1>2. Under(store[n], Own) /\ Fresh(store[n], n, now)
  BY DEF StoresInOrder
<1>3. n \in DOMAIN store[n].vectors
      /\ \A k \in DOMAIN store[n].vectors : store[n].vectors[k].lastUpdate <= now
  BY <1>2 DEF Fresh
<1>4. IsReplica(store[n])
  BY <1>1 DEF StoresTyped
<1> QED
  BY <1>1, <1>2, <1>3, <1>4, OwnType

\* Creating, joining, leaving.
LEMMA HandlersInOrder ==
    ASSUME TypeOK, TypeOK', SyncInOrder, NEW n \in Node,
           \/ CreateMesh(n)
           \/ \E p \in Node : JoinMesh(n, p)
           \/ LeaveMesh(n)
    PROVE  SyncInOrder'
<1> USE DEF boundVars, syncerVars, handlerVars
<1>t. StoresInOrder /\ StoresTyped /\ now \in Nat /\ status \in [Node -> Status]
  BY DEF SyncInOrder, TypeOK
<1>o. Own \in [Node -> Nat] /\ FreshData \in Data
  BY <1>t, OwnType, ConfigAssumption
<1>e. IsReplica(NewTwoPhaseMap)
  BY NewTwoPhaseMapType
<1>1. CASE CreateMesh(n)
  <2> DEFINE r == Put(NewTwoPhaseMap, n, n, FreshData, now)
  <2>1. /\ status[n] = "out" /\ status' = [status EXCEPT ![n] = "in"]
        /\ store' = [store EXCEPT ![n] = r] /\ now' = now /\ sync' = sync
    BY <1>1 DEF CreateMesh
  <2>2. store[n] = NewTwoPhaseMap /\ Own[n] = 0
    BY <1>t, <2>1, OutStore
  <2>3. Under(NewTwoPhaseMap, Own) /\ DOMAIN NewTwoPhaseMap.vectors = {}
    BY NewReplicaUnder
  <2>4. Advances(n, NewTwoPhaseMap, r, Own, now)
    BY <1>t, <1>o, <1>e, <2>2, <2>3, PutAdvances
  <2> HIDE DEF r
  <2>5. status'[n] # "out" /\ \A m \in Node : m # n => status'[m] = status[m]
    BY <1>t, <2>1
  <2> QED
    BY <2>1, <2>2, <2>4, <2>5, HandlerStep
<1>2. ASSUME NEW p \in Node, JoinMesh(n, p) PROVE SyncInOrder'
  <2> DEFINE a == store[p].add
             d == store[p].remove
             m == Merge(NewTwoPhaseMap, [add |-> a, remove |-> d], now)
             r == Put(m, n, n, FreshData, now)
  <2>1. /\ status[n] = "out" /\ status' = [status EXCEPT ![n] = "in"]
        /\ store' = [store EXCEPT ![n] = r] /\ now' = now /\ sync' = sync
    BY <1>2 DEF JoinMesh, Loaded, TakeSnapshot
  <2>2. store[n] = NewTwoPhaseMap /\ Own[n] = 0 /\ n \notin DOMAIN store[n].vectors
    BY <1>t, <2>1, OutStore
  <2>3. Under(NewTwoPhaseMap, Own) /\ DOMAIN NewTwoPhaseMap.vectors = {}
    BY NewReplicaUnder
  <2>4. /\ IsMapOf(a, Node, Bucket) /\ IsMapOf(d, Node, Bucket)
        /\ BucketsBelow(a, Own) /\ BucketsBelow(d, Own)
    BY <1>t DEF StoresTyped, StoresInOrder, IsReplica, Under
  <2> HIDE DEF a, d
  <2>5. /\ IsReplica(m) /\ Under(m, Own)
        /\ \A k \in DOMAIN m.vectors :
             \/ k \in DOMAIN NewTwoPhaseMap.vectors
             \/ m.vectors[k].lastUpdate = now
    BY <1>t, <1>o, <1>e, <2>3, <2>4, MergeUnder
  <2> HIDE DEF m
  <2>6. \A k \in DOMAIN m.vectors : m.vectors[k].lastUpdate <= now
    BY <1>t, <2>3, <2>5
  <2>7. Advances(n, m, r, Own, now)
    BY <1>t, <1>o, <2>2, <2>5, <2>6, PutAdvances
  <2> HIDE DEF r
  <2>8. Advances(n, store[n], r, Own, now)
    BY <2>2, <2>7 DEF Advances
  <2>9. status'[n] # "out" /\ \A x \in Node : x # n => status'[x] = status[x]
    BY <1>t, <2>1
  <2> QED
    BY <2>1, <2>8, <2>9, HandlerStep
<1>4. CASE LeaveMesh(n)
  <2> DEFINE r == IF Contains(store[n], n) THEN Remove(store[n], n, n, now) ELSE store[n]
  <2>1. /\ status[n] # "out" /\ status' = [status EXCEPT ![n] = "leaving"]
        /\ store' = [store EXCEPT ![n] = r] /\ now' = now /\ sync' = sync
    BY <1>4 DEF LeaveMesh
  <2>2. Advances(n, store[n], Remove(store[n], n, n, now), Own, now)
    BY <1>t, <2>1, MemberStore, RemoveAdvances
  <2>3. Advances(n, store[n], store[n], Own, now)
    BY <1>t, <2>1, MemberStore, SameAdvances
  <2>4. Advances(n, store[n], r, Own, now)
    BY <2>2, <2>3
  <2> HIDE DEF r
  <2>5. status'[n] # "out" /\ \A m \in Node : m # n => status'[m] = status[m]
    BY <1>t, <2>1
  <2> QED
    BY <2>1, <2>4, <2>5, HandlerStep
<1> QED
  BY <1>1, <1>2, <1>4

\* The handlers that update an entry, and the heartbeat.
LEMMA UpdatesKeepOrder ==
    ASSUME TypeOK, TypeOK', SyncInOrder, HandlersJoined, NEW h \in Handler, UpdateStep(h)
    PROVE  SyncInOrder'
<1>0. PICK n \in Node : n = upd[h].node
  BY UpdateMoves
<1>1. /\ n \in Node /\ upd[h].pc # "idle"
      /\ \E r : Rewrites(n, store[n], r) /\ store' = [store EXCEPT ![n] = r]
      /\ \/ status' = status /\ sync' = sync
         \/ status' = [status EXCEPT ![n] = "crashed"] /\ sync' = [sync EXCEPT ![n] = Idle]
      /\ now' = now
  BY <1>0, UpdateMoves
<1>2. status[n] # "out"
  BY <1>0, <1>1 DEF HandlersJoined, Handled
<1>3. StoresInOrder /\ SyncsTyped /\ status \in [Node -> Status]
  BY DEF SyncInOrder, TypeOK
<1>4. /\ IsReplica(store[n]) /\ Own \in [Node -> Nat] /\ now \in Nat /\ Under(store[n], Own)
      /\ Fresh(store[n], n, now) /\ n \in DOMAIN store[n].vectors
      /\ Own[n] = store[n].vectors[n].clock
      /\ \A k \in DOMAIN store[n].vectors : store[n].vectors[k].lastUpdate <= now
  BY <1>1, <1>2, <1>3, MemberStore
<1>5. PICK r : Rewrites(n, store[n], r) /\ store' = [store EXCEPT ![n] = r]
  BY <1>1
<1>6. Advances(n, store[n], r, Own, now)
  <2>1. CASE Relabels(store[n], r)
    BY <1>1, <1>4, <2>1, RelabelAdvances
  <2>2. CASE \E d \in Data \cup {Tombstone, NoData} : r = Put(store[n], n, n, d, now)
    <3>1. PICK d \in Data \cup {Tombstone, NoData} : r = Put(store[n], n, n, d, now)
      BY <2>2
    <3>2. Advances(n, store[n], Put(store[n], n, n, d, now), Own, now)
      BY <1>4, PutAdvances
    <3> QED
      BY <3>1, <3>2
  <2> QED
    BY <1>1, <1>4, <1>5, <2>1, <2>2, RewritesLabels
<1>7. CASE status' = status /\ sync' = sync
  BY <1>1, <1>2, <1>5, <1>6, <1>7, HandlerStep
<1>8. CASE status' = [status EXCEPT ![n] = "crashed"] /\ sync' = [sync EXCEPT ![n] = Idle]
  <2>1. sync'[n] = Idle /\ \A d \in Node : d # n => sync'[d] = sync[d]
    BY <1>1, <1>3, <1>8, IdleType, SetSync
  <2>i. /\ Idle.pc = "idle" /\ Idle.msg = NoMsg /\ Idle.cli = NewTwoPhaseSyncer
        /\ Idle.srv = NewTwoPhaseSyncer
    BY DEF Idle
  <2>2. SessionInOrder(n)'
    BY <1>1, <2>i, <2>1, CalmSession
  <2>3. status'[n] # "out" /\ \A m \in Node : m # n => status'[m] = status[m]
    BY <1>1, <1>3, <1>8
  <2>4. n \in Node /\ now' = now /\ store' = [store EXCEPT ![n] = r]
    BY <1>1, <1>5
  <2>5. \A m \in Node : m # n => (status'[m] = "out" <=> status[m] = "out")
    BY <2>3
  <2>6. status'[n] # "out"
    BY <2>3
  <2> QED
    BY <1>6, <2>1, <2>2, <2>4, <2>5, <2>6, SyncStepInOrder
<1> QED
  BY <1>1, <1>7, <1>8

\* The steps of Sync outside a session.
LEMMA SyncerInOrder ==
    ASSUME SyncInterval <= StaleTime, TypeOK, TypeOK', SyncInOrder, NEW c \in Node,
           \/ Crash(c)
           \/ SyncQuietly(c)
           \/ \E p \in Node : Pull(c, p)
           \/ StartSync(c)
           \/ \E s \in Node : SkipTarget(c, s) \/ OpenStream(c, s)
           \/ EndSync(c) \/ EndPull(c)
    PROVE  SyncInOrder'
<1> USE DEF boundVars, syncerVars, handlerVars
<1>t. /\ StoresInOrder /\ SessionInOrder(c) /\ StoresTyped /\ SyncsTyped
      /\ now \in Nat /\ status \in [Node -> Status] /\ IsSyncRecord(sync[c])
  BY DEF SyncInOrder, TypeOK, SyncsTyped
<1>i. /\ Idle.pc = "idle" /\ Idle.msg = NoMsg /\ Idle.cli = NewTwoPhaseSyncer
      /\ Idle.srv = NewTwoPhaseSyncer
  BY DEF Idle
<1>p. status[c] # "out" => Advances(c, store[c], Prune(store[c]), Own, now)
  BY <1>t, MemberStore, PruneAdvances
<1>1. ASSUME sync' = [sync EXCEPT ![c] = Idle], store' = store, now' = now,
             \A m \in Node : status'[m] = "out" <=> status[m] = "out"
      PROVE  SyncInOrder'
  <2>1. sync'[c] = Idle /\ \A d \in Node : d # c => sync'[d] = sync[d]
    BY <1>1, <1>t, IdleType, SetSync
  <2>2. SessionInOrder(c)'
    BY <1>i, <2>1, CalmSession
  <2> QED
    BY <1>1, <2>1, <2>2, SyncOnlyInOrder
<1>2. CASE Crash(c)
  <2>1. \A m \in Node : status'[m] = "out" <=> status[m] = "out"
    BY <1>2, <1>t DEF Crash, InMesh
  <2> QED
    BY <1>1, <1>2, <2>1 DEF Crash
<1>3. CASE SyncQuietly(c)
  <2>1. status[c] # "out" /\ status' = status /\ now' = now /\ sync' = sync
        /\ store' = [store EXCEPT ![c] = Prune(store[c])]
    BY <1>3 DEF SyncQuietly, InMesh
  <2> QED
    BY <1>p, <2>1, HandlerStep
<1>4. ASSUME NEW q, IsSyncRecord(q), q.pc = "loop", q.msg = NoMsg,
             q.cli = NewTwoPhaseSyncer, q.srv = NewTwoPhaseSyncer,
             sync' = [sync EXCEPT ![c] = q], status[c] # "out", status' = status,
             now' = now, store' = [store EXCEPT ![c] = Prune(store[c])]
      PROVE  SyncInOrder'
  <2>1. sync'[c] = q /\ \A d \in Node : d # c => sync'[d] = sync[d]
    BY <1>4, <1>t, SetSync
  <2>2. SessionInOrder(c)'
    BY <1>4, <2>1, CalmSession
  <2> QED
    BY <1>4, <1>p, <2>1, <2>2, SyncStepInOrder
<1>5. ASSUME NEW p \in Node, Pull(c, p) PROVE SyncInOrder'
  <2> DEFINE q == [Idle EXCEPT !.pc = "loop", !.pull = TRUE, !.targets = {p}]
  <2>1. /\ IsSyncRecord(q) /\ q.pc = "loop" /\ q.msg = Idle.msg
        /\ q.cli = Idle.cli /\ q.srv = Idle.srv
    BY IdleType, StartType
  <2>2. /\ sync' = [sync EXCEPT ![c] = q] /\ status[c] # "out" /\ status' = status
        /\ now' = now /\ store' = [store EXCEPT ![c] = Prune(store[c])]
    BY <1>5 DEF Pull, InMesh
  <2> HIDE DEF q
  <2> QED
    BY <1>4, <1>i, <2>1, <2>2
<1>6. CASE StartSync(c)
  <2>1. PICK ts \in GossipNodes(c, GetPeers(Prune(store[c])) \ {c}) :
            sync' = [sync EXCEPT ![c] = [Idle EXCEPT !.pc = "loop", !.targets = ts]]
    BY <1>6 DEF StartSync
  <2> DEFINE q == [Idle EXCEPT !.pc = "loop", !.targets = ts]
  <2>2. ts \in SUBSET Node
    <3> DEFINE P == GetPeers(Prune(store[c])) \ {c}
    <3>1. IsReplica(Prune(store[c]))
      BY <1>t, PruneType DEF StoresTyped
    <3>2. P \subseteq Node
      BY <3>1 DEF GetPeers, Members, IsReplica, IsMapOf
    <3> HIDE DEF P
    <3>3. \A Q \in GossipNodes(c, P) : Q \subseteq P
      BY DEF GossipNodes, kSubset, Lowest
    <3> QED
      BY <2>1, <3>2, <3>3 DEF P
  <2>3. /\ IsSyncRecord(q) /\ q.pc = "loop" /\ q.msg = Idle.msg
        /\ q.cli = Idle.cli /\ q.srv = Idle.srv
    BY <2>2, IdleType, StartType
  <2>4. /\ sync' = [sync EXCEPT ![c] = q] /\ status[c] # "out" /\ status' = status
        /\ now' = now /\ store' = [store EXCEPT ![c] = Prune(store[c])]
    BY <1>6, <2>1 DEF StartSync, InMesh
  <2> HIDE DEF q
  <2> QED
    BY <1>4, <1>i, <2>3, <2>4
<1>7. ASSUME NEW s \in Node, SkipTarget(c, s) PROVE SyncInOrder'
  <2> DEFINE q == [sync[c] EXCEPT !.targets = @ \ {s}]
  <2>1. /\ IsSyncRecord(q) /\ q.pc = sync[c].pc /\ q.msg = sync[c].msg
        /\ q.cli = sync[c].cli /\ q.srv = sync[c].srv
    BY <1>t DEF IsSyncRecord
  <2>2. /\ sync' = [sync EXCEPT ![c] = q] /\ sync[c].pc = "loop" /\ status' = status
        /\ now' = now /\ store' = store
    BY <1>7 DEF SkipTarget
  <2> HIDE DEF q
  <2>3. sync'[c] = q /\ \A d \in Node : d # c => sync'[d] = sync[d]
    BY <1>t, <2>1, <2>2, SetSync
  <2>4. Own' = Own
    BY <2>2 DEF Own, OwnClock
  <2>5. ~InSession(c)'
    BY <2>1, <2>2, <2>3 DEF InSession
  <2>6. SessionInOrder(c)'
    BY <1>t, <2>1, <2>2, <2>3, <2>4, <2>5 DEF SessionInOrder
  <2> QED
    BY <2>2, <2>3, <2>6, SyncOnlyInOrder
<1>8. ASSUME NEW s \in Node, OpenStream(c, s) PROVE SyncInOrder'
  <2> DEFINE e == NewTwoPhaseSyncer
             o == sync[c]
             q == [o EXCEPT !.pc = "client", !.targets = @ \ {s}, !.server = s,
                      !.start = now, !.cli = e, !.srv = e, !.msg = NoMsg,
                      !.more = TRUE, !.open = TRUE]
  <2>1. IsEndpoint(e) /\ IsMsg(NoMsg) /\ IsSyncRecord(o)
        /\ e.state = "HASH" /\ e.peerMsg = NoMsg
    BY <1>t, NewSyncerType, MsgType DEF NewTwoPhaseSyncer
  <2>2. sync' = [sync EXCEPT ![c] = q] /\ store' = store /\ now' = now /\ status' = status
        /\ sync[c].pc = "loop"
    BY <1>8 DEF OpenStream
  <2> HIDE DEF e, o
  <2>4. /\ q.start = now /\ q.cli = e /\ q.srv = e /\ q.msg = NoMsg
        /\ q.pc = "client" /\ q.server = s
    BY <2>1 DEF IsSyncRecord
  <2>0. q \in [pc : SyncPC, targets : SUBSET Node, succeeded : BOOLEAN,
              pull : BOOLEAN, server : Node \cup {NoNode}, start : Nat,
              cli : {e}, srv : {e}, msg : {NoMsg}, more : BOOLEAN, open : BOOLEAN]
    BY <1>t, <2>1 DEF IsSyncRecord, SyncPC
  <2>3. IsSyncRecord(q)
    <3> HIDE DEF q
    <3> QED
      BY <2>1, <2>4, <2>0 DEF IsSyncRecord
  <2> HIDE DEF q
  <2>5. sync'[c] = q /\ \A d \in Node : d # c => sync'[d] = sync[d]
    BY <1>t, <2>2, <2>3, SetSync
  <2>6. status[c] # "out"
    BY <1>t, <2>2 DEF SessionInOrder
  <2>7. now <= now + SyncInterval /\ now <= now
    BY <1>t, ConfigAssumption
  <2>8. \A own : UnderMsg(NoMsg, own)
    BY NoClocksInMsg
  <2>9. SessionInOrder(c)'
    BY <2>1, <2>2, <2>4, <2>5, <2>6, <2>7, <2>8 DEF SessionInOrder, Late
  <2> QED
    BY <2>2, <2>5, <2>9, SyncOnlyInOrder
<1>9. CASE EndSync(c)
  <2>1. \A m \in Node : status'[m] = "out" <=> status[m] = "out"
    BY <1>9, <1>t DEF EndSync
  <2> QED
    BY <1>1, <1>9, <2>1 DEF EndSync
<1>10. CASE EndPull(c)
  BY <1>1, <1>10 DEF EndPull
<1> QED
  BY <1>2, <1>3, <1>5, <1>6, <1>7, <1>8, <1>9, <1>10

\* An open session whose parts are in order.
LEMMA OpenSession ==
    ASSUME NEW c \in Node, NEW v \in Node, sync'[c].server = v,
           status'[c] # "out",
           UnderMsg(sync'[c].msg, Own'),
           UnderMsg(sync'[c].cli.peerMsg, Own'),
           UnderMsg(sync'[c].srv.peerMsg, Own'),
           sync'[c].start <= now', now' <= sync'[c].start + SyncInterval,
           sync'[c].cli.state \in Late => sync'[c].start <= LastUpdate(c)',
           sync'[c].srv.state # "HASH" => status'[v] # "out",
           sync'[c].srv.state \in Late => sync'[c].start <= LastUpdate(v)'
    PROVE  SessionInOrder(c)'
<1>1. sync'[c].srv.state \in Late => sync'[c].start <= LastUpdate(sync[c].server)'
  BY DEF LastUpdate
<1> QED
  BY <1>1 DEF SessionInOrder

\* What a node's last update is after a step.
LEMMA LastUpdateNext ==
    ASSUME TypeOK', NEW v \in Node
    PROVE  LastUpdate(v)' \in Nat
<1>1. IsReplica(store'[v])
  BY DEF TypeOK, StoresTyped
<1>2. \A k \in DOMAIN store'[v].vectors : store'[v].vectors[k].lastUpdate \in Nat
  BY <1>1, ReplicaNat
<1> QED
  BY <1>2 DEF LastUpdate, At, ZeroVector

\* The steps of a session.
LEMMA SessionsInOrder ==
    ASSUME TypeOK, TypeOK', SyncInOrder, NEW c \in Node, SessionStep(c)
    PROVE  SyncInOrder'
<1> USE DEF boundVars, syncerVars, handlerVars
<1>t. /\ StoresInOrder /\ SessionInOrder(c) /\ StoresTyped /\ SyncsTyped
      /\ now \in Nat /\ status \in [Node -> Status] /\ IsSyncRecord(sync[c])
  BY DEF SyncInOrder, TypeOK, SyncsTyped
<1>r. SyncInterval \in Nat
  BY ConfigAssumption
<1>o. Own \in [Node -> Nat] /\ \A n \in Node : LastUpdate(n) \in Nat
  BY <1>t, OwnType
<1>s. sync[c].pc \in {"client", "server", "reply"} =>
        /\ sync[c].server \in Node
        /\ status[c] # "out"
        /\ sync[c].start \in Nat
        /\ sync[c].start <= now /\ now <= sync[c].start + SyncInterval
        /\ sync[c].cli.state \in Late => sync[c].start <= LastUpdate(c)
        /\ sync[c].srv.state # "HASH" => status[sync[c].server] # "out"
        /\ sync[c].srv.state \in Late => sync[c].start <= LastUpdate(sync[c].server)
  <2>1. /\ sync[c].pc \in {"client", "server", "reply"} => sync[c].server \in Node
        /\ sync[c].start \in Nat
    BY <1>t DEF IsSyncRecord
  <2> QED
    BY <1>t, <2>1 DEF SessionInOrder, InSession
<1>u. /\ UnderMsg(sync[c].msg, Own)
      /\ UnderMsg(sync[c].cli.peerMsg, Own)
      /\ UnderMsg(sync[c].srv.peerMsg, Own)
      /\ IsEndpoint(sync[c].cli) /\ IsEndpoint(sync[c].srv) /\ IsMsg(sync[c].msg)
      /\ IsMsg(sync[c].cli.peerMsg) /\ IsMsg(sync[c].srv.peerMsg)
  BY <1>t DEF SessionInOrder, IsSyncRecord, IsEndpoint
<1>1. CASE ClientSend(c)
  <2> DEFINE q == sync[c]
             g == GenerateMessage(q.cli, c)
             x == [q EXCEPT !.pc = "server", !.cli = g.end, !.msg = g.msg,
                            !.more = g.more]
             o == Raised(Own, c, g.store)
  <2>1. /\ q.pc = "client" /\ store' = [store EXCEPT ![c] = g.store]
        /\ sync' = [sync EXCEPT ![c] = x] /\ status' = status /\ now' = now
    BY <1>1 DEF ClientSend
  <2>2. /\ IsReplica(store[c]) /\ Under(store[c], Own) /\ Fresh(store[c], c, now)
        /\ Own[c] = store[c].vectors[c].clock
        /\ LastUpdate(c) = store[c].vectors[c].lastUpdate
    BY <1>s, <1>t, <2>1, MemberStore
  <2>3. q.cli.state \in Late => now <= store[c].vectors[c].lastUpdate + SyncInterval
    BY <1>s, <1>t, <1>o, <1>r, <2>1, <2>2
  <2>4. GeneratesInOrder(g, q.cli, c, store[c], Own, now)
    BY <1>t, <1>o, <1>u, <2>2, <2>3, GenerateInOrder
  <2>5. IsGenerated(g)
    BY <1>t, <1>u, <2>2, GenerateMessageType
  <2>6. /\ IsSyncRecord(q) /\ q.server \in Node
    BY <1>t, <1>s, <2>1
  <2> HIDE DEF g, q
  <2>7. IsSyncRecord(x)
    BY <2>5, <2>6 DEF IsSyncRecord, IsGenerated, SyncPC
  <2>8. /\ x.pc = "server" /\ x.cli = g.end /\ x.srv = q.srv /\ x.msg = g.msg
        /\ x.start = q.start /\ x.server = q.server
    BY <2>6 DEF IsSyncRecord
  <2> HIDE DEF x
  <2>9. sync'[c] = x /\ \A d \in Node : d # c => sync'[d] = sync[d]
    BY <1>t, <2>1, <2>7, SetSync
  <2>10. /\ Advances(c, store[c], g.store, Own, now) /\ UnderMsg(g.msg, o)
         /\ g.end.peerMsg = q.cli.peerMsg
         /\ g.end.state \in Late => q.cli.state \in Late \/ g.store.vectors[c].lastUpdate = now
    BY <2>4 DEF GeneratesInOrder
  <2>11. /\ Own' = o /\ \A k \in Node : Own[k] <= Own'[k]
         /\ \A k \in Node : status[k] # "out" => LastUpdate(k) <= LastUpdate(k)'
         /\ LastUpdate(c)' = g.store.vectors[c].lastUpdate
    BY <1>s, <1>t, <2>1, <2>10, StoreStep DEF q
  <2>12. o \in [Node -> Nat] /\ \A k \in Node : Own[k] <= o[k]
    BY <1>o, <2>10, RaisedType
  <2> HIDE DEF o
  <2>13. UnderMsg(q.cli.peerMsg, o) /\ UnderMsg(q.srv.peerMsg, o)
    BY <1>o, <1>u, <2>12, UnderMonotone DEF q
  <2>14. g.store.vectors[c].lastUpdate \in Nat
    BY <2>10, ReplicaNat DEF Advances
  <2>15. x.cli.state \in Late => x.start <= LastUpdate(c)'
    BY <1>s, <1>o, <1>t, <2>1, <2>8, <2>10, <2>11, <2>14 DEF q
  <2>16. PICK v \in Node : v = q.server
    BY <2>6
  <2>17. x.srv.state \in Late => x.start <= LastUpdate(v)'
    <3>1. q.srv.state \in Late => status[v] # "out" /\ q.start <= LastUpdate(v)
      BY <1>s, <2>1, <2>16 DEF q, Late
    <3>2. LastUpdate(v) \in Nat /\ LastUpdate(v)' \in Nat /\ q.start \in Nat
      BY <1>s, <1>o, <2>1, LastUpdateNext DEF q
    <3> QED
      BY <2>8, <2>11, <3>1, <3>2
  <2>18. /\ q.start <= now /\ now <= q.start + SyncInterval /\ status[c] # "out"
         /\ q.srv.state # "HASH" => status[v] # "out"
    BY <1>s, <2>1, <2>16 DEF q
  <2>19. SessionInOrder(c)'
    BY <2>1, <2>8, <2>9, <2>10, <2>11, <2>13, <2>15, <2>16, <2>17, <2>18, OpenSession
  <2> QED
    BY <2>1, <2>9, <2>10, <2>18, <2>19, SyncStepInOrder
<1>2. CASE ServerReply(c)
  <2> DEFINE q == sync[c]
  <2>0. q.pc = "server"
    BY <1>2 DEF ServerReply
  <2>1. PICK v \in Node : v = q.server
    BY <1>s, <2>0
  <2> DEFINE g == GenerateMessage(q.srv, v)
             e == RecvMessage(g.end, q.msg)
             x == [q EXCEPT !.pc = "reply", !.srv = e, !.msg = g.msg, !.open = g.more]
             o == Raised(Own, v, g.store)
  <2>2. /\ store' = [store EXCEPT ![v] = g.store]
        /\ sync' = [sync EXCEPT ![c] = x] /\ status' = status /\ now' = now
    BY <1>2, <2>1 DEF ServerReply
  <2>3. status[v] # "out" /\ status[c] # "out"
    BY <1>2, <1>s, <2>0, <2>1 DEF ServerReply, InMesh
  <2>4. /\ IsReplica(store[v]) /\ Under(store[v], Own) /\ Fresh(store[v], v, now)
        /\ Own[v] = store[v].vectors[v].clock
        /\ LastUpdate(v) = store[v].vectors[v].lastUpdate
    BY <1>t, <2>3, MemberStore
  <2>5. /\ q.start \in Nat /\ q.start <= now /\ now <= q.start + SyncInterval
        /\ q.srv.state \in Late => q.start <= LastUpdate(v)
        /\ q.cli.state \in Late => q.start <= LastUpdate(c)
    BY <1>s, <2>0, <2>1
  <2>6. /\ IsSyncRecord(q) /\ IsEndpoint(q.srv) /\ IsMsg(q.msg) /\ IsMsg(q.cli.peerMsg)
        /\ IsMsg(q.srv.peerMsg) /\ UnderMsg(q.srv.peerMsg, Own)
        /\ UnderMsg(q.msg, Own) /\ UnderMsg(q.cli.peerMsg, Own)
    BY <1>t, <1>u
  <2> HIDE DEF q
  <2>7. q.srv.state \in Late => now <= store[v].vectors[v].lastUpdate + SyncInterval
    BY <1>t, <1>o, <1>r, <2>4, <2>5
  <2>8. GeneratesInOrder(g, q.srv, v, store[v], Own, now)
    BY <1>t, <1>o, <2>4, <2>6, <2>7, GenerateInOrder
  <2>9. IsGenerated(g)
    BY <1>t, <2>4, <2>6, GenerateMessageType
  <2> HIDE DEF g
  <2>10. /\ IsEndpoint(e) /\ e.state = g.end.state /\ e.peerMsg \in {g.end.peerMsg, q.msg}
    BY <2>6, <2>9, RecvMessageType DEF IsGenerated
  <2> HIDE DEF e
  <2>11. IsSyncRecord(x)
    BY <2>1, <2>6, <2>9, <2>10 DEF IsSyncRecord, IsGenerated, SyncPC
  <2>12. /\ x.pc = "reply" /\ x.cli = q.cli /\ x.srv = e /\ x.msg = g.msg
         /\ x.start = q.start /\ x.server = q.server
    BY <2>6 DEF IsSyncRecord
  <2> HIDE DEF x
  <2>13. sync'[c] = x /\ \A d \in Node : d # c => sync'[d] = sync[d]
    BY <1>t, <2>2, <2>11, SetSync
  <2>14. /\ Advances(v, store[v], g.store, Own, now) /\ UnderMsg(g.msg, o)
         /\ g.end.peerMsg = q.srv.peerMsg
         /\ g.end.state \in Late => q.srv.state \in Late \/ g.store.vectors[v].lastUpdate = now
    BY <2>8 DEF GeneratesInOrder
  <2>15. /\ Own' = o
         /\ \A k \in Node : status[k] # "out" => LastUpdate(k) <= LastUpdate(k)'
         /\ LastUpdate(v)' = g.store.vectors[v].lastUpdate
    BY <1>t, <2>2, <2>3, <2>14, StoreStep
  <2>16. o \in [Node -> Nat] /\ \A k \in Node : Own[k] <= o[k]
    BY <1>o, <2>14, RaisedType
  <2> HIDE DEF o
  <2>17. /\ UnderMsg(q.cli.peerMsg, o) /\ UnderMsg(q.srv.peerMsg, o) /\ UnderMsg(q.msg, o)
    BY <1>o, <2>6, <2>16, UnderMonotone
  <2>18. UnderMsg(x.srv.peerMsg, Own')
    BY <2>10, <2>12, <2>14, <2>15, <2>17
  <2>19. LastUpdate(v) \in Nat /\ LastUpdate(v)' \in Nat
         /\ LastUpdate(c) \in Nat /\ LastUpdate(c)' \in Nat
    BY <1>o, LastUpdateNext
  <2>20. x.srv.state \in Late => x.start <= LastUpdate(v)'
    BY <1>t, <2>3, <2>5, <2>10, <2>12, <2>14, <2>15, <2>19
  <2>21. x.cli.state \in Late => x.start <= LastUpdate(c)'
    BY <2>3, <2>5, <2>12, <2>15, <2>19
  <2>22. SessionInOrder(c)'
    BY <2>1, <2>2, <2>3, <2>5, <2>12, <2>13, <2>14, <2>15, <2>17, <2>18, <2>20, <2>21,
       OpenSession
  <2> QED
    BY <2>2, <2>3, <2>13, <2>14, <2>22, SyncStepInOrder
<1>3. ASSUME NEW ok \in BOOLEAN, sync' = [sync EXCEPT ![c] = SessionOver(c, ok)],
             status[c] # "out", status' = status
      PROVE  SessionInOrder(c)' /\ \A d \in Node : d # c => sync'[d] = sync[d]
  <2> DEFINE x == SessionOver(c, ok)
  <2>1. /\ IsSyncRecord(x) /\ x.pc = "loop" /\ x.cli = NewTwoPhaseSyncer
        /\ x.srv = NewTwoPhaseSyncer /\ x.msg = NoMsg
    BY <1>t, SessionOverType
  <2> HIDE DEF x
  <2>2. sync'[c] = x /\ \A d \in Node : d # c => sync'[d] = sync[d]
    BY <1>t, <1>3, <2>1, SetSync DEF x
  <2> QED
    BY <1>3, <2>1, <2>2, CalmSession
<1>4. CASE ClientReceive(c)
  <2> DEFINE q == sync[c]
             e == RecvMessage(q.cli, q.msg)
             x == [q EXCEPT !.pc = "client", !.msg = NoMsg, !.cli = e]
  <2>1. q.pc = "reply" /\ store' = store /\ status' = status /\ now' = now
    BY <1>4 DEF ClientReceive
  <2>2. CASE ~q.more
    <3>1. sync' = [sync EXCEPT ![c] = SessionOver(c, TRUE)]
      BY <1>4, <2>2 DEF ClientReceive
    <3> QED
      BY <1>3, <1>s, <2>1, <3>1, SyncOnlyInOrder
  <2>3. CASE q.more
    <3>1. sync' = [sync EXCEPT ![c] = x]
      BY <1>4, <2>3 DEF ClientReceive
    <3>2. PICK v \in Node : v = q.server
      BY <1>s, <2>1
    <3>3. /\ status[c] # "out" /\ q.start <= now /\ now <= q.start + SyncInterval
          /\ q.cli.state \in Late => q.start <= LastUpdate(c)
          /\ q.srv.state # "HASH" => status[v] # "out"
          /\ q.srv.state \in Late => q.start <= LastUpdate(v)
      BY <1>s, <2>1, <3>2
    <3>4. /\ IsSyncRecord(q) /\ IsEndpoint(q.cli) /\ IsMsg(q.msg)
          /\ UnderMsg(q.msg, Own) /\ UnderMsg(q.cli.peerMsg, Own)
          /\ UnderMsg(q.srv.peerMsg, Own) /\ q.server \in Node
      BY <1>t, <1>u, <3>2
    <3> HIDE DEF q
    <3>5. IsEndpoint(e) /\ e.state = q.cli.state /\ e.peerMsg \in {q.cli.peerMsg, q.msg}
      BY <3>4, RecvMessageType
    <3>6. IsMsg(NoMsg) /\ UnderMsg(NoMsg, Own)
      BY MsgType, NoClocksInMsg
    <3> HIDE DEF e
    <3>7. IsSyncRecord(x)
      BY <3>4, <3>5, <3>6 DEF IsSyncRecord, SyncPC
    <3>8. /\ x.pc = "client" /\ x.cli = e /\ x.srv = q.srv /\ x.msg = NoMsg
          /\ x.start = q.start /\ x.server = q.server
      BY <3>4 DEF IsSyncRecord
    <3> HIDE DEF x
    <3>9. sync'[c] = x /\ \A d \in Node : d # c => sync'[d] = sync[d]
      BY <1>t, <3>1, <3>7, SetSync
    <3>10. /\ Own' = Own /\ LastUpdate(c)' = LastUpdate(c) /\ LastUpdate(v)' = LastUpdate(v)
      BY <2>1 DEF Own, OwnClock, LastUpdate
    <3>11. SessionInOrder(c)'
      BY <2>1, <3>2, <3>3, <3>4, <3>5, <3>6, <3>8, <3>9, <3>10, OpenSession
    <3> QED
      BY <2>1, <3>9, <3>11, SyncOnlyInOrder
  <2> QED
    BY <2>2, <2>3
<1>5. ASSUME NEW ok \in BOOLEAN, HandleFailed(c, ok), status[c] # "out"
      PROVE  SyncInOrder'
  <2> DEFINE r == Mark(store[c], sync[c].server)
  <2>1. /\ store' = [store EXCEPT ![c] = r] /\ now' = now
        /\ \/ sync' = [sync EXCEPT ![c] = SessionOver(c, ok)] /\ status' = status
           \/ sync' = [sync EXCEPT ![c] = Idle] /\ status' = [status EXCEPT ![c] = "crashed"]
    BY <1>5 DEF HandleFailed
  <2>2. Advances(c, store[c], r, Own, now)
    BY <1>5, <1>t, MemberStore, MarkAdvances
  <2> HIDE DEF r
  <2>3. CASE sync' = [sync EXCEPT ![c] = SessionOver(c, ok)] /\ status' = status
    <3>1. SessionInOrder(c)' /\ \A d \in Node : d # c => sync'[d] = sync[d]
      BY <1>3, <1>5, <2>3
    <3> QED
      BY <1>5, <2>1, <2>2, <2>3, <3>1, SyncStepInOrder
  <2>4. CASE sync' = [sync EXCEPT ![c] = Idle] /\ status' = [status EXCEPT ![c] = "crashed"]
    <3>1. sync'[c] = Idle /\ \A d \in Node : d # c => sync'[d] = sync[d]
      BY <1>t, <2>4, IdleType, SetSync
    <3>2. /\ Idle.pc = "idle" /\ Idle.msg = NoMsg /\ Idle.cli = NewTwoPhaseSyncer
          /\ Idle.srv = NewTwoPhaseSyncer
      BY DEF Idle
    <3>3. SessionInOrder(c)'
      BY <3>1, <3>2, CalmSession
    <3>4. status'[c] # "out" /\ \A m \in Node : m # c => status'[m] = status[m]
      BY <1>t, <2>4
    <3> QED
      BY <2>1, <2>2, <3>1, <3>3, <3>4, SyncStepInOrder
  <2> QED
    BY <2>1, <2>3, <2>4
<1>6. CASE StreamEOF(c) \/ ServerRefuses(c) \/ StreamBroken(c)
  <2>1. status[c] # "out"
    BY <1>6, <1>s DEF StreamEOF, ServerRefuses, StreamBroken, AtStream
  <2>2. HandleFailed(c, TRUE) \/ HandleFailed(c, FALSE)
    BY <1>6 DEF StreamEOF, ServerRefuses, StreamBroken
  <2> QED
    BY <1>5, <2>1, <2>2
<1>7. CASE StreamTimesOut(c)
  <2>1. /\ status[c] # "out" /\ status' = status /\ store' = store /\ now' = now
        /\ sync' = [sync EXCEPT ![c] = SessionOver(c, FALSE)]
    BY <1>7, <1>s DEF StreamTimesOut, AtStream
  <2> QED
    BY <1>3, <2>1, SyncOnlyInOrder
<1> QED
  BY <1>1, <1>2, <1>4, <1>6, <1>7 DEF SessionStep

\* Time passes: no session outlasts its deadline.
LEMMA TickInOrder ==
    ASSUME TypeOK, SyncInOrder, Tick
    PROVE  SyncInOrder'
<1>1. /\ now' = now + 1 /\ store' = store /\ status' = status /\ sync' = sync
      /\ \A c \in Node : InSession(c) => now < sync[c].start + SyncInterval
  BY DEF Tick, OpenSessions
<1>2. StoresTyped /\ now \in Nat /\ SyncInterval \in Nat
      /\ \A c \in Node : sync[c].start \in Nat
  BY ConfigAssumption DEF TypeOK, SyncsTyped, IsSyncRecord
<1>3. Own' = Own
  BY <1>1 DEF Own, OwnClock
<1>4. ASSUME NEW n \in Node
      PROVE  /\ Under(store'[n], Own')
             /\ status'[n] = "out" => store'[n] = NewTwoPhaseMap
             /\ status'[n] # "out" => Fresh(store'[n], n, now')
  <2>1. /\ Under(store[n], Own)
        /\ status[n] = "out" => store[n] = NewTwoPhaseMap
        /\ status[n] # "out" => Fresh(store[n], n, now)
    BY DEF SyncInOrder, StoresInOrder
  <2>2. \A k \in DOMAIN store[n].vectors : store[n].vectors[k].lastUpdate \in Nat
    BY <1>2, ReplicaNat DEF StoresTyped
  <2>3. Fresh(store[n], n, now) => Fresh(store[n], n, now')
    BY <1>1, <1>2, <2>2 DEF Fresh
  <2> QED
    BY <1>1, <1>3, <2>1, <2>3
<1>5. StoresInOrder'
  BY <1>4 DEF StoresInOrder
<1>6. ASSUME NEW c \in Node PROVE SessionInOrder(c)'
  <2>1. SessionInOrder(c)
    BY DEF SyncInOrder
  <2>2. InSession(c)' <=> InSession(c)
    BY <1>1 DEF InSession
  <2>3. \A k : LastUpdate(k)' = LastUpdate(k)
    BY <1>1 DEF LastUpdate
  <2>4. LastUpdate(sync[c].server)' = LastUpdate(sync[c].server)
    BY <1>1 DEF LastUpdate
  <2>5. InSession(c) => sync[c].start <= now' /\ now' <= sync[c].start + SyncInterval
    BY <1>1, <1>2, <2>1 DEF SessionInOrder
  <2> QED
    BY <1>1, <1>3, <2>1, <2>2, <2>3, <2>4, <2>5 DEF SessionInOrder
<1> QED
  BY <1>5, <1>6 DEF SyncInOrder

\* Nobody goes back to the state before it joined, and handlers begin in members.
LEMMA JoinedStep == TypeOK /\ HandlersJoined /\ [Next]_vars => HandlersJoined'
<1> SUFFICES ASSUME TypeOK, HandlersJoined, [Next]_vars PROVE HandlersJoined'
  OBVIOUS
<1> USE DEF handlerVars, syncerVars, boundVars
<1>t. status \in [Node -> Status] /\ UpdatesTyped
  BY DEF TypeOK
<1>1. ASSUME \A n \in Node : status'[n] = "out" => status[n] = "out",
             \A g \in Handler : upd'[g].pc # "idle" =>
                upd[g].pc # "idle" /\ upd'[g].node = upd[g].node
      PROVE  HandlersJoined'
  BY <1>1 DEF HandlersJoined, Handled
<1>2. ASSUME \A n \in Node : status'[n] = "out" => status[n] = "out", upd' = upd
      PROVE  HandlersJoined'
  BY <1>2 DEF HandlersJoined, Handled
<1>3. ASSUME NEW h \in Handler, NEW n \in Node, NEW kind \in Kind, BeginUpdate(h, n, kind)
      PROVE  HandlersJoined'
  <2>1. /\ status' = status /\ status[n] # "out"
        /\ upd'[h].node = n
        /\ \A g \in Handler : g # h => upd'[g] = upd[g]
    BY <1>3, <1>t DEF BeginUpdate, InMesh, UpdatesTyped, UpdateRecord
  <2> QED
    BY <2>1 DEF HandlersJoined, Handled
<1>4. ASSUME NEW h \in Handler, UpdateStep(h) PROVE HandlersJoined'
  <2>1. \A n \in Node : status'[n] = "out" => status[n] = "out"
    BY <1>4, <1>t, UpdateMoves
  <2> QED
    BY <1>1, <1>4, <2>1, HandlersKeepNode
<1>5. ASSUME NEW n \in Node,
             \/ CreateMesh(n) \/ LeaveMesh(n) \/ Crash(n) \/ EndSync(n)
             \/ \E p \in Node : JoinMesh(n, p) \/ RejoinMesh(n, p)
      PROVE  HandlersJoined'
  <2>1. upd' = upd
    BY <1>5 DEF CreateMesh, JoinMesh, RejoinMesh, LeaveMesh, Crash, EndSync
  <2>2. \E x : status' = [status EXCEPT ![n] = x] /\ (x = "out" => status[n] = "out")
    BY <1>5 DEF CreateMesh, JoinMesh, RejoinMesh, LeaveMesh, Crash, EndSync
  <2>3. \A m \in Node : status'[m] = "out" => status[m] = "out"
    BY <1>t, <2>2
  <2> QED
    BY <1>2, <2>1, <2>3
<1>6. ASSUME NEW c \in Node, StreamEOF(c) \/ ServerRefuses(c) \/ StreamBroken(c)
      PROVE  HandlersJoined'
  <2>1. HandleFailed(c, TRUE) \/ HandleFailed(c, FALSE)
    BY <1>6 DEF StreamEOF, ServerRefuses, StreamBroken
  <2>2. upd' = upd /\ (status' = status \/ status' = [status EXCEPT ![c] = "crashed"])
    BY <2>1 DEF HandleFailed
  <2>3. \A m \in Node : status'[m] = "out" => status[m] = "out"
    BY <1>t, <2>2
  <2> QED
    BY <1>2, <2>2, <2>3
<1>7. ASSUME NEW c \in Node,
             \/ SyncQuietly(c) \/ StartSync(c) \/ EndPull(c)
             \/ \E p \in Node : Pull(c, p) \/ SkipTarget(c, p) \/ OpenStream(c, p)
             \/ ClientSend(c) \/ ServerReply(c) \/ ClientReceive(c) \/ StreamTimesOut(c)
      PROVE  HandlersJoined'
  <2>1. upd' = upd /\ status' = status
    BY <1>7 DEF SyncQuietly, StartSync, EndPull, Pull, SkipTarget, OpenStream, ClientSend,
                ServerReply, ClientReceive, StreamTimesOut
  <2> QED
    BY <1>2, <2>1
<1>8. CASE Tick \/ UNCHANGED vars
  BY <1>2, <1>8 DEF Tick, vars
<1> QED
  BY <1>3, <1>4, <1>5, <1>6, <1>7, <1>8 DEF Next, SyncStep, SessionStep

\* Handlers run in daemons that have joined.
LEMMA OnlyMembersHandle == Spec => []HandlersJoined
<1>1. Init => HandlersJoined
  BY DEF Init, HandlersJoined, Handled, IdleHandler
<1>2. TypeOK /\ HandlersJoined /\ [Next]_vars => HandlersJoined'
  BY JoinedStep
<1> QED
  BY <1>1, <1>2, TypeCorrect, PTL DEF Spec

\* Before anybody joins there is nothing to be ahead of.
LEMMA InitInOrder == Init => SyncInOrder
<1> SUFFICES ASSUME Init PROVE SyncInOrder
  OBVIOUS
<1>1. StoresInOrder
  BY NewReplicaUnder DEF Init, StoresInOrder
<1>2. ASSUME NEW c \in Node PROVE SessionInOrder(c)
  <2>1. sync[c] = Idle
    BY DEF Init
  <2>2. /\ Idle.pc = "idle" /\ Idle.msg = NoMsg
        /\ Idle.cli.peerMsg = NoMsg /\ Idle.srv.peerMsg = NoMsg
    BY DEF Idle, NewTwoPhaseSyncer
  <2>3. UnderMsg(NoMsg, Own)
    BY NoClocksInMsg
  <2> QED
    BY <2>1, <2>2, <2>3 DEF SessionInOrder, InSession
<1> QED
  BY <1>1, <1>2 DEF SyncInOrder

\* Every step keeps the mesh in order, if no session lasts longer than the time
\* after which a silent clock is collected.
LEMMA OrderStep ==
    ASSUME SyncInterval <= StaleTime, Rejoiners = {}
    PROVE  TypeOK /\ TypeOK' /\ HandlersJoined /\ SyncInOrder /\ [Next]_vars => SyncInOrder'
<1> SUFFICES ASSUME TypeOK, TypeOK', HandlersJoined, SyncInOrder, [Next]_vars
             PROVE  SyncInOrder'
  OBVIOUS
<1>1. CASE UNCHANGED vars
  BY <1>1 DEF vars, SyncInOrder, StoresInOrder, SessionInOrder, Own, OwnClock,
              LastUpdate, InSession
<1>2. CASE Tick
  BY <1>2, TickInOrder
<1>3. ASSUME NEW n \in Node,
             \/ CreateMesh(n)
             \/ \E p \in Node : JoinMesh(n, p)
             \/ LeaveMesh(n)
      PROVE  SyncInOrder'
  BY <1>3, HandlersInOrder
<1>4. ASSUME NEW c \in Node,
             \/ Crash(c)
             \/ SyncQuietly(c)
             \/ \E p \in Node : Pull(c, p)
             \/ StartSync(c)
             \/ \E s \in Node : SkipTarget(c, s) \/ OpenStream(c, s)
             \/ EndSync(c) \/ EndPull(c)
      PROVE  SyncInOrder'
  BY <1>4, SyncerInOrder
<1>5. ASSUME NEW c \in Node, SessionStep(c) PROVE SyncInOrder'
  BY <1>5, SessionsInOrder
<1>6. ASSUME NEW h \in Handler, NEW n \in Node, NEW kind \in Kind, BeginUpdate(h, n, kind)
      PROVE  SyncInOrder'
  BY <1>6 DEF BeginUpdate, syncerVars, SyncInOrder, StoresInOrder, SessionInOrder, Own,
              OwnClock, LastUpdate, InSession
<1>7. ASSUME NEW h \in Handler, UpdateStep(h) PROVE SyncInOrder'
  BY <1>7, UpdatesKeepOrder
<1> QED
  BY <1>1, <1>2, <1>3, <1>4, <1>5, <1>6, <1>7 DEF Next, SyncStep, RejoinMesh

\* If a session never lasts longer than StaleTime (the code derives StaleTime as
\* three heartbeats) and nobody joins again with an old key, then whatever sessions, failures, deadlines, crashes and
\* garbage collections interleave, the mesh stays in order.
THEOREM MeshInOrder ==
    ASSUME SyncInterval <= StaleTime, Rejoiners = {}
    PROVE  Spec => []SyncInOrder
<1>1. TypeOK /\ TypeOK' /\ HandlersJoined /\ SyncInOrder /\ [Next]_vars => SyncInOrder'
  BY OrderStep
<1> QED
  BY <1>1, InitInOrder, TypeCorrect, OnlyMembersHandle, PTL DEF Spec

\* No replica, and no merge of what a session carried, ever holds a clock or a
\* version that its owner has not reached: a node's own versions always win.
THEOREM OwnersAreAhead ==
    ASSUME SyncInterval <= StaleTime, Rejoiners = {}
    PROVE  Spec => []NoReplicaAheadOfOwner
<1>1. SyncInOrder => NoReplicaAheadOfOwner
  BY DEF SyncInOrder, StoresInOrder, NoReplicaAheadOfOwner
<1> QED
  BY <1>1, MeshInOrder, PTL

\* No node garbage-collects its own clock, so GetTimestamp always finds the
\* bucket it dereferences.
THEOREM OwnClockSurvives ==
    ASSUME SyncInterval <= StaleTime, Rejoiners = {}
    PROVE  Spec => []OwnBucketKept
<1>1. SyncInOrder => OwnBucketKept
  BY DEF SyncInOrder, StoresInOrder, OwnBucketKept, InMesh, Fresh
<1> QED
  BY <1>1, MeshInOrder, PTL
=============================================================================
