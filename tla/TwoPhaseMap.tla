------------------------------ MODULE TwoPhaseMap ------------------------------
(***************************************************************************)
(* The replicated data type of pkg/crdt: a vector clock with garbage        *)
(* collection (vector_clock.go), a map whose entries carry a version        *)
(* (g_map.go) and the two-phase map made of an add map, a remove map and    *)
(* one clock (two_phase_map.go).  A replica is a value, and every method of *)
(* the Go types that changes it is an operator from replica to replica.     *)
(*                                                                         *)
(* A Go map is a function whose domain is the set of its keys.  Keys are    *)
(* the nodes themselves: the code hashes a node's public key with FNV-1a to *)
(* get the map key, and KeyHash is that hash.  Distinct keys are assumed    *)
(* not to collide (KeyHashAssumption).                                      *)
(***************************************************************************)
EXTENDS Integers, FiniteSets, FiniteSetsExt, Functions

CONSTANTS
    Node,         \* the processes: public keys, and the keys of every map
    Data,         \* what a node publishes about itself (a MeshNode)
    NoData,       \* the zero value of a MeshNode
    Tombstone,    \* the value of the remove map's entries
    KeyHash,      \* hashFunc: the 64-bit FNV-1a hash of a node's key
    HashModulus,  \* hashes are uint64: arithmetic wraps at 2^64
    StaleTime     \* staleTime, 3 * Heartbeat (factory.go)

ASSUME NodeAssumption == IsFiniteSet(Node)
ASSUME NoDataAssumption == NoData \notin Data
ASSUME KeyHashAssumption ==
    /\ KeyHash \in [Node -> Nat]
    /\ \A a, b \in Node : KeyHash[a] = KeyHash[b] => a = b
    /\ HashModulus \in Nat \ {0}
ASSUME StaleTimeAssumption == StaleTime \in Nat
-----------------------------------------------------------------------------
(* Go maps *)

\* m is a map with keys in S and values in T.
IsMapOf(m, S, T) == DOMAIN m \subseteq S /\ m \in [DOMAIN m -> T]

EmptyMap == [k \in {} |-> 0]

\* m[k], which is the zero value when k is not a key.
At(m, k, zero) == IF k \in DOMAIN m THEN m[k] ELSE zero

\* m[k] = v
SetKey(m, k, v) == [x \in DOMAIN m \cup {k} |-> IF x = k THEN v ELSE m[x]]

\* delete(m, k) for every k in ks
Without(m, ks) == Restrict(m, DOMAIN m \ ks)
-----------------------------------------------------------------------------
(* VectorClock *)

VectorBucket == [clock : Nat, lastUpdate : Nat]
ZeroVector == [clock |-> 0, lastUpdate |-> 0]

MaxOf(vs) == Max({0} \cup vs)

Clocks(s) == {s.vectors[k].clock : k \in DOMAIN s.vectors}

\* What IncrementClock returns: the highest clock before it was advanced.
MaxClock(s) == MaxOf(Clocks(s))

\* Mutant: advances the process's own clock only, not past the others'.
IncrementOwnClock(s, p, t) ==
    [s EXCEPT !.vectors =
        SetKey(@, p, [clock |-> At(@, p, ZeroVector).clock + 1, lastUpdate |-> t])]

\* IncrementClock of process p at time t.
IncrementClock(s, p, t) ==
    [s EXCEPT !.vectors =
        SetKey(@, p, [clock |-> MaxClock(s) + 1, lastUpdate |-> t])]

\* put: accept a clock that is news and was not garbage collected.
ClockPut(s, k, value, t) ==
    IF /\ value > At(s.vectors, k, ZeroVector).clock
       /\ value > s.highestStale
    THEN [s EXCEPT !.vectors =
            SetKey(@, k, [clock |-> value, lastUpdate |-> t])]
    ELSE s

\* Mutant: an older clock replaces a newer one.
ClockMergeAny(s, vs, t) ==
    LET news == {k \in DOMAIN vs : vs[k] > s.highestStale}
    IN  [s EXCEPT !.vectors =
            [k \in DOMAIN @ \cup news |->
                IF k \in news THEN [clock |-> vs[k], lastUpdate |-> t]
                              ELSE @[k]]]

\* Merge: put of every entry of the map vs of clock values.  The keys are
\* distinct, so the puts are independent of one another.
ClockMerge(s, vs, t) ==
    LET news == {k \in DOMAIN vs :
                    /\ vs[k] > At(s.vectors, k, ZeroVector).clock
                    /\ vs[k] > s.highestStale}
    IN  [s EXCEPT !.vectors =
            [k \in DOMAIN @ \cup news |->
                IF k \in news THEN [clock |-> vs[k], lastUpdate |-> t]
                              ELSE @[k]]]

GetClock(s) == [k \in DOMAIN s.vectors |-> s.vectors[k].clock]

\* uint64 arithmetic wraps.
Wrap(x) == IF x \in Nat THEN x % HashModulus ELSE 0

\* GetHash of the clock, which two replicas compare before they synchronise.
ClockHash(s) ==
    Wrap(MapThenSumSet(LAMBDA k : KeyHash[k] * (s.vectors[k].clock + 1),
                       DOMAIN s.vectors))

LastUpdates(s) == {s.vectors[k].lastUpdate : k \in DOMAIN s.vectors}

\* Mutant: a bucket is stale as soon as it lags by StaleTime.
GetStaleTooEarly(s) ==
    {k \in DOMAIN s.vectors :
        MaxOf(LastUpdates(s)) - s.vectors[k].lastUpdate >= StaleTime}

\* getStale: the keys whose bucket lags the newest one by more than StaleTime.
GetStale(s) ==
    {k \in DOMAIN s.vectors :
        MaxOf(LastUpdates(s)) - s.vectors[k].lastUpdate > StaleTime}
-----------------------------------------------------------------------------
(* GMap: contents of the add map or of the remove map *)

Bucket == [Vector : Nat, Contents : Data \cup {Tombstone, NoData},
           Gravestone : BOOLEAN]
ZeroBucket == [Vector |-> 0, Contents |-> NoData, Gravestone |-> FALSE]

\* put: the received bucket replaces an older one, Gravestone included.
GMapMerge(m, buckets) ==
    LET news == {k \in DOMAIN buckets :
                    At(m, k, ZeroBucket).Vector < buckets[k].Vector}
    IN  [k \in DOMAIN m \cup news |-> IF k \in news THEN buckets[k] ELSE m[k]]

GMapMark(m, k) ==
    IF k \in DOMAIN m THEN [m EXCEPT ![k].Gravestone = TRUE] ELSE m

SaveWithKeys(m, ks) == [k \in ks |-> At(m, k, ZeroBucket)]

GMapClock(m) == [k \in DOMAIN m |-> m[k].Vector]

GMapHash(m) == Wrap(MapThenSumSet(LAMBDA k : m[k].Vector, DOMAIN m))
-----------------------------------------------------------------------------
(* TwoPhaseMap *)

IsReplica(s) ==
    /\ s = [vectors |-> s.vectors, highestStale |-> s.highestStale,
            add |-> s.add, remove |-> s.remove]
    /\ IsMapOf(s.vectors, Node, VectorBucket)
    /\ s.highestStale \in Nat
    /\ IsMapOf(s.add, Node, Bucket)
    /\ IsMapOf(s.remove, Node, Bucket)

NewTwoPhaseMap == [vectors |-> EmptyMap, highestStale |-> 0,
                   add |-> EmptyMap, remove |-> EmptyMap]

Contains(s, k) ==
    /\ k \in DOMAIN s.add
    /\ k \in DOMAIN s.remove => s.add[k].Vector >= s.remove[k].Vector

\* Get: the zero value when the key is not in the map.
Get(s, k) == IF Contains(s, k) THEN s.add[k].Contents ELSE NoData

\* Keys of the elements of AsList.
Members(s) == {k \in DOMAIN s.add : Contains(s, k)}

IsMarked(s, k) == k \in DOMAIN s.add /\ s.add[k].Gravestone

\* The bucket GMap.Put stores: the version is the clock before the increment.
NewBucket(s, d) == [Vector |-> MaxClock(s), Contents |-> d, Gravestone |-> FALSE]

\* Put of key k by process p: the clock advances twice, so the version of a
\* first entry is 1 and never 0.
Put(s, p, k, d, t) ==
    LET s1 == ClockPut(IncrementClock(s, p, t), k, MaxClock(s), t)
    IN  [IncrementClock(s1, p, t) EXCEPT !.add = SetKey(@, k, NewBucket(s1, d))]

\* Remove: an entry of the remove map, the clock advances once.
Remove(s, p, k, t) ==
    [IncrementClock(s, p, t) EXCEPT
        !.remove = SetKey(@, k, NewBucket(s, Tombstone))]

Mark(s, k) == [s EXCEPT !.add = GMapMark(@, k)]

\* GetHash of the map, which HasChanges compares.
MapHash(s) == Wrap((GMapHash(s.add) + 1) * (GMapHash(s.remove) + 1))

\* Mutant: the clock is not offered the versions of the add map.
MergeRemovedOnly(s, snapshot, t) ==
    ClockMerge([s EXCEPT !.add = GMapMerge(@, snapshot.add),
                         !.remove = GMapMerge(@, snapshot.remove)],
               GMapClock(snapshot.remove), t)

\* Merge of a snapshot: both maps first accept newer buckets; the clock is
\* offered every version.  A clock that was collected is refused, its bucket
\* is not.
Merge(s, snapshot, t) ==
    LET merged == [vectors |-> s.vectors, highestStale |-> s.highestStale,
                   add |-> GMapMerge(s.add, snapshot.add),
                   remove |-> GMapMerge(s.remove, snapshot.remove)]
    IN  ClockMerge(ClockMerge(merged, GMapClock(snapshot.add), t),
                   GMapClock(snapshot.remove), t)

\* Prune: the same stale keys leave the two maps and the clock.
Prune(s) ==
    LET stale == GetStale(s)
    IN  [vectors |-> Without(s.vectors, stale),
         highestStale |->
            MaxOf({s.highestStale} \cup {s.vectors[k].clock : k \in stale}),
         add |-> Without(s.add, stale),
         remove |-> Without(s.remove, stale)]
=============================================================================
