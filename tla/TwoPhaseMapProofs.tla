--------------------------- MODULE TwoPhaseMapProofs ---------------------------
(* What the operators of TwoPhaseMap preserve. *)
EXTENDS TwoPhaseMap, FiniteSetTheorems, WellFoundedInduction, TLAPS

\* MaxOf, the running maximum of IncrementClock and getStale: a non-empty finite
\* set of naturals has a greatest element.  By the smallest counterexample.
LEMMA FiniteSetHasMax ==
    ASSUME NEW S \in SUBSET Nat, IsFiniteSet(S), S # {}
    PROVE  \E m \in S : \A x \in S : m >= x
<1> DEFINE NoMax(T) == T \in SUBSET Nat /\ IsFiniteSet(T) /\ T # {}
                        /\ ~ \E m \in T : \A x \in T : m >= x
           Bad == {i \in Nat : \E T : NoMax(T) /\ Cardinality(T) = i}
<1>1. SUFFICES ASSUME Bad # {} PROVE FALSE
  <2>1. Bad = {}
    BY <1>1
  <2>2. ASSUME NoMax(S) PROVE FALSE
    BY <2>1, <2>2, FS_CardinalityType
  <2> QED
    BY <2>2
<1>2. PICK i \in Bad : \A j \in Bad : ~(j < i)
  <2>1. Bad \subseteq Nat
    OBVIOUS
  <2>2. \E i \in Bad : \A j \in Bad : <<j, i>> \notin OpToRel(<, Nat)
    BY <1>1, <2>1, NatLessThanWellFounded, WFMin
  <2> QED
    BY <2>1, <2>2 DEF OpToRel
<1>3. PICK T : NoMax(T) /\ Cardinality(T) = i
  OBVIOUS
<1>4. PICK x \in T : TRUE
  BY <1>3
<1> DEFINE U == T \ {x}
<1>5. IsFiniteSet(U) /\ Cardinality(U) = i - 1 /\ i - 1 \in Nat
  <2>1. IsFiniteSet(U) /\ Cardinality(U) = Cardinality(T) - 1
    BY <1>3, <1>4, FS_RemoveElement
  <2>2. Cardinality(U) \in Nat
    BY <2>1, FS_CardinalityType
  <2> QED
    BY <1>3, <2>1, <2>2
<1>6. U # {}
  <2>1. ASSUME U = {} PROVE FALSE
    <3>1. T = {x}
      BY <1>4, <2>1
    <3>2. x >= x
      BY <1>3, <1>4
    <3> QED
      BY <1>3, <3>1, <3>2
  <2> QED
    BY <2>1
<1>7. ~NoMax(U)
  <2>1. ASSUME NoMax(U) PROVE FALSE
    <3>1. i - 1 \in Bad
      BY <1>5, <2>1
    <3> QED
      BY <1>2, <1>5, <3>1
  <2> QED
    BY <2>1
<1>8. PICK m \in U : \A y \in U : m >= y
  BY <1>3, <1>5, <1>6, <1>7
<1>9. m \in Nat /\ x \in Nat /\ m \in T
  BY <1>3, <1>4, <1>8
<1>10. CASE m >= x
  BY <1>3, <1>8, <1>9, <1>10
<1>11. CASE ~(m >= x)
  <2>1. \A y \in T : x >= y
    <3> SUFFICES ASSUME NEW y \in T PROVE x >= y
      OBVIOUS
    <3>1. y \in Nat
      BY <1>3
    <3>2. CASE y = x
      BY <1>9, <3>2
    <3>3. CASE y # x
      BY <1>8, <1>9, <1>11, <3>1, <3>3
    <3> QED
      BY <3>2, <3>3
  <2> QED
    BY <1>3, <1>4, <2>1
<1> QED
  BY <1>10, <1>11

\* MaxOf on a finite set of naturals: a natural that bounds the set.
LEMMA MaxOfBounds ==
    ASSUME NEW S \in SUBSET Nat, IsFiniteSet(S)
    PROVE  /\ MaxOf(S) \in Nat
           /\ \A x \in S : x <= MaxOf(S)
           /\ MaxOf(S) \in S \cup {0}
<1> DEFINE T == {0} \cup S
<1>1. T \in SUBSET Nat /\ IsFiniteSet(T) /\ T # {}
  <2>1. IsFiniteSet({0})
    BY FS_Singleton
  <2>2. IsFiniteSet(T)
    BY <2>1, FS_Union
  <2> QED
    BY <2>2
<1>2. \E m \in T : \A x \in T : m >= x
  BY <1>1, FiniteSetHasMax
<1>3. MaxOf(S) \in T /\ \A x \in T : MaxOf(S) >= x
  BY <1>2 DEF MaxOf, Max
<1>4. MaxOf(S) \in Nat
  BY <1>1, <1>3
<1> QED
  BY <1>1, <1>3, <1>4

\* IncrementClock's loop over the clocks finds their maximum.
LEMMA MaxClockBounds ==
    ASSUME NEW s, IsReplica(s)
    PROVE  /\ MaxClock(s) \in Nat
           /\ \A k \in DOMAIN s.vectors : s.vectors[k].clock <= MaxClock(s)
<1>1. IsFiniteSet(DOMAIN s.vectors)
  BY NodeAssumption, FS_Subset DEF IsReplica, IsMapOf
<1>2. \A k \in DOMAIN s.vectors : s.vectors[k].clock \in Nat
  BY DEF IsReplica, IsMapOf, VectorBucket
<1>3. IsFiniteSet(Clocks(s)) /\ Clocks(s) \in SUBSET Nat
  <2> DEFINE clockOf == [k \in DOMAIN s.vectors |-> s.vectors[k].clock]
  <2>1. IsFiniteSet(Clocks(s))
    <3>1. clockOf \in Surjection(DOMAIN s.vectors, Clocks(s))
      BY DEF Surjection, Clocks
    <3> QED
      BY <1>1, <3>1, FS_Surjection
  <2> QED
    BY <1>2, <2>1 DEF Clocks
<1>4. MaxClock(s) \in Nat /\ \A x \in Clocks(s) : x <= MaxClock(s)
  BY <1>3, MaxOfBounds DEF MaxClock
<1> QED
  BY <1>4 DEF Clocks
-----------------------------------------------------------------------------
(* Go maps *)

\* Assigning a key keeps a map a map.
LEMMA SetKeyType ==
    ASSUME NEW m, NEW S, NEW T, IsMapOf(m, S, T), NEW k \in S, NEW v \in T
    PROVE  /\ IsMapOf(SetKey(m, k, v), S, T)
           /\ DOMAIN SetKey(m, k, v) = DOMAIN m \cup {k}
           /\ SetKey(m, k, v)[k] = v
           /\ \A x \in DOMAIN m : x # k => SetKey(m, k, v)[x] = m[x]
BY DEF IsMapOf, SetKey

\* Deleting keys keeps a map a map.
LEMMA WithoutType ==
    ASSUME NEW m, NEW S, NEW T, IsMapOf(m, S, T), NEW ks
    PROVE  /\ IsMapOf(Without(m, ks), S, T)
           /\ DOMAIN Without(m, ks) = DOMAIN m \ ks
           /\ \A x \in DOMAIN m \ ks : Without(m, ks)[x] = m[x]
BY DEF IsMapOf, Without, Restrict

\* A new map has no keys.
LEMMA EmptyMapType ==
    ASSUME NEW S, NEW T
    PROVE  IsMapOf(EmptyMap, S, T) /\ DOMAIN EmptyMap = {}
BY DEF IsMapOf, EmptyMap
-----------------------------------------------------------------------------
(* The clock *)

\* IncrementClock: the process's own clock is one above every other, at time t.
LEMMA IncrementClockType ==
    ASSUME NEW s, IsReplica(s), NEW p \in Node, NEW t \in Nat
    PROVE  LET r == IncrementClock(s, p, t)
           IN  /\ IsReplica(r)
               /\ DOMAIN r.vectors = DOMAIN s.vectors \cup {p}
               /\ r.vectors[p] = [clock |-> MaxClock(s) + 1, lastUpdate |-> t]
               /\ \A k \in DOMAIN s.vectors \ {p} : r.vectors[k] = s.vectors[k]
               /\ r.highestStale = s.highestStale
               /\ r.add = s.add
               /\ r.remove = s.remove
<1> DEFINE b == [clock |-> MaxClock(s) + 1, lastUpdate |-> t]
<1>1. b \in VectorBucket
  BY MaxClockBounds DEF VectorBucket
<1>2. /\ IsMapOf(SetKey(s.vectors, p, b), Node, VectorBucket)
      /\ DOMAIN SetKey(s.vectors, p, b) = DOMAIN s.vectors \cup {p}
      /\ SetKey(s.vectors, p, b)[p] = b
      /\ \A k \in DOMAIN s.vectors : k # p => SetKey(s.vectors, p, b)[k] = s.vectors[k]
  <2>1. IsMapOf(s.vectors, Node, VectorBucket)
    BY DEF IsReplica
  <2> HIDE DEF b
  <2> QED
    BY <1>1, <2>1, SetKeyType
<1>3. IncrementClock(s, p, t) =
        [vectors |-> SetKey(s.vectors, p, b), highestStale |-> s.highestStale,
         add |-> s.add, remove |-> s.remove]
  BY DEF IncrementClock, IsReplica
<1> QED
  BY <1>2, <1>3 DEF IsReplica

\* Clock.put: nothing but the clock of k changes, and only upwards.
LEMMA ClockPutType ==
    ASSUME NEW s, IsReplica(s), NEW k \in Node, NEW v \in Nat, NEW t \in Nat
    PROVE  LET r == ClockPut(s, k, v, t)
           IN  /\ IsReplica(r)
               /\ r.vectors = s.vectors
                    \/ r.vectors = SetKey(s.vectors, k, [clock |-> v, lastUpdate |-> t])
               /\ r.highestStale = s.highestStale
               /\ r.add = s.add
               /\ r.remove = s.remove
<1> DEFINE b == [clock |-> v, lastUpdate |-> t]
           r == [s EXCEPT !.vectors = SetKey(@, k, b)]
<1>1. b \in VectorBucket
  BY DEF VectorBucket
<1>2. IsMapOf(SetKey(s.vectors, k, b), Node, VectorBucket)
  BY <1>1, SetKeyType DEF IsReplica
<1>3. r = [vectors |-> SetKey(s.vectors, k, b), highestStale |-> s.highestStale,
           add |-> s.add, remove |-> s.remove]
  BY DEF IsReplica
<1>4. IsReplica(r)
  BY <1>2, <1>3 DEF IsReplica
<1>5. ClockPut(s, k, v, t) = r \/ ClockPut(s, k, v, t) = s
  BY DEF ClockPut
<1> QED
  BY <1>3, <1>4, <1>5

\* Clock.Merge: every clock is the one there was or one that was received.
LEMMA ClockMergeType ==
    ASSUME NEW s, IsReplica(s), NEW vs, IsMapOf(vs, Node, Nat), NEW t \in Nat
    PROVE  LET r == ClockMerge(s, vs, t)
           IN  /\ IsReplica(r)
               /\ DOMAIN s.vectors \subseteq DOMAIN r.vectors
               /\ \A k \in DOMAIN r.vectors :
                    \/ k \in DOMAIN s.vectors /\ r.vectors[k] = s.vectors[k]
                    \/ /\ k \in DOMAIN vs
                       /\ r.vectors[k].clock = vs[k] /\ r.vectors[k].lastUpdate = t
                       /\ k \in DOMAIN s.vectors => s.vectors[k].clock < vs[k]
               /\ r.highestStale = s.highestStale
               /\ r.add = s.add
               /\ r.remove = s.remove
<1> DEFINE news == {k \in DOMAIN vs : /\ vs[k] > At(s.vectors, k, ZeroVector).clock
                                      /\ vs[k] > s.highestStale}
           v == [k \in DOMAIN s.vectors \cup news |->
                    IF k \in news THEN [clock |-> vs[k], lastUpdate |-> t]
                                  ELSE s.vectors[k]]
<1>1. ClockMerge(s, vs, t) = [vectors |-> v, highestStale |-> s.highestStale,
                              add |-> s.add, remove |-> s.remove]
  BY DEF ClockMerge, IsReplica
<1>2. \A k \in news : k \in DOMAIN vs /\ [clock |-> vs[k], lastUpdate |-> t] \in VectorBucket
  BY DEF IsMapOf, VectorBucket
<1>3. IsMapOf(v, Node, VectorBucket)
  BY <1>2 DEF IsMapOf, IsReplica
<1>4. IsReplica(ClockMerge(s, vs, t))
  BY <1>1, <1>3 DEF IsReplica
<1>5. \A k \in DOMAIN s.vectors \cap news : s.vectors[k].clock < vs[k]
  BY DEF At, IsReplica, IsMapOf, VectorBucket
<1> QED
  BY <1>1, <1>4, <1>5
-----------------------------------------------------------------------------
(* The maps *)

\* GMap.put of every received bucket: each bucket is an old or a received one.
LEMMA GMapMergeType ==
    ASSUME NEW m, IsMapOf(m, Node, Bucket), NEW b, IsMapOf(b, Node, Bucket)
    PROVE  LET r == GMapMerge(m, b)
           IN  /\ IsMapOf(r, Node, Bucket)
               /\ \A k \in DOMAIN r : \/ k \in DOMAIN m /\ r[k] = m[k]
                                      \/ k \in DOMAIN b /\ r[k] = b[k]
<1> DEFINE news == {k \in DOMAIN b : At(m, k, ZeroBucket).Vector < b[k].Vector}
<1>1. GMapMerge(m, b) = [k \in DOMAIN m \cup news |->
                            IF k \in news THEN b[k] ELSE m[k]]
  BY DEF GMapMerge
<1>2. news \subseteq DOMAIN b
  OBVIOUS
<1> HIDE DEF news
<1> QED
  BY <1>1, <1>2 DEF IsMapOf

\* The versions of a map of buckets.
LEMMA GMapClockType ==
    ASSUME NEW m, IsMapOf(m, Node, Bucket)
    PROVE  /\ IsMapOf(GMapClock(m), Node, Nat)
           /\ DOMAIN GMapClock(m) = DOMAIN m
           /\ \A k \in DOMAIN m : GMapClock(m)[k] = m[k].Vector
BY DEF IsMapOf, GMapClock, Bucket

\* The clock of a replica as a map of values.
LEMMA GetClockType ==
    ASSUME NEW s, IsReplica(s)
    PROVE  /\ IsMapOf(GetClock(s), Node, Nat)
           /\ DOMAIN GetClock(s) = DOMAIN s.vectors
           /\ \A k \in DOMAIN s.vectors : GetClock(s)[k] = s.vectors[k].clock
BY DEF IsMapOf, GetClock, IsReplica, VectorBucket

\* SaveWithKeys: a bucket of the map, or the zero bucket.
LEMMA SaveWithKeysType ==
    ASSUME NEW m, IsMapOf(m, Node, Bucket), NEW ks \in SUBSET Node
    PROVE  /\ IsMapOf(SaveWithKeys(m, ks), Node, Bucket)
           /\ DOMAIN SaveWithKeys(m, ks) = ks
           /\ \A k \in ks : \/ k \in DOMAIN m /\ SaveWithKeys(m, ks)[k] = m[k]
                            \/ SaveWithKeys(m, ks)[k] = ZeroBucket
<1>1. ZeroBucket \in Bucket
  BY DEF ZeroBucket, Bucket
<1> QED
  BY <1>1 DEF IsMapOf, SaveWithKeys, At

\* Mark: the gravestone is set, and nothing else.
LEMMA MarkType ==
    ASSUME NEW s, IsReplica(s), NEW k
    PROVE  LET r == Mark(s, k)
           IN  /\ IsReplica(r)
               /\ r.vectors = s.vectors
               /\ r.highestStale = s.highestStale
               /\ r.remove = s.remove
               /\ DOMAIN r.add = DOMAIN s.add
               /\ \A x \in DOMAIN s.add :
                    /\ r.add[x].Vector = s.add[x].Vector
                    /\ r.add[x].Contents = s.add[x].Contents
<1> DEFINE a == GMapMark(s.add, k)
<1>1. Mark(s, k) = [vectors |-> s.vectors, highestStale |-> s.highestStale,
                    add |-> a, remove |-> s.remove]
  BY DEF Mark, IsReplica
<1>2. /\ IsMapOf(a, Node, Bucket) /\ DOMAIN a = DOMAIN s.add
      /\ \A x \in DOMAIN s.add : /\ a[x].Vector = s.add[x].Vector
                                 /\ a[x].Contents = s.add[x].Contents
  BY DEF IsReplica, IsMapOf, GMapMark, Bucket
<1>3. IsReplica(Mark(s, k))
  BY <1>1, <1>2 DEF IsReplica
<1> QED
  BY <1>1, <1>2, <1>3

\* Put by a process under its own key: a version above every clock it knows,
\* and a clock above that version.
LEMMA PutType ==
    ASSUME NEW s, IsReplica(s), NEW p \in Node,
           NEW d \in Data \cup {Tombstone, NoData}, NEW t \in Nat
    PROVE  LET r == Put(s, p, p, d, t)
           IN  /\ IsReplica(r)
               /\ DOMAIN r.vectors = DOMAIN s.vectors \cup {p}
               /\ \A k \in DOMAIN s.vectors \ {p} : r.vectors[k] = s.vectors[k]
               /\ r.vectors[p].lastUpdate = t
               /\ 0 < r.add[p].Vector
               /\ r.add[p].Vector < r.vectors[p].clock
               /\ \A k \in DOMAIN s.vectors : s.vectors[k].clock < r.add[p].Vector
               /\ r.highestStale = s.highestStale
               /\ DOMAIN r.add = DOMAIN s.add \cup {p}
               /\ \A k \in DOMAIN s.add \ {p} : r.add[k] = s.add[k]
               /\ r.add[p].Contents = d
               /\ r.remove = s.remove
<1> DEFINE s0 == IncrementClock(s, p, t)
           s1 == ClockPut(s0, p, MaxClock(s), t)
           s2 == IncrementClock(s1, p, t)
           b == NewBucket(s1, d)
           a == SetKey(s.add, p, b)
<1>1. MaxClock(s) \in Nat /\ \A k \in DOMAIN s.vectors : s.vectors[k].clock <= MaxClock(s)
  BY MaxClockBounds
<1>2. /\ IsReplica(s0) /\ s0.highestStale = s.highestStale /\ s0.add = s.add
      /\ s0.remove = s.remove /\ DOMAIN s0.vectors = DOMAIN s.vectors \cup {p}
      /\ s0.vectors[p] = [clock |-> MaxClock(s) + 1, lastUpdate |-> t]
      /\ \A k \in DOMAIN s.vectors \ {p} : s0.vectors[k] = s.vectors[k]
  BY IncrementClockType
<1>3. s1 = s0
  BY <1>1, <1>2 DEF ClockPut, At
<1>4. MaxClock(s0) \in Nat /\ MaxClock(s) + 1 <= MaxClock(s0)
  <2> HIDE DEF s0
  <2>1. MaxClock(s0) \in Nat /\ \A k \in DOMAIN s0.vectors : s0.vectors[k].clock <= MaxClock(s0)
    BY <1>2, MaxClockBounds
  <2> QED
    BY <1>2, <2>1
<1>5. /\ IsReplica(s2) /\ s2.highestStale = s.highestStale /\ s2.add = s.add
      /\ s2.remove = s.remove /\ DOMAIN s2.vectors = DOMAIN s.vectors \cup {p}
      /\ s2.vectors[p] = [clock |-> MaxClock(s0) + 1, lastUpdate |-> t]
      /\ \A k \in DOMAIN s.vectors \ {p} : s2.vectors[k] = s.vectors[k]
  <2> HIDE DEF s0
  <2> QED
    BY <1>2, <1>3, IncrementClockType
<1>6. b = [Vector |-> MaxClock(s0), Contents |-> d, Gravestone |-> FALSE]
  BY <1>3 DEF NewBucket
<1>7. b \in Bucket
  <2> HIDE DEF b, s0
  <2> QED
    BY <1>4, <1>6 DEF Bucket
<1>8. Put(s, p, p, d, t) =
        [vectors |-> s2.vectors, highestStale |-> s2.highestStale,
         add |-> a, remove |-> s2.remove]
  <2>1. Put(s, p, p, d, t) = [s2 EXCEPT !.add = SetKey(@, p, b)]
    BY DEF Put
  <2> HIDE DEF s2, b
  <2> QED
    BY <1>5, <2>1 DEF IsReplica
<1>9. /\ IsMapOf(a, Node, Bucket)
      /\ DOMAIN a = DOMAIN s.add \cup {p}
      /\ a[p] = b
      /\ \A k \in DOMAIN s.add : k # p => a[k] = s.add[k]
  <2> HIDE DEF b
  <2>1. IsMapOf(s.add, Node, Bucket)
    BY DEF IsReplica
  <2> QED
    BY <1>7, <2>1 DEF IsMapOf, SetKey
<1>10. \A k \in DOMAIN s.vectors : s.vectors[k].clock < MaxClock(s0)
  <2> HIDE DEF s0
  <2>1. \A k \in DOMAIN s.vectors : s.vectors[k].clock \in Nat
    BY DEF IsReplica, IsMapOf, VectorBucket
  <2> QED
    BY <1>1, <1>4, <2>1
<1> DEFINE r == Put(s, p, p, d, t)
<1> HIDE DEF s0, s1, s2, b, a
<1>11. r.vectors = s2.vectors /\ r.highestStale = s2.highestStale /\ r.add = a /\ r.remove = s2.remove
  BY <1>8
<1>12. IsReplica(r)
  <2>1. r = [vectors |-> r.vectors, highestStale |-> r.highestStale, add |-> r.add, remove |-> r.remove]
    BY <1>8, <1>11
  <2> HIDE DEF r
  <2> QED
    BY <1>5, <2>1, <1>11, <1>9 DEF IsReplica
<1>13. r.add[p].Vector = MaxClock(s0) /\ r.add[p].Contents = d
  BY <1>6, <1>9, <1>11
<1> HIDE DEF r
<1>14. /\ r.vectors[p].lastUpdate = t /\ r.add[p].Vector < r.vectors[p].clock
       /\ r.add[p].Vector \in Nat /\ 0 < r.add[p].Vector
  BY <1>1, <1>4, <1>5, <1>11, <1>13
<1>15. \A k \in DOMAIN s.vectors : s.vectors[k].clock < r.add[p].Vector
  BY <1>10, <1>13
<1>16. /\ DOMAIN r.add = DOMAIN s.add \cup {p}
       /\ \A k \in DOMAIN s.add \ {p} : r.add[k] = s.add[k]
  BY <1>9, <1>11
<1>17. /\ DOMAIN r.vectors = DOMAIN s.vectors \cup {p}
       /\ \A k \in DOMAIN s.vectors \ {p} : r.vectors[k] = s.vectors[k]
       /\ r.highestStale = s.highestStale /\ r.remove = s.remove
  BY <1>5, <1>11
<1> QED
  BY <1>12, <1>13, <1>14, <1>15, <1>16, <1>17 DEF r

\* Remove by a process under its own key: the tombstone's version bounds every
\* clock the process knew, and the clock is one above it.
LEMMA RemoveType ==
    ASSUME NEW s, IsReplica(s), NEW p \in Node, NEW t \in Nat
    PROVE  LET r == Remove(s, p, p, t)
           IN  /\ IsReplica(r)
               /\ DOMAIN r.vectors = DOMAIN s.vectors \cup {p}
               /\ \A k \in DOMAIN s.vectors \ {p} : r.vectors[k] = s.vectors[k]
               /\ r.vectors[p].lastUpdate = t
               /\ r.remove[p].Vector < r.vectors[p].clock
               /\ \A k \in DOMAIN s.vectors : s.vectors[k].clock <= r.remove[p].Vector
               /\ r.highestStale = s.highestStale
               /\ DOMAIN r.remove = DOMAIN s.remove \cup {p}
               /\ \A k \in DOMAIN s.remove \ {p} : r.remove[k] = s.remove[k]
               /\ r.add = s.add
<1> DEFINE s0 == IncrementClock(s, p, t)
           b == NewBucket(s, Tombstone)
           a == SetKey(s.remove, p, b)
           r == Remove(s, p, p, t)
<1>1. MaxClock(s) \in Nat /\ \A k \in DOMAIN s.vectors : s.vectors[k].clock <= MaxClock(s)
  BY MaxClockBounds
<1>2. /\ IsReplica(s0) /\ s0.highestStale = s.highestStale /\ s0.add = s.add
      /\ s0.remove = s.remove /\ DOMAIN s0.vectors = DOMAIN s.vectors \cup {p}
      /\ s0.vectors[p] = [clock |-> MaxClock(s) + 1, lastUpdate |-> t]
      /\ \A k \in DOMAIN s.vectors \ {p} : s0.vectors[k] = s.vectors[k]
  BY IncrementClockType
<1>3. b = [Vector |-> MaxClock(s), Contents |-> Tombstone, Gravestone |-> FALSE]
  BY DEF NewBucket
<1>4. b \in Bucket
  BY <1>1, <1>3 DEF Bucket
<1>5. r = [vectors |-> s0.vectors, highestStale |-> s0.highestStale,
           add |-> s0.add, remove |-> a]
  <2>1. r = [s0 EXCEPT !.remove = SetKey(@, p, b)]
    BY DEF Remove
  <2> HIDE DEF s0, b, r
  <2> QED
    BY <1>2, <2>1 DEF IsReplica
<1> HIDE DEF s0, b, r
<1>6. IsMapOf(a, Node, Bucket) /\ DOMAIN a = DOMAIN s.remove \cup {p} /\ a[p] = b
      /\ \A k \in DOMAIN s.remove \ {p} : a[k] = s.remove[k]
  BY <1>4 DEF IsReplica, IsMapOf, SetKey
<1> HIDE DEF a
<1>7. r.vectors = s0.vectors /\ r.highestStale = s0.highestStale /\ r.add = s0.add /\ r.remove = a
  BY <1>5
<1>8. IsReplica(r)
  BY <1>2, <1>5, <1>6, <1>7 DEF IsReplica
<1>9. r.remove[p].Vector = MaxClock(s)
  BY <1>3, <1>6, <1>7
<1>10. r.vectors[p].lastUpdate = t /\ r.remove[p].Vector < r.vectors[p].clock
  BY <1>1, <1>2, <1>7, <1>9
<1>11. /\ DOMAIN r.vectors = DOMAIN s.vectors \cup {p}
       /\ \A k \in DOMAIN s.vectors \ {p} : r.vectors[k] = s.vectors[k]
       /\ r.highestStale = s.highestStale /\ r.add = s.add
  BY <1>2, <1>7
<1>12. DOMAIN r.remove = DOMAIN s.remove \cup {p}
       /\ \A k \in DOMAIN s.remove \ {p} : r.remove[k] = s.remove[k]
  BY <1>6, <1>7
<1>13. \A k \in DOMAIN s.vectors : s.vectors[k].clock <= r.remove[p].Vector
  BY <1>1, <1>9
<1> QED
  BY <1>8, <1>10, <1>11, <1>12, <1>13 DEF r

\* Merge: every clock is an old one or the version of a received bucket, and
\* every bucket is an old or a received one.
LEMMA MergeType ==
    ASSUME NEW s, IsReplica(s), NEW a, IsMapOf(a, Node, Bucket),
           NEW d, IsMapOf(d, Node, Bucket), NEW t \in Nat
    PROVE  LET r == Merge(s, [add |-> a, remove |-> d], t)
           IN  /\ IsReplica(r)
               /\ DOMAIN s.vectors \subseteq DOMAIN r.vectors
               /\ \A k \in DOMAIN r.vectors :
                    \/ k \in DOMAIN s.vectors /\ r.vectors[k] = s.vectors[k]
                    \/ /\ r.vectors[k].lastUpdate = t
                       /\ \/ k \in DOMAIN a /\ r.vectors[k].clock = a[k].Vector
                          \/ k \in DOMAIN d /\ r.vectors[k].clock = d[k].Vector
                       /\ k \in DOMAIN s.vectors =>
                            s.vectors[k].clock < r.vectors[k].clock
               /\ r.highestStale = s.highestStale
               /\ r.add = GMapMerge(s.add, a)
               /\ r.remove = GMapMerge(s.remove, d)
<1> DEFINE x == GMapMerge(s.add, a)
           y == GMapMerge(s.remove, d)
           m == [vectors |-> s.vectors, highestStale |-> s.highestStale,
                 add |-> x, remove |-> y]
           s1 == ClockMerge(m, GMapClock(a), t)
           s2 == ClockMerge(s1, GMapClock(d), t)
<1>1. IsMapOf(x, Node, Bucket) /\ IsMapOf(y, Node, Bucket)
  <2>1. IsMapOf(s.add, Node, Bucket) /\ IsMapOf(s.remove, Node, Bucket)
    BY DEF IsReplica
  <2>2. IsMapOf(x, Node, Bucket)
    BY <2>1, GMapMergeType
  <2>3. IsMapOf(y, Node, Bucket)
    BY <2>1, GMapMergeType
  <2> QED
    BY <2>2, <2>3
<1> HIDE DEF x, y
<1>3. IsReplica(m) /\ m.vectors = s.vectors /\ m.highestStale = s.highestStale
      /\ m.add = x /\ m.remove = y
  BY <1>1 DEF IsReplica
<1>4. Merge(s, [add |-> a, remove |-> d], t) = s2
  BY DEF Merge, x, y
<1> HIDE DEF m
<1>5. /\ IsMapOf(GMapClock(a), Node, Nat) /\ DOMAIN GMapClock(a) = DOMAIN a
      /\ \A k \in DOMAIN a : GMapClock(a)[k] = a[k].Vector
  BY GMapClockType
<1>6. /\ IsMapOf(GMapClock(d), Node, Nat) /\ DOMAIN GMapClock(d) = DOMAIN d
      /\ \A k \in DOMAIN d : GMapClock(d)[k] = d[k].Vector
  BY GMapClockType
<1>7. /\ IsReplica(s1) /\ DOMAIN m.vectors \subseteq DOMAIN s1.vectors
      /\ s1.highestStale = m.highestStale /\ s1.add = m.add /\ s1.remove = m.remove
  BY <1>3, <1>5, ClockMergeType
<1>8. \A k \in DOMAIN s1.vectors :
         \/ k \in DOMAIN m.vectors /\ s1.vectors[k] = m.vectors[k]
         \/ /\ k \in DOMAIN GMapClock(a)
            /\ s1.vectors[k].clock = GMapClock(a)[k] /\ s1.vectors[k].lastUpdate = t
            /\ k \in DOMAIN m.vectors => m.vectors[k].clock < GMapClock(a)[k]
  BY <1>3, <1>5, ClockMergeType
<1> HIDE DEF s1
<1>9. /\ IsReplica(s2) /\ DOMAIN s1.vectors \subseteq DOMAIN s2.vectors
      /\ s2.highestStale = s1.highestStale /\ s2.add = s1.add /\ s2.remove = s1.remove
  BY <1>7, <1>6, ClockMergeType
<1>10. \A k \in DOMAIN s2.vectors :
         \/ k \in DOMAIN s1.vectors /\ s2.vectors[k] = s1.vectors[k]
         \/ /\ k \in DOMAIN GMapClock(d)
            /\ s2.vectors[k].clock = GMapClock(d)[k] /\ s2.vectors[k].lastUpdate = t
            /\ k \in DOMAIN s1.vectors => s1.vectors[k].clock < GMapClock(d)[k]
  BY <1>7, <1>6, ClockMergeType
<1> HIDE DEF s2
<1>11. ASSUME NEW k \in DOMAIN s1.vectors
       PROVE  \/ k \in DOMAIN s.vectors /\ s1.vectors[k] = s.vectors[k]
              \/ /\ s1.vectors[k].lastUpdate = t
                 /\ k \in DOMAIN a /\ s1.vectors[k].clock = a[k].Vector
                 /\ k \in DOMAIN s.vectors => s.vectors[k].clock < s1.vectors[k].clock
  <2>1. CASE k \in DOMAIN m.vectors /\ s1.vectors[k] = m.vectors[k]
    BY <1>3, <2>1
  <2>2. CASE /\ k \in DOMAIN GMapClock(a)
             /\ s1.vectors[k].clock = GMapClock(a)[k] /\ s1.vectors[k].lastUpdate = t
             /\ k \in DOMAIN m.vectors => m.vectors[k].clock < GMapClock(a)[k]
    BY <1>3, <1>5, <2>2
  <2> QED
    BY <1>8, <2>1, <2>2
<1>12. ASSUME NEW k \in DOMAIN s2.vectors
       PROVE  \/ k \in DOMAIN s1.vectors /\ s2.vectors[k] = s1.vectors[k]
              \/ /\ s2.vectors[k].lastUpdate = t
                 /\ k \in DOMAIN d /\ s2.vectors[k].clock = d[k].Vector
                 /\ k \in DOMAIN s1.vectors => s1.vectors[k].clock < s2.vectors[k].clock
  <2>1. CASE k \in DOMAIN s1.vectors /\ s2.vectors[k] = s1.vectors[k]
    BY <2>1
  <2>2. CASE /\ k \in DOMAIN GMapClock(d)
             /\ s2.vectors[k].clock = GMapClock(d)[k] /\ s2.vectors[k].lastUpdate = t
             /\ k \in DOMAIN s1.vectors => s1.vectors[k].clock < GMapClock(d)[k]
    BY <1>6, <2>2
  <2> QED
    BY <1>10, <2>1, <2>2
<1>13. \A k \in DOMAIN s.vectors : s.vectors[k].clock \in Nat
  BY DEF IsReplica, IsMapOf, VectorBucket
<1>14. \A k \in DOMAIN s1.vectors : s1.vectors[k].clock \in Nat
  BY <1>7 DEF IsReplica, IsMapOf, VectorBucket
<1>15. \A k \in DOMAIN s2.vectors : s2.vectors[k].clock \in Nat
  BY <1>9 DEF IsReplica, IsMapOf, VectorBucket
<1>16. DOMAIN s.vectors \subseteq DOMAIN s1.vectors
  BY <1>3, <1>7
<1>17. ASSUME NEW k \in DOMAIN s2.vectors
       PROVE  \/ k \in DOMAIN s.vectors /\ s2.vectors[k] = s.vectors[k]
              \/ /\ s2.vectors[k].lastUpdate = t
                 /\ \/ k \in DOMAIN a /\ s2.vectors[k].clock = a[k].Vector
                    \/ k \in DOMAIN d /\ s2.vectors[k].clock = d[k].Vector
                 /\ k \in DOMAIN s.vectors => s.vectors[k].clock < s2.vectors[k].clock
  <2>1. CASE k \in DOMAIN s1.vectors /\ s2.vectors[k] = s1.vectors[k]
    BY <2>1, <1>11
  <2>2. CASE k \in DOMAIN s1.vectors /\ s2.vectors[k] # s1.vectors[k]
    BY <2>2, <1>11, <1>12, <1>13, <1>14, <1>15
  <2>3. CASE k \notin DOMAIN s1.vectors
    BY <2>3, <1>12, <1>16
  <2> QED
    BY <2>1, <2>2, <2>3
<1>18. /\ DOMAIN s.vectors \subseteq DOMAIN s2.vectors
       /\ s2.highestStale = s.highestStale /\ s2.add = x /\ s2.remove = y
  BY <1>3, <1>7, <1>9, <1>16
<1> QED
  BY <1>4, <1>9, <1>17, <1>18 DEF x, y

\* Prune: buckets only disappear, and one that does not lag the newest by more
\* than StaleTime stays.
LEMMA PruneType ==
    ASSUME NEW s, IsReplica(s)
    PROVE  LET r == Prune(s)
           IN  /\ IsReplica(r)
               /\ DOMAIN r.vectors \subseteq DOMAIN s.vectors
               /\ \A k \in DOMAIN r.vectors : r.vectors[k] = s.vectors[k]
               /\ DOMAIN r.add \subseteq DOMAIN s.add
               /\ \A k \in DOMAIN r.add : r.add[k] = s.add[k]
               /\ DOMAIN r.remove \subseteq DOMAIN s.remove
               /\ \A k \in DOMAIN r.remove : r.remove[k] = s.remove[k]
               /\ \A p \in DOMAIN s.vectors :
                    (\A k \in DOMAIN s.vectors :
                        s.vectors[k].lastUpdate <= s.vectors[p].lastUpdate + StaleTime)
                    => p \in DOMAIN r.vectors
<1> DEFINE stale == GetStale(s)
           v == Without(s.vectors, stale)
           a == Without(s.add, stale)
           d == Without(s.remove, stale)
           h == MaxOf({s.highestStale} \cup {s.vectors[k].clock : k \in stale})
           r == Prune(s)
<1>1. IsFiniteSet(DOMAIN s.vectors) /\ s.highestStale \in Nat
      /\ \A k \in DOMAIN s.vectors : s.vectors[k].clock \in Nat /\ s.vectors[k].lastUpdate \in Nat
  BY NodeAssumption, FS_Subset DEF IsReplica, IsMapOf, VectorBucket
<1>2. h \in Nat
  <2> DEFINE C == {s.vectors[k].clock : k \in stale}
             clockOf == [k \in stale |-> s.vectors[k].clock]
  <2>1. stale \subseteq DOMAIN s.vectors /\ IsFiniteSet(stale)
    BY <1>1, FS_Subset DEF GetStale
  <2> HIDE DEF stale
  <2>2. clockOf \in Surjection(stale, C)
    BY DEF Surjection
  <2>3. IsFiniteSet(C)
    BY <2>1, <2>2, FS_Surjection
  <2>4. C \in SUBSET Nat
    BY <1>1, <2>1
  <2> HIDE DEF C
  <2>5. IsFiniteSet({s.highestStale} \cup C)
    BY <2>3, FS_Singleton, FS_Union
  <2>6. MaxOf({s.highestStale} \cup C) \in Nat
    BY <1>1, <2>4, <2>5, MaxOfBounds
  <2> QED
    BY <2>6 DEF C
<1>3. r = [vectors |-> v, highestStale |-> h, add |-> a, remove |-> d]
  BY DEF Prune
<1> HIDE DEF h, r
<1>4. /\ IsMapOf(v, Node, VectorBucket) /\ DOMAIN v = DOMAIN s.vectors \ stale
      /\ \A k \in DOMAIN v : v[k] = s.vectors[k]
  <2> HIDE DEF stale
  <2> QED
    BY DEF IsReplica, IsMapOf, Without, Restrict
<1>5. /\ IsMapOf(a, Node, Bucket) /\ DOMAIN a \subseteq DOMAIN s.add
      /\ \A k \in DOMAIN a : a[k] = s.add[k]
  <2> HIDE DEF stale
  <2> QED
    BY DEF IsReplica, IsMapOf, Without, Restrict
<1>6. /\ IsMapOf(d, Node, Bucket) /\ DOMAIN d \subseteq DOMAIN s.remove
      /\ \A k \in DOMAIN d : d[k] = s.remove[k]
  <2> HIDE DEF stale
  <2> QED
    BY DEF IsReplica, IsMapOf, Without, Restrict
<1>7. ASSUME NEW p \in DOMAIN s.vectors,
             \A k \in DOMAIN s.vectors :
                s.vectors[k].lastUpdate <= s.vectors[p].lastUpdate + StaleTime
      PROVE  p \notin stale
  <2> DEFINE L == LastUpdates(s)
             timeOf == [k \in DOMAIN s.vectors |-> s.vectors[k].lastUpdate]
  <2>1. timeOf \in Surjection(DOMAIN s.vectors, L)
    BY DEF Surjection, LastUpdates
  <2>2. IsFiniteSet(L)
    BY <1>1, <2>1, FS_Surjection
  <2>3. L \in SUBSET Nat
    BY <1>1 DEF LastUpdates
  <2>4. MaxOf(L) \in Nat /\ MaxOf(L) \in L \cup {0}
    BY <2>2, <2>3, MaxOfBounds
  <2>5. s.vectors[p].lastUpdate \in Nat /\ StaleTime \in Nat
    BY <1>1, StaleTimeAssumption
  <2>6. MaxOf(L) <= s.vectors[p].lastUpdate + StaleTime
    <3>1. CASE MaxOf(L) = 0
      BY <3>1, <2>5
    <3>2. CASE MaxOf(L) \in L
      BY <3>2, <1>7 DEF LastUpdates
    <3> QED
      BY <2>4, <3>1, <3>2
  <2>7. ~(MaxOf(L) - s.vectors[p].lastUpdate > StaleTime)
    <3> HIDE DEF L
    <3> QED
      BY <2>4, <2>5, <2>6
  <2> QED
    BY <2>7 DEF GetStale
<1> HIDE DEF stale, v, a, d
<1>8. r.vectors = v /\ r.highestStale = h /\ r.add = a /\ r.remove = d
  BY <1>3
<1>9. IsReplica(r)
  BY <1>2, <1>3, <1>4, <1>5, <1>6, <1>8 DEF IsReplica
<1>10. \A p \in DOMAIN s.vectors :
          (\A k \in DOMAIN s.vectors :
              s.vectors[k].lastUpdate <= s.vectors[p].lastUpdate + StaleTime)
          => p \in DOMAIN v
  BY <1>4, <1>7
<1> QED
  BY <1>4, <1>5, <1>6, <1>8, <1>9, <1>10 DEF r

\* GMap.put: a map never goes back to an older version, takes every bucket that
\* is news and never a zero one.
LEMMA GMapMergeKeeps ==
    ASSUME NEW m, IsMapOf(m, Node, Bucket), NEW b, IsMapOf(b, Node, Bucket)
    PROVE  LET r == GMapMerge(m, b)
           IN  /\ \A k \in DOMAIN m : k \in DOMAIN r /\ m[k].Vector <= r[k].Vector
               /\ \A k \in DOMAIN b : 0 < b[k].Vector =>
                    k \in DOMAIN r /\ b[k].Vector <= r[k].Vector
               /\ \A k \in DOMAIN r :
                    \/ k \in DOMAIN m /\ r[k] = m[k]
                    \/ k \in DOMAIN b /\ r[k] = b[k] /\ 0 < b[k].Vector
<1> DEFINE news == {k \in DOMAIN b : At(m, k, ZeroBucket).Vector < b[k].Vector}
           r == GMapMerge(m, b)
<1>1. r = [k \in DOMAIN m \cup news |-> IF k \in news THEN b[k] ELSE m[k]]
  BY DEF GMapMerge
<1>2. /\ \A k \in DOMAIN m : m[k].Vector \in Nat
      /\ \A k \in DOMAIN b : b[k].Vector \in Nat
  BY DEF IsMapOf, Bucket
<1>3. \A k \in DOMAIN b : k \in news <=> At(m, k, ZeroBucket).Vector < b[k].Vector
  OBVIOUS
<1>4. news \subseteq DOMAIN b
  OBVIOUS
<1>5. /\ \A k \in DOMAIN m : At(m, k, ZeroBucket).Vector = m[k].Vector
      /\ \A k : k \notin DOMAIN m => At(m, k, ZeroBucket).Vector = 0
  BY DEF At, ZeroBucket
<1> HIDE DEF news, r
<1>6. \A k \in news : 0 < b[k].Vector
  BY <1>2, <1>3, <1>4, <1>5
<1>7. \A k \in DOMAIN m : k \in DOMAIN r /\ m[k].Vector <= r[k].Vector
  BY <1>1, <1>2, <1>3, <1>4, <1>5
<1>8. \A k \in DOMAIN b : 0 < b[k].Vector => k \in DOMAIN r /\ b[k].Vector <= r[k].Vector
  BY <1>1, <1>2, <1>3, <1>4, <1>5
<1>9. \A k \in DOMAIN r : \/ k \in DOMAIN m /\ r[k] = m[k]
                          \/ k \in DOMAIN b /\ r[k] = b[k] /\ 0 < b[k].Vector
  BY <1>1, <1>4, <1>6
<1> QED
  BY <1>7, <1>8, <1>9 DEF r

\* GMap.Merge keeps a bucket against one whose version is not newer.
LEMMA GMapMergeIgnores ==
    ASSUME NEW m, IsMapOf(m, Node, Bucket), NEW b, IsMapOf(b, Node, Bucket),
           NEW k \in DOMAIN m, k \in DOMAIN b => b[k].Vector <= m[k].Vector
    PROVE  k \in DOMAIN GMapMerge(m, b) /\ GMapMerge(m, b)[k] = m[k]
<1> DEFINE news == {x \in DOMAIN b : At(m, x, ZeroBucket).Vector < b[x].Vector}
<1>1. GMapMerge(m, b) = [x \in DOMAIN m \cup news |-> IF x \in news THEN b[x] ELSE m[x]]
  BY DEF GMapMerge
<1>2. m[k].Vector \in Nat /\ (k \in DOMAIN b => b[k].Vector \in Nat)
  BY DEF IsMapOf, Bucket
<1>3. At(m, k, ZeroBucket).Vector = m[k].Vector
  BY DEF At
<1>4. k \notin news
  BY <1>2, <1>3
<1> HIDE DEF news
<1> QED
  BY <1>1, <1>4

\* Clock.Merge: no clock goes back, and a received clock is accepted unless it
\* was collected.
LEMMA ClockMergeKeeps ==
    ASSUME NEW s, IsReplica(s), NEW vs, IsMapOf(vs, Node, Nat), NEW t \in Nat
    PROVE  LET r == ClockMerge(s, vs, t)
           IN  /\ \A k \in DOMAIN s.vectors :
                    k \in DOMAIN r.vectors /\ s.vectors[k].clock <= r.vectors[k].clock
               /\ \A k \in DOMAIN vs :
                    \/ vs[k] <= s.highestStale
                    \/ k \in DOMAIN r.vectors /\ vs[k] <= r.vectors[k].clock
<1> DEFINE news == {k \in DOMAIN vs : /\ vs[k] > At(s.vectors, k, ZeroVector).clock
                                      /\ vs[k] > s.highestStale}
           v == [k \in DOMAIN s.vectors \cup news |->
                    IF k \in news THEN [clock |-> vs[k], lastUpdate |-> t]
                                  ELSE s.vectors[k]]
           r == ClockMerge(s, vs, t)
<1>1. r = [vectors |-> v, highestStale |-> s.highestStale, add |-> s.add, remove |-> s.remove]
  BY DEF ClockMerge, IsReplica
<1>2. r.vectors = v
  BY <1>1
<1>3. /\ \A k \in DOMAIN vs : vs[k] \in Nat
      /\ \A k \in DOMAIN s.vectors : s.vectors[k].clock \in Nat
      /\ s.highestStale \in Nat
  BY DEF IsMapOf, IsReplica, VectorBucket
<1>4. /\ \A k \in DOMAIN s.vectors : At(s.vectors, k, ZeroVector) = s.vectors[k]
      /\ \A k : k \notin DOMAIN s.vectors => At(s.vectors, k, ZeroVector).clock = 0
  BY DEF At, ZeroVector
<1>5. /\ DOMAIN v = DOMAIN s.vectors \cup news
      /\ \A k \in news : v[k].clock = vs[k]
      /\ \A k \in DOMAIN s.vectors : k \notin news => v[k] = s.vectors[k]
  OBVIOUS
<1>6. \A k : k \in news <=> /\ k \in DOMAIN vs
                            /\ vs[k] > At(s.vectors, k, ZeroVector).clock
                            /\ vs[k] > s.highestStale
  OBVIOUS
<1> HIDE DEF v, news, r
<1>7. \A k \in DOMAIN s.vectors :
         k \in DOMAIN r.vectors /\ s.vectors[k].clock <= r.vectors[k].clock
  BY <1>2, <1>3, <1>4, <1>5, <1>6
<1>8. \A k \in DOMAIN vs : \/ vs[k] <= s.highestStale
                           \/ k \in DOMAIN r.vectors /\ vs[k] <= r.vectors[k].clock
  BY <1>2, <1>3, <1>4, <1>5, <1>6
<1> QED
  BY <1>7, <1>8 DEF r

\* Merge: the clock is offered the version of every bucket of the snapshot.
LEMMA MergeKeeps ==
    ASSUME NEW s, IsReplica(s), NEW a, IsMapOf(a, Node, Bucket),
           NEW d, IsMapOf(d, Node, Bucket), NEW t \in Nat
    PROVE  LET r == Merge(s, [add |-> a, remove |-> d], t)
           IN  /\ \A k \in DOMAIN s.vectors :
                    k \in DOMAIN r.vectors /\ s.vectors[k].clock <= r.vectors[k].clock
               /\ \A k \in DOMAIN a :
                    \/ a[k].Vector <= s.highestStale
                    \/ k \in DOMAIN r.vectors /\ a[k].Vector <= r.vectors[k].clock
               /\ \A k \in DOMAIN d :
                    \/ d[k].Vector <= s.highestStale
                    \/ k \in DOMAIN r.vectors /\ d[k].Vector <= r.vectors[k].clock
<1> DEFINE x == GMapMerge(s.add, a)
           y == GMapMerge(s.remove, d)
           m == [vectors |-> s.vectors, highestStale |-> s.highestStale,
                 add |-> x, remove |-> y]
           va == GMapClock(a)
           vd == GMapClock(d)
           s1 == ClockMerge(m, va, t)
           r == ClockMerge(s1, vd, t)
<1>1. IsMapOf(x, Node, Bucket) /\ IsMapOf(y, Node, Bucket)
  BY GMapMergeType DEF IsReplica
<1>2. Merge(s, [add |-> a, remove |-> d], t) = r
  BY DEF Merge
<1>3. /\ IsMapOf(va, Node, Nat) /\ DOMAIN va = DOMAIN a
      /\ \A k \in DOMAIN a : va[k] = a[k].Vector
  BY GMapClockType
<1>4. /\ IsMapOf(vd, Node, Nat) /\ DOMAIN vd = DOMAIN d
      /\ \A k \in DOMAIN d : vd[k] = d[k].Vector
  BY GMapClockType
<1> HIDE DEF x, y, va, vd
<1>5. IsReplica(m) /\ m.vectors = s.vectors /\ m.highestStale = s.highestStale
  BY <1>1 DEF IsReplica
<1> HIDE DEF m
<1>6. IsReplica(s1) /\ s1.highestStale = m.highestStale
  BY <1>3, <1>5, ClockMergeType
<1>7. /\ \A k \in DOMAIN m.vectors :
            k \in DOMAIN s1.vectors /\ m.vectors[k].clock <= s1.vectors[k].clock
      /\ \A k \in DOMAIN va :
            \/ va[k] <= m.highestStale
            \/ k \in DOMAIN s1.vectors /\ va[k] <= s1.vectors[k].clock
  BY <1>3, <1>5, ClockMergeKeeps
<1> HIDE DEF s1
<1>8. IsReplica(r)
  BY <1>4, <1>6, ClockMergeType
<1>9. /\ \A k \in DOMAIN s1.vectors :
            k \in DOMAIN r.vectors /\ s1.vectors[k].clock <= r.vectors[k].clock
      /\ \A k \in DOMAIN vd :
            \/ vd[k] <= s1.highestStale
            \/ k \in DOMAIN r.vectors /\ vd[k] <= r.vectors[k].clock
  BY <1>4, <1>6, ClockMergeKeeps
<1> HIDE DEF r
<1>10. /\ \A k \in DOMAIN s.vectors : s.vectors[k].clock \in Nat
       /\ \A k \in DOMAIN s1.vectors : s1.vectors[k].clock \in Nat
       /\ \A k \in DOMAIN r.vectors : r.vectors[k].clock \in Nat
       /\ \A k \in DOMAIN a : a[k].Vector \in Nat
  BY <1>6, <1>8 DEF IsReplica, IsMapOf, VectorBucket, Bucket
<1>11. \A k \in DOMAIN s.vectors :
          k \in DOMAIN r.vectors /\ s.vectors[k].clock <= r.vectors[k].clock
  BY <1>5, <1>7, <1>9, <1>10
<1>12. \A k \in DOMAIN a : \/ a[k].Vector <= s.highestStale
                           \/ k \in DOMAIN r.vectors /\ a[k].Vector <= r.vectors[k].clock
  BY <1>3, <1>5, <1>7, <1>9, <1>10
<1>13. \A k \in DOMAIN d : \/ d[k].Vector <= s.highestStale
                           \/ k \in DOMAIN r.vectors /\ d[k].Vector <= r.vectors[k].clock
  BY <1>4, <1>5, <1>6, <1>9
<1> QED
  BY <1>2, <1>11, <1>12, <1>13

\* Prune: the same keys leave the clock and both maps, and highestStale covers
\* their clocks.
LEMMA PruneDrops ==
    ASSUME NEW s, IsReplica(s)
    PROVE  LET r == Prune(s)
           IN  /\ GetStale(s) \subseteq DOMAIN s.vectors
               /\ DOMAIN r.vectors = DOMAIN s.vectors \ GetStale(s)
               /\ DOMAIN r.add = DOMAIN s.add \ GetStale(s)
               /\ DOMAIN r.remove = DOMAIN s.remove \ GetStale(s)
               /\ s.highestStale <= r.highestStale
               /\ \A k \in GetStale(s) : s.vectors[k].clock <= r.highestStale
<1> DEFINE stale == GetStale(s)
           C == {s.vectors[k].clock : k \in stale}
           h == MaxOf({s.highestStale} \cup C)
           r == Prune(s)
<1>1. /\ IsFiniteSet(DOMAIN s.vectors) /\ s.highestStale \in Nat
      /\ \A k \in DOMAIN s.vectors : s.vectors[k].clock \in Nat
  BY NodeAssumption, FS_Subset DEF IsReplica, IsMapOf, VectorBucket
<1>2. stale \subseteq DOMAIN s.vectors /\ IsFiniteSet(stale)
  BY <1>1, FS_Subset DEF GetStale
<1>3. r = [vectors |-> Without(s.vectors, stale), highestStale |-> h,
           add |-> Without(s.add, stale), remove |-> Without(s.remove, stale)]
  BY DEF Prune
<1> HIDE DEF stale
<1>4. s.highestStale <= h /\ \A c \in C : c <= h
  <2> DEFINE clockOf == [k \in stale |-> s.vectors[k].clock]
  <2>1. clockOf \in Surjection(stale, C)
    BY DEF Surjection
  <2>2. IsFiniteSet(C)
    BY <1>2, <2>1, FS_Surjection
  <2>3. C \in SUBSET Nat
    BY <1>1, <1>2
  <2> HIDE DEF C
  <2>4. IsFiniteSet({s.highestStale} \cup C)
    BY <2>2, FS_Singleton, FS_Union
  <2> QED
    BY <1>1, <2>3, <2>4, MaxOfBounds
<1>5. \A k \in stale : s.vectors[k].clock <= h
  BY <1>4
<1> HIDE DEF C, h, r
<1>6. /\ r.vectors = Without(s.vectors, stale) /\ r.highestStale = h
      /\ r.add = Without(s.add, stale) /\ r.remove = Without(s.remove, stale)
  BY <1>3
<1>7. \A f : DOMAIN Without(f, stale) = DOMAIN f \ stale
  BY DEF Without, Restrict
<1> QED
  BY <1>2, <1>4, <1>5, <1>6, <1>7 DEF r, stale

\* The zero replica of a new store.
LEMMA NewTwoPhaseMapType == IsReplica(NewTwoPhaseMap)
<1>1. IsMapOf(EmptyMap, Node, VectorBucket) /\ IsMapOf(EmptyMap, Node, Bucket)
  BY EmptyMapType
<1> QED
  BY <1>1 DEF NewTwoPhaseMap, IsReplica

\* Hashes are machine words.
LEMMA WrapType ==
    ASSUME NEW x
    PROVE  Wrap(x) \in Nat
BY KeyHashAssumption DEF Wrap
=============================================================================
