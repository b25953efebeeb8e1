--------------------------- MODULE ConnClusterProofs ---------------------------
(***************************************************************************)
(* ConnCluster for lists, clusters and branches of every size.              *)
(***************************************************************************)
EXTENDS ConnCluster, FiniteSetTheorems, TLAPS

\* A probe is between the bounds, so it is an index of the list.
LEMMA MidIsBetween ==
    ASSUME NEW l \in Int, NEW h \in Int, l <= h
    PROVE  /\ (l + h) \div 2 \in Int
           /\ l <= (l + h) \div 2
           /\ (l + h) \div 2 <= h
OBVIOUS

\* RandomSubsetOfLength returns a subset, and an empty one only of an empty set.
LEMMA SubsetChosen ==
    ASSUME NEW n \in Nat, NEW S \in SUBSET (0 .. n-1), NEW num \in Nat \ {0},
           NEW T \in RandomSubsetOfLength(S, num)
    PROVE  T \in SUBSET S /\ (S # {} => T # {})
<1> DEFINE k == Min({num, Cardinality(S)})
<1>1. T \in SUBSET S /\ Cardinality(T) = k
  BY DEF RandomSubsetOfLength, kSubset
<1>2. IsFiniteSet(0 .. n-1)
  BY FS_Interval
<1>3. IsFiniteSet(S)
  BY <1>2, FS_Subset
<1>4. ASSUME S # {} PROVE T # {}
  <2>1. Cardinality(S) \in Nat /\ Cardinality(S) # 0
    BY <1>3, <1>4, FS_CardinalityType, FS_EmptySet
  <2>2. k \in {num, Cardinality(S)}
    <3> DEFINE c == Cardinality(S)
    <3>1. \E x \in {num, c} : \A y \in {num, c} : x =< y
      <4> c \in Nat BY <2>1
      <4> HIDE DEF c
      <4>1. CASE num <= c BY <4>1
      <4>2. CASE ~(num <= c) BY <4>2
      <4> QED BY <4>1, <4>2
    <3> QED BY <3>1 DEF Min
  <2>3. k # 0
    BY <2>1, <2>2
  <2> QED BY <1>1, <2>3, FS_EmptySet
<1> QED BY <1>1, <1>4

\* The first step of both facts.
LEMMA SearchInit == Init => TypeOK /\ SearchInOrder
BY ClusterAssumption
   DEF Init, TypeOK, SearchInOrder, Narrowed, NeighboursNearest,
       SomebodyToContact, Caller

\* A round of the loop keeps the place of self between the bounds.
LEMMA ProbeKeepsOrder ==
    TypeOK /\ SearchInOrder /\ Probe => TypeOK' /\ SearchInOrder'
<1> SUFFICES ASSUME TypeOK, SearchInOrder, Probe
             PROVE  TypeOK' /\ SearchInOrder'
  OBVIOUS
<1> USE ClusterAssumption
<1>1. /\ len \in Nat /\ lower \in Int /\ higher \in Int /\ groupSize \in Nat
      /\ 0 <= lower /\ higher <= len - 1 /\ lower <= higher + 1
      /\ groupSize >= 1 /\ selfId \in Int
      /\ \A i \in 0 .. len-1 : global[i] \in Int
      /\ \A i, j \in 0 .. len-1 : i < j => global[i] < global[j]
  <2>1. /\ len \in Nat /\ lower \in Int /\ higher \in Int /\ groupSize \in Nat
        /\ 0 <= lower /\ higher <= len - 1 /\ lower <= higher + 1
        /\ groupSize >= 1 /\ selfId \in Int
    BY DEF TypeOK, SearchInOrder, Narrowed
  <2>2. global \in SortedLists(len)
    BY DEF TypeOK
  <2>3. /\ global \in [0 .. len-1 -> Id]
        /\ \A i, j \in 0 .. len-1 : i < j => global[i] < global[j]
    BY <2>2 DEF SortedLists
  <2>4. \A i \in 0 .. len-1 : global[i] \in Int
    BY <2>3
  <2> QED BY <2>1, <2>3, <2>4
<1>2. lower < higher
  BY <1>1 DEF Probe, TooLarge
<1>3. /\ Mid \in Int /\ lower <= Mid /\ Mid <= higher
  BY <1>1, <1>2, MidIsBetween DEF Mid
<1>4. Mid < higher
  BY <1>1, <1>2 DEF Mid
<1>5. UNCHANGED <<len, global, selfId, caller, groupSize, pc, neighbours, gossip>>
  BY DEF Probe, call
<1>6. \/ global[Mid] < selfId /\ lower' = Mid + 1 /\ higher' = higher
      \/ global[Mid] > selfId /\ higher' = Mid - 1 /\ lower' = lower
  BY DEF Probe
<1>7. Mid \in 0 .. len-1
  BY <1>1, <1>3
<1>8. TypeOK'
  BY <1>1, <1>3, <1>5, <1>6, <1>7 DEF TypeOK
<1>9. Narrowed'
  <2> DEFINE m == Mid
  <2>1. \A i \in 0 .. len-1 : /\ i < lower => global[i] < selfId
                              /\ i > higher => global[i] > selfId
    BY DEF SearchInOrder, Narrowed
  <2>2. m \in 0 .. len-1 /\ lower <= m /\ m < higher
    BY <1>3, <1>4, <1>7
  <2>3. CASE global[m] < selfId /\ lower' = m + 1 /\ higher' = higher
    <3> HIDE DEF m
    <3>1. \A i \in 0 .. len-1 : i < m + 1 => global[i] < selfId
      BY <1>1, <2>2, <2>3
    <3> QED BY <1>1, <1>5, <2>1, <2>2, <2>3, <3>1 DEF Narrowed
  <2>4. CASE global[m] > selfId /\ higher' = m - 1 /\ lower' = lower
    <3> HIDE DEF m
    <3>1. \A i \in 0 .. len-1 : i > m - 1 => global[i] > selfId
      BY <1>1, <2>2, <2>4
    <3> QED BY <1>1, <1>5, <2>1, <2>2, <2>4, <3>1 DEF Narrowed
  <2> QED BY <1>6, <2>3, <2>4
<1>10. pc' \in {"neighbours", "inter"}
  BY <1>5 DEF Probe
<1>11. (pc = "inter" => len > ClusterSize)'
  BY <1>5 DEF SearchInOrder
<1>12. NeighboursNearest' /\ SomebodyToContact'
  BY <1>5 DEF SearchInOrder, NeighboursNearest, SomebodyToContact, Listed
<1> QED BY <1>8, <1>9, <1>10, <1>11, <1>12 DEF SearchInOrder

\* The group GetNeighbours returns starts at the lower bound and reaches the
\* upper one.
LEMMA NeighboursKeepOrder ==
    TypeOK /\ SearchInOrder /\ GetNeighbours => TypeOK' /\ SearchInOrder'
<1> SUFFICES ASSUME TypeOK, SearchInOrder, GetNeighbours
             PROVE  TypeOK' /\ SearchInOrder'
  OBVIOUS
<1> USE ClusterAssumption
<1>1. /\ len \in Nat /\ lower \in Int /\ higher \in Int /\ groupSize \in Nat
      /\ 0 <= lower /\ higher <= len - 1 /\ lower <= higher + 1
      /\ groupSize >= 1
      /\ len > 0 => lower < len
      /\ \A i \in 0 .. len-1 : /\ i < lower => global[i] < selfId
                               /\ i > higher => global[i] > selfId
  BY DEF TypeOK, SearchInOrder, Narrowed
<1>2. /\ UNCHANGED <<len, global, selfId, caller, lower, higher, groupSize, gossip>>
      /\ neighbours' = {i \in 0 .. len-1 : lower <= i /\ i < lower + groupSize}
      /\ pc' = "choose"
      /\ SearchOver
  BY DEF GetNeighbours, call
<1>3. TypeOK'
  BY <1>2 DEF TypeOK
<1>4. Narrowed'
  BY <1>2 DEF SearchInOrder, Narrowed
<1>5. (pc = "choose" /\ len > 0 => lower \in neighbours)'
  BY <1>1, <1>2
<1>6. NeighboursNearest'
  <2> SUFFICES ASSUME ~Listed,
                      NEW i \in 0 .. len-1, i \notin neighbours'
               PROVE  \/ global[i] < selfId /\ \A j \in neighbours' : i < j
                      \/ global[i] > selfId /\ \A j \in neighbours' : j < i
    BY <1>2 DEF NeighboursNearest, Listed
  <2>1. ~TooLarge
    <3>1. CASE lower <= higher
      <4>1. Mid \in 0 .. len-1
        BY <1>1, <3>1, MidIsBetween DEF Mid
      <4> QED BY <1>2, <4>1 DEF SearchOver, Listed
    <3>2. CASE lower = higher + 1
      BY <1>1, <3>2 DEF TooLarge
    <3> QED BY <1>1, <3>1, <3>2
  <2>2. higher + 1 <= lower + groupSize
    BY <1>1, <2>1 DEF TooLarge
  <2>3. \A j \in neighbours' : j \in Int /\ lower <= j /\ j < lower + groupSize
    BY <1>2
  <2>4. i < lower \/ lower + groupSize <= i
    BY <1>1, <1>2
  <2> QED BY <1>1, <2>2, <2>3, <2>4
<1> QED BY <1>2, <1>3, <1>4, <1>5, <1>6 DEF SearchInOrder, SomebodyToContact

\* The three choices are not empty, and a second search starts afresh.
LEMMA ChoiceKeepsOrder ==
    TypeOK /\ SearchInOrder /\ (ChooseClient \/ ChoosePull \/ ChoosePeer)
        => TypeOK' /\ SearchInOrder'
<1> SUFFICES ASSUME TypeOK, SearchInOrder,
                    ChooseClient \/ ChoosePull \/ ChoosePeer
             PROVE  TypeOK' /\ SearchInOrder'
  OBVIOUS
<1> USE ClusterAssumption
<1>1. /\ len \in Nat /\ lower \in Int
      /\ neighbours \in SUBSET (0 .. len-1)
      /\ pc = "choose"
      /\ len > 0 => lower \in neighbours
  BY DEF TypeOK, SearchInOrder, ChooseClient, ChoosePull, ChoosePeer
<1>2. UNCHANGED <<len, global, selfId, caller, neighbours>>
  BY DEF ChooseClient, ChoosePull, ChoosePeer, call
<1>3. gossip' \in SUBSET neighbours /\ (len > 0 => gossip' # {})
  <2>1. CASE ChooseClient
    BY <1>1, <2>1 DEF ChooseClient
  <2>2. CASE ChoosePull
    <3>1. gossip' \in RandomSubsetOfLength(neighbours, 1)
      BY <2>2 DEF ChoosePull
    <3>2. gossip' \in SUBSET neighbours /\ (neighbours # {} => gossip' # {})
      BY <1>1, <3>1, SubsetChosen
    <3> QED BY <1>1, <3>2
  <2>3. CASE ChoosePeer
    <3>1. gossip' \in RandomSubsetOfLength(neighbours, Branch)
      BY <2>3 DEF ChoosePeer
    <3>2. gossip' \in SUBSET neighbours /\ (neighbours # {} => gossip' # {})
      BY <1>1, <3>1, SubsetChosen
    <3> QED BY <1>1, <3>2
  <2> QED BY <2>1, <2>2, <2>3
<1>4. \/ pc' = "done" /\ UNCHANGED <<lower, higher, groupSize>>
      \/ /\ pc' = "inter" /\ len > ClusterSize
         /\ lower' = 0 /\ higher' = len - 1 /\ groupSize' = 1
  BY DEF ChooseClient, ChoosePull, ChoosePeer
<1>5. TypeOK'
  BY <1>1, <1>2, <1>3, <1>4 DEF TypeOK
<1>6. Narrowed'
  <2>1. CASE UNCHANGED <<lower, higher>>
    BY <1>2, <2>1 DEF SearchInOrder, Narrowed
  <2>2. CASE lower' = 0 /\ higher' = len - 1
    BY <1>1, <1>2, <2>2 DEF Narrowed
  <2> QED BY <1>4, <2>1, <2>2
<1>7. NeighboursNearest'
  BY <1>1, <1>2 DEF SearchInOrder, NeighboursNearest, Listed
<1> QED BY <1>2, <1>3, <1>4, <1>5, <1>6, <1>7 DEF SearchInOrder, SomebodyToContact

\* GetInterCluster's index is one of the list.
LEMMA InterKeepsOrder ==
    TypeOK /\ SearchInOrder /\ GetInterCluster => TypeOK' /\ SearchInOrder'
<1> SUFFICES ASSUME TypeOK, SearchInOrder, GetInterCluster
             PROVE  TypeOK' /\ SearchInOrder'
  OBVIOUS
<1> USE ClusterAssumption
<1>1. /\ UNCHANGED <<len, global, selfId, caller, lower, higher, groupSize, neighbours>>
      /\ pc = "inter" /\ pc' = "done"
  BY DEF GetInterCluster, call
<1>2. PICK last \in gossip, r \in {1, 2} :
        gossip' = (gossip \ {last}) \cup {InterIndex(r)}
  BY DEF GetInterCluster
<1>3. len \in Nat /\ len > 0 /\ lower \in Int /\ gossip \in SUBSET (0 .. len-1)
  BY <1>1 DEF TypeOK, SearchInOrder
<1>4. InterIndex(r) \in 0 .. len-1
  <2>1. 2 * lower + r * ClusterSize \in Int
    BY <1>3
  <2> QED BY <1>3, <2>1 DEF InterIndex
<1>5. TypeOK'
  BY <1>1, <1>2, <1>3, <1>4 DEF TypeOK
<1>6. Narrowed' /\ NeighboursNearest'
  BY <1>1 DEF SearchInOrder, Narrowed, NeighboursNearest, Listed
<1>7. SomebodyToContact'
  BY <1>2 DEF SomebodyToContact
<1> QED BY <1>1, <1>5, <1>6, <1>7 DEF SearchInOrder

\* binarySearch and its callers: for every sorted list and cluster size the
\* bounds stay within the list and around the place of the key.
THEOREM ClusterInOrder == Spec => [](TypeOK /\ SearchInOrder)
<1>1. Init => TypeOK /\ SearchInOrder
  BY SearchInit
<1>2. TypeOK /\ SearchInOrder /\ [Next]_vars => TypeOK' /\ SearchInOrder'
  <2>1. ASSUME TypeOK, SearchInOrder, UNCHANGED vars
        PROVE  TypeOK' /\ SearchInOrder'
    BY <2>1 DEF vars, call, TypeOK, SearchInOrder, Narrowed, NeighboursNearest,
                SomebodyToContact, Listed
  <2> QED
    BY <2>1, ProbeKeepsOrder, NeighboursKeepOrder, ChoiceKeepsOrder,
       InterKeepsOrder DEF Next
<1> QED BY <1>1, <1>2, PTL DEF Spec

\* GetNeighbours returns the keys nearest in the alphabet to a node that is
\* not in the list, in a mesh of any size.
THEOREM GroupsAreNearest == Spec => []NeighboursNearest
<1>1. SearchInOrder => NeighboursNearest
  BY DEF SearchInOrder
<1> QED BY <1>1, ClusterInOrder, PTL

\* Sync and Pull never index or slice an empty choice while there are peers.
THEOREM ChoiceIsNotEmpty == Spec => []SomebodyToContact
<1>1. SearchInOrder => SomebodyToContact
  BY DEF SearchInOrder
<1> QED BY <1>1, ClusterInOrder, PTL

\* Type correctness: the bounds of the searches and the nodes chosen are
\* indices of the list, so no slice or index expression can be out of range.
THEOREM ClusterTypes == Spec => []TypeOK
<1> QED BY ClusterInOrder, PTL

\* Every probe of binarySearch makes the window strictly smaller and never
\* smaller than empty, so no search probes forever.
ProbesShrinkWindow ==
    [][Probe => /\ higher' - lower' < higher - lower
                /\ 0 <= higher' + 1 - lower']_vars

\* binarySearch terminates on every sorted list: what remains to be searched is
\* a natural number that each round of the loop decreases.
THEOREM SearchesTerminate == Spec => ProbesShrinkWindow
<1>1. ASSUME TypeOK, SearchInOrder, Probe
      PROVE  higher' - lower' < higher - lower /\ 0 <= higher' + 1 - lower'
  <2>1. /\ lower \in Int /\ higher \in Int /\ groupSize \in Nat \ {0}
    BY <1>1, ClusterAssumption DEF TypeOK
  <2>2. lower < higher
    BY <1>1, <2>1 DEF Probe, TooLarge
  <2>3. Mid \in Int /\ lower <= Mid /\ Mid <= higher
    BY <2>1, <2>2, MidIsBetween DEF Mid
  <2>4. \/ lower' = Mid + 1 /\ higher' = higher
        \/ higher' = Mid - 1 /\ lower' = lower
    BY <1>1 DEF Probe
  <2> QED BY <2>1, <2>2, <2>3, <2>4
<1>2. TypeOK /\ SearchInOrder
        => [Probe => /\ higher' - lower' < higher - lower
                     /\ 0 <= higher' + 1 - lower']_vars
  BY <1>1
<1> QED BY <1>2, ClusterInOrder, PTL DEF ProbesShrinkWindow
=============================================================================
