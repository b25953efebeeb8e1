------------------------------ MODULE ConnCluster ------------------------------
(***************************************************************************)
(* Whom a node gossips with when the mesh is larger than one cluster.  Sync *)
(* asks the cluster (pkg/conn/cluster.go) for its neighbours.  A client     *)
(* takes the first two, a peer a random subset (pkg/lib/random.go) of which *)
(* it may replace the last by a node of another cluster.  Both have taken   *)
(* themselves out of the list; Pull has not, and picks one neighbour.       *)
(*                                                                         *)
(* Public keys are integers, ordered as the strings are.  A slice is a      *)
(* function on 0 .. len-1, so that indices are those of the code.  Each     *)
(* behaviour is one call, whose searches run probe by probe.                *)
(***************************************************************************)
EXTENDS Integers, FiniteSets, FiniteSetsExt

CONSTANTS
    Id,           \* public keys
    MaxLen,       \* bound on the number of keys in the list
    ClusterSize,  \* ConnClusterImpl.clusterSize
    Branch        \* nodes contacted by one Sync

ASSUME ClusterAssumption ==
    /\ Id \subseteq Int
    /\ MaxLen \in Nat
    /\ ClusterSize \in Nat \ {0}
    /\ Branch \in Nat \ {0}

VARIABLES
    len,         \* len(global)
    global,      \* the list of keys, sorted
    selfId,      \* the key looked for
    caller,      \* who asks: Sync of a peer, Sync of a client, or Pull
    lower,       \* the bounds of binarySearch
    higher,
    groupSize,   \* its argument
    pc,          \* the search that runs, or what comes after it
    neighbours,  \* indices of what GetNeighbours returned
    gossip       \* indices of the nodes to contact

call == <<len, global, selfId, caller>>
vars == <<call, lower, higher, groupSize, pc, neighbours, gossip>>
-----------------------------------------------------------------------------
Caller == {"peer", "client", "pull"}

\* slices.Sort of n distinct keys
SortedLists(n) ==
    {g \in [0 .. n-1 -> Id] : \A i, j \in 0 .. n-1 : i < j => g[i] < g[j]}

Listed == \E i \in 0 .. len-1 : global[i] = selfId

Init ==
    /\ len \in 0 .. MaxLen
    /\ global \in SortedLists(len)
    /\ selfId \in Id
    /\ caller \in Caller
    /\ caller # "pull" => ~Listed
    /\ lower = 0
    /\ higher = len - 1
    /\ groupSize = ClusterSize
    /\ pc = "neighbours"
    /\ neighbours = {}
    /\ gossip = {}

Mid == (lower + higher) \div 2

\* Mutant: the search goes on until the window is empty, whatever the group.
WindowLeft == lower <= higher

TooLarge == (higher + 1) - lower > groupSize

\* Mutant: the probed key is kept in the upper half.
ProbeKeepsMid ==
    /\ pc \in {"neighbours", "inter"}
    /\ TooLarge
    /\ IF global[Mid] < selfId
       THEN lower' = Mid /\ UNCHANGED higher
       ELSE global[Mid] > selfId /\ higher' = Mid - 1 /\ UNCHANGED lower
    /\ UNCHANGED <<call, groupSize, pc, neighbours, gossip>>

\* Mutant: the two halves are mixed up.
ProbeOtherHalf ==
    /\ pc \in {"neighbours", "inter"}
    /\ TooLarge
    /\ IF global[Mid] > selfId
       THEN lower' = Mid + 1 /\ UNCHANGED higher
       ELSE global[Mid] < selfId /\ higher' = Mid - 1 /\ UNCHANGED lower
    /\ UNCHANGED <<call, groupSize, pc, neighbours, gossip>>

\* One round of the loop of binarySearch.
Probe ==
    /\ pc \in {"neighbours", "inter"}
    /\ TooLarge
    /\ \/ /\ global[Mid] < selfId
          /\ lower' = Mid + 1
          /\ UNCHANGED higher
       \/ /\ global[Mid] > selfId
          /\ higher' = Mid - 1
          /\ UNCHANGED lower
    /\ UNCHANGED <<call, groupSize, pc, neighbours, gossip>>

\* The group is small enough, or the key itself was met.
SearchOver == TooLarge => global[Mid] = selfId

\* Mutant: the end of the slice is not capped by the length of the list.
NeighboursUncapped ==
    /\ pc = "neighbours"
    /\ SearchOver
    /\ neighbours' = lower .. lower + groupSize - 1
    /\ pc' = "choose"
    /\ UNCHANGED <<call, lower, higher, groupSize, gossip>>

\* GetNeighbours returns global[lower:min(lower+clusterSize, len)].
GetNeighbours ==
    /\ pc = "neighbours"
    /\ SearchOver
    /\ neighbours' = {i \in 0 .. len-1 : lower <= i /\ i < lower + groupSize}
    /\ pc' = "choose"
    /\ UNCHANGED <<call, lower, higher, groupSize, gossip>>

\* RandomSubsetOfLength
RandomSubsetOfLength(S, num) == kSubset(Min({num, Cardinality(S)}), S)

\* A client with more than one peer takes the first two neighbours.
ChooseClient ==
    /\ pc = "choose"
    /\ caller = "client" /\ len > 1
    /\ gossip' = {i \in neighbours : i < lower + 2}
    /\ pc' = "done"
    /\ UNCHANGED <<call, lower, higher, groupSize, neighbours>>

ChoosePull ==
    /\ pc = "choose"
    /\ caller = "pull"
    /\ gossip' \in RandomSubsetOfLength(neighbours, 1)
    /\ pc' = "done"
    /\ UNCHANGED <<call, lower, higher, groupSize, neighbours>>

\* A peer takes a random subset, and may go on to GetInterCluster.
ChoosePeer ==
    /\ pc = "choose"
    /\ caller = "peer" \/ (caller = "client" /\ len <= 1)
    /\ gossip' \in RandomSubsetOfLength(neighbours, Branch)
    /\ \/ /\ pc' = "done"
          /\ UNCHANGED <<lower, higher, groupSize>>
       \/ /\ len > ClusterSize
          /\ pc' = "inter"
          /\ lower' = 0
          /\ higher' = len - 1
          /\ groupSize' = 1
    /\ UNCHANGED <<call, neighbours>>

\* cluster is considered a heap
InterIndex(randomCluster) == (2 * lower + randomCluster * ClusterSize) % len

\* GetInterCluster replaces the last node chosen; the order of the subset is
\* random, so any of them may be the last.
GetInterCluster ==
    /\ pc = "inter"
    /\ SearchOver
    /\ \E last \in gossip, randomCluster \in {1, 2} :
        gossip' = (gossip \ {last}) \cup {InterIndex(randomCluster)}
    /\ pc' = "done"
    /\ UNCHANGED <<call, lower, higher, groupSize, neighbours>>

Next ==
    \/ Probe \/ GetNeighbours
    \/ ChooseClient \/ ChoosePull \/ ChoosePeer
    \/ GetInterCluster

Spec == Init /\ [][Next]_vars

\* The call is one goroutine's straight-line code.
FairSpec == Spec /\ WF_vars(Next)
-----------------------------------------------------------------------------
(* Properties *)

\* Type correctness of the call and its searches.
TypeOK ==
    /\ len \in Nat
    /\ global \in SortedLists(len)
    /\ selfId \in Id
    /\ caller \in Caller
    /\ lower \in 0 .. len
    /\ higher \in -1 .. len-1
    /\ groupSize \in {1, ClusterSize}
    /\ pc \in {"neighbours", "choose", "inter", "done"}
    /\ neighbours \in SUBSET (0 .. len-1)
    /\ gossip \in SUBSET (0 .. len-1)

\* binarySearch: what was cut off on either side is on the right side of self,
\* and while there is a list the lower bound is an index of it.
Narrowed ==
    /\ len > 0 => lower < len
    /\ lower <= higher + 1
    /\ \A i \in 0 .. len-1 : /\ i < lower => global[i] < selfId
                             /\ i > higher => global[i] > selfId

\* GetNeighbours: "just the ones nearest to you alphabetically".  A node that
\* is not in the list has its place within or at an end of its group: everyone
\* before the group is smaller and everyone after it is larger.
NeighboursNearest ==
    pc # "neighbours" /\ ~Listed =>
        \A i \in (0 .. len-1) \ neighbours :
            \/ global[i] < selfId /\ \A j \in neighbours : i < j
            \/ global[i] > selfId /\ \A j \in neighbours : j < i

\* Sync indexes the last node chosen and slices the first two: whenever there
\* are peers the choice is not empty.
SomebodyToContact == pc \in {"inter", "done"} /\ len > 0 => gossip # {}

\* Why: besides what a search keeps narrowed down, the group starts at the
\* lower bound, and another cluster is only sought in a larger mesh.
SearchInOrder ==
    /\ Narrowed
    /\ pc = "choose" /\ len > 0 => lower \in neighbours
    /\ pc = "inter" => len > ClusterSize
    /\ NeighboursNearest
    /\ SomebodyToContact

\* The searches end and the call returns.
CallReturns == <>(pc = "done")
=============================================================================
