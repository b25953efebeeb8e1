-------------------------------- MODULE Daemon --------------------------------
(***************************************************************************)
(* The goroutines of one daemon around the gossip: the timer's SyncMeshes  *)
(* with one goroutine per mesh (pkg/sync/syncer.go) and what these share   *)
(* without a common lock: the infection counter, the channel of results    *)
(* and the connection manager (pkg/conn).  A session is one step here;     *)
(* MeshSync is about what happens inside it.                               *)
(***************************************************************************)
EXTENDS Integers, Sequences, FiniteSets

CONSTANTS
    Mesh,            \* the meshes of the daemon, and the goroutines that sync them
    Host,            \* the endpoints of other daemons
    HostOf,          \* HostOf[m]: where the peer is that Sync picks in mesh m, or
    NoPeer,          \* ... this, when the daemon is alone in the mesh
    InfectionCount,  \* configuration of that name
    MaxChanges,      \* bound on the changes that come from outside Sync
    MaxFailures      \* bound on failed sessions and dials

\* Connections.  The name of one that nobody refers to any more is used again,
\* so a name for each goroutine and each host is enough.
None == 0
Conn == 1..Cardinality(Mesh) + Cardinality(Host)

ASSUME DaemonAssumption ==
    /\ IsFiniteSet(Mesh) /\ IsFiniteSet(Host)
    /\ HostOf \in [Mesh -> Host \cup {NoPeer}] /\ NoPeer \notin Host
    /\ InfectionCount \in Nat \ {0}
    /\ {MaxChanges, MaxFailures} \subseteq Nat

VARIABLES
    changed,     \* meshes whose HasChanges is true
    dirty,       \* meshes that the WireGuard devices are out of date with,
    missed,      \* ... and those of them that an ApplyConfig has failed on
    round,       \* the meshes of the SyncMeshes call that runs, or {}
    results,     \* the channel `changes'
    infection,   \* SyncerImpl.infectionCount
    pc, local,   \* per goroutine: its next step and its variables
    cache,       \* clientConnections: per host a connection or None
    open,        \* connections not closed
    changes, failures   \* counters for the bounds

conns == <<cache, open>>
vars == <<changed, dirty, missed, round, results, infection,
          pc, local, conns, changes, failures>>

Idle == [conn |-> None, ok |-> FALSE, seen |-> 0, pull |-> FALSE]

TypeOK ==
    /\ changed \subseteq Mesh /\ dirty \subseteq Mesh /\ missed \subseteq dirty
    /\ round \subseteq Mesh
    /\ results \in Seq(BOOLEAN) /\ Len(results) <= Cardinality(round)
    /\ infection \in 0..InfectionCount + Cardinality(Mesh)
    /\ pc \in [Mesh -> {"idle", "begin", "lookup", "dial", "put", "session", "count", "set",
                          "recount", "reset", "save", "changes", "nochanges"}]
    /\ local \in [Mesh -> [conn : Conn \cup {None}, ok : BOOLEAN, pull : BOOLEAN,
                             seen : 0..InfectionCount + Cardinality(Mesh)]]
    /\ cache \in [Host -> Conn \cup {None}] /\ open \subseteq Conn
    /\ changes \in 0..MaxChanges /\ failures \in 0..MaxFailures

Goto(t, step) == pc' = [pc EXCEPT ![t] = step]
Return(t, hasChanges) ==
    /\ Goto(t, IF hasChanges THEN "changes" ELSE "nochanges")
    /\ local' = [local EXCEPT ![t] = Idle]

\* The stores of these meshes change.
Changed(ms) ==
    /\ changed' = changed \cup ms
    /\ dirty' = dirty \cup ms
    /\ missed' = missed \ ms

---------------------------------------------------------------------------
(* The connection manager.  Every critical section is one step. *)

\* GetConnection, and the check at the beginning of AddConnection.
GetConnection(t) ==
    /\ pc[t] = "lookup"
    /\ LET c == cache[HostOf[t]]
       IN  /\ local' = [local EXCEPT ![t].conn = c]
           /\ Goto(t, IF c = None THEN "dial" ELSE "session")
    /\ UNCHANGED <<changed, dirty, missed, round, results, infection, conns, changes, failures>>

\* connFactory, outside the lock: NewWgCtrlConnection dials without blocking.
Dial(t) ==
    /\ pc[t] = "dial"
    /\ \/ /\ LET used == {cache[h] : h \in Host} \cup {local[u].conn : u \in Mesh}
                 new == CHOOSE c \in Conn : c \notin used
             IN  /\ open' = (open \cap used) \cup {new}
                 /\ local' = [local EXCEPT ![t].conn = new]
          /\ Goto(t, "put")
          /\ UNCHANGED failures
       \/ /\ failures < MaxFailures
          /\ failures' = failures + 1
          /\ IF local[t].pull THEN Return(t, FALSE) ELSE Goto(t, "count") /\ UNCHANGED local
          /\ UNCHANGED open
    /\ UNCHANGED <<changed, dirty, missed, round, results, infection, cache, changes>>

\* The end of AddConnection.
AddConnection(t) ==
    /\ pc[t] = "put"
    /\ cache' = [cache EXCEPT ![HostOf[t]] = local[t].conn]
    /\ Goto(t, "session")
    /\ UNCHANGED <<changed, dirty, missed, round, results, infection, local,
                   open, changes, failures>>

\* Mutant: the connection is closed and stays in the map.
RemoveConnectionKeeps(h) ==
    /\ open' = open \ {cache[h]}
    /\ UNCHANGED cache

\* RemoveConnection closes and forgets under the lock.
RemoveConnection(h) ==
    /\ open' = open \ {cache[h]}
    /\ cache' = [cache EXCEPT ![h] = None]

---------------------------------------------------------------------------
(* Sync *)

\* The beginning of Sync: nothing to do, or a pull, or gossip.  Without peers
\* there is nobody to pull from or to gossip with.
Sync(t) ==
    LET quiet == t \notin changed /\ infection = 0
    IN  \/ /\ quiet
           /\ Return(t, FALSE)
        \/ /\ ~quiet \/ HostOf[t] # NoPeer
           /\ Goto(t, IF HostOf[t] = NoPeer THEN "count" ELSE "lookup")
           /\ local' = [local EXCEPT ![t] = [Idle EXCEPT !.pull = quiet]]

\* A session that succeeds, perhaps with news for this daemon's store.
SessionEnds(t) ==
    /\ pc[t] = "session" /\ local[t].conn \in open
    /\ \/ UNCHANGED <<changed, dirty, missed, changes>>
       \/ /\ changes < MaxChanges
          /\ changes' = changes + 1
          /\ Changed({t})
    /\ IF local[t].pull
       THEN Return(t, t \in changed')
       ELSE /\ local' = [local EXCEPT ![t] = [Idle EXCEPT !.ok = TRUE]]
            /\ Goto(t, "count")
    /\ UNCHANGED <<round, results, infection, conns, failures>>

\* A session that fails: the connection was closed under it (Canceled, which
\* the error handler ignores), the peer is unavailable (it is marked and the
\* connection kept), or the deadline passed (the connection is removed).
SessionFails(t) ==
    /\ pc[t] = "session"
    /\ \/ /\ local[t].conn \notin open
          /\ UNCHANGED <<conns, failures>>
       \/ /\ failures < MaxFailures /\ failures' = failures + 1
          /\ UNCHANGED conns \/ RemoveConnection(HostOf[t])
    /\ IF local[t].pull
       THEN Return(t, FALSE)
       ELSE /\ local' = [local EXCEPT ![t] = Idle]
            /\ Goto(t, "count")
    /\ UNCHANGED <<changed, dirty, missed, round, results, infection, changes>>

\* Mutant: the counter is not kept above zero.
NextInfectionBelowZero(seen) == seen - 1

\* The next value of the infection counter, from the value read.
NextInfection(seen) == (InfectionCount + seen - 1) % InfectionCount

\* The counter is read and written without a lock, and after a failed round
\* incremented in the same way.
ReadInfection(t) ==
    /\ pc[t] \in {"count", "recount"}
    /\ local' = [local EXCEPT ![t].seen = infection]
    /\ Goto(t, IF pc[t] = "count" THEN "set" ELSE "reset")
    /\ UNCHANGED <<changed, dirty, missed, round, results, infection, conns, changes, failures>>

\* Mutant: after a failed round the counter is tried again, not the round.
WriteInfectionRetries(t) ==
    /\ pc[t] = "set"
    /\ infection' = NextInfection(local[t].seen)
    /\ Goto(t, IF local[t].ok THEN "save" ELSE "count")
    /\ local' = [local EXCEPT ![t].seen = 0]
    /\ UNCHANGED <<changed, dirty, missed, round, results, conns, changes, failures>>

WriteInfection(t) ==
    /\ \/ /\ pc[t] = "set"
          /\ infection' = NextInfection(local[t].seen)
          /\ Goto(t, IF local[t].ok THEN "save" ELSE "recount")
       \/ /\ pc[t] = "reset"
          /\ infection' = local[t].seen + 1
          /\ Goto(t, "save")
    /\ local' = [local EXCEPT ![t].seen = 0]
    /\ UNCHANGED <<changed, dirty, missed, round, results, conns, changes, failures>>

SaveChanges(t) ==
    /\ pc[t] = "save"
    /\ changed' = changed \ {t}
    /\ Return(t, TRUE)
    /\ UNCHANGED <<dirty, missed, round, results, infection, conns, changes, failures>>

---------------------------------------------------------------------------
(* SyncMeshes *)

\* The timer calls SyncMeshes, which starts a goroutine for each of the meshes
\* that have not been polled for SyncInterval.
StartSyncMeshes(polled) ==
    /\ round = {}
    /\ round' = polled
    /\ pc' = [t \in Mesh |-> IF t \in polled THEN "begin" ELSE pc[t]]
    /\ UNCHANGED <<changed, dirty, missed, results, infection, local, conns, changes, failures>>

StartGoroutine(t) ==
    /\ pc[t] = "begin"
    /\ Sync(t)
    /\ UNCHANGED <<changed, dirty, missed, round, results, infection, conns, changes, failures>>

\* Mutant: the goroutine started last is not counted.
ChannelCapacityLess == Cardinality(round) - 1

\* The capacity of the channel, made with the number of meshes to sync: nobody
\* receives before every goroutine is done.
ChannelCapacity == Cardinality(round)

\* It sends its result, once the channel has room, notes the time of the poll,
\* and is done.
SendResult(t) ==
    /\ pc[t] \in {"changes", "nochanges"}
    /\ Len(results) < ChannelCapacity
    /\ results' = Append(results, pc[t] = "changes")
    /\ Goto(t, "idle")
    /\ UNCHANGED <<changed, dirty, missed, round, infection, local, conns, changes, failures>>

\* Mutant: the division rounds down.
ResultsReadDown(n) == n \div 2

\* The loop compares its counter with the length of the channel it empties.
ResultsRead(n) == (n + 1) \div 2

\* Whether one of the results that are read reports a change.
HasChanges == \E i \in 1..ResultsRead(Len(results)) : results[i]

\* After wg.Wait: read results, update the routes (which may change a store),
\* and apply the configuration of all meshes if a change was reported.  An error
\* of ApplyConfig is logged and forgotten: SaveChanges has run, so it takes
\* another change, or what is left of the infection counter, to try again.
EndSyncMeshes ==
    /\ round # {} /\ Len(results) = Cardinality(round)
    /\ \E touched \in {{}} \cup {{m} : m \in Mesh} :
         /\ touched = {} \/ changes < MaxChanges
         /\ changes' = changes + Cardinality(touched)
         /\ changed' = changed \cup touched
         /\ \/ /\ ~HasChanges
               /\ dirty' = dirty \cup touched /\ missed' = missed \ touched
               /\ UNCHANGED failures
            \/ /\ HasChanges
               /\ dirty' = {} /\ missed' = {}
               /\ UNCHANGED failures
            \/ /\ HasChanges
               /\ failures < MaxFailures /\ failures' = failures + 1
               /\ dirty' = dirty \cup touched /\ missed' = dirty \cup touched
    /\ round' = {} /\ results' = <<>>
    /\ UNCHANGED <<infection, pc, local, conns>>

---------------------------------------------------------------------------
(* The rest of the daemon *)

\* An incoming session, a handler or a heartbeat changes the store.
ChangeStore(m) ==
    /\ changes < MaxChanges
    /\ changes' = changes + 1
    /\ Changed({m})
    /\ UNCHANGED <<round, results, infection, pc, local, conns, failures>>

---------------------------------------------------------------------------

Init ==
    /\ changed = {} /\ dirty = {} /\ missed = {} /\ round = {}
    /\ results = <<>> /\ infection = 0
    /\ pc = [t \in Mesh |-> "idle"]
    /\ local = [t \in Mesh |-> Idle]
    /\ cache = [h \in Host |-> None] /\ open = {}
    /\ changes = 0 /\ failures = 0

\* A step of a goroutine.
Step(t) ==
    \/ StartGoroutine(t)
    \/ GetConnection(t) \/ Dial(t) \/ AddConnection(t)
    \/ SessionEnds(t) \/ SessionFails(t)
    \/ ReadInfection(t) \/ WriteInfection(t) \/ SaveChanges(t)
    \/ SendResult(t)

Next ==
    \/ \E t \in Mesh : Step(t) \/ ChangeStore(t)
    \/ \E polled \in SUBSET Mesh \ {{}} : StartSyncMeshes(polled)
    \/ EndSyncMeshes

Spec == Init /\ [][Next]_vars

\* Goroutines are scheduled, sessions end by their deadline at the latest, the
\* timer ticks, and no mesh goes without a poll for ever.
Fairness ==
    /\ \A t \in Mesh :
        /\ WF_vars(Step(t))
        /\ SF_vars(\E polled \in SUBSET Mesh : t \in polled /\ StartSyncMeshes(polled))
    /\ WF_vars(EndSyncMeshes)

FairSpec == Spec /\ Fairness

---------------------------------------------------------------------------
(* Properties *)

\* The connection manager never has a closed connection for a host, however
\* the calls of the goroutines interleave (RemoveConnection closes and forgets
\* in one critical section, AddConnection dials outside of it).
CachedConnectionsOpen == \A h \in Host : cache[h] # None => cache[h] \in open

\* A goroutine of SyncMeshes that has its result does not have to wait for room in
\* the channel, which nobody empties before wg.Wait has returned: all that were
\* started could otherwise wait for each other.
SendersHaveRoom ==
    \A t \in Mesh : pc[t] \in {"changes", "nochanges"} => Len(results) < ChannelCapacity

\* A call of SyncMeshes ends: no goroutine blocks on the channel, on the
\* others, or on a connection, whatever fails.
SyncMeshesEnds == round # {} ~> round = {}

\* What changes in a mesh is at some time offered to ApplyConfig, and so on the
\* WireGuard devices unless that call fails: Sync "Returns true if there was
\* changes false otherwise", for SyncMeshes to act upon.  What a failed call left
\* out of date is offered again with the next change of any mesh.
ChangesOffered == dirty # missed ~> dirty = missed

\* So it is in a daemon that never has two meshes to poll at the same time: no
\* change that comes while a Sync runs, between SaveChanges and ApplyConfig, or
\* with a pull, is overlooked.  (With two meshes half of the results are not
\* read, see ResultsRead.)
ChangesOfferedOneByOne == [](Cardinality(round) <= 1) => ChangesOffered
=============================================================================
