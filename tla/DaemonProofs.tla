---------------------------- MODULE DaemonProofs ----------------------------
(***************************************************************************)
(* Proofs about the goroutines of one daemon, for any finite number of     *)
(* meshes and hosts, any infection count and any number of failures: the   *)
(* state is well typed (so the infection counter, which goroutines read    *)
(* and write without a lock, stays bounded), the connection manager holds  *)
(* no closed connection, no goroutine waits for room in the channel, and   *)
(* SyncMeshes reads the channel only when every goroutine it started is    *)
(* done.                                                                   *)
(***************************************************************************)
EXTENDS Daemon, FiniteSetTheorems, TLAPS

---------------------------------------------------------------------------
(* The inductive invariant *)

\* The goroutines of a round r that have sent their result.
Sent(p, r) == {t \in r : p[t] = "idle"}

\* The goroutines of a round that will not touch the infection counter again.
Counted(p, r) == {t \in r : p[t] \in {"save", "changes", "nochanges", "idle"}}

\* Every goroutine that runs is one of the round's, and the channel has one
\* result for each of the round's that has ended.
RoundInv ==
    /\ \A t \in Mesh : pc[t] # "idle" => t \in round
    /\ Len(results) = Cardinality(Sent(pc, round))

\* The counter is above InfectionCount - 1 only by the increments of failed
\* rounds.  A goroutine increments what it read after it had reduced the
\* counter itself, so it counts on from the goroutines of this round only.
InfectionInv ==
    /\ infection <= InfectionCount - 1 + Cardinality(Mesh)
    /\ \A t \in Mesh : local[t].seen <= InfectionCount - 1 + Cardinality(Mesh)
    /\ (\E t \in Mesh : pc[t] \in {"recount", "reset"})
          => infection <= InfectionCount - 1 + Cardinality(Counted(pc, round))
    /\ \A t \in Mesh : pc[t] = "reset"
          => local[t].seen <= InfectionCount - 1 + Cardinality(Counted(pc, round))

\* A connection is in the cache of one host at most, and one that has been
\* dialled and not yet put there is open and known to its goroutine alone.
ConnInv ==
    /\ \A t \in Mesh : pc[t] \in {"lookup", "dial", "put", "session"} => HostOf[t] \in Host
    /\ \A t \in Mesh : pc[t] = "dial" => local[t].conn = None
    /\ \A h \in Host : cache[h] # None => cache[h] \in open
    /\ \A g, h \in Host : cache[g] # None /\ cache[g] = cache[h] => g = h
    /\ \A t \in Mesh : pc[t] = "put" =>
          /\ local[t].conn # None /\ local[t].conn \in open
          /\ \A h \in Host : cache[h] # local[t].conn
          /\ \A u \in Mesh : u # t => local[u].conn # local[t].conn

DaemonInv == TypeOK /\ RoundInv /\ InfectionInv /\ ConnInv

---------------------------------------------------------------------------
(* Lemmas *)

\* The meshes are finitely many, and so are the connections: there is one for
\* every goroutine and every host.
LEMMA Sizes ==
    /\ IsFiniteSet(Mesh) /\ Cardinality(Mesh) \in Nat
    /\ IsFiniteSet(Host) /\ Cardinality(Host) \in Nat
    /\ IsFiniteSet(Conn) /\ Cardinality(Conn) = Cardinality(Mesh) + Cardinality(Host)
    /\ InfectionCount \in Nat /\ InfectionCount > 0
    /\ MaxChanges \in Nat /\ MaxFailures \in Nat
<1>1. /\ IsFiniteSet(Mesh) /\ IsFiniteSet(Host)
      /\ InfectionCount \in Nat /\ InfectionCount > 0
      /\ MaxChanges \in Nat /\ MaxFailures \in Nat
  BY DaemonAssumption
<1>2. Cardinality(Mesh) \in Nat /\ Cardinality(Host) \in Nat
  BY <1>1, FS_CardinalityType
<1>3. Cardinality(Mesh) + Cardinality(Host) \in Nat
  BY <1>2
<1>4. IsFiniteSet(Conn) /\ Cardinality(Conn) = Cardinality(Mesh) + Cardinality(Host)
  BY <1>3, FS_Interval DEF Conn
<1> QED BY <1>1, <1>2, <1>4

\* The goroutines of a round in some state are finitely many, and no more than
\* the meshes.
LEMMA RoundSizes ==
    ASSUME NEW p, NEW r \in SUBSET Mesh
    PROVE  /\ IsFiniteSet(r) /\ Cardinality(r) \in Nat
           /\ IsFiniteSet(Sent(p, r)) /\ Cardinality(Sent(p, r)) \in Nat
           /\ Cardinality(Sent(p, r)) <= Cardinality(r)
           /\ Cardinality(Sent(p, r)) = Cardinality(r) => Sent(p, r) = r
           /\ IsFiniteSet(Counted(p, r)) /\ Cardinality(Counted(p, r)) \in Nat
           /\ Cardinality(Counted(p, r)) <= Cardinality(Mesh)
<1>1. IsFiniteSet(r) /\ Cardinality(r) \in Nat
  BY Sizes, FS_Subset, FS_CardinalityType
<1>2. Sent(p, r) \in SUBSET r
  BY DEF Sent
<1>3. Counted(p, r) \in SUBSET Mesh
  BY DEF Counted
<1>4. /\ IsFiniteSet(Sent(p, r))
      /\ Cardinality(Sent(p, r)) <= Cardinality(r)
      /\ Cardinality(Sent(p, r)) = Cardinality(r) => Sent(p, r) = r
  BY <1>1, <1>2, FS_Subset
<1>5. IsFiniteSet(Counted(p, r)) /\ Cardinality(Counted(p, r)) <= Cardinality(Mesh)
  BY <1>3, Sizes, FS_Subset
<1> QED BY <1>1, <1>4, <1>5, FS_CardinalityType

\* A surjection's target is no larger than its source: the form in which the
\* number of values of a function is bounded.
LEMMA ValuesBound ==
    ASSUME NEW S, IsFiniteSet(S), NEW f, DOMAIN f = S, f \in [S -> {f[x] : x \in S}]
    PROVE  /\ IsFiniteSet({f[x] : x \in S})
           /\ Cardinality({f[x] : x \in S}) <= Cardinality(S)
<1>1. f \in Surjection(S, {f[x] : x \in S})
  BY DEF Surjection
<1> QED BY <1>1, FS_Surjection

\* There is a free name for the connection that a goroutine dials: the others
\* and the hosts refer to one each.
LEMMA FreshConnection ==
    ASSUME TypeOK, NEW t \in Mesh, local[t].conn = None
    PROVE  \E c \in Conn : c \notin {cache[h] : h \in Host} \cup {local[u].conn : u \in Mesh}
<1> DEFINE cached == {cache[h] : h \in Host}
           rest == Mesh \ {t}
           f == [u \in rest |-> local[u].conn]
           held == {f[u] : u \in rest}
<1>1. IsFiniteSet(cached) /\ Cardinality(cached) <= Cardinality(Host)
  <2>1. DOMAIN cache = Host /\ cache \in [Host -> cached]
    BY DEF TypeOK
  <2> QED BY <2>1, Sizes, ValuesBound
<1>2. IsFiniteSet(rest) /\ Cardinality(rest) = Cardinality(Mesh) - 1
  BY Sizes, FS_RemoveElement
<1>3. IsFiniteSet(held) /\ Cardinality(held) <= Cardinality(rest)
  <2>1. DOMAIN f = rest /\ f \in [rest -> held]
    OBVIOUS
  <2> HIDE DEF f, rest
  <2> QED BY <1>2, <2>1, ValuesBound
<1>4. IsFiniteSet(cached \cup held)
      /\ Cardinality(cached \cup held) <= Cardinality(cached) + Cardinality(held)
  <2> HIDE DEF cached, held
  <2>1. /\ IsFiniteSet(cached \cup held)
        /\ Cardinality(cached \cup held)
             = Cardinality(cached) + Cardinality(held) - Cardinality(cached \cap held)
    BY <1>1, <1>3, FS_Union
  <2>2. IsFiniteSet(cached \cap held)
    BY <1>1, FS_Intersection
  <2>3. Cardinality(cached \cap held) \in Nat /\ Cardinality(cached) \in Nat
        /\ Cardinality(held) \in Nat
    BY <1>1, <1>3, <2>2, FS_CardinalityType
  <2> QED BY <2>1, <2>3
<1>5. Cardinality(cached \cup held) < Cardinality(Conn)
  <2> HIDE DEF cached, held, rest
  <2>1. Cardinality(cached) \in Nat /\ Cardinality(held) \in Nat
        /\ Cardinality(cached \cup held) \in Nat
    BY <1>1, <1>3, <1>4, FS_CardinalityType
  <2> QED BY <1>1, <1>2, <1>3, <1>4, <2>1, Sizes
<1>6. ~(Conn \subseteq cached \cup held)
  <2> HIDE DEF cached, held
  <2> SUFFICES ASSUME Conn \in SUBSET (cached \cup held) PROVE FALSE
    OBVIOUS
  <2>1. Cardinality(Conn) <= Cardinality(cached \cup held)
    BY <1>4, FS_Subset
  <2>2. Cardinality(Conn) \in Nat /\ Cardinality(cached \cup held) \in Nat
    BY <1>4, Sizes, FS_CardinalityType
  <2> QED BY <1>5, <2>1, <2>2
<1>7. PICK c \in Conn : c \notin cached \cup held
  BY <1>6
<1>8. c # None
  BY Sizes DEF Conn, None
<1>9. c \notin {local[u].conn : u \in Mesh}
  BY <1>7, <1>8
<1> QED BY <1>7, <1>9

\* A step of a goroutine that is not its last leaves the results alone.
LEMMA RoundKept ==
    ASSUME TypeOK, RoundInv, NEW t \in Mesh, NEW x, x # "idle", pc[t] # "idle",
           pc' = [pc EXCEPT ![t] = x], UNCHANGED <<round, results>>
    PROVE  RoundInv'
<1>1. Sent(pc', round) = Sent(pc, round)
  BY DEF Sent, TypeOK
<1> QED BY <1>1 DEF RoundInv, TypeOK

\* A goroutine only ever joins the ones that are done with the counter.
LEMMA CountedGrows ==
    ASSUME TypeOK, NEW t \in Mesh, NEW x,
           pc[t] \in {"save", "changes", "nochanges", "idle"}
              => x \in {"save", "changes", "nochanges", "idle"},
           pc' = [pc EXCEPT ![t] = x]
    PROVE  /\ Counted(pc, round) \subseteq Counted(pc', round)
           /\ Cardinality(Counted(pc, round)) \in Nat
           /\ Cardinality(Counted(pc', round)) \in Nat
           /\ Cardinality(Counted(pc, round)) <= Cardinality(Counted(pc', round))
           /\ Cardinality(Counted(pc', round)) <= Cardinality(Mesh)
<1>1. round \in SUBSET Mesh
  BY DEF TypeOK
<1>2. Counted(pc, round) \in SUBSET Counted(pc', round)
  BY DEF Counted, TypeOK
<1>3. /\ IsFiniteSet(Counted(pc', round))
      /\ Cardinality(Counted(pc, round)) \in Nat
      /\ Cardinality(Counted(pc', round)) \in Nat
      /\ Cardinality(Counted(pc', round)) <= Cardinality(Mesh)
  BY <1>1, RoundSizes
<1>4. Cardinality(Counted(pc, round)) <= Cardinality(Counted(pc', round))
  BY <1>2, <1>3, FS_Subset
<1> QED BY <1>2, <1>3, <1>4

\* A step that leaves the counter and what the others have read of it alone,
\* and does not go on to increment it, keeps its bounds.
LEMMA InfectionKept ==
    ASSUME TypeOK, InfectionInv, NEW t \in Mesh, NEW x,
           pc[t] \in {"save", "changes", "nochanges", "idle"}
              => x \in {"save", "changes", "nochanges", "idle"},
           x \notin {"recount", "reset"},
           pc' = [pc EXCEPT ![t] = x], UNCHANGED <<round, infection>>,
           \A u \in Mesh : local'[u].seen = local[u].seen \/ local'[u].seen = 0,
           \A u \in Mesh : u # t => local'[u].seen = local[u].seen
    PROVE  InfectionInv'
<1> DEFINE C == Cardinality(Counted(pc, round))
           D == Cardinality(Counted(pc', round))
<1>1. C \in Nat /\ D \in Nat /\ C <= D
  BY CountedGrows
<1>2. InfectionCount \in Nat /\ InfectionCount > 0 /\ Cardinality(Mesh) \in Nat
  BY Sizes
<1>3. /\ infection \in Nat
      /\ \A u \in Mesh : local[u].seen \in Nat
  BY <1>2 DEF TypeOK
<1>4. \A u \in Mesh : pc'[u] \in {"recount", "reset"} => pc[u] = pc'[u] /\ u # t
  BY DEF TypeOK
<1>5. round' = round /\ infection' = infection
  OBVIOUS
<1> HIDE DEF C, D
<1>6. (\E u \in Mesh : pc'[u] \in {"recount", "reset"}) => infection <= InfectionCount - 1 + D
  <2>1. (\E u \in Mesh : pc[u] \in {"recount", "reset"}) => infection <= InfectionCount - 1 + C
    BY DEF InfectionInv, C
  <2> QED BY <1>1, <1>2, <1>3, <1>4, <2>1
<1>7. \A u \in Mesh : pc'[u] = "reset" => local'[u].seen <= InfectionCount - 1 + D
  <2>1. \A u \in Mesh : pc[u] = "reset" => local[u].seen <= InfectionCount - 1 + C
    BY DEF InfectionInv, C
  <2> QED BY <1>1, <1>2, <1>3, <1>4, <2>1
<1>8. \A u \in Mesh : local'[u].seen <= InfectionCount - 1 + Cardinality(Mesh)
  BY <1>2, <1>3 DEF InfectionInv
<1> QED BY <1>5, <1>6, <1>7, <1>8 DEF InfectionInv, D

\* The new value of the counter is below InfectionCount, whatever was read.
LEMMA NextInfectionBound ==
    ASSUME NEW seen \in Nat
    PROVE  NextInfection(seen) \in 0..InfectionCount - 1
<1>1. InfectionCount \in Nat /\ InfectionCount > 0
  BY Sizes
<1>2. InfectionCount + seen - 1 \in Int
  BY <1>1
<1> QED BY <1>1, <1>2 DEF NextInfection

---------------------------------------------------------------------------
(* Invariance *)

\* Every goroutine is idle, nothing is cached and the counter is zero at first.
LEMMA DaemonInit == Init => DaemonInv
<1> SUFFICES ASSUME Init PROVE DaemonInv
  OBVIOUS
<1>1. Sent(pc, round) = {} /\ Counted(pc, round) = {}
  BY DEF Init, Sent, Counted
<1>2. Cardinality({}) = 0
  BY FS_EmptySet
<1>3. TypeOK
  BY <1>2, Sizes DEF Init, TypeOK, Idle, None
<1>4. RoundInv
  BY <1>1, <1>2 DEF Init, RoundInv
<1>5. InfectionInv
  BY <1>1, <1>2, Sizes DEF Init, InfectionInv, Idle
<1>6. ConnInv
  BY DEF Init, ConnInv, Idle, None
<1> QED BY <1>3, <1>4, <1>5, <1>6 DEF DaemonInv

\* The steps of a goroutine before its last, as one change of its program
\* counter: where it may go from where, and what happens to the rest.
LEMMA StepShape ==
    ASSUME TypeOK, NEW t \in Mesh, Step(t), ~SendResult(t)
    PROVE  /\ round' = round /\ results' = results
           /\ pc[t] # "idle"
           /\ \E x \in {"lookup", "dial", "put", "session", "count", "set",
                        "recount", "reset", "save", "changes", "nochanges"} :
                 /\ pc' = [pc EXCEPT ![t] = x]
                 /\ pc[t] \in {"save", "changes", "nochanges"} => x = "changes"
                 /\ x \in {"recount", "reset"} => ReadInfection(t) \/ WriteInfection(t)
<1>1. CASE StartGoroutine(t)
  BY <1>1 DEF StartGoroutine, Sync, Return, Goto
<1>2. CASE GetConnection(t)
  BY <1>2 DEF GetConnection, Goto
<1>3. CASE Dial(t)
  BY <1>3 DEF Dial, Return, Goto
<1>4. CASE AddConnection(t)
  BY <1>4 DEF AddConnection, Goto
<1>5. CASE SessionEnds(t)
  BY <1>5 DEF SessionEnds, Return, Goto
<1>6. CASE SessionFails(t)
  BY <1>6 DEF SessionFails, Return, Goto
<1>7. CASE ReadInfection(t)
  BY <1>7 DEF ReadInfection, Goto
<1>8. CASE WriteInfection(t)
  BY <1>8 DEF WriteInfection, Goto
<1>9. CASE SaveChanges(t)
  BY <1>9 DEF SaveChanges, Return, Goto
<1> QED BY <1>1, <1>2, <1>3, <1>4, <1>5, <1>6, <1>7, <1>8, <1>9 DEF Step

\* What a goroutine's variables may be.
Locals == [conn : Conn \cup {None}, ok : BOOLEAN, pull : BOOLEAN,
           seen : 0..InfectionCount + Cardinality(Mesh)]

\* What every step does to the variables of its goroutine: they keep their
\* types, and the value read of the counter is dropped or kept, except by the
\* step that reads it.
LEMMA LocalShape ==
    ASSUME TypeOK, InfectionInv, ConnInv, NEW t \in Mesh, Step(t)
    PROVE  \E l \in Locals : /\ local' = [local EXCEPT ![t] = l]
                             /\ ~ReadInfection(t) => l.seen \in {0, local[t].seen}
<1> USE DEF Locals
<1>1. local \in [Mesh -> Locals] /\ local[t] \in Locals
  BY DEF TypeOK
<1>2. Idle \in Locals /\ Idle.seen = 0
  BY Sizes DEF Idle, None
<1>3. local' = local
        => /\ local' = [local EXCEPT ![t] = local[t]]
           /\ local[t].seen \in {0, local[t].seen}
  BY <1>1
<1> DEFINE Goal(l) == /\ local' = [local EXCEPT ![t] = l]
                      /\ l.seen \in {0, local[t].seen}
<1> SUFFICES (~ReadInfection(t) => \E l \in Locals : Goal(l))
             /\ (ReadInfection(t) => \E l \in Locals : local' = [local EXCEPT ![t] = l])
  OBVIOUS
<1>0. local' = [local EXCEPT ![t] = Idle] \/ local' = local => \E l \in Locals : Goal(l)
  BY <1>1, <1>2, <1>3
<1>4. CASE StartGoroutine(t)
  <2> DEFINE quiet == t \notin changed /\ infection = 0
             l == [Idle EXCEPT !.pull = quiet]
  <2>1. quiet \in BOOLEAN
    OBVIOUS
  <2>2. local' = [local EXCEPT ![t] = Idle] \/ local' = [local EXCEPT ![t] = l]
    BY <1>4 DEF StartGoroutine, Sync, Return
  <2> HIDE DEF quiet
  <2>3. l \in Locals /\ l.seen = 0
    BY <1>2, <2>1 DEF Idle
  <2> QED BY <1>0, <2>2, <2>3, <1>4 DEF StartGoroutine, ReadInfection
<1>5. CASE GetConnection(t)
  <2> DEFINE l == [local[t] EXCEPT !.conn = cache[HostOf[t]]]
  <2>1. HostOf[t] \in Host
    BY <1>5 DEF GetConnection, ConnInv
  <2>2. cache[HostOf[t]] \in Conn \cup {None}
    BY <2>1 DEF TypeOK
  <2>3. l \in Locals /\ l.seen = local[t].seen
    BY <1>1, <2>2
  <2>4. local' = [local EXCEPT ![t] = l]
    BY <1>5, <1>1 DEF GetConnection
  <2> QED BY <2>3, <2>4, <1>5 DEF GetConnection, ReadInfection
<1>6. CASE Dial(t)
  <2> DEFINE used == {cache[h] : h \in Host} \cup {local[u].conn : u \in Mesh}
             new == CHOOSE c \in Conn : c \notin used
             l == [local[t] EXCEPT !.conn = new]
  <2>1. new \in Conn
    BY <1>6, FreshConnection DEF Dial, ConnInv
  <2>2. \/ local' = [local EXCEPT ![t] = l]
        \/ local' = [local EXCEPT ![t] = Idle]
        \/ local' = local
    BY <1>6, <1>1 DEF Dial, Return
  <2> HIDE DEF new
  <2>3. l \in Locals /\ l.seen = local[t].seen
    BY <1>1, <2>1
  <2>4. ~ReadInfection(t)
    BY <1>6 DEF Dial, ReadInfection
  <2> QED BY <1>0, <2>2, <2>3, <2>4
<1>7. CASE AddConnection(t)
  BY <1>0, <1>7 DEF AddConnection, ReadInfection
<1>8. CASE SessionEnds(t)
  <2> DEFINE l == [Idle EXCEPT !.ok = TRUE]
  <2>1. local' = [local EXCEPT ![t] = Idle] \/ local' = [local EXCEPT ![t] = l]
    BY <1>8 DEF SessionEnds, Return
  <2>2. l \in Locals /\ l.seen = 0
    BY <1>2 DEF Idle
  <2> QED BY <1>0, <2>1, <2>2, <1>8 DEF SessionEnds, ReadInfection
<1>9. CASE SessionFails(t)
  <2>1. local' = [local EXCEPT ![t] = Idle]
    BY <1>9 DEF SessionFails, Return
  <2> QED BY <1>0, <2>1, <1>9 DEF SessionFails, ReadInfection
<1>10. CASE ReadInfection(t)
  <2> DEFINE l == [local[t] EXCEPT !.seen = infection]
  <2>1. l \in Locals
    BY <1>1 DEF TypeOK
  <2>2. local' = [local EXCEPT ![t] = l]
    BY <1>10, <1>1 DEF ReadInfection
  <2> QED BY <1>10, <2>1, <2>2
<1>11. CASE WriteInfection(t)
  <2> DEFINE l == [local[t] EXCEPT !.seen = 0]
  <2>1. l \in Locals /\ l.seen = 0
    BY <1>1, Sizes
  <2>2. local' = [local EXCEPT ![t] = l]
    BY <1>11, <1>1 DEF WriteInfection
  <2>3. ~ReadInfection(t)
    BY <1>11 DEF WriteInfection, ReadInfection
  <2> QED BY <2>1, <2>2, <2>3
<1>12. CASE SaveChanges(t)
  BY <1>0, <1>12 DEF SaveChanges, Return, ReadInfection
<1>13. CASE SendResult(t)
  BY <1>0, <1>13 DEF SendResult, ReadInfection
<1> QED BY <1>4, <1>5, <1>6, <1>7, <1>8, <1>9, <1>10, <1>11, <1>12, <1>13 DEF Step

\* The round's invariant: only the last step of a goroutine sends a result.
LEMMA RoundStep == ASSUME TypeOK, RoundInv, Next PROVE RoundInv'
<1>1. ASSUME NEW t \in Mesh, SendResult(t) PROVE RoundInv'
  <2>1. Sent(pc', round) = Sent(pc, round) \cup {t} /\ t \notin Sent(pc, round)
    <3>1. t \in round
      BY <1>1 DEF RoundInv, SendResult
    <3> QED BY <1>1, <3>1 DEF SendResult, Goto, Sent, TypeOK
  <2>2. IsFiniteSet(Sent(pc, round)) /\ Cardinality(Sent(pc, round)) \in Nat
    BY RoundSizes DEF TypeOK
  <2>3. Cardinality(Sent(pc', round)) = Cardinality(Sent(pc, round)) + 1
    BY <2>1, <2>2, FS_AddElement
  <2>4. Len(results') = Len(results) + 1
    BY <1>1 DEF SendResult, TypeOK
  <2> QED BY <1>1, <2>3, <2>4 DEF RoundInv, SendResult, Goto, TypeOK
<1>2. ASSUME NEW t \in Mesh, Step(t), ~SendResult(t) PROVE RoundInv'
  BY <1>2, StepShape, RoundKept
<1>3. ASSUME NEW t \in Mesh, ChangeStore(t) PROVE RoundInv'
  BY <1>3 DEF ChangeStore, RoundInv
<1>4. ASSUME NEW polled \in SUBSET Mesh, StartSyncMeshes(polled) PROVE RoundInv'
  <2>1. Sent(pc, round) = {} /\ Sent(pc', round') = {}
    BY <1>4 DEF StartSyncMeshes, Sent
  <2> QED BY <1>4, <2>1 DEF StartSyncMeshes, RoundInv
<1>5. CASE EndSyncMeshes
  <2>1. Sent(pc, round) = round
    BY <1>5, RoundSizes DEF EndSyncMeshes, RoundInv, TypeOK
  <2>2. \A t \in Mesh : pc[t] = "idle"
    BY <2>1 DEF RoundInv, Sent
  <2>3. Sent(pc', round') = {}
    BY <1>5 DEF EndSyncMeshes, Sent
  <2> QED BY <1>5, <2>2, <2>3, FS_EmptySet DEF EndSyncMeshes, RoundInv
<1> QED BY <1>1, <1>2, <1>3, <1>4, <1>5 DEF Next

\* The counter's invariant.  Only a reset raises the counter, by one over what
\* the goroutine read, and then this goroutine is done with it.
LEMMA InfectionStep == ASSUME TypeOK, RoundInv, InfectionInv, ConnInv, Next PROVE InfectionInv'
<1>1. ASSUME NEW t \in Mesh, Step(t), ~ReadInfection(t), ~WriteInfection(t)
      PROVE  InfectionInv'
  <2>1. /\ UNCHANGED <<round, infection>>
        /\ \A u \in Mesh : local'[u].seen = local[u].seen \/ local'[u].seen = 0
        /\ \A u \in Mesh : u # t => local'[u].seen = local[u].seen
    <3>1. UNCHANGED <<round, infection>>
      BY <1>1 DEF Step, StartGoroutine, GetConnection, Dial, AddConnection, SessionEnds,
                  SessionFails, SaveChanges, SendResult
    <3>2. PICK l : local' = [local EXCEPT ![t] = l] /\ l.seen \in {0, local[t].seen}
      BY <1>1, LocalShape
    <3> QED BY <3>1, <3>2 DEF TypeOK
  <2>2. PICK x : /\ pc' = [pc EXCEPT ![t] = x]
                 /\ pc[t] \in {"save", "changes", "nochanges", "idle"}
                       => x \in {"save", "changes", "nochanges", "idle"}
                 /\ x \notin {"recount", "reset"}
    <3>1. CASE SendResult(t)
      <4>1. pc' = [pc EXCEPT ![t] = "idle"]
        BY <3>1 DEF SendResult, Goto
      <4>2. "idle" \in {"save", "changes", "nochanges", "idle"} /\ "idle" \notin {"recount", "reset"}
        OBVIOUS
      <4> QED BY <4>1, <4>2
    <3>2. CASE ~SendResult(t)
      BY <1>1, <3>2, StepShape
    <3> QED BY <3>1, <3>2
  <2> QED BY <2>1, <2>2, InfectionKept
<1>2. ASSUME NEW t \in Mesh, ReadInfection(t) PROVE InfectionInv'
  <2> DEFINE C == Cardinality(Counted(pc, round))
             D == Cardinality(Counted(pc', round))
  <2>1. PICK x \in {"set", "reset"} : /\ pc' = [pc EXCEPT ![t] = x]
                                      /\ x = "reset" => pc[t] = "recount"
                                      /\ pc[t] \in {"count", "recount"}
    BY <1>2 DEF ReadInfection, Goto
  <2>2. C \in Nat /\ D \in Nat /\ C <= D
    BY <2>1, CountedGrows
  <2>3. InfectionCount \in Nat /\ InfectionCount > 0 /\ Cardinality(Mesh) \in Nat
    BY Sizes
  <2>4. infection \in Nat /\ \A u \in Mesh : local[u].seen \in Nat
    BY <2>3 DEF TypeOK
  <2>5. \A u \in Mesh : local'[u].seen = IF u = t THEN infection ELSE local[u].seen
    BY <1>2 DEF ReadInfection, TypeOK
  <2>6. \A u \in Mesh : pc'[u] \in {"recount", "reset"} => pc[u] \in {"recount", "reset"}
    BY <2>1 DEF TypeOK
  <2>7. /\ (\E u \in Mesh : pc[u] \in {"recount", "reset"}) => infection <= InfectionCount - 1 + C
        /\ \A u \in Mesh : pc[u] = "reset" => local[u].seen <= InfectionCount - 1 + C
    BY DEF InfectionInv
  <2>8. \A u \in Mesh : u # t => pc'[u] = pc[u]
    BY <2>1 DEF TypeOK
  <2>9. infection' = infection /\ round' = round
    BY <1>2 DEF ReadInfection
  <2> HIDE DEF C, D
  <2>10. (\E u \in Mesh : pc'[u] \in {"recount", "reset"}) => infection <= InfectionCount - 1 + D
    BY <2>2, <2>3, <2>4, <2>6, <2>7
  <2>11. \A u \in Mesh : pc'[u] = "reset" => local'[u].seen <= InfectionCount - 1 + D
    BY <2>2, <2>3, <2>4, <2>5, <2>7, <2>8, <2>10
  <2>12. \A u \in Mesh : local'[u].seen <= InfectionCount - 1 + Cardinality(Mesh)
    BY <2>5 DEF InfectionInv
  <2> QED BY <2>9, <2>10, <2>11, <2>12 DEF InfectionInv, D
<1>3. ASSUME NEW t \in Mesh, WriteInfection(t) PROVE InfectionInv'
  <2> DEFINE C == Cardinality(Counted(pc, round))
             D == Cardinality(Counted(pc', round))
  <2>1. PICK x \in {"save", "recount"} : /\ pc' = [pc EXCEPT ![t] = x]
                                         /\ pc[t] = "reset" => x = "save"
                                         /\ pc[t] \in {"set", "reset"}
    BY <1>3 DEF WriteInfection, Goto
  <2>2. C \in Nat /\ D \in Nat /\ C <= D /\ D <= Cardinality(Mesh)
    BY <2>1, CountedGrows
  <2>3. InfectionCount \in Nat /\ InfectionCount > 0 /\ Cardinality(Mesh) \in Nat
    BY Sizes
  <2>4. infection \in Nat /\ \A u \in Mesh : local[u].seen \in Nat
    BY <2>3 DEF TypeOK
  <2>5. \A u \in Mesh : local'[u].seen = IF u = t THEN 0 ELSE local[u].seen
    BY <1>3 DEF WriteInfection, TypeOK
  <2>6. pc[t] = "set" => infection' \in 0..InfectionCount - 1
    BY <1>3, <2>4, NextInfectionBound DEF WriteInfection
  <2>7. pc[t] = "reset" => infection' = local[t].seen + 1 /\ C + 1 <= D
    <3> SUFFICES ASSUME pc[t] = "reset" PROVE infection' = local[t].seen + 1 /\ C + 1 <= D
      OBVIOUS
    <3>1. infection' = local[t].seen + 1
      BY <1>3 DEF WriteInfection
    <3>2. t \in round
      BY DEF RoundInv
    <3>3. Counted(pc', round) = Counted(pc, round) \cup {t} /\ t \notin Counted(pc, round)
      BY <2>1, <3>2 DEF Counted, TypeOK
    <3>4. IsFiniteSet(Counted(pc, round))
      BY RoundSizes DEF TypeOK
    <3>5. D = C + 1
      BY <3>3, <3>4, FS_AddElement
    <3> QED BY <2>2, <3>1, <3>5
  <2>8. \A u \in Mesh : pc'[u] = "reset" => pc[u] = "reset" /\ u # t
    BY <2>1 DEF TypeOK
  <2>9. \A u \in Mesh : pc[u] = "reset" => local[u].seen <= InfectionCount - 1 + C
    BY DEF InfectionInv
  <2>10. round' = round
    BY <1>3 DEF WriteInfection
  <2> HIDE DEF C, D
  <2>11. infection' <= InfectionCount - 1 + D
    BY <2>1, <2>2, <2>3, <2>4, <2>6, <2>7, <2>9
  <2>12. \A u \in Mesh : pc'[u] = "reset" => local'[u].seen <= InfectionCount - 1 + D
    BY <2>2, <2>3, <2>4, <2>5, <2>8, <2>9
  <2>13. infection' <= InfectionCount - 1 + Cardinality(Mesh)
    <3>1. infection' \in Nat
      BY <2>1, <2>3, <2>4, <2>6, <2>7
    <3> QED BY <2>2, <2>3, <2>11, <3>1
  <2>14. \A u \in Mesh : local'[u].seen <= InfectionCount - 1 + Cardinality(Mesh)
    BY <2>3, <2>5 DEF InfectionInv
  <2> QED BY <2>10, <2>11, <2>12, <2>13, <2>14 DEF InfectionInv, D
<1>4. ASSUME NEW t \in Mesh, ChangeStore(t) PROVE InfectionInv'
  BY <1>4 DEF ChangeStore, InfectionInv
<1>5. ASSUME NEW polled \in SUBSET Mesh, StartSyncMeshes(polled) PROVE InfectionInv'
  <2>1. \A t \in Mesh : pc[t] = "idle"
    BY <1>5 DEF StartSyncMeshes, RoundInv
  <2>2. \A t \in Mesh : pc'[t] \in {"begin", "idle"}
    BY <1>5, <2>1 DEF StartSyncMeshes
  <2> QED BY <1>5, <2>2 DEF StartSyncMeshes, InfectionInv
<1>6. CASE EndSyncMeshes
  <2>1. Sent(pc, round) = round
    BY <1>6, RoundSizes DEF EndSyncMeshes, RoundInv, TypeOK
  <2>2. \A t \in Mesh : pc[t] = "idle"
    BY <2>1 DEF RoundInv, Sent
  <2> QED BY <1>6, <2>2 DEF EndSyncMeshes, InfectionInv
<1> QED BY <1>1, <1>2, <1>3, <1>4, <1>5, <1>6 DEF Next

\* A step that takes no connection, and at most removes one from the cache,
\* keeps the invariant of the connection manager: nobody waits to put into the
\* cache the connection that is closed.
LEMMA ConnKept ==
    ASSUME TypeOK, ConnInv, NEW t \in Mesh, NEW x, NEW l,
           pc' = [pc EXCEPT ![t] = x], local' = [local EXCEPT ![t] = l],
           l.conn \in {None, local[t].conn}, x \notin {"dial", "put"},
           x \in {"lookup", "session"} => HostOf[t] \in Host,
           UNCHANGED conns \/ (HostOf[t] \in Host /\ RemoveConnection(HostOf[t]))
    PROVE  ConnInv'
<1>1. \A u \in Mesh : /\ pc'[u] = IF u = t THEN x ELSE pc[u]
                      /\ local'[u] = IF u = t THEN l ELSE local[u]
  BY DEF TypeOK
<1>2. CASE UNCHANGED conns
  <2>1. cache' = cache /\ open' = open
    BY <1>2 DEF conns
  <2> QED BY <1>1, <2>1 DEF ConnInv
<1>3. CASE HostOf[t] \in Host /\ RemoveConnection(HostOf[t])
  <2>1. /\ open' = open \ {cache[HostOf[t]]}
        /\ \A h \in Host : cache'[h] = IF h = HostOf[t] THEN None ELSE cache[h]
    BY <1>3 DEF RemoveConnection, TypeOK
  <2> QED BY <1>1, <1>3, <2>1 DEF ConnInv
<1> QED BY <1>2, <1>3

\* The connection manager's invariant.  A goroutine dials outside the lock, so
\* what it then puts into the cache must be open still, and known to nobody
\* who could have closed it.
LEMMA ConnStep == ASSUME TypeOK, RoundInv, InfectionInv, ConnInv, Next PROVE ConnInv'
<1>1. ASSUME NEW t \in Mesh, StartGoroutine(t) PROVE ConnInv'
  <2> DEFINE quiet == t \notin changed /\ infection = 0
             l == [Idle EXCEPT !.pull = quiet]
  <2>1. l.conn = None /\ Idle.conn = None
    BY DEF Idle
  <2>2. UNCHANGED conns
    BY <1>1 DEF StartGoroutine
  <2>3. \/ local' = [local EXCEPT ![t] = Idle]
        \/ local' = [local EXCEPT ![t] = l]
    BY <1>1 DEF StartGoroutine, Sync, Return
  <2>4. \/ pc' = [pc EXCEPT ![t] = "nochanges"]
        \/ pc' = [pc EXCEPT ![t] = "count"]
        \/ pc' = [pc EXCEPT ![t] = "lookup"] /\ HostOf[t] \in Host
    BY <1>1, DaemonAssumption DEF StartGoroutine, Sync, Return, Goto
  <2> HIDE DEF l
  <2>5. PICK x : /\ pc' = [pc EXCEPT ![t] = x] /\ x \in {"nochanges", "count", "lookup"}
                 /\ x = "lookup" => HostOf[t] \in Host
    BY <2>4
  <2>6. PICK k : local' = [local EXCEPT ![t] = k] /\ k.conn = None
    BY <2>1, <2>3
  <2> QED BY <2>2, <2>5, <2>6, ConnKept
<1>2. ASSUME NEW t \in Mesh, GetConnection(t) PROVE ConnInv'
  <2> DEFINE c == cache[HostOf[t]]
  <2>1. HostOf[t] \in Host
    BY <1>2 DEF GetConnection, ConnInv
  <2>2. \A u \in Mesh :
          /\ pc'[u] = IF u = t THEN (IF c = None THEN "dial" ELSE "session") ELSE pc[u]
          /\ local'[u].conn = IF u = t THEN c ELSE local[u].conn
    BY <1>2 DEF GetConnection, Goto, TypeOK
  <2>3. cache' = cache /\ open' = open
    BY <1>2 DEF GetConnection, conns
  <2> HIDE DEF c
  <2>4. \A u \in Mesh : pc[u] = "put" => local[u].conn # c
    BY <2>1 DEF ConnInv, c
  <2> QED BY <2>1, <2>2, <2>3, <2>4 DEF ConnInv
<1>3. ASSUME NEW t \in Mesh, Dial(t) PROVE ConnInv'
  <2> DEFINE used == {cache[h] : h \in Host} \cup {local[u].conn : u \in Mesh}
             new == CHOOSE c \in Conn : c \notin used
  <2>1. HostOf[t] \in Host /\ cache' = cache
    BY <1>3 DEF Dial, ConnInv
  <2>2. CASE /\ open' = (open \cap used) \cup {new}
             /\ local' = [local EXCEPT ![t].conn = new]
             /\ pc' = [pc EXCEPT ![t] = "put"]
    <3>1. new \in Conn /\ new \notin used
      BY <1>3, FreshConnection DEF Dial, ConnInv
    <3>2. new # None
      BY <3>1, Sizes DEF Conn, None
    <3>3. /\ \A h \in Host : cache[h] \in used
          /\ \A u \in Mesh : local[u].conn \in used
      OBVIOUS
    <3>4. \A u \in Mesh : /\ pc'[u] = IF u = t THEN "put" ELSE pc[u]
                          /\ local'[u].conn = IF u = t THEN new ELSE local[u].conn
      BY <2>2 DEF TypeOK
    <3>5. open' = (open \cap used) \cup {new}
      BY <2>2
    <3> HIDE DEF used, new
    <3> QED BY <2>1, <3>1, <3>2, <3>3, <3>4, <3>5 DEF ConnInv
  <2>3. CASE /\ open' = open
             /\ \/ /\ local' = [local EXCEPT ![t] = Idle]
                   /\ pc' = [pc EXCEPT ![t] = "nochanges"]
                \/ /\ local' = local
                   /\ pc' = [pc EXCEPT ![t] = "count"]
    <3>1. UNCHANGED conns
      BY <2>1, <2>3 DEF conns
    <3>2. local = [local EXCEPT ![t] = local[t]]
      BY DEF TypeOK
    <3>3. PICK k : local' = [local EXCEPT ![t] = k] /\ k.conn \in {None, local[t].conn}
      BY <2>3, <3>2 DEF Idle
    <3>4. PICK x : pc' = [pc EXCEPT ![t] = x] /\ x \in {"nochanges", "count"}
      BY <2>3
    <3> QED BY <3>1, <3>3, <3>4, ConnKept
  <2> QED BY <1>3, <2>2, <2>3 DEF Dial, Return, Goto
<1>4. ASSUME NEW t \in Mesh, AddConnection(t) PROVE ConnInv'
  <2>1. HostOf[t] \in Host /\ pc[t] = "put"
    BY <1>4 DEF AddConnection, ConnInv
  <2>2. \A h \in Host : cache'[h] = IF h = HostOf[t] THEN local[t].conn ELSE cache[h]
    BY <1>4, <2>1 DEF AddConnection, TypeOK
  <2>3. \A u \in Mesh : pc'[u] = IF u = t THEN "session" ELSE pc[u]
    BY <1>4 DEF AddConnection, Goto, TypeOK
  <2>4. local' = local /\ open' = open
    BY <1>4 DEF AddConnection
  <2> QED BY <2>1, <2>2, <2>3, <2>4 DEF ConnInv
<1>5. ASSUME NEW t \in Mesh, SessionEnds(t) PROVE ConnInv'
  <2>1. UNCHANGED conns
    BY <1>5 DEF SessionEnds
  <2>2. PICK k : local' = [local EXCEPT ![t] = k] /\ k.conn = None
    BY <1>5 DEF SessionEnds, Return, Idle
  <2>3. PICK x : pc' = [pc EXCEPT ![t] = x] /\ x \in {"changes", "nochanges", "count"}
    BY <1>5 DEF SessionEnds, Return, Goto
  <2> QED BY <2>1, <2>2, <2>3, ConnKept
<1>6. ASSUME NEW t \in Mesh, SessionFails(t) PROVE ConnInv'
  <2>1. UNCHANGED conns \/ (HostOf[t] \in Host /\ RemoveConnection(HostOf[t]))
    BY <1>6 DEF SessionFails, ConnInv
  <2>2. local' = [local EXCEPT ![t] = Idle] /\ Idle.conn = None
    BY <1>6 DEF SessionFails, Return, Idle
  <2>3. PICK x : pc' = [pc EXCEPT ![t] = x] /\ x \in {"nochanges", "count"}
    BY <1>6 DEF SessionFails, Return, Goto
  <2> QED BY <2>1, <2>2, <2>3, ConnKept
<1>7. ASSUME NEW t \in Mesh, ReadInfection(t) \/ WriteInfection(t) PROVE ConnInv'
  <2>1. UNCHANGED conns
    BY <1>7 DEF ReadInfection, WriteInfection
  <2>2. PICK k : local' = [local EXCEPT ![t] = k] /\ k.conn = local[t].conn
    <3>1. CASE local' = [local EXCEPT ![t].seen = infection]
      <4> DEFINE k == [local[t] EXCEPT !.seen = infection]
      <4>1. local' = [local EXCEPT ![t] = k]
        BY <3>1 DEF TypeOK
      <4>2. k.conn = local[t].conn
        BY DEF TypeOK
      <4> QED BY <4>1, <4>2
    <3>2. CASE local' = [local EXCEPT ![t].seen = 0]
      <4> DEFINE k == [local[t] EXCEPT !.seen = 0]
      <4>1. local' = [local EXCEPT ![t] = k]
        BY <3>2 DEF TypeOK
      <4>2. k.conn = local[t].conn
        BY DEF TypeOK
      <4> QED BY <4>1, <4>2
    <3> QED BY <1>7, <3>1, <3>2 DEF ReadInfection, WriteInfection
  <2>3. PICK x : pc' = [pc EXCEPT ![t] = x] /\ x \in {"set", "reset", "recount", "save"}
    BY <1>7 DEF ReadInfection, WriteInfection, Goto
  <2> QED BY <2>1, <2>2, <2>3, ConnKept
<1>8. ASSUME NEW t \in Mesh, SaveChanges(t) \/ SendResult(t) PROVE ConnInv'
  <2>1. UNCHANGED conns
    BY <1>8 DEF SaveChanges, SendResult
  <2>2. local = [local EXCEPT ![t] = local[t]]
    BY DEF TypeOK
  <2>3. PICK k : local' = [local EXCEPT ![t] = k] /\ k.conn \in {None, local[t].conn}
    BY <1>8, <2>2 DEF SaveChanges, SendResult, Return, Idle
  <2>4. PICK x : pc' = [pc EXCEPT ![t] = x] /\ x \in {"changes", "idle"}
    BY <1>8 DEF SaveChanges, SendResult, Return, Goto
  <2> QED BY <2>1, <2>3, <2>4, ConnKept
<1>9. ASSUME NEW t \in Mesh, ChangeStore(t) PROVE ConnInv'
  BY <1>9 DEF ChangeStore, ConnInv, conns
<1>10. ASSUME NEW polled \in SUBSET Mesh, StartSyncMeshes(polled) PROVE ConnInv'
  <2>1. \A t \in Mesh : pc'[t] \in {"begin", "idle"}
    BY <1>10 DEF StartSyncMeshes, RoundInv
  <2> QED BY <1>10, <2>1 DEF StartSyncMeshes, ConnInv, conns
<1>11. CASE EndSyncMeshes
  BY <1>11 DEF EndSyncMeshes, ConnInv, conns
<1> QED BY <1>1, <1>2, <1>3, <1>4, <1>5, <1>6, <1>7, <1>8, <1>9, <1>10, <1>11 DEF Next, Step

\* Types.
LEMMA TypeStep == ASSUME DaemonInv, Next, RoundInv', InfectionInv' PROVE TypeOK'
<1> USE DEF DaemonInv
<1>1. ASSUME NEW t \in Mesh, Step(t)
      PROVE  /\ local' \in [Mesh -> Locals]
             /\ pc' \in [Mesh -> {"idle", "begin", "lookup", "dial", "put", "session", "count",
                                  "set", "recount", "reset", "save", "changes", "nochanges"}]
  <2>1. local \in [Mesh -> Locals]
    BY DEF TypeOK, Locals
  <2>2. PICK l \in Locals : local' = [local EXCEPT ![t] = l]
    BY <1>1, LocalShape
  <2>3. CASE SendResult(t)
    BY <2>1, <2>2, <2>3 DEF SendResult, Goto, TypeOK
  <2>4. CASE ~SendResult(t)
    <3>1. PICK x \in {"lookup", "dial", "put", "session", "count", "set",
                      "recount", "reset", "save", "changes", "nochanges"} :
             pc' = [pc EXCEPT ![t] = x]
      BY <1>1, <2>4, StepShape
    <3> QED BY <2>1, <2>2, <3>1 DEF TypeOK
  <2> QED BY <2>3, <2>4
<1>2. /\ changed' \subseteq Mesh /\ dirty' \subseteq Mesh /\ missed' \subseteq dirty'
      /\ changes' \in 0..MaxChanges /\ failures' \in 0..MaxFailures
  <2>1. ASSUME NEW t \in Mesh, Step(t) PROVE <1>2!:
    <3>1. CASE SessionEnds(t)
      BY <3>1, Sizes DEF SessionEnds, Changed, TypeOK
    <3>2. CASE SaveChanges(t)
      BY <3>2 DEF SaveChanges, TypeOK
    <3>3. CASE Dial(t)
      <4>1. /\ UNCHANGED <<changed, dirty, missed, changes>>
            /\ failures' = failures \/ (failures < MaxFailures /\ failures' = failures + 1)
        BY <3>3 DEF Dial
      <4> QED BY <4>1, Sizes DEF TypeOK
    <3>4. CASE SessionFails(t)
      BY <3>4, Sizes DEF SessionFails, TypeOK
    <3>5. CASE ~SessionEnds(t) /\ ~SaveChanges(t) /\ ~Dial(t) /\ ~SessionFails(t)
      <4>1. UNCHANGED <<changed, dirty, missed, changes, failures>>
        BY <2>1, <3>5 DEF Step, StartGoroutine, GetConnection, AddConnection,
                          ReadInfection, WriteInfection, SendResult
      <4> QED BY <4>1 DEF TypeOK
    <3> QED BY <3>1, <3>2, <3>3, <3>4, <3>5
  <2>2. ASSUME NEW t \in Mesh, ChangeStore(t) PROVE <1>2!:
    BY <2>2, Sizes DEF ChangeStore, Changed, TypeOK
  <2>3. ASSUME NEW polled \in SUBSET Mesh, StartSyncMeshes(polled) PROVE <1>2!:
    BY <2>3 DEF StartSyncMeshes, TypeOK
  <2>4. CASE EndSyncMeshes
    <3>1. PICK touched \in {{}} \cup {{m} : m \in Mesh} :
            /\ touched = {} \/ changes < MaxChanges
            /\ changes' = changes + Cardinality(touched)
            /\ changed' = changed \cup touched
            /\ \/ dirty' = dirty \cup touched /\ missed' \in {missed \ touched, dirty'}
               \/ dirty' = {} /\ missed' = {}
      BY <2>4 DEF EndSyncMeshes
    <3>2. touched \subseteq Mesh
      OBVIOUS
    <3>3. Cardinality(touched) = 0 \/ (Cardinality(touched) = 1 /\ changes < MaxChanges)
      BY <3>1, FS_EmptySet, FS_Singleton
    <3>4. failures' \in 0..MaxFailures
      BY <2>4, Sizes DEF EndSyncMeshes, TypeOK
    <3>5. changes' \in 0..MaxChanges
      BY <3>1, <3>3, Sizes DEF TypeOK
    <3> QED BY <3>1, <3>2, <3>4, <3>5 DEF TypeOK
  <2> QED BY <2>1, <2>2, <2>3, <2>4 DEF Next
<1>3. /\ round' \subseteq Mesh
      /\ local' \in [Mesh -> Locals]
      /\ pc' \in [Mesh -> {"idle", "begin", "lookup", "dial", "put", "session", "count",
                           "set", "recount", "reset", "save", "changes", "nochanges"}]
  <2>0. local \in [Mesh -> Locals]
    BY DEF TypeOK, Locals
  <2>1. ASSUME NEW t \in Mesh, Step(t) PROVE round' \subseteq Mesh
    <3>1. round' = round
      BY <2>1 DEF Step, StartGoroutine, GetConnection, Dial, AddConnection, SessionEnds,
                  SessionFails, ReadInfection, WriteInfection, SaveChanges, SendResult
    <3> QED BY <3>1 DEF TypeOK
  <2>2. ASSUME NEW t \in Mesh, ChangeStore(t) PROVE <1>3!:
    BY <2>0, <2>2 DEF ChangeStore, TypeOK
  <2>3. ASSUME NEW polled \in SUBSET Mesh, StartSyncMeshes(polled) PROVE <1>3!:
    BY <2>0, <2>3 DEF StartSyncMeshes, TypeOK
  <2>4. CASE EndSyncMeshes
    BY <2>0, <2>4 DEF EndSyncMeshes, TypeOK
  <2> QED BY <1>1, <2>1, <2>2, <2>3, <2>4 DEF Next
<1>4. cache' \in [Host -> Conn \cup {None}] /\ open' \subseteq Conn
  <2>1. ASSUME NEW t \in Mesh, Step(t) PROVE <1>4!:
    <3>1. CASE Dial(t)
      <4> DEFINE used == {cache[h] : h \in Host} \cup {local[u].conn : u \in Mesh}
                 new == CHOOSE c \in Conn : c \notin used
      <4>1. new \in Conn
        BY <3>1, FreshConnection DEF Dial, ConnInv
      <4>2. cache' = cache /\ (open' = open \/ open' = (open \cap used) \cup {new})
        BY <3>1 DEF Dial
      <4> HIDE DEF used, new
      <4> QED BY <4>1, <4>2 DEF TypeOK
    <3>2. CASE AddConnection(t)
      BY <3>2 DEF AddConnection, TypeOK
    <3>3. CASE SessionFails(t)
      BY <3>3 DEF SessionFails, RemoveConnection, conns, TypeOK, None
    <3>4. CASE ~Dial(t) /\ ~AddConnection(t) /\ ~SessionFails(t)
      <4>1. UNCHANGED conns
        BY <2>1, <3>4 DEF Step, StartGoroutine, GetConnection, SessionEnds,
                          ReadInfection, WriteInfection, SaveChanges, SendResult
      <4> QED BY <4>1 DEF conns, TypeOK
    <3> QED BY <3>1, <3>2, <3>3, <3>4
  <2>2. ASSUME NEW t \in Mesh, ChangeStore(t) PROVE <1>4!:
    BY <2>2 DEF ChangeStore, conns, TypeOK
  <2>3. ASSUME NEW polled \in SUBSET Mesh, StartSyncMeshes(polled) PROVE <1>4!:
    BY <2>3 DEF StartSyncMeshes, conns, TypeOK
  <2>4. CASE EndSyncMeshes
    BY <2>4 DEF EndSyncMeshes, conns, TypeOK
  <2> QED BY <2>1, <2>2, <2>3, <2>4 DEF Next
<1>5. results' \in Seq(BOOLEAN) /\ infection' \in Nat
  <2>0. InfectionCount \in Nat /\ Cardinality(Mesh) \in Nat /\ InfectionCount > 0
    BY Sizes
  <2>1. ASSUME NEW t \in Mesh, Step(t) PROVE <1>5!:
    <3>1. CASE SendResult(t)
      <4>1. (pc[t] = "changes") \in BOOLEAN
        OBVIOUS
      <4> QED BY <2>0, <3>1, <4>1 DEF SendResult, TypeOK
    <3>2. CASE WriteInfection(t)
      <4>1. local[t].seen \in Nat
        BY <2>0 DEF TypeOK
      <4>2. NextInfection(local[t].seen) \in Nat
        BY <2>0, <4>1, NextInfectionBound
      <4> QED BY <3>2, <4>1, <4>2 DEF WriteInfection, TypeOK
    <3>3. CASE ~SendResult(t) /\ ~WriteInfection(t)
      <4>1. UNCHANGED <<results, infection>>
        BY <2>1, <3>3 DEF Step, StartGoroutine, GetConnection, Dial, AddConnection,
                          SessionEnds, SessionFails, ReadInfection, SaveChanges
      <4> QED BY <2>0, <4>1 DEF TypeOK
    <3> QED BY <3>1, <3>2, <3>3
  <2>2. ASSUME NEW t \in Mesh, ChangeStore(t) PROVE <1>5!:
    BY <2>0, <2>2 DEF ChangeStore, TypeOK
  <2>3. ASSUME NEW polled \in SUBSET Mesh, StartSyncMeshes(polled) PROVE <1>5!:
    BY <2>0, <2>3 DEF StartSyncMeshes, TypeOK
  <2>4. CASE EndSyncMeshes
    BY <2>0, <2>4 DEF EndSyncMeshes, TypeOK
  <2> QED BY <2>1, <2>2, <2>3, <2>4 DEF Next
<1>6. Len(results') <= Cardinality(round')
  BY <1>3, RoundSizes DEF RoundInv
<1>7. infection' \in 0..InfectionCount + Cardinality(Mesh)
  BY <1>5, Sizes DEF InfectionInv
<1> QED BY <1>2, <1>3, <1>4, <1>5, <1>6, <1>7 DEF TypeOK, Locals

\* The invariant is inductive.
LEMMA DaemonStep == DaemonInv /\ [Next]_vars => DaemonInv'
<1>1. ASSUME DaemonInv, Next PROVE DaemonInv'
  BY <1>1, RoundStep, InfectionStep, ConnStep, TypeStep DEF DaemonInv
<1>2. ASSUME DaemonInv, UNCHANGED vars PROVE DaemonInv'
  BY <1>2 DEF DaemonInv, TypeOK, RoundInv, InfectionInv, ConnInv, vars, conns
<1> QED BY <1>1, <1>2

---------------------------------------------------------------------------
(* Theorems *)

\* Every reachable state satisfies the invariant.
LEMMA DaemonInvariant == Spec => []DaemonInv
BY DaemonInit, DaemonStep, PTL DEF Spec

\* Types, for any number of meshes and hosts: the infection counter, which the
\* goroutines read and write without a lock and increment after a failed round,
\* never leaves 0..InfectionCount + |Mesh|.
THEOREM DaemonTypes == Spec => []TypeOK
BY DaemonInvariant, PTL DEF DaemonInv

\* However many meshes a round has, and whatever their sessions did, every
\* goroutine finds room for its result: none waits for SyncMeshes, which reads
\* the channel only when all have ended.
THEOREM NoSenderBlocks == Spec => []SendersHaveRoom
<1>1. DaemonInv => SendersHaveRoom
  <2> SUFFICES ASSUME DaemonInv, NEW t \in Mesh, pc[t] \in {"changes", "nochanges"}
               PROVE  Len(results) < ChannelCapacity
    BY DEF SendersHaveRoom
  <2>1. round \in SUBSET Mesh
    BY DEF DaemonInv, TypeOK
  <2>2. Sent(pc, round) # round
    BY DEF DaemonInv, RoundInv, Sent
  <2>3. /\ Cardinality(round) \in Nat /\ Cardinality(Sent(pc, round)) \in Nat
        /\ Cardinality(Sent(pc, round)) <= Cardinality(round)
        /\ Cardinality(Sent(pc, round)) # Cardinality(round)
    BY <2>1, <2>2, RoundSizes
  <2> QED BY <2>3 DEF DaemonInv, RoundInv, ChannelCapacity
<1> QED BY <1>1, DaemonInvariant, PTL

\* The connection manager never has a closed connection for a host, for any
\* number of goroutines that look up, dial, put and remove connections.
THEOREM NoClosedConnectionCached == Spec => []CachedConnectionsOpen
<1>1. DaemonInv => CachedConnectionsOpen
  BY DEF DaemonInv, ConnInv, CachedConnectionsOpen
<1> QED BY <1>1, DaemonInvariant, PTL

\* When the channel has a result for each mesh of the round, every goroutine of
\* the daemon has returned: the results that SyncMeshes reads after wg.Wait are
\* those of this round, and no goroutine changes anything while it reads.
ResultsAreFinal ==
    round # {} /\ Len(results) = Cardinality(round) => \A t \in Mesh : pc[t] = "idle"

\* SyncMeshes reads its results when all of its goroutines have ended.
THEOREM WaitEndsTheRound == Spec => []ResultsAreFinal
<1>1. DaemonInv => ResultsAreFinal
  <2> SUFFICES ASSUME DaemonInv, Len(results) = Cardinality(round)
               PROVE  \A t \in Mesh : pc[t] = "idle"
    BY DEF ResultsAreFinal
  <2>1. Sent(pc, round) = round
    BY RoundSizes DEF DaemonInv, RoundInv, TypeOK
  <2> QED BY <2>1 DEF DaemonInv, RoundInv, Sent
<1> QED BY <1>1, DaemonInvariant, PTL
=============================================================================
