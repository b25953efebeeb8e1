----------------------------- MODULE MeshRegisters -----------------------------
(***************************************************************************)
(* What the replicated store promises to its users, without sessions,      *)
(* messages, clocks or time.  Every node has a register of its own, whose  *)
(* version only it advances.  A replica knows a version of each register:  *)
(* it moves towards the owner's, never back and never past it, or is       *)
(* forgotten; and a step of the system is about one replica.  MeshSync     *)
(* implements this.                                                        *)
(***************************************************************************)
EXTENDS Naturals

CONSTANT Node

VARIABLE seen    \* seen[n][k]: the version of k's register that n knows, or 0

\* What replica n knows of the others may catch up with their owners.
CatchesUp(n) == \A k \in Node \ {n} : /\ seen[n][k] <= seen'[n][k]
                                      /\ seen'[n][k] <= seen[k][k]

\* Node n enters with a copy of what another knows and its first version.
Enter(n) ==
    /\ \A k \in Node : seen[n][k] = 0
    /\ seen'[n][n] > 0
    /\ CatchesUp(n)

\* Node n writes to its register.
Publish(n) ==
    /\ seen'[n][n] > seen[n][n]
    /\ \A k \in Node \ {n} : seen'[n][k] = seen[n][k]

\* Replica n learns newer versions.
Learn(n) ==
    /\ seen'[n][n] = seen[n][n]
    /\ CatchesUp(n)

\* Replica n forgets registers of others that have been silent for too long.
Forget(n) ==
    /\ seen'[n][n] = seen[n][n]
    /\ \A k \in Node \ {n} : seen'[n][k] \in {0, seen[n][k]}

Init == seen = [n \in Node |-> [k \in Node |-> 0]]

Next == \E n \in Node : /\ \A o \in Node \ {n} : seen'[o] = seen[o]
                        /\ Enter(n) \/ Publish(n) \/ Learn(n) \/ Forget(n)

Spec == Init /\ [][Next]_seen
=============================================================================
