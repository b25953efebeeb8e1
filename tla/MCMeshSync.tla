------------------------------ MODULE MCMeshSync ------------------------------
(* Small instances of MeshSync. *)
EXTENDS MeshSyncRegisters, TLC

CONSTANTS n1, n2, n3, v1, v2, t1, t2, h1, h2

Records == [value : Value, table : Table]
FirstRecord == [value |-> v1, table |-> t1]

HandlerSymmetry == Permutations(Handler)

\* Hashes far enough apart that sums of a few small clocks never coincide.
TwoKeyHash == (n1 :> 1) @@ (n2 :> 100)
ThreeKeyHash == TwoKeyHash @@ (n3 :> 10000)

TwoRank == (n1 :> 1) @@ (n2 :> 2)
ThreeRank == TwoRank @@ (n3 :> 3)
=============================================================================
