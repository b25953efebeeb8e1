--------------------------- MODULE MeshSyncRegisters ---------------------------
(***************************************************************************)
(* MeshSync implements MeshRegisters: the version of k's register that a   *)
(* replica knows is its clock of k.                                        *)
(***************************************************************************)
EXTENDS MeshSync

Seen == [n \in Node |-> [k \in Node |-> At(store[n].vectors, k, ZeroVector).clock]]

Registers == INSTANCE MeshRegisters WITH seen <- Seen

\* The clocks of the store (IncrementClock, Clock.Merge, Prune) under sessions,
\* updates, joins, leaves, crashes and garbage collection behave like registers
\* that only their owners advance, for nodes that do not come back with a key
\* that they used before.
ImplementsRegisters == Registers!Spec
=============================================================================
