----------------------------- MODULE MCMeshManager -----------------------------
(* Small instances of MeshManager. *)
EXTENDS MeshManager, TLC

\* Requests, meshes and halves of addresses differ in nothing but their names.
Symmetries == Permutations(Request) \cup Permutations(Mesh) \cup Permutations(InterfaceId)
=============================================================================
