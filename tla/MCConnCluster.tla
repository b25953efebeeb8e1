----------------------------- MODULE MCConnCluster -----------------------------
(* All sorted lists of a few keys. *)
EXTENDS ConnCluster

CONSTANT Keys
MCId == 1 .. Keys
=============================================================================
