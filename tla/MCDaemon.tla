------------------------------- MODULE MCDaemon -------------------------------
(* Small instances of Daemon. *)
EXTENDS Daemon, TLC

CONSTANTS m1, m2, h1

\* The same daemon is the peer in both meshes.
OneHost == [m \in Mesh |-> h1]
=============================================================================
