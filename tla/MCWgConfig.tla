------------------------------ MODULE MCWgConfig ------------------------------
(* Small instances of WgConfig. *)
EXTENDS WgConfig, TLC

CONSTANTS n1, n2, n3, c1, m1, m2, d1

\* A peer with three peers and a client in one mesh and one of the peers in
\* another; a client with two peers in one mesh and one of them in another; and
\* a peer with a client that is behind it in one mesh and, at first, behind
\* another peer in the other.
TwoMeshes ==
    (n1 :> ((m1 :> {n1, n2, n3, c1}) @@ (m2 :> {n1, n2}))) @@
    (c1 :> ((m1 :> {c1, n1, n2}) @@ (m2 :> {c1, n2}))) @@
    (n3 :> ((m1 :> {n3, c1}) @@ (m2 :> {n2, n3, c1})))

TwoExits == n1 :> (m1 :> {n1, n2, n3})

\* The client lies between the peers on the ring.
PeerRing == (n1 :> 10) @@ (n2 :> 20) @@ (n3 :> 30)
Ring == PeerRing @@ (c1 :> 15)
=============================================================================
