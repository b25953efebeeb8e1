----------------------------- MODULE MCRouteLeak -----------------------------
(* Small instances of RouteLeak. *)
EXTENDS RouteLeak, TLC

CONSTANTS n1, n2, n3, m1, m2, m3

\* Two daemons side by side between m1 and m2; m3 hangs on m2.
Parallel == {<<n1, m1>>, <<n1, m2>>, <<n2, m1>>, <<n2, m2>>, <<n3, m2>>, <<n3, m3>>}
ParallelChurn == {<<n3, m3>>, <<n2, m1>>}
TailDefault == {<<n3, m3>>}
=============================================================================
