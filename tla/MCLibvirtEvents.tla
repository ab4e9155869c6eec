--------------------------- MODULE MCLibvirtEvents ---------------------------
(* Values of LibvirtEvents' constants for TLC.                              *)
EXTENDS LibvirtEvents, TLC

CONSTANTS p1, p2, h1, h2, u1, r1, k1, k2

\* A host takes one domain.
OneHost == {[cpus |-> 1, memoryMB |-> 1]}

OneVM == {[vcpus |-> 1, memoryKiB |-> 1024]}

ConnSymmetry == Permutations(Conns)

\* The domains stay on h1; clients connect to either host.
AtHome == \A p \in DOMAIN domains : p[1] = h1
=============================================================================
