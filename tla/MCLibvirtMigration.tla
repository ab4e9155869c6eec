------------------------- MODULE MCLibvirtMigration -------------------------
(* Values of the constants of LibvirtMigration for TLC.                     *)
EXTENDS LibvirtMigration, TLC

CONSTANTS p1, p2, h1, h2, u1, u2, c1, r1, r2

\* A host takes one of the domains.
SmallHost == {[cpus |-> 1, memoryMB |-> 1]}

SmallVM == {[vcpus |-> 1, memoryKiB |-> 1024]}

IdSymmetry == Permutations(Hosts) \cup Permutations(Ports) \cup Permutations(Uuids)
              \cup Permutations(RpcCalls)
=============================================================================
