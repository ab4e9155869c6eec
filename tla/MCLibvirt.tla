------------------------------ MODULE MCLibvirt ------------------------------
(* Values of LibvirtSim's constants for TLC.                                *)
EXTENDS LibvirtSim, TLC

CONSTANTS p1, p2, h1, h2, u1, u2, c1, c2, r1, r2

\* A host takes one of the domains.
SmallHost == {[cpus |-> 1, memoryMB |-> 1]}

SmallVM == {[vcpus |-> 1, memoryKiB |-> 1024]}

\* Management calls overlap as long as no domain is defined; domains are
\* explored next to one management call.
Overlaps == \/ Cardinality(DOMAIN creating \cup resetting) <= 1
            \/ domains = EmptyMap /\ preparing = EmptyMap

IdSymmetry == Permutations(Hosts) \cup Permutations(Ports) \cup Permutations(Uuids)
              \cup Permutations(HttpCalls) \cup Permutations(RpcCalls)
=============================================================================
