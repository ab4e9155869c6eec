----------------------------- MODULE MCServices -----------------------------
(***************************************************************************)
(* The services that keep their state to themselves, for TLC.  No two of   *)
(* them share a variable, so whatever one of them can do it can do while   *)
(* the others stand still: a behaviour explores the service it has picked  *)
(* at the start.                                                           *)
(***************************************************************************)
EXTENDS Services

VARIABLE service   \* the service whose requests are explored

CONSTANTS l1, seed, q1, c1, c2, x1, x2, r1, p1, g1, g2

-----------------------------------------------------------------------------
(* Values of the constants.                                                *)

MCSite(rows, perRow, perRack, known) ==
    [rows |-> rows, racks |-> perRow, hosts |-> perRack, known |-> known]

MCEnvironments ==
    {<<MCSite(1, 2, 2, TRUE), MCSite(2, 1, 1, TRUE)>>,
     <<MCSite(2, 2, 1, TRUE)>>,
     <<MCSite(1, 1, 1, TRUE), MCSite(1, 1, 1, FALSE)>>, <<>>}

MCPart(kind, location, rack, role) ==
    [kind |-> kind, site |-> IF kind = "site" THEN 0 ELSE 1,
     location |-> location, rack |-> rack, role |-> role]

\* A bulk load with a location inside a location, and the seeding of an
\* environment with one rack that has no hosts yet, spelt out.
MCRequests ==
    seed :> <<MCPart("site", 0, 0, ""), MCPart("location", 0, 0, ""),
              MCPart("rack", 2, 0, "")>> @@
    l1 :> <<MCPart("site", 0, 0, ""), MCPart("location", 0, 0, ""),
            MCPart("location", 2, 0, ""), MCPart("rack", 3, 0, ""),
            MCPart("device", 3, 4, "")>>

ASSUME SeedSpelt == MCRequests[seed] = SeedRequest(<<MCSite(1, 1, 0, TRUE)>>)

MCTrigger(type, chance, after, repeat, from) ==
    [type |-> type, chance |-> chance, after |-> after, repeat |-> repeat,
     phase |-> from]

MCTriggers ==
    {MCTrigger("count", "zero", 1, FALSE, "unset"),
     MCTrigger("count", "zero", 2, TRUE, "unset"),
     MCTrigger("probabilistic", "some", 0, FALSE, "unset"),
     MCTrigger("probabilistic", "one", 0, FALSE, "unset"),
     MCTrigger("time", "zero", 0, FALSE, "before"),
     MCTrigger("other", "zero", 0, FALSE, "unset")}

MCTargets == [simulator : {""}, operation : {"", "create"}]

\* Two phases, and assertions that share a metric.
MCPhases == {<<>>, <<"unpaced", "paced">>}

MCAssertions == {<<>>, <<"latency", "latency", "success">>}

MCOperations == [simulator : {"libvirt-sim"}, operation : {"create", "delete"}]

-----------------------------------------------------------------------------
MCInit ==
    /\ Init
    /\ service \in {"netbox", "fault", "event", "snapshot", "ovn", "loadgen",
                    "datagen"}

MCNext ==
    \/ service = "netbox" /\ NetboxStep /\ UNCHANGED service
    \/ service = "fault" /\ FaultStep /\ UNCHANGED service
    \/ service = "event" /\ EventStep /\ UNCHANGED service
    \/ service = "snapshot" /\ SnapshotStep /\ UNCHANGED service
    \/ service = "ovn" /\ OvnStep /\ UNCHANGED service
    \/ service = "loadgen" /\ LoadgenStep /\ UNCHANGED service
    \/ service = "datagen" /\ DatagenStep /\ UNCHANGED service

\* A service that stands still has nothing to be fair about.
MCSpec ==
    /\ MCInit /\ [][MCNext]_<<service, vars>>
    /\ OvnFairness /\ LoadgenFairness

\* A restore that a change has overtaken is followed no further: what it goes
\* on to do to the components, their own changes can do as well.  And of the
\* snapshots, the first may be taken while components change.
Followed ==
    /\ \A r \in DOMAIN restores : restores[r].quiet
    /\ \A t \in taking : t.quiet \/ snapCounter = 1
=============================================================================
