--------------------------- MODULE StorageSerial ---------------------------
(***************************************************************************)
(* The store of storage-sim under a client that waits for its migrations:  *)
(* it neither extends, deletes nor migrates a volume again while the API   *)
(* shows a migration of it in flight, and resets the simulator only when   *)
(* every goroutine has ended.  The code enforces none of this; this module *)
(* says what the store guarantees to a client that does it.                *)
(***************************************************************************)
EXTENDS StorageSim

Terminal == {"completed", "failed"}

\* What GET /migrations shows the client.  A cancelled migration is not in
\* flight, although its goroutine may sleep on.
InFlight(v) ==
    \E m \in DOMAIN migrations :
        migrations[m].volume = v /\ migrations[m].state \notin Terminal

WaitsForMigrations ==
    /\ \A v \in DOMAIN volumes :
          InFlight(v) => /\ v \in DOMAIN volumes'
                         /\ volumes'[v].size = volumes[v].size
    /\ \A m \in DOMAIN migrations' \ DOMAIN migrations :
          ~InFlight(migrations'[m].volume)
    /\ stale' = {}

SerialNext == Next /\ WaitsForMigrations

SerialSpec == Init /\ [][SerialNext]_vars

-----------------------------------------------------------------------------
(* Properties.                                                             *)

\* The GB of some volumes, one by one.
GBs(vs, size) == UNION {{v} \X (1..size[v]) : v \in vs}

\* The sum of their sizes.  No request is refused for a negative size, which
\* counts against the others.
SumOfSizes(vs, size) ==
    Cardinality(GBs(vs, size)) - Cardinality(GBs(vs, [v \in vs |-> -size[v]]))

TotalSize(vs) == SumOfSizes(vs, [v \in vs |-> volumes[v].size])

On(b) == {v \in DOMAIN volumes : volumes[v].backend = b}

Thick(b) == {v \in On(b) : ~volumes[v].thin}

\* AllocatedCapacityGB of a backend is the sum of the sizes of the volumes
\* on it (docs/spec/05-storage-sim.md, 5.4.1).
AllocatedIsSumOfSizes ==
    \A b \in DOMAIN backends : backends[b].alloc = TotalSize(On(b))

\* The capacity counters are exact, in the sense the checks of the code give
\* them: besides, UsedCapacityGB is the sum of the sizes of the thick volumes,
\* through create, clone, extend, delete, flatten, cancelled and completed
\* migrations.  That is the document's rule for a create ("used_capacity_gb
\* += volume.size_gb" if not thin) carried on, and not its sum: see
\* UsedIsConsumed.
AccountingExact ==
    /\ AllocatedIsSumOfSizes
    /\ \A b \in DOMAIN backends : backends[b].used = TotalSize(Thick(b))

\* UsedCapacityGB is the sum of ConsumedGB over the volumes and snapshots on
\* the backend (docs/spec/05-storage-sim.md, 5.4.1).  ConsumedGB of every
\* snapshot is 0 in the code.
UsedIsConsumed ==
    \A b \in DOMAIN backends :
        backends[b].used =
            SumOfSizes(On(b), [v \in On(b) |-> volumes[v].consumed])

\* No backend is allocated beyond its limit (docs/CONSISTENCY_CHECK.md,
\* E-006), which CreateVolume, ExtendVolume, CloneFromSnapshot and
\* StartMigration all check for thin volumes.
WithinOverprovision ==
    \A b \in DOMAIN backends : backends[b].alloc <= MaxAlloc(b)

StateOf(m, ids) == [i \in ids |-> IF i \in DOMAIN m THEN m[i].state
                                                    ELSE "absent"]

MigrationEdges ==
    {<<"preparing", "transferring">>, <<"transferring", "finishing">>,
     <<"finishing", "completed">>, <<"preparing", "failed">>,
     <<"transferring", "failed">>, <<"finishing", "failed">>}

MigrationLifecycle == INSTANCE AsyncLifecycle
    WITH Ids <- 1..MaxOps, Absent <- "absent", Initial <- "preparing",
         Edges <- MigrationEdges, st <- StateOf(migrations, 1..MaxOps)

FlattenLifecycle == INSTANCE AsyncLifecycle
    WITH Ids <- 1..MaxOps, Absent <- "absent", Initial <- "running",
         Edges <- {<<"running", "completed">>, <<"running", "failed">>},
         st <- StateOf(operations, 1..MaxOps)

\* A client sees every migration follow the documented life cycle: it appears
\* preparing, moves along the edges only and stays in the state it ends in,
\* with cancellations racing the goroutine at every wake-up.
MigrationRefinesLifecycle == MigrationLifecycle!Spec

\* A client sees every flatten run and then complete or fail for good,
\* whatever happens to its volume and whatever other flatten completes first.
FlattenRefinesLifecycle == FlattenLifecycle!Spec
=============================================================================
