----------------------------- MODULE StorageSim -----------------------------
(***************************************************************************)
(* The state store of storage-sim (storage-sim/internal/state/store.go):   *)
(* backends with capacity counters, volumes, snapshots, clones, and the    *)
(* goroutines that carry out a flatten or a storage migration.             *)
(*                                                                         *)
(* Store.mu is held for the whole of every Store method and for every      *)
(* critical section of a goroutine, so each of those is one action.  A     *)
(* method that returns an error changes nothing: its early returns are the *)
(* negated guards of the action.  The goroutines release the lock while    *)
(* they sleep, and look everything up again by id when they wake.          *)
(***************************************************************************)
EXTENDS Integers, FiniteSets, Maps

CONSTANTS
    Backends,     \* backend ids a client may use
    Volumes,      \* volume ids
    Snapshots,    \* snapshot ids
    Goroutines,   \* slots for goroutines alive at the same time
    NoSnapshot,   \* the empty ParentSnapshotID
    Totals,       \* total_capacity_gb of the backends a client registers
    Ratios,       \* overprovision_ratio of a registration, in percent
    Sizes,        \* size_gb a client asks for
    Thins,        \* thin_provisioned values a client asks for
    StateInputs,  \* backend states a client sets (the API takes any string)
    Steps,        \* progress steps of a goroutine (10 in the code)
    MaxOps,       \* bound: operations and migrations started between resets
    MaxListed     \* bound: occurrences of one id in a ChildClones list

ASSUME StorageAssumption ==
    /\ NoSnapshot \notin Snapshots
    /\ Totals \subseteq Nat /\ Ratios \subseteq Nat /\ Sizes \subseteq Int
    /\ Thins \subseteq BOOLEAN
    /\ Steps \in Nat \ {0} /\ MaxOps \in Nat /\ MaxListed \in Nat

VARIABLES
    backends,     \* Store.backends:   id -> [total, ratio, used, alloc, state]
    volumes,      \* Store.volumes:    id -> Volume
    snapshots,    \* Store.snapshots:  id -> Snapshot
    operations,   \* Store.operations: number in "op-%03d" -> Operation
    migrations,   \* Store.migrations: number in "mig-%03d" -> Migration
    opCounter,    \* Store.opCounter, shared by both kinds of id
    flatteners,   \* live runFlatten goroutines and their arguments
    movers,       \* live runMigration goroutines and their arguments
    stale         \* history: goroutines that were alive at the last Reset

vars == <<backends, volumes, snapshots, operations, migrations, opCounter,
          flatteners, movers, stale>>

-----------------------------------------------------------------------------
(***************************************************************************)
(* The records of the store.  Timestamps, progress figures, metadata, QoS  *)
(* and IOPS are left out.  ExportInfo is non-nil exactly when state is     *)
(* "in_use".                                                               *)
(***************************************************************************)
Backend == [total : Nat, ratio : Nat, used : Int, alloc : Int,
            state : StateInputs \cup {"active"}]

\* Volume.Snapshots never repeats an id, so it is a set.
Volume == [backend : Backends, size : Int, consumed : Int, thin : BOOLEAN,
           state : {"available", "in_use"}, snapshots : SUBSET Snapshots,
           parent : Snapshots \cup {NoSnapshot}]

\* Snapshot.ChildClones may repeat an id: clones[v] counts v's occurrences.
Snapshot == [volume : Volumes, size : Int, clones : [Volumes -> Nat]]

Operation == [volume : Volumes, state : {"running", "completed", "failed"}]

MigrationStates ==
    {"preparing", "transferring", "finishing", "completed", "failed"}

Migration == [volume : Volumes, src : Backends, dest : Backends,
              state : MigrationStates, cancelled : BOOLEAN]

\* A goroutine holds its arguments, and i, the loop steps it has done.
Flattener == [op : Nat, volume : Volumes, i : 0..Steps]

Mover == [mig : Nat, volume : Volumes, src : Backends, dest : Backends,
          size : Int, thin : BOOLEAN,
          pc : {"prepare", "transfer", "finish"}, i : 0..Steps]

NoClones == [v \in Volumes |-> 0]

\* int64(float64(b.TotalCapacityGB) * b.OverprovisionRatio)
MaxAlloc(b) == (backends[b].total * backends[b].ratio) \div 100

\* The capacity check shared by create, extend and migrate.
Fits(b, size, thin) ==
    IF thin THEN backends[b].alloc + size <= MaxAlloc(b)
            ELSE backends[b].used + size <= backends[b].total

\* The capacity counters of bs after d more GB on backend b, if b exists.
Charge(bs, b, d, thin) ==
    IF b \in DOMAIN bs
    THEN [bs EXCEPT ![b].alloc = @ + d,
                    ![b].used = IF thin THEN @ ELSE @ + d]
    ELSE bs

LiveGoroutines == DOMAIN flatteners \cup DOMAIN movers

-----------------------------------------------------------------------------
(***************************************************************************)
(* NewStore and Reset.  A reset replaces the maps and the counter; the     *)
(* goroutines that are asleep stay alive.                                  *)
(***************************************************************************)
Init ==
    /\ backends = EmptyMap
    /\ volumes = EmptyMap
    /\ snapshots = EmptyMap
    /\ operations = EmptyMap
    /\ migrations = EmptyMap
    /\ opCounter = 0
    /\ flatteners = EmptyMap
    /\ movers = EmptyMap
    /\ stale = {}

Reset ==
    /\ backends' = EmptyMap
    /\ volumes' = EmptyMap
    /\ snapshots' = EmptyMap
    /\ operations' = EmptyMap
    /\ migrations' = EmptyMap
    /\ opCounter' = 0
    /\ stale' = LiveGoroutines
    /\ UNCHANGED <<flatteners, movers>>

-----------------------------------------------------------------------------
(* Backends.                                                               *)

AddBackend(b, total, ratio) ==
    /\ b \notin DOMAIN backends
    /\ backends' = Put(backends, b,
                       [total |-> total,
                        ratio |-> IF ratio = 0 THEN 100 ELSE ratio,
                        used |-> 0, alloc |-> 0, state |-> "active"])
    /\ UNCHANGED <<volumes, snapshots, operations, migrations, opCounter,
                   flatteners, movers, stale>>

SetBackendState(b, st) ==
    /\ b \in DOMAIN backends
    /\ backends' = [backends EXCEPT ![b].state = st]
    /\ UNCHANGED <<volumes, snapshots, operations, migrations, opCounter,
                   flatteners, movers, stale>>

-----------------------------------------------------------------------------
(* Volumes.                                                                *)

NewVolume(b, size, thin, parent) ==
    [backend |-> b, size |-> size, consumed |-> 0, thin |-> thin,
     state |-> "available", snapshots |-> {}, parent |-> parent]

CreateVolume(v, b, size, thin) ==
    /\ v \notin DOMAIN volumes
    /\ b \in DOMAIN backends
    /\ backends[b].state = "active"
    /\ Fits(b, size, thin)
    /\ backends' = Charge(backends, b, size, thin)
    /\ volumes' = Put(volumes, v, NewVolume(b, size, thin, NoSnapshot))
    /\ UNCHANGED <<snapshots, operations, migrations, opCounter,
                   flatteners, movers, stale>>

\* Mutant: forgets the snapshots of the volume.
DeleteVolumeWithSnapshots(v) ==
    /\ v \in DOMAIN volumes
    /\ volumes[v].state # "in_use"
    /\ backends' = Charge(backends, volumes[v].backend, -volumes[v].size,
                          volumes[v].thin)
    /\ volumes' = Drop(volumes, v)
    /\ UNCHANGED <<snapshots, operations, migrations, opCounter,
                   flatteners, movers, stale>>

\* Mutant: returns a thick volume's size as if it were thin.
DeleteVolumeKeepsUsed(v) ==
    /\ v \in DOMAIN volumes
    /\ volumes[v].state # "in_use"
    /\ volumes[v].snapshots = {}
    /\ backends' = Charge(backends, volumes[v].backend, -volumes[v].size,
                          TRUE)
    /\ volumes' = Drop(volumes, v)
    /\ UNCHANGED <<snapshots, operations, migrations, opCounter,
                   flatteners, movers, stale>>

\* The clone list of the parent snapshot keeps the id of a deleted clone.
DeleteVolume(v) ==
    /\ v \in DOMAIN volumes
    /\ volumes[v].state # "in_use"
    /\ volumes[v].snapshots = {}
    /\ backends' = Charge(backends, volumes[v].backend, -volumes[v].size,
                          volumes[v].thin)
    /\ volumes' = Drop(volumes, v)
    /\ UNCHANGED <<snapshots, operations, migrations, opCounter,
                   flatteners, movers, stale>>

ExtendVolume(v, newSize) ==
    /\ v \in DOMAIN volumes
    /\ newSize > volumes[v].size
    /\ volumes[v].backend \in DOMAIN backends
    /\ LET diff == newSize - volumes[v].size
       IN  /\ Fits(volumes[v].backend, diff, volumes[v].thin)
           /\ backends' = Charge(backends, volumes[v].backend, diff,
                                 volumes[v].thin)
    /\ volumes' = [volumes EXCEPT ![v].size = newSize]
    /\ UNCHANGED <<snapshots, operations, migrations, opCounter,
                   flatteners, movers, stale>>

ExportVolume(v) ==
    /\ v \in DOMAIN volumes
    /\ volumes[v].state # "in_use"
    /\ volumes' = [volumes EXCEPT ![v].state = "in_use"]
    /\ UNCHANGED <<backends, snapshots, operations, migrations, opCounter,
                   flatteners, movers, stale>>

UnexportVolume(v) ==
    /\ v \in DOMAIN volumes
    /\ volumes[v].state = "in_use"
    /\ volumes' = [volumes EXCEPT ![v].state = "available"]
    /\ UNCHANGED <<backends, snapshots, operations, migrations, opCounter,
                   flatteners, movers, stale>>

-----------------------------------------------------------------------------
(* Snapshots and clones.                                                   *)

CreateSnapshot(v, s) ==
    /\ s \notin DOMAIN snapshots
    /\ v \in DOMAIN volumes
    /\ snapshots' = Put(snapshots, s, [volume |-> v, size |-> volumes[v].size,
                                       clones |-> NoClones])
    /\ volumes' = [volumes EXCEPT ![v].snapshots = @ \cup {s}]
    /\ UNCHANGED <<backends, operations, migrations, opCounter,
                   flatteners, movers, stale>>

\* Mutant: forgets the clones of the snapshot.
DeleteSnapshotWithClones(s) ==
    /\ s \in DOMAIN snapshots
    /\ volumes' = [volumes EXCEPT ![snapshots[s].volume].snapshots = @ \ {s}]
    /\ snapshots' = Drop(snapshots, s)
    /\ UNCHANGED <<backends, operations, migrations, opCounter,
                   flatteners, movers, stale>>

DeleteSnapshot(s) ==
    /\ s \in DOMAIN snapshots
    /\ snapshots[s].clones = NoClones
    /\ volumes' = IF snapshots[s].volume \in DOMAIN volumes
                  THEN [volumes EXCEPT
                          ![snapshots[s].volume].snapshots = @ \ {s}]
                  ELSE volumes
    /\ snapshots' = Drop(snapshots, s)
    /\ UNCHANGED <<backends, operations, migrations, opCounter,
                   flatteners, movers, stale>>

\* A clone is thin and lives on the backend of the snapshot's volume.
CloneFromSnapshot(s, v) ==
    /\ v \notin DOMAIN volumes
    /\ s \in DOMAIN snapshots
    /\ snapshots[s].volume \in DOMAIN volumes
    /\ snapshots[s].clones[v] < MaxListed
    /\ LET b == volumes[snapshots[s].volume].backend
           size == snapshots[s].size
       IN  /\ b \in DOMAIN backends
           /\ backends[b].state = "active"
           /\ Fits(b, size, TRUE)
           /\ backends' = Charge(backends, b, size, TRUE)
           /\ volumes' = Put(volumes, v, NewVolume(b, size, TRUE, s))
    /\ snapshots' = [snapshots EXCEPT ![s].clones[v] = @ + 1]
    /\ UNCHANGED <<operations, migrations, opCounter,
                   flatteners, movers, stale>>

-----------------------------------------------------------------------------
(***************************************************************************)
(* Flatten: StartFlatten spawns runFlatten, which wakes Steps times to     *)
(* report progress and then cuts the volume from its parent snapshot.      *)
(***************************************************************************)
FlattenExit(g) ==
    /\ flatteners' = Drop(flatteners, g)
    /\ stale' = stale \ {g}

StartFlatten(v, g) ==
    /\ v \in DOMAIN volumes
    /\ volumes[v].parent # NoSnapshot
    /\ opCounter < MaxOps /\ g \notin LiveGoroutines
    /\ opCounter' = opCounter + 1
    /\ operations' = Put(operations, opCounter',
                         [volume |-> v, state |-> "running"])
    /\ flatteners' = Put(flatteners, g,
                         [op |-> opCounter', volume |-> v, i |-> 0])
    /\ UNCHANGED <<backends, volumes, snapshots, migrations, movers, stale>>

\* The operation is gone (a reset): the goroutine returns.
FlattenAbandon(g) ==
    /\ flatteners[g].op \notin DOMAIN operations
    /\ FlattenExit(g)
    /\ UNCHANGED <<backends, volumes, snapshots, operations, migrations,
                   opCounter, movers>>

\* Mutant: one step too many.
FlattenProgressOffByOne(g) ==
    /\ flatteners[g].i <= Steps
    /\ flatteners[g].op \in DOMAIN operations
    /\ flatteners' = [flatteners EXCEPT ![g].i = @ + 1]
    /\ UNCHANGED <<backends, volumes, snapshots, operations, migrations,
                   opCounter, movers, stale>>

FlattenProgress(g) ==
    /\ flatteners[g].i < Steps
    /\ flatteners[g].op \in DOMAIN operations
    /\ flatteners' = [flatteners EXCEPT ![g].i = @ + 1]
    /\ UNCHANGED <<backends, volumes, snapshots, operations, migrations,
                   opCounter, movers, stale>>

\* Mutant: returns without marking the operation as failed.
FlattenFailSilently(g) ==
    /\ flatteners[g].i = Steps
    /\ flatteners[g].op \in DOMAIN operations
    /\ flatteners[g].volume \notin DOMAIN volumes
    /\ FlattenExit(g)
    /\ UNCHANGED <<backends, volumes, snapshots, operations, migrations,
                   opCounter, movers>>

\* The volume was deleted while the goroutine slept.
FlattenFail(g) ==
    /\ flatteners[g].i = Steps
    /\ flatteners[g].op \in DOMAIN operations
    /\ flatteners[g].volume \notin DOMAIN volumes
    /\ operations' = [operations EXCEPT ![flatteners[g].op].state = "failed"]
    /\ FlattenExit(g)
    /\ UNCHANGED <<backends, volumes, snapshots, migrations, opCounter,
                   movers>>

\* One occurrence of v leaves the clone list of s, if both are there.
RemoveClone(s, v) ==
    IF s \in DOMAIN snapshots /\ snapshots[s].clones[v] > 0
    THEN [snapshots EXCEPT ![s].clones[v] = @ - 1]
    ELSE snapshots

\* Mutant: reports on the operation that was started last.
FlattenCompleteLatest(g) ==
    LET v == flatteners[g].volume
    IN  /\ flatteners[g].i = Steps
        /\ flatteners[g].op \in DOMAIN operations
        /\ v \in DOMAIN volumes
        /\ volumes' = [volumes EXCEPT ![v].consumed = volumes[v].size,
                                      ![v].parent = NoSnapshot]
        /\ snapshots' = RemoveClone(volumes[v].parent, v)
        /\ operations' = IF opCounter \in DOMAIN operations
                         THEN [operations EXCEPT
                                 ![opCounter].state = "completed"]
                         ELSE operations
        /\ FlattenExit(g)
        /\ UNCHANGED <<backends, migrations, opCounter, movers>>

\* The parent is the one the volume has when the goroutine completes.
FlattenComplete(g) ==
    LET op == flatteners[g].op
        v == flatteners[g].volume
    IN  /\ flatteners[g].i = Steps
        /\ op \in DOMAIN operations
        /\ v \in DOMAIN volumes
        /\ volumes' = [volumes EXCEPT ![v].consumed = volumes[v].size,
                                      ![v].parent = NoSnapshot]
        /\ snapshots' = RemoveClone(volumes[v].parent, v)
        /\ operations' = [operations EXCEPT ![op].state = "completed"]
        /\ FlattenExit(g)
        /\ UNCHANGED <<backends, migrations, opCounter, movers>>

-----------------------------------------------------------------------------
(***************************************************************************)
(* Migration: StartMigration checks the destination's capacity without     *)
(* reserving it and spawns runMigration with the size and the backends it  *)
(* saw.  Each wake-up of the goroutine first looks for the migration and   *)
(* its cancelled flag.                                                     *)
(***************************************************************************)
MoverExit(g) ==
    /\ movers' = Drop(movers, g)
    /\ stale' = stale \ {g}

StartMigration(v, dest, g) ==
    /\ v \in DOMAIN volumes
    /\ volumes[v].snapshots = {}
    /\ dest \in DOMAIN backends
    /\ Fits(dest, volumes[v].size, volumes[v].thin)
    /\ opCounter < MaxOps /\ g \notin LiveGoroutines
    /\ opCounter' = opCounter + 1
    /\ migrations' = Put(migrations, opCounter',
                         [volume |-> v, src |-> volumes[v].backend,
                          dest |-> dest, state |-> "preparing",
                          cancelled |-> FALSE])
    /\ movers' = Put(movers, g,
                     [mig |-> opCounter', volume |-> v,
                      src |-> volumes[v].backend, dest |-> dest,
                      size |-> volumes[v].size, thin |-> volumes[v].thin,
                      pc |-> "prepare", i |-> 0])
    /\ UNCHANGED <<backends, volumes, snapshots, operations, flatteners,
                   stale>>

\* Mutant: raises the flag and leaves the state.
CancelMigrationFlagOnly(m) ==
    /\ m \in DOMAIN migrations
    /\ migrations[m].state \in {"preparing", "transferring"}
    /\ migrations' = [migrations EXCEPT ![m].cancelled = TRUE]
    /\ UNCHANGED <<backends, volumes, snapshots, operations, opCounter,
                   flatteners, movers, stale>>

CancelMigration(m) ==
    /\ m \in DOMAIN migrations
    /\ migrations[m].state \in {"preparing", "transferring"}
    /\ migrations' = [migrations EXCEPT ![m].cancelled = TRUE,
                                        ![m].state = "failed"]
    /\ UNCHANGED <<backends, volumes, snapshots, operations, opCounter,
                   flatteners, movers, stale>>

\* Mutant: does not look at the cancelled flag.
ProceedsIfFound(m) == m \in DOMAIN migrations

\* What a mover finds on waking up.
Proceeds(m) == m \in DOMAIN migrations /\ ~migrations[m].cancelled

\* The migration is gone or cancelled: the goroutine returns.
MigrateAbandon(g) ==
    /\ ~Proceeds(movers[g].mig)
    /\ MoverExit(g)
    /\ UNCHANGED <<backends, volumes, snapshots, operations, migrations,
                   opCounter, flatteners>>

MigrateBegin(g) ==
    /\ movers[g].pc = "prepare"
    /\ Proceeds(movers[g].mig)
    /\ movers' = [movers EXCEPT ![g].pc = "transfer"]
    /\ migrations' = [migrations EXCEPT
                        ![movers[g].mig].state = "transferring"]
    /\ UNCHANGED <<backends, volumes, snapshots, operations, opCounter,
                   flatteners, stale>>

MigrateProgress(g) ==
    /\ movers[g].pc = "transfer" /\ movers[g].i < Steps
    /\ Proceeds(movers[g].mig)
    /\ movers' = [movers EXCEPT ![g].i = @ + 1]
    /\ UNCHANGED <<backends, volumes, snapshots, operations, migrations,
                   opCounter, flatteners, stale>>

MigrateFinish(g) ==
    /\ movers[g].pc = "transfer" /\ movers[g].i = Steps
    /\ Proceeds(movers[g].mig)
    /\ movers' = [movers EXCEPT ![g].pc = "finish"]
    /\ migrations' = [migrations EXCEPT ![movers[g].mig].state = "finishing"]
    /\ UNCHANGED <<backends, volumes, snapshots, operations, opCounter,
                   flatteners, stale>>

\* The volume was deleted while the goroutine slept.
MigrateFail(g) ==
    /\ movers[g].pc = "finish"
    /\ Proceeds(movers[g].mig)
    /\ movers[g].volume \notin DOMAIN volumes
    /\ migrations' = [migrations EXCEPT ![movers[g].mig].state = "failed"]
    /\ MoverExit(g)
    /\ UNCHANGED <<backends, volumes, snapshots, operations, opCounter,
                   flatteners>>

\* The counters move by the size, and between the backends, of the start.
MigrateComplete(g) ==
    LET w == movers[g]
    IN  /\ w.pc = "finish"
        /\ Proceeds(w.mig)
        /\ w.volume \in DOMAIN volumes
        /\ backends' = Charge(Charge(backends, w.src, -w.size, w.thin),
                              w.dest, w.size, w.thin)
        /\ volumes' = [volumes EXCEPT ![w.volume].backend = w.dest]
        /\ migrations' = [migrations EXCEPT ![w.mig].state = "completed"]
        /\ MoverExit(g)
        /\ UNCHANGED <<snapshots, operations, opCounter, flatteners>>

-----------------------------------------------------------------------------
(* One wake-up of a goroutine, and one request of a client.                *)

RunFlatten(g) ==
    /\ g \in DOMAIN flatteners
    /\ \/ FlattenAbandon(g)
       \/ FlattenProgress(g)
       \/ FlattenFail(g)
       \/ FlattenComplete(g)

RunMigration(g) ==
    /\ g \in DOMAIN movers
    /\ \/ MigrateAbandon(g)
       \/ MigrateBegin(g)
       \/ MigrateProgress(g)
       \/ MigrateFinish(g)
       \/ MigrateFail(g)
       \/ MigrateComplete(g)

BackendRequest ==
    \E b \in Backends :
        \/ \E total \in Totals, ratio \in Ratios : AddBackend(b, total, ratio)
        \/ \E st \in StateInputs : SetBackendState(b, st)

VolumeRequest ==
    \E v \in Volumes :
        \/ \E b \in Backends, size \in Sizes, thin \in Thins :
               CreateVolume(v, b, size, thin)
        \/ DeleteVolume(v)
        \/ \E size \in Sizes : ExtendVolume(v, size)
        \/ ExportVolume(v)
        \/ UnexportVolume(v)

SnapshotRequest ==
    \E s \in Snapshots :
        \/ \E v \in Volumes : CreateSnapshot(v, s) \/ CloneFromSnapshot(s, v)
        \/ DeleteSnapshot(s)

AsyncRequest ==
    \/ \E v \in Volumes, g \in Goroutines :
           \/ StartFlatten(v, g)
           \/ \E b \in Backends : StartMigration(v, b, g)
    \/ \E m \in DOMAIN migrations : CancelMigration(m)

Request == BackendRequest \/ VolumeRequest \/ SnapshotRequest \/ AsyncRequest

Goroutine == \E g \in Goroutines : RunFlatten(g) \/ RunMigration(g)

Next == Request \/ Reset \/ Goroutine

Spec == Init /\ [][Next]_vars

\* time.Sleep ends and sync.Mutex does not starve a waiter, so a goroutine
\* that is alive eventually runs.  Nothing is assumed of the clients.
Fairness ==
    \A g \in Goroutines :
        WF_vars(RunFlatten(g)) /\ WF_vars(RunMigration(g))

-----------------------------------------------------------------------------
(* Properties.                                                             *)

\* The store holds records of the declared types; ids of operations and
\* migrations come from opCounter.
TypeOK ==
    /\ IsMap(backends, Backends, Backend)
    /\ IsMap(volumes, Volumes, Volume)
    /\ IsMap(snapshots, Snapshots, Snapshot)
    /\ IsMap(operations, Nat, Operation)
    /\ IsMap(migrations, Nat, Migration)
    /\ opCounter \in Nat
    /\ IsMap(flatteners, Goroutines, Flattener)
    /\ IsMap(movers, Goroutines, Mover)
    /\ stale \subseteq Goroutines

\* A snapshot and its volume know each other: DeleteVolume refuses a volume
\* with snapshots, so no snapshot ever loses the volume it was taken of, and
\* no volume lists a snapshot that is gone.
SnapshotIntegrity ==
    /\ \A s \in DOMAIN snapshots :
          /\ snapshots[s].volume \in DOMAIN volumes
          /\ s \in volumes[snapshots[s].volume].snapshots
    /\ \A v \in DOMAIN volumes : \A s \in volumes[v].snapshots :
          /\ s \in DOMAIN snapshots
          /\ snapshots[s].volume = v

\* A clone's parent snapshot exists, and counts the clone, until a flatten
\* has cut the clone loose: DeleteSnapshot and DeleteVolume can never take
\* away what a clone still depends on, whatever goroutine completes when.
CloneIntegrity ==
    \A v \in DOMAIN volumes :
        volumes[v].parent # NoSnapshot =>
            /\ volumes[v].parent \in DOMAIN snapshots
            /\ snapshots[volumes[v].parent].clones[v] > 0

\* A cancelled migration stays failed: the goroutine that wakes up after a
\* cancellation, or a goroutine of before a reset that finds a migration
\* with its number, never revives it.
CancelledStaysFailed ==
    \A m \in DOMAIN migrations :
        migrations[m].cancelled => migrations[m].state = "failed"

\* No operation is orphaned: whatever is reported as under way has a live
\* goroutine that will report on it again, even across resets that reuse
\* its number and deletions of its volume.
NothingOrphaned ==
    /\ \A n \in DOMAIN operations : operations[n].state = "running" =>
          \E g \in DOMAIN flatteners : flatteners[g].op = n
    /\ \A m \in DOMAIN migrations :
          migrations[m].state \notin {"completed", "failed"} =>
             \E g \in DOMAIN movers : movers[g].mig = m

\* Whatever a client starts ends: every flatten and every migration reaches
\* a terminal state, unless a reset takes its record away.
Running(n) == n \in DOMAIN operations /\ operations[n].state = "running"

Moving(m) == /\ m \in DOMAIN migrations
             /\ migrations[m].state \notin {"completed", "failed"}

EverythingEnds ==
    \A n \in 1..MaxOps : /\ Running(n) ~> ~Running(n)
                         /\ Moving(n) ~> ~Moving(n)
=============================================================================
