---------------------------- MODULE StorageProofs ----------------------------
(***************************************************************************)
(* The safety invariants of StorageSim hold for every set of ids, every    *)
(* choice of sizes and every bound.                                        *)
(***************************************************************************)
EXTENDS StorageSerial, MapProofs, FiniteSetTheorems

\* Charging a backend keeps the backends well typed and changes no state.
LEMMA ChargeType ==
    ASSUME NEW bs, IsMap(bs, Backends, Backend), NEW b, NEW d \in Int,
           NEW thin \in BOOLEAN
    PROVE  IsMap(Charge(bs, b, d, thin), Backends, Backend)
<1>1. CASE b \in DOMAIN bs
  <2> DEFINE r == [bs[b] EXCEPT !.alloc = @ + d,
                                !.used = IF thin THEN @ ELSE @ + d]
  <2>1. bs[b] \in Backend
    BY <1>1, MapValue
  <2>2. r \in Backend
    <3>1. bs[b].alloc + d \in Int /\ bs[b].used + d \in Int
      BY <2>1 DEF Backend
    <3>2. (IF thin THEN bs[b].used ELSE bs[b].used + d) \in Int
      BY <2>1, <3>1 DEF Backend
    <3> QED BY <2>1, <3>1, <3>2 DEF Backend
  <2>3. Charge(bs, b, d, thin) = [bs EXCEPT ![b] = r]
    BY <1>1 DEF Charge
  <2> HIDE DEF r
  <2>4. IsMap([bs EXCEPT ![b] = r], Backends, Backend)
    BY <1>1, <2>2, UpdateIsMap
  <2> QED BY <2>3, <2>4
<1>2. CASE b \notin DOMAIN bs
  BY <1>2 DEF Charge
<1> QED BY <1>1, <1>2

\* Charging b moves the counters of b and of no other backend.
LEMMA ChargeMoves ==
    ASSUME NEW bs, IsMap(bs, Backends, Backend), NEW b, NEW d \in Int,
           NEW thin \in BOOLEAN
    PROVE  /\ DOMAIN Charge(bs, b, d, thin) = DOMAIN bs
           /\ \A c \in DOMAIN bs :
                 /\ Charge(bs, b, d, thin)[c].alloc =
                       bs[c].alloc + (IF c = b THEN d ELSE 0)
                 /\ Charge(bs, b, d, thin)[c].used =
                       bs[c].used + (IF c = b /\ ~thin THEN d ELSE 0)
<1>1. \A c \in DOMAIN bs : bs[c].alloc \in Int /\ bs[c].used \in Int
  BY DEF IsMap, Backend
<1>2. CASE b \in DOMAIN bs
  <2> DEFINE r == [bs[b] EXCEPT !.alloc = @ + d,
                                !.used = IF thin THEN @ ELSE @ + d]
  <2>1. Charge(bs, b, d, thin) = [bs EXCEPT ![b] = r]
    BY <1>2 DEF Charge
  <2>2. bs[b] \in Backend
    BY <1>2, MapValue
  <2>3. /\ r.alloc = bs[b].alloc + d
        /\ r.used = IF thin THEN bs[b].used ELSE bs[b].used + d
    BY <2>2 DEF Backend
  <2> HIDE DEF r
  <2>4. DOMAIN [bs EXCEPT ![b] = r] = DOMAIN bs
    OBVIOUS
  <2>5. \A c \in DOMAIN bs :
           [bs EXCEPT ![b] = r][c] = IF c = b THEN r ELSE bs[c]
    BY DEF IsMap
  <2> QED BY <1>1, <1>2, <2>1, <2>3, <2>4, <2>5
<1>3. CASE b \notin DOMAIN bs
  BY <1>1, <1>3 DEF Charge
<1> QED BY <1>2, <1>3

\* Taking a clone off a list keeps the snapshots well typed.
LEMMA RemoveCloneType ==
    ASSUME TypeOK, NEW s, NEW v \in Volumes
    PROVE  IsMap(RemoveClone(s, v), Snapshots, Snapshot)
<1>1. CASE s \in DOMAIN snapshots /\ snapshots[s].clones[v] > 0
  <2> DEFINE r == [snapshots[s] EXCEPT !.clones[v] = @ - 1]
  <2>1. snapshots[s] \in Snapshot
    BY <1>1, MapValue DEF TypeOK
  <2>2. r \in Snapshot
    BY <1>1, <2>1 DEF Snapshot
  <2>3. RemoveClone(s, v) = [snapshots EXCEPT ![s] = r]
    BY <1>1 DEF RemoveClone
  <2> HIDE DEF r
  <2>4. IsMap([snapshots EXCEPT ![s] = r], Snapshots, Snapshot)
    BY <1>1, <2>2, UpdateIsMap DEF TypeOK
  <2> QED BY <2>3, <2>4
<1>2. CASE ~(s \in DOMAIN snapshots /\ snapshots[s].clones[v] > 0)
  BY <1>2 DEF RemoveClone, TypeOK
<1> QED BY <1>1, <1>2

\* Every step of the store keeps the records well typed.
LEMMA TypeStep == TypeOK /\ [Next]_vars => TypeOK'
<1> USE StorageAssumption DEF StorageAssumption
<1> SUFFICES ASSUME TypeOK, [Next]_vars PROVE TypeOK'
    OBVIOUS
<1> USE DEF TypeOK
<1>1. ASSUME NEW b \in Backends, NEW total \in Totals, NEW ratio \in Ratios,
             AddBackend(b, total, ratio)
      PROVE  TypeOK'
  <2> DEFINE q == IF ratio = 0 THEN 100 ELSE ratio
             r == [total |-> total, ratio |-> q, used |-> 0, alloc |-> 0,
                   state |-> "active"]
  <2>1. r \in Backend
    <3>1. total \in Nat /\ q \in Nat
      OBVIOUS
    <3> HIDE DEF q
    <3> QED BY <3>1 DEF Backend
  <2>2. IsMap(Put(backends, b, r), Backends, Backend)
    <3> HIDE DEF r
    <3> QED BY <2>1, PutIsMap
  <2> QED BY <1>1, <2>2 DEF AddBackend
<1>2. ASSUME NEW b \in Backends, NEW st \in StateInputs,
             SetBackendState(b, st)
      PROVE  TypeOK'
  <2>1. IsMap([backends EXCEPT ![b].state = st], Backends, Backend)
    BY <1>2 DEF SetBackendState, IsMap, Backend
  <2> QED BY <1>2, <2>1 DEF SetBackendState
<1>3. ASSUME NEW v \in Volumes, NEW b \in Backends, NEW size \in Sizes,
             NEW thin \in Thins, CreateVolume(v, b, size, thin)
      PROVE  TypeOK'
  <2>1. NewVolume(b, size, thin, NoSnapshot) \in Volume
    <3>1. size \in Int /\ thin \in BOOLEAN
      OBVIOUS
    <3> QED BY <3>1 DEF NewVolume, Volume
  <2>2. IsMap(volumes', Volumes, Volume)
    BY <1>3, <2>1, PutIsMap DEF CreateVolume
  <2>3. IsMap(backends', Backends, Backend)
    BY <1>3, ChargeType DEF CreateVolume
  <2> QED BY <1>3, <2>2, <2>3 DEF CreateVolume
<1>4. ASSUME NEW v \in Volumes, DeleteVolume(v)
      PROVE  TypeOK'
  <2>1. volumes[v] \in Volume
    BY <1>4, MapValue DEF DeleteVolume
  <2>2. -volumes[v].size \in Int /\ volumes[v].thin \in BOOLEAN
    BY <2>1 DEF Volume
  <2>3. IsMap(backends', Backends, Backend)
    BY <1>4, <2>2, ChargeType DEF DeleteVolume
  <2>4. IsMap(volumes', Volumes, Volume)
    BY <1>4, DropIsMap DEF DeleteVolume
  <2> QED BY <1>4, <2>3, <2>4 DEF DeleteVolume
<1>5. ASSUME NEW v \in Volumes, NEW size \in Sizes, ExtendVolume(v, size)
      PROVE  TypeOK'
  <2>1. volumes[v] \in Volume
    BY <1>5, MapValue DEF ExtendVolume
  <2>2. size - volumes[v].size \in Int /\ volumes[v].thin \in BOOLEAN
    BY <2>1 DEF Volume
  <2>3. IsMap(backends', Backends, Backend)
    BY <1>5, <2>2, ChargeType DEF ExtendVolume
  <2>4. IsMap(volumes', Volumes, Volume)
    BY <1>5 DEF ExtendVolume, IsMap, Volume
  <2> QED BY <1>5, <2>3, <2>4 DEF ExtendVolume
<1>6. ASSUME NEW v \in Volumes, ExportVolume(v) \/ UnexportVolume(v)
      PROVE  TypeOK'
  <2>1. IsMap(volumes', Volumes, Volume)
    BY <1>6 DEF ExportVolume, UnexportVolume, IsMap, Volume
  <2> QED BY <1>6, <2>1 DEF ExportVolume, UnexportVolume
<1>7. ASSUME NEW s \in Snapshots, NEW v \in Volumes, CreateSnapshot(v, s)
      PROVE  TypeOK'
  <2> DEFINE r == [volume |-> v, size |-> volumes[v].size,
                   clones |-> NoClones]
  <2>1. r \in Snapshot
    BY <1>7 DEF CreateSnapshot, IsMap, Volume, Snapshot, NoClones
  <2>2. IsMap(snapshots', Snapshots, Snapshot)
    BY <1>7, <2>1, PutIsMap DEF CreateSnapshot
  <2>3. IsMap(volumes', Volumes, Volume)
    BY <1>7 DEF CreateSnapshot, IsMap, Volume
  <2> QED BY <1>7, <2>2, <2>3 DEF CreateSnapshot
<1>8. ASSUME NEW s \in Snapshots, DeleteSnapshot(s)
      PROVE  TypeOK'
  <2>1. IsMap(volumes', Volumes, Volume)
    BY <1>8 DEF DeleteSnapshot, IsMap, Volume
  <2>2. IsMap(snapshots', Snapshots, Snapshot)
    BY <1>8, DropIsMap DEF DeleteSnapshot
  <2> QED BY <1>8, <2>1, <2>2 DEF DeleteSnapshot
<1>9. ASSUME NEW s \in Snapshots, NEW v \in Volumes, CloneFromSnapshot(s, v)
      PROVE  TypeOK'
  <2> DEFINE b == volumes[snapshots[s].volume].backend
             size == snapshots[s].size
  <2>1. b \in Backends /\ size \in Int
    BY <1>9 DEF CloneFromSnapshot, IsMap, Volume, Snapshot
  <2>2. NewVolume(b, size, TRUE, s) \in Volume
    BY <2>1 DEF NewVolume, Volume
  <2>3. IsMap(volumes', Volumes, Volume)
    BY <1>9, <2>2, PutIsMap DEF CloneFromSnapshot
  <2>4. IsMap(backends', Backends, Backend)
    BY <1>9, <2>1, ChargeType DEF CloneFromSnapshot
  <2>5. IsMap(snapshots', Snapshots, Snapshot)
    BY <1>9, SMTT(30) DEF CloneFromSnapshot, IsMap, Snapshot
  <2> QED BY <1>9, <2>3, <2>4, <2>5 DEF CloneFromSnapshot
<1>10. ASSUME NEW v \in Volumes, NEW g \in Goroutines, StartFlatten(v, g)
       PROVE  TypeOK'
  <2>1. opCounter' \in Nat
    BY <1>10 DEF StartFlatten
  <2>2. [volume |-> v, state |-> "running"] \in Operation
    BY DEF Operation
  <2>3. [op |-> opCounter', volume |-> v, i |-> 0] \in Flattener
    BY <2>1 DEF Flattener
  <2>4. IsMap(operations', Nat, Operation)
    BY <1>10, <2>1, <2>2, PutIsMap DEF StartFlatten
  <2>5. IsMap(flatteners', Goroutines, Flattener)
    BY <1>10, <2>3, PutIsMap DEF StartFlatten
  <2> QED BY <1>10, <2>1, <2>4, <2>5 DEF StartFlatten
<1>11. ASSUME NEW v \in Volumes, NEW b \in Backends, NEW g \in Goroutines,
              StartMigration(v, b, g)
       PROVE  TypeOK'
  <2>1. opCounter' \in Nat
    BY <1>11 DEF StartMigration
  <2>2. volumes[v] \in Volume
    BY <1>11, MapValue DEF StartMigration
  <2> DEFINE r == [volume |-> v, src |-> volumes[v].backend, dest |-> b,
                   state |-> "preparing", cancelled |-> FALSE]
             w == [mig |-> opCounter', volume |-> v,
                   src |-> volumes[v].backend, dest |-> b,
                   size |-> volumes[v].size, thin |-> volumes[v].thin,
                   pc |-> "prepare", i |-> 0]
  <2>3. r \in Migration
    BY <2>2 DEF Migration, MigrationStates, Volume
  <2>4. w \in Mover
    BY <2>1, <2>2 DEF Mover, Volume
  <2>5. IsMap(migrations', Nat, Migration)
    <3>1. migrations' = Put(migrations, opCounter', r)
      BY <1>11 DEF StartMigration
    <3> HIDE DEF r
    <3> QED BY <2>1, <2>3, <3>1, PutIsMap
  <2>6. IsMap(movers', Goroutines, Mover)
    <3>1. movers' = Put(movers, g, w)
      BY <1>11 DEF StartMigration
    <3> HIDE DEF w
    <3> QED BY <2>4, <3>1, PutIsMap
  <2> QED BY <1>11, <2>1, <2>5, <2>6 DEF StartMigration
<1>12. ASSUME NEW m \in DOMAIN migrations, CancelMigration(m)
       PROVE  TypeOK'
  <2> DEFINE r == [migrations[m] EXCEPT !.cancelled = TRUE,
                                        !.state = "failed"]
  <2>1. migrations[m] \in Migration
    BY MapValue
  <2>2. r \in Migration
    BY <2>1 DEF Migration, MigrationStates
  <2>3. migrations' = [migrations EXCEPT ![m] = r]
    BY <1>12 DEF CancelMigration
  <2>4. IsMap(migrations', Nat, Migration)
    <3> HIDE DEF r
    <3> QED BY <2>2, <2>3, UpdateIsMap
  <2> QED BY <1>12, <2>4 DEF CancelMigration
<1>13. CASE Reset
  BY <1>13, EmptyIsMap DEF Reset, LiveGoroutines, IsMap
<1>14. ASSUME NEW g \in Goroutines, RunFlatten(g)
       PROVE  TypeOK'
  <2>1. g \in DOMAIN flatteners /\ flatteners[g] \in Flattener
    BY <1>14, MapValue DEF RunFlatten
  <2>2. CASE FlattenAbandon(g)
    BY <2>2, DropIsMap DEF FlattenAbandon, FlattenExit
  <2>3. CASE FlattenProgress(g)
    <3>1. IsMap(flatteners', Goroutines, Flattener)
      BY <2>1, <2>3 DEF FlattenProgress, IsMap, Flattener
    <3> QED BY <2>3, <3>1 DEF FlattenProgress
  <2>4. CASE FlattenFail(g)
    <3>1. IsMap(operations', Nat, Operation)
      BY <2>4 DEF FlattenFail, IsMap, Operation
    <3> QED BY <2>4, <3>1, DropIsMap DEF FlattenFail, FlattenExit
  <2>5. CASE FlattenComplete(g)
    <3>1. IsMap(operations', Nat, Operation)
      BY <2>5 DEF FlattenComplete, IsMap, Operation
    <3>2. IsMap(volumes', Volumes, Volume)
      BY <2>5 DEF FlattenComplete, IsMap, Volume
    <3>3. IsMap(snapshots', Snapshots, Snapshot)
      BY <2>1, <2>5, RemoveCloneType DEF FlattenComplete, Flattener
    <3> QED BY <2>5, <3>1, <3>2, <3>3, DropIsMap
            DEF FlattenComplete, FlattenExit
  <2> QED BY <1>14, <2>2, <2>3, <2>4, <2>5 DEF RunFlatten
<1>15. ASSUME NEW g \in Goroutines, RunMigration(g)
       PROVE  TypeOK'
  <2>1. g \in DOMAIN movers /\ movers[g] \in Mover
    BY <1>15, MapValue DEF RunMigration
  <2>2. CASE MigrateAbandon(g)
    BY <2>2, DropIsMap DEF MigrateAbandon, MoverExit
  <2>3. CASE MigrateBegin(g) \/ MigrateProgress(g) \/ MigrateFinish(g)
    <3>1. IsMap(migrations', Nat, Migration)
      BY <2>3 DEF MigrateBegin, MigrateProgress, MigrateFinish, Proceeds,
                  IsMap, Migration, MigrationStates
    <3>2. IsMap(movers', Goroutines, Mover)
      BY <2>1, <2>3 DEF MigrateBegin, MigrateProgress, MigrateFinish, IsMap,
                        Mover
    <3> QED BY <2>3, <3>1, <3>2
            DEF MigrateBegin, MigrateProgress, MigrateFinish
  <2>4. CASE MigrateFail(g)
    <3>1. IsMap(migrations', Nat, Migration)
      BY <2>4 DEF MigrateFail, Proceeds, IsMap, Migration, MigrationStates
    <3> QED BY <2>4, <3>1, DropIsMap DEF MigrateFail, MoverExit
  <2>5. CASE MigrateComplete(g)
    <3> DEFINE w == movers[g]
               mid == Charge(backends, w.src, -w.size, w.thin)
    <3>1. /\ w.size \in Int /\ -w.size \in Int /\ w.thin \in BOOLEAN
          /\ w.dest \in Backends
      BY <2>1 DEF Mover
    <3>2. IsMap(mid, Backends, Backend)
      BY <3>1, ChargeType
    <3>3. IsMap(backends', Backends, Backend)
      BY <2>5, <3>1, <3>2, ChargeType DEF MigrateComplete
    <3>4. IsMap(volumes', Volumes, Volume)
      BY <2>5, <3>1 DEF MigrateComplete, IsMap, Volume
    <3>5. IsMap(migrations', Nat, Migration)
      BY <2>5 DEF MigrateComplete, Proceeds, IsMap, Migration,
                  MigrationStates
    <3> QED BY <2>5, <3>3, <3>4, <3>5, DropIsMap
            DEF MigrateComplete, MoverExit
  <2> QED BY <1>15, <2>2, <2>3, <2>4, <2>5 DEF RunMigration
<1>16. CASE UNCHANGED vars
  BY <1>16 DEF vars
<1> QED
  BY <1>1, <1>2, <1>3, <1>4, <1>5, <1>6, <1>7, <1>8, <1>9, <1>10, <1>11,
     <1>12, <1>13, <1>14, <1>15, <1>16
     DEF Next, Request, BackendRequest, VolumeRequest, SnapshotRequest,
         AsyncRequest, Goroutine

\* The records of the store are well typed in every reachable state.
THEOREM TypeCorrect == Spec => []TypeOK
<1>1. Init => TypeOK
  BY EmptyIsMap DEF Init, TypeOK
<1> QED BY <1>1, TypeStep, PTL DEF Spec

-----------------------------------------------------------------------------
(***************************************************************************)
(* SnapshotIntegrity and CloneIntegrity.  Most steps keep the links that   *)
(* the two speak of; the six that change them are looked at one by one.    *)
(***************************************************************************)
SameLinks ==
    /\ DOMAIN volumes' = DOMAIN volumes
    /\ \A v \in DOMAIN volumes : volumes'[v].snapshots = volumes[v].snapshots
    /\ DOMAIN snapshots' = DOMAIN snapshots
    /\ \A s \in DOMAIN snapshots : snapshots'[s].volume = snapshots[s].volume

SameParents ==
    /\ \A v \in DOMAIN volumes : volumes'[v].parent = volumes[v].parent
    /\ snapshots' = snapshots

\* Every step is one of the six that add, remove or link volumes and
\* snapshots, or a flatten that completes, or keeps all links.
LEMMA LinkSteps ==
    ASSUME TypeOK, [Next]_vars
    PROVE  \/ SameLinks /\ SameParents
           \/ \E g \in DOMAIN flatteners : FlattenComplete(g)
           \/ Reset
           \/ \E v \in Volumes, b \in Backends, size \in Sizes,
                 thin \in Thins : CreateVolume(v, b, size, thin)
           \/ \E v \in Volumes : DeleteVolume(v)
           \/ \E s \in Snapshots, v \in Volumes :
                 CreateSnapshot(v, s) \/ CloneFromSnapshot(s, v)
           \/ \E s \in Snapshots : DeleteSnapshot(s)
<1> USE DEF SameLinks, SameParents
<1>1. CASE UNCHANGED <<volumes, snapshots>>
  BY <1>1
<1>2. ASSUME NEW v \in Volumes, NEW size \in Sizes, ExtendVolume(v, size)
      PROVE  SameLinks /\ SameParents
  BY <1>2 DEF ExtendVolume, TypeOK, IsMap, Volume
<1>3. ASSUME NEW v \in Volumes, ExportVolume(v) \/ UnexportVolume(v)
      PROVE  SameLinks /\ SameParents
  BY <1>3 DEF ExportVolume, UnexportVolume, TypeOK, IsMap, Volume
<1>4. ASSUME NEW g \in Goroutines, RunMigration(g)
      PROVE  SameLinks /\ SameParents
  <2>1. CASE UNCHANGED <<volumes, snapshots>>
    BY <2>1
  <2>2. CASE MigrateComplete(g)
    BY <2>2 DEF MigrateComplete, TypeOK, IsMap, Volume
  <2> QED BY <1>4, <2>1, <2>2
          DEF RunMigration, MigrateAbandon, MigrateBegin, MigrateProgress,
              MigrateFinish, MigrateFail
<1>5. ASSUME NEW g \in Goroutines, RunFlatten(g)
      PROVE  \/ UNCHANGED <<volumes, snapshots>>
             \/ g \in DOMAIN flatteners /\ FlattenComplete(g)
  BY <1>5 DEF RunFlatten, FlattenAbandon, FlattenProgress, FlattenFail
<1>6. CASE BackendRequest \/ AsyncRequest \/ UNCHANGED vars
  BY <1>1, <1>6 DEF BackendRequest, AsyncRequest, AddBackend, SetBackendState,
                    StartFlatten, StartMigration, CancelMigration, vars
<1>7. CASE VolumeRequest
  BY <1>2, <1>3, <1>7 DEF VolumeRequest
<1>8. CASE SnapshotRequest \/ Reset
  BY <1>8 DEF SnapshotRequest
<1>9. CASE Goroutine
  BY <1>1, <1>4, <1>5, <1>9 DEF Goroutine
<1> QED BY <1>6, <1>7, <1>8, <1>9 DEF Next, Request

\* Every step keeps volumes and their snapshots linked both ways.
LEMMA SnapshotStep ==
    TypeOK /\ SnapshotIntegrity /\ [Next]_vars => SnapshotIntegrity'
<1> SUFFICES ASSUME TypeOK, SnapshotIntegrity, [Next]_vars
             PROVE  SnapshotIntegrity'
    OBVIOUS
<1> USE DEF SnapshotIntegrity
<1>1. CASE SameLinks
  BY <1>1 DEF SameLinks, TypeOK, IsMap
<1>2. ASSUME NEW g \in DOMAIN flatteners, FlattenComplete(g)
      PROVE  SnapshotIntegrity'
  <2>1. SameLinks
    BY <1>2 DEF FlattenComplete, RemoveClone, SameLinks, TypeOK, IsMap,
                Volume, Snapshot
  <2> QED BY <1>1, <2>1
<1>3. CASE Reset
  BY <1>3, EmptyIsMap DEF Reset
<1>4. ASSUME NEW v \in Volumes, NEW b \in Backends, NEW size \in Sizes,
             NEW thin \in Thins, CreateVolume(v, b, size, thin)
      PROVE  SnapshotIntegrity'
  BY <1>4 DEF CreateVolume, Put, NewVolume, TypeOK, IsMap
<1>5. ASSUME NEW v \in Volumes, DeleteVolume(v)
      PROVE  SnapshotIntegrity'
  <2>1. \A s \in DOMAIN snapshots : snapshots[s].volume # v
    BY <1>5 DEF DeleteVolume
  <2> QED BY <1>5, <2>1 DEF DeleteVolume, Drop, Restrict, TypeOK, IsMap
<1>6. ASSUME NEW s \in Snapshots, NEW v \in Volumes, CreateSnapshot(v, s)
      PROVE  SnapshotIntegrity'
  BY <1>6 DEF CreateSnapshot, Put, TypeOK, IsMap, Volume
<1>7. ASSUME NEW s \in Snapshots, NEW v \in Volumes, CloneFromSnapshot(s, v)
      PROVE  SnapshotIntegrity'
  <2>1. /\ DOMAIN snapshots' = DOMAIN snapshots
        /\ \A x \in DOMAIN snapshots :
              snapshots'[x].volume = snapshots[x].volume
    BY <1>7 DEF CloneFromSnapshot, TypeOK, IsMap, Snapshot
  <2> QED BY <1>7, <2>1 DEF CloneFromSnapshot, Put, NewVolume, TypeOK, IsMap
<1>8. ASSUME NEW s \in Snapshots, DeleteSnapshot(s)
      PROVE  SnapshotIntegrity'
  BY <1>8 DEF DeleteSnapshot, Drop, Restrict, TypeOK, IsMap, Volume
<1> QED BY <1>1, <1>2, <1>3, <1>4, <1>5, <1>6, <1>7, <1>8, LinkSteps

\* Every step keeps the parent of a clone, and the clone on its list.
LEMMA CloneStep ==
    TypeOK /\ CloneIntegrity /\ [Next]_vars => CloneIntegrity'
<1> SUFFICES ASSUME TypeOK, CloneIntegrity, [Next]_vars
             PROVE  CloneIntegrity'
    OBVIOUS
<1> USE DEF CloneIntegrity
<1>1. CASE SameLinks /\ SameParents
  BY <1>1 DEF SameLinks, SameParents
<1>2. ASSUME NEW g \in DOMAIN flatteners, FlattenComplete(g)
      PROVE  CloneIntegrity'
  <2> DEFINE v == flatteners[g].volume
  <2>1. /\ v \in DOMAIN volumes /\ v \in Volumes
        /\ DOMAIN volumes' = DOMAIN volumes
        /\ volumes'[v].parent = NoSnapshot
        /\ \A x \in DOMAIN volumes \ {v} : volumes'[x] = volumes[x]
    <3> DEFINE f == [volumes[v] EXCEPT !.consumed = volumes[v].size,
                                       !.parent = NoSnapshot]
    <3>1. /\ v \in DOMAIN volumes /\ v \in Volumes
          /\ volumes[v] \in Volume
      BY <1>2, MapValue DEF FlattenComplete, TypeOK
    <3>2. volumes' = [volumes EXCEPT ![v] = f]
      BY <1>2 DEF FlattenComplete
    <3>3. f.parent = NoSnapshot
      BY <3>1 DEF Volume
    <3> HIDE DEF f
    <3> QED BY <3>1, <3>2, <3>3 DEF TypeOK, IsMap
  <2>2. /\ DOMAIN snapshots' = DOMAIN snapshots
        /\ \A s \in DOMAIN snapshots, x \in Volumes \ {v} :
              snapshots'[s].clones[x] = snapshots[s].clones[x]
    BY <1>2, <2>1 DEF FlattenComplete, RemoveClone, TypeOK, IsMap, Snapshot
  <2> QED BY <2>1, <2>2 DEF TypeOK, IsMap
<1>3. CASE Reset
  BY <1>3, EmptyIsMap DEF Reset
<1>4. ASSUME NEW v \in Volumes, NEW b \in Backends, NEW size \in Sizes,
             NEW thin \in Thins, CreateVolume(v, b, size, thin)
      PROVE  CloneIntegrity'
  BY <1>4 DEF CreateVolume, Put, NewVolume, TypeOK, IsMap
<1>5. ASSUME NEW v \in Volumes, DeleteVolume(v)
      PROVE  CloneIntegrity'
  BY <1>5 DEF DeleteVolume, Drop, Restrict, TypeOK, IsMap
<1>6. ASSUME NEW s \in Snapshots, NEW v \in Volumes, CreateSnapshot(v, s)
      PROVE  CloneIntegrity'
  BY <1>6 DEF CreateSnapshot, Put, TypeOK, IsMap, Volume
<1>7. ASSUME NEW s \in Snapshots, NEW v \in Volumes, CloneFromSnapshot(s, v)
      PROVE  CloneIntegrity'
  <2>1. /\ DOMAIN snapshots' = DOMAIN snapshots
        /\ \A x \in DOMAIN snapshots, y \in Volumes :
              snapshots'[x].clones[y] >= snapshots[x].clones[y]
        /\ snapshots'[s].clones[v] > 0
    <3> DEFINE c == snapshots[s].clones
    <3>1. s \in DOMAIN snapshots /\ c \in [Volumes -> Nat]
      BY <1>7 DEF CloneFromSnapshot, TypeOK, IsMap, Snapshot
    <3>2. /\ DOMAIN snapshots' = DOMAIN snapshots
          /\ snapshots'[s].clones = [c EXCEPT ![v] = @ + 1]
          /\ \A x \in DOMAIN snapshots \ {s} : snapshots'[x] = snapshots[x]
      BY <1>7 DEF CloneFromSnapshot, TypeOK, IsMap, Snapshot
    <3>3. \A x \in DOMAIN snapshots, y \in Volumes :
             snapshots[x].clones[y] \in Nat
      BY DEF TypeOK, IsMap, Snapshot
    <3>4. \A y \in Volumes : snapshots'[s].clones[y] >= c[y]
      BY <3>1, <3>2
    <3>5. snapshots'[s].clones[v] > 0
      BY <3>1, <3>2
    <3>6. \A x \in DOMAIN snapshots \ {s}, y \in Volumes :
             snapshots'[x].clones[y] >= snapshots[x].clones[y]
      BY <3>2, <3>3
    <3> QED BY <3>2, <3>4, <3>5, <3>6
  <2>2. /\ DOMAIN volumes' = DOMAIN volumes \cup {v}
        /\ volumes'[v].parent = s
        /\ \A x \in DOMAIN volumes : volumes'[x] = volumes[x]
    BY <1>7 DEF CloneFromSnapshot, Put, NewVolume
  <2>3. /\ s \in DOMAIN snapshots /\ DOMAIN volumes \subseteq Volumes
        /\ \A x \in DOMAIN snapshots, y \in Volumes :
              /\ snapshots[x].clones[y] \in Int
              /\ snapshots'[x].clones[y] \in Int
    <3>1. TypeOK'
      BY TypeStep
    <3> QED BY <1>7, <2>1, <3>1 DEF CloneFromSnapshot, TypeOK, IsMap, Snapshot
  <2> QED BY <2>1, <2>2, <2>3
<1>8. ASSUME NEW s \in Snapshots, DeleteSnapshot(s)
      PROVE  CloneIntegrity'
  <2>1. \A x \in Volumes : snapshots[s].clones[x] = 0
    BY <1>8 DEF DeleteSnapshot, NoClones
  <2>2. /\ DOMAIN volumes' = DOMAIN volumes
        /\ \A x \in DOMAIN volumes : volumes'[x].parent = volumes[x].parent
    BY <1>8 DEF DeleteSnapshot, TypeOK, IsMap, Volume
  <2>3. \A x \in DOMAIN volumes : volumes[x].parent # s
    BY <1>8, <2>1, StorageAssumption
       DEF StorageAssumption, DeleteSnapshot, TypeOK, IsMap
  <2> QED BY <1>8, <2>2, <2>3 DEF DeleteSnapshot, Drop, Restrict, TypeOK, IsMap
<1> QED BY <1>1, <1>2, <1>3, <1>4, <1>5, <1>6, <1>7, <1>8, LinkSteps

-----------------------------------------------------------------------------
(* CancelledStaysFailed and NothingOrphaned.                               *)

\* No step takes a cancelled migration out of the failed state.
LEMMA CancelStep ==
    TypeOK /\ CancelledStaysFailed /\ [Next]_vars => CancelledStaysFailed'
<1> SUFFICES ASSUME TypeOK, CancelledStaysFailed, [Next]_vars
             PROVE  CancelledStaysFailed'
    OBVIOUS
<1> USE DEF CancelledStaysFailed
<1>1. CASE UNCHANGED migrations
  BY <1>1
<1>2. CASE Reset
  BY <1>2, EmptyIsMap DEF Reset
<1>3. ASSUME NEW v \in Volumes, NEW b \in Backends, NEW g \in Goroutines,
             StartMigration(v, b, g)
      PROVE  CancelledStaysFailed'
  BY <1>3 DEF StartMigration, Put
<1>4. ASSUME NEW m \in DOMAIN migrations, CancelMigration(m)
      PROVE  CancelledStaysFailed'
  BY <1>4 DEF CancelMigration, TypeOK, IsMap, Migration
<1>5. ASSUME NEW g \in Goroutines, RunMigration(g)
      PROVE  CancelledStaysFailed'
  BY <1>1, <1>5 DEF RunMigration, MigrateAbandon, MigrateBegin,
     MigrateProgress, MigrateFinish, MigrateFail, MigrateComplete, Proceeds,
     TypeOK, IsMap, Migration
<1>6. CASE BackendRequest \/ VolumeRequest \/ SnapshotRequest
  BY <1>1, <1>6 DEF BackendRequest, VolumeRequest, SnapshotRequest,
     AddBackend, SetBackendState, CreateVolume, DeleteVolume, ExtendVolume,
     ExportVolume, UnexportVolume, CreateSnapshot, DeleteSnapshot,
     CloneFromSnapshot
<1>7. CASE AsyncRequest
  <2>1. ASSUME NEW v \in Volumes, NEW g \in Goroutines, StartFlatten(v, g)
        PROVE  CancelledStaysFailed'
    BY <1>1, <2>1 DEF StartFlatten
  <2> QED BY <1>3, <1>4, <1>7, <2>1 DEF AsyncRequest
<1>8. CASE Goroutine
  <2>1. ASSUME NEW g \in Goroutines, RunFlatten(g)
        PROVE  CancelledStaysFailed'
    BY <1>1, <2>1 DEF RunFlatten, FlattenAbandon, FlattenProgress,
       FlattenFail, FlattenComplete
  <2> QED BY <1>5, <1>8, <2>1 DEF Goroutine
<1>9. CASE UNCHANGED vars
  BY <1>1, <1>9 DEF vars
<1> QED BY <1>2, <1>6, <1>7, <1>8, <1>9 DEF Next, Request

\* A goroutine ends only when the record it drives is gone or terminal.
LEMMA OrphanStep ==
    /\ TypeOK /\ CancelledStaysFailed /\ NothingOrphaned
    /\ [Next]_vars
    => NothingOrphaned'
<1> SUFFICES ASSUME TypeOK, CancelledStaysFailed, NothingOrphaned,
                    [Next]_vars
             PROVE  NothingOrphaned'
    OBVIOUS
<1> USE DEF NothingOrphaned
<1>1. CASE UNCHANGED <<operations, migrations, flatteners, movers>>
  BY <1>1
<1>2. CASE Reset
  BY <1>2, EmptyIsMap DEF Reset
<1>3. ASSUME NEW v \in Volumes, NEW g \in Goroutines, StartFlatten(v, g)
      PROVE  NothingOrphaned'
  BY <1>3 DEF StartFlatten, Put, LiveGoroutines
<1>4. ASSUME NEW v \in Volumes, NEW b \in Backends, NEW g \in Goroutines,
             StartMigration(v, b, g)
      PROVE  NothingOrphaned'
  BY <1>4 DEF StartMigration, Put, LiveGoroutines
<1>5. ASSUME NEW m \in DOMAIN migrations, CancelMigration(m)
      PROVE  NothingOrphaned'
  BY <1>5 DEF CancelMigration, TypeOK, IsMap, Migration
<1>6. ASSUME NEW g \in Goroutines, RunFlatten(g)
      PROVE  NothingOrphaned'
  <2> g \in DOMAIN flatteners
    BY <1>6 DEF RunFlatten
  <2>1. CASE FlattenAbandon(g)
    BY <2>1 DEF FlattenAbandon, FlattenExit, Drop, Restrict
  <2>2. CASE FlattenProgress(g)
    BY <2>2 DEF FlattenProgress, TypeOK, IsMap, Flattener
  <2>3. CASE FlattenFail(g)
    BY <2>3 DEF FlattenFail, FlattenExit, Drop, Restrict, TypeOK, IsMap,
                Operation
  <2>4. CASE FlattenComplete(g)
    BY <2>4 DEF FlattenComplete, FlattenExit, Drop, Restrict, TypeOK, IsMap,
                Operation
  <2> QED BY <1>6, <2>1, <2>2, <2>3, <2>4 DEF RunFlatten
<1>7. ASSUME NEW g \in Goroutines, RunMigration(g)
      PROVE  NothingOrphaned'
  <2> g \in DOMAIN movers
    BY <1>7 DEF RunMigration
  <2>1. CASE MigrateAbandon(g)
    BY <2>1 DEF MigrateAbandon, MoverExit, Drop, Restrict, Proceeds,
                CancelledStaysFailed
  <2>2. CASE MigrateBegin(g) \/ MigrateProgress(g) \/ MigrateFinish(g)
    <3>1. /\ DOMAIN movers' = DOMAIN movers
          /\ \A x \in DOMAIN movers : movers'[x].mig = movers[x].mig
      BY <2>2 DEF MigrateBegin, MigrateProgress, MigrateFinish, TypeOK, IsMap,
                  Mover
    <3>2. /\ DOMAIN migrations' = DOMAIN migrations
          /\ \A x \in DOMAIN migrations \ {movers[g].mig} :
                migrations'[x] = migrations[x]
      BY <2>2 DEF MigrateBegin, MigrateProgress, MigrateFinish, TypeOK, IsMap
    <3>3. UNCHANGED <<operations, flatteners>>
      BY <2>2 DEF MigrateBegin, MigrateProgress, MigrateFinish
    <3> QED BY <3>1, <3>2, <3>3
  <2>3. CASE MigrateFail(g)
    BY <2>3 DEF MigrateFail, MoverExit, Drop, Restrict, TypeOK, IsMap,
                Migration
  <2>4. CASE MigrateComplete(g)
    BY <2>4 DEF MigrateComplete, MoverExit, Drop, Restrict, TypeOK, IsMap,
                Migration
  <2> QED BY <1>7, <2>1, <2>2, <2>3, <2>4 DEF RunMigration
<1>8. CASE BackendRequest \/ VolumeRequest \/ SnapshotRequest
  <2>1. CASE BackendRequest
    BY <1>1, <2>1 DEF BackendRequest, AddBackend, SetBackendState
  <2>2. CASE VolumeRequest
    BY <1>1, <2>2 DEF VolumeRequest, CreateVolume, DeleteVolume,
                      ExtendVolume, ExportVolume, UnexportVolume
  <2>3. CASE SnapshotRequest
    BY <1>1, <2>3 DEF SnapshotRequest, CreateSnapshot, DeleteSnapshot,
                      CloneFromSnapshot
  <2> QED BY <1>8, <2>1, <2>2, <2>3
<1>9. CASE AsyncRequest
  BY <1>3, <1>4, <1>5, <1>9 DEF AsyncRequest
<1>10. CASE Goroutine
  BY <1>6, <1>7, <1>10 DEF Goroutine
<1>11. CASE UNCHANGED vars
  BY <1>1, <1>11 DEF vars
<1> QED BY <1>2, <1>8, <1>9, <1>10, <1>11 DEF Next, Request

-----------------------------------------------------------------------------
(* The invariants, of every behaviour.                                     *)

\* No snapshot ever loses its volume, and no volume lists a lost snapshot.
THEOREM SnapshotsSafe == Spec => []SnapshotIntegrity
<1>1. Init => SnapshotIntegrity
  BY EmptyIsMap DEF Init, SnapshotIntegrity
<1> QED BY <1>1, SnapshotStep, TypeCorrect, PTL DEF Spec

\* No clone ever loses the snapshot it depends on.
THEOREM ClonesSafe == Spec => []CloneIntegrity
<1>1. Init => CloneIntegrity
  BY EmptyIsMap DEF Init, CloneIntegrity
<1> QED BY <1>1, CloneStep, TypeCorrect, PTL DEF Spec

\* A cancelled migration is never revived.
THEOREM CancelSafe == Spec => []CancelledStaysFailed
<1>1. Init => CancelledStaysFailed
  BY EmptyIsMap DEF Init, CancelledStaysFailed
<1> QED BY <1>1, CancelStep, TypeCorrect, PTL DEF Spec

\* Whatever is reported as under way has a live goroutine.
THEOREM NoOrphans == Spec => []NothingOrphaned
<1>1. Init => NothingOrphaned
  BY EmptyIsMap DEF Init, NothingOrphaned
<1> QED BY <1>1, OrphanStep, CancelSafe, TypeCorrect, PTL DEF Spec

-----------------------------------------------------------------------------
(***************************************************************************)
(* What a client that waits for its migrations can count on.  The capacity *)
(* counters follow the volumes only as long as a mover still knows the     *)
(* size, the kind and the place of its volume, which it noted when it was  *)
(* started; and the states that a client reads follow the life cycle only  *)
(* as long as each record has one goroutine, whose place in its code shows *)
(* in the record.                                                          *)
(***************************************************************************)
\* No goroutine is left over from before a reset, and the numbers of the
\* records are those that the counter has given out.
NumbersGiven ==
    /\ stale = {}
    /\ opCounter <= MaxOps
    /\ DOMAIN operations \subseteq 1..opCounter
    /\ DOMAIN migrations \subseteq 1..opCounter

\* Every flattener has a running operation of its own.
FlattenersPaired ==
    /\ \A g \in DOMAIN flatteners :
          /\ flatteners[g].op \in DOMAIN operations
          /\ operations[flatteners[g].op].state = "running"
    /\ \A g, k \in DOMAIN flatteners :
          flatteners[g].op = flatteners[k].op => g = k

\* The state that a migration shows while its goroutine is at pc.
Shown(pc) == CASE pc = "prepare"  -> "preparing"
               [] pc = "transfer" -> "transferring"
               [] pc = "finish"   -> "finishing"

\* Every mover has a migration of its own, which shows where it is unless it
\* was cancelled.
MoversPaired ==
    /\ \A g \in DOMAIN movers :
          /\ movers[g].mig \in DOMAIN migrations
          /\ migrations[movers[g].mig].volume = movers[g].volume
          /\ Proceeds(movers[g].mig) =>
                migrations[movers[g].mig].state = Shown(movers[g].pc)
    /\ \A g, k \in DOMAIN movers : movers[g].mig = movers[k].mig => g = k

\* What a mover that goes on has noted of its volume is still true, and no
\* other such mover has the same volume.
MoversRight ==
    /\ \A g \in DOMAIN movers : Proceeds(movers[g].mig) =>
          LET w == movers[g]
          IN /\ w.volume \in DOMAIN volumes
             /\ volumes[w.volume].backend = w.src
             /\ volumes[w.volume].size = w.size
             /\ volumes[w.volume].thin = w.thin
             /\ w.dest \in DOMAIN backends
    /\ \A g, k \in DOMAIN movers :
          /\ Proceeds(movers[g].mig) /\ Proceeds(movers[k].mig)
          /\ movers[g].volume = movers[k].volume
          => g = k

\* Every volume is on a backend that is registered, and there are finitely
\* many volumes.
VolumesPlaced ==
    /\ IsFiniteSet(DOMAIN volumes)
    /\ \A v \in DOMAIN volumes : volumes[v].backend \in DOMAIN backends

Paired == NumbersGiven /\ FlattenersPaired /\ MoversPaired

SerialInv ==
    /\ TypeOK /\ CancelledStaysFailed /\ Paired
    /\ MoversRight /\ VolumesPlaced /\ AccountingExact

-----------------------------------------------------------------------------
(* Sums of sizes.                                                          *)

\* Finitely many volumes have finitely many GB, and which ones depends on
\* the sizes only.
LEMMA GBsFinite ==
    ASSUME NEW vs, IsFiniteSet(vs), NEW f, \A v \in vs : f[v] \in Int
    PROVE  /\ IsFiniteSet(GBs(vs, f))
           /\ Cardinality(GBs(vs, f)) \in Nat
           /\ \A g : (\A v \in vs : g[v] = f[v]) => GBs(vs, g) = GBs(vs, f)
<1> DEFINE Of(v) == {v} \X (1..f[v])
           parts == {Of(v) : v \in vs}
           map == [v \in vs |-> Of(v)]
<1>1. map \in Surjection(vs, parts)
  BY DEF Surjection
<1>2. IsFiniteSet(parts)
  BY <1>1, FS_Surjection
<1>3. ASSUME NEW v \in vs
      PROVE  IsFiniteSet(Of(v))
  <2>1. IsFiniteSet({v})
    BY FS_Singleton
  <2>2. IsFiniteSet(1..f[v])
    BY FS_Interval
  <2> QED BY <2>1, <2>2, FS_Product
<1>4. IsFiniteSet(GBs(vs, f))
  BY <1>2, <1>3, FS_UNION DEF GBs
<1> QED BY <1>4, FS_CardinalityType DEF GBs

\* The GB of one more volume are those it brings along.
LEMMA GBsOfOneMore ==
    ASSUME NEW vs, IsFiniteSet(vs), NEW f, \A v \in vs : f[v] \in Int,
           NEW x, x \notin vs, f[x] \in Int
    PROVE  Cardinality(GBs(vs \cup {x}, f)) =
              Cardinality(GBs(vs, f)) + (IF f[x] > 0 THEN f[x] ELSE 0)
<1> DEFINE own == {x} \X (1..f[x])
<1>1. IsFiniteSet(own) /\ Cardinality(own) = IF f[x] > 0 THEN f[x] ELSE 0
  <2>1. /\ IsFiniteSet(1..f[x])
        /\ Cardinality(1..f[x]) = IF 1 > f[x] THEN 0 ELSE f[x] - 1 + 1
    BY FS_Interval
  <2>2. IsFiniteSet({x}) /\ Cardinality({x}) = 1
    BY FS_Singleton
  <2>3. IsFiniteSet(own) /\ Cardinality(own) = 1 * Cardinality(1..f[x])
    BY <2>1, <2>2, FS_Product
  <2> HIDE DEF own
  <2> QED BY <2>1, <2>3
<1>2. IsFiniteSet(GBs(vs, f)) /\ Cardinality(GBs(vs, f)) \in Nat
  BY GBsFinite
<1>3. GBs(vs \cup {x}, f) = GBs(vs, f) \cup own
  BY DEF GBs
<1>4. GBs(vs, f) \cap own = {}
  BY DEF GBs
<1> HIDE DEF own
<1>5. Cardinality(GBs(vs, f) \cup own) =
         Cardinality(GBs(vs, f)) + Cardinality(own) - Cardinality({})
  BY <1>1, <1>2, <1>4, FS_Union
<1>6. Cardinality({}) = 0
  BY FS_EmptySet
<1>7. Cardinality(own) \in Int
  BY <1>1
<1>8. Cardinality(GBs(vs \cup {x}, f)) = Cardinality(GBs(vs, f) \cup own)
  BY <1>3, Zenon
<1> QED BY <1>1, <1>2, <1>5, <1>6, <1>7, <1>8

\* One more volume adds its size to the sum.
LEMMA SumOfOneMore ==
    ASSUME NEW vs, IsFiniteSet(vs), NEW f, \A v \in vs : f[v] \in Int,
           NEW x, x \notin vs, f[x] \in Int
    PROVE  SumOfSizes(vs \cup {x}, f) = SumOfSizes(vs, f) + f[x]
<1> DEFINE neg == [v \in vs \cup {x} |-> -f[v]]
<1>1. /\ \A v \in vs : neg[v] \in Int
      /\ neg[x] = -f[x] /\ neg[x] \in Int
      /\ \A v \in vs : [u \in vs |-> -f[u]][v] = neg[v]
  OBVIOUS
<1> HIDE DEF neg
<1>2. GBs(vs, [u \in vs |-> -f[u]]) = GBs(vs, neg)
  BY <1>1, GBsFinite
<1>3. Cardinality(GBs(vs \cup {x}, f)) =
         Cardinality(GBs(vs, f)) + (IF f[x] > 0 THEN f[x] ELSE 0)
  BY GBsOfOneMore
<1>4. Cardinality(GBs(vs \cup {x}, neg)) =
         Cardinality(GBs(vs, neg)) + (IF neg[x] > 0 THEN neg[x] ELSE 0)
  BY <1>1, GBsOfOneMore
<1>5. Cardinality(GBs(vs, f)) \in Nat /\ Cardinality(GBs(vs, neg)) \in Nat
  BY <1>1, GBsFinite
<1> QED BY <1>1, <1>2, <1>3, <1>4, <1>5 DEF SumOfSizes, neg

\* The sum is a number, zero for no volumes, and depends on the sizes only.
LEMMA SumFacts ==
    ASSUME NEW vs, IsFiniteSet(vs), NEW f, \A v \in vs : f[v] \in Int
    PROVE  /\ SumOfSizes(vs, f) \in Int
           /\ vs = {} => SumOfSizes(vs, f) = 0
           /\ \A g : (\A v \in vs : g[v] = f[v]) =>
                 SumOfSizes(vs, g) = SumOfSizes(vs, f)
<1> DEFINE neg == [v \in vs |-> -f[v]]
<1>1. \A v \in vs : neg[v] \in Int
  OBVIOUS
<1>2. ASSUME NEW g, \A v \in vs : g[v] = f[v]
      PROVE  SumOfSizes(vs, g) = SumOfSizes(vs, f)
  <2>1. [v \in vs |-> -g[v]] = neg
    BY <1>2
  <2>2. GBs(vs, g) = GBs(vs, f)
    BY <1>2, GBsFinite
  <2> QED BY <2>1, <2>2 DEF SumOfSizes
<1>3. Cardinality(GBs(vs, f)) \in Nat /\ Cardinality(GBs(vs, neg)) \in Nat
  <2> HIDE DEF neg
  <2> QED BY <1>1, GBsFinite
<1>4. vs = {} => GBs(vs, f) = {} /\ GBs(vs, neg) = {}
  BY DEF GBs
<1>5. SumOfSizes(vs, f) = Cardinality(GBs(vs, f)) - Cardinality(GBs(vs, neg))
  BY DEF SumOfSizes
<1> HIDE DEF neg
<1>6. Cardinality({}) = 0
  BY FS_EmptySet
<1> QED BY <1>2, <1>3, <1>4, <1>5, <1>6

\* Between two sets of volumes that differ in v only, the sum moves by the
\* sizes that v had and has.
LEMMA SumMoves ==
    ASSUME NEW A, IsFiniteSet(A), NEW f, \A u \in A : f[u] \in Int,
           NEW B, IsFiniteSet(B), NEW g, \A u \in B : g[u] \in Int,
           NEW v, A \ {v} = B \ {v}, \A u \in A \ {v} : f[u] = g[u]
    PROVE  SumOfSizes(B, g) =
              SumOfSizes(A, f) - (IF v \in A THEN f[v] ELSE 0)
                               + (IF v \in B THEN g[v] ELSE 0)
<1> DEFINE C == A \ {v}
<1>1. IsFiniteSet(C) /\ v \notin C
  BY FS_RemoveElement
<1>2. SumOfSizes(C, f) \in Int /\ SumOfSizes(C, g) = SumOfSizes(C, f)
  BY <1>1, SumFacts
<1>3. v \in A => A = C \cup {v} /\ SumOfSizes(A, f) = SumOfSizes(C, f) + f[v]
  <2>1. v \in A => A = C \cup {v}
    OBVIOUS
  <2> QED BY <1>1, <2>1, SumOfOneMore
<1>4. v \in B => SumOfSizes(B, g) = SumOfSizes(C, g) + g[v]
  <2>1. v \in B => B = C \cup {v}
    OBVIOUS
  <2>2. \A u \in C : g[u] \in Int
    OBVIOUS
  <2> QED BY <1>1, <2>1, <2>2, SumOfOneMore
<1>5. /\ v \notin A => SumOfSizes(A, f) = SumOfSizes(C, f)
      /\ v \notin B => SumOfSizes(B, g) = SumOfSizes(C, g)
  <2>1. (v \notin A => A = C) /\ (v \notin B => B = C)
    OBVIOUS
  <2> QED BY <2>1
<1> HIDE DEF C
<1> QED BY <1>2, <1>3, <1>4, <1>5

-----------------------------------------------------------------------------
(* AccountingExact.                                                        *)

\* What v adds to the two counters of b.
Share(b, v) == IF v \in On(b) THEN volumes[v].size ELSE 0

ThickShare(b, v) == IF v \in Thick(b) THEN volumes[v].size ELSE 0

\* No other volume than v comes, goes, moves or changes its size or kind.
OnlyTouches(v) ==
    /\ IsFiniteSet(DOMAIN volumes) /\ IsFiniteSet(DOMAIN volumes')
    /\ DOMAIN volumes \ {v} = DOMAIN volumes' \ {v}
    /\ \A u \in DOMAIN volumes \ {v} :
          /\ volumes'[u].backend = volumes[u].backend
          /\ volumes'[u].size = volumes[u].size
          /\ volumes'[u].thin = volumes[u].thin

\* The sums for a backend then move by what v adds to them.
LEMMA SharesMove ==
    ASSUME TypeOK, TypeOK', NEW v, OnlyTouches(v), NEW b
    PROVE  /\ TotalSize(On(b)) \in Int /\ TotalSize(Thick(b)) \in Int
           /\ TotalSize(On(b))' =
                 TotalSize(On(b)) - Share(b, v) + Share(b, v)'
           /\ TotalSize(Thick(b))' =
                 TotalSize(Thick(b)) - ThickShare(b, v) + ThickShare(b, v)'
<1> DEFINE Size(A) == [u \in A |-> volumes[u].size]
           SizeNext(A) == [u \in A |-> volumes'[u].size]
<1>1. /\ \A u \in DOMAIN volumes : volumes[u].size \in Int
      /\ \A u \in DOMAIN volumes' : volumes'[u].size \in Int
  BY DEF TypeOK, IsMap, Volume
<1>2. ASSUME NEW A, A \subseteq DOMAIN volumes,
             NEW B, B \subseteq DOMAIN volumes', A \ {v} = B \ {v}
      PROVE  /\ SumOfSizes(A, Size(A)) \in Int
             /\ SumOfSizes(B, SizeNext(B)) =
                  SumOfSizes(A, Size(A))
                  - (IF v \in A THEN volumes[v].size ELSE 0)
                  + (IF v \in B THEN volumes'[v].size ELSE 0)
  <2>1. IsFiniteSet(A) /\ IsFiniteSet(B)
    BY <1>2, FS_Subset DEF OnlyTouches
  <2>2. /\ \A u \in A : Size(A)[u] \in Int
        /\ \A u \in B : SizeNext(B)[u] \in Int
        /\ \A u \in A \ {v} : Size(A)[u] = SizeNext(B)[u]
    BY <1>1, <1>2 DEF OnlyTouches
  <2>3. /\ v \in A => Size(A)[v] = volumes[v].size
        /\ v \in B => SizeNext(B)[v] = volumes'[v].size
    OBVIOUS
  <2> HIDE DEF Size, SizeNext
  <2>4. SumOfSizes(A, Size(A)) \in Int
    BY <2>1, <2>2, SumFacts
  <2>5. SumOfSizes(B, SizeNext(B)) =
           SumOfSizes(A, Size(A)) - (IF v \in A THEN Size(A)[v] ELSE 0)
                                  + (IF v \in B THEN SizeNext(B)[v] ELSE 0)
    BY <1>2, <2>1, <2>2, SumMoves
  <2> QED BY <2>3, <2>4, <2>5
<1>3. /\ On(b) \subseteq DOMAIN volumes /\ On(b)' \subseteq DOMAIN volumes'
      /\ On(b) \ {v} = On(b)' \ {v}
  BY DEF On, OnlyTouches
<1>4. /\ Thick(b) \subseteq DOMAIN volumes
      /\ Thick(b)' \subseteq DOMAIN volumes'
      /\ Thick(b) \ {v} = Thick(b)' \ {v}
  BY DEF On, Thick, OnlyTouches
<1>5. /\ TotalSize(On(b)) = SumOfSizes(On(b), Size(On(b)))
      /\ TotalSize(On(b))' = SumOfSizes(On(b)', SizeNext(On(b)'))
      /\ TotalSize(Thick(b)) = SumOfSizes(Thick(b), Size(Thick(b)))
      /\ TotalSize(Thick(b))' = SumOfSizes(Thick(b)', SizeNext(Thick(b)'))
  BY DEF TotalSize
<1> HIDE DEF Size, SizeNext
<1>6. /\ TotalSize(On(b)) \in Int
      /\ TotalSize(On(b))' = TotalSize(On(b)) - Share(b, v) + Share(b, v)'
  BY <1>2, <1>3, <1>5 DEF Share
<1>7. /\ TotalSize(Thick(b)) \in Int
      /\ TotalSize(Thick(b))' =
            TotalSize(Thick(b)) - ThickShare(b, v) + ThickShare(b, v)'
  BY <1>2, <1>4, <1>5 DEF ThickShare
<1> QED BY <1>6, <1>7

\* Counters that move with v stay exact.
LEMMA CountersFollow ==
    ASSUME TypeOK, TypeOK', AccountingExact, NEW v, OnlyTouches(v),
           DOMAIN backends' = DOMAIN backends,
           \A b \in DOMAIN backends :
              /\ backends'[b].alloc =
                    backends[b].alloc - Share(b, v) + Share(b, v)'
              /\ backends'[b].used =
                    backends[b].used - ThickShare(b, v) + ThickShare(b, v)'
    PROVE  AccountingExact'
<1> SUFFICES ASSUME NEW b \in DOMAIN backends'
             PROVE  /\ backends'[b].alloc = TotalSize(On(b))'
                    /\ backends'[b].used = TotalSize(Thick(b))'
    BY DEF AccountingExact, AllocatedIsSumOfSizes
<1>1. /\ backends[b].alloc = TotalSize(On(b))
      /\ backends[b].used = TotalSize(Thick(b))
  BY DEF AccountingExact, AllocatedIsSumOfSizes
<1>2. /\ TotalSize(On(b))' = TotalSize(On(b)) - Share(b, v) + Share(b, v)'
      /\ TotalSize(Thick(b))' =
            TotalSize(Thick(b)) - ThickShare(b, v) + ThickShare(b, v)'
  BY SharesMove
<1> QED BY <1>1, <1>2

-----------------------------------------------------------------------------
(* The rest of the invariant.                                              *)

\* Backend, volume and snapshot requests concern no goroutine.
LEMMA RequestsKeepRecords ==
    ASSUME BackendRequest \/ VolumeRequest \/ SnapshotRequest
    PROVE  UNCHANGED <<operations, migrations, opCounter, flatteners, movers,
                       stale>>
<1>1. CASE BackendRequest
  BY <1>1 DEF BackendRequest, AddBackend, SetBackendState
<1>2. CASE VolumeRequest
  BY <1>2 DEF VolumeRequest, CreateVolume, DeleteVolume, ExtendVolume,
              ExportVolume, UnexportVolume
<1>3. CASE SnapshotRequest
  BY <1>3 DEF SnapshotRequest, CreateSnapshot, DeleteSnapshot,
              CloneFromSnapshot
<1> QED BY <1>1, <1>2, <1>3

\* Every step keeps goroutines and records paired.
LEMMA PairedStep ==
    TypeOK /\ CancelledStaysFailed /\ Paired /\ [SerialNext]_vars => Paired'
<1> SUFFICES ASSUME TypeOK, CancelledStaysFailed, Paired, [SerialNext]_vars
             PROVE  Paired'
    OBVIOUS
<1> USE DEF Paired, NumbersGiven
<1>s. stale' = {}
  BY DEF SerialNext, WaitsForMigrations, vars
<1>n. opCounter \in Nat /\ MaxOps \in Nat
  BY StorageAssumption DEF StorageAssumption, TypeOK
<1>1. CASE UNCHANGED <<operations, migrations, opCounter, flatteners, movers>>
  BY <1>s, <1>1 DEF FlattenersPaired, MoversPaired, Proceeds
<1>2. CASE Reset
  <2>1. DOMAIN flatteners = {} /\ DOMAIN movers = {}
    BY <1>s, <1>2 DEF Reset, LiveGoroutines
  <2> QED BY <1>s, <1>n, <1>2, <2>1, EmptyIsMap
          DEF Reset, FlattenersPaired, MoversPaired
<1>3. ASSUME NEW v \in Volumes, NEW g \in Goroutines, StartFlatten(v, g)
      PROVE  Paired'
  <2> DEFINE n == opCounter + 1
  <2>1. /\ opCounter' = n /\ n <= MaxOps /\ n \notin DOMAIN operations
        /\ DOMAIN operations' = DOMAIN operations \cup {n}
        /\ operations'[n].state = "running"
        /\ \A x \in DOMAIN operations : operations'[x] = operations[x]
        /\ g \notin DOMAIN flatteners
        /\ DOMAIN flatteners' = DOMAIN flatteners \cup {g}
        /\ flatteners'[g].op = n
        /\ \A k \in DOMAIN flatteners : flatteners'[k] = flatteners[k]
    BY <1>n, <1>3 DEF StartFlatten, LiveGoroutines, Put
  <2>2. UNCHANGED <<migrations, movers>>
    BY <1>3 DEF StartFlatten
  <2>3. NumbersGiven'
    BY <1>s, <1>n, <2>1, <2>2
  <2>4. FlattenersPaired'
    BY <2>1 DEF FlattenersPaired
  <2>5. MoversPaired'
    BY <2>2 DEF MoversPaired, Proceeds
  <2> QED BY <2>3, <2>4, <2>5
<1>4. ASSUME NEW v \in Volumes, NEW b \in Backends, NEW g \in Goroutines,
             StartMigration(v, b, g)
      PROVE  Paired'
  <2> DEFINE n == opCounter + 1
  <2>1. /\ opCounter' = n /\ n <= MaxOps /\ n \notin DOMAIN migrations
        /\ DOMAIN migrations' = DOMAIN migrations \cup {n}
        /\ migrations'[n].state = "preparing" /\ migrations'[n].volume = v
        /\ \A x \in DOMAIN migrations : migrations'[x] = migrations[x]
        /\ g \notin DOMAIN movers
        /\ DOMAIN movers' = DOMAIN movers \cup {g}
        /\ movers'[g].mig = n /\ movers'[g].volume = v
        /\ movers'[g].pc = "prepare"
        /\ \A k \in DOMAIN movers : movers'[k] = movers[k]
    BY <1>n, <1>4 DEF StartMigration, LiveGoroutines, Put
  <2>2. UNCHANGED <<operations, flatteners>>
    BY <1>4 DEF StartMigration
  <2>3. NumbersGiven'
    BY <1>s, <1>n, <2>1, <2>2
  <2>4. FlattenersPaired'
    BY <2>2 DEF FlattenersPaired
  <2>5. MoversPaired'
    <3> HIDE DEF n
    <3>1. ASSUME NEW k \in DOMAIN movers
          PROVE  /\ movers'[k] = movers[k] /\ k # g
                 /\ movers[k].mig \in DOMAIN migrations
                 /\ movers[k].mig # n
                 /\ migrations'[movers[k].mig] = migrations[movers[k].mig]
      BY <2>1 DEF MoversPaired
    <3>2. \A k \in DOMAIN movers :
             /\ movers'[k].mig \in DOMAIN migrations'
             /\ migrations'[movers'[k].mig].volume = movers'[k].volume
             /\ Proceeds(movers[k].mig)' =>
                   migrations'[movers'[k].mig].state = Shown(movers'[k].pc)
      BY <2>1, <3>1 DEF MoversPaired, Proceeds
    <3>3. migrations'[n].state = Shown("prepare")
      BY <2>1 DEF Shown
    <3>4. \A k, l \in DOMAIN movers' :
             movers'[k].mig = movers'[l].mig => k = l
      BY <2>1, <3>1 DEF MoversPaired
    <3> QED BY <2>1, <3>1, <3>2, <3>3, <3>4 DEF MoversPaired, Proceeds
  <2> QED BY <2>3, <2>4, <2>5
<1>5. ASSUME NEW m \in DOMAIN migrations, CancelMigration(m)
      PROVE  Paired'
  <2>1. /\ DOMAIN migrations' = DOMAIN migrations
        /\ migrations'[m].cancelled /\ migrations'[m].volume = migrations[m].volume
        /\ \A x \in DOMAIN migrations \ {m} : migrations'[x] = migrations[x]
        /\ UNCHANGED <<operations, opCounter, flatteners, movers>>
    BY <1>5 DEF CancelMigration, TypeOK, IsMap, Migration
  <2> QED BY <1>s, <2>1 DEF FlattenersPaired, MoversPaired, Proceeds
<1>6. ASSUME NEW g \in Goroutines, RunFlatten(g)
      PROVE  Paired'
  <2>1. g \in DOMAIN flatteners /\ UNCHANGED <<migrations, opCounter, movers>>
    BY <1>6 DEF RunFlatten, FlattenAbandon, FlattenProgress, FlattenFail,
                FlattenComplete
  <2>2. NumbersGiven' /\ FlattenersPaired'
    <3>1. CASE FlattenProgress(g)
      <4>1. /\ DOMAIN flatteners' = DOMAIN flatteners
            /\ \A k \in DOMAIN flatteners : flatteners'[k].op = flatteners[k].op
            /\ UNCHANGED operations
        BY <2>1, <3>1 DEF FlattenProgress, TypeOK, IsMap, Flattener
      <4> QED BY <1>s, <2>1, <4>1 DEF FlattenersPaired
    <3>2. CASE FlattenAbandon(g) \/ FlattenFail(g) \/ FlattenComplete(g)
      <4>1. /\ DOMAIN flatteners' = DOMAIN flatteners \ {g}
            /\ \A k \in DOMAIN flatteners \ {g} :
                  flatteners'[k] = flatteners[k]
        BY <3>2 DEF FlattenAbandon, FlattenFail, FlattenComplete, FlattenExit,
                    Drop, Restrict
      <4>2. /\ DOMAIN operations' = DOMAIN operations
            /\ \A n \in DOMAIN operations \ {flatteners[g].op} :
                  operations'[n] = operations[n]
        BY <3>2 DEF FlattenAbandon, FlattenFail, FlattenComplete, TypeOK, IsMap
      <4> QED BY <1>s, <2>1, <4>1, <4>2 DEF FlattenersPaired
    <3> QED BY <1>6, <3>1, <3>2 DEF RunFlatten
  <2>3. MoversPaired'
    BY <2>1 DEF MoversPaired, Proceeds
  <2> QED BY <2>2, <2>3
<1>7. ASSUME NEW g \in Goroutines, RunMigration(g)
      PROVE  Paired'
  <2>1. g \in DOMAIN movers /\ UNCHANGED <<operations, opCounter, flatteners>>
    BY <1>7 DEF RunMigration, MigrateAbandon, MigrateBegin, MigrateProgress,
                MigrateFinish, MigrateFail, MigrateComplete
  <2>2. FlattenersPaired'
    BY <2>1 DEF FlattenersPaired
  <2>3. NumbersGiven' /\ MoversPaired'
    <3> DEFINE m == movers[g].mig
    <3>1. CASE MigrateBegin(g) \/ MigrateProgress(g) \/ MigrateFinish(g)
      <4>1. /\ DOMAIN movers' = DOMAIN movers
            /\ \A k \in DOMAIN movers : movers'[k].mig = movers[k].mig
                                     /\ movers'[k].volume = movers[k].volume
            /\ \A k \in DOMAIN movers \ {g} : movers'[k] = movers[k]
        BY <2>1, <3>1 DEF MigrateBegin, MigrateProgress, MigrateFinish, TypeOK,
                          IsMap, Mover
      <4>2. /\ m \in DOMAIN migrations
            /\ DOMAIN migrations' = DOMAIN migrations
            /\ \A n \in DOMAIN migrations \ {m} :
                  migrations'[n] = migrations[n]
            /\ migrations'[m].volume = migrations[m].volume
        BY <3>1 DEF MigrateBegin, MigrateProgress, MigrateFinish, Proceeds,
                    TypeOK, IsMap, Migration
      <4>3. migrations'[m].state = Shown(movers'[g].pc)
        <5>1. Proceeds(m) => migrations[m].state = Shown(movers[g].pc)
          BY <2>1 DEF MoversPaired
        <5>2. migrations[m] \in Migration /\ movers[g] \in Mover
          BY <2>1, <4>2, MapValue DEF TypeOK
        <5>3. CASE MigrateBegin(g)
          BY <2>1, <4>2, <5>2, <5>3
             DEF MigrateBegin, TypeOK, IsMap, Migration, Mover, Shown
        <5>4. CASE MigrateProgress(g)
          BY <2>1, <4>2, <5>1, <5>2, <5>4
             DEF MigrateProgress, TypeOK, IsMap, Mover
        <5>5. CASE MigrateFinish(g)
          BY <2>1, <4>2, <5>2, <5>5
             DEF MigrateFinish, TypeOK, IsMap, Migration, Mover, Shown
        <5> QED BY <3>1, <5>3, <5>4, <5>5
      <4> QED BY <1>s, <2>1, <4>1, <4>2, <4>3 DEF MoversPaired, Proceeds
    <3>2. CASE MigrateAbandon(g) \/ MigrateFail(g) \/ MigrateComplete(g)
      <4>1. /\ DOMAIN movers' = DOMAIN movers \ {g}
            /\ \A k \in DOMAIN movers \ {g} : movers'[k] = movers[k]
        BY <3>2 DEF MigrateAbandon, MigrateFail, MigrateComplete, MoverExit,
                    Drop, Restrict
      <4>2. /\ DOMAIN migrations' = DOMAIN migrations
            /\ \A n \in DOMAIN migrations \ {m} :
                  migrations'[n] = migrations[n]
        BY <3>2 DEF MigrateAbandon, MigrateFail, MigrateComplete, TypeOK, IsMap
      <4> QED BY <1>s, <2>1, <4>1, <4>2 DEF MoversPaired, Proceeds
    <3> QED BY <1>7, <3>1, <3>2 DEF RunMigration
  <2> QED BY <2>2, <2>3
<1>8. CASE BackendRequest \/ VolumeRequest \/ SnapshotRequest
  BY <1>1, <1>8, RequestsKeepRecords
<1>9. CASE UNCHANGED vars
  BY <1>1, <1>9 DEF vars
<1> QED BY <1>2, <1>3, <1>4, <1>5, <1>6, <1>7, <1>8, <1>9
        DEF SerialNext, Next, Request, AsyncRequest, Goroutine

\* A client sees the migration of a mover that goes on.
LEMMA MovingInFlight ==
    ASSUME TypeOK, MoversPaired, NEW g \in DOMAIN movers,
           Proceeds(movers[g].mig)
    PROVE  InFlight(movers[g].volume)
<1>1. movers[g] \in Mover
  BY MapValue DEF TypeOK
<1>2. Shown(movers[g].pc) \notin Terminal
  BY <1>1 DEF Mover, Shown, Terminal
<1> QED BY <1>2 DEF MoversPaired, InFlight, Proceeds

SameJob(w, x) ==
    /\ w.mig = x.mig /\ w.volume = x.volume /\ w.src = x.src
    /\ w.dest = x.dest /\ w.size = x.size /\ w.thin = x.thin

\* A mover keeps what it has noted, and one that goes on after a step went
\* on before it, unless the step has started it.
LEMMA MoversStay ==
    ASSUME TypeOK, Paired, [SerialNext]_vars, NEW k \in DOMAIN movers',
           Proceeds(movers[k].mig)'
    PROVE  \/ /\ k \in DOMAIN movers /\ Proceeds(movers[k].mig)
              /\ SameJob(movers'[k], movers[k])
           \/ \E v \in Volumes, b \in Backends : StartMigration(v, b, k)
<1> DEFINE Kept == /\ k \in DOMAIN movers /\ Proceeds(movers[k].mig)
                   /\ SameJob(movers'[k], movers[k])
<1> USE DEF SameJob
<1>1. CASE UNCHANGED <<migrations, movers>>
  BY <1>1 DEF Proceeds
<1>2. ~Reset
  BY EmptyIsMap DEF Reset, Proceeds
<1>3. ASSUME NEW v \in Volumes, NEW b \in Backends, NEW g \in Goroutines,
             StartMigration(v, b, g)
      PROVE  Kept \/ StartMigration(v, b, k)
  <2>1. CASE k = g
    BY <1>3, <2>1
  <2>2. CASE k # g
    <3>1. k \in DOMAIN movers /\ movers'[k] = movers[k]
      BY <1>3, <2>2 DEF StartMigration, Put
    <3>2. movers[k].mig \in DOMAIN migrations
      BY <3>1 DEF Paired, MoversPaired
    <3>3. opCounter + 1 \notin DOMAIN migrations
      BY DEF Paired, NumbersGiven, TypeOK
    <3>4. migrations'[movers[k].mig] = migrations[movers[k].mig]
      BY <1>3, <3>2, <3>3 DEF StartMigration, Put
    <3> QED BY <3>1, <3>2, <3>4 DEF Proceeds
  <2> QED BY <2>1, <2>2
<1>4. ASSUME NEW m \in DOMAIN migrations, CancelMigration(m)
      PROVE  Kept
  BY <1>4 DEF CancelMigration, Proceeds, TypeOK, IsMap, Migration
<1>5. ASSUME NEW g \in Goroutines, RunMigration(g)
      PROVE  Kept
  <2>1. /\ k \in DOMAIN movers
        /\ SameJob(movers'[k], movers[k])
    BY <1>5 DEF RunMigration, MigrateAbandon, MigrateBegin, MigrateProgress,
                MigrateFinish, MigrateFail, MigrateComplete, MoverExit, Drop,
                Restrict, TypeOK, IsMap, Mover
  <2>2. /\ DOMAIN migrations' = DOMAIN migrations
        /\ \A m \in DOMAIN migrations :
              migrations'[m].cancelled = migrations[m].cancelled
    BY <1>5 DEF RunMigration, MigrateAbandon, MigrateBegin, MigrateProgress,
                MigrateFinish, MigrateFail, MigrateComplete, TypeOK, IsMap,
                Migration
  <2> QED BY <2>1, <2>2 DEF Proceeds
<1>6. ASSUME NEW g \in Goroutines, NEW v \in Volumes, StartFlatten(v, g)
      PROVE  UNCHANGED <<migrations, movers>>
  BY <1>6 DEF StartFlatten
<1>7. ASSUME NEW g \in Goroutines, RunFlatten(g)
      PROVE  UNCHANGED <<migrations, movers>>
  BY <1>7 DEF RunFlatten, FlattenAbandon, FlattenProgress, FlattenFail,
              FlattenComplete
<1>8. CASE BackendRequest \/ VolumeRequest \/ SnapshotRequest
           \/ UNCHANGED vars
  BY <1>1, <1>8, RequestsKeepRecords DEF vars
<1> QED BY <1>1, <1>2, <1>3, <1>4, <1>5, <1>6, <1>7, <1>8
        DEF SerialNext, Next, Request, AsyncRequest, Goroutine

\* A volume keeps its kind, and the migration that completes is the only
\* thing that moves it.
LEMMA PlacesKept ==
    ASSUME TypeOK, [Next]_vars, NEW v \in DOMAIN volumes \cap DOMAIN volumes'
    PROVE  /\ volumes'[v].thin = volumes[v].thin
           /\ \/ volumes'[v].backend = volumes[v].backend
              \/ \E g \in DOMAIN movers :
                    MigrateComplete(g) /\ movers[g].volume = v
<1>1. CASE UNCHANGED volumes
  BY <1>1
<1>2. CASE Reset
  BY <1>2, EmptyIsMap DEF Reset
<1> DEFINE Kept == /\ volumes'[v].thin = volumes[v].thin
                   /\ volumes'[v].backend = volumes[v].backend
<1>3. CASE VolumeRequest
  <2>1. ASSUME NEW x \in Volumes, NEW b \in Backends, NEW size \in Sizes,
               NEW thin \in Thins, CreateVolume(x, b, size, thin)
        PROVE  Kept
    BY <2>1 DEF CreateVolume, Put
  <2>2. ASSUME NEW x \in Volumes, DeleteVolume(x)
        PROVE  Kept
    BY <2>2 DEF DeleteVolume, Drop, Restrict
  <2>3. ASSUME NEW x \in Volumes, NEW size \in Sizes, ExtendVolume(x, size)
        PROVE  Kept
    BY <2>3 DEF ExtendVolume, TypeOK, IsMap, Volume
  <2>4. ASSUME NEW x \in Volumes, ExportVolume(x) \/ UnexportVolume(x)
        PROVE  Kept
    BY <2>4 DEF ExportVolume, UnexportVolume, TypeOK, IsMap, Volume
  <2> QED BY <1>3, <2>1, <2>2, <2>3, <2>4 DEF VolumeRequest
<1>4. CASE SnapshotRequest
  <2>1. ASSUME NEW x \in Volumes, NEW s \in Snapshots, CreateSnapshot(x, s)
        PROVE  Kept
    BY <2>1 DEF CreateSnapshot, TypeOK, IsMap, Volume
  <2>2. ASSUME NEW x \in Volumes, NEW s \in Snapshots,
               CloneFromSnapshot(s, x)
        PROVE  Kept
    BY <2>2 DEF CloneFromSnapshot, Put
  <2>3. ASSUME NEW s \in Snapshots, DeleteSnapshot(s)
        PROVE  Kept
    BY <2>3 DEF DeleteSnapshot, TypeOK, IsMap, Volume
  <2> QED BY <1>4, <2>1, <2>2, <2>3 DEF SnapshotRequest
<1>5. ASSUME NEW g \in Goroutines, RunFlatten(g)
      PROVE  \/ UNCHANGED volumes
             \/ /\ volumes'[v].thin = volumes[v].thin
                /\ volumes'[v].backend = volumes[v].backend
  BY <1>5 DEF RunFlatten, FlattenAbandon, FlattenProgress, FlattenFail,
              FlattenComplete, TypeOK, IsMap, Volume
<1>6. ASSUME NEW g \in Goroutines, RunMigration(g)
      PROVE  \/ UNCHANGED volumes
             \/ /\ g \in DOMAIN movers /\ MigrateComplete(g)
                /\ volumes'[v].thin = volumes[v].thin
                /\ \/ volumes'[v].backend = volumes[v].backend
                   \/ movers[g].volume = v
  BY <1>6 DEF RunMigration, MigrateAbandon, MigrateBegin, MigrateProgress,
              MigrateFinish, MigrateFail, MigrateComplete, TypeOK, IsMap,
              Volume
<1>7. CASE BackendRequest \/ AsyncRequest \/ UNCHANGED vars
  BY <1>1, <1>7 DEF BackendRequest, AddBackend, SetBackendState, AsyncRequest,
                    StartFlatten, StartMigration, CancelMigration, vars
<1> QED BY <1>1, <1>2, <1>3, <1>4, <1>5, <1>6, <1>7
        DEF Next, Request, Goroutine

\* The backends stay, unless a reset takes all of them away.
LEMMA BackendsStay ==
    ASSUME TypeOK, [Next]_vars, ~Reset
    PROVE  DOMAIN backends \subseteq DOMAIN backends'
<1>c. \A b, d, thin : DOMAIN Charge(backends, b, d, thin) = DOMAIN backends
  BY DEF Charge
<1>1. CASE BackendRequest
  BY <1>1 DEF BackendRequest, AddBackend, SetBackendState, Put
<1>2. CASE VolumeRequest
  BY <1>c, <1>2 DEF VolumeRequest, CreateVolume, DeleteVolume, ExtendVolume,
                    ExportVolume, UnexportVolume
<1>3. CASE SnapshotRequest
  <2>1. ASSUME NEW v \in Volumes, NEW s \in Snapshots,
               CloneFromSnapshot(s, v)
        PROVE  DOMAIN backends' = DOMAIN backends
    BY <1>c, <2>1 DEF CloneFromSnapshot
  <2>2. ASSUME NEW v \in Volumes, NEW s \in Snapshots, CreateSnapshot(v, s)
        PROVE  UNCHANGED backends
    BY <2>2 DEF CreateSnapshot
  <2>3. ASSUME NEW s \in Snapshots, DeleteSnapshot(s)
        PROVE  UNCHANGED backends
    BY <2>3 DEF DeleteSnapshot
  <2> QED BY <1>3, <2>1, <2>2, <2>3 DEF SnapshotRequest
<1>4. CASE AsyncRequest \/ UNCHANGED vars
  BY <1>4 DEF AsyncRequest, StartFlatten, StartMigration, CancelMigration,
              vars
<1>5. ASSUME NEW g \in Goroutines, RunFlatten(g) \/ RunMigration(g)
      PROVE  DOMAIN backends \subseteq DOMAIN backends'
  BY <1>5 DEF RunFlatten, FlattenAbandon, FlattenProgress, FlattenFail,
              FlattenComplete, RunMigration, MigrateAbandon, MigrateBegin,
              MigrateProgress, MigrateFinish, MigrateFail, MigrateComplete,
              Charge
<1> QED BY <1>1, <1>2, <1>3, <1>4, <1>5 DEF Next, Request, Goroutine

\* Every step keeps what the movers have noted true.
LEMMA RightStep ==
    /\ TypeOK /\ Paired /\ MoversRight /\ VolumesPlaced
    /\ [SerialNext]_vars
    => MoversRight'
<1> SUFFICES ASSUME TypeOK, Paired, MoversRight, VolumesPlaced,
                    [SerialNext]_vars
             PROVE  MoversRight'
    OBVIOUS
<1>n. [Next]_vars
  BY DEF SerialNext
<1>s. stale' = {}
  BY DEF SerialNext, WaitsForMigrations, vars, Paired, NumbersGiven
<1>w. \A v \in DOMAIN volumes : InFlight(v) =>
         v \in DOMAIN volumes' /\ volumes'[v].size = volumes[v].size
  BY DEF SerialNext, WaitsForMigrations, vars
<1> DEFINE Old(k) == /\ k \in DOMAIN movers /\ Proceeds(movers[k].mig)
                     /\ SameJob(movers'[k], movers[k])
           New(k) == \E v \in Volumes, b \in Backends : StartMigration(v, b, k)
           Right(k) == LET w == movers'[k]
                       IN /\ w.volume \in DOMAIN volumes'
                          /\ volumes'[w.volume].backend = w.src
                          /\ volumes'[w.volume].size = w.size
                          /\ volumes'[w.volume].thin = w.thin
                          /\ w.dest \in DOMAIN backends'
<1>1. ASSUME NEW k \in DOMAIN movers', Proceeds(movers[k].mig)'
      PROVE  Old(k) \/ New(k)
  BY <1>1, MoversStay
<1>2. ASSUME NEW k \in DOMAIN movers', Old(k)
      PROVE  Right(k) /\ InFlight(movers'[k].volume)
  <2> DEFINE v == movers[k].volume
  <2>1. InFlight(v)
    BY <1>2, MovingInFlight DEF Paired
  <2>2. /\ v \in DOMAIN volumes
        /\ volumes[v].backend = movers[k].src
        /\ volumes[v].size = movers[k].size
        /\ volumes[v].thin = movers[k].thin
        /\ movers[k].dest \in DOMAIN backends
    BY <1>2 DEF MoversRight
  <2>3. v \in DOMAIN volumes' /\ volumes'[v].size = volumes[v].size
    BY <1>w, <2>1, <2>2
  <2>4. ~Reset
    BY <1>s, <1>2 DEF Reset, LiveGoroutines
  <2>5. ASSUME NEW g \in DOMAIN movers, MigrateComplete(g),
               movers[g].volume = v
        PROVE  FALSE
    <3>1. Proceeds(movers[g].mig) /\ g \notin DOMAIN movers'
      BY <2>5 DEF MigrateComplete, MoverExit, Drop, Restrict
    <3>2. g = k
      BY <1>2, <2>5, <3>1 DEF MoversRight
    <3> QED BY <3>1, <3>2
  <2>6. /\ volumes'[v].thin = volumes[v].thin
        /\ volumes'[v].backend = volumes[v].backend
    BY <1>n, <2>2, <2>3, <2>5, PlacesKept
  <2>7. movers[k].dest \in DOMAIN backends'
    BY <1>n, <2>2, <2>4, BackendsStay
  <2> QED BY <1>2, <2>1, <2>2, <2>3, <2>6, <2>7 DEF SameJob
<1>3. ASSUME NEW k \in DOMAIN movers', New(k)
      PROVE  /\ Right(k) /\ ~InFlight(movers'[k].volume)
             /\ DOMAIN movers' \ {k} \subseteq DOMAIN movers
             /\ k \notin DOMAIN movers
  <2>1. PICK v \in Volumes, b \in Backends : StartMigration(v, b, k)
    BY <1>3
  <2>2. /\ k \notin DOMAIN movers /\ DOMAIN movers' = DOMAIN movers \cup {k}
        /\ movers'[k].volume = v /\ movers'[k].src = volumes[v].backend
        /\ movers'[k].size = volumes[v].size
        /\ movers'[k].thin = volumes[v].thin /\ movers'[k].dest = b
        /\ v \in DOMAIN volumes /\ b \in DOMAIN backends
        /\ UNCHANGED <<volumes, backends>>
    BY <2>1 DEF StartMigration, LiveGoroutines, Put
  <2>3. ~InFlight(v)
    <3> DEFINE m == opCounter + 1
    <3>1. m \in DOMAIN migrations' /\ migrations'[m].volume = v
      BY <2>1 DEF StartMigration, Put
    <3>2. m \notin DOMAIN migrations
      BY DEF Paired, NumbersGiven, TypeOK
    <3>3. WaitsForMigrations
      BY <3>1, <3>2 DEF SerialNext, vars
    <3> QED BY <3>1, <3>2, <3>3 DEF WaitsForMigrations
  <2> QED BY <2>2, <2>3
<1>4. ASSUME NEW k \in DOMAIN movers', NEW l \in DOMAIN movers',
             Proceeds(movers[k].mig)', Proceeds(movers[l].mig)',
             movers'[k].volume = movers'[l].volume
      PROVE  k = l
  <2>1. CASE Old(k) /\ Old(l)
    BY <1>4, <2>1 DEF MoversRight, SameJob
  <2>2. CASE New(k) /\ New(l)
    <3> HIDE DEF New, Right
    <3> QED BY <1>3, <2>2
  <2>3. CASE (Old(k) /\ New(l)) \/ (Old(l) /\ New(k))
    <3> HIDE DEF New, Right, Old
    <3> QED BY <1>2, <1>3, <1>4, <2>3
  <2> HIDE DEF New, Old
  <2> QED BY <1>1, <1>4, <2>1, <2>2, <2>3
<1>5. ASSUME NEW k \in DOMAIN movers', Proceeds(movers[k].mig)'
      PROVE  Right(k)
  <2> HIDE DEF New, Old, Right
  <2> QED BY <1>1, <1>2, <1>3, <1>5
<1> QED BY <1>4, <1>5 DEF MoversRight

\* Steps that move no GB keep the counters exact.
LEMMA NothingBooked ==
    ASSUME TypeOK, TypeOK', VolumesPlaced, AccountingExact,
           DOMAIN volumes' = DOMAIN volumes,
           \A u \in DOMAIN volumes :
              /\ volumes'[u].backend = volumes[u].backend
              /\ volumes'[u].size = volumes[u].size
              /\ volumes'[u].thin = volumes[u].thin,
           DOMAIN backends' = DOMAIN backends,
           \A b \in DOMAIN backends : /\ backends'[b].alloc = backends[b].alloc
                                     /\ backends'[b].used = backends[b].used
    PROVE  VolumesPlaced' /\ AccountingExact'
<1>1. VolumesPlaced'
  BY DEF VolumesPlaced
<1>2. \A v : OnlyTouches(v)
  BY <1>1 DEF VolumesPlaced, OnlyTouches
<1>3. ASSUME NEW v, NEW b \in DOMAIN backends
      PROVE  /\ Share(b, v)' = Share(b, v) /\ Share(b, v) \in Int
             /\ ThickShare(b, v)' = ThickShare(b, v)
             /\ ThickShare(b, v) \in Int
  BY DEF Share, ThickShare, On, Thick, TypeOK, IsMap, Volume
<1>4. ASSUME NEW b \in DOMAIN backends
      PROVE  backends[b].alloc \in Int /\ backends[b].used \in Int
  BY DEF TypeOK, IsMap, Backend
<1>5. ASSUME NEW b \in DOMAIN backends, NEW v
      PROVE  /\ backends'[b].alloc =
                   backends[b].alloc - Share(b, v) + Share(b, v)'
             /\ backends'[b].used =
                   backends[b].used - ThickShare(b, v) + ThickShare(b, v)'
  BY <1>3, <1>4
<1>6. AccountingExact'
  BY <1>2, <1>5, CountersFollow
<1> QED BY <1>1, <1>6

\* Every step keeps the volumes on registered backends and books what it
\* does to them.
LEMMA AccountingStep ==
    /\ TypeOK /\ TypeOK' /\ Paired /\ MoversRight /\ VolumesPlaced
    /\ AccountingExact /\ [SerialNext]_vars
    => VolumesPlaced' /\ AccountingExact'
<1> SUFFICES ASSUME TypeOK, TypeOK', Paired, MoversRight, VolumesPlaced,
                    AccountingExact, [SerialNext]_vars
             PROVE  VolumesPlaced' /\ AccountingExact'
    OBVIOUS
<1> DEFINE Good == VolumesPlaced' /\ AccountingExact'
<1>t. /\ \A u \in DOMAIN volumes : volumes[u].size \in Int
                                  /\ volumes[u].thin \in BOOLEAN
      /\ \A b \in DOMAIN backends : backends[b].alloc \in Int
                                   /\ backends[b].used \in Int
  BY DEF TypeOK, IsMap, Volume, Backend
<1>1. CASE UNCHANGED <<backends, volumes>>
  BY <1>1, NothingBooked
<1>2. ASSUME NEW b \in Backends, NEW total \in Totals, NEW ratio \in Ratios,
             AddBackend(b, total, ratio)
      PROVE  Good
  <2>1. /\ b \notin DOMAIN backends /\ UNCHANGED volumes
        /\ DOMAIN backends' = DOMAIN backends \cup {b}
        /\ backends'[b].alloc = 0 /\ backends'[b].used = 0
        /\ \A c \in DOMAIN backends : backends'[c] = backends[c]
    BY <1>2 DEF AddBackend, Put
  <2>2. On(b) = {} /\ Thick(b) = {}
    BY <2>1 DEF VolumesPlaced, On, Thick
  <2>3. TotalSize({}) = 0
    <3>1. IsFiniteSet({})
      BY FS_EmptySet
    <3> QED BY <3>1, SumFacts DEF TotalSize
  <2>4. \A c : /\ TotalSize(On(c))' = TotalSize(On(c))
               /\ TotalSize(Thick(c))' = TotalSize(Thick(c))
    BY <2>1 DEF TotalSize, On, Thick
  <2>5. TotalSize(On(b)) = 0 /\ TotalSize(Thick(b)) = 0
    BY <2>2, <2>3, Zenon
  <2>6. AccountingExact'
    BY <2>1, <2>4, <2>5 DEF AccountingExact, AllocatedIsSumOfSizes
  <2> QED BY <2>1, <2>6 DEF VolumesPlaced
<1>3. ASSUME NEW b \in Backends, NEW st \in StateInputs,
             SetBackendState(b, st)
      PROVE  Good
  <2>1. /\ DOMAIN backends' = DOMAIN backends /\ UNCHANGED volumes
        /\ \A c \in DOMAIN backends :
              /\ backends'[c].alloc = backends[c].alloc
              /\ backends'[c].used = backends[c].used
    BY <1>3 DEF SetBackendState, TypeOK, IsMap, Backend
  <2> QED BY <2>1, NothingBooked
<1> DEFINE Booked(v) ==
               /\ OnlyTouches(v)
               /\ v \in DOMAIN volumes' => volumes'[v].backend \in DOMAIN backends
               /\ DOMAIN backends' = DOMAIN backends
               /\ \A b \in DOMAIN backends :
                    /\ backends'[b].alloc =
                          backends[b].alloc - Share(b, v) + Share(b, v)'
                    /\ backends'[b].used =
                          backends[b].used - ThickShare(b, v)
                                           + ThickShare(b, v)'
<1>4. ASSUME NEW v, Booked(v)
      PROVE  Good
  <2>1. VolumesPlaced'
    BY <1>4 DEF OnlyTouches, VolumesPlaced
  <2>2. AccountingExact'
    BY <1>4, CountersFollow
  <2> QED BY <2>1, <2>2
<1>5. ASSUME NEW v \in Volumes, NEW b \in DOMAIN backends, NEW size \in Int,
             NEW thin \in BOOLEAN, NEW parent, v \notin DOMAIN volumes,
             backends' = Charge(backends, b, size, thin),
             volumes' = Put(volumes, v, NewVolume(b, size, thin, parent))
      PROVE  Good
  <2>1. /\ DOMAIN volumes' = DOMAIN volumes \cup {v}
        /\ volumes'[v].backend = b /\ volumes'[v].size = size
        /\ volumes'[v].thin = thin
        /\ \A u \in DOMAIN volumes : volumes'[u] = volumes[u]
    BY <1>5 DEF Put, NewVolume
  <2>2. IsFiniteSet(DOMAIN volumes')
    BY <2>1, FS_AddElement DEF VolumesPlaced
  <2>3. OnlyTouches(v)
    BY <1>5, <2>1, <2>2 DEF OnlyTouches, VolumesPlaced
  <2>4. /\ DOMAIN backends' = DOMAIN backends
        /\ \A c \in DOMAIN backends :
              /\ backends'[c].alloc =
                    backends[c].alloc + (IF c = b THEN size ELSE 0)
              /\ backends'[c].used =
                    backends[c].used + (IF c = b /\ ~thin THEN size ELSE 0)
    BY <1>5, ChargeMoves DEF TypeOK
  <2>5. \A c : /\ Share(c, v) = 0 /\ ThickShare(c, v) = 0
               /\ Share(c, v)' = IF c = b THEN size ELSE 0
               /\ ThickShare(c, v)' = IF c = b /\ ~thin THEN size ELSE 0
    BY <1>5, <2>1 DEF Share, ThickShare, On, Thick
  <2>6. Booked(v)
    BY <1>t, <2>1, <2>3, <2>4, <2>5
  <2> HIDE DEF Booked
  <2> QED BY <1>4, <2>6
<1>6. ASSUME NEW v \in Volumes, DeleteVolume(v)
      PROVE  Good
  <2> DEFINE b == volumes[v].backend
             size == volumes[v].size
             thin == volumes[v].thin
  <2>1. /\ v \in DOMAIN volumes /\ b \in DOMAIN backends
        /\ DOMAIN volumes' = DOMAIN volumes \ {v}
        /\ \A u \in DOMAIN volumes \ {v} : volumes'[u] = volumes[u]
    BY <1>6 DEF DeleteVolume, Drop, Restrict, VolumesPlaced
  <2>2. IsFiniteSet(DOMAIN volumes')
    BY <2>1, FS_RemoveElement DEF VolumesPlaced
  <2>3. OnlyTouches(v)
    BY <2>1, <2>2 DEF OnlyTouches, VolumesPlaced
  <2>4. size \in Int /\ -size \in Int /\ thin \in BOOLEAN
    BY <1>t, <2>1
  <2>5. /\ DOMAIN backends' = DOMAIN backends
        /\ \A c \in DOMAIN backends :
              /\ backends'[c].alloc =
                    backends[c].alloc + (IF c = b THEN -size ELSE 0)
              /\ backends'[c].used =
                    backends[c].used + (IF c = b /\ ~thin THEN -size ELSE 0)
    <3>1. backends' = Charge(backends, b, -size, thin)
      BY <1>6 DEF DeleteVolume
    <3> HIDE DEF b, size, thin
    <3> QED BY <2>4, <3>1, ChargeMoves DEF TypeOK
  <2>6. \A c : /\ Share(c, v) = (IF c = b THEN size ELSE 0)
               /\ ThickShare(c, v) = (IF c = b /\ ~thin THEN size ELSE 0)
               /\ Share(c, v)' = 0 /\ ThickShare(c, v)' = 0
    BY <2>1 DEF Share, ThickShare, On, Thick
  <2>7. Booked(v)
    <3> HIDE DEF b, size, thin
    <3> QED BY <1>t, <2>1, <2>3, <2>4, <2>5, <2>6
  <2> HIDE DEF Booked
  <2> QED BY <1>4, <2>7
<1>7. ASSUME NEW v \in Volumes, NEW new \in Sizes, ExtendVolume(v, new)
      PROVE  Good
  <2> DEFINE b == volumes[v].backend
             size == volumes[v].size
             thin == volumes[v].thin
  <2>1. /\ v \in DOMAIN volumes /\ b \in DOMAIN backends
        /\ DOMAIN volumes' = DOMAIN volumes
        /\ volumes'[v].backend = b /\ volumes'[v].thin = thin
        /\ volumes'[v].size = new
        /\ \A u \in DOMAIN volumes \ {v} : volumes'[u] = volumes[u]
    BY <1>7 DEF ExtendVolume, TypeOK, IsMap, Volume
  <2>2. OnlyTouches(v)
    BY <2>1 DEF OnlyTouches, VolumesPlaced
  <2>3. size \in Int /\ new \in Int /\ new - size \in Int /\ thin \in BOOLEAN
    BY <1>t, <2>1, StorageAssumption DEF StorageAssumption
  <2>4. /\ DOMAIN backends' = DOMAIN backends
        /\ \A c \in DOMAIN backends :
              /\ backends'[c].alloc =
                    backends[c].alloc + (IF c = b THEN new - size ELSE 0)
              /\ backends'[c].used =
                    backends[c].used
                    + (IF c = b /\ ~thin THEN new - size ELSE 0)
    <3>1. backends' = Charge(backends, b, new - size, thin)
      BY <1>7 DEF ExtendVolume
    <3> HIDE DEF b, size, thin
    <3> QED BY <2>3, <3>1, ChargeMoves DEF TypeOK
  <2>5. \A c : /\ Share(c, v) = (IF c = b THEN size ELSE 0)
               /\ ThickShare(c, v) = (IF c = b /\ ~thin THEN size ELSE 0)
               /\ Share(c, v)' = (IF c = b THEN new ELSE 0)
               /\ ThickShare(c, v)' = (IF c = b /\ ~thin THEN new ELSE 0)
    BY <2>1 DEF Share, ThickShare, On, Thick
  <2>6. Booked(v)
    <3> HIDE DEF b, size, thin
    <3> QED BY <1>t, <2>1, <2>2, <2>3, <2>4, <2>5
  <2> HIDE DEF Booked
  <2> QED BY <1>4, <2>6
<1>8. ASSUME NEW g \in DOMAIN movers, MigrateComplete(g)
      PROVE  Good
  <2>0. PICK v : v = movers[g].volume
    OBVIOUS
  <2> DEFINE src == movers[g].src
             dest == movers[g].dest
             size == movers[g].size
             thin == movers[g].thin
             mid == Charge(backends, src, -size, thin)
  <2>1. /\ v \in DOMAIN volumes /\ volumes[v].backend = src
        /\ volumes[v].size = size /\ volumes[v].thin = thin
        /\ src \in DOMAIN backends /\ dest \in DOMAIN backends
    BY <1>8, <2>0 DEF MigrateComplete, MoversRight, VolumesPlaced
  <2>2. /\ DOMAIN volumes' = DOMAIN volumes
        /\ volumes'[v].backend = dest /\ volumes'[v].thin = thin
        /\ volumes'[v].size = size
        /\ \A u \in DOMAIN volumes \ {v} : volumes'[u] = volumes[u]
    BY <1>8, <2>0, <2>1 DEF MigrateComplete, TypeOK, IsMap, Volume
  <2>3. OnlyTouches(v)
    BY <2>2 DEF OnlyTouches, VolumesPlaced
  <2>4. size \in Int /\ -size \in Int /\ thin \in BOOLEAN
    BY <1>t, <2>1
  <2>5. backends' = Charge(mid, dest, size, thin)
    BY <1>8 DEF MigrateComplete
  <2>6. /\ IsMap(mid, Backends, Backend)
        /\ DOMAIN mid = DOMAIN backends
        /\ \A c \in DOMAIN backends :
              /\ mid[c].alloc =
                    backends[c].alloc + (IF c = src THEN -size ELSE 0)
              /\ mid[c].used = backends[c].used
                               + (IF c = src /\ ~thin THEN -size ELSE 0)
    <3> HIDE DEF src, size, thin
    <3> QED BY <2>4, ChargeMoves, ChargeType DEF TypeOK
  <2>7. /\ DOMAIN backends' = DOMAIN backends
        /\ \A c \in DOMAIN backends :
              /\ backends'[c].alloc =
                    mid[c].alloc + (IF c = dest THEN size ELSE 0)
              /\ backends'[c].used =
                    mid[c].used + (IF c = dest /\ ~thin THEN size ELSE 0)
    <3> HIDE DEF src, size, thin, dest, mid
    <3> QED BY <2>4, <2>5, <2>6, ChargeMoves
  <2>8. \A c : /\ Share(c, v) = (IF c = src THEN size ELSE 0)
               /\ ThickShare(c, v) = (IF c = src /\ ~thin THEN size ELSE 0)
               /\ Share(c, v)' = (IF c = dest THEN size ELSE 0)
               /\ ThickShare(c, v)' = (IF c = dest /\ ~thin THEN size ELSE 0)
    <3> HIDE DEF src, size, thin, dest
    <3> QED BY <2>1, <2>2 DEF Share, ThickShare, On, Thick
  <2>9. Booked(v)
    <3> HIDE DEF src, size, thin, dest, mid
    <3> QED BY <1>t, <2>1, <2>2, <2>3, <2>4, <2>6, <2>7, <2>8
  <2> HIDE DEF Booked
  <2> QED BY <1>4, <2>9
<1>9. CASE VolumeRequest
  <2>1. ASSUME NEW v \in Volumes, NEW b \in Backends, NEW size \in Sizes,
               NEW thin \in Thins, CreateVolume(v, b, size, thin)
        PROVE  Good
    <3>1. size \in Int /\ thin \in BOOLEAN
      BY StorageAssumption DEF StorageAssumption
    <3> QED BY <1>5, <2>1, <3>1 DEF CreateVolume
  <2>2. ASSUME NEW v \in Volumes, ExportVolume(v) \/ UnexportVolume(v)
        PROVE  Good
    <3>1. /\ DOMAIN volumes' = DOMAIN volumes /\ UNCHANGED backends
          /\ \A u \in DOMAIN volumes :
                /\ volumes'[u].backend = volumes[u].backend
                /\ volumes'[u].size = volumes[u].size
                /\ volumes'[u].thin = volumes[u].thin
      BY <2>2 DEF ExportVolume, UnexportVolume, TypeOK, IsMap, Volume
    <3> QED BY <3>1, NothingBooked
  <2> QED BY <1>6, <1>7, <1>9, <2>1, <2>2 DEF VolumeRequest
<1>10. CASE SnapshotRequest
  <2>1. ASSUME NEW v, NEW s, CreateSnapshot(v, s) \/ DeleteSnapshot(s)
        PROVE  Good
    <3>1. /\ DOMAIN volumes' = DOMAIN volumes /\ UNCHANGED backends
          /\ \A u \in DOMAIN volumes :
                /\ volumes'[u].backend = volumes[u].backend
                /\ volumes'[u].size = volumes[u].size
                /\ volumes'[u].thin = volumes[u].thin
      BY <2>1 DEF CreateSnapshot, DeleteSnapshot, TypeOK, IsMap, Volume
    <3> QED BY <3>1, NothingBooked
  <2>2. ASSUME NEW v \in Volumes, NEW s \in Snapshots,
               CloneFromSnapshot(s, v)
        PROVE  Good
    <3>1. snapshots[s].size \in Int
      BY <2>2 DEF CloneFromSnapshot, TypeOK, IsMap, Snapshot
    <3> QED BY <1>5, <2>2, <3>1 DEF CloneFromSnapshot
  <2>3. ASSUME NEW s \in Snapshots, DeleteSnapshot(s)
        PROVE  Good
    BY <2>1, <2>3
  <2> QED BY <1>10, <2>1, <2>2, <2>3 DEF SnapshotRequest
<1>11. CASE Reset
  <2>1. DOMAIN volumes' = {} /\ DOMAIN backends' = {}
    BY <1>11, EmptyIsMap DEF Reset
  <2>2. IsFiniteSet({})
    BY FS_EmptySet
  <2> QED BY <2>1, <2>2
          DEF VolumesPlaced, AccountingExact, AllocatedIsSumOfSizes
<1>12. ASSUME NEW g \in Goroutines, RunFlatten(g)
       PROVE  Good
  <2>1. CASE FlattenComplete(g)
    <3>1. /\ DOMAIN volumes' = DOMAIN volumes /\ UNCHANGED backends
          /\ \A u \in DOMAIN volumes :
                /\ volumes'[u].backend = volumes[u].backend
                /\ volumes'[u].size = volumes[u].size
                /\ volumes'[u].thin = volumes[u].thin
      <4>1. PICK v : v = flatteners[g].volume
        OBVIOUS
      <4>2. /\ v \in DOMAIN volumes /\ UNCHANGED backends
            /\ volumes' = [volumes EXCEPT ![v].consumed = volumes[v].size,
                                          ![v].parent = NoSnapshot]
        BY <2>1, <4>1 DEF FlattenComplete
      <4>3. IsMap(volumes, Volumes, Volume)
        BY DEF TypeOK
      <4>4. \A u \in DOMAIN volumes : volumes[u] \in Volume
        BY <4>3 DEF IsMap
      <4>5. DOMAIN volumes' = DOMAIN volumes
        BY <4>2
      <4> QED BY <4>2, <4>4, <4>5 DEF Volume
    <3> QED BY <3>1, NothingBooked
  <2> QED BY <1>1, <1>12, <2>1
          DEF RunFlatten, FlattenAbandon, FlattenProgress, FlattenFail
<1>13. ASSUME NEW g \in Goroutines, RunMigration(g)
       PROVE  Good
  BY <1>1, <1>8, <1>13 DEF RunMigration, MigrateAbandon, MigrateBegin,
     MigrateProgress, MigrateFinish, MigrateFail
<1>14. CASE AsyncRequest \/ UNCHANGED vars
  BY <1>1, <1>14 DEF AsyncRequest, StartFlatten, StartMigration,
                     CancelMigration, vars
<1>15. CASE BackendRequest
  BY <1>2, <1>3, <1>15 DEF BackendRequest
<1> QED BY <1>9, <1>10, <1>11, <1>12, <1>13, <1>14, <1>15
        DEF SerialNext, Next, Request, Goroutine

\* The invariant holds for every client that waits for its migrations.
LEMMA SerialSafe == SerialSpec => []SerialInv
<1>1. Init => SerialInv
  <2> SUFFICES ASSUME Init PROVE SerialInv
      OBVIOUS
  <2>1. TypeOK /\ CancelledStaysFailed
    BY EmptyIsMap DEF Init, TypeOK, CancelledStaysFailed
  <2>2. Paired
    BY EmptyIsMap, StorageAssumption
       DEF Init, Paired, NumbersGiven, FlattenersPaired, MoversPaired,
           StorageAssumption
  <2>3. DOMAIN volumes = {} /\ DOMAIN backends = {} /\ DOMAIN movers = {}
    BY EmptyIsMap DEF Init
  <2>4. IsFiniteSet({})
    BY FS_EmptySet
  <2>5. MoversRight /\ VolumesPlaced /\ AccountingExact
    BY <2>3, <2>4
       DEF MoversRight, VolumesPlaced, AccountingExact, AllocatedIsSumOfSizes
  <2> QED BY <2>1, <2>2, <2>5 DEF SerialInv
<1>2. SerialInv /\ [SerialNext]_vars => SerialInv'
  <2>1. [SerialNext]_vars => [Next]_vars
    BY DEF SerialNext
  <2> QED BY <2>1, TypeStep, CancelStep, PairedStep, RightStep,
             AccountingStep DEF SerialInv
<1> QED BY <1>1, <1>2, PTL DEF SerialSpec

\* The counters of every backend are exact for a client that waits for its
\* migrations, whatever it cancels.
THEOREM AccountingSafe == SerialSpec => []AccountingExact
<1>1. SerialInv => AccountingExact
  BY DEF SerialInv
<1> QED BY <1>1, SerialSafe, PTL

-----------------------------------------------------------------------------
(***************************************************************************)
(* The life cycles a client sees.  A wake-up writes a record from the      *)
(* state that Paired says it is in, so every write follows an edge.        *)
(***************************************************************************)
\* What a step does to the migrations: one starts, one takes an edge, or a
\* reset takes them all.
LEMMA MigrationSteps ==
    ASSUME SerialInv, [SerialNext]_vars
    PROVE  \/ migrations' = migrations
           \/ migrations' = EmptyMap
           \/ \E n \in (1..MaxOps) \ DOMAIN migrations : \E r :
                 r.state = "preparing" /\ migrations' = Put(migrations, n, r)
           \/ \E m \in DOMAIN migrations : \E r :
                 /\ <<migrations[m].state, r.state>> \in MigrationEdges
                 /\ migrations' = [migrations EXCEPT ![m] = r]
<1> USE DEF SerialInv, Paired, NumbersGiven
<1>n. opCounter \in Nat /\ MaxOps \in Nat
  BY StorageAssumption DEF StorageAssumption, TypeOK
<1>1. CASE BackendRequest \/ VolumeRequest \/ SnapshotRequest
  BY <1>1, RequestsKeepRecords
<1>2. CASE Reset
  BY <1>2 DEF Reset
<1>3. ASSUME NEW v \in Volumes, NEW b \in Backends, NEW g \in Goroutines,
             StartMigration(v, b, g)
      PROVE  \E n \in (1..MaxOps) \ DOMAIN migrations : \E r :
                 r.state = "preparing" /\ migrations' = Put(migrations, n, r)
  <2> DEFINE r == [volume |-> v, src |-> volumes[v].backend, dest |-> b,
                   state |-> "preparing", cancelled |-> FALSE]
  <2>1. r.state = "preparing" /\ migrations' = Put(migrations, opCounter + 1, r)
    BY <1>3 DEF StartMigration
  <2>2. opCounter + 1 \in (1..MaxOps) \ DOMAIN migrations
    BY <1>n, <1>3 DEF StartMigration
  <2> QED BY <2>1, <2>2
<1>4. ASSUME NEW m \in DOMAIN migrations, CancelMigration(m)
      PROVE  \E r : /\ <<migrations[m].state, r.state>> \in MigrationEdges
                    /\ migrations' = [migrations EXCEPT ![m] = r]
  <2> DEFINE r == [migrations[m] EXCEPT !.cancelled = TRUE, !.state = "failed"]
  <2>1. migrations' = [migrations EXCEPT ![m] = r]
    BY <1>4 DEF CancelMigration
  <2>2. migrations[m] \in Migration
    BY MapValue DEF TypeOK
  <2>3. r.state = "failed"
    BY <2>2 DEF Migration
  <2>4. <<migrations[m].state, r.state>> \in MigrationEdges
    BY <1>4, <2>3 DEF CancelMigration, MigrationEdges
  <2> QED BY <2>1, <2>4
<1>5. ASSUME NEW g \in DOMAIN movers, Proceeds(movers[g].mig),
             NEW s, <<Shown(movers[g].pc), s>> \in MigrationEdges,
             migrations' = [migrations EXCEPT ![movers[g].mig].state = s]
      PROVE  \E m \in DOMAIN migrations : \E r :
                /\ <<migrations[m].state, r.state>> \in MigrationEdges
                /\ migrations' = [migrations EXCEPT ![m] = r]
  <2> DEFINE m == movers[g].mig
             r == [migrations[m] EXCEPT !.state = s]
  <2>1. m \in DOMAIN migrations /\ migrations[m].state = Shown(movers[g].pc)
    BY <1>5 DEF MoversPaired
  <2>2. migrations[m] \in Migration
    BY <2>1, MapValue DEF TypeOK
  <2>3. r.state = s /\ migrations' = [migrations EXCEPT ![m] = r]
    BY <1>5, <2>1, <2>2 DEF Migration
  <2> QED BY <1>5, <2>1, <2>3
<1>6. /\ <<Shown("prepare"), "transferring">> \in MigrationEdges
      /\ <<Shown("transfer"), "finishing">> \in MigrationEdges
      /\ <<Shown("finish"), "completed">> \in MigrationEdges
      /\ <<Shown("finish"), "failed">> \in MigrationEdges
  BY DEF Shown, MigrationEdges
<1>7. ASSUME NEW g \in Goroutines, RunMigration(g)
      PROVE  \/ migrations' = migrations
             \/ \E m \in DOMAIN migrations : \E r :
                   /\ <<migrations[m].state, r.state>> \in MigrationEdges
                   /\ migrations' = [migrations EXCEPT ![m] = r]
  <2>0. g \in DOMAIN movers
    BY <1>7 DEF RunMigration
  <2>1. CASE MigrateAbandon(g) \/ MigrateProgress(g)
    BY <2>1 DEF MigrateAbandon, MigrateProgress
  <2>2. CASE MigrateBegin(g)
    BY <1>5, <1>6, <2>0, <2>2 DEF MigrateBegin
  <2>3. CASE MigrateFinish(g)
    BY <1>5, <1>6, <2>0, <2>3 DEF MigrateFinish
  <2>4. CASE MigrateFail(g)
    BY <1>5, <1>6, <2>0, <2>4 DEF MigrateFail
  <2>5. CASE MigrateComplete(g)
    BY <1>5, <1>6, <2>0, <2>5 DEF MigrateComplete
  <2> QED BY <1>7, <2>1, <2>2, <2>3, <2>4, <2>5 DEF RunMigration
<1>8. ASSUME NEW v \in Volumes, NEW g \in Goroutines, StartFlatten(v, g)
      PROVE  migrations' = migrations
  BY <1>8 DEF StartFlatten
<1>9. ASSUME NEW g \in Goroutines, RunFlatten(g)
      PROVE  migrations' = migrations
  BY <1>9 DEF RunFlatten, FlattenAbandon, FlattenProgress, FlattenFail,
              FlattenComplete
<1>10. CASE UNCHANGED vars
  BY <1>10 DEF vars
<1>11. CASE AsyncRequest
  BY <1>3, <1>4, <1>8, <1>11 DEF AsyncRequest
<1>12. CASE Goroutine
  BY <1>7, <1>9, <1>12 DEF Goroutine
<1> QED BY <1>1, <1>2, <1>10, <1>11, <1>12 DEF SerialNext, Next, Request

\* What a step does to the operations, likewise.
LEMMA OperationSteps ==
    ASSUME SerialInv, [SerialNext]_vars
    PROVE  \/ operations' = operations
           \/ operations' = EmptyMap
           \/ \E n \in (1..MaxOps) \ DOMAIN operations : \E r :
                 r.state = "running" /\ operations' = Put(operations, n, r)
           \/ \E n \in DOMAIN operations : \E r :
                 /\ operations[n].state = "running"
                 /\ r.state \in {"completed", "failed"}
                 /\ operations' = [operations EXCEPT ![n] = r]
<1> USE DEF SerialInv, Paired, NumbersGiven
<1>n. opCounter \in Nat /\ MaxOps \in Nat
  BY StorageAssumption DEF StorageAssumption, TypeOK
<1>1. CASE BackendRequest \/ VolumeRequest \/ SnapshotRequest
  BY <1>1, RequestsKeepRecords
<1>2. CASE Reset
  BY <1>2 DEF Reset
<1>3. ASSUME NEW v \in Volumes, NEW g \in Goroutines, StartFlatten(v, g)
      PROVE  \E n \in (1..MaxOps) \ DOMAIN operations : \E r :
                 r.state = "running" /\ operations' = Put(operations, n, r)
  <2> DEFINE r == [volume |-> v, state |-> "running"]
  <2>1. r.state = "running" /\ operations' = Put(operations, opCounter + 1, r)
    BY <1>3 DEF StartFlatten
  <2>2. opCounter + 1 \in (1..MaxOps) \ DOMAIN operations
    BY <1>n, <1>3 DEF StartFlatten
  <2> QED BY <2>1, <2>2
<1>4. ASSUME NEW g \in DOMAIN flatteners, NEW s \in {"completed", "failed"},
             operations' = [operations EXCEPT ![flatteners[g].op].state = s]
      PROVE  \E n \in DOMAIN operations : \E r :
                /\ operations[n].state = "running"
                /\ r.state \in {"completed", "failed"}
                /\ operations' = [operations EXCEPT ![n] = r]
  <2> DEFINE n == flatteners[g].op
             r == [operations[n] EXCEPT !.state = s]
  <2>1. n \in DOMAIN operations /\ operations[n].state = "running"
    BY DEF FlattenersPaired
  <2>2. operations[n] \in Operation
    BY <2>1, MapValue DEF TypeOK
  <2>3. r.state = s /\ operations' = [operations EXCEPT ![n] = r]
    BY <1>4, <2>1, <2>2 DEF Operation
  <2> QED BY <2>1, <2>3
<1>5. ASSUME NEW g \in Goroutines, RunFlatten(g)
      PROVE  \/ operations' = operations
             \/ \E n \in DOMAIN operations : \E r :
                   /\ operations[n].state = "running"
                   /\ r.state \in {"completed", "failed"}
                   /\ operations' = [operations EXCEPT ![n] = r]
  BY <1>4, <1>5 DEF RunFlatten, FlattenAbandon, FlattenProgress, FlattenFail,
                    FlattenComplete
<1>6. ASSUME NEW v \in Volumes, NEW b \in Backends, NEW g \in Goroutines,
             StartMigration(v, b, g)
      PROVE  operations' = operations
  BY <1>6 DEF StartMigration
<1>7. ASSUME NEW m \in DOMAIN migrations, CancelMigration(m)
      PROVE  operations' = operations
  BY <1>7 DEF CancelMigration
<1>8. ASSUME NEW g \in Goroutines, RunMigration(g)
      PROVE  operations' = operations
  BY <1>8 DEF RunMigration, MigrateAbandon, MigrateBegin, MigrateProgress,
              MigrateFinish, MigrateFail, MigrateComplete
<1>9. CASE UNCHANGED vars
  BY <1>9 DEF vars
<1>10. CASE AsyncRequest
  BY <1>3, <1>6, <1>7, <1>10 DEF AsyncRequest
<1>11. CASE Goroutine
  BY <1>5, <1>8, <1>11 DEF Goroutine
<1> QED BY <1>1, <1>2, <1>9, <1>10, <1>11 DEF SerialNext, Next, Request

\* A client that waits for its migrations sees every one of them follow the
\* documented life cycle, with cancellations at any time.
THEOREM MigrationsImplementLifecycle == SerialSpec => MigrationRefinesLifecycle
<1> DEFINE Seen == StateOf(migrations, 1..MaxOps)
<1>1. Init => MigrationLifecycle!Init
  BY EmptyIsMap DEF Init, MigrationLifecycle!Init, StateOf
<1>2. SerialInv /\ [SerialNext]_vars => [MigrationLifecycle!Next]_Seen
  <2> SUFFICES ASSUME SerialInv, [SerialNext]_vars
               PROVE  MigrationLifecycle!Next \/ Seen' = Seen
      OBVIOUS
  <2>1. CASE migrations' = migrations
    BY <2>1
  <2>2. CASE migrations' = EmptyMap
    BY <2>2, EmptyIsMap
       DEF MigrationLifecycle!Next, MigrationLifecycle!Clear, StateOf
  <2>3. ASSUME NEW n \in (1..MaxOps) \ DOMAIN migrations, NEW r,
               r.state = "preparing", migrations' = Put(migrations, n, r)
        PROVE  MigrationLifecycle!Next
    <3>1. /\ Seen[n] = "absent"
          /\ StateOf(Put(migrations, n, r), 1..MaxOps) =
                [Seen EXCEPT ![n] = r.state]
      BY DEF StateOf, Put
    <3>2. Seen' = [Seen EXCEPT ![n] = "preparing"]
      BY <2>3, <3>1
    <3> QED BY <3>1, <3>2
            DEF MigrationLifecycle!Next, MigrationLifecycle!Start
  <2>4. ASSUME NEW m \in DOMAIN migrations, NEW r,
               <<migrations[m].state, r.state>> \in MigrationEdges,
               migrations' = [migrations EXCEPT ![m] = r]
        PROVE  MigrationLifecycle!Next
    <3>1. m \in 1..MaxOps
      BY StorageAssumption
         DEF StorageAssumption, SerialInv, Paired, NumbersGiven, TypeOK
    <3>2. /\ Seen[m] = migrations[m].state
          /\ StateOf([migrations EXCEPT ![m] = r], 1..MaxOps) =
                [Seen EXCEPT ![m] = r.state]
      BY <3>1 DEF StateOf
    <3>3. Seen' = [Seen EXCEPT ![m] = r.state]
      BY <2>4, <3>2
    <3>4. MigrationLifecycle!Advance(m)
      <4> DEFINE e == <<migrations[m].state, r.state>>
      <4>1. e \in MigrationEdges /\ e[1] = Seen[m] /\ e[2] = r.state
        BY <2>4, <3>2
      <4> QED BY <3>3, <4>1 DEF MigrationLifecycle!Advance
    <3> QED BY <3>1, <3>4 DEF MigrationLifecycle!Next
  <2> QED BY <2>1, <2>2, <2>3, <2>4, MigrationSteps
<1> QED BY <1>1, <1>2, SerialSafe, PTL
        DEF SerialSpec, MigrationRefinesLifecycle, MigrationLifecycle!Spec

\* It sees every flatten run and then complete or fail for good.
THEOREM FlattensImplementLifecycle == SerialSpec => FlattenRefinesLifecycle
<1> DEFINE Seen == StateOf(operations, 1..MaxOps)
           Ends == {<<"running", "completed">>, <<"running", "failed">>}
<1>1. Init => FlattenLifecycle!Init
  BY EmptyIsMap DEF Init, FlattenLifecycle!Init, StateOf
<1>2. SerialInv /\ [SerialNext]_vars => [FlattenLifecycle!Next]_Seen
  <2> SUFFICES ASSUME SerialInv, [SerialNext]_vars
               PROVE  FlattenLifecycle!Next \/ Seen' = Seen
      OBVIOUS
  <2>1. CASE operations' = operations
    BY <2>1
  <2>2. CASE operations' = EmptyMap
    BY <2>2, EmptyIsMap
       DEF FlattenLifecycle!Next, FlattenLifecycle!Clear, StateOf
  <2>3. ASSUME NEW n \in (1..MaxOps) \ DOMAIN operations, NEW r,
               r.state = "running", operations' = Put(operations, n, r)
        PROVE  FlattenLifecycle!Next
    <3>1. /\ Seen[n] = "absent"
          /\ StateOf(Put(operations, n, r), 1..MaxOps) =
                [Seen EXCEPT ![n] = r.state]
      BY DEF StateOf, Put
    <3>2. Seen' = [Seen EXCEPT ![n] = "running"]
      BY <2>3, <3>1
    <3> QED BY <3>1, <3>2
            DEF FlattenLifecycle!Next, FlattenLifecycle!Start
  <2>4. ASSUME NEW n \in DOMAIN operations, NEW r,
               operations[n].state = "running",
               r.state \in {"completed", "failed"},
               operations' = [operations EXCEPT ![n] = r]
        PROVE  FlattenLifecycle!Next
    <3>1. n \in 1..MaxOps
      BY StorageAssumption
         DEF StorageAssumption, SerialInv, Paired, NumbersGiven, TypeOK
    <3>2. /\ Seen[n] = operations[n].state
          /\ StateOf([operations EXCEPT ![n] = r], 1..MaxOps) =
                [Seen EXCEPT ![n] = r.state]
      BY <3>1 DEF StateOf
    <3>3. Seen' = [Seen EXCEPT ![n] = r.state]
      BY <2>4, <3>2
    <3>4. FlattenLifecycle!Advance(n)
      <4> DEFINE e == <<"running", r.state>>
      <4>1. e \in Ends /\ e[1] = Seen[n] /\ e[2] = r.state
        BY <2>4, <3>2
      <4> QED BY <3>3, <4>1 DEF FlattenLifecycle!Advance
    <3> QED BY <3>1, <3>4 DEF FlattenLifecycle!Next
  <2> QED BY <2>1, <2>2, <2>3, <2>4, OperationSteps
<1> QED BY <1>1, <1>2, SerialSafe, PTL
        DEF SerialSpec, FlattenRefinesLifecycle, FlattenLifecycle!Spec
=============================================================================
