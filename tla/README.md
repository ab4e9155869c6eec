# cirrus-sim in TLA+

cirrus-sim is a set of Go simulators (libvirt, OVN, storage, AWX, NetBox, fault
injection) that the cloud controller Cirrus is tested against. A simulator that
loses a volume, completes a job twice or runs a domain on two hosts makes the
test that uses it worthless, so what matters is that each keeps its promises
whatever the order of requests, timers, goroutines and resets. This directory
models the simulators, checks the models with TLC and proves the main results
with TLAPS. Paths below are relative to the repository; `PROJECT.json` maps
every definition to the lines it models.

## 1. The system

Every simulator is one in-memory store behind a mutex, an HTTP management API
and, for libvirt and OVN, a TCP protocol. Nothing is persisted. The simulators
do not call one another: Cirrus, the web UI and the seeder talk to each.

| component | state | operations | what is hard |
|---|---|---|---|
| storage-sim | backends with capacity counters, volumes, snapshots, clones, operations, migrations | HTTP requests, one goroutine per flatten and per migration, reset | goroutines sleep without the lock and look everything up by number when they wake, while volumes are deleted and the counter restarts |
| libvirt-sim registry | hosts, ports in use, listeners | create host (store, then listener, then rollback), state, ratios, reset (listeners, then store) | each call takes two locks one after the other |
| libvirt-sim domains | domains of every host, the id counter | define, start, destroy, shut down, suspend, resume, undefine; migration phases Prepare, Perform, Finish, Confirm | a migration is four calls on two hosts; Prepare sleeps between reading the domain and reserving |
| libvirt-sim events | the connections and what each is subscribed to | connect, register, deregister, emit, leave | an event is written by the goroutine of the call to everybody else's connection, after the change and without its lock |
| awx-sim | templates, jobs, timers, callback settings | create template, launch, cancel, reset; the timer completes the job and posts a callback | a launch takes the lock three times; a stopped timer may already have fired |
| ovn-sim | clusters, per cluster an OVSDB database and its monitors | transact, monitor, port up and down, reset | rollback restores copies of tables, announcements come after the commit |
| ovn-sim clusters | clusters, listeners, connections | create, accept, reset, shutdown | the reset waits for goroutines under the manager's lock |
| netbox-sim | sites, locations, racks, devices and their numbers | bulk load, seeding, filtered lists, reset | a load and a list take the lock once per object; a reset in between restarts the numbers |
| fault engine | rules with call and hit counts | add, delete, clear, check | rules are visited in map order and a check stops at the first that fires |
| event log | events, a counter | record, query by page, clear | pages are read while events are recorded |
| snapshot manager | registered components, snapshots | register, take, restore, delete | a take or a restore stops half way, and components change meanwhile |
| data generator | status and last result | generate, status, reset | the lock is held for the status and for the result, not in between |
| load-gen | runs | start a run, poll it; a goroutine per run | a reply is encoded from a map the goroutine writes |
| postgres, web UI, launcher | an external process, or none | start-up, proxying, seeding | I/O |

What makes them correct:

- storage: no object another one depends on disappears; counters equal the sums
  they stand for; capacity limits hold; every operation ends, and what a client
  reads of it follows the documented life cycle.
- libvirt: registry, port table and listeners agree; ids are unique and shown
  exactly for active domains; a domain is handed on from one host at most and is
  never lost by a migration, and no host runs more than it may. That a domain runs
  on one host holds between migrations as long as migration clients do not crash.
- awx: every job ends, along the documented transitions, once; the callback is
  posted.
- libvirt events: a subscriber's last event about a domain is true of it, and it
  hears only of the host it is connected to.
- netbox: what is loaded stands where its request has put it, and is listed so.
- common: a rule fires when its trigger says so and no matching call escapes it
  unanswered; pages are complete; snapshots are whole and restores exact; the
  generator's status is honest and its hosts have numbers and ports of their own.
- load-gen: a run that is reported as completed has a result for every asserted
  metric, and every run that can get there does.
- ovn: a reset and a shutdown end and leave nothing behind; a transaction is all or
  nothing and does not undo others; a monitor that applies what it is sent ends with
  the rows of the database; no row refers to one that is not there. The second and
  the last are promised of every client and not kept (section 3).

## 2. Modules

| module | models | in |
|---|---|---|
| `Maps` | Go maps as functions: empty, put, delete, type | - |
| `StorageSim` | the store, the requests and the two goroutines | storage-sim/internal/state/store.go, handler/storage.go, sim/management.go |
| `StorageSerial` | the same under a client that waits for its migrations | |
| `AsyncLifecycle` | abstract: what a client may see of an asynchronous job | |
| `LibvirtHosts` | the host registry with its locks taken one by one | libvirt-sim/internal/state, handler/management.go, rpc/server.go |
| `LibvirtSim` | extends it by domains and the migration phases | libvirt-sim/internal/state, rpc/handlers*.go |
| `LibvirtMigration` | composes it with migration clients that may crash, and others | |
| `AwxSim` | templates, launches, timers, callbacks | awx-sim/internal |
| `OvsdbRows` | rows, conditions, mutations: what one operation does to one table | ovn-sim/internal/ovsdb/store.go, transact.go |
| `OvsdbSim` | transactions, monitors, announcements, ports up and down | ovn-sim/internal/ovsdb, state/cluster.go |
| `OvsdbTables` | the same under clients that keep out of each other's way | |
| `OvsdbRuns` | what a list of operations makes of a database nothing else touches | |
| `AtomicDatabase` | abstract: a database whose transactions are atomic | |
| `LibvirtEvents` | `LibvirtSim` composed with connections, subscriptions and emissions | libvirt-sim/internal/rpc |
| `OvnClusters` | clusters, listeners, connections, reset, shutdown | ovn-sim/internal/state/cluster.go, ovsdb/server.go, app.go |
| `NetboxSim` | tables, bulk loads, lists | netbox-sim/internal |
| `FaultEngine` | rules and checks | common/pkg/fault |
| `EventLog` | the log and clients that page through it | common/pkg/eventlog |
| `SnapshotManager` | takes and restores, component by component | common/pkg/snapshot |
| `Datagen` | generations, and the launcher's walk that seeds netbox-sim | common/pkg/datagen, cmd/cirrus-sim/seed.go |
| `LoadGen` | runs and the requests that show them | load-gen/internal |
| `Services` | composes the services that share no state: `NetboxSim`, `FaultEngine`, `EventLog`, `SnapshotManager`, `OvnClusters`, `LoadGen`, `Datagen` | |
| `MC*` | values of the constants for TLC | |
| `MapProofs`, `StorageProofs`, `LibvirtProofs`, `LibvirtMigrationProofs`, `LibvirtEventsProofs`, `AwxProofs`, `ServicesProofs`, `OvsdbProofs` | theorems; `ServicesProofs` is about `Services` and all it composes, `MapProofs` about maps, sums and counts | |

Conventions.

- One action is one critical section: what a method does between Lock and Unlock
  is atomic, and whatever releases the lock in between is several actions.
- A request that is refused changes nothing, so the early returns of a method
  are the negated conjuncts of its action; refusals are disabled actions. Where
  a refusal matters to somebody (a client of a migration phase, a registration
  that rolls back) it is an action of its own.
- Numbers are the numbers of the code: capacities, sizes and counters are
  integers; ratios are percentages and the conversion to int truncates as the
  code's does. Sizes are whole GB, so what the truncation cuts off never decides a
  check; the rounding of the code's floating-point product is not modelled.
- Left out, because no property depends on it: timestamps, progress figures,
  names and metadata, durations and latency settings (`SetConfig`), migration
  speed, logs, HTTP status codes, read-only requests.

### Storage

`backends`, `volumes`, `snapshots`, `operations`, `migrations` and `opCounter`
are the fields of `Store`; `flatteners` and `movers` are the live goroutines
with the arguments they were started with. `ChildClones` is a list that may
repeat an id (a clone that is deleted stays listed, and may be created again),
so it is a count per volume. `stale` is a history variable: the goroutines of
before the last reset. A goroutine wakes once per progress step (`Steps`, 10 in
the code), and every wake-up is an action that finds its record or not.

`UsedCapacityGB` is charged by the sizes of thick volumes, in the requests and in a
completed migration; a flatten changes only what the volume consumes. `AccountingExact`
states that meaning, which is the one the capacity checks use and the one the document
has for a create. The document's sum for it is another (`UsedIsConsumed`, section 3).

The API validates neither sizes nor backend states beyond what the guards show.

### Libvirt

`hosts`, `ports`, `listeners` are the maps of `Store` and `Server`;
`creating` and `resetting` are the HTTP calls between two of their critical
sections; `domains` maps a pair of host and UUID to a domain; `preparing` holds
the Prepare calls that are asleep. Seeding at start-up (`libvirt-sim/app.go`
SeedHost) does what the management call does, rollback included.

A life-cycle call looks its host up under the store's lock and then takes the
host's. If a reset comes in between, the call works on a host nobody can reach
any more; all that is left of it is an id that is not used. The model takes both
locks at once.

`LibvirtMigration` adds what the protocol leaves to the clients: a client calls
the phases in order, gives up or rolls back when one is refused, and may crash
anywhere, which leaves a placeholder or a marked source for ever. Other clients
create hosts, reset, define, start, stop and suspend. Two things are assumed of
them: a UUID is defined once, and not while it is being migrated, and nobody but
the migration's client touches a placeholder. `MeddlingSpec` drops the second;
`SteadySpec` adds that migration clients do not crash.

A source that has performed is marked and goes on running, and `StartDomain` starts a
marked domain like any other. So between Finish and Confirm the domain runs on both
hosts, and if the client is gone by then, for ever. `OneUnmarked` is what holds
whoever crashes: at most one entry is without a mark, and only such an entry can be
migrated. `RunsOnce` says that the domain runs on one host except between Finish and
Confirm; it holds under `SteadySpec`, whatever others do to the source, and is
violated under `MigrationSpec`.

### AWX

A slot of `launches` is one LaunchJob call together with its timer: `call` says
which of its critical sections it has done, `timer` how far the timer is.
`current` says that the Job the call holds a pointer to is the one in the map,
`listed` that Reset would find the timer. A timer that has fired is a goroutine
that Stop does not reach.

### OVN

`OvsdbSim` is one cluster's server. `tables` is the store; `writers` holds the
transactions and port calls in progress, each with the copies of tables it took
at the start, the rows it has read for the operation at hand and the changes it
has still to announce; `monitors` holds, for each registered monitor, the
request and the view its client has built. `Store.mu` covers one call on the
store and not a transaction, so an update is three actions (read the old rows,
write, read the new rows), and other writers come in between. The lock of the
monitor manager appears as the guards `Registering = {}` and `Unlocked`: Register
holds it while it dumps table after table, an announcement holds it for reading
until every monitor has been told.

Values are tagged, as in the protocol. A mutation that fails leaves the row half
mutated and, because Go visits rows in any order, any set of other rows done;
`HalfMutated` is the set of these outcomes. Names of rows inserted by the same
transaction are resolved in rows and conditions and, as in the code, not in
mutations. A client whose monitor reply is overtaken by an update (the two are
written by different goroutines) is taken to apply the update after the initial
rows.

The server does not keep transactions apart. Without further assumptions both
properties of `OvsdbTables` fail: a transaction that fails writes back its
copies and with them undoes what others have committed to the same tables since;
two transactions may announce their changes to one row in the wrong order; a
monitor's initial rows may show what is undone later, which is never announced.
`TablesSpec` assumes what rules these out and no more: transactions and port
calls that overlap name different tables, and no monitor is requested on a table
on which a transaction that may fail is at work. Monitors may overlap
transactions that succeed. What is excluded here is not caught by these two
properties. The comment on `Transact` promises atomicity without any such condition, and
no operation looks at the references between rows: both are among the disagreements in
section 3.

### Libvirt events

`LibvirtEvents` puts a client side on `LibvirtSim`: every connection has a
goroutine that serves one call after the other (`calls`), and a call is its
change of the store followed by its events. An event holds the bus's read lock
while it visits the subscribers of the host; `sending`, `clients` and `cbs` are
where it is. Connecting and leaving take the write lock, so they wait for the
emissions in progress (`BusFree`). Registering and deregistering do not, so they
interleave with them. Perform announces the suspension only after the transfer,
and only if the domain was there when the transfer began.

`audience` and `told` are history variables: the callbacks that were registered
from the change on, and what each was told since. Another call on the same domain
empties the audience, because then the code makes no promise: two calls change
the domain in one order and may write their events in the other. `Agrees` spells
out the one place where an event is not what the store says: the source of a
migration is announced as suspended while the store lets it run.

A client is assumed to read what it is sent. One that does not blocks the
emission, and behind it everybody who connects or leaves.

### OVN clusters

`servers` keeps every server ever created, `clusters` the ones the manager
knows; a connection is accepted, then listed by its own goroutine. That gap is
what `ResetsEnd` is about: `StopAll` closes the connections that are listed, so
one that lists itself later is closed by nobody, and the reset, which holds the
manager's lock, waits until its client goes. The property states what is left of
the promise: a reset ends unless such a client stays. A shutdown has cancelled
the context first, which a late connection's goroutine sees, so `ShutdownEnds`
has no exception once the shutdown has the lock.

### NetBox, common services, load-gen

- `Services`: the launcher starts these in one process, where their steps
  interleave. They share nothing, so each behaves as it does alone
  (`ServicesApart`), and TLC explores one at a time: `service` in `MCServices` is
  the one a behaviour has picked.
- `NetboxSim`: a request is the sequence of its parts in the order in which
  `bulkLoad` reaches them; a load is one Add call per part and remembers the
  numbers it was given. A list is one lookup per reference. `current` marks loads
  that no reset has overtaken; those that one has overtaken hang their objects
  below whatever has the numbers now, which the code accepts, and the properties
  say that they disturb nobody else.
- `FaultEngine`: a check picks any set of matching rules as the ones visited
  before the one that fires, which is what Go's map order allows. A rule may be
  posted with a call count, which the code keeps. The random source is a choice,
  the clock an action.
- `EventLog`: `GetEvents` is a client that asks for the next page at the offset
  it has reached and stops at the reported total.
- `SnapshotManager`: `was`, `from` and `quiet` are history: what the components
  were when the call began, and whether somebody else has changed one since.
- `Datagen`: the hosts of an environment are computed by the nested loops of the
  generator (`HostWalk`) and compared with arithmetic on their places, and with the
  second walk the launcher makes to seed netbox-sim (`SeedWalk`); `SeedRequest` is that walk as a
  request of `NetboxSim`, and one of the loads of its run.
- `LoadGen`: `Encode` reads the shared map without the lock. Go stops the process
  when it notices a write during the walk (`MapRace`): the runs are gone. Results are
  kept by metric, so two assertions on one metric leave one result. The goroutine
  sleeps for one second divided by the rate after every action, whatever the
  deadline. With a rate of 0 the quotient does not fit a Duration, and Go leaves open
  what it is converted to: on some processors the least Duration, and no sleep, on
  others the greatest. A phase is therefore `"paced"` or `"unpaced"`, and a run may
  oversleep in the second kind (`Oversleeps`).

In this repository only tests call the fault engine's Check, the log's Record and
the snapshot manager's Register; the models take any caller.

## 3. Runs

| run | specification | states | checks |
|---|---|---|---|
| storage_core | all clients, resets included | 687,459 | `TypeOK`, `SnapshotIntegrity`, `CloneIntegrity`, `CancelledStaysFailed`, `NothingOrphaned` |
| storage_serial | a client that waits for its migrations | 350,470 | `AccountingExact`, `MigrationRefinesLifecycle`, `FlattenRefinesLifecycle` |
| storage_capacity | the same | violated | `WithinOverprovision` |
| storage_used | the same | violated | `UsedIsConsumed` |
| libvirt_core | any calls in any order | 713,763 | `TypeOK`, `PortsExact`, `HostsReachable`, `IdsDistinct`, `IdsShowActivity` |
| libvirt_migration | migration clients and others | 290,390 | `OneUnmarked`, `CapacityHeld`, `NeverLost` |
| libvirt_overcommit | others touch placeholders | violated | `CapacityHeld` |
| async_work | awx-sim and storage-sim under all clients, fair timers and goroutines | 196,750 | awx: `TypeOK`, `JobsHaveTimers`, `JobsFollowLifecycle`; storage: `EverythingEnds` |
| awx_callback | awx-sim under all clients | violated | `CallbacksPosted` |
| ovn_tables | clients on different tables | 486,517 | `TypeOK`, `Converged`, `AtomicTransactions` |
| libvirt_events | calls, subscribers who come and go | 1,333,407 | `EventsAgree`, `EmissionsAimed` |
| services | the other services, fair goroutines | 245,802 | netbox: `ObjectsPlaced`, `RepliesRight`; faults: `HitsExact`, `NoCallLost`; log: `PagesComplete`; snapshots: `SnapshotsWhole`, `RestoresExact`; clusters: `NoSurvivors`, `ResetsEnd`, `ShutdownEnds`; load-gen: `PolledResultsWhole`, `RunsFollowLifecycle`; generator: `HostsExact`, `StatusHonest`; all: `TypeOK` |

The runs that pass fire every action. Bounds, and why they suffice:

- Storage: two volumes are a source and its clone, one snapshot, two goroutines,
  two operation numbers between resets. That is enough for a goroutine of before
  a reset to meet a newer one working under its number, for two flattens of one
  clone, for a flatten to outlive its volume and for a clone to be deleted and
  created again (`MaxListed` = 2). `Steps` = 1: all middle steps do the same.
  With one backend the counters matter little in storage_core; storage_serial has
  two, and thick volumes as well as thin clones; a
  total of 2 and a ratio of 1.25 give a limit between two whole numbers.
  storage_used has thin volumes only, which the document charges for nothing but what
  they consume. async_work has one operation between resets (`MaxOps` = 1): a
  goroutine of before a reset still meets a newer one under its number.
  `MaxOps` bounds numbers between resets, not the length of a behaviour: resets
  are unbounded.
- Registry and domains: two hosts with room for one domain each compete for two
  ports in two concurrent management calls, so a registration, its rollback and a
  reset can overlap. The constraint `Overlaps` lets management calls overlap while
  there are no domains, and explores domains next to one call at a time.
  `MaxIds` bounds the ids handed out between resets. libvirt_migration has two
  domains and two Prepare calls, so that two migrations compete for the room of
  one host; hosts stay online there, since a host's state only makes Prepare
  refuse, as a lack of room does, and libvirt_core has every state.
- Events: two connections to two hosts, one callback each, for life-cycle or for
  other events; every connection is both a caller and a subscriber. `AtHome` keeps
  the domain on one host: it is defined, started, suspended, migrated away or
  finished there, and the other host is there to have clients that must hear
  nothing.
- Services: they share no variable, so each is explored with the others at rest.
  A bulk load with nested locations and a seeding run side by side; two rules of
  every pair of kinds see two checks; three events are read in pages of one, two
  and all; two snapshots of two components, one restore (`Followed` gives up on a
  restore that another change has overtaken, about which nothing is claimed); two
  clusters compete for two ports with two connections; two runs, with no phase or with
  one of each kind, and with assertions of which two share a metric, and two requests;
  environments with several sites, rows and racks, with an unknown template and
  with no site. Deadlock is not checked there: a process that is shut down stops.
- AWX: two launches and two job numbers between resets, so an old timer meets a
  new job under its number. async_work explores awx-sim and storage-sim one at a time:
  they share nothing, and `simulator` in `MCAsync` is the one a behaviour has picked.
- OVN: two clients and one port call work on two tables with three row ids. The
  six transactions insert a port and the switch that names it, delete ports by
  condition, delete switches, fail after an update, fail inside a mutation and
  mutate by condition; the two monitor requests ask for one column of one table
  and all of the other, and for a table that does not exist.

Symmetry is used over ids that only occur in sets, and only in runs that check
invariants and properties of single steps.

Fairness. A goroutine that sleeps wakes, Go's mutex does not starve a waiter,
and a timer that is not stopped fires, so every step of a goroutine, of a launch
and of a timer is weakly fair (`OvnFairness`: the goroutines of connections, of
accept loops and of the reset; `LoadgenFairness`: the goroutines of runs). A run in a phase with a pace gets past it;
in one without, it gets past it or oversleeps, and nothing is assumed of a run that
sleeps so. Nothing is assumed of clients: they may stop calling at any time.

### Disagreements with the documentation

- `storage_capacity`: StartMigration checks the destination and reserves
  nothing, so two migrations, or a migration and a create, overfill a backend
  although the documents rule that out, even for a patient client.
- `libvirt_overcommit`: destroying a placeholder returns its reservation, but
  Finish starts it all the same.
- `awx_callback`: the callback is posted with the context of the launch request,
  which net/http cancels when that request has been answered.
- `storage_used`: docs/spec/05-storage-sim.md (5.4.1) has the used capacity as the sum
  of what volumes and snapshots consume, and a flattened volume consume its size. A
  flatten leaves the used capacity alone, and a thick volume is charged with its size
  although it consumes 0 from its creation on.

Three more were met while modelling and have no run of their own; in each the model does
what the code does.

- Live migration. After a client that crashes between Finish and Confirm a domain runs
  on both hosts, and its source is marked as performing, "migration is in progress"
  (libvirt-sim/internal/state/domain.go), for ever: nothing but Confirm takes the mark
  away, and StartDomain ignores it, so others may even stop and restart that source.
  `RunsOnce` excludes this; it is proved for clients that do not crash (`SteadySpec`),
  and Prepare, Perform, Finish and a crash refute it for those that do.
- Atomicity. A rollback puts back whole tables, with what others have committed to
  them since: one client begins a transaction on a table, another inserts a row into it
  and is answered with success, the first fails, and the row is gone. The comment on
  `Transact` (ovn-sim/internal/ovsdb/transact.go, line 8) says "Transact executes a list
  of OVSDB operations atomically." `AtomicTransactions` holds for clients of which no two
  use a table at the same time.
- References. docs/spec/04-ovn-sim.md (4.5) has references between rows enforced,
  strong ones by refusing a delete, weak ones by removing them, and
  docs/plans/phase-2.md counts that as done. The code prints `refTable` with the schema
  and looks at it nowhere else: a port can be deleted while its switch still names it.

## 4. Theorems

All hold for every value of the constants, under the named assumptions of the
modules (`StorageAssumption`, `HostsAssumption`, `LibvirtAssumption`, `EventsAssumption`,
`AwxAssumption`, `FaultAssumption`, `OvnAssumption`, `LoadgenAssumption`,
`EventAssumption`, `NetboxAssumption`, `DatagenAssumption`, `OvsdbAssumption`,
`TablesAssumption`: inputs are numbers, markers are not ids, hosts can have a port
each). `NetboxAssumption` says that a request is nested as JSON nests and as the
launcher's loops do: what a part is in comes before it, a location in a location is
in the same site, and only a device is in a rack (`WellNested`). `TablesAssumption` is about the clients of the OVSDB server: a
transaction is a list of operations with the fields of the protocol, and it does not
write `_uuid`, which the server adds to every row and which is not among the columns of
the schema (ovsdb/schema.go); UUIDs are 16 bytes, so there are finitely many, and some. TLC evaluates each of
them on the instances it checks.

| theorem | of |
|---|---|
| `StorageProofs!TypeCorrect`, `SnapshotsSafe`, `ClonesSafe`, `CancelSafe`, `NoOrphans` | `StorageSim!Spec` |
| `StorageProofs!AccountingSafe`, `MigrationsImplementLifecycle`, `FlattensImplementLifecycle` | `StorageSerial!SerialSpec` |
| `LibvirtProofs!HostsTypeCorrect`, `PortsSafe`, `ReachableSafe` | `LibvirtHosts!HostsSpec` |
| `LibvirtProofs!ImplementsRegistry`, `RegistrySafe`, `TypeCorrect`, `IdsSafe`, `ActivitySafe` | `LibvirtSim!Spec` |
| `LibvirtMigrationProofs!MigrationImplementsSim`, `UnmarkedSafe`, `CopiesSafe`, `CapacitySafe` | `LibvirtMigration!MigrationSpec` |
| `LibvirtMigrationProofs!RunsOnceSafe` | `LibvirtMigration!SteadySpec` |
| `LibvirtEventsProofs!EmissionsSafe`, `EventsSafe` | `LibvirtEvents!EventsSpec` |
| `AwxProofs!TypeCorrect`, `TimersSafe`, `ImplementsLifecycle` | `AwxSim!Spec` |
| `ServicesProofs!FaultTypeCorrect`, `FaultsExact`, `CallsCounted` | `FaultEngine!FaultSpec` |
| `ServicesProofs!SnapshotTypeCorrect`, `KeptSnapshotsWhole`, `RestoresSafe` | `SnapshotManager!SnapshotSpec` |
| `ServicesProofs!OvnTypeCorrect`, `ClustersLeaveNothing` | `OvnClusters!OvnSpec` |
| `ServicesProofs!LoadgenTypeCorrect`, `PolledResultsSafe`, `RunsImplementLifecycle` | `LoadGen!LoadgenSpec` |
| `ServicesProofs!StatusSafe`, `HostsSafe` | `Datagen!DatagenSpec` |
| `ServicesProofs!LogSafe`, `PagesSafe` | `EventLog!EventSpec` |
| `ServicesProofs!NetboxTypeCorrect`, `ObjectsSafe`, `RepliesSafe` | `NetboxSim!NetboxSpec` |
| `ServicesProofs!ServicesApart`, `ServicesTypeCorrect` | `Services!Spec` |
| `OvsdbProofs!TablesTypeCorrect`, `MonitorsConverge`, `TransactionsAtomic` | `OvsdbTables!TablesSpec` |

`CapacitySafe` has the hypothesis `NaturalSizes`: the simulator parses the virtual
CPUs and the memory of a domain as plain integers and does not check them, and a
domain of negative size would make room that is missing when it stops.

The arguments:

- Types. Each field is a map; `MapProofs` says once what put, delete and update
  do to one, and each action is one application of that.
- Sums and other recursive functions. The library's induction theorems cannot be
  applied here, so a fact about every number, set or list is stated as the absence of a
  least counterexample (`LeastNumber`, `LeastSet`). `MapProofs` shows in this way that the
  function `SumFunction` is defined by exists, that a sum does not depend on the
  order in which it is taken (`SumWithout`), what one more key adds
  (`SumOfOneMoreKey`), and that the sizes of the fibres of a function add up to the
  size of its domain (`SumOfFibres`).
- Storage links. `SnapshotIntegrity` is inductive given types. `CloneIntegrity`
  needs it, because a deleted snapshot must not be a parent: DeleteSnapshot sees
  an empty clone list, and a clone with a parent is counted in it.
  `CancelledStaysFailed` rests on every wake-up looking at the flag in the
  critical section in which it writes. `NothingOrphaned` is inductive as it
  stands: a goroutine that finds its record ends only by ending the record, and
  one that does not find it ends nothing; numbers are reused only when the
  records are gone.
- Storage accounts. `AccountingExact` compares counters with sums over volumes.
  A sum is a cardinality here, that of the set of the volumes' single GB (`GBs`),
  so that what a change of one volume does to it follows from the library's
  theorems on finite sets (`SumMoves`). The invariant `SerialInv` adds what a
  mover knows of its volume: it is the only one, the volume is still where the
  mover took it up and as large (`Paired`, `MoversRight`), and volumes are on
  backends there are (`VolumesPlaced`). A step moves at most one volume's share
  from one backend to another (`SharesMove`), and the counters go with it.
- Life cycles. That a job record takes documented steps only is a case
  distinction over the actions; a request that the patient client makes, and
  everything a goroutine does to its own record, maps to one abstract step, the
  rest to none. The records' types and the freshness of numbers are needed.
- Registry. `PortsExact` says that `ports` is the inverse of the hosts'
  ports. `HostsReachable` holds because a host without its listener has a call
  in progress that will add it or remove the host, or a reset that will.
- Domains. libvirt-sim implements the registry, so what is proved of the
  registry is inherited. `IdsSafe` classifies steps: each either only removes
  domains or writes one, whose id is old, -1 or the counter's next value; that
  classification (`StepShape`) is all the proofs need of the actions.
- Migration. `MigrationInv` says of every client which phases it has behind it
  (`ClientsOK`), that at most one entry of a domain is without a mark, and none
  while its client is about to finish it (`OneSettled`), and that the destination has
  the domain once it is finished (`DestinationSafe`). `OneUnmarked` is a consequence,
  `NeverLost` an action property that needs the same invariant. For `RunsOnce` every
  mark must belong to a client that is past Perform (`MarksOwned`): a copy that runs
  is then unmarked, of which there is one, or the source of a client between Perform
  and Confirm, and before Finish there is no unmarked one beside it. A client keeps
  its mark to the end only if Finish finds the placeholder (`PlaceholdersWait`, with
  `PlaceholdersCount` for the Prepare call that made it), since a Finish that is refused
  ends the client.
- Capacity. Start and Prepare look for room, Finish does not, so `CapacityHeld` is
  not inductive: `CapacityInv` adds that the placeholder a client will finish is
  active already (`PlaceholdersCount`), and that sizes are natural numbers and domains
  finitely many. Most steps change at most one place and do not add to what is
  used there (`OnlyAt`); the sums of a host follow from `SumOfOneMoreKey`.
- Events. `EventsInv` says of each call in progress (`CallRight`) which
  connections it has still to visit, which have heard it, and that whoever is in
  its audience and not overlapped by another call heard last what the store
  says. The two calls of different hosts have different audiences
  (`AudiencesApart`), which is where hosts and ports must match one to one.
- AWX. `JobsHaveTimers` is inductive with types: a launch loses `current` only
  when the jobs are gone. `ImplementsLifecycle` also needs that the number of
  the next job is not in the map.
- Services. `HitsExact` and `NoCallLost` count: what a rule has counted is a set
  of numbers and a call adds one to it. `SnapshotInv` follows a take and a restore
  from component to component and says when either has been disturbed. `OvnInv`
  adds that servers are numbered as they come and that a reset waits only for
  servers that have closed their listeners. `LoadgenInv` adds that one goroutine
  at a time writes a run's outcome, that the results are those of the assertions
  evaluated so far (`RunKept`) and that a copy of the status shared before completion
  shows no completion.
- Pages. What a filter matches is a recursive function of the log; one more event
  appends to it or leaves it (an induction over the log). `PagesInv` says of a client
  that what it has is the beginning of what its filter matches and that the total
  it was told is no larger than that, until a clear overtakes it.
- NetBox. `NetboxInv` says of a load that no reset has overtaken which numbers it
  was given and that the rows with these numbers are its parts (`LoadRight`); numbers
  are never given out twice between resets, so rows are only added (`Grown`), and
  what stood in its place goes on to. That the ways of counting racks and devices
  agree is `SumOfFibres`. For `RepliesRight`, `ListsInv` follows a list from lookup to
  lookup; the depth of a location is a walk up its parents, which in the request go
  down in position (`WellNested`), so the walk ends where the request's own does
  (`WantedDepth`, `WalkStep`).
- Hosts. `GeneratedInv` says that a result is the hosts of an environment that was
  asked for; the rest is about the loops. `FlattenSeq` puts sequences where their
  lengths say (`FlatInPlace`), so the h-th host of a rack has the number that
  arithmetic gives it (`RowHostsAre`, `SiteHostsAre`, `HostWalkIs`). The devices of two
  walks one after the other are the devices of the first and then of the second
  (`DevicesConcat`), so the launcher's walk meets the same places loop by loop
  (`SeedWalkSeeds`).
- Services side by side. Every step of `Services` is a step of one service and leaves
  the variables of the others alone, so each of the specifications holds of the
  whole, and with it every theorem about it.
- Monitors. `Converged` speaks of tables at rest; what has to hold while they are
  written is `TablesInv`. Writers in progress have disjoint tables (`Disjoint`). A
  writer has a change of a row in store (`Pending`) from the moment it writes the
  row until the monitor has been told, and of a row nobody has a change of in
  store every view shows what the table holds (`ViewAgrees`). The last change
  listed for a row shows it as it is (`LastAgrees`), so telling a monitor of it
  settles the row; an earlier one need not, and does no harm. A rollback announces
  nothing: it is right because the copies are whole before the first operation
  (`SnapsWhole`) and nobody has been shown anything else (`NothingSeen`), which in
  turn needs that no initial rows are read meanwhile (`Undisturbed`). That a list of
  mutations keeps the id of a row is an induction over the list, stated as the
  absence of a least counterexample (`LeastNumber`, `AfterUnfolds`).
- Transactions. `TransactionsAtomic` is the refinement of `AtomicDatabase`, whose
  database is `Committed`: a table that a transaction in progress has copied counts
  as its copy, any other as it is stored. `AtomicInv` says of every transaction that
  it has copied all its tables before it writes the first, and that these are what
  its operations so far make of the copies (`Ran`), with the names it has given to
  rows. A step that does the last operation then commits: the abstract database runs
  the list on all tables, the transaction ran it on its copies, and both do the same,
  because an operation looks at its own table and at the names only (`RunFrames`,
  another induction over a list). A rollback puts back what was committed all along.
  A port call has no copies and commits when it writes. All other steps leave
  `Committed` alone (`CommittedStays`, `CommittedEnds`, `CommittedBegins`), which
  needs from `TablesInv` that writers do not share tables.

Every invariant that a passing run checks, and every action property and the safety
part of every refinement, is stated by a theorem. Only model-checked is what needs
fairness, which is out of the prover's reach: `EverythingEnds`, `ResetsEnd`,
`ShutdownEnds`, and the fairness part of `JobsFollowLifecycle` and of
`RunsFollowLifecycle`. The four violations are TLC's.

## 5. What is done and what is left

Done: every simulator and every common service that keeps state is modelled, and
every safety property of the runs that pass is proved. What would come next is weaker
assumptions about clients where the code makes a promise to more of them than
`TablesSpec` and `MigrationSpec` admit, and the hazards of `PROJECT.json` that have no
property, each of which says there why.

Not modelled:

- The wire encodings (XDR, JSON-RPC framing) and the domain XML: conversions of
  bytes, with no state and no interleaving. The properties depend on which object
  and which numbers a message carries.
- Read-only requests that read the store once. The lists of netbox-sim, the pages
  of the log and the polls of load-gen read more than once, and are modelled. The
  statistics of libvirt hosts subtract used from total without a sign; at the
  default ratio `CapacityHeld` keeps that from wrapping, and no document says what
  they should show under overcommit.
- The OVSDB schema: a constant.
- postgres (starts and stops a database process), the web UI and the rest of the
  launcher: I/O.
- Sockets that fill up because a client does not read.
