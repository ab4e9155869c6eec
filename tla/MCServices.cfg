SPECIFICATION MCSpec
CONSTANTS
    l1 = l1  seed = seed  q1 = q1  c1 = c1  c2 = c2  x1 = x1  x2 = x2
    r1 = r1  p1 = p1  g1 = g1  g2 = g2
    Loads = {l1, seed}
    Requests <- MCRequests
    Lists = {q1}
    MaxRows = 0
    Targets <- MCTargets
    Operations <- MCOperations
    Triggers <- MCTriggers
    PostedCalls = {0, 1}
    MaxRules = 2
    MaxChecks = 2
    Simulators = {"libvirt-sim", "storage-sim"}
    PageSizes = {0, 1, 2}
    Pagers = {p1}
    MaxEvents = 3
    MaxTime = 2
    ComponentNames = {c1, c2}
    States = {0, 1}
    Restores = {r1}
    MaxSnapshots = 2
    ClusterIds = {c1, c2}
    Ports = {16641, 16642}
    Conns = {x1, x2}
    MaxServers = 2
    Phases <- MCPhases
    Metrics = {"latency", "success"}
    Assertions <- MCAssertions
    Gets = {g1, g2}
    MaxRuns = 2
    Environments <- MCEnvironments
    BasePort = 16510
    Generations = {g1, g2}
CONSTRAINT Followed
INVARIANTS
    TypeOK ObjectsPlaced RepliesRight
    HitsExact NoCallLost PagesComplete
    SnapshotsWhole RestoresExact NoSurvivors
    PolledResultsWhole HostsExact StatusHonest
PROPERTIES
    ResetsEnd ShutdownEnds RunsFollowLifecycle
CHECK_DEADLOCK FALSE
