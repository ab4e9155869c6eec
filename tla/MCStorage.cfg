SPECIFICATION Spec
CONSTANTS
    b1 = b1  b2 = b2  v1 = v1  v2 = v2  v3 = v3  s1 = s1  g1 = g1  g2 = g2
    NoSnapshot = NoSnapshot
    Backends = {b1}
    Volumes = {v1, v2}
    Snapshots = {s1}
    Goroutines = {g1, g2}
    Totals = {2}
    Ratios = {0}
    Sizes = {1, 2}
    Thins = {TRUE}
    StateInputs = {"active", "draining"}
    Steps = 1
    MaxOps = 2
    MaxListed = 2
SYMMETRY IdSymmetry
INVARIANTS TypeOK SnapshotIntegrity CloneIntegrity CancelledStaysFailed NothingOrphaned
