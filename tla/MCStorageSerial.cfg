\* A client that waits for its migrations.  Clones are always thin, so thick
\* creates alone give both kinds of volume.
SPECIFICATION SerialSpec
CONSTANTS
    b1 = b1  b2 = b2  v1 = v1  v2 = v2  s1 = s1  g1 = g1  g2 = g2
    NoSnapshot = NoSnapshot
    Backends = {b1, b2}
    Volumes = {v1, v2}
    Snapshots = {s1}
    Goroutines = {g1, g2}
    Totals = {2}
    Ratios = {125}
    Sizes = {1, 2}
    Thins = {FALSE}
    StateInputs = {}
    Steps = 1
    MaxOps = 2
    MaxListed = 1
SYMMETRY IdSymmetry
INVARIANTS AccountingExact
PROPERTIES MigrationRefinesLifecycle FlattenRefinesLifecycle
