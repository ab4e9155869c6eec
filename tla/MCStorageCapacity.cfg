SPECIFICATION SerialSpec
CONSTANTS
    b1 = b1  b2 = b2  v1 = v1  v2 = v2  s1 = s1  g1 = g1  g2 = g2
    NoSnapshot = NoSnapshot
    Backends = {b1, b2}
    Volumes = {v1, v2}
    Snapshots = {s1}
    Goroutines = {g1, g2}
    Totals = {1}
    Ratios = {0}
    Sizes = {1}
    Thins = {TRUE}
    StateInputs = {}
    Steps = 1
    MaxOps = 2
    MaxListed = 1
INVARIANT WithinOverprovision
