SPECIFICATION MeddlingSpec
CONSTANTS
    p1 = p1  p2 = p2  h1 = h1  h2 = h2  u1 = u1  u2 = u2  c1 = c1  r1 = r1  r2 = r2
    Hosts = {h1, h2}
    Ports = {p1, p2}
    HttpCalls = {c1}
    Profiles <- SmallHost
    Ratios = {0}
    StateInputs = {"maintenance"}
    Uuids = {u1, u2}
    Flavors <- SmallVM
    RpcCalls = {r1}
    MaxIds = 2
SYMMETRY IdSymmetry
INVARIANT CapacityHeld
