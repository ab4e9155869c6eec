SPECIFICATION Spec
CONSTANTS
    p1 = p1  p2 = p2  h1 = h1  h2 = h2  u1 = u1  u2 = u2  c1 = c1  c2 = c2  r1 = r1  r2 = r2
    Hosts = {h1, h2}
    Ports = {p1, p2}
    HttpCalls = {c1, c2}
    Profiles <- SmallHost
    Ratios = {0}
    StateInputs = {"online", "maintenance", "broken"}
    Uuids = {u1}
    Flavors <- SmallVM
    RpcCalls = {r1}
    MaxIds = 2
CONSTRAINT Overlaps
SYMMETRY IdSymmetry
INVARIANTS TypeOK PortsExact HostsReachable IdsDistinct IdsShowActivity
