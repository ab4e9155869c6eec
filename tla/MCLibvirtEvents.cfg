SPECIFICATION EventsSpec
CONSTANTS
    p1 = p1  p2 = p2  h1 = h1  h2 = h2  u1 = u1  r1 = r1  k1 = k1  k2 = k2
    Hosts = {h1, h2}
    Ports = {p1, p2}
    HttpCalls = {}
    Profiles <- OneHost
    Ratios = {0}
    StateInputs = {}
    Uuids = {u1}
    Flavors <- OneVM
    RpcCalls = {r1}
    MaxIds = 1
    Conns = {k1, k2}
    EventIDs = {"lifecycle", "reboot"}
    MaxCallbacks = 1
CONSTRAINT AtHome
SYMMETRY ConnSymmetry
INVARIANTS EventsAgree EmissionsAimed
