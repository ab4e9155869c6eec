SPECIFICATION TablesSpec
CONSTANTS
    c1 = c1  c2 = c2  h1 = h1  u1 = u1  u2 = u2  u3 = u3
    Tables = {"Port", "Switch"}
    PortTable = "Port"
    Uuids = {u1, u2, u3}
    Clients = {c1, c2}
    PortCalls = {h1}
    MonitorIds = {"m"}
    Requests <- Transactions
    Watches <- MonitorRequests
SYMMETRY IdSymmetry
INVARIANTS TypeOK Converged
PROPERTIES AtomicTransactions
