\* A migration beside a drain, users that start and stop VMs, one agent or call that breaks.
SPECIFICATION Spec
CONSTANTS
    h1 = h1
    h2 = h2
    v1 = v1
    v2 = v2
    a1 = a1
    None = None
    Watcher = Watcher
    Hosts = {h1, h2}
    VMs = {v1, v2}
    Admins = {a1}
    Capacity = 1
    MaxMoves = 1
    MaxOrders = 1
    MaxChanges = 2
    MaxRefusals = 1
    MaxFaults = 1
INVARIANTS TypeOK RecordsSettled
PROPERTIES DeletedForGood DrainEnds
