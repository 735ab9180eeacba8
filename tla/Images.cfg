\* Two builds under one name, with a fault among crashes, lost calls and failed cleanups.
SPECIFICATION Spec
CONSTANTS
    i1 = i1
    i2 = i2
    n1 = n1
    h1 = h1
    h2 = h2
    v1 = v1
    None = None
    Imgs = {i1, i2}
    Names = {n1}
    Hosts = {h1, h2}
    VMs = {v1}
    MaxFaults = 1
INVARIANTS TypeOK TaskOwnsRow VmHasImage BuildLeavesNothing
PROPERTIES BuildEnds
CHECK_DEADLOCK FALSE
