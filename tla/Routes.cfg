\* Two requests that overlap, a failed call or a crash; a name may be used again.
SPECIFICATION MCSpec
CONSTANTS
    v1 = v1
    v2 = v2
    n1 = n1
    n2 = n2
    p1 = p1
    p2 = p2
    r1 = r1
    r2 = r2
    w1 = w1
    None = None
    Stopped = Stopped
    VMs = {v1, v2}
    Names = {n1, n2}
    Ports = {p1, p2}
    Requests = {r1, r2, w1}
    Watchers = {w1}
    MaxOps = 3
    MaxFaults = 1
INVARIANTS TypeOK RouteOrWriter ServesRows
PROPERTIES EventuallyRouted
