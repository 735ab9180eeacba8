\* Two VMs, two requests: reservations, retries and resizes overlap.
SPECIFICATION Spec
CONSTANTS
    v1 = v1
    v2 = v2
    r1 = r1
    r2 = r2
    VMs = {v1, v2}
    Requests = {r1, r2}
    None = None
    Resource <- MCResource
    Limit <- MCLimit
    MaxUnits = 2
    Sizes <- MCSizes
SYMMETRY Symmetry
INVARIANTS TypeOK AdmittedFit
PROPERTIES AtomicAdmission
