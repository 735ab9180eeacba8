\* Two overlapping requests for two VMs on two hosts, with lost calls.
SPECIFICATION Spec
CONSTANTS
    v1 = v1
    v2 = v2
    h1 = h1
    h2 = h2
    r1 = r1
    r2 = r2
    None = None
    VMs = {v1, v2}
    Hosts = {h1, h2}
    Requests = {r1, r2}
    MaxSlot = 2
    MaxFaults = 1
    Taken <- MCUneven
INVARIANTS TypeOK OwnerHasDisk
PROPERTIES OwnershipSafe EventuallyOwned
