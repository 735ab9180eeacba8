\* Two resizes at a time of every resource, with starts and stops.
SPECIFICATION ResizeSpec
CONSTANTS
    r1 = r1
    r2 = r2
    Nothing = Nothing
    Requests = {r1, r2}
    Resources = {"vcpus", "memory", "disk", "bandwidth"}
    MaxSize = 2
INVARIANTS ResizeTypeOK StartSettles
SYMMETRY Alike
