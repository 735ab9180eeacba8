\* Three overlapping requests, two processes, one fault, no periodic loop.
SPECIFICATION Spec
CONSTANTS
    t1 = t1
    t2 = t2
    t3 = t3
    p1 = p1
    p2 = p2
    Threads = {t1, t2, t3}
    Procs = {p1, p2}
    None = None
    Zero = Zero
    MaxOps = 3
    MaxFaults = 1
    EventCap = 1
    Loops = {}
SYMMETRY Symmetry
INVARIANTS TypeOK HandleDiscipline
PROPERTIES DriverSpec
CHECK_DEADLOCK FALSE
