\* Two overlapping requests, two processes, no fault.
SPECIFICATION FairSpec
CONSTANTS
    t1 = t1
    t2 = t2
    t3 = t3
    p1 = p1
    p2 = p2
    Threads = {t1, t2}
    Procs = {p1, p2}
    None = None
    Zero = Zero
    MaxOps = 2
    MaxFaults = 0
    EventCap = 1
    Loops = {"reconcile"}
PROPERTIES SelfHeals
CHECK_DEADLOCK FALSE
