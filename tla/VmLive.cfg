\* One request, one fault, every loop running.
SPECIFICATION FairSpec
CONSTANTS
    t1 = t1
    t2 = t2
    t3 = t3
    p1 = p1
    p2 = p2
    Threads = {t1}
    Procs = {p1}
    None = None
    Zero = Zero
    MaxOps = 1
    MaxFaults = 1
    EventCap = 1
    Loops = {"heartbeat", "health", "reconcile"}
PROPERTIES SelfHeals MetricsFollow
CHECK_DEADLOCK FALSE
