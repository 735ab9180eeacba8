\* Two requests at a time and four ids, so that the limit of two can be exceeded.
SPECIFICATION Spec
CONSTANTS
    s1 = s1
    s2 = s2
    s3 = s3
    s4 = s4
    r1 = r1
    r2 = r2
    None = None
    Snaps = {s1, s2, s3, s4}
    Requests = {r1, r2}
    Limit = 2
INVARIANTS TypeOK ListedHasFiles GoneLeavesNothing LimitUpToOverlap PausedIsResumed
SYMMETRY Alike
