\* One CLI that may lose two polls, two pages.
SPECIFICATION LoginSpec
CONSTANTS
    a1 = a1
    a2 = a2
    c1 = c1
    r1 = r1
    r2 = r2
    None = None
    Accounts = {a1, a2}
    Codes = {c1}
    Pages = {r1, r2}
    MaxLost = 2
INVARIANTS LoginTypeOK LoggedInAsGranted TokensAccounted
PROPERTIES StopsWaiting
