\* Two accounts, two requests at a time; three challenges, so that both can have a passkey.
SPECIFICATION Spec
CONSTANTS
    a1 = a1
    a2 = a2
    r1 = r1
    r2 = r2
    c1 = c1
    c2 = c2
    c3 = c3
    t1 = t1
    None = None
    Accounts = {a1, a2}
    Requests = {r1, r2}
    Challenges = {c1, c2, c3}
    Tokens = {t1}
    MaxSessions = 1
INVARIANTS TypeOK ListedWasRegistered SessionOfKeyOwner
SYMMETRY Alike
