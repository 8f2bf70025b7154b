SPECIFICATION FairSpec
CONSTANTS
    c1 = c1  c2 = c2  s1 = s1
    None = None
    Capture = {c1, c2}
    Lease = {l1, l2}
    SessionOf <- OneSession
    Budget = 4
    SessionBudget = 4
    MaxCaptures = 3
    MaxLeases = 2
    Retention = 1
    MaxLifetime = 2
    Terms = {2}
    MaxLate = 1
INVARIANTS LeasePinsSnapshot
PROPERTIES NothingKeptForEver
CHECK_DEADLOCK FALSE
