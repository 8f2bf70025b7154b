SPECIFICATION RecordsSpec
CONSTANTS
    s1 = s1
    None = None
    N = 2
    SessionOf <- OneSession
    OpenAi <- All
    Offers <- Latest
    Batch = 1
    MaxAttempts = 2
    MaxFaults = 1
    MaxCrashes = 1
    Pools = {p1}
    Sizes = {60}
    Plans <- MCPlans
    Askers = {a1, a2}
    MaxSent = 3
    MaxFlying = 1
    Now = 4
    MaxMisreads = 1
    SessionTicks = 2
    HistoryTicks = 4
    Void = Void
INVARIANTS OneRowEach RightBodiesAreKept ProvedIsWhole
PROPERTIES PendingIsSettled StatusIsHonest
CHECK_DEADLOCK FALSE
