SPECIFICATION Spec
CONSTANTS
    d1 = d1  d2 = d2  p1 = p1  p2 = p2
    None = None
    Daemon = {d1, d2}
    PortOf <- OnePort
    Cli = {d1}
    LegacyPort = p2
    MaxTime = 1
    MaxAge = 0
    MaxWait = 1
INVARIANTS HomeIsHeldByOne QuotaOutlivesRestart
PROPERTY LetsGo
CHECK_DEADLOCK FALSE
