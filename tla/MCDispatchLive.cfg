\* One conversation with every kind of turn, and consent, privacy and quota
\* changing under it.
SPECIFICATION FairSpec
CONSTANTS
    sub = sub  alt = alt  opus = opus  s1 = s1  s2 = s2  k1 = k1
    None = None
    NeverOpened = NeverOpened
    Backend <- BackendSet
    Native <- NativeSet
    NeedsConsent <- ConsentSet
    Trusted <- TrustedSet
    Cacheless <- NoBackend
    Model <- Models
    Fit <- FitOf
    Listed <- ListedOf
    Order <- Ranks
    CompactionOrder <- Ranks
    Preference <- Ranks
    FailureThreshold = 2
    ProbesNeeded = 1
    RecoveryTimeout = 1
    Slot = {s1}
    Key = {k1}
    KeyOf <- Single
    Named <- BackendSet
    Turn <- AllTurns
    Levels <- AltIsUp
    MaxRetries = 1
INVARIANTS GivenUpIsForgotten
PROPERTIES EveryRequestEnds ReopensAfterOutage
