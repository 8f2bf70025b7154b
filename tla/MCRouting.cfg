\* Two agents, each with a conversation of its own, and room for one of them in
\* the table: every eviction, every ladder move, pins, consent and full privacy.
SPECIFICATION Spec
CONSTANTS
    sub = sub  key = key  alt = alt
    opus = opus  glm = glm
    t1 = t1  t2 = t2
    None = None
    Backend <- BackendSet
    Native <- NativeSet
    NeedsConsent <- ConsentSet
    Trusted <- TrustedSet
    Cacheless <- CacheSet
    Model <- Models
    Fit <- FitOf
    Listed <- ListedOf
    Order <- Ranks
    CompactionOrder <- CompactionRanks
    Preference <- Ranks
    Thread <- Agents
    Key <- Agents
    KeyOf <- OwnKeys
    Named <- PinSet
    Sends <- Pinning
    Levels <- AllLevels
    DescentDebounce = 1
    PromotionDebounce = 2
    AffinityTtl = 2
    MaxAffinities = 1
INVARIANTS TimersMeasureThisHome
PROPERTIES RoutesPassTheGate HomeIsKept ClimbsAreEarned EntersForeignAtBoundary KeepsPromise
SYMMETRY AgentSymmetry
