\* One conversation, one agent: the climb back from every kind of descent.
SPECIFICATION FairSpec
CONSTANTS
    sub = sub  key = key  alt = alt
    opus = opus  glm = glm
    t1 = t1  t2 = t2
    None = None
    Backend <- BackendSet
    Native <- NativeSet
    NeedsConsent <- ConsentSet
    Trusted <- BackendSet
    Cacheless <- CacheSet
    Model <- Models
    Fit <- FitOf
    Listed <- ListedOf
    Order <- Ranks
    CompactionOrder <- CompactionRanks
    Preference <- Ranks
    Thread = {t1}
    Key = {t1}
    KeyOf <- Single
    Named <- NoPins
    Sends <- Unpinned
    Levels <- AllLevels
    DescentDebounce = 1
    PromotionDebounce = 2
    AffinityTtl = 2
    MaxAffinities = 1
PROPERTIES ClimbsBack
