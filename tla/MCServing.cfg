SPECIFICATION ServingSpec
CONSTANTS
    sub = sub  alt = alt  opus = opus  s1 = s1  s2 = s2  k1 = k1
    None = None
    NeverOpened = NeverOpened
    Backend <- BackendSet
    Native <- NativeSet
    NeedsConsent <- NoBackend
    Trusted <- BackendSet
    Cacheless <- NoBackend
    Model <- Models
    Fit <- FitOf
    Listed <- ListedOf
    Order <- Ranks
    CompactionOrder <- Ranks
    Preference <- Ranks
    FailureThreshold = 2
    ProbesNeeded = 1
    RecoveryTimeout = 1
    Slot <- AllSlots
    Key = {k1}
    KeyOf <- OneKey
    Named <- NoBackend
    Turn <- TwoBodies
    Levels <- NoLevels
    MaxRetries = 1
    Documents <- Drafts
    BuiltIn <- Shipped
    Builds = {1, 2}
    SchemaOf <- Schemas
    MaxSlips = 1
    MaxDate = 1
    Broken = Broken
    Nil = Nil
INVARIANTS GivesUpOnlyWhenNothingIsLeft
PROPERTIES DocumentsKeepFaith
SYMMETRY SlotSymmetry
