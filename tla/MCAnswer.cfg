SPECIFICATION AnswerSpec
CONSTANTS
    own = own  gw = gw  lap = lap
    Nil = Nil
    Vendor <- AllVendors
    Tongues <- Wires
    OwnedBy <- Owners
    IsDefault <- Defaults
    Cost <- Costs
    Seat <- Seats
    Able <- Abilities
    Room <- Windows
    Shelf <- Shelves
    Fates <- Fortunes
    Hint <- Ranks
    Bodies <- Asked
    Clientele <- Claimants
    Forces <- Wishes
    Confided <- Near
    CrossAccount = FALSE
    MaxCalls = 4
    MaxBytes = 4
    Parts = 2
    Replies <- MCReplies
    Tools <- MCTools
    Turns = 3
    MaxFaults = 1
    Envelopes = 1
    MayQuote = FALSE
    MaxFrames = 6
    MaxReconnects = 2
    StallTicks = 3
INVARIANTS StreamIsWellFormed CallsAreServed HistoryStandsUp GuardIsTransparent ChoiceIsSound
PROPERTIES GuardGivesUp
CHECK_DEADLOCK FALSE
