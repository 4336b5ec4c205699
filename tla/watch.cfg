SPECIFICATION FairSpec
CONSTANTS
    Modes <- AllModes
    Numberings <- Either
    Offers <- SomeOffers
    Target = 2
    MaxSegment <- SomeSegments
    Window = 2
    ErrorLimit = 2
    StallLimit = 2
    FileLimit = 2
    MaxFaults = 1
    MaxWritten = 3
INVARIANTS InOrder NothingSkipped Playable
PROPERTY WatchReturns
CHECK_DEADLOCK FALSE
