SPECIFICATION FairSpec
CONSTANTS
    N = 2
    MinDur = 3
    Lengths <- ShortOrLong
    MergedFirst = FALSE
    FaultKinds <- AllFaults
    MaxFaults = 1
    MaxCrashes = 1
INVARIANTS TypeOK NoFootageLost MarkersOwned
PROPERTIES LostOnlyWithScratch FootageComesToRest
CHECK_DEADLOCK FALSE
