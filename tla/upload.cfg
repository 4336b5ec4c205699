SPECIFICATION FairSpec
CONSTANTS
    Hosts = {h1, h2}
    Slots <- TwoSlots
    MaxRetries = 1
    MaxAttempts = 1
    Orphans <- BothOrphans
    Places <- AllPlaces
    FaultKinds <- AllFaults
    MaxFaults = 1
    MaxCrashes = 1
    MaxAdmin = 1
INVARIANTS TypeOK NoFootageLost MarkerOwned CleanupIsSaved
CHECK_DEADLOCK FALSE
PROPERTIES  StopDrains
