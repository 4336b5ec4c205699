SPECIFICATION FairSpec
CONSTANTS
    p = p  o = o  g = g  a = a
    Files = {p, o}
    Pipelined = {p}
    Hosts = {g, a}
    Kinds <- Pairs
    Workers = 2
    QueueLength = 1
    UploadSlots = 1
    HostSlots = 1
    HostAttempts = 2
    MaxAttempts = 2
    FailThreshold = 2
    Chunks = 2
    MaxParallel = 1
    MaxAgain = 1
    Lossy = {"AnonMP4", "GoFile"}
    MaxUnknown = 1
INVARIANTS TypeOK LinksAreCopies
PROPERTIES NoSecondCopy EveryCallAnswered
CHECK_DEADLOCK FALSE
