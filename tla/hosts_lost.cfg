SPECIFICATION Spec
CONSTANTS
    p = p  o = o  g = g  a = a
    Files = {p, o}
    Pipelined = {p}
    Hosts = {g, a}
    Kinds <- Pairs
    Workers = 2
    QueueLength = 1
    UploadSlots = 2
    HostSlots = 1
    HostAttempts = 2
    MaxAttempts = 2
    FailThreshold = 2
    Chunks = 3
    MaxParallel = 2
    MaxAgain = 1
    Lossy = {"AnonMP4", "GoFile"}
    MaxUnknown = 1
INVARIANT DeletedOnlyWhenHeld
CHECK_DEADLOCK FALSE
