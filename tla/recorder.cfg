SPECIFICATION FairSpec
CONSTANTS
    Goroutines <- TwoGoroutines
    Sessions <- WithSessions
    Deadlines <- NoDeadline
    Commands <- AllCommands
    MaxCommands = 1
    MaxFaults = 1
INVARIANTS TypeOK OneMonitor
PROPERTIES PausedGoesQuiet BoundaryPauseEnds
CHECK_DEADLOCK FALSE
