SPECIFICATION FairSpec
CONSTANTS
    a = a
    b = b
    Callers = {a, b}
    Roles <- Pairs
    Attempts = 2
    MinSamples = 1
    Threshold = 50
    HalfOpenMax = 1
    MaxCooldown = 2
    MaxCount = 1
INVARIANT TypeOK
PROPERTY ClosesForGood
