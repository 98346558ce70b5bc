SPECIFICATION FairSpec
CONSTANTS
    Cancellers = {c1, c2}
    MaxTries = 1
    MaxAttempts = 1
    MaxPasses = 1
    MaxFaults = 0
    MaxCrashes = 0
INVARIANT EndsTogether
CHECK_DEADLOCK FALSE
