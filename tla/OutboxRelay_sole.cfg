SPECIFICATION FairSpec
CONSTANTS
    Rows = {1, 2}
    Relays = {w1}
    BatchSize = 2
    MaxAttempts = 3
    Lease = 2
    MaxBackoff = 4
    MaxCrashes = 2
INVARIANT NoSilentAbandonment
PROPERTY DeliversAtLeastOnce
PROPERTY EveryRowSettles
