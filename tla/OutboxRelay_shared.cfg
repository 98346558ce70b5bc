SPECIFICATION Spec
CONSTANTS
    Rows = {1, 2}
    Relays = {w1, w2}
    BatchSize = 2
    MaxAttempts = 2
    Lease = 1
    MaxBackoff = 2
    MaxCrashes = 1
SYMMETRY Symmetry
INVARIANT DeliveredWasPublished
INVARIANT EachClaimOnce
