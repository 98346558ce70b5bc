SPECIFICATION Spec
CONSTANTS
    Calls = {c1, c2, c3}
    Lease = 2
    MaxTime = 3
    MaxFaults = 2
SYMMETRY Symmetry
INVARIANT RowIsTruthful
INVARIANT OneCompletion
PROPERTY IsIdempotent
CHECK_DEADLOCK FALSE
