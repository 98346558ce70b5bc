SPECIFICATION Spec
CONSTANTS
    Outcomes = {o1, o2}
    Routers = {r1, r2}
    Calls = {c1, c2}
    Retries = 1
    Deliveries = 2
    MaxAge = 1
    Skew = 1
    Ahead = 1
    MaxTime = 4
    MaxFaults = 1
SYMMETRY Symmetry
INVARIANT NoLostUpdate
PROPERTY RelearnsOnlyOutdated
PROPERTY LearnsSerially
CHECK_DEADLOCK FALSE
