SPECIFICATION Spec
CONSTANTS
    Replicas = {r1}
    Runs = {n1, n2}
    Requests = {q1, q2}
    Capacity = 1
    Cleans = FALSE
    MaxFaults = 0
    MaxCrashes = 0
PROPERTY FullMeansBusy
CHECK_DEADLOCK FALSE
