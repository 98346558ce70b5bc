SPECIFICATION FairSpec
CONSTANTS
    Replicas = {r1, r2}
    Runs = {n1, n2}
    Requests = {q1, q2, q3}
    Capacity = 1
    Cleans = TRUE
    MaxFaults = 2
    MaxCrashes = 1
INVARIANT OneWorkflow
INVARIANT HandleIsRecorded
INVARIANT WorkflowIsVisible
INVARIANT ClaimIsOwned
PROPERTY IsOneExecution
PROPERTY EveryRequestAnswered
CHECK_DEADLOCK FALSE
