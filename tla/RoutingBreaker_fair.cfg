SPECIFICATION FairSpec
CONSTANTS
    Routings = {q1, q2, q3}
    FailureThreshold = 2
    SuccessThreshold = 2
    HalfOpenRequests = 1
    Timeout = 2
PROPERTY OpenHolds
PROPERTY OpensOnEvidence
PROPERTY TrialConcludes
PROPERTY OpenIsTried
