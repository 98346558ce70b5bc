SPECIFICATION FairFanoutSpec
CONSTANTS
    Calls = {1, 2, 3}
    Max = 2
    Threshold = 2
    Cooldown = 2
    MaxTime = 3
INVARIANT FanoutTypeOK
INVARIANT RefusesOnEvidence
INVARIANT NothingOutlivesRun
INVARIANT ReturnsEveryResult
PROPERTY AdmitsNothingAfterFailure
PROPERTY RunEnds
CHECK_DEADLOCK FALSE
