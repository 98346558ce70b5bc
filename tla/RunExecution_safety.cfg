SPECIFICATION FairSpec
CONSTANTS
    Cancellers = {c1, c2}
    MaxTries = 2
    MaxAttempts = 2
    MaxPasses = 2
    MaxFaults = 6
    MaxCrashes = 1
INVARIANT OneStory
INVARIANT PublishedIsRecorded
INVARIANT OneOutcome
INVARIANT WithheldIsParked
INVARIANT OutcomeKept
PROPERTY KeepsPromise
PROPERTY WithheldIsPublished
CHECK_DEADLOCK FALSE
