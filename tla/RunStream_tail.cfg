SPECIFICATION FairSpec
CONSTANTS
    Writers = {w1, w2}
    Readers = {r1}
    Limit = 2
    Burst = 2
    MaxEvents = 5
INVARIANT LogIsGapFree
INVARIANT NoGap
INVARIANT StopsComplete
PROPERTY IsResumable
PROPERTY EventsArrive
PROPERTY StreamEnds
CHECK_DEADLOCK FALSE
