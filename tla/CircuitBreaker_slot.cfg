SPECIFICATION Spec
CONSTANTS
    Calls = {c1, c2}
    Threshold = 2
    Cooldown = 2
    MaxTime = 4
SYMMETRY Symmetry
INVARIANT SlotHasHolder
CHECK_DEADLOCK FALSE
