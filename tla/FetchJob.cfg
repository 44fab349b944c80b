SPECIFICATION Spec
CONSTANTS
    Keys = {1, 2}
    Processes = {p1, p2}
    Expire = 3
    Refresh = 1
    Interval = 1
    Limit = 1
    MaxFaults = 1
INVARIANTS TypeOK Kept
PROPERTIES Cleaned QuickRunEnds GoesOn
CHECK_DEADLOCK FALSE
