\* A verdict of a rerun heard before the snapshot that re-opens its log.
CONSTANTS
    n1 = n1
    n2 = n2
    l1 = l1
    Nodes = {n1, n2}
    Lanes = {l1}
    LaneOf <- OneLane
    MaxReruns = 1
    MaxFlight = 1
SPECIFICATION Spec
INVARIANT
    VerdictBehindLog
CHECK_DEADLOCK FALSE
