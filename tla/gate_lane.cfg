\* Two nodes of one lane, and one rerun of either.
CONSTANTS
    n1 = n1
    n2 = n2
    l1 = l1
    Nodes = {n1, n2}
    Lanes = {l1}
    LaneOf <- OneLane
    MaxReruns = 1
    MaxFlight = 1
SPECIFICATION FairSpec
INVARIANTS
    Inv
    FirstVerdictBehindLog
    WholeUnlessLost
PROPERTIES
    HeardIsKept
    Settles
\* A run that is over does nothing more.
CHECK_DEADLOCK FALSE
