SPECIFICATION Spec
CONSTANTS
    p1 = p1
    p2 = p2
    p3 = p3
    here = here
    there = there
    Procs = {p1, p2}
    HostOf <- TwoHosts
    Grace = 2
    MaxTries = 2
    MaxEpoch = 3
    MaxTime = 5
    MaxLines = 4
    MaxFaults = 1
    Serial = TRUE
    Punctual = TRUE
INVARIANT TypeOK
INVARIANT SoleWriter
INVARIANT SeqMeansOneLine
\* Every process may have closed, crashed or been refused for good.
CHECK_DEADLOCK FALSE
