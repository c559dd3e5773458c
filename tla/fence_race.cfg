SPECIFICATION Spec
CONSTANTS
    p1 = p1
    p2 = p2
    p3 = p3
    here = here
    there = there
    Procs = {p1, p2, p3}
    HostOf <- ThreeHosts
    Grace = 1
    MaxTries = 2
    MaxEpoch = 3
    MaxTime = 1
    MaxLines = 0
    MaxFaults = 0
    Serial = FALSE
    Punctual = FALSE
INVARIANT UniqueEpoch
\* Every process may have closed, crashed or been refused for good.
CHECK_DEADLOCK FALSE
SYMMETRY Interchangeable
