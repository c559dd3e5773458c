SPECIFICATION WaitSpec
CONSTANTS
    r1 = r1
    r2 = r2
    none = none
    Nobody = none
    Runs = {r1, r2}
    Begun = {r1}
    Linger = {r1}
    MaxFaults = 1
    MaxReruns = 1
    MaxWire = 2
INVARIANTS
    WaitInv
    VerdictIsTrue
PROPERTIES
    NeverBuried
    WaitReturns
