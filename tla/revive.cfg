\* One platform with a chain of two tasks and a third, two resurrections.
CONSTANTS
    p = p
    q = q
    a = a
    b = b
    c = c
    Platforms = {p}
    Tasks = {a, b, c}
    PlatformOf <- OnePlatform
    Needs <- BNeedsA
    MaxResurrections = 2
SPECIFICATION FairSpec
INVARIANTS
    Inv
    NoSettleMidClaim
    BoxPerLane
    CancelIsWholeTruth
    OneDeathPerLane
PROPERTIES
    VerdictsOutliveTheLane
    EveryRunEnds
\* A run that is over does nothing more.
CHECK_DEADLOCK FALSE
