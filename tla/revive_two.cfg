\* Two platforms, one with a chain of two tasks, one resurrection each.
CONSTANTS
    p = p
    q = q
    a = a
    b = b
    c = c
    Platforms = {p, q}
    Tasks = {a, b, c}
    PlatformOf <- TwoPlatforms
    Needs <- BNeedsA
    MaxResurrections = 1
SPECIFICATION Spec
INVARIANTS
    TypeOK
    NoSettleMidClaim
    BoxPerLane
    CancelIsWholeTruth
\* A run that is over does nothing more.
CHECK_DEADLOCK FALSE
