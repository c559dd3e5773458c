SPECIFICATION CheckoutSpec
CONSTANTS
    r1 = r1
    r2 = r2
    r3 = r3
    none = none
    Nobody = none
    Runs = {r1}
    Begun = {r1}
    Linger = {r1}
    MaxFaults = 0
    MaxReruns = 1
INVARIANT NeverGreenInFlight
CHECK_DEADLOCK FALSE
