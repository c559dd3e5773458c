SPECIFICATION CheckoutSpec
CONSTANTS
    r1 = r1
    r2 = r2
    r3 = r3
    none = none
    Nobody = none
    Runs = {r1, r2}
    Begun = {}
    Linger = {r1}
    MaxFaults = 0
    MaxReruns = 0
INVARIANT OneHolder
CHECK_DEADLOCK FALSE
