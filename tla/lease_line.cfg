SPECIFICATION Spec
CONSTANTS
    r1 = r1
    r2 = r2
    linux = linux
    darwin = darwin
    s1 = s1
    s2 = s2
    Runs = {r1, r2}
    Platforms = {linux, darwin}
    Wants <- BothWantBoth
    Slots = {s1, s2}
    Pool <- TwoBoxes
    MayRefuse = {}
    Sharded = {}
    MaxFaults = 0
    MaxLives = 0
INVARIANTS NoCircularWait
