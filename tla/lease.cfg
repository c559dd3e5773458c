SPECIFICATION Spec
CONSTANTS
    r1 = r1
    r2 = r2
    linux = linux
    darwin = darwin
    s1 = s1
    s2 = s2
    Runs = {r1, r2}
    Platforms = {linux, darwin}
    Wants <- OneWantsBoth
    Slots = {s1, s2}
    Pool <- TwoBoxes
    MayRefuse = {r1, r2}
    Sharded = {darwin}
    MaxFaults = 1
    MaxLives = 1
INVARIANTS Inv
PROPERTIES LossIsHeard LineMoves
