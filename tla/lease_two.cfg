SPECIFICATION Spec
CONSTANTS
    r1 = r1
    r2 = r2
    linux = linux
    darwin = darwin
    s1 = s1
    s2 = s2
    Runs = {r1, r2}
    Platforms = {linux}
    Wants <- LinuxOnly
    Slots = {s1}
    Pool <- OneBox
    MayRefuse = {r1, r2}
    Sharded = {}
    MaxFaults = 2
    MaxLives = 1
INVARIANTS Inv
PROPERTIES LossIsHeard LineMoves
