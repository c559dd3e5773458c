\* One platform, a task that needs another and one that needs none.
CONSTANTS
    p = p
    q = q
    a = a
    b = b
    c = c
    Platforms = {p}
    Tasks = {a, b, c}
    PlatformOf <- OnePlatform
    Needs <- BNeedsA
    MaxResurrections = 1
SPECIFICATION Spec
INVARIANTS
    NobodyLeftBehind
\* A run that is over does nothing more.
CHECK_DEADLOCK FALSE
