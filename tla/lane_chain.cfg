\* A task, one that needs it brought later by extend, and one rerun of each.
CONSTANTS
    a = a
    b = b
    Setup = setup
    Recipes = {a, b}
    Initial = {a}
    Needs <- Chain
    Pushers = {a}
    Strays = {b}
    MaxReruns = 1
SPECIFICATION FairSpec
INVARIANTS
    Inv
    LogOfThisAttempt
    AtRest
    GreenIsTrue
    NoSurvivors
PROPERTIES
    HeardInOrder
    LogsEnd
\* A lane that has run everything waits for the coordinator.
CHECK_DEADLOCK FALSE
