SPECIFICATION Spec
CONSTANTS
    p1 = p1
    p2 = p2
    r1 = r1
    r2 = r2
    MaxCalls = 2
    Procs = {p1, p2}
    HostOf <- OneHost
    Roots = {r1, r2}
    Guarded = {r1}
    RequestKinds = {"retry", "start"}
    LostReplies = TRUE
    LateChild = FALSE

INVARIANT NeverBoth
CHECK_DEADLOCK FALSE
