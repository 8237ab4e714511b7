CONSTANTS
    p1 = p1
    p2 = p2
    p3 = p3
    a = a
    b = b
    c = c
    Processes = {p1, p2, p3}
    Calls = {a, b, c}
    Pid <- MCPid
    MayCrash = FALSE
SPECIFICATION LockSpec
INVARIANT
    MutualExclusion
CHECK_DEADLOCK FALSE
