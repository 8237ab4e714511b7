CONSTANTS
    p1 = p1
    p2 = p2
    p3 = p3
    a = a
    b = b
    c = c
    Processes = {p1, p2, p3}
    Calls = {a, b, c}
    Pid <- MCPid
    MayCrash = TRUE
    Sessions = {s1, s2}
    LineSizes <- const_LineSizes
    MaxEvents = 2
    MaxBytes = 3
    MaxSequence = 5
SPECIFICATION FoundationsSpec
INVARIANTS
    ExclusionUnlessStolen
    ReplayIsComplete
    RetentionBounded
PROPERTIES
    EveryCallEnds
    EvictsOnlyUnderPressure
    ImplementsReplayLog
CHECK_DEADLOCK FALSE
