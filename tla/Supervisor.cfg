SPECIFICATION FairSpec
CONSTANTS
    old = old
    new = new
    s1 = s1
    s2 = s2
    s3 = s3
    Servers = {s1, s2}
    Daemons = {d1, d2}
    Builds = {old, new}
    Build <- MCBuild
    MaxFaults = 1
CHECK_DEADLOCK FALSE
INVARIANTS
    OneDaemonUnlessOrphaned
    RunningIsReachable
PROPERTIES
    CallsEnd
    TerminatesOnlyItsOwn
    StopLeavesNothing
