SPECIFICATION FairSpec
CONSTANTS
    s1 = s1
    d1 = d1
    Sessions = {s1}
    Directories = {d1}
    MaxSequence = 0
    MaxEpoch = 2
    MaxFaults = 2
    SoftCap = 1
    MaxAttempts = 1
    StreamKinds = {"bootstrap", "cluster"}
INVARIANTS DrainedIsCovered
PROPERTIES RecoveryEnds
CHECK_DEADLOCK FALSE
