SPECIFICATION Spec
CONSTANTS
    s1 = s1
    s2 = s2
    Sessions = {s1, s2}
    Directories = {}
    MaxSequence = 2
    MaxEpoch = 1
    MaxFaults = 2
    SoftCap = 2
    MaxAttempts = 1
    StreamKinds = {"bootstrap"}
SYMMETRY SessionSymmetry
INVARIANT ReplayCoversMissed
CHECK_DEADLOCK FALSE
