SPECIFICATION Spec
CONSTANTS
    s1 = s1
    s2 = s2
    Sessions = {s1, s2}
    Directories = {}
    MaxSequence = 1
    MaxEpoch = 2
    MaxFaults = 1
    SoftCap = 1
    MaxAttempts = 1
    StreamKinds = {"bootstrap", "cluster"}
SYMMETRY SessionSymmetry
INVARIANTS TypeOK HydratedMeansWhole DrainedIsCovered
PROPERTIES ReadsNeverErase DeletedStaysDeleted
CHECK_DEADLOCK FALSE
