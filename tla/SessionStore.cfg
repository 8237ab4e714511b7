SPECIFICATION Spec
CONSTANTS
    s1 = s1
    s2 = s2
    Sessions = {s1, s2}
    Directories = {}
    MaxSequence = 2
    MaxEpoch = 1
    MaxFaults = 2
    SoftCap = 1
    MaxAttempts = 1
    StreamKinds = {"bootstrap", "cluster"}
SYMMETRY SessionSymmetry
INVARIANTS HydratedMeansWhole
PROPERTIES ReadsNeverErase DeletedStaysDeleted
CHECK_DEADLOCK FALSE
