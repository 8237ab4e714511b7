CONSTANTS
    MaxSequence = 3
    MaxEpoch = 2
SPECIFICATION Spec
INVARIANT
    NoSilentLoss
CHECK_DEADLOCK FALSE
