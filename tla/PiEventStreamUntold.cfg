CONSTANTS
    MaxSequence = 3
    MaxEpoch = 1
SPECIFICATION Spec
PROPERTY
    ResumeNeverLoses
CHECK_DEADLOCK FALSE
