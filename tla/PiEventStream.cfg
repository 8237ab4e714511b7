CONSTANTS
    MaxSequence = 2
    MaxEpoch = 3
SPECIFICATION FairSpec
INVARIANTS
    CursorBelongsToItsEpoch
    LiveEpochNeverRetired
    DeliveredInOrder
PROPERTIES
    ForeignFrameResolved
    EpochMovesForward
    ResumedCursorLosesNothing
CHECK_DEADLOCK FALSE
