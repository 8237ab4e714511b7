CONSTANTS
    MaxMessages = 1
    Tabs = {t1, t2}
    MaxQueue = 2
    MayCrash = FALSE
    MaxEpoch = 2
    MaxInterventions = 2
SPECIFICATION Spec
INVARIANT
    NeverDeliveredTwice
CHECK_DEADLOCK FALSE
