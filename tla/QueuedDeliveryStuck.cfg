CONSTANTS
    MaxMessages = 2
    Tabs = {t1}
    MaxQueue = 2
    MayCrash = FALSE
    MaxEpoch = 1
    MaxInterventions = 1
SPECIFICATION FairSpec
PROPERTY
    NeverBlocked
CHECK_DEADLOCK FALSE
