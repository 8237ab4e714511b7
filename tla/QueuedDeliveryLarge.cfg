CONSTANTS
    MaxMessages = 2
    Tabs = {t1}
    MaxQueue = 2
    MayCrash = TRUE
    MaxEpoch = 2
    MaxInterventions = 2
SPECIFICATION Spec
INVARIANTS
    TypeOK
    NeverDeliveredTwice
    NothingDropped
    FollowUpsInOrder
CHECK_DEADLOCK FALSE
