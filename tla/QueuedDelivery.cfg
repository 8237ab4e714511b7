CONSTANTS
    MaxMessages = 2
    Tabs = {t1}
    MaxQueue = 2
    MayCrash = TRUE
    MaxEpoch = 2
    MaxInterventions = 1
SPECIFICATION FairSpec
INVARIANTS
    NeverDeliveredTwice
    NothingDropped
    FollowUpsInOrder
PROPERTY
    EntrySettles
CHECK_DEADLOCK FALSE
