SPECIFICATION FairSpec
CONSTANTS
    s1 = s1
    Sessions = {s1}
    MaxRequests = 1
    MaxEpoch = 2
    MaxReads = 2
    MaxFaults = 1
INVARIANTS RowIsAsOf BadgesTrue MissIsFetched AlertsEnd
PROPERTY CatchesUp
CHECK_DEADLOCK FALSE
