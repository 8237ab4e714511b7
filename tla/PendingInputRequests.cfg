SPECIFICATION Spec
CONSTANTS
    s1 = s1
    Sessions = {s1}
    MaxRequests = 2
    MaxEpoch = 2
    MaxReads = 1
    MaxFaults = 1
INVARIANTS TypeOK RowIsAsOf BadgesTrue MissIsFetched AlertsEnd
CHECK_DEADLOCK FALSE
