CONSTANTS
    Daemons = {d1, d2}
    Sessions = {s1, s2, s3}
    Requests = {c1, c2, c3}
    Stored = {s1}
    MayCrash = TRUE
SPECIFICATION Spec
INVARIANTS
    OneResidentUnlessLapsed
    RequestsUseLiveRuntimes
    LeaseAccounted
    DormantReopensUnlessDeleted
SYMMETRY ResidencySymmetry
CHECK_DEADLOCK FALSE
