CONSTANTS
    Daemons = {d1}
    Sessions = {s1, s2}
    Requests = {c1, c2, c3}
    Stored = {s1}
    MayCrash = FALSE
SPECIFICATION Spec
INVARIANTS
    LeaseReleased
SYMMETRY ResidencySymmetry
CHECK_DEADLOCK FALSE
