SPECIFICATION Spec
CONSTANTS
    Members = {m1, m2}
    Requests = {r1, r2}
SYMMETRY Symmetry
INVARIANT
    OfficeHasAnActiveOwner
CHECK_DEADLOCK FALSE
