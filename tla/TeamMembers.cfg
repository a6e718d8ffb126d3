SPECIFICATION Spec
CONSTANTS
    Members = {m1, m2, m3}
    Requests = {r1, r2}
SYMMETRY Symmetry
INVARIANTS
    TypeOK
    OfficeKeepsAnOwner
PROPERTY
    NobodyChangesTheirOwnStanding
CHECK_DEADLOCK FALSE
