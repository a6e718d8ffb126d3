SPECIFICATION Spec
CONSTANTS
    Requests = {r1, r2, r3}
    MaxFailedAttempts = 4
    LockTicks = 2
SYMMETRY Symmetry
INVARIANTS
    TypeOK
    LockIsEarned
    UnpunishedFailuresAreBounded
PROPERTY
    LockIsInert
