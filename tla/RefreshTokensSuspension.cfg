SPECIFICATION Spec
CONSTANTS
    Users = {u1}
    Tokens = {t1, t2, t3}
    Requests = {r1, r2}
SYMMETRY Symmetry
INVARIANT
    SuspensionEndsSessions
