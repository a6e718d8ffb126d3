SPECIFICATION Spec
CONSTANTS
    Processes = {p1}
    Users = {mona}
    Roles <- MCRoles
    Codes <- MCCodes
    Default <- MCDefault
    Requests = {r1, r2}
    TTL = 1
    Latency = 1
    Matrices <- MCMatrices
    Overrides <- MCOverrides
    read = read
    write = write
SYMMETRY Sym
INVARIANTS
    TypeOK
    EntriesAreRecent
    ChangesAreSeenAtOnce
    RowsWereAskedFor
    OverridesDiffer
