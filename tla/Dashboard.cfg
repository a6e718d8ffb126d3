SPECIFICATION Spec
CONSTANTS
    Members = {sara}
    Perms = {read, audit}
    RolePerms = {read}
    MockCatalog = {read}
    MadeUpRole = {}
    MadeUpGrant = {read}
    Emails = {mine, taken}
    Taken = {taken}
    MaxCalls = 2
    MaxKept = 1
    Price <- MCPrice
    Paid0 <- MCPaid0
    Amounts <- MCAmounts
    MaxDebt = 2
    MaxNew = 1
INVARIANTS
    DashboardTypeOK
    RowsAreUnique
    CreatedAreListed
    BooksBalance
    CodesAreUnique
PROPERTIES
    SavesChangeWhatWasTouched
    PaidIsPaid
