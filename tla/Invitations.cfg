SPECIFICATION Spec
CONSTANTS
    Emails = {e1, e2}
    Invites = {i1, i2, i3}
    Requests = {r1, r2}
    None = None
SYMMETRY Symmetry
INVARIANTS
    TypeOK
    OpenInvitationHasItsAccount
    UsedXorRevoked
    PasswordComesWithAcceptance
PROPERTY
    AccountsWithPasswordAreKept
