SPECIFICATION Spec
CONSTANTS
    Users <- MCUsers
    Parties = {p1}
    InviteIds = {i1, i2}
    MaxTime = 1
    Requests = {r1, r2}
    NoRequest = NoRequest
    NoUser = NoUser
    NoInvite = NoInvite
SYMMETRY Symmetry
INVARIANTS
    TypeOK
    LeaderIsMember
    NoOrphanRows
    PendingInviteIsOpen
    OnlySignedInAreAsked
    InsertsNeverConflict
PROPERTIES
    ImplementsParty
    JoinsAreAnswered
