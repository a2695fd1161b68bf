SPECIFICATION FormedSpec
CONSTANTS
    Users <- MCUsers
    Parties = {p1}
    InviteIds = {i1, i2}
    MaxTime = 2
    Requests = {r1, r2}
    NoRequest = NoRequest
    NoUser = NoUser
    NoInvite = NoInvite
SYMMETRY Symmetry
CONSTRAINT JoinsAndLeaves
PROPERTIES
    StepsImplementParty
