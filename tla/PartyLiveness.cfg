SPECIFICATION FairSpec
CONSTANTS
    Users <- MCUsers2
    Parties = {p1}
    InviteIds <- MCInviteIds
    MaxTime = 1
    Requests = {r1, r2}
    NoRequest = NoRequest
    NoUser = NoUser
    NoInvite = NoInvite
PROPERTIES
    CallsEnd
