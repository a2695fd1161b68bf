SPECIFICATION Spec
CONSTANTS
    Users <- MCUsers2
    Parties = {p1}
    InviteIds <- MCInviteIds
    MaxTime = 1
    Requests = {r1}
    NoRequest = NoRequest
    NoUser = NoUser
    NoInvite = NoInvite
PROPERTIES
    SignedInJoinByThemselves
