SPECIFICATION PagesSpec
CONSTANTS
    Users <- MCUsers
    Parties = {p1}
    InviteIds <- MCInviteIds
    MaxTime = 1
    Visits = {v1}
    Handlers = {"invite", "event", "detail"}
    Games = {g1}
    NoGame = NoGame
    Nobody = Nobody
CONSTRAINTS
    LibrariesForEvents
    AllAreFriends
    EventIsTheEnd
    ShownIsTheEnd
INVARIANTS
    NoOrphanEvents
    ListedWereOpen
    OpenAreListed
PROPERTIES
    OldRowsUntouched
    EventFitsRoster
