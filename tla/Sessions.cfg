SPECIFICATION Spec
CONSTANTS
    Users = {u1, u2}
    NoUser = NoUser
    Tokens = {t1, t2}
    NoToken = NoToken
    Requests = {r1, r2}
    Lifetime = 2
    MaxTime = 4
CHECK_DEADLOCK FALSE
SYMMETRY Symmetry
INVARIANTS
    TypeOK
    SessionsAreSignedIn
    LastWordCounts
PROPERTY
    DeadTokensStayDead
