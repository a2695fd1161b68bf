SPECIFICATION Spec
CONSTANTS
    Syncs <- ThreeSyncs
    Users = {u1}
    UserOf <- SameUser
    Kind <- EachKind
    Conns = {c1, c2}
    NoConn = NoConn
    MemberSlots = 3
CHECK_DEADLOCK FALSE
SYMMETRY Symmetry
INVARIANTS
    TypeOK
    IdleHoldsNoLock
    FreshHasLibrary
    StoredIsSynced
    EndedHoldsNothing
PROPERTIES
    ImplementsUserLock
    FreshIsLeftAlone
