SPECIFICATION Spec
CONSTANTS
    Syncs <- TwoSyncs
    Users = {u1}
    UserOf <- SameUser
    Kind <- PageAndAdded
    Conns = {c1, c2}
    NoConn = NoConn
    MemberSlots = 3
CHECK_DEADLOCK FALSE
INVARIANT SyncsAreSerialized
