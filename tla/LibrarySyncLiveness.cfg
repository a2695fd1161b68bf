SPECIFICATION FairSpec
CONSTANTS
    Syncs <- ThreeSyncs
    Users <- TwoUsers
    UserOf <- LastApart
    Kind <- OneRequest
    Conns = {c1}
    NoConn = NoConn
    MemberSlots = 1
CHECK_DEADLOCK FALSE
PROPERTY SyncsEnd
