SPECIFICATION FairSpec
CONSTANTS
    Users <- MCUsers
    Library <- MCLibrary
    Details <- MCDetails
    s1 = s1
    s2 = s2
    p1 = p1
    Syncs = {s1, s2}
    UserOf <- MCUserOf
    Pages = {p1}
    BatchSize = 2
    Slots = 2
    MaxBatches = 2
    StoreAttempts = 2
    NoTx = NoTx
    Group <- MCGroup
    Awaited <- MCAwaited
CHECK_DEADLOCK FALSE
INVARIANTS
    TypeOK
    CleanFetchIsComplete
    LibrariesDoNotDeadlock
    ShownIsSharedAndPlayable
    NothingSharedIsLeftOut
    AwaitedAreIncluded
PROPERTIES
    BatchesAreWhole
    CallersEnd
