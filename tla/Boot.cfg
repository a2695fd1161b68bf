SPECIFICATION FairSpec
CONSTANTS
    new1 = new1
    new2 = new2
    old = old
    Instances <- MCInstances
    Last = 3
    Carries <- MCCarries
    Repeatable = {2}
    MaxFaults = 3
CHECK_DEADLOCK FALSE
INVARIANTS
    AppliedOnceInOrder
    ServingIsMigrated
PROPERTY
    AllServe
