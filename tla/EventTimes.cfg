SPECIFICATION Spec
CONSTANTS
    Zones <- MCZones
    Days <- MCDays
    Times <- MCTimes
    OddTexts <- MCOddTexts
    Unread = Unread
CHECK_DEADLOCK FALSE
INVARIANTS
    SavedAsChosen
    SavedWithinReason
