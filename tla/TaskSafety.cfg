CONSTANTS
    Tasks = {t1, t2}
    ExitCodes = {0, 1}
    Unset = Unset
    NoTask = NoTask
SPECIFICATION FairSpec
CHECK_DEADLOCK FALSE
INVARIANTS
    CountIsHolders
    Protected
    CapsFreedOnce
    WaitReportsExit
PROPERTIES
    WaitReturns
