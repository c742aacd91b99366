CONSTANTS
    Tasks = {t1}
    ExitCodes = {0, 1}
    Unset = Unset
    NoTask = NoTask
SPECIFICATION Spec
CHECK_DEADLOCK FALSE
INVARIANTS
    KicksCapabilityReference
