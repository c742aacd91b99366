CONSTANTS
    Remotes = {r1}
    Locals = {}
    Commands <- FewCommands
    UtcbSize = 2
    BufLen = 3
    MaxCalls = 1
    Faults = {}
SPECIFICATION Spec
CHECK_DEADLOCK FALSE
INVARIANTS
    ReceptionReported
