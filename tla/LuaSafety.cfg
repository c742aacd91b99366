CONSTANTS
    Remotes = {r1}
    Locals = {l1}
    Commands <- MCCommands
    UtcbSize = 2
    BufLen = 3
    MaxCalls = 2
    Faults = {"loss"}
SPECIFICATION FairSpec
CHECK_DEADLOCK FALSE
INVARIANTS
    ExecutedInOrder
    AnsweredIsExecuted
    NoFalseOk
PROPERTIES
    EveryCallAnswered
