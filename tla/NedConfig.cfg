SPECIFICATION FairSpec
CONSTANTS
    Libs = {"factory", "ns", "exec", "env"}
    Prio <- MCPrio
    Names = {"a", "rom", "long"}
    Order <- MCOrder
    Long = {"long"}
    Keys = {"x"}
    Objs = {1, 2, 3, 4}
    Slots = {1, 2, 3}
    Modes <- MCModes
    MaxK = 3
    MaxOps = 4
CHECK_DEADLOCK FALSE
INVARIANTS
    Handshake
    RefsAreObjects
    ClassIsRight
    NamesAreMapped
    LogIsOwn
PROPERTIES
    GetsReady
