SPECIFICATION FairSpec
CONSTANTS
    Options <- MCOptions
    PortWord = 4
    Fds = {3, 4, 5, 6}
    NoFd <- MCNoFd
    Peers = {1, 2}
    Errnos = {1, 2}
    JunkFds = {4}
    JunkPorts = {0}
CHECK_DEADLOCK FALSE
INVARIANTS
    ServedByKind
    HandlersOwnSockets
    ConnectVerdict
PROPERTIES
    StraysStartInDisconnect
    ServicesUp
    CallsAccepted
