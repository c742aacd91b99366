CONSTANTS
    a = a
    b = b
    long = long
    i1 = i1
    i2 = i2
    r = r
    x = x
    y = y
    Clients = {c1, c2}
    Slots = {1}
    Cells = {y, Root, a}
    Zero = y
    Names = {Root, a}
    Root = Root
    LongNames = {}
    Garbage = a
    Inodes = {r, i1}
    RootIno = r
    NoIno = NoIno
    Fds = {3, 4, 5}
    MaxBuf = 1
    MaxFile = 2
    Iovs <- NoIovs
    Offsets = {0, 1}
    OpenFlags <- PairFlags
    Calls <- HandleCalls
    Faults = {"kill", "oom"}
SPECIFICATION FairSpec
INVARIANTS
    HandleIsolation
PROPERTIES
    StableHandles
    ImplementsFileService
    CallsReturn
