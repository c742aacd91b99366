CONSTANTS
    a = a
    b = b
    long = long
    i1 = i1
    i2 = i2
    r = r
    x = x
    y = y
    Clients = {c1}
    Slots = {1}
    Cells = {x, y, Root, a, b, long}
    Zero = y
    Names = {Root, a, b, long}
    Root = Root
    LongNames = {long}
    Garbage = a
    Inodes = {r, i1, i2}
    RootIno = r
    NoIno = NoIno
    Fds = {3, 4}
    MaxBuf = 2
    MaxFile = 3
    Iovs <- MCIovs
    Offsets = {1}
    OpenFlags <- CreateFlags
    Calls <- AllCalls
    Faults = {"kill", "oom"}
SPECIFICATION Spec
INVARIANTS
    TypeOK
    RequestsForwarded
PROPERTIES
    ImplementsFileService
