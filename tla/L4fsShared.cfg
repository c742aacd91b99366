CONSTANTS
    a = a
    b = b
    long = long
    i1 = i1
    i2 = i2
    r = r
    x = x
    y = y
    Clients = {c1, c2}
    Slots = {1}
    Cells = {x, y, Root, a}
    Zero = y
    Names = {Root, a}
    Root = Root
    LongNames = {}
    Garbage = a
    Inodes = {r, i1}
    RootIno = r
    NoIno = NoIno
    Fds = {3, 4, 5, 6}
    MaxBuf = 1
    MaxFile = 2
    Iovs <- TwoBuffers
    Offsets = {0}
    OpenFlags <- PairFlags
    Calls <- DataCalls
    Faults = {}
SPECIFICATION Spec
INVARIANTS
    RequestsForwarded
