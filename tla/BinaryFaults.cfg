CONSTANTS
    c1 = c1
    p = p
    q = q
    long = long
    x = x
    y = y
    z = z
    Conns = {c1}
    Names = {p, q, long}
    LongNames = {long}
    Cells = {x, y, z}
    Uploads <- MCUploads
    MaxChunk = 2
    Word = 8
    Errnos = {0, 2}
    MaxOpen = 2
    MaxUploads = 3
    MaxFile = 4
    NoFile = NoFile
    Faults = {"loss", "write"}
SPECIFICATION FairSpec
CHECK_DEADLOCK FALSE
INVARIANTS
    InStep
    StoredInOrder
    OnlyContentStored
PROPERTIES
    UploadsReturn
    ReportedIsReceived
