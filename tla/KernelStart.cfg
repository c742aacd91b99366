CONSTANTS
    Word = 13
    UserMax = 11
    KipReserved <- MCReserved
    Layouts <- MCLayouts
    TlsBase = 1
    HeapBase = 3
    HeapSize = 1
    LoaderVma = 4
    LoaderSize = 1
    StackVma = 8
    SegBase = 9
    HeapPages = 5
    PerPage = 2
    MaxCaps = 6
    FirstCap = 2
    Sizes = {1}
    Touched = {4, 5, 10}
    NoAddr = NoAddr
SPECIFICATION FairSpec
CHECK_DEADLOCK FALSE
INVARIANTS
    RegionsMirrored
    StackIsShared
    SlotsDistinct
    RaisesOwnPrio
PROPERTIES
    OnlyStackDetached
    StartSettles
    RequestsServed
