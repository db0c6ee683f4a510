SPECIFICATION Spec
CONSTANTS
    h1 = h1
    h2 = h2
    a = a
    b = b
    d = d
    e = e
    along = along
    x1 = x1
    x2 = x2
    y1 = y1
    zero = zero
    Clients = {h1}
    Requests <- LongNameRequests
    Names = {a, along}
    NoName = NoName
    OnDiskName <- MCOnDiskName
    Contents = {x1, x2, y1, zero}
    Empty = zero
    ContentSize <- MCContentSize
    Garbage = Garbage
    SectorSize = 2
    DirSectors = 1
    DiskSectors = 5
    MaxFiles = 2
    Cuts = {}
    Faults = {}
INVARIANT AckedWriteStored
CHECK_DEADLOCK FALSE
