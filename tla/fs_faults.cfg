SPECIFICATION Spec
CONSTANTS
    h1 = h1
    h2 = h2
    a = a
    b = b
    d = d
    e = e
    along = along
    x1 = x1
    x2 = x2
    y1 = y1
    zero = zero
    Clients = {h1}
    Requests <- FaultyRequests
    Names = {a, b, d}
    NoName = NoName
    OnDiskName <- MCOnDiskName
    Contents = {x1, x2, y1, zero}
    Empty = zero
    ContentSize <- MCContentSize
    Garbage = Garbage
    SectorSize = 2
    DirSectors = 1
    DiskSectors = 4
    MaxFiles = 3
    Cuts = {}
    Faults = {"read", "write"}
INVARIANTS
    DirectorySound
    FilesHoldTheirData
    TornWriteShowsOldOrNew
    TornRemoveKeepsFront
CHECK_DEADLOCK FALSE
