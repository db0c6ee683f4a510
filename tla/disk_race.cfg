SPECIFICATION Devices
CONSTANTS
    p1 = p1
    p2 = p2
    Callers = {p1, p2}
    Calls <- MCCalls
    Image <- MCImage
    ByteSize = 4
    MaxDatagram = 15
    Buffer = 12
    Packets = {}
    Jobs = {}
    Workers = {w1, w2, w3}
    pool_size = 2
    MaxWaiting = 3
    NetPayloads <- MCNetPayloads
    mtu = 56
PROPERTY AccessBySector
CHECK_DEADLOCK FALSE
