SPECIFICATION Machine
CONSTANTS
    client = client
    server = server
    m1 = m1
    m2 = m2
    r1 = r1
    s1 = s1
    r2 = r2
    s2 = s2
    Msgs = {m1, m2, r1, s1, r2, s2}
    Src <- MCSrc
    Dst <- MCDst
    Script <- MCScript
    Responses <- MCResponses
    SeqMod = 1
    MaxRetries = 0
    Window = 1
    Lifetime = 0
    Restarting = {server}
    MaxLives = 2
    p1 = p1
    p2 = p2
    Callers = {p1}
    Calls <- MCCalls
    Image <- MCImage
    ByteSize = 4
    MaxDatagram = 15
    Buffer = 12
    Packets <- MCPackets
    Jobs = {j1, j2, j3}
    Workers = {w1, w2, w3}
    pool_size = 2
    MaxWaiting = 3
    NetPayloads <- MCNetPayloads
    mtu = 56
INVARIANTS
    PacketsArriveWhole
    DamageNoticed
    NoUseAfterFree
    PoolBounded
    QueueServed
PROPERTIES
    AccessBySector
    ImplementsJobService
    PacketsReachCallback
    HostUnderstands
    ImplementsRemoteShell
    TakenIsAnswered
CHECK_DEADLOCK FALSE
