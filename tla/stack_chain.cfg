SPECIFICATION Paced
CONSTANTS
    client = client
    server = server
    peer = peer
    m1 = m1
    m2 = m2
    m3 = m3
    Msgs = {m1, m2, m3}
    Src <- ChainSrc
    Dst <- ChainDst
    SeqMod = 1
    MaxRetries = 1
    Window = 2
    Lifetime = 1
    Restarting = {client}
INVARIANTS
    TypeOK
    NoStaleWaiter
    WaiterRegistered
PROPERTIES
    ImplementsDelivery
    SendReturns
CHECK_DEADLOCK FALSE
