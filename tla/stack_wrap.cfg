SPECIFICATION UnusedSpec
CONSTANTS
    client = client
    server = server
    peer = peer
    m1 = m1
    m2 = m2
    m3 = m3
    Msgs = {m1, m2, m3}
    Src <- OneWaySrc
    Dst <- OneWayDst
    SeqMod = 2
    MaxRetries = 1
    Window = 2
    Lifetime = 1
    Restarting = {}
INVARIANT AckedIsDelivered
CHECK_DEADLOCK FALSE
