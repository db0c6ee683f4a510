SPECIFICATION SessionSpec
CONSTANTS
    client = client
    server = server
    m1 = m1
    m2 = m2
    f = f
    a = a
    Empty = Empty
    Msgs = {m1, m2}
    Src <- MCSrc
    Dst <- MCDst
    Script <- MCScript
    Menu <- MCMenu
    SeqMod = 2
    MaxRetries = 1
    Window = 1
    Lifetime = 0
    Restarting = {server}
    MaxLives = 2
PROPERTIES
    ImplementsConsole
CHECK_DEADLOCK FALSE
