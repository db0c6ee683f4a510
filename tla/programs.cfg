SPECIFICATION Programs
CONSTANTS
    c1 = c1
    c2 = c2
    Clients = {c1, c2}
    Byte <- MCByte
    Decode <- decode
    Encode <- encode
    Requests <- MCRequests
    MaxRequests <- MCMaxRequests
    Reads <- MCReads
    Unruly = {c2}
    Elements = {e1, e2}
    MaxHeld = 5
    FirstYears = {1896, 1996}
    Span = 6
    MaxText = 8
    Keys = {"s"}
    Show <- to_string
INVARIANTS
    ParserFollowsGrammar
    
    YearsAreWhole
PROPERTIES
    ImplementsKeyValue
    RequestsAnswered
    ImplementsFifo
    OrderOfDays
CHECK_DEADLOCK FALSE
