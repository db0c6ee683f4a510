SPECIFICATION TextSpec
CONSTANTS
    MaxText = 5
    Keys = {"s"}
    Show <- to_string
INVARIANT
    ParserRaisesOnInvalid
CHECK_DEADLOCK FALSE
