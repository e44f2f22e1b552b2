SPECIFICATION TableSpec
CONSTANTS
    MaxUsers = 2
    MaxSessions = 2
    MaxRestarts = 0
    Crowd = 2
    Names = {Ann}
    NoName = NoName
INVARIANTS
    OneIdEach
CHECK_DEADLOCK FALSE
