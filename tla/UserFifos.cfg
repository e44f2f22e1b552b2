SPECIFICATION FifosSpec
CONSTANTS
    MaxUsers = 2
    MaxSessions = 3
    MaxRestarts = 1
    Crowd = 1
    MaxCommands = 1
    Names = {Ann}
    NoName = NoName
    Links <- MCLinks
    Movers = {1, 2}
INVARIANTS
    FifosTypeOK
    AtMostOneTooMany
    TableAgrees
    RecordsAgree
    FifoIsFresh
PROPERTIES
    OpensReturn
    NewcomersAreServed
CHECK_DEADLOCK FALSE
