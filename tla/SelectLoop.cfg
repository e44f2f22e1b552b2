SPECIFICATION LoopSpec
CONSTANTS
    MaxId = 2
    Fds = {1, 2, 3}
    NoFd = 0
    Names = {Ann}
    NoName = NoName
    MaxWaiting = 2
INVARIANTS
    LoopTypeOK
    SocketResolves
    TableMatchesClients
    NicknamesAreOwned
    DeliveryIsExact
    SpeaksForItself
    NeverBlocks
    PromptOrLine
PROPERTIES
    IsFairServer
