SPECIFICATION PipesSpec
CONSTANTS
    MaxId = 2
    Fds = {f4, f5}
    NoFd = NoFd
    Names = {Ann}
    NoName = NoName
    MaxSkip = 1
INVARIANTS
    PipesCloseWithTheirUsers
