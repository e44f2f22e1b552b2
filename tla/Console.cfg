SPECIFICATION Spec
CONSTANTS
    Files <- SomeFiles
    MaxUnread = 2
    Buffer = 3
    MaxOthers = 2
INVARIANTS
    PageTypeOK
    StaysInStep
    NothingBehindTheEnd
PROPERTIES
    StuckOnlyForLost
    FilesFinish
    PageEnds
CHECK_DEADLOCK FALSE
