SPECIFICATION ShellSpec
CONSTANTS
    MaxSkip = 3
    MaxCommands = 3
    MaxLines = 5
INVARIANTS
    SplitTypeOK
    LinesPartition
PROPERTIES
    KeepsSchedule
CHECK_DEADLOCK FALSE
