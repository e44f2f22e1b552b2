SPECIFICATION Spec
CONSTANTS
    Lines <- ShortLines
    MaxProcs = 4
    MaxPipes = 4
    Capacity = 2
INVARIANTS
    ReadersWaitForOlder
    NoOutputLost
PROPERTIES
    PromptComesBack
    ProcessesEnd
CHECK_DEADLOCK FALSE
