SPECIFICATION Spec
CONSTANTS
    Lines <- LongLines
    MaxProcs = 3
    MaxPipes = 3
    Capacity = 2
PROPERTIES
    PromptComesBack
CHECK_DEADLOCK FALSE
