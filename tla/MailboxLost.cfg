SPECIFICATION Spec
CONSTANTS
    Users = {1, 2}
    Senders = {1}
    NSlots = 2
    MaxSends = 2
INVARIANTS
    EveryYellArrives
CHECK_DEADLOCK FALSE
