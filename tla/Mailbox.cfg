SPECIFICATION Spec
CONSTANTS
    Users = {1, 2}
    Senders = {1, 2}
    NSlots = 2
    MaxSends = 3
INVARIANTS
    TypeOK
    NoMailForgotten
    PrintedOnce
CHECK_DEADLOCK FALSE
