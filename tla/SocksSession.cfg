SPECIFICATION Spec
CONSTANTS
    Addresses <- SomeAddresses
    Confs <- SomeConfs
    MaxSent = 2
INVARIANTS
    TypeOK
    DataIsConserved
    OnlyPermitted
PROPERTIES
    DownloadCompletes
    SessionEnds
CHECK_DEADLOCK FALSE
