SPECIFICATION FairSpec
CONSTANTS
    FD_SETSIZE = 3
    MaxFiles = 5
INVARIANTS
    TypeOK
    HandlersMatchFiles
PROPERTIES
    ReadableHandled
    DestructionEnds
CHECK_DEADLOCK FALSE
