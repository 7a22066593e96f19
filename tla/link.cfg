SPECIFICATION Spec
CONSTANTS
    NumberModulus = 4
    MaxSize = 2
    MaxSent = 6
INVARIANTS
    TypeOK
    NothingStranded
PROPERTIES
    ImplementsLink
CHECK_DEADLOCK FALSE
