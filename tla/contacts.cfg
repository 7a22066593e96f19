SPECIFICATION FairSpec
CONSTANTS
    Width = 3
    Location = {l1, l2}
INVARIANTS
    TypeOK
    Sorted
PROPERTIES
    ImplementsTable
