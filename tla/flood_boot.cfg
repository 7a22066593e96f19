SPECIFICATION DamageSpec
CONSTANTS
    a = a
    b = b
    c = c
    d = d
    Ghost = Ghost
    NoIface = NoIface
    Node <- Four
    Location <- FourAndGhost
    Linked <- LongLine
    Distance <- MCDistance
    Heading <- MCHeading
    PruningDivisor = 10
    HopModulus = 16
    Damages <- MCDamages
    DamageBound = 1
INVARIANTS
    LocalWithinTwoHops
    FaceFromNeighbours
PROPERTY
    TablesOnlyGrow
CHECK_DEADLOCK FALSE
