SPECIFICATION FairSpec
CONSTANTS
    g1 = g1
    g2 = g2
    Address <- MCAddress
    Node <- Three
    XorDistance <- MCXorDistance
    Variations <- MCVariations
    Heard <- ShortLine
    Datagram = {g1, g2}
    Origin <- MCOrigin
    Dest <- MCDest
    Refreshing = {0}
INVARIANTS
    TypeOK
    NothingForgotten
    SentToContact
    KnowsSymmetric
PROPERTY
    LookupsEnd
CHECK_DEADLOCK FALSE
