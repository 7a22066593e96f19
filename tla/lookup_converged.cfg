SPECIFICATION Spec
CONSTANTS
    g1 = g1
    g2 = g2
    Address <- MCAddress
    Node <- MCAddress
    XorDistance <- MCXorDistance
    Variations <- MCVariations
    Heard <- Line
    Datagram = {}
    Origin <- MCOrigin
    Dest <- MCDest
    Refreshing = {0}
INVARIANT
    LookupsSucceed
CHECK_DEADLOCK FALSE
