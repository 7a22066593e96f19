SPECIFICATION SettledSpec
CONSTANTS
    a = a
    b = b
    c = c
    d = d
    Ghost = Ghost
    t1 = t1
    t2 = t2
    NoIface = NoIface
    LocalHost = LocalHost
    Node <- Three
    Location <- Three
    Linked <- Triangle
    Distance <- MCDistance
    Heading <- MCHeading
    PruningDivisor = 10
    HopModulus = 16
    Damages = {}
    DamageBound = 0
    Traffic = {t1}
    Advertisers = {c}
    Source <- FromA
    Destination <- ToC
    Type <- IPv6
    ModeOctet = 2
PROPERTY
    DeliversInPlanarGraph
CHECK_DEADLOCK FALSE
