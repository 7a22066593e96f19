SPECIFICATION LiveSpec
CONSTANTS
    a = a
    b = b
    c = c
    d = d
    Ghost = Ghost
    t1 = t1
    t2 = t2
    NoIface = NoIface
    LocalHost = LocalHost
    Node <- Four
    Location <- Four
    Linked <- Square
    Distance <- MCDistance
    Heading <- MCHeading
    PruningDivisor = 10
    HopModulus = 16
    Damages = {}
    DamageBound = 0
    Traffic = {t1, t2}
    Advertisers = {a, c}
    Source <- FromAAndB
    Destination <- ToCAndD
    Type <- IPv6
    ModeOctet = 2
INVARIANTS
    RouterTypeOK
    HopBound
    NextHopKnowsBetter
    LocalRoutesLead
PROPERTIES
    DropsExplained
    FloodQuiesces
    LocalTrafficArrives
    NoEndlessJourney
CHECK_DEADLOCK FALSE
