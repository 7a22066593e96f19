SPECIFICATION Spec
CONSTANTS
    a = a
    b = b
    c = c
    Node = {a, b, c}
    UdpPeers <- MCUdpPeers
    IfaceModulus = 4
    MaxEpoch <- MCMaxEpoch
INVARIANTS
    TypeOK
    IdsUnique
    LinkedBothWays
    DroppedOnlyEarly
    MixedSenders
CHECK_DEADLOCK FALSE
PROPERTIES
    HandshakeCompletes
