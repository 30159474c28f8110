CONSTANTS
    Peers = {p1, p2}
    Keys = {k1}
    None = None
    LeaseTime = 4
    TickTime = 2
    MaxVersion = 3
    MaxErrors = 1
    MaxStarts = 1
    DuplicateCreateFails = FALSE
SPECIFICATION Spec
SYMMETRY MCPeerSymmetry
INVARIANT TypeOK
INVARIANT FlagMatchesKnownLeader
PROPERTY ReleaseIsHonoured
