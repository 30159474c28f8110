CONSTANTS
    Peers = {p1, p2}
    Keys = {k1}
    None = None
    LeaseTime = 4
    TickTime = 2
    MaxVersion = 3
    MaxErrors = 0
    MaxStarts = 1
    DuplicateCreateFails = TRUE
SPECIFICATION Spec
SYMMETRY MCPeerSymmetry
INVARIANT StartFailsOnlyOnStoreError
