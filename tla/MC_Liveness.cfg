CONSTANTS
    Peers = {p1, p2}
    Keys = {k1}
    None = None
    LeaseTime = 2
    TickTime = 2
    MaxVersion = 3
    MaxErrors = 0
    MaxStarts = 1
    DuplicateCreateFails = FALSE
SPECIFICATION FairSpec
PROPERTY EventualLeader
