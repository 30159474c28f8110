CONSTANTS
    Peers = {p1}
    Keys = {k1}
    None = None
    LeaseTime = 2
    TickTime = 2
    MaxVersion = 2
    MaxErrors = 0
    MaxStarts = 2
    DuplicateCreateFails = FALSE
SPECIFICATION Spec
PROPERTY ReleaseIsHonoured
