CONSTANTS
    Instances = {n1, n2}
    Clients = {c1}
    BatchSize = 2
    Timeout = 1
    MaxTime = 2
    MaxErrors = 0
SPECIFICATION FairSpec
PROPERTY EventuallyPurged
