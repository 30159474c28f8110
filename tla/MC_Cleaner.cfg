CONSTANTS
    Instances = {n1, n2}
    Clients = {c1}
    BatchSize = 1
    Timeout = 1
    MaxTime = 3
    MaxErrors = 1
SPECIFICATION FairSpec
INVARIANT TypeOK
INVARIANT RowsConsistent
PROPERTY EventuallyPurged
PROPERTY EventuallyPurgedClient
