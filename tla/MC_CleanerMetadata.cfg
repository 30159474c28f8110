CONSTANTS
    Instances = {n1}
    Clients = {c1}
    BatchSize = 1
    Timeout = 1
    MaxTime = 2
    MaxErrors = 0
SPECIFICATION Spec
PROPERTY RemovesOnlyExpired
