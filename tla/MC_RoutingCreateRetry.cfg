CONSTANTS
    Store = "routing"
    Writers = {w1, w2}
    Ids = {i1}
    Revs = {r1, r2}
    MaxTime = 2
    MaxErrors = 1
    RetryLimit = 20
SPECIFICATION Spec
SYMMETRY MCRuleSymmetry
INVARIANT CreateErrorMeansNotCreated
