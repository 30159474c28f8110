CONSTANTS
    Store = "routing"
    Writers = {w1, w2}
    Ids = {i1}
    Revs = {r1, r2}
    MaxTime = 3
    MaxErrors = 0
    RetryLimit = 20
SPECIFICATION Spec
SYMMETRY MCRuleSymmetry
INVARIANT CacheAgreesBelowMark
