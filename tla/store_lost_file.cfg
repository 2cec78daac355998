SPECIFICATION Spec
CONSTANTS
    Threads = {t1, t2}
    Ids     = {c1, c2}
    Reasons = {"superseded"}
    Inodes  = {i1, i2}
    Faults  = {"crash"}
    None    = None
INVARIANT AckedIsKept
