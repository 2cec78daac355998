SPECIFICATION Spec
CONSTANTS
    Threads = {t1}
    Ids     = {c1, c2}
    Reasons = {"superseded", "keyCompromise"}
    Inodes  = {i1, i2}
    Faults  = {"open", "write", "rename", "crash"}
    None    = None
INVARIANT AckedIsKept
INVARIANT AlwaysReopens
PROPERTY ImplementsDurable
