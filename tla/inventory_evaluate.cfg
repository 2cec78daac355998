SPECIFICATION Spec
CONSTANTS
    Ids          = {a, b, c}
    Serials      = {s1, s2, s3}
    Fingerprints = {f1}
    Owners       = {o1}
    Lifetimes    = {2}
    Window       = 1
    MaxTime      = 2
    MaxAttempts  = 1
    MaxItems     = 0
    None         = None
SYMMETRY Symmetry
CHECK_DEADLOCK FALSE
PROPERTY EvaluatesEveryCertificate
