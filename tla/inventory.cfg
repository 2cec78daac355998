SPECIFICATION Spec
CONSTANTS
    Ids          = {a, b}
    Serials      = {s1, s2}
    Fingerprints = {f1}
    Owners       = {o1, o2}
    Lifetimes    = {2}
    Window       = 1
    MaxTime      = 2
    MaxAttempts  = 1
    MaxItems     = 1
    None         = None
SYMMETRY Symmetry
CHECK_DEADLOCK FALSE
INVARIANT TypeOK
INVARIANT SerialIndexExact
INVARIANT FingerprintHitIsRight
INVARIANT OwnersInherited
PROPERTY QueueOnlyRenews
PROPERTY TerminalIsFinal
PROPERTY NoReplacementForTerminal
PROPERTY EvaluatedIsCurrent
