SPECIFICATION Spec
CONSTANTS
    MaxKeys    = 7
    MaxCrashes = 3
    Missing    = Missing
    Blank      = Blank
CHECK_DEADLOCK FALSE
INVARIANT TypeOK
INVARIANT ChainIsWhole
INVARIANT KeysMatch
INVARIANT ClientIsTrusted
PROPERTY WholePairsStay
