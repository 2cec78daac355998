SPECIFICATION Spec
CONSTANTS
    Conns       = {k1, k2, k3}
    Clients     = {issuer, other}
    Issuers     = {issuer}
    IssueBodies <- Bodies
    Policy      <- DefaultPolicy
    Ids         = {id1, id2}
    Reasons     = {"keyCompromise"}
    Unspecified = "unspecified"
    Faults      = {"save", "refresh"}
    None        = None
    Missing     = Missing
    Blank       = Blank
    Torn        = Torn
SYMMETRY Symmetry
CHECK_DEADLOCK FALSE
INVARIANT TypeOK
INVARIANT RecordsAreEarned
INVARIANT IssuanceAudited
INVARIANT SuccessIsSaved
PROPERTY ImplementsLedger
INVARIANT FailureIsBadDns
INVARIANT RevocationsAreEarned
