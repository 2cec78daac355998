SPECIFICATION FairSpec
CONSTANTS
    Workers    = {w1, w2}
    Revokers   = {w1}
    Boot       = boot
    Certs      = {c1, c2}
    Unrecorded = admin
    MaxNumber  = 4
    MaxCrashes = 2
    Faults     = {"save", "number", "crl"}
    Missing    = Missing
    Blank      = Blank
    Torn       = Torn
INVARIANT TypeOK
INVARIANT RevokedIsRefused
INVARIANT NoSilentGap
INVARIANT EnforcedIsSaved
PROPERTY CrlsAdvance
PROPERTY RevocationAnswered
INVARIANT CrlFileIsEnforced
PROPERTY ImplementsLedger
