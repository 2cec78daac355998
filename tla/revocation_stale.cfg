SPECIFICATION Spec
CONSTANTS
    Workers    = {w1, w2}
    Revokers   = {w1, w2}
    Boot       = boot
    Certs      = {c1, c2}
    Unrecorded = admin
    MaxNumber  = 4
    MaxCrashes = 0
    Faults     = {}
    Missing    = Missing
    Blank      = Blank
    Torn       = Torn
INVARIANT RevokedIsRefused
