SPECIFICATION FairSpec
CONSTANTS
    Workers    = {w1}
    Revokers   = {}
    Boot       = boot
    Certs      = {c1, c2}
    Unrecorded = admin
    MaxNumber  = 4
    MaxCrashes = 1
    Faults     = {}
    Missing    = Missing
    Blank      = Blank
    Torn       = Torn
PROPERTY ComesBack
