SPECIFICATION Spec
CONSTANTS
    Certificates <- Known
    AnchorDers   <- MadeAnchors
    Unparsable   = Unparsable
    AnchorIds    = {a1, a2}
    Folded       <- Spelled
    Forever      = 9
    MaxTime      = 2
    Anything     = Anything
    Identities   = {i1, i2}
    Fingerprints = {f1, f2}
    Roles        = {"issuer"}
SYMMETRY Symmetry
INVARIANT TypeOK
INVARIANT AcceptsExactlyTheTrusted
INVARIANT OwnChainsValidate
INVARIANT ValidatorsAgree
INVARIANT RevokedNeverAuthorized
