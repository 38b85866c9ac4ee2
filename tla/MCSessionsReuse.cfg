CONSTANTS
    u1 = u1
    u2 = u2
    s1 = s1
    s2 = s2
    s3 = s3
    r1 = r1
    r2 = r2
    NoUser = NoUser
    NoSession = NoSession
    User <- MCUser
    Admin <- MCAdmin
    Request <- MCRequest
    Session <- MCSession
    MayFail = FALSE
SPECIFICATION Spec
SYMMETRY MCSymmetry
CHECK_DEADLOCK FALSE
INVARIANT
    ReuseEndsFamily
