CONSTANTS
    e1 = e1
    e2 = e2
    g1 = g1
    g2 = g2
    Email <- MCEmail
    NoEmail = NoEmail
    GoogleId <- MCGoogleId
    NoGoogleId = NoGoogleId
    EmailOf <- MCEmailOf
    User = {u1, u2}
    NoUser = NoUser
    Token = {t1, t2, t3}
    NoToken = NoToken
    Request = {r1, r2}
    Indexed = TRUE
    MayFail = TRUE
SPECIFICATION Spec
SYMMETRY Symmetry
CHECK_DEADLOCK FALSE
INVARIANTS
    TypeOK
    OneAccountPerIdentity
    ProvidersAgree
    
    VerifiedWasProven
PROPERTY
    CredentialsOnlyGrow
