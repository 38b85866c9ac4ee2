CONSTANTS
    Code = {c1, c2}
    NoCode = NoCode
    Request = {r1, r2}
    MAX_OTP_ATTEMPTS = 2
    TenMinutes = 2
    MayFail = TRUE
SPECIFICATION Spec
SYMMETRY Symmetry
INVARIANTS
    TypeOK
    NewCodeRetiresOld
    LockoutRetiresCodes
    NoPasswordForGoogleOnly
PROPERTY
    AnsweredCodeIsSpent
