CONSTANTS
    Tab = {t1}
    Call = {c1, c2}
    MaxPair = 3
    MayFail = FALSE
SPECIFICATION Spec
PROPERTY
    NoInterruption
