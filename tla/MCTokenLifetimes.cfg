CONSTANTS
    s1 = s1
    s2 = s2
    o1 = o1
    o2 = o2
    Session <- MCSession
    Op <- MCOp
    Setting <- MCSetting
    SECONDS <- MCSeconds
    DEFAULT = 2
    RESOLUTION = 2
    MaxTime = 5
SPECIFICATION Spec
CHECK_DEADLOCK FALSE
SYMMETRY MCSymmetry
INVARIANTS
    TypeOK
    BarredIsBarred
    SpentIsRemembered
