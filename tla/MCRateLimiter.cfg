CONSTANTS
    Limit = 3
    Window = 4
    MaxFailures = 2
SPECIFICATION FairSpec
INVARIANTS
    TypeOK
    WindowCap
    BoundaryBurst
PROPERTY
    KeepsAdmitting
