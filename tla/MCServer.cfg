CONSTANTS
    c1 = c1
    c2 = c2
    Connection <- MCConnection
    Routes <- MCRoutes
    Modes <- MCModes
    MaxRequests = 3
    MayFail = TRUE
SPECIFICATION FairSpec
CHECK_DEADLOCK FALSE
INVARIANTS
    TypeOK
    InFlightRequestsFinish
    ErrorsAnswerTheirMeaning

    
