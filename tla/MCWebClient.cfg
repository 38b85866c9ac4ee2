CONSTANTS
    Tab = {t1}
    Call = {c1, c2}
    MaxPair = 3
    MayFail = TRUE
SPECIFICATION FairSpec
INVARIANTS
    TypeOK
    OneInterceptorRefresh
    QueueIsServed
    
PROPERTY
    EveryCallSettles
