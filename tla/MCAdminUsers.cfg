CONSTANTS
    a1 = a1
    a2 = a2
    NoUser = NoUser
    Account <- MCAccount
    Admin <- MCAccount
    Registered <- MCRegistered
    Searched <- MCSearched
    LIMIT = 1
    MaxBehind = 1
    MaxChanges = 2
    MayFail = TRUE
SPECIFICATION Spec
CHECK_DEADLOCK FALSE
INVARIANTS
    TypeOK
    SettledListIsCurrent
    
    NeverPastTheEnd
    ListsBelongToTheUser
