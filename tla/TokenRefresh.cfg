SPECIFICATION FairSpec
CONSTANTS
    r1 = r1
    r2 = r2
    r3 = r3
    Requests = {r1, r2, r3}
    RevokedTokenShouldLogout = TRUE
INVARIANTS
    TypeOK
    OneRefreshAtATime
    WaitersAreWoken
    GivesNewerToken
    StoredIsNewest
PROPERTY EveryRequestEnds
CHECK_DEADLOCK FALSE
