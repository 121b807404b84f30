SPECIFICATION FairSpec
CONSTANTS
    c1 = c1
    r1 = r1
    r2 = r2
    Collectors = {c1}
    Contents = {"good"}
    Ahead <- FastClock
    MaxTime = 4
    MaxSequence = 3
    MaxRuns = 2
    NoSnapshot = NoSnapshot
    Readings = {1, 2}
    Unreadable = FALSE
    SpoolLimit = 1
    MaxAge = 2
    MaxOrphans = 1
    Requests = {r1, r2}
    OrgOf <- OneOrg
    ReplayWindow = 1
    Tolerance = 1
    NoRequest = NoRequest
    Crashes = TRUE
INVARIANT OwnNumbersAdvance
PROPERTIES
    RepeatsAreAnswered
    
    RevocationTakesHold
