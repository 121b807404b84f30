SPECIFICATION Spec
CONSTANTS
    c1 = c1
    r1 = r1
    r2 = r2
    Collectors = {c1}
    Contents = {"good", "malformed", "conflicting"}
    Ahead <- FastClock
    MaxTime = 4
    MaxSequence = 3
    MaxRuns = 2
    NoSnapshot = NoSnapshot
    Readings = {1, 2}
    Unreadable = TRUE
    SpoolLimit = 2
    MaxAge = 2
    MaxOrphans = 1
    Requests = {r1, r2}
    OrgOf <- OneOrg
    ReplayWindow = 1
    Tolerance = 0
    NoRequest = NoRequest
    Crashes = TRUE
INVARIANTS
    IInv
    SpoolHoldsOne
PROPERTIES
    ImplementsLog
SYMMETRY RequestSymmetry
