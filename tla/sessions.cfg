SPECIFICATION FairSpec
CONSTANTS
    Logins = {l1, l2}
    Views = {v1, v2}
    Codes = {c1}
    Drift = 1
    Lifetime = 1
    MaxTime = 2
    NoCode = NoCode
    NoLogin = NoLogin
CHECK_DEADLOCK FALSE
INVARIANT
    CodesOpenOne
PROPERTY
    LogoutTakesHold
