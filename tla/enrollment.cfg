SPECIFICATION FairSpec
CONSTANTS
    h1 = h1
    h2 = h2
    t1 = t1
    r1 = r1
    r2 = r2
    Hosts = {h1, h2}
    Tokens = {t1}
    TokenOf <- SharedToken
    Requests = {r1, r2}
    Lifetime = 2
    MaxTime = 2
    NoRequest = NoRequest
INVARIANTS
    TokensEnrolOne
    IdentitiesAreOwn
PROPERTY
    TokensAreSpent
