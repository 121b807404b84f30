SPECIFICATION ServerSpec
CONSTANTS
    new = new
    old = old
    Runners = {new, old}
    Known <- MCKnown
    MaxStarts = 2
    Precision = 2
    MaxTime = 2
    MaxEvents = 3
INVARIANTS
    OnceInOrder
    ServingIsMigrated
    LinksToLatest
    OrderedChainsVerify
    RemovalShows
PROPERTY
    RunnersServe
CHECK_DEADLOCK FALSE
