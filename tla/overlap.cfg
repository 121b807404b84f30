SPECIFICATION FairSpec
CONSTANTS
    A = A
    B = B
    a1 = a1
    a2 = a2
    b1 = b1
    b2 = b2
    ea = ea
    eb = eb
    host = host
    environment = environment
    v1 = v1
    v2 = v2
    s1 = s1
    s2 = s2
    Connectors = {A, B}
    SourceIDs = {a1, a2, b1, b2}
    ConnectorOf <- MCConnectorOf
    StrongIDs = {s1, s2}
    HintsOf <- MCHintsOf
    Keys = {}
    Values = {v1, v2}
    Authority <- MCAuthority
    Fields = {}
    KeysOf <- MCKeysOf
    BlankFor <- MCBlankFor
    SourceEdges = {ea, eb}
    From <- MCFrom
    To <- MCTo
    TypeOf <- MCTypeOf
    Types = {host}
    Thresholds = {1, 2}
    AbsenceCap = 2
    NoAsset = NoAsset
    NoValue = NoValue
    Starts <- NewOrShared
    Limit = 1
    Snapshots = 1
CHECK_DEADLOCK FALSE
INVARIANT
    MissingIsAgreed
PROPERTIES
    BindingsStay
    TransactionsEnd
