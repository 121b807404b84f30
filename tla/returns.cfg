SPECIFICATION Spec
CONSTANTS
    A = A
    B = B
    a1 = a1
    a2 = a2
    b1 = b1
    ea = ea
    ec = ec
    host = host
    environment = environment
    v1 = v1
    v2 = v2
    blank = blank
    s1 = s1
    Connectors = {A, B}
    SourceIDs = {a1, b1}
    ConnectorOf <- MCConnectorOf
    StrongIDs = {s1}
    HintsOf <- AnyHint
    Keys = {}
    Values = {}
    Authority <- MCAuthority
    Fields = {}
    KeysOf <- MCKeysOf
    BlankFor <- MCBlankFor
    SourceEdges = {}
    From <- MCFrom
    To <- MCTo
    TypeOf <- MCTypeOf
    Types = {}
    Thresholds = {2}
    AbsenceCap = 2
    NoAsset = NoAsset
    NoValue = NoValue
PROPERTIES
    ReturnsAreReported
