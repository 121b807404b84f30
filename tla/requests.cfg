SPECIFICATION RequestsSpec
CONSTANTS
    Assets = {a, b, c}
    Start = a
    Depths = {0, 1, 2}
    NodeCounts = {2, 4}
    Absent = Absent
    DefaultDepth = 2
    DefaultNodes = 3
    MaxDepth = 2
    MaxNodes = 3
    MaxChanges = 2
    MaxRows = 3
    MaxRecords = 5
    MaxNesting = 2
    MaxItems = 1
    Quote = Quote
    Escape = Escape
    Open = Open
    Close = Close
    Other = Other
CHECK_DEADLOCK FALSE
INVARIANT
    AnswersAreBetween
    
    PreviewsAreWhole
    DepthIsNesting
