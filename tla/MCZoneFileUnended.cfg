SPECIFICATION Spec
CONSTANTS
    x = x
    y = y
    z = z
    Acme = Acme
    Empty = Empty
    HostLabels <- MCHostLabels
    MaxLabels = 5
    o1 = o1
    o2 = o2
    v1 = v1
    v2 = v2
    NoOwner = NoOwner
    NoValue = NoValue
    Words <- MCWords
    Owners <- MCOwners
    NewValues <- MCNewValues
    Files <- MCFiles
    PostedTexts <- MCPostedTexts
    Domains <- MCDomains
    MaxLines = 3
    AlwaysTerminated = FALSE
INVARIANTS
    ExactEdit
