SPECIFICATION Spec
CONSTANTS
    None = None
    Readable = {a, b}
    Locked = {lock}
    Unsupported = {blob}
    Blank = {scan}
    MaxTries = 3
    MaxEdits = 2
    Grows = FALSE
    MaxOutages = 0
    MaxUnread = 0
    MaxCuts = 0
INVARIANT IndexedHasText
