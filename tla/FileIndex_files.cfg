SPECIFICATION Spec
CONSTANTS
    None = None
    Readable = {a, b}
    Locked = {lock}
    Unsupported = {blob}
    Blank = {scan}
    MaxTries = 3
    MaxEdits = 2
    Grows = TRUE
    MaxOutages = 2
    MaxUnread = 2
    MaxCuts = 1
INVARIANT TypeOK
INVARIANT IndexedReadable
 
INVARIANT CountsText
INVARIANT ByNameOnly
INVARIANT ThreeAttempts
