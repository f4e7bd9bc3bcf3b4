SPECIFICATION LiveStreaming
CONSTANTS
    w1 = w1
    w2 = w2
    k1 = k1
    None = None
    Absent = Absent
    Hole = Hole
    Pieces = {0, 1}
    Versions = {1, 2}
    Callers = {w1, w2}
    Closers = {k1}
    QueueSize = 1
    maxCacheSize = 2
    MaxWrites = 1
    FileLength <- Files
    IsVideo <- Video
    PieceLength = 2
    Length = 3
    MultiFile = TRUE
    MaxRead = 2
    Leftovers = {{}, {0}, {0, 1}}
CHECK_DEADLOCK FALSE
INVARIANTS
    NothingLost
    NoSendAfterClose
    CloseMeansDurable
    BytesInPlace
    StoredIsFound
PROPERTIES
    RefinesStore
    HolesAreOnTheWay
    CallsReturn
    CompletedReachesFiles
