SPECIFICATION LiveSpec
CONSTANTS
    c1 = c1
    c2 = c2
    h1 = h1
    h2 = h2
    TotalPieces = 2
    MaxRetries = 2
    StreamingMode = TRUE
    StreamingWindowSize = 1
    Hosts = {h1, h2}
    Conns <- TwoConns
    Initial <- OnlyFirst
    PexConns <- NoConn
    Host <- TwoHosts
    Answers <- SeedAnswer
    Bitfields <- AllOrLast
    ResumeSets <- FirstOrNone
    PrioritySets <- SeekLast
    DiskMayFail = TRUE
CHECK_DEADLOCK FALSE
INVARIANTS
    OnePoisonerCannotKill
PROPERTIES
    DownloadCompletes
    WorkersEnd
