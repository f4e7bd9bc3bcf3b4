SPECIFICATION Spec
CONSTANTS
    c1 = c1
    c2 = c2
    h1 = h1
    h2 = h2
    TotalPieces = 2
    MaxRetries = 1
    StreamingMode = TRUE
    StreamingWindowSize = 1
    Hosts = {h1, h2}
    Conns <- TwoConns
    Initial <- TwoConns
    PexConns <- NoConn
    Host <- TwoHosts
    Answers <- AnyAnswer
    Bitfields <- AllPieces2
    ResumeSets <- NoResume
    PrioritySets <- SeekLast
    DiskMayFail = FALSE
CHECK_DEADLOCK FALSE
INVARIANTS
    CompleteOrFailed
