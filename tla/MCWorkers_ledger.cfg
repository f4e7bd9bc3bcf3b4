SPECIFICATION Spec
CONSTANTS
    c1 = c1
    c2 = c2
    h1 = h1
    h2 = h2
    TotalPieces = 3
    MaxRetries = 1
    StreamingMode = TRUE
    StreamingWindowSize = 1
    Hosts = {h1, h2}
    Conns <- TwoConns
    Initial <- OnlyFirst
    PexConns <- PexSecond
    Host <- SameHost
    Answers <- MixedAnswer
    Bitfields <- AllOrLast
    ResumeSets <- FirstOrNone
    PrioritySets <- SeekLast
    DiskMayFail = TRUE
CHECK_DEADLOCK FALSE
INVARIANTS
    EveryPieceAccounted
    BucketsSound
    NoOfflinePeerCounted
PROPERTIES
    RefinesLedger
    RarestFirst
