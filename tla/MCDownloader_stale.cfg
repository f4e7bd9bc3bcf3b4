SPECIFICATION Spec
CONSTANTS
    Pieces = {0, 1}
    PieceSize <- ThreeAndTwo
    BlockSize = 2
    PipelineQueueSize = 2
    Conducts <- HonestOnly
    MaxWhims = 2
    MaxFailures = 2
    WireCap = 3
CHECK_DEADLOCK FALSE
INVARIANTS
    OnlyLiarsBanned
