SPECIFICATION LiveSpec
CONSTANTS
    Pieces = {p1, p2}
    Peers = {a, b}
    Dialers = {d1, d2}
    MaxActiveConnections = 1
    Unclosed = {a}
    NoPeer = NoPeer
INVARIANTS
    CompleteIsTrue
    CompleteIsDurable
    DoneIsStored
    NoConnectionLeft
PROPERTIES
    RefinesJob
    EveryJobEnds
CHECK_DEADLOCK FALSE
