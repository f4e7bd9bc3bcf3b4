SPECIFICATION Spec
CONSTANTS
    Pieces = {p1, p2}
    Peers = {a, b}
    Dialers = {d1, d2}
    MaxActiveConnections = 1
    Unclosed = {a}
    NoPeer = NoPeer
INVARIANT CompleteIsFlushed
CHECK_DEADLOCK FALSE
