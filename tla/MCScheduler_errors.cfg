SPECIFICATION LiveSpec
CONSTANTS
    a = a
    b = b
    c = c
    i = i
    p = p
    A = A
    B = B
    C = C
    NoAddr = NoAddr
    Addrs = {A, B, C}
    Conns <- Three
    Clients <- Three
    Incoming <- Nobody
    Addr <- AddrThree
    ErrCap = 2
    PeerCap = 1
    DialSlots = 1
    MaxAdded = 0
CHECK_DEADLOCK FALSE
PROPERTIES
    Returns
