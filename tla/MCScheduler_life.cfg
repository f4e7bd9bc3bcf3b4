SPECIFICATION LiveSpec
CONSTANTS
    a = a
    b = b
    c = c
    i = i
    p = p
    A = A
    B = B
    C = C
    NoAddr = NoAddr
    Addrs = {A, B, C}
    Conns <- Each
    Clients <- OnlyA
    Incoming <- OnlyI
    Addr <- AddrEach
    ErrCap = 3
    PeerCap = 1
    DialSlots = 1
    MaxAdded = 2
CHECK_DEADLOCK FALSE
INVARIANTS
    OneConnectionPerAddress
    ClientsJoined
PROPERTIES
    ResultRight
    ReturnsUnlessStuck
