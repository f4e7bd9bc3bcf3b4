SPECIFICATION LiveDiscovery
CONSTANTS
    h = h
    u = u
    x = x
    y = y
    z = z
    bad = bad
    Nothing = Nothing
    Announces = {h, u}
    Http = {h}
    Addresses <- TwoAddresses
    MaxRetries = 3
    Peers = {x, y, z, bad}
    Unusable = {bad}
    PeersOf <- TrackerPeers
    Bits = 3
    ID <- Self
    Hosts = {1, 2}
    K = 2
    Rounds = 3
    infoHash <- Target
    Routers <- RouterContacts
    Strangers <- StrangerContacts
    MaxIncoming = 1
    Values <- PeersAt
    Knows <- Contact
    Broken <- BrokenNodes
CHECK_DEADLOCK FALSE
INVARIANTS
    TableSound
    AnswersItsQuery
    SearchIsThorough
    NothingHeardIsDropped
PROPERTIES
    GivesUpForAReason
    DiscoveryEnds
