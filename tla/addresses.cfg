SPECIFICATION Spec
CONSTANTS
    a1 = a1
    a2 = a2
    p1 = p1
    Addresses = {a1, a2}
    MAX_FAILURES = 1
    NoFile = NoFile
    Torn = Torn
    Inbound = {p1}
    Endpoint <- RemoteEndpoint
    FixedSeeds = {a2}
    max_outbound_peers = 1
    MAX_ADDR_SIZE = 1
    MAX_LEARNED_PER_PEER = 1
    RECENT_ADDRS_MAX = 1
    MAX_ANCHORS = 1
    NoReply = NoReply
    MaxRestarts = 1
INVARIANTS
    TablesDisjoint
    PeersFileWhole
    AnchorsWereReached
PROPERTY
    NoEcho
