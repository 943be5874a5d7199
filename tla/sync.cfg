SPECIFICATION FairSpec
CONSTANTS
    Outbound = {1, 2}
    Inbound = {3}
    Feelers = {}
    NoBan = {}
    Honest = {2, 3}
    LowWork = {1}
    Unsolicited = {"empty", "unconnecting", "orphans", "invalid", "noncontinuous", "refused", "announce", "inv"}
    MaxChunk = 1
    BestHeight = 2
    IbdHeight = 2
    MAX_HEADERS_SIZE = 2
    kMaxUnsolicitedAnnouncement = 1
    kHeadersSyncTimeout = 0
    DISCOURAGEMENT_THRESHOLD = 2
    MAX_UNCONNECTING_HEADERS = 1
    Severe = 2
    Minor = 1
CHECK_DEADLOCK FALSE
INVARIANTS
    TypeOK
    SyncPeerOutbound
    MisbehavingPeersRemoved
PROPERTIES
    HeadersSynced
    RequestsSettle
